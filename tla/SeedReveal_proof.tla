-------------------------- MODULE SeedReveal_proof --------------------------
(***************************************************************************)
(* Proofs about SeedReveal, for every set of tiers, rounds, calls and      *)
(* random values, every chunk size and every word size.                    *)
(***************************************************************************)
EXTENDS SeedReveal, TLAPS

-----------------------------------------------------------------------------
(* Arithmetic of rounds and chunks *)

\* The round arithmetic of reveal.rs stays in range, for round 0 too.
LEMMA RoundArithmetic ==
    ASSUME NEW t, NEW r \in RoundIds
    PROVE  /\ r \in 0 .. (U64 - 1)
           /\ expected_chunk_id(r) \in Nat
           /\ current_chunk_id(r) \in Nat
           /\ offset_in_chunk(t, r) \in 0 .. (CHUNK_SIZE - 1)
<1>1. r \in 0 .. (U64 - 1) /\ U64 \in Nat \ {0} /\ CHUNK_SIZE \in Nat \ {0}
  BY ConstAssumption
<1>2. (r - 1) % U64 \in Nat
  BY <1>1
<1> QED
  BY <1>1, <1>2 DEF expected_chunk_id, current_chunk_id, offset_in_chunk

\* The counter stays a u64.
LEMMA IncrementType ==
    ASSUME TypeOK, NEW t \in Tiers
    PROVE  increment_offset(t) \in 0 .. (U64 - 1)
<1>1. chunk_offsets[t] \in 0 .. (U64 - 1) /\ U64 \in Nat \ {0}
  BY ConstAssumption DEF TypeOK
<1> QED
  BY <1>1 DEF increment_offset

-----------------------------------------------------------------------------
(* Type correctness *)

SomeCall == AtRawRand \cup AtSign

\* A call cut at an await is a well-formed suspended call.
LEMMA AwaitType ==
    ASSUME TypeOK, NEW c \in Calls, NEW phase \in Phases, NEW t \in Tiers,
           NEW r \in RoundIds, NEW want \in Nat, Await(c, phase, t, r, want)
    PROVE  calls' \in [Calls -> SomeCall \cup {None}]
BY DEF TypeOK, Await, AtRawRand, SomeCall

\* A call that ends leaves the other calls well formed.
LEMMA ReturnType ==
    ASSUME TypeOK, NEW c \in Calls, Return(c)
    PROVE  calls' \in [Calls -> SomeCall \cup {None}]
BY DEF TypeOK, Return, SomeCall

\* A call that is suspended on a signature carries a well-formed chunk.
LEMMA SuspendedType ==
    ASSUME TypeOK, NEW c \in Calls, NEW phase \in Phases,
           Suspended(c, "sign_with_ecdsa", phase)
    PROVE  /\ calls[c] \in AtSign
           /\ calls[c].tier \in Tiers
           /\ calls[c].round \in RoundIds
           /\ calls[c].want \in Nat
           /\ SignedChunk(calls[c]) \in SeedChunk
<1>1. calls[c] \in AtSign
  BY DEF TypeOK, Suspended, AtRawRand, AtSign
<1> QED
  BY <1>1 DEF AtSign, SignedChunk, SeedChunk

\* What a reveal publishes is a proof, a round and a counter.
LEMMA PublishType ==
    ASSUME TypeOK, NEW t \in Tiers, NEW r \in RoundIds,
           NEW chunk \in SeedChunk, publish(t, r, chunk)
    PROVE  /\ revealed_seeds' \in [Tiers -> [RoundIds -> SeedProof \cup {None}]]
           /\ last_settled_rounds' \in [Tiers -> RoundIds \cup {0}]
           /\ chunk_offsets' \in [Tiers -> 0 .. (U64 - 1)]
<1>1. get_seed_proof(chunk, offset_in_chunk(t, r)) \in SeedProof
  BY RoundArithmetic DEF get_seed_proof, SeedProof, SeedChunk
<1>2. increment_offset(t) \in 0 .. (U64 - 1)
  BY IncrementType
<1> QED
  BY <1>1, <1>2 DEF publish, TypeOK

\* Promotion puts a chunk into CURRENT and empties NEXT.
LEMMA PromoteType ==
    ASSUME TypeOK, NEW t \in Tiers, NEW chunk \in SeedChunk,
           promote_next_to_current(t, chunk)
    PROVE  /\ seed_chunks' \in [Tiers -> SeedChunk \cup {None}]
           /\ seed_chunks_next' \in [Tiers -> SeedChunk \cup {None}]
BY DEF TypeOK, promote_next_to_current

\* Whatever a reveal does to the slots, it leaves chunks in them.
LEMMA MaintainType ==
    ASSUME TypeOK, NEW c \in Calls, NEW t \in Tiers, NEW r \in RoundIds,
           NEW chunk \in SeedChunk, maintain_slots(c, t, r, chunk)
    PROVE  /\ seed_chunks' \in [Tiers -> SeedChunk \cup {None}]
           /\ seed_chunks_next' \in [Tiers -> SeedChunk \cup {None}]
           /\ calls' \in [Calls -> SomeCall \cup {None}]
<1> DEFINE id == current_chunk_id(r)
           next == seed_chunks_next[t]
<1>1. id + 1 \in Nat /\ id + 2 \in Nat
  BY RoundArithmetic
<1>2. "prefetch" \in Phases /\ "boundary" \in Phases
  BY DEF Phases
<1>3. CASE /\ seed_chunks' = [seed_chunks EXCEPT ![t] = chunk]
           /\ UNCHANGED seed_chunks_next
           /\ ensure_next_chunk(c, t, r, id + 1, next)
  <2>1. calls' \in [Calls -> SomeCall \cup {None}]
    <3>1. CASE Holds(next, id + 1)
      BY <1>3, <3>1, ReturnType DEF ensure_next_chunk
    <3>2. CASE ~Holds(next, id + 1)
      BY <1>1, <1>2, <1>3, <3>2, AwaitType DEF ensure_next_chunk
    <3> QED
      BY <3>1, <3>2
  <2> QED
    BY <1>3, <2>1 DEF TypeOK
<1>4. CASE /\ Holds(next, id + 1)
           /\ promote_next_to_current(t, next)
           /\ Await(c, "prefetch", t, r, id + 2)
  <2>1. next \in SeedChunk
    BY <1>4 DEF Holds, TypeOK
  <2> QED
    BY <1>1, <1>2, <1>4, <2>1, PromoteType, AwaitType
<1>5. CASE /\ seed_chunks' = [seed_chunks EXCEPT ![t] = chunk]
           /\ UNCHANGED seed_chunks_next
           /\ Await(c, "boundary", t, r, id + 1)
  BY <1>1, <1>2, <1>5, AwaitType DEF TypeOK
<1> QED
  BY <1>3, <1>4, <1>5 DEF maintain_slots

\* One step per action of the canister.
LEMMA TypeStep == TypeOK /\ [Next]_vars => TypeOK'
<1> SUFFICES ASSUME TypeOK, [Next]_vars
             PROVE  TypeOK'
  OBVIOUS
<1> USE DEF SomeCall
<1>1. ASSUME NEW c \in Calls, NEW t \in Tiers, NEW r \in RoundIds,
             reveal_seed(c, t, r)
      PROVE  TypeOK'
  <2>1. CASE Await(c, "ensure_chunk", t, r, expected_chunk_id(r))
             /\ UNCHANGED stable
    <3>1. "ensure_chunk" \in Phases /\ expected_chunk_id(r) \in Nat
      BY RoundArithmetic DEF Phases
    <3> QED
      BY <2>1, <3>1, AwaitType DEF TypeOK, stable
  <2>2. CASE /\ ~needs_generation(t, r)
             /\ publish(t, r, seed_chunks[t])
             /\ maintain_slots(c, t, r, seed_chunks[t])
    <3>1. seed_chunks[t] \in SeedChunk
      BY <2>2 DEF needs_generation, Holds, TypeOK
    <3> QED
      BY <2>2, <3>1, PublishType, MaintainType DEF TypeOK
  <2> QED
    BY <1>1, <2>1, <2>2 DEF reveal_seed
<1>2. ASSUME NEW c \in Calls, raw_rand_reply(c)
      PROVE  TypeOK'
  <2>1. calls[c] \in AtRawRand
    BY <1>2 DEF raw_rand_reply, TypeOK, AtRawRand, AtSign
  <2>2. PICK m \in Masters :
           calls' = [calls EXCEPT ![c] =
              [at |-> "sign_with_ecdsa", phase |-> calls[c].phase,
               tier |-> calls[c].tier, round |-> calls[c].round,
               want |-> calls[c].want, master |-> m]]
    BY <1>2 DEF raw_rand_reply
  <2> QED
    BY <1>2, <2>1, <2>2 DEF raw_rand_reply, TypeOK, AtRawRand, AtSign, stable
<1>3. ASSUME NEW c \in Calls, ensure_chunk_signed(c)
      PROVE  TypeOK'
  <2>1. "ensure_chunk" \in Phases
    BY DEF Phases
  <2> QED
    BY <1>3, <2>1, SuspendedType, PublishType, MaintainType
    DEF ensure_chunk_signed, TypeOK
<1>4. ASSUME NEW c \in Calls, boundary_signed(c)
      PROVE  TypeOK'
  <2> DEFINE t == calls[c].tier
             chunk == SignedChunk(calls[c])
  <2>1. "boundary" \in Phases /\ "prefetch" \in Phases
    BY DEF Phases
  <2>2. t \in Tiers /\ calls[c].round \in RoundIds /\ calls[c].want + 1 \in Nat
        /\ chunk \in SeedChunk
    BY <1>4, <2>1, SuspendedType DEF boundary_signed
  <2>3. next_after_await(t, chunk) \in SeedChunk
    BY <2>2 DEF next_after_await, Holds, TypeOK
  <2>4. /\ promote_next_to_current(t, next_after_await(t, chunk))
        /\ Await(c, "prefetch", t, calls[c].round, calls[c].want + 1)
        /\ UNCHANGED <<chunk_offsets, last_settled_rounds, revealed_seeds>>
    BY <1>4 DEF boundary_signed
  <2>5. /\ seed_chunks' \in [Tiers -> SeedChunk \cup {None}]
        /\ seed_chunks_next' \in [Tiers -> SeedChunk \cup {None}]
    BY <2>2, <2>3, <2>4, PromoteType
  <2>6. calls' \in [Calls -> SomeCall \cup {None}]
    BY <2>1, <2>2, <2>4, AwaitType
  <2> QED
    BY <2>4, <2>5, <2>6 DEF TypeOK
<1>5. ASSUME NEW c \in Calls, prefetch_signed(c)
      PROVE  TypeOK'
  <2> DEFINE t == calls[c].tier
             chunk == SignedChunk(calls[c])
  <2>1. t \in Tiers /\ chunk \in SeedChunk
    BY <1>5, SuspendedType DEF prefetch_signed, Phases
  <2>2. next_after_await(t, chunk) \in SeedChunk
    BY <2>1 DEF next_after_await, Holds, TypeOK
  <2> QED
    BY <1>5, <2>1, <2>2, ReturnType DEF prefetch_signed, TypeOK
<1>6. ASSUME NEW c \in Calls, call_failed(c)
      PROVE  TypeOK'
  BY <1>6, ReturnType DEF call_failed, TypeOK, stable
<1>7. CASE upgrade
  BY <1>7 DEF upgrade, TypeOK, stable
<1>8. ASSUME NEW c \in Calls, NEW t \in Tiers, NEW r \in RoundIds,
             refresh_chunks_for_tier(c, t, r)
      PROVE  TypeOK'
  <2>1. "refresh" \in Phases /\ expected_chunk_id(r) \in Nat
    BY RoundArithmetic DEF Phases
  <2> QED
    BY <1>8, <2>1, AwaitType DEF refresh_chunks_for_tier, TypeOK, stable
<1>9. ASSUME NEW c \in Calls, refresh_signed(c)
      PROVE  TypeOK'
  <2>1. calls[c].tier \in Tiers /\ SignedChunk(calls[c]) \in SeedChunk
    BY <1>9, SuspendedType DEF refresh_signed, Phases
  <2> QED
    BY <1>9, <2>1, ReturnType DEF refresh_signed, TypeOK
<1>10. ASSUME NEW t \in Tiers, NEW offset \in 0 .. (U64 - 1),
              set_chunk_offset(t, offset)
       PROVE  TypeOK'
  BY <1>10 DEF set_chunk_offset, slots, TypeOK
<1>11. ASSUME NEW t \in Tiers, NEW r \in RoundIds,
              set_last_settled_round(t, r)
       PROVE  TypeOK'
  BY <1>11 DEF set_last_settled_round, slots, TypeOK
<1>14. ASSUME NEW t \in Tiers, NEW r \in RoundIds,
              clear_revealed_seed(t, r)
       PROVE  TypeOK'
  <2>1. revealed_seeds' \in [Tiers -> [RoundIds -> SeedProof \cup {None}]]
    BY <1>14 DEF clear_revealed_seed, TypeOK
  <2> QED
    BY <1>14, <2>1 DEF clear_revealed_seed, slots, TypeOK
<1>12. CASE clear_all_data
  BY <1>12, ConstAssumption DEF clear_all_data, TypeOK
<1>13. CASE UNCHANGED vars
  BY <1>13 DEF vars, stable, TypeOK
<1> QED
  BY <1>1, <1>2, <1>3, <1>4, <1>5, <1>6, <1>7, <1>8, <1>9, <1>10, <1>11,
     <1>12, <1>13, <1>14
  DEF Next, RevealNext, RecoveryNext, Answered

\* The empty canister is well formed.
LEMMA TypeInit == Init => TypeOK
BY ConstAssumption DEF Init, TypeOK

\* The state of the canister is well formed in every execution, recovery
\* operations and round 0 included.
THEOREM TypeCorrect == Spec => []TypeOK
<1> QED
  BY TypeInit, TypeStep, PTL DEF Spec

-----------------------------------------------------------------------------
(* ProofBinding *)

\* compute_round_id is the inverse of the split into chunk and offset.
LEMMA RoundTrip ==
    ASSUME NEW t, NEW r \in Rounds
    PROVE  compute_round_id(expected_chunk_id(r), offset_in_chunk(t, r)) = r
<1>1. r \in 1 .. (U64 - 1) /\ U64 \in Nat \ {0} /\ CHUNK_SIZE \in Nat \ {0}
  BY ConstAssumption DEF Rounds
<1>2. (r - 1) % U64 = r - 1
  BY <1>1
<1>3. expected_chunk_id(r) * CHUNK_SIZE + offset_in_chunk(t, r) + 1 = r
  <2>1. ((r - 1) \div CHUNK_SIZE) * CHUNK_SIZE + ((r - 1) % CHUNK_SIZE) = r - 1
    BY <1>1
  <2>2. /\ expected_chunk_id(r) = (r - 1) \div CHUNK_SIZE
        /\ offset_in_chunk(t, r) = (r - 1) % CHUNK_SIZE
    BY <1>1, <1>2 DEF expected_chunk_id, offset_in_chunk
  <2>3. /\ (r - 1) \div CHUNK_SIZE \in Int
        /\ (r - 1) % CHUNK_SIZE \in Int
    BY <1>1
  <2> QED
    BY <1>1, <2>1, <2>2, <2>3
<1>4. r % U64 = r
  BY <1>1
<1> QED
  BY <1>3, <1>4 DEF compute_round_id

\* A call that generates CURRENT in order to reveal wants the chunk of the
\* round it reveals: the link between the check before the awaits and the
\* publication after them.
WantsItsChunk ==
    \A c \in Calls :
        calls[c] # None /\ calls[c].phase = "ensure_chunk" =>
            calls[c].want = expected_chunk_id(calls[c].round)

BindingInv == TypeOK /\ WantsItsChunk /\ ProofBinding

\* Publishing from the chunk of the round keeps every proof bound to its
\* round.
LEMMA PublishBinds ==
    ASSUME TypeOK, ProofBinding, NEW t \in Tiers, NEW r \in RoundIds,
           NEW chunk \in SeedChunk, chunk.chunk_id = expected_chunk_id(r),
           publish(t, r, chunk)
    PROVE  ProofBinding'
<1> SUFFICES ASSUME NEW u \in Tiers, NEW q \in Rounds, Revealed(u, q)'
             PROVE  compute_round_id(revealed_seeds'[u][q].chunk_id,
                                     revealed_seeds'[u][q].offset) = q
  BY DEF ProofBinding, compute_round_id
<1>1. q \in RoundIds
  BY DEF Rounds
<1>2. CASE u = t /\ q = r
  <2>1. revealed_seeds'[t][r] = get_seed_proof(chunk, offset_in_chunk(t, r))
    BY <1>1, <1>2 DEF publish, TypeOK
  <2>2. /\ revealed_seeds'[t][r].chunk_id = expected_chunk_id(r)
        /\ revealed_seeds'[t][r].offset = offset_in_chunk(t, r)
    BY <2>1 DEF get_seed_proof
  <2> QED
    BY <1>2, <2>2, RoundTrip
<1>3. CASE ~(u = t /\ q = r)
  <2>1. revealed_seeds'[u][q] = revealed_seeds[u][q]
    BY <1>1, <1>3 DEF publish, TypeOK
  <2> QED
    BY <2>1 DEF ProofBinding, Revealed
<1> QED
  BY <1>2, <1>3

\* What the slot maintenance leaves behind is never a call that generates
\* CURRENT for a reveal.
LEMMA MaintainCalls ==
    ASSUME TypeOK, NEW c \in Calls, NEW t \in Tiers, NEW r \in RoundIds,
           NEW chunk, maintain_slots(c, t, r, chunk)
    PROVE  \/ calls' = [calls EXCEPT ![c] = None]
           \/ \E phase \in {"prefetch", "boundary"}, want \in Nat :
                Await(c, phase, t, r, want)
<1>1. current_chunk_id(r) + 1 \in Nat /\ current_chunk_id(r) + 2 \in Nat
  BY RoundArithmetic
<1> QED
  BY <1>1 DEF maintain_slots, ensure_next_chunk, Return

\* A reveal never goes on to fetch CURRENT: what it awaits after publishing
\* is NEXT.
LEMMA MaintainWants ==
    ASSUME TypeOK, WantsItsChunk, NEW c \in Calls, NEW t \in Tiers,
           NEW r \in RoundIds, NEW chunk, maintain_slots(c, t, r, chunk)
    PROVE  WantsItsChunk'
<1>1. CASE calls' = [calls EXCEPT ![c] = None]
  BY <1>1 DEF WantsItsChunk, TypeOK, expected_chunk_id
<1>2. ASSUME NEW phase \in {"prefetch", "boundary"}, NEW want \in Nat,
             Await(c, phase, t, r, want)
      PROVE  WantsItsChunk'
  BY <1>2 DEF WantsItsChunk, TypeOK, Await, expected_chunk_id
<1> QED
  BY <1>1, <1>2, MaintainCalls

\* A call that ends leaves the others wanting what they wanted.
LEMMA ReturnWants ==
    ASSUME TypeOK, WantsItsChunk, NEW c \in Calls, Return(c)
    PROVE  WantsItsChunk'
BY DEF WantsItsChunk, TypeOK, Return, expected_chunk_id

\* A call cut at an await for CURRENT wants the chunk of its round.
LEMMA AwaitWants ==
    ASSUME TypeOK, WantsItsChunk, NEW c \in Calls, NEW phase \in Phases,
           NEW t \in Tiers, NEW r \in RoundIds, NEW want \in Nat,
           phase = "ensure_chunk" => want = expected_chunk_id(r),
           Await(c, phase, t, r, want)
    PROVE  WantsItsChunk'
BY DEF WantsItsChunk, TypeOK, Await, expected_chunk_id

\* The proofs published stay as they are.
LEMMA SameProofsBind == ProofBinding /\ UNCHANGED revealed_seeds => ProofBinding'
BY DEF ProofBinding, Revealed, compute_round_id

\* The strengthened invariant behind ProofBinding is inductive.
LEMMA BindingStep == BindingInv /\ [Next]_vars => BindingInv'
<1> SUFFICES ASSUME BindingInv, [Next]_vars
             PROVE  BindingInv'
  OBVIOUS
<1> USE DEF BindingInv
<1>t. TypeOK'
  BY TypeStep
<1>1. ASSUME NEW c \in Calls, NEW t \in Tiers, NEW r \in RoundIds,
             reveal_seed(c, t, r)
      PROVE  BindingInv'
  <2>1. CASE Await(c, "ensure_chunk", t, r, expected_chunk_id(r))
             /\ UNCHANGED stable
    <3>1. "ensure_chunk" \in Phases /\ expected_chunk_id(r) \in Nat
      BY RoundArithmetic DEF Phases
    <3> QED
      BY <1>t, <2>1, <3>1, AwaitWants, SameProofsBind DEF stable
  <2>2. CASE /\ ~needs_generation(t, r)
             /\ publish(t, r, seed_chunks[t])
             /\ maintain_slots(c, t, r, seed_chunks[t])
    <3>1. /\ seed_chunks[t] \in SeedChunk
          /\ seed_chunks[t].chunk_id = expected_chunk_id(r)
      BY <2>2 DEF needs_generation, Holds, TypeOK
    <3>2. ProofBinding'
      BY <2>2, <3>1, PublishBinds
    <3>3. WantsItsChunk'
      BY <2>2, <3>1, MaintainWants
    <3> QED
      BY <1>t, <3>2, <3>3
  <2> QED
    BY <1>1, <2>1, <2>2 DEF reveal_seed
<1>2. ASSUME NEW c \in Calls, raw_rand_reply(c)
      PROVE  BindingInv'
  <2>1. PICK m \in Masters :
           calls' = [calls EXCEPT ![c] =
              [at |-> "sign_with_ecdsa", phase |-> calls[c].phase,
               tier |-> calls[c].tier, round |-> calls[c].round,
               want |-> calls[c].want, master |-> m]]
    BY <1>2 DEF raw_rand_reply
  <2>2. WantsItsChunk'
    BY <1>2, <2>1 DEF raw_rand_reply, WantsItsChunk, TypeOK, expected_chunk_id
  <2> QED
    BY <1>2, <1>t, <2>2, SameProofsBind DEF raw_rand_reply, stable
<1>3. ASSUME NEW c \in Calls, ensure_chunk_signed(c)
      PROVE  BindingInv'
  <2> DEFINE t == calls[c].tier
             r == calls[c].round
             chunk == SignedChunk(calls[c])
  <2>1. t \in Tiers /\ r \in RoundIds /\ chunk \in SeedChunk
    BY <1>3, SuspendedType DEF ensure_chunk_signed, Phases
  <2>2. chunk.chunk_id = expected_chunk_id(r)
    BY <1>3 DEF ensure_chunk_signed, Suspended, WantsItsChunk, SignedChunk
  <2>3. publish(t, r, chunk) /\ maintain_slots(c, t, r, chunk)
    BY <1>3 DEF ensure_chunk_signed
  <2>4. ProofBinding'
    BY <2>1, <2>2, <2>3, PublishBinds
  <2>5. WantsItsChunk'
    BY <2>1, <2>3, MaintainWants
  <2> QED
    BY <1>t, <2>4, <2>5
<1>4. ASSUME NEW c \in Calls, boundary_signed(c)
      PROVE  BindingInv'
  <2>1. /\ calls[c].tier \in Tiers
        /\ calls[c].round \in RoundIds
        /\ calls[c].want + 1 \in Nat
        /\ "prefetch" \in Phases
    BY <1>4, SuspendedType DEF boundary_signed, Phases
  <2>2. WantsItsChunk'
    BY <1>4, <2>1, AwaitWants DEF boundary_signed
  <2> QED
    BY <1>4, <1>t, <2>2, SameProofsBind DEF boundary_signed
<1>5. ASSUME NEW c \in Calls, prefetch_signed(c)
      PROVE  BindingInv'
  BY <1>5, <1>t, ReturnWants, SameProofsBind DEF prefetch_signed
<1>6. ASSUME NEW c \in Calls, call_failed(c)
      PROVE  BindingInv'
  BY <1>6, <1>t, ReturnWants, SameProofsBind DEF call_failed, stable
<1>7. CASE upgrade
  <2>1. WantsItsChunk'
    BY <1>7 DEF upgrade, WantsItsChunk
  <2> QED
    BY <1>7, <1>t, <2>1, SameProofsBind DEF upgrade, stable
<1>8. ASSUME NEW c \in Calls, NEW t \in Tiers, NEW r \in RoundIds,
             refresh_chunks_for_tier(c, t, r)
      PROVE  BindingInv'
  <2>1. "refresh" \in Phases /\ expected_chunk_id(r) \in Nat
    BY RoundArithmetic DEF Phases
  <2> QED
    BY <1>8, <1>t, <2>1, AwaitWants, SameProofsBind
    DEF refresh_chunks_for_tier, stable
<1>9. ASSUME NEW c \in Calls, refresh_signed(c)
      PROVE  BindingInv'
  BY <1>9, <1>t, ReturnWants, SameProofsBind DEF refresh_signed
<1>10. CASE UNCHANGED <<calls, revealed_seeds>>
  <2>1. WantsItsChunk'
    BY <1>10 DEF WantsItsChunk, expected_chunk_id
  <2> QED
    BY <1>10, <1>t, <2>1, SameProofsBind
<1>11. ASSUME NEW t \in Tiers, NEW r \in RoundIds, clear_revealed_seed(t, r)
       PROVE  BindingInv'
  <2>1. WantsItsChunk'
    BY <1>11 DEF clear_revealed_seed, WantsItsChunk, expected_chunk_id
  <2>2. ProofBinding'
    BY <1>11 DEF clear_revealed_seed, ProofBinding, Revealed, TypeOK, Rounds,
                 compute_round_id
  <2> QED
    BY <1>t, <2>1, <2>2
<1>12. CASE clear_all_data
  <2>1. WantsItsChunk'
    BY <1>12 DEF clear_all_data, WantsItsChunk, expected_chunk_id
  <2>2. ProofBinding'
    BY <1>12 DEF clear_all_data, ProofBinding, Revealed, Rounds
  <2> QED
    BY <1>t, <2>1, <2>2
<1>13. ASSUME NEW t \in Tiers, NEW offset, set_chunk_offset(t, offset)
       PROVE  BindingInv'
  BY <1>10, <1>13 DEF set_chunk_offset
<1>14. ASSUME NEW t \in Tiers, NEW r \in RoundIds, set_last_settled_round(t, r)
       PROVE  BindingInv'
  BY <1>10, <1>14 DEF set_last_settled_round
<1>15. CASE UNCHANGED vars
  BY <1>10, <1>15 DEF vars, stable
<1> QED
  BY <1>1, <1>2, <1>3, <1>4, <1>5, <1>6, <1>7, <1>8, <1>9, <1>11, <1>12,
     <1>13, <1>14, <1>15
  DEF Next, RevealNext, RecoveryNext, Answered

\* Every published proof is the proof of the round it is published for,
\* whatever calls overlapped, failed or were cut by an upgrade, and whatever
\* an admin repaired: the chunk read after the awaits is the one the round
\* belongs to.
THEOREM ProofsBindTheirRound == Spec => []ProofBinding
<1>1. Init => BindingInv
  BY TypeInit DEF Init, BindingInv, WantsItsChunk, ProofBinding, Revealed, Rounds
<1> QED
  BY <1>1, BindingStep, PTL DEF Spec, BindingInv

-----------------------------------------------------------------------------
(* SeedsUnique *)

\* Chunk k of tier t is derived from random value m somewhere: in a slot, in
\* a published proof, or in a call that waits for its signature.
InSlot(slot, k, m) == slot # None /\ slot.chunk_id = k /\ slot.master = m

InCall(call, t, k, m) ==
    /\ call # None
    /\ call.at = "sign_with_ecdsa"
    /\ call.tier = t
    /\ call.want = k
    /\ call.master = m

Binds(t, k, m) ==
    \/ InSlot(seed_chunks[t], k, m)
    \/ InSlot(seed_chunks_next[t], k, m)
    \/ \E r \in RoundIds : InSlot(revealed_seeds[t][r], k, m)
    \/ \E c \in Calls : InCall(calls[c], t, k, m)

\* A random value serves one chunk of one tier.
OneChunkPerMaster ==
    \A t1, t2 \in Tiers, k1, k2 \in Nat, m \in Masters :
        Binds(t1, k1, m) /\ Binds(t2, k2, m) => t1 = t2 /\ k1 = k2

UniqueInv == BindingInv /\ OneChunkPerMaster

\* Whatever is bound is in use, so raw_rand does not draw it again.
LEMMA BoundInUse ==
    ASSUME NEW t \in Tiers, NEW k, NEW m, Binds(t, k, m)
    PROVE  m \in MastersInUse
<1> DEFINE stored == UNION {{seed_chunks[u], seed_chunks_next[u]} : u \in Tiers}
           proofs == UNION {{revealed_seeds[u][r] : r \in RoundIds} : u \in Tiers}
           awaiting == {call \in {calls[c] : c \in Calls} :
                           call # None /\ call.at = "sign_with_ecdsa"}
           used == ((stored \cup proofs) \ {None}) \cup awaiting
<1>1. MastersInUse = {x.master : x \in used}
  BY DEF MastersInUse
<1>2. \E x \in used : x.master = m
  <2>1. CASE InSlot(seed_chunks[t], k, m)
    <3>1. seed_chunks[t] \in used
      BY <2>1 DEF InSlot
    <3> QED
      BY <2>1, <3>1 DEF InSlot
  <2>2. CASE InSlot(seed_chunks_next[t], k, m)
    <3>1. seed_chunks_next[t] \in used
      BY <2>2 DEF InSlot
    <3> QED
      BY <2>2, <3>1 DEF InSlot
  <2>3. ASSUME NEW r \in RoundIds, InSlot(revealed_seeds[t][r], k, m)
        PROVE  \E x \in used : x.master = m
    <3>1. revealed_seeds[t][r] \in used
      BY <2>3 DEF InSlot
    <3> QED
      BY <2>3, <3>1 DEF InSlot
  <2>4. ASSUME NEW c \in Calls, InCall(calls[c], t, k, m)
        PROVE  \E x \in used : x.master = m
    <3>1. calls[c] \in used
      BY <2>4 DEF InCall
    <3> QED
      BY <2>4, <3>1 DEF InCall
  <2> QED
    BY <2>1, <2>2, <2>3, <2>4 DEF Binds
<1> QED
  BY <1>1, <1>2

\* If a step binds nothing new, OneChunkPerMaster survives it.
LEMMA NoNewBinding ==
    ASSUME OneChunkPerMaster,
           \A t \in Tiers, k \in Nat, m \in Masters :
               Binds(t, k, m)' => Binds(t, k, m)
    PROVE  OneChunkPerMaster'
BY DEF OneChunkPerMaster

\* A step that leaves every call as it is, ends it, or makes it ask for a
\* random value adds no call that carries one.
CallsCarryNoMore ==
    \A c \in Calls :
        \/ calls'[c] = calls[c]
        \/ calls'[c] = None
        \/ calls'[c] # None /\ calls'[c].at = "raw_rand"

\* A call that ends carries no chunk.
LEMMA ReturnCarries ==
    ASSUME TypeOK, NEW c \in Calls, Return(c)
    PROVE  CallsCarryNoMore
BY DEF CallsCarryNoMore, Return, TypeOK

\* A call that awaits raw_rand has not returned.
LEMMA AwaitIsSome ==
    ASSUME TypeOK, NEW c \in Calls, NEW phase \in Phases, NEW t \in Tiers,
           NEW r \in RoundIds, NEW want \in Nat, Await(c, phase, t, r, want)
    PROVE  calls'[c] # None /\ calls'[c].at = "raw_rand"
<1>1. [at |-> "raw_rand", phase |-> phase, tier |-> t, round |-> r,
       want |-> want] \in AtRawRand
  BY DEF AtRawRand
<1> QED
  BY <1>1, NoneAssumption DEF Await, TypeOK

\* A call that awaits raw_rand carries no chunk yet.
LEMMA AwaitCarries ==
    ASSUME TypeOK, NEW c \in Calls, NEW phase \in Phases, NEW t \in Tiers,
           NEW r \in RoundIds, NEW want \in Nat, Await(c, phase, t, r, want)
    PROVE  CallsCarryNoMore
<1>2. calls'[c] # None /\ calls'[c].at = "raw_rand"
  BY AwaitIsSome
<1>3. \A d \in Calls : d # c => calls'[d] = calls[d]
  BY DEF Await, TypeOK
<1> QED
  BY <1>2, <1>3 DEF CallsCarryNoMore

\* A step that only moves, copies or drops chunks that are bound already
\* binds nothing new.
LEMMA MovesBindNothing ==
    ASSUME CallsCarryNoMore,
           \A t \in Tiers, k \in Nat, m \in Masters :
               /\ InSlot(seed_chunks'[t], k, m) => Binds(t, k, m)
               /\ InSlot(seed_chunks_next'[t], k, m) => Binds(t, k, m)
               /\ \A r \in RoundIds :
                     InSlot(revealed_seeds'[t][r], k, m) => Binds(t, k, m)
    PROVE  \A t \in Tiers, k \in Nat, m \in Masters :
               Binds(t, k, m)' => Binds(t, k, m)
<1> SUFFICES ASSUME NEW t \in Tiers, NEW k \in Nat, NEW m \in Masters,
                    Binds(t, k, m)'
             PROVE  Binds(t, k, m)
  OBVIOUS
<1>1. ASSUME NEW c \in Calls, InCall(calls'[c], t, k, m)
      PROVE  Binds(t, k, m)
  <2>1. calls'[c] = calls[c]
    BY <1>1 DEF InCall, CallsCarryNoMore
  <2> QED
    BY <1>1, <2>1 DEF Binds
<1> QED
  BY <1>1 DEF Binds, InSlot, InCall

\* A chunk that is put into CURRENT and from which a proof is published was
\* bound before; so was what promotion moves.
LEMMA RevealBindsNothing ==
    ASSUME TypeOK, NEW c \in Calls, NEW t \in Tiers, NEW r \in RoundIds,
           NEW chunk \in SeedChunk, Binds(t, chunk.chunk_id, chunk.master),
           publish(t, r, chunk), maintain_slots(c, t, r, chunk)
    PROVE  \A u \in Tiers, k \in Nat, m \in Masters :
               Binds(u, k, m)' => Binds(u, k, m)
<1>1. CallsCarryNoMore
  <2>1. CASE calls' = [calls EXCEPT ![c] = None]
    BY <2>1, ReturnCarries DEF Return
  <2>2. ASSUME NEW phase \in {"prefetch", "boundary"}, NEW want \in Nat,
               Await(c, phase, t, r, want)
        PROVE  CallsCarryNoMore
    <3>1. phase \in Phases
      BY DEF Phases
    <3> QED
      BY <2>2, <3>1, AwaitCarries
  <2> QED
    BY <2>1, <2>2, MaintainCalls
<1> SUFFICES ASSUME NEW u \in Tiers, NEW k \in Nat, NEW m \in Masters
             PROVE  /\ InSlot(seed_chunks'[u], k, m) => Binds(u, k, m)
                    /\ InSlot(seed_chunks_next'[u], k, m) => Binds(u, k, m)
                    /\ \A q \in RoundIds :
                          InSlot(revealed_seeds'[u][q], k, m) => Binds(u, k, m)
  BY <1>1, MovesBindNothing
<1>2. InSlot(chunk, k, m) => Binds(t, k, m)
  BY DEF InSlot
<1>3. InSlot(seed_chunks'[u], k, m) => Binds(u, k, m)
  <2>1. \/ seed_chunks' = [seed_chunks EXCEPT ![t] = chunk]
        \/ seed_chunks' = [seed_chunks EXCEPT ![t] = seed_chunks_next[t]]
    BY DEF maintain_slots, promote_next_to_current
  <2>2. \/ seed_chunks'[u] = seed_chunks[u]
        \/ u = t /\ seed_chunks'[u] = chunk
        \/ seed_chunks'[u] = seed_chunks_next[u]
    BY <2>1 DEF TypeOK
  <2> QED
    BY <1>2, <2>2 DEF Binds
<1>4. InSlot(seed_chunks_next'[u], k, m) => Binds(u, k, m)
  <2>1. seed_chunks_next'[u] \in {seed_chunks_next[u], None}
    BY DEF maintain_slots, promote_next_to_current, TypeOK
  <2> QED
    BY <2>1 DEF Binds, InSlot
<1>5. ASSUME NEW q \in RoundIds, InSlot(revealed_seeds'[u][q], k, m)
      PROVE  Binds(u, k, m)
  <2>1. CASE u = t /\ q = r
    <3>1. revealed_seeds'[t][r] = get_seed_proof(chunk, offset_in_chunk(t, r))
      BY DEF publish, TypeOK
    <3>2. chunk.chunk_id = k /\ chunk.master = m
      BY <1>5, <2>1, <3>1 DEF InSlot, get_seed_proof
    <3> QED
      BY <2>1, <3>2
  <2>2. CASE ~(u = t /\ q = r)
    <3>1. revealed_seeds'[u][q] = revealed_seeds[u][q]
      BY <2>2 DEF publish, TypeOK
    <3> QED
      BY <1>5, <3>1 DEF Binds
  <2> QED
    BY <2>1, <2>2
<1> QED
  BY <1>3, <1>4, <1>5

\* A call that has its signature binds the chunk it carries.
LEMMA SignedIsBound ==
    ASSUME TypeOK, NEW c \in Calls, NEW phase \in Phases,
           Suspended(c, "sign_with_ecdsa", phase)
    PROVE  Binds(calls[c].tier, SignedChunk(calls[c]).chunk_id,
                 SignedChunk(calls[c]).master)
BY DEF Binds, InCall, Suspended, SignedChunk

\* Slots that only keep what is in the slots already.
LEMMA KeepsBound ==
    ASSUME TypeOK, CallsCarryNoMore, UNCHANGED <<slots, revealed_seeds>>
    PROVE  \A t \in Tiers, k \in Nat, m \in Masters :
               Binds(t, k, m)' => Binds(t, k, m)
<1>1. \A t \in Tiers, k \in Nat, m \in Masters :
          /\ InSlot(seed_chunks'[t], k, m) => Binds(t, k, m)
          /\ InSlot(seed_chunks_next'[t], k, m) => Binds(t, k, m)
          /\ \A r \in RoundIds :
                InSlot(revealed_seeds'[t][r], k, m) => Binds(t, k, m)
  BY DEF Binds, slots
<1> QED
  BY <1>1, MovesBindNothing

\* The only step that binds anything: the value drawn was not in use.
LEMMA DrawIsFresh ==
    ASSUME TypeOK, OneChunkPerMaster, NEW c \in Calls, raw_rand_reply(c)
    PROVE  OneChunkPerMaster'
<1>1. PICK m \in Masters \ MastersInUse :
         calls' = [calls EXCEPT ![c] =
            [at |-> "sign_with_ecdsa", phase |-> calls[c].phase,
             tier |-> calls[c].tier, round |-> calls[c].round,
             want |-> calls[c].want, master |-> m]]
  BY DEF raw_rand_reply
<1> DEFINE u == calls[c].tier
           j == calls[c].want
<1>2. ASSUME NEW t \in Tiers, NEW k \in Nat, NEW n \in Masters, Binds(t, k, n)'
      PROVE  Binds(t, k, n) \/ (t = u /\ k = j /\ n = m)
  <2>1. UNCHANGED stable
    BY DEF raw_rand_reply
  <2>2. ASSUME NEW d \in Calls, InCall(calls'[d], t, k, n)
        PROVE  Binds(t, k, n) \/ (t = u /\ k = j /\ n = m)
    <3>1. CASE d = c
      BY <1>1, <2>2, <3>1 DEF InCall, TypeOK
    <3>2. CASE d # c
      <4>1. calls'[d] = calls[d]
        BY <1>1, <3>2 DEF TypeOK
      <4> QED
        BY <2>2, <4>1 DEF Binds
    <3> QED
      BY <3>1, <3>2
  <2> QED
    BY <1>2, <2>1, <2>2 DEF Binds, InSlot, InCall, stable
<1>3. \A t \in Tiers, k \in Nat : ~Binds(t, k, m)
  BY <1>1, BoundInUse
<1> SUFFICES ASSUME NEW t1 \in Tiers, NEW t2 \in Tiers, NEW k1 \in Nat,
                    NEW k2 \in Nat, NEW n \in Masters,
                    Binds(t1, k1, n)', Binds(t2, k2, n)'
             PROVE  t1 = t2 /\ k1 = k2
  BY DEF OneChunkPerMaster
<1>4. /\ Binds(t1, k1, n) \/ (t1 = u /\ k1 = j /\ n = m)
      /\ Binds(t2, k2, n) \/ (t2 = u /\ k2 = j /\ n = m)
  BY <1>2
<1> QED
  BY <1>3, <1>4 DEF OneChunkPerMaster

\* The strengthened invariant behind SeedsUnique is inductive.
LEMMA UniqueStep == UniqueInv /\ [Next]_vars => UniqueInv'
<1> SUFFICES ASSUME UniqueInv, [Next]_vars
             PROVE  OneChunkPerMaster'
  BY BindingStep DEF UniqueInv
<1> USE DEF UniqueInv, BindingInv
<1>1. ASSUME NEW c \in Calls, NEW t \in Tiers, NEW r \in RoundIds,
             reveal_seed(c, t, r)
      PROVE  OneChunkPerMaster'
  <2>1. CASE Await(c, "ensure_chunk", t, r, expected_chunk_id(r))
             /\ UNCHANGED stable
    <3>1. "ensure_chunk" \in Phases /\ expected_chunk_id(r) \in Nat
      BY RoundArithmetic DEF Phases
    <3> QED
      BY <2>1, <3>1, AwaitCarries, KeepsBound, NoNewBinding DEF stable, slots
  <2>2. CASE /\ ~needs_generation(t, r)
             /\ publish(t, r, seed_chunks[t])
             /\ maintain_slots(c, t, r, seed_chunks[t])
    <3>1. /\ seed_chunks[t] \in SeedChunk
          /\ Binds(t, seed_chunks[t].chunk_id, seed_chunks[t].master)
      BY <2>2 DEF needs_generation, Holds, TypeOK, Binds, InSlot
    <3> QED
      BY <2>2, <3>1, RevealBindsNothing, NoNewBinding
  <2> QED
    BY <1>1, <2>1, <2>2 DEF reveal_seed
<1>2. ASSUME NEW c \in Calls, raw_rand_reply(c)
      PROVE  OneChunkPerMaster'
  BY <1>2, DrawIsFresh
<1>3. ASSUME NEW c \in Calls, ensure_chunk_signed(c)
      PROVE  OneChunkPerMaster'
  <2> DEFINE t == calls[c].tier
             r == calls[c].round
             chunk == SignedChunk(calls[c])
  <2>1. t \in Tiers /\ r \in RoundIds /\ chunk \in SeedChunk
        /\ Binds(t, chunk.chunk_id, chunk.master)
    BY <1>3, SuspendedType, SignedIsBound DEF ensure_chunk_signed, Phases
  <2>2. publish(t, r, chunk) /\ maintain_slots(c, t, r, chunk)
    BY <1>3 DEF ensure_chunk_signed
  <2> QED
    BY <2>1, <2>2, RevealBindsNothing, NoNewBinding
<1>4. ASSUME NEW c \in Calls, boundary_signed(c)
      PROVE  OneChunkPerMaster'
  <2> DEFINE t == calls[c].tier
             chunk == SignedChunk(calls[c])
             next == next_after_await(t, chunk)
  <2>1. /\ t \in Tiers
        /\ calls[c].round \in RoundIds
        /\ calls[c].want + 1 \in Nat
        /\ "prefetch" \in Phases
        /\ Binds(t, chunk.chunk_id, chunk.master)
    BY <1>4, SuspendedType, SignedIsBound DEF boundary_signed, Phases
  <2>2. CallsCarryNoMore
    BY <1>4, <2>1, AwaitCarries DEF boundary_signed
  <2>3. \A k \in Nat, m \in Masters : InSlot(next, k, m) => Binds(t, k, m)
    BY <2>1 DEF next_after_await, Binds, InSlot
  <2>4. \A u \in Tiers : /\ seed_chunks'[u] = seed_chunks[u]
                            \/ (u = t /\ seed_chunks'[u] = next)
                         /\ seed_chunks_next'[u] \in {seed_chunks_next[u], None}
    BY <1>4 DEF boundary_signed, promote_next_to_current, TypeOK
  <2>5. UNCHANGED revealed_seeds
    BY <1>4 DEF boundary_signed
  <2>6. \A u \in Tiers, k \in Nat, m \in Masters :
            /\ InSlot(seed_chunks'[u], k, m) => Binds(u, k, m)
            /\ InSlot(seed_chunks_next'[u], k, m) => Binds(u, k, m)
            /\ \A r \in RoundIds :
                  InSlot(revealed_seeds'[u][r], k, m) => Binds(u, k, m)
    BY <2>3, <2>4, <2>5 DEF Binds, InSlot
  <2> QED
    BY <2>2, <2>6, MovesBindNothing, NoNewBinding
<1>5. ASSUME NEW c \in Calls, prefetch_signed(c)
      PROVE  OneChunkPerMaster'
  <2> DEFINE t == calls[c].tier
             chunk == SignedChunk(calls[c])
             next == next_after_await(t, chunk)
  <2>1. t \in Tiers /\ Binds(t, chunk.chunk_id, chunk.master)
    BY <1>5, SuspendedType, SignedIsBound DEF prefetch_signed, Phases
  <2>2. CallsCarryNoMore
    BY <1>5, ReturnCarries DEF prefetch_signed
  <2>3. \A k \in Nat, m \in Masters : InSlot(next, k, m) => Binds(t, k, m)
    BY <2>1 DEF next_after_await, Binds, InSlot
  <2>4. \A u \in Tiers : seed_chunks_next'[u] = seed_chunks_next[u]
                         \/ (u = t /\ seed_chunks_next'[u] = next)
    BY <1>5 DEF prefetch_signed, TypeOK
  <2>5. UNCHANGED <<seed_chunks, revealed_seeds>>
    BY <1>5 DEF prefetch_signed
  <2>6. \A u \in Tiers, k \in Nat, m \in Masters :
            /\ InSlot(seed_chunks'[u], k, m) => Binds(u, k, m)
            /\ InSlot(seed_chunks_next'[u], k, m) => Binds(u, k, m)
            /\ \A r \in RoundIds :
                  InSlot(revealed_seeds'[u][r], k, m) => Binds(u, k, m)
    BY <2>3, <2>4, <2>5 DEF Binds
  <2> QED
    BY <2>2, <2>6, MovesBindNothing, NoNewBinding
<1>6. ASSUME NEW c \in Calls, call_failed(c)
      PROVE  OneChunkPerMaster'
  BY <1>6, ReturnCarries, KeepsBound, NoNewBinding
  DEF call_failed, stable, slots
<1>7. CASE upgrade
  <2>1. CallsCarryNoMore
    BY <1>7 DEF upgrade, CallsCarryNoMore
  <2> QED
    BY <1>7, <2>1, KeepsBound, NoNewBinding DEF upgrade, stable, slots
<1>8. ASSUME NEW c \in Calls, NEW t \in Tiers, NEW r \in RoundIds,
             refresh_chunks_for_tier(c, t, r)
      PROVE  OneChunkPerMaster'
  <2>1. "refresh" \in Phases /\ expected_chunk_id(r) \in Nat
    BY RoundArithmetic DEF Phases
  <2> QED
    BY <1>8, <2>1, AwaitCarries, KeepsBound, NoNewBinding
    DEF refresh_chunks_for_tier, stable, slots
<1>9. ASSUME NEW c \in Calls, refresh_signed(c)
      PROVE  OneChunkPerMaster'
  <2> DEFINE t == calls[c].tier
             chunk == SignedChunk(calls[c])
  <2>1. t \in Tiers /\ Binds(t, chunk.chunk_id, chunk.master)
    BY <1>9, SuspendedType, SignedIsBound DEF refresh_signed, Phases
  <2>2. CallsCarryNoMore
    BY <1>9, ReturnCarries DEF refresh_signed
  <2>3. \A k \in Nat, m \in Masters : InSlot(chunk, k, m) => Binds(t, k, m)
    BY <2>1 DEF InSlot
  <2>4. \A u \in Tiers : seed_chunks'[u] = seed_chunks[u]
                         \/ (u = t /\ seed_chunks'[u] = chunk)
    BY <1>9 DEF refresh_signed, TypeOK
  <2>5. UNCHANGED <<seed_chunks_next, revealed_seeds>>
    BY <1>9 DEF refresh_signed
  <2>6. \A u \in Tiers, k \in Nat, m \in Masters :
            /\ InSlot(seed_chunks'[u], k, m) => Binds(u, k, m)
            /\ InSlot(seed_chunks_next'[u], k, m) => Binds(u, k, m)
            /\ \A r \in RoundIds :
                  InSlot(revealed_seeds'[u][r], k, m) => Binds(u, k, m)
    BY <2>3, <2>4, <2>5 DEF Binds
  <2> QED
    BY <2>2, <2>6, MovesBindNothing, NoNewBinding
<1>10. CASE UNCHANGED <<slots, revealed_seeds, calls>>
  <2>1. CallsCarryNoMore
    BY <1>10 DEF CallsCarryNoMore
  <2> QED
    BY <1>10, <2>1, KeepsBound, NoNewBinding
<1>11. ASSUME NEW t \in Tiers, NEW r \in RoundIds, clear_revealed_seed(t, r)
       PROVE  OneChunkPerMaster'
  <2>1. CallsCarryNoMore
    BY <1>11 DEF clear_revealed_seed, CallsCarryNoMore
  <2>2. \A u \in Tiers, q \in RoundIds :
            revealed_seeds'[u][q] \in {revealed_seeds[u][q], None}
    BY <1>11 DEF clear_revealed_seed, TypeOK
  <2>3. UNCHANGED slots
    BY <1>11 DEF clear_revealed_seed
  <2>4. \A u \in Tiers, k \in Nat, m \in Masters :
            /\ InSlot(seed_chunks'[u], k, m) => Binds(u, k, m)
            /\ InSlot(seed_chunks_next'[u], k, m) => Binds(u, k, m)
            /\ \A q \in RoundIds :
                  InSlot(revealed_seeds'[u][q], k, m) => Binds(u, k, m)
    BY <2>2, <2>3 DEF Binds, InSlot, slots
  <2> QED
    BY <2>1, <2>4, MovesBindNothing, NoNewBinding
<1>12. CASE clear_all_data
  <2>1. CallsCarryNoMore
    BY <1>12 DEF clear_all_data, CallsCarryNoMore
  <2>2. \A u \in Tiers, k \in Nat, m \in Masters :
            /\ InSlot(seed_chunks'[u], k, m) => Binds(u, k, m)
            /\ InSlot(seed_chunks_next'[u], k, m) => Binds(u, k, m)
            /\ \A q \in RoundIds :
                  InSlot(revealed_seeds'[u][q], k, m) => Binds(u, k, m)
    BY <1>12 DEF clear_all_data, InSlot
  <2> QED
    BY <2>1, <2>2, MovesBindNothing, NoNewBinding
<1>13. ASSUME NEW t \in Tiers, NEW offset, set_chunk_offset(t, offset)
       PROVE  OneChunkPerMaster'
  BY <1>10, <1>13 DEF set_chunk_offset
<1>14. ASSUME NEW t \in Tiers, NEW r \in RoundIds, set_last_settled_round(t, r)
       PROVE  OneChunkPerMaster'
  BY <1>10, <1>14 DEF set_last_settled_round
<1>15. CASE UNCHANGED vars
  BY <1>10, <1>15 DEF vars, stable, slots
<1> QED
  BY <1>1, <1>2, <1>3, <1>4, <1>5, <1>6, <1>7, <1>8, <1>9, <1>11, <1>12,
     <1>13, <1>14, <1>15
  DEF Next, RevealNext, RecoveryNext, Answered

\* Equal seeds come from one chunk, at one offset: from one round.
LEMMA UniqueInvImplies == UniqueInv => SeedsUnique
<1> SUFFICES ASSUME UniqueInv, NEW t1 \in Tiers, NEW t2 \in Tiers,
                    NEW r1 \in Rounds, NEW r2 \in Rounds,
                    Revealed(t1, r1), Revealed(t2, r2),
                    Seed(revealed_seeds[t1][r1]) = Seed(revealed_seeds[t2][r2])
             PROVE  t1 = t2 /\ r1 = r2
  BY DEF SeedsUnique
<1> DEFINE p1 == revealed_seeds[t1][r1]
           p2 == revealed_seeds[t2][r2]
<1>1. r1 \in RoundIds /\ r2 \in RoundIds
  BY DEF Rounds
<1>2. p1 \in SeedProof /\ p2 \in SeedProof
  BY <1>1 DEF UniqueInv, BindingInv, TypeOK, Revealed
<1>3. p1.master = p2.master /\ p1.offset = p2.offset
  BY DEF Seed
<1>4. Binds(t1, p1.chunk_id, p1.master) /\ Binds(t2, p2.chunk_id, p2.master)
  BY <1>1 DEF Binds, InSlot, Revealed
<1>5. t1 = t2 /\ p1.chunk_id = p2.chunk_id
  BY <1>2, <1>3, <1>4 DEF UniqueInv, OneChunkPerMaster, SeedProof
<1>6. r1 = r2
  BY <1>3, <1>5 DEF UniqueInv, BindingInv, ProofBinding
<1> QED
  BY <1>5, <1>6

\* In the empty canister nothing is bound to anything.
LEMMA UniqueInit == Init => UniqueInv
<1>1. Init => BindingInv
  BY TypeInit
  DEF Init, BindingInv, WantsItsChunk, ProofBinding, Revealed, Rounds
<1>2. Init => OneChunkPerMaster
  BY DEF Init, OneChunkPerMaster, Binds, InSlot, InCall
<1> QED
  BY <1>1, <1>2 DEF UniqueInv

\* No two rounds, of one tier or of two, are ever published with one seed.
THEOREM SeedsAreUnique == Spec => []SeedsUnique
BY UniqueInit, UniqueStep, UniqueInvImplies, PTL DEF Spec

-----------------------------------------------------------------------------
(* RevealedInOrder *)

\* The last settled round is public.
SettledIsRevealed ==
    \A t \in Tiers :
        last_settled_rounds[t] >= 1 => Revealed(t, last_settled_rounds[t])

\* A reveal that passed the sequential check and awaits its chunk still has
\* its predecessor public, however long it waits.
AwaitedInOrder ==
    \A c \in Calls :
        calls[c] # None /\ calls[c].phase = "ensure_chunk"
        /\ calls[c].round >= 2
            => /\ calls[c].round - 1 \in RoundIds
               /\ Revealed(calls[c].tier, calls[c].round - 1)

OrderInv == TypeOK /\ SettledIsRevealed /\ AwaitedInOrder /\ RevealedInOrder

\* A round that passes the sequential check has its predecessor public.
LEMMA ValidatedInOrder ==
    ASSUME OrderInv, NEW t \in Tiers, NEW r \in RoundIds,
           validate_reveal_round(t, r), r >= 2
    PROVE  r - 1 \in RoundIds /\ Revealed(t, r - 1)
<1> DEFINE last == last_settled_rounds[t]
<1>1. last \in RoundIds \cup {0} /\ r \in 0 .. (U64 - 1) /\ U64 \in Nat \ {0}
  BY ConstAssumption DEF OrderInv, TypeOK
<1>2. last \in 0 .. (U64 - 1)
  <2>1. 0 \in 0 .. (U64 - 1)
    BY <1>1
  <2>2. RoundIds \subseteq 0 .. (U64 - 1)
    BY ConstAssumption
  <2> QED
    BY <1>1, <2>1, <2>2
<1>3. last # 0 /\ r = (last + 1) % U64
  BY <1>1 DEF validate_reveal_round
<1>4. r = last + 1
  <2>1. CASE last + 1 < U64
    BY <1>1, <1>2, <1>3, <2>1
  <2>2. CASE last + 1 = U64
    <3>1. U64 % U64 = 0
      BY <1>1
    <3> QED
      BY <1>3, <2>2, <3>1
  <2> QED
    BY <1>1, <1>2, <2>1, <2>2
<1> QED
  BY <1>1, <1>2, <1>3, <1>4 DEF OrderInv, SettledIsRevealed

\* Publication of a round whose predecessor is public.
LEMMA PublishInOrder ==
    ASSUME OrderInv, NEW t \in Tiers, NEW r \in RoundIds,
           r >= 2 => r - 1 \in RoundIds /\ Revealed(t, r - 1),
           NEW chunk \in SeedChunk, publish(t, r, chunk)
    PROVE  /\ SettledIsRevealed'
           /\ RevealedInOrder'
           /\ \A u \in Tiers, q \in RoundIds : Revealed(u, q) => Revealed(u, q)'
<1>1. get_seed_proof(chunk, offset_in_chunk(t, r)) # None
  <2>1. get_seed_proof(chunk, offset_in_chunk(t, r)) \in SeedProof
    BY RoundArithmetic DEF get_seed_proof, SeedProof, SeedChunk
  <2> QED
    BY <2>1, NoneAssumption
<1>2. \A u \in Tiers, q \in RoundIds :
          Revealed(u, q)' <=> Revealed(u, q) \/ (u = t /\ q = r)
  BY <1>1 DEF publish, Revealed, OrderInv, TypeOK
<1>3. \A u \in Tiers : last_settled_rounds'[u] =
                          IF u = t THEN r ELSE last_settled_rounds[u]
  BY DEF publish, OrderInv, TypeOK
<1>4. RevealedInOrder'
  BY <1>2 DEF RevealedInOrder, OrderInv
<1>5. SettledIsRevealed'
  <2> SUFFICES ASSUME NEW u \in Tiers, last_settled_rounds'[u] >= 1
               PROVE  Revealed(u, last_settled_rounds[u])'
    BY DEF SettledIsRevealed
  <2>1. CASE u = t
    BY <1>2, <1>3, <2>1 DEF Revealed
  <2>2. CASE u # t
    <3>1. last_settled_rounds'[u] = last_settled_rounds[u]
          /\ last_settled_rounds[u] \in RoundIds
      BY <1>3, <2>2 DEF OrderInv, TypeOK
    <3> QED
      BY <1>2, <3>1 DEF OrderInv, SettledIsRevealed, Revealed
  <2> QED
    BY <2>1, <2>2
<1> QED
  BY <1>2, <1>4, <1>5

\* Calls that go on, end, or start something other than a reveal's CURRENT
\* generation keep AwaitedInOrder, as long as no proof disappears.
LEMMA AwaitedKept ==
    ASSUME OrderInv,
           \A u \in Tiers, q \in RoundIds : Revealed(u, q) => Revealed(u, q)',
           \A c \in Calls :
               \/ calls'[c] = None
               \/ calls'[c].phase # "ensure_chunk"
               \/ /\ calls[c] # None
                  /\ calls'[c].phase = calls[c].phase
                  /\ calls'[c].tier = calls[c].tier
                  /\ calls'[c].round = calls[c].round
    PROVE  AwaitedInOrder'
<1> SUFFICES ASSUME NEW c \in Calls, calls'[c] # None,
                    calls'[c].phase = "ensure_chunk", calls'[c].round >= 2
             PROVE  /\ calls'[c].round - 1 \in RoundIds
                    /\ Revealed(calls[c].tier, calls[c].round - 1)'
  BY DEF AwaitedInOrder
<1>1. /\ calls[c] # None
      /\ calls[c].phase = "ensure_chunk"
      /\ calls'[c].tier = calls[c].tier
      /\ calls'[c].round = calls[c].round
  OBVIOUS
<1>2. calls[c].tier \in Tiers
  BY <1>1 DEF OrderInv, TypeOK, AtRawRand, AtSign
<1>3. calls[c].round - 1 \in RoundIds /\ Revealed(calls[c].tier, calls[c].round - 1)
  BY <1>1 DEF OrderInv, AwaitedInOrder
<1>4. revealed_seeds'[calls[c].tier][calls[c].round - 1] # None
  BY <1>2, <1>3 DEF Revealed
<1> QED
  BY <1>1, <1>3, <1>4 DEF Revealed

\* Steps that publish nothing.
LEMMA OrderUnchanged ==
    ASSUME OrderInv, UNCHANGED <<revealed_seeds, last_settled_rounds>>
    PROVE  /\ SettledIsRevealed'
           /\ RevealedInOrder'
           /\ \A u \in Tiers, q \in RoundIds : Revealed(u, q) => Revealed(u, q)'
BY DEF OrderInv, SettledIsRevealed, RevealedInOrder, Revealed

\* The strengthened invariant behind RevealedInOrder is inductive.
LEMMA OrderStep == OrderInv /\ [RevealNext]_vars => OrderInv'
<1> SUFFICES ASSUME OrderInv, [RevealNext]_vars
             PROVE  SettledIsRevealed' /\ AwaitedInOrder' /\ RevealedInOrder'
  BY TypeStep DEF OrderInv, Next
<1> DEFINE Goal == SettledIsRevealed' /\ AwaitedInOrder' /\ RevealedInOrder'
<1>t. TypeOK
  BY DEF OrderInv
<1>1. ASSUME NEW c \in Calls, NEW t \in Tiers, NEW r \in RoundIds,
             reveal_seed(c, t, r)
      PROVE  Goal
  <2>1. r >= 2 => r - 1 \in RoundIds /\ Revealed(t, r - 1)
    BY <1>1, ValidatedInOrder DEF reveal_seed
  <2>2. CASE Await(c, "ensure_chunk", t, r, expected_chunk_id(r))
             /\ UNCHANGED stable
    <3>1. UNCHANGED <<revealed_seeds, last_settled_rounds>>
      BY <2>2 DEF stable
    <3>2. AwaitedInOrder'
      BY <1>t, <2>1, <2>2, <3>1
      DEF AwaitedInOrder, Await, TypeOK, OrderInv, Revealed
    <3> QED
      BY <3>1, <3>2, OrderUnchanged
  <2>3. CASE /\ ~needs_generation(t, r)
             /\ publish(t, r, seed_chunks[t])
             /\ maintain_slots(c, t, r, seed_chunks[t])
    <3>1. seed_chunks[t] \in SeedChunk
      BY <1>t, <2>3 DEF needs_generation, Holds, TypeOK
    <3>2. /\ SettledIsRevealed'
          /\ RevealedInOrder'
          /\ \A u \in Tiers, q \in RoundIds : Revealed(u, q) => Revealed(u, q)'
      BY <2>1, <2>3, <3>1, PublishInOrder
    <3>3. AwaitedInOrder'
      <4>1. CASE calls' = [calls EXCEPT ![c] = None]
        BY <1>t, <3>2, <4>1, AwaitedKept DEF TypeOK
      <4>2. ASSUME NEW phase \in {"prefetch", "boundary"}, NEW want \in Nat,
                   Await(c, phase, t, r, want)
            PROVE  AwaitedInOrder'
        BY <1>t, <3>2, <4>2, AwaitedKept DEF TypeOK, Await
      <4> QED
        BY <1>t, <2>3, <4>1, <4>2, MaintainCalls
    <3> QED
      BY <3>2, <3>3
  <2> QED
    BY <1>1, <2>2, <2>3 DEF reveal_seed
<1>2. ASSUME NEW c \in Calls, raw_rand_reply(c)
      PROVE  Goal
  <2>1. UNCHANGED <<revealed_seeds, last_settled_rounds>>
    BY <1>2 DEF raw_rand_reply, stable
  <2>2. PICK m \in Masters :
           calls' = [calls EXCEPT ![c] =
              [at |-> "sign_with_ecdsa", phase |-> calls[c].phase,
               tier |-> calls[c].tier, round |-> calls[c].round,
               want |-> calls[c].want, master |-> m]]
    BY <1>2 DEF raw_rand_reply
  <2>3. calls[c] # None
    BY <1>2 DEF raw_rand_reply
  <2> QED
    BY <1>t, <2>1, <2>2, <2>3, OrderUnchanged, AwaitedKept DEF TypeOK
<1>3. ASSUME NEW c \in Calls, ensure_chunk_signed(c)
      PROVE  Goal
  <2> DEFINE t == calls[c].tier
             r == calls[c].round
             chunk == SignedChunk(calls[c])
  <2>1. t \in Tiers /\ r \in RoundIds /\ chunk \in SeedChunk
    BY <1>t, <1>3, SuspendedType DEF ensure_chunk_signed, Phases
  <2>2. r >= 2 => r - 1 \in RoundIds /\ Revealed(t, r - 1)
    BY <1>3 DEF ensure_chunk_signed, Suspended, OrderInv, AwaitedInOrder
  <2>3. publish(t, r, chunk) /\ maintain_slots(c, t, r, chunk)
    BY <1>3 DEF ensure_chunk_signed
  <2>4. /\ SettledIsRevealed'
        /\ RevealedInOrder'
        /\ \A u \in Tiers, q \in RoundIds : Revealed(u, q) => Revealed(u, q)'
    BY <2>1, <2>2, <2>3, PublishInOrder
  <2>5. AwaitedInOrder'
    <3>1. CASE calls' = [calls EXCEPT ![c] = None]
      BY <1>t, <2>4, <3>1, AwaitedKept DEF TypeOK
    <3>2. ASSUME NEW phase \in {"prefetch", "boundary"}, NEW want \in Nat,
                 Await(c, phase, t, r, want)
          PROVE  AwaitedInOrder'
      BY <1>t, <2>4, <3>2, AwaitedKept DEF TypeOK, Await
    <3> QED
      BY <1>t, <2>1, <2>3, <3>1, <3>2, MaintainCalls
  <2> QED
    BY <2>4, <2>5
<1>4. ASSUME NEW c \in Calls, boundary_signed(c)
      PROVE  Goal
  <2>1. UNCHANGED <<revealed_seeds, last_settled_rounds>>
    BY <1>4 DEF boundary_signed
  <2>2. Await(c, "prefetch", calls[c].tier, calls[c].round, calls[c].want + 1)
    BY <1>4 DEF boundary_signed
  <2> QED
    BY <1>t, <2>1, <2>2, OrderUnchanged, AwaitedKept DEF TypeOK, Await
<1>5. ASSUME NEW c \in Calls, prefetch_signed(c) \/ call_failed(c)
      PROVE  Goal
  <2>1. UNCHANGED <<revealed_seeds, last_settled_rounds>> /\ Return(c)
    BY <1>5 DEF prefetch_signed, call_failed, stable
  <2> QED
    BY <1>t, <2>1, OrderUnchanged, AwaitedKept DEF TypeOK, Return
<1>6. CASE upgrade
  <2>1. UNCHANGED <<revealed_seeds, last_settled_rounds>>
    BY <1>6 DEF upgrade, stable
  <2>2. \A c \in Calls : calls'[c] = None
    BY <1>6 DEF upgrade
  <2> QED
    BY <2>1, <2>2, OrderUnchanged, AwaitedKept
<1>7. CASE UNCHANGED vars
  <2>1. UNCHANGED <<revealed_seeds, last_settled_rounds, calls>>
    BY <1>7 DEF vars, stable
  <2> QED
    BY <2>1, OrderUnchanged DEF OrderInv, AwaitedInOrder, Revealed
<1> QED
  BY <1>1, <1>2, <1>3, <1>4, <1>5, <1>6, <1>7 DEF RevealNext, Answered

\* However many reveals overlap, fail or are cut by an upgrade, no round is
\* ever public before the one that precedes it.
THEOREM RoundsRevealedInOrder == RevealSpec => []RevealedInOrder
<1>1. Init => OrderInv
  BY TypeInit
  DEF Init, OrderInv, SettledIsRevealed, AwaitedInOrder, RevealedInOrder, Revealed
<1> QED
  BY <1>1, OrderStep, PTL DEF RevealSpec, OrderInv

-----------------------------------------------------------------------------
(* The check after the prefetch is signed *)

\* A chunk in NEXT is not replaced by another one of its id.
NextKept(t) ==
    LET next == seed_chunks_next[t]
    IN next # None /\ Holds(seed_chunks_next'[t], next.chunk_id) =>
          seed_chunks_next'[t] = next

\* A step that sets NEXT of a tier, or empties it, keeps what is to be kept if
\* what it sets is NEXT itself or of another id.
LEMMA NextKeptOrOther ==
    ASSUME TypeOK, NEW u \in Tiers, NEW new,
           seed_chunks_next' = [seed_chunks_next EXCEPT ![u] = new],
           \/ new = None
           \/ new = seed_chunks_next[u]
           \/ ~Holds(seed_chunks_next[u], new.chunk_id),
           NEW t \in Tiers
    PROVE  NextKept(t)
BY DEF TypeOK, NextKept, Holds

\* When two prefetches of one chunk are signed at once, the first stays, for
\* every number of calls: no step of any kind, repairs included, replaces the
\* chunk in NEXT by another one of its id.
THEOREM PrefetchNeverReplaced == Spec => PrefetchKept
<1>1. ASSUME TypeOK, [Next]_vars, NEW t \in Tiers
      PROVE  NextKept(t)
  <2>1. CASE UNCHANGED seed_chunks_next
    BY <2>1 DEF NextKept
  <2>2. ASSUME NEW c \in Calls, NEW u \in Tiers, NEW r, NEW chunk,
               maintain_slots(c, u, r, chunk)
        PROVE  NextKept(t)
    <3>1. \/ UNCHANGED seed_chunks_next
          \/ seed_chunks_next' = [seed_chunks_next EXCEPT ![u] = None]
      BY <2>2 DEF maintain_slots, promote_next_to_current
    <3> QED
      BY <1>1, <2>1, <3>1, NextKeptOrOther
  <2>3. ASSUME NEW c \in Calls, NEW u \in Tiers, NEW r \in RoundIds, reveal_seed(c, u, r)
        PROVE  NextKept(t)
    BY <2>1, <2>2, <2>3 DEF reveal_seed, stable, slots
  <2>4. ASSUME NEW c \in Calls, ensure_chunk_signed(c)
        PROVE  NextKept(t)
    <3>1. calls[c].tier \in Tiers
      BY <1>1, <2>4, SuspendedType DEF ensure_chunk_signed, Phases
    <3> QED
      BY <2>2, <2>4, <3>1 DEF ensure_chunk_signed
  <2>5. ASSUME NEW c \in Calls, boundary_signed(c)
        PROVE  NextKept(t)
    <3>1. calls[c].tier \in Tiers
      BY <1>1, <2>5, SuspendedType DEF boundary_signed, Phases
    <3>2. seed_chunks_next' = [seed_chunks_next EXCEPT ![calls[c].tier] = None]
      BY <2>5 DEF boundary_signed, promote_next_to_current
    <3> QED
      BY <1>1, <3>1, <3>2, NextKeptOrOther
  <2>6. ASSUME NEW c \in Calls, prefetch_signed(c)
        PROVE  NextKept(t)
    <3> DEFINE u == calls[c].tier
               chunk == SignedChunk(calls[c])
               new == next_after_await(u, chunk)
    <3>1. u \in Tiers
      BY <1>1, <2>6, SuspendedType DEF prefetch_signed, Phases
    <3>2. seed_chunks_next' = [seed_chunks_next EXCEPT ![u] = new]
      BY <2>6 DEF prefetch_signed
    <3>3. new = seed_chunks_next[u] \/ ~Holds(seed_chunks_next[u], new.chunk_id)
      BY DEF next_after_await
    <3> HIDE DEF new, u
    <3> QED
      BY <1>1, <3>1, <3>2, <3>3, NextKeptOrOther
  <2>7. CASE clear_all_data
    BY <2>7 DEF clear_all_data, NextKept, Holds
  <2>8. ASSUME NEW c \in Calls, raw_rand_reply(c) \/ call_failed(c) \/ refresh_signed(c)
        PROVE  NextKept(t)
    BY <2>1, <2>8 DEF raw_rand_reply, call_failed, refresh_signed, stable, slots
  <2>9. CASE upgrade
    BY <2>1, <2>9 DEF upgrade, stable, slots
  <2>10. CASE \E u \in Tiers, r \in RoundIds :
                 \/ \E c \in Calls : refresh_chunks_for_tier(c, u, r)
                 \/ set_last_settled_round(u, r)
                 \/ clear_revealed_seed(u, r)
    BY <2>1, <2>10 DEF refresh_chunks_for_tier, set_last_settled_round,
                       clear_revealed_seed, stable, slots
  <2>11. CASE \E u \in Tiers, offset \in 0 .. (U64 - 1) : set_chunk_offset(u, offset)
    BY <2>1, <2>11 DEF set_chunk_offset, slots
  <2>12. CASE UNCHANGED vars
    BY <2>1, <2>12 DEF vars, stable, slots
  <2> QED
    BY <1>1, <2>3, <2>4, <2>5, <2>6, <2>7, <2>8, <2>9, <2>10, <2>11, <2>12
    DEF Next, RevealNext, RecoveryNext, Answered
<1>2. TypeOK /\ [Next]_vars =>
         [\A t \in Tiers :
            LET next == seed_chunks_next[t]
            IN next # None /\ Holds(seed_chunks_next'[t], next.chunk_id) =>
                  seed_chunks_next'[t] = next]_vars
  BY <1>1 DEF NextKept
<1> QED
  BY <1>2, TypeCorrect, PTL DEF Spec, PrefetchKept

=============================================================================
