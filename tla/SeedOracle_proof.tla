-------------------------- MODULE SeedOracle_proof --------------------------
(***************************************************************************)
(* The canister under the engine-runner implements SeedOracle: every step  *)
(* of slots, proofs and awaits is a commitment, a publication, both or     *)
(* nothing to someone who only sees which random value a chunk is bound    *)
(* to.                                                                     *)
(***************************************************************************)
EXTENDS EngineRunner_proof

-----------------------------------------------------------------------------
(* What a chunk is bound to *)

\* Chunk k of tier t has random value m in a slot or in a published proof.
Stored(t, k, m) ==
    \/ InSlot(seed_chunks[t], k, m)
    \/ InSlot(seed_chunks_next[t], k, m)
    \/ \E r \in RoundIds : InSlot(revealed_seeds[t][r], k, m)

\* Published proofs are of CURRENT's chunk or of earlier ones.
LEMMA ProofChunks ==
    ASSUME RunnerInv, NEW t \in Tiers, NEW r \in RoundIds, Revealed(t, r)
    PROVE  /\ revealed_seeds[t][r] \in SeedProof
           /\ revealed_seeds[t][r].chunk_id = ChunkOf(r)
           /\ r \in Nat /\ 1 <= r /\ r <= last_settled_rounds[t]
           /\ ChunkOf(r) \in Nat
           /\ ChunkOf(r) <= ChunkOf(last_settled_rounds[t])
           /\ ChunkOf(last_settled_rounds[t]) \in Nat
           /\ seed_chunks[t] \in SeedChunk
           /\ ChunkOf(last_settled_rounds[t]) <= seed_chunks[t].chunk_id
<1>1. revealed_seeds[t][r] \in SeedProof
  BY DEF RunnerInv, TypeOK, Revealed
<1>2. revealed_seeds[t][r].chunk_id = ChunkOf(r)
  BY DEF RunnerInv, ProofsAgree
<1>3. /\ r \in Nat /\ 1 <= r /\ r <= last_settled_rounds[t]
      /\ last_settled_rounds[t] \in Nat
  BY TierFacts, ConstAssumption DEF RunnerInv, RevealedUpToSettled
<1>4. /\ ChunkOf(r) \in Nat
      /\ ChunkOf(last_settled_rounds[t]) \in Nat
      /\ ChunkOf(r) <= ChunkOf(last_settled_rounds[t])
  BY <1>3, ChunkStep, ChunkMono
<1>5. /\ seed_chunks[t] \in SeedChunk
      /\ ChunkOf(last_settled_rounds[t]) <= seed_chunks[t].chunk_id
  BY <1>3, <1>4, CurrentChunk
<1> QED
  BY <1>1, <1>2, <1>3, <1>4, <1>5

\* NEXT is a chunk of which nothing else is stored.
LEMMA NextIsApart ==
    ASSUME RunnerInv, NEW t \in Tiers, seed_chunks_next[t] # None
    PROVE  /\ seed_chunks_next[t] \in SeedChunk
           /\ ~Holds(seed_chunks[t], seed_chunks_next[t].chunk_id)
           /\ \A r \in RoundIds : Revealed(t, r) =>
                 revealed_seeds[t][r].chunk_id # seed_chunks_next[t].chunk_id
<1>1. /\ seed_chunks_next[t] \in SeedChunk
      /\ seed_chunks[t] \in SeedChunk
      /\ seed_chunks_next[t].chunk_id = seed_chunks[t].chunk_id + 1
  BY TierFacts DEF RunnerInv, NextIsOneAhead
<1>2. seed_chunks[t].chunk_id \in Nat
  BY <1>1 DEF SeedChunk
<1>3. ASSUME NEW r \in RoundIds, Revealed(t, r)
      PROVE  revealed_seeds[t][r].chunk_id # seed_chunks_next[t].chunk_id
  BY <1>1, <1>2, <1>3, ProofChunks
<1> QED
  BY <1>1, <1>2, <1>3 DEF Holds

\* A chunk has one random value wherever it is stored.
LEMMA OneMaster ==
    ASSUME RunnerInv, NEW t \in Tiers, NEW k, NEW m, NEW n,
           Stored(t, k, m), Stored(t, k, n)
    PROVE  m = n
<1> DEFINE Proved(x) == \E r \in RoundIds : InSlot(revealed_seeds[t][r], k, x)
<1>1. ASSUME NEW x, InSlot(seed_chunks_next[t], k, x)
      PROVE  \A y : ~InSlot(seed_chunks[t], k, y) /\ ~Proved(y)
  BY <1>1, NextIsApart DEF InSlot, Holds, Revealed
<1>2. ASSUME NEW x, NEW y, InSlot(seed_chunks[t], k, x), Proved(y)
      PROVE  x = y
  <2>1. PICK r \in RoundIds : InSlot(revealed_seeds[t][r], k, y)
    BY <1>2
  <2>2. revealed_seeds[t][r].chunk_id = ChunkOf(r)
    BY <2>1, ProofChunks DEF InSlot, Revealed
  <2> QED
    BY <1>2, <2>1, <2>2 DEF InSlot, Holds, Revealed, RunnerInv, ProofsAgree
<1>3. ASSUME NEW x, NEW y, Proved(x), Proved(y)
      PROVE  x = y
  BY <1>3 DEF InSlot, Revealed, RunnerInv, OneRootPerChunk
<1>4. ASSUME NEW x, NEW y, InSlot(seed_chunks[t], k, x), InSlot(seed_chunks[t], k, y)
      PROVE  x = y
  BY <1>4 DEF InSlot
<1>5. ASSUME NEW x, NEW y, InSlot(seed_chunks_next[t], k, x),
             InSlot(seed_chunks_next[t], k, y)
      PROVE  x = y
  BY <1>5 DEF InSlot
<1> QED
  BY <1>1, <1>2, <1>3, <1>4, <1>5 DEF Stored

\* bound_master is the random value stored, or None.
BoundIsStored ==
    \A t \in Tiers, k \in Nat :
        /\ \A m \in Masters : Stored(t, k, m) => bound_master(t, k) = m
        /\ (\A m \in Masters : ~Stored(t, k, m)) => bound_master(t, k) = None

LEMMA BoundMaster == RunnerInv => BoundIsStored
<1> SUFFICES ASSUME RunnerInv, NEW t \in Tiers, NEW k \in Nat
             PROVE  /\ \A m \in Masters : Stored(t, k, m) => bound_master(t, k) = m
                    /\ (\A m \in Masters : ~Stored(t, k, m)) => bound_master(t, k) = None
  BY DEF BoundIsStored
<1> DEFINE proofs == {revealed_seeds[t][r] : r \in RoundIds} \ {None}
           chunks == {seed_chunks[t], seed_chunks_next[t]} \ {None}
           masters == {x.master : x \in {y \in proofs \cup chunks : y.chunk_id = k}}
<1>1. bound_master(t, k) = IF masters = {} THEN None ELSE CHOOSE m \in masters : TRUE
  BY DEF bound_master
<1>2. \A m : m \in masters <=> Stored(t, k, m)
  BY DEF Stored, InSlot
<1>3. masters \subseteq Masters
  <2>1. /\ seed_chunks[t] \in SeedChunk \cup {None}
        /\ seed_chunks_next[t] \in SeedChunk \cup {None}
        /\ \A r \in RoundIds : revealed_seeds[t][r] \in SeedProof \cup {None}
    BY DEF RunnerInv, TypeOK
  <2> QED
    BY <2>1 DEF SeedChunk, SeedProof
<1> HIDE DEF masters
<1>4. ASSUME NEW m \in Masters, Stored(t, k, m)
      PROVE  bound_master(t, k) = m
  <2>1. m \in masters /\ \A n \in masters : n = m
    BY <1>2, <1>4, OneMaster
  <2>2. (CHOOSE n \in masters : TRUE) \in masters
    BY <2>1
  <2> QED
    BY <1>1, <2>1, <2>2
<1>5. ASSUME \A m \in Masters : ~Stored(t, k, m)
      PROVE  bound_master(t, k) = None
  <2>1. masters = {}
    BY <1>2, <1>3, <1>5
  <2> QED
    BY <1>1, <2>1
<1> QED
  BY <1>4, <1>5

-----------------------------------------------------------------------------
(* What a step does, and with which chunk *)

\* A call has just been given the signature of this chunk.
NewChunk(t, chunk) ==
    \E c \in Calls : InCall(calls[c], t, chunk.chunk_id, chunk.master)

\* NEXT, empty, is filled with the chunk after the one of the next round.
Fills(t, chunk) ==
    /\ Prefetched(t)
    /\ seed_chunks_next'[t] = chunk
    /\ seed_chunks[t] # None
    /\ chunk.chunk_id = seed_chunks[t].chunk_id + 1
    /\ chunk.chunk_id = ChunkOf(last_settled_rounds[t] + 1) + 1

\* CURRENT, used up, is replaced by the chunk of the next round.
Replaces(t, chunk) ==
    /\ Replaced(t)
    /\ seed_chunks'[t] = chunk
    /\ seed_chunks_next'[t] = None
    /\ chunk.chunk_id = ChunkOf(last_settled_rounds[t] + 1)

Moves(t, chunk) ==
    \/ \E r \in RoundIds : /\ PublishedFrom(t, r, chunk)
                           /\ chunk = seed_chunks[t] \/ NewChunk(t, chunk)
    \/ NewChunk(t, chunk) /\ (Fills(t, chunk) \/ Replaces(t, chunk))

\* The signed chunk of a call is new.
LEMMA SignedIsNew ==
    ASSUME TypeOK, NEW c \in Calls, calls[c] # None,
           calls[c].at = "sign_with_ecdsa"
    PROVE  /\ SignedChunk(calls[c]) \in SeedChunk
           /\ SignedChunk(calls[c]).chunk_id = calls[c].want
           /\ NewChunk(calls[c].tier, SignedChunk(calls[c]))
<1>1. SignedChunk(calls[c]) \in SeedChunk
  BY DEF TypeOK, SignedChunk, SeedChunk, AtRawRand, AtSign
<1> QED
  BY <1>1 DEF NewChunk, InCall, SignedChunk

\* A step moves one tier, or none.
LEMMA StepMoves ==
    ASSUME RunnerInv, [RunnerNext]_vars
    PROVE  \/ \A u \in Tiers : Kept(u)
           \/ \E t \in Tiers, chunk \in SeedChunk :
                 Moves(t, chunk) /\ \A u \in Tiers \ {t} : Kept(u)
<1>t. TypeOK
  BY DEF RunnerInv
<1>0. CASE UNCHANGED stable
  BY <1>0 DEF stable, Kept
<1>1. ASSUME NEW c \in Calls, NEW t \in Tiers, NEW r \in RoundIds,
             request_reveal(c, t, r), ~UNCHANGED stable
      PROVE  \E chunk \in SeedChunk :
                Moves(t, chunk) /\ \A u \in Tiers \ {t} : Kept(u)
  <2>1. r = last_settled_rounds[t] + 1 /\ expected_chunk_id(r) = ChunkOf(r)
    BY <1>1, ValidatedIsNext, ChunkAgrees DEF request_reveal, reveal_seed
  <2>2. /\ ~needs_generation(t, r)
        /\ publish(t, r, seed_chunks[t])
        /\ maintain_slots(c, t, r, seed_chunks[t])
    BY <1>1 DEF request_reveal, reveal_seed
  <2>3. seed_chunks[t] \in SeedChunk /\ seed_chunks[t].chunk_id = ChunkOf(r)
    BY <1>t, <2>1, <2>2 DEF needs_generation, Holds, TypeOK
  <2>4. \A u \in Tiers :
          IF u = t THEN PublishedFrom(t, r, seed_chunks[t]) ELSE Kept(u)
    BY <2>1, <2>2, <2>3, PublishEffect
  <2> QED
    BY <2>3, <2>4 DEF Moves
<1>2. ASSUME NEW c \in Calls, ensure_chunk_signed(c)
      PROVE  \E t \in Tiers, chunk \in SeedChunk :
                Moves(t, chunk) /\ \A u \in Tiers \ {t} : Kept(u)
  <2>1. /\ calls[c] # None
        /\ calls[c].phase = "ensure_chunk"
        /\ calls[c].at = "sign_with_ecdsa"
    BY <1>2 DEF ensure_chunk_signed, Suspended
  <2>2. PICK t \in Tiers, r \in RoundIds :
           t = calls[c].tier /\ r = calls[c].round
    BY <2>1, SuspendedFits
  <2>3. PICK chunk \in SeedChunk : /\ chunk = SignedChunk(calls[c])
                                   /\ chunk.chunk_id = calls[c].want
                                   /\ NewChunk(t, chunk)
    BY <1>t, <2>1, <2>2, SignedIsNew
  <2>4. /\ r = last_settled_rounds[t] + 1
        /\ chunk.chunk_id = ChunkOf(r)
        /\ ~Holds(seed_chunks[t], ChunkOf(r))
    BY <2>1, <2>2, <2>3, SuspendedFits DEF CallFits
  <2>5. publish(t, r, chunk) /\ maintain_slots(c, t, r, chunk)
    BY <1>2, <2>2, <2>3 DEF ensure_chunk_signed
  <2>6. \A u \in Tiers : IF u = t THEN PublishedFrom(t, r, chunk) ELSE Kept(u)
    BY <2>4, <2>5, PublishEffect
  <2> QED
    BY <2>3, <2>6 DEF Moves
<1>3. ASSUME NEW c \in Calls, boundary_signed(c)
      PROVE  \E t \in Tiers, chunk \in SeedChunk :
                Moves(t, chunk) /\ \A u \in Tiers \ {t} : Kept(u)
  <2>1. /\ calls[c] # None
        /\ calls[c].phase = "boundary"
        /\ calls[c].at = "sign_with_ecdsa"
    BY <1>3 DEF boundary_signed, Suspended
  <2>2. PICK t \in Tiers : t = calls[c].tier
    BY <2>1, SuspendedFits
  <2>3. PICK chunk \in SeedChunk : /\ chunk = SignedChunk(calls[c])
                                   /\ chunk.chunk_id = calls[c].want
                                   /\ NewChunk(t, chunk)
    BY <1>t, <2>1, <2>2, SignedIsNew
  <2>4. /\ last_settled_rounds[t] > 0
        /\ last_settled_rounds[t] % CHUNK_SIZE = 0
        /\ seed_chunks[t].chunk_id = ChunkOf(last_settled_rounds[t])
        /\ chunk.chunk_id = seed_chunks[t].chunk_id + 1
    BY <2>1, <2>2, <2>3, SuspendedFits DEF CallFits
  <2>5. seed_chunks_next[t] = None
    <3>1. SlotsFit(seed_chunks[t], seed_chunks_next[t], last_settled_rounds[t])
      BY InvByTier DEF InvOfTiers, TierFits
    <3> QED
      BY <2>4, <3>1 DEF SlotsFit
  <2>6. chunk.chunk_id = ChunkOf(last_settled_rounds[t] + 1)
    <3>1. last_settled_rounds[t] \in Nat /\ last_settled_rounds[t] >= 1
      BY <2>4, TierFacts
    <3> QED
      BY <2>4, <3>1, ChunkStep
  <2>7. /\ promote_next_to_current(t, chunk)
        /\ UNCHANGED <<last_settled_rounds, revealed_seeds>>
    BY <1>3, <2>2, <2>3, <2>5 DEF boundary_signed, next_after_await, Holds
  <2>8. Replaces(t, chunk)
    BY <1>t, <2>4, <2>5, <2>6, <2>7
    DEF Replaces, Replaced, AtChunkEnd, promote_next_to_current, TypeOK
  <2>9. \A u \in Tiers \ {t} : Kept(u)
    BY <1>t, <2>7 DEF Kept, promote_next_to_current, TypeOK
  <2> QED
    BY <2>3, <2>8, <2>9 DEF Moves
<1>4. ASSUME NEW c \in Calls, prefetch_signed(c), ~UNCHANGED stable
      PROVE  \E t \in Tiers, chunk \in SeedChunk :
                Moves(t, chunk) /\ \A u \in Tiers \ {t} : Kept(u)
  <2>1. /\ calls[c] # None
        /\ calls[c].phase = "prefetch"
        /\ calls[c].at = "sign_with_ecdsa"
    BY <1>4 DEF prefetch_signed, Suspended
  <2>2. PICK t \in Tiers : t = calls[c].tier
    BY <2>1, SuspendedFits
  <2>3. PICK chunk \in SeedChunk : /\ chunk = SignedChunk(calls[c])
                                   /\ chunk.chunk_id = calls[c].want
                                   /\ NewChunk(t, chunk)
    BY <1>t, <2>1, <2>2, SignedIsNew
  <2>4. /\ last_settled_rounds[t] > 0
        /\ last_settled_rounds[t] % CHUNK_SIZE = 0 =>
              seed_chunks[t].chunk_id # ChunkOf(last_settled_rounds[t])
        /\ chunk.chunk_id = seed_chunks[t].chunk_id + 1
    BY <2>1, <2>2, <2>3, SuspendedFits DEF CallFits
  <2>5. last_settled_rounds[t] \in Nat /\ last_settled_rounds[t] >= 1
    BY <2>4, TierFacts
  <2>6. /\ seed_chunks[t] \in SeedChunk
        /\ seed_chunks[t].chunk_id = ChunkOf(last_settled_rounds[t] + 1)
    BY <2>4, <2>5, CurrentChunk, ChunkStep DEF AtChunkEnd
  <2>7. /\ seed_chunks_next' = [seed_chunks_next EXCEPT
              ![t] = next_after_await(t, chunk)]
        /\ UNCHANGED <<seed_chunks, chunk_offsets, last_settled_rounds, revealed_seeds>>
    BY <1>4, <2>2, <2>3 DEF prefetch_signed
  <2>8. seed_chunks_next[t] = None
    <3> SUFFICES ASSUME seed_chunks_next[t] # None
                 PROVE  FALSE
      OBVIOUS
    <3>1. seed_chunks_next[t].chunk_id = seed_chunks[t].chunk_id + 1
      BY DEF RunnerInv, NextIsOneAhead
    <3>2. next_after_await(t, chunk) = seed_chunks_next[t]
      BY <2>4, <3>1 DEF next_after_await, Holds
    <3>3. UNCHANGED seed_chunks_next
      BY <1>t, <2>7, <3>2 DEF TypeOK
    <3> QED
      BY <1>4, <2>7, <3>3 DEF stable
  <2>9. next_after_await(t, chunk) = chunk
    BY <2>8 DEF next_after_await, Holds
  <2>10. Fills(t, chunk)
    BY <1>t, <2>4, <2>6, <2>7, <2>8, <2>9, NoneAssumption
    DEF Fills, Prefetched, TypeOK
  <2>11. \A u \in Tiers \ {t} : Kept(u)
    BY <1>t, <2>7 DEF Kept, TypeOK
  <2> QED
    BY <2>3, <2>10, <2>11 DEF Moves
<1>5. ASSUME NEW c \in Calls, raw_rand_reply(c) \/ call_failed(c)
      PROVE  UNCHANGED stable
  BY <1>5 DEF raw_rand_reply, call_failed
<1>6. CASE upgrade \/ UNCHANGED vars
  BY <1>0, <1>6 DEF upgrade, vars
<1> QED
  BY <1>0, <1>1, <1>2, <1>3, <1>4, <1>5, <1>6 DEF RunnerNext, Answered

-----------------------------------------------------------------------------
(* What a step does to what is stored *)

\* A used-up CURRENT can go: the proof of the last settled round has its chunk
\* and its random value.
LEMMA UsedUpIsProved ==
    ASSUME RunnerInv, NEW t \in Tiers, last_settled_rounds[t] >= 1,
           seed_chunks[t].chunk_id = ChunkOf(last_settled_rounds[t]),
           NEW k, NEW m, InSlot(seed_chunks[t], k, m)
    PROVE  /\ last_settled_rounds[t] \in RoundIds
           /\ InSlot(revealed_seeds[t][last_settled_rounds[t]], k, m)
<1> DEFINE last == last_settled_rounds[t]
<1>1. last \in RoundIds /\ last \in Nat
  BY TierFacts DEF RunnerInv, TypeOK
<1>2. Revealed(t, last)
  BY <1>1 DEF RunnerInv, RevealedUpToSettled
<1>3. Holds(seed_chunks[t], ChunkOf(last))
  BY DEF InSlot, Holds
<1> QED
  BY <1>1, <1>2, <1>3 DEF InSlot, Revealed, RunnerInv, ProofsAgree

\* A publication stores its chunk and loses nothing.
LEMMA PublishStores ==
    ASSUME RunnerInv, NEW t \in Tiers, NEW r \in RoundIds,
           NEW chunk \in SeedChunk, PublishedFrom(t, r, chunk), NEW k, NEW m
    PROVE  Stored(t, k, m)' <=> Stored(t, k, m) \/ InSlot(chunk, k, m)
<1> DEFINE last == last_settled_rounds[t]
           cur == seed_chunks[t]
           next == seed_chunks_next[t]
           proof == get_seed_proof(chunk, (r - 1) % CHUNK_SIZE)
<1>1. last \in Nat /\ r = last + 1 /\ r \in Nat
  BY TierFacts, ConstAssumption DEF PublishedFrom
<1>2. revealed_seeds[t][r] = None
  BY <1>1 DEF RunnerInv, RevealedUpToSettled, Revealed
<1>3. \A q \in RoundIds :
          revealed_seeds'[t][q] = IF q = r THEN proof ELSE revealed_seeds[t][q]
  BY DEF PublishedFrom, RunnerInv, TypeOK
<1>4. InSlot(proof, k, m) <=> InSlot(chunk, k, m)
  <2>1. (r - 1) % CHUNK_SIZE \in 0 .. (CHUNK_SIZE - 1)
    BY <1>1, ConstAssumption
  <2>2. proof \in SeedProof /\ proof.chunk_id = chunk.chunk_id
        /\ proof.master = chunk.master
    BY <2>1 DEF get_seed_proof, SeedProof, SeedChunk
  <2> QED
    BY <2>2, NoneAssumption DEF InSlot
<1> HIDE DEF proof
<1> DEFINE Proved == \E q \in RoundIds : InSlot(revealed_seeds[t][q], k, m)
           ProvedAfter == \E q \in RoundIds : InSlot(revealed_seeds'[t][q], k, m)
<1>5. ProvedAfter <=> Proved \/ InSlot(chunk, k, m)
  <2>1. ASSUME NEW q \in RoundIds, InSlot(revealed_seeds[t][q], k, m)
        PROVE  q # r /\ revealed_seeds'[t][q] = revealed_seeds[t][q]
    BY <1>2, <1>3, <2>1 DEF InSlot
  <2>2. revealed_seeds'[t][r] = proof
    BY <1>3
  <2>3. InSlot(chunk, k, m) => ProvedAfter
    BY <1>4, <2>2
  <2>4. Proved => ProvedAfter
    BY <2>1
  <2>5. ProvedAfter => Proved \/ InSlot(chunk, k, m)
    BY <1>3, <1>4
  <2> QED
    BY <2>3, <2>4, <2>5
<1>6. ASSUME InSlot(cur, k, m), chunk # cur
      PROVE  Proved
  <2>1. next = None /\ ~Holds(cur, ChunkOf(r))
    BY <1>6 DEF PublishedFrom
  <2>2. last # 0
    BY <1>6 DEF InSlot, RunnerInv, CurrentFollowsSettled
  <2>3. last >= 1
    BY <1>1, <2>2
  <2>4. cur.chunk_id = ChunkOf(last)
    BY <1>1, <1>6, <2>1, <2>3, CurrentChunk, ChunkStep
    DEF InSlot, Holds, AtChunkEnd
  <2> QED
    BY <1>6, <2>3, <2>4, UsedUpIsProved
<1>7. /\ Stored(t, k, m) <=> InSlot(cur, k, m) \/ InSlot(next, k, m) \/ Proved
      /\ Stored(t, k, m)' <=> \/ InSlot(seed_chunks'[t], k, m)
                              \/ InSlot(seed_chunks_next'[t], k, m)
                              \/ ProvedAfter
  BY DEF Stored, InSlot
<1> HIDE DEF Proved, ProvedAfter
<1>8. CASE seed_chunks'[t] = chunk /\ seed_chunks_next'[t] = next
  BY <1>5, <1>6, <1>7, <1>8
<1>9. CASE /\ Holds(next, ChunkOf(r) + 1)
           /\ seed_chunks'[t] = next
           /\ seed_chunks_next'[t] = None
  <2>1. chunk = cur
    BY <1>9 DEF PublishedFrom, Holds
  <2>2. ~InSlot(None, k, m)
    BY DEF InSlot
  <2> QED
    BY <1>5, <1>7, <1>9, <2>1, <2>2
<1> QED
  BY <1>8, <1>9 DEF PublishedFrom

\* So does every other step that moves a tier.
LEMMA MoveStores ==
    ASSUME RunnerInv, NEW t \in Tiers, NEW chunk \in SeedChunk,
           Moves(t, chunk), NEW k, NEW m
    PROVE  Stored(t, k, m)' <=> Stored(t, k, m) \/ InSlot(chunk, k, m)
<1>1. ASSUME NEW r \in RoundIds, PublishedFrom(t, r, chunk)
      PROVE  Stored(t, k, m)' <=> Stored(t, k, m) \/ InSlot(chunk, k, m)
  BY <1>1, PublishStores
<1>2. CASE Fills(t, chunk)
  BY <1>2 DEF Fills, Prefetched, Stored, InSlot
<1>3. CASE Replaces(t, chunk)
  <2>1. last_settled_rounds[t] \in Nat /\ last_settled_rounds[t] >= 1
    BY <1>3, TierFacts DEF Replaces, Replaced
  <2>2. InSlot(seed_chunks[t], k, m) =>
            \E q \in RoundIds : InSlot(revealed_seeds[t][q], k, m)
    BY <1>3, <2>1, UsedUpIsProved DEF Replaces, Replaced
  <2> QED
    BY <1>3, <2>2 DEF Replaces, Replaced, Stored, InSlot
<1> QED
  BY <1>1, <1>2, <1>3 DEF Moves

\* A new chunk is one of which nothing was stored, and so is its random value.
LEMMA NewIsUnbound ==
    ASSUME RunnerInv, UniqueInv, NEW t \in Tiers, NEW chunk \in SeedChunk,
           NewChunk(t, chunk), chunk # seed_chunks[t], Moves(t, chunk)
    PROVE  /\ \A m : ~Stored(t, chunk.chunk_id, m)
           /\ \A u \in Tiers, k \in Nat : ~Stored(u, k, chunk.master)
<1> DEFINE last == last_settled_rounds[t]
           cur == seed_chunks[t]
           id == chunk.chunk_id
<1>1. /\ seed_chunks_next[t] = None
      /\ ~Holds(cur, id)
      /\ last >= 1 => ChunkOf(last) < id
  <2>1. /\ last \in Nat
        /\ id \in Nat
        /\ last >= 1 => /\ ChunkOf(last) \in Nat
                        /\ ChunkOf(last + 1) = IF last % CHUNK_SIZE = 0
                                               THEN ChunkOf(last) + 1
                                               ELSE ChunkOf(last)
                        /\ cur \in SeedChunk
                        /\ \/ cur.chunk_id = ChunkOf(last)
                           \/ last % CHUNK_SIZE = 0
                              /\ cur.chunk_id = ChunkOf(last) + 1
    BY TierFacts, ChunkStep, CurrentChunk DEF SeedChunk, AtChunkEnd
  <2>2. ASSUME NEW r \in RoundIds, PublishedFrom(t, r, chunk)
        PROVE  /\ seed_chunks_next[t] = None
               /\ ~Holds(cur, id)
               /\ last >= 1 => ChunkOf(last) < id
    BY <2>1, <2>2, NoneAssumption DEF PublishedFrom, Holds
  <2>3. CASE Fills(t, chunk)
    <3>1. seed_chunks_next[t] = None /\ cur # None /\ id = cur.chunk_id + 1
      BY <2>3 DEF Fills, Prefetched
    <3>2. cur \in SeedChunk /\ cur.chunk_id \in Nat
      BY <3>1, TierFacts DEF SeedChunk
    <3> QED
      BY <2>1, <3>1, <3>2 DEF Holds
  <2>4. CASE Replaces(t, chunk)
    BY <2>1, <2>4 DEF Replaces, Replaced, AtChunkEnd, Holds
  <2> QED
    BY <2>2, <2>3, <2>4 DEF Moves
<1>2. ASSUME NEW r \in RoundIds, Revealed(t, r)
      PROVE  revealed_seeds[t][r].chunk_id # id
  <2>1. last \in Nat /\ id \in Nat
    BY TierFacts DEF SeedChunk
  <2> QED
    BY <1>1, <1>2, <2>1, ProofChunks
<1>3. \A m : ~Stored(t, id, m)
  BY <1>1, <1>2 DEF Stored, InSlot, Holds, Revealed
<1>4. ASSUME NEW u \in Tiers, NEW k \in Nat, Stored(u, k, chunk.master)
      PROVE  FALSE
  <2>1. Binds(u, k, chunk.master) /\ Binds(t, id, chunk.master)
    BY <1>4 DEF Stored, Binds, NewChunk
  <2>2. id \in Nat /\ chunk.master \in Masters
    BY DEF SeedChunk
  <2>3. u = t /\ k = id
    BY <2>1, <2>2 DEF UniqueInv, OneChunkPerMaster
  <2> QED
    BY <1>3, <1>4, <2>3
<1> QED
  BY <1>3, <1>4

-----------------------------------------------------------------------------
(* What a step does to what chunks are bound to *)

\* A chunk bound to a random value has it stored.
LEMMA BoundIsSomewhere ==
    ASSUME BoundIsStored, NEW t \in Tiers, NEW k \in Nat, NEW m,
           bound_master(t, k) = m, m # None
    PROVE  Stored(t, k, m)
<1>1. PICK n \in Masters : Stored(t, k, n)
  BY DEF BoundIsStored
<1>2. bound_master(t, k) = n
  BY <1>1 DEF BoundIsStored
<1> QED
  BY <1>1, <1>2

\* bound_master as a function of the slots and the proofs of the tier.
BoundIn(cur, next, proofs, k) ==
    LET shown == {proofs[r] : r \in RoundIds} \ {None}
        chunks == {cur, next} \ {None}
        masters == {x.master : x \in {y \in shown \cup chunks : y.chunk_id = k}}
    IN IF masters = {} THEN None ELSE CHOOSE m \in masters : TRUE

\* A tier left alone keeps its bindings.
LEMMA KeptBinds ==
    ASSUME NEW u, NEW k, Kept(u)
    PROVE  bound_master(u, k)' = bound_master(u, k)
<1>1. /\ bound_master(u, k) =
            BoundIn(seed_chunks[u], seed_chunks_next[u], revealed_seeds[u], k)
      /\ bound_master(u, k)' =
            BoundIn(seed_chunks'[u], seed_chunks_next'[u], revealed_seeds'[u], k)
  BY DEF bound_master, BoundIn
<1> QED
  BY <1>1 DEF Kept

\* Publishing from CURRENT binds nothing.
LEMMA OldBindsNothing ==
    ASSUME RunnerInv, BoundIsStored, BoundIsStored', NEW t \in Tiers,
           Moves(t, seed_chunks[t]), seed_chunks[t] \in SeedChunk,
           \A u \in Tiers \ {t} : Kept(u), NEW u \in Tiers, NEW k \in Nat
    PROVE  bound_master(u, k)' = bound_master(u, k)
<1>1. CASE u # t
  BY <1>1, KeptBinds
<1>2. CASE u = t
  <2>1. \A m \in Masters : Stored(t, k, m)' <=> Stored(t, k, m)
    <3>1. \A m : InSlot(seed_chunks[t], k, m) => Stored(t, k, m)
      BY DEF Stored
    <3> QED
      BY <3>1, MoveStores
  <2>2. CASE \E m \in Masters : Stored(t, k, m)
    <3>1. PICK m \in Masters : Stored(t, k, m)
      BY <2>2
    <3>2. bound_master(t, k) = m
      BY <3>1 DEF BoundIsStored
    <3>3. bound_master(t, k)' = m
      BY <2>1, <3>1 DEF BoundIsStored
    <3> QED
      BY <1>2, <3>2, <3>3
  <2>3. CASE \A m \in Masters : ~Stored(t, k, m)
    <3>1. bound_master(t, k) = None
      BY <2>3 DEF BoundIsStored
    <3>2. bound_master(t, k)' = None
      BY <2>1, <2>3 DEF BoundIsStored
    <3> QED
      BY <1>2, <3>1, <3>2
  <2> QED
    BY <2>2, <2>3
<1> QED
  BY <1>1, <1>2

\* A new chunk is bound to its random value; no chunk was bound to that value
\* and nothing else is bound anew.
LEMMA NewBindsOne ==
    ASSUME RunnerInv, UniqueInv, BoundIsStored, BoundIsStored',
           NEW t \in Tiers, NEW chunk \in SeedChunk, chunk # seed_chunks[t],
           NewChunk(t, chunk), Moves(t, chunk), \A u \in Tiers \ {t} : Kept(u)
    PROVE  /\ bound_master(t, chunk.chunk_id) = None
           /\ \A u \in Tiers, k \in Nat :
                 /\ bound_master(u, k) # chunk.master
                 /\ bound_master(u, k)' =
                       IF u = t /\ k = chunk.chunk_id THEN chunk.master
                                                     ELSE bound_master(u, k)
<1>1. chunk.chunk_id \in Nat /\ chunk.master \in Masters /\ chunk # None
      /\ chunk.master # None
  BY NoneAssumption DEF SeedChunk
<1>2. bound_master(t, chunk.chunk_id) = None
  BY <1>1, NewIsUnbound DEF BoundIsStored
<1>3. ASSUME NEW u \in Tiers, NEW k \in Nat
      PROVE  bound_master(u, k) # chunk.master
  BY <1>1, <1>3, NewIsUnbound, BoundIsSomewhere
<1>4. bound_master(t, chunk.chunk_id)' = chunk.master
  <2>1. Stored(t, chunk.chunk_id, chunk.master)'
    BY <1>1, MoveStores DEF InSlot
  <2> QED
    BY <1>1, <2>1 DEF BoundIsStored
<1>5. ASSUME NEW u \in Tiers, u # t, NEW k \in Nat
      PROVE  bound_master(u, k)' = bound_master(u, k)
  BY <1>5, KeptBinds
<1>6. ASSUME NEW k \in Nat, k # chunk.chunk_id
      PROVE  bound_master(t, k)' = bound_master(t, k)
  <2>1. \A m \in Masters : Stored(t, k, m)' <=> Stored(t, k, m)
    BY <1>6, MoveStores DEF InSlot
  <2>2. CASE \E m \in Masters : Stored(t, k, m)
    <3>1. PICK m \in Masters : Stored(t, k, m)
      BY <2>2
    <3>2. bound_master(t, k) = m
      BY <3>1 DEF BoundIsStored
    <3>3. bound_master(t, k)' = m
      BY <2>1, <3>1 DEF BoundIsStored
    <3> QED
      BY <3>2, <3>3
  <2>3. CASE \A m \in Masters : ~Stored(t, k, m)
    <3>1. bound_master(t, k) = None
      BY <2>3 DEF BoundIsStored
    <3>2. bound_master(t, k)' = None
      BY <2>1, <2>3 DEF BoundIsStored
    <3> QED
      BY <3>1, <3>2
  <2> QED
    BY <2>2, <2>3
<1> QED
  BY <1>2, <1>3, <1>4, <1>5, <1>6

-----------------------------------------------------------------------------
(* The refinement *)

\* The mapping of EngineRunner's Oracle: the chunks it ranges over, and what
\* they are bound to.
OracleChunks == 0 .. (LastRound \div CHUNK_SIZE + 1)
Bound == [t \in Tiers |-> [k \in OracleChunks |-> bound_master(t, k)]]

\* The last round there is, and the chunks of the rounds up to the one after it.
LEMMA ChunksInRange ==
    ASSUME NEW last \in RoundIds \cup {0}
    PROVE  /\ LastRound \in Nat
           /\ \A r \in RoundIds : r <= LastRound
           /\ OracleChunks \subseteq Nat
           /\ ChunkOf(last + 1) \in OracleChunks
           /\ ChunkOf(last + 1) + 1 \in OracleChunks
<1>1. LastRound \in RoundIds /\ \A r \in RoundIds : r <= LastRound
  BY LastRoundAssumption DEF LastRound
<1>2. /\ last \in Nat /\ LastRound \in Nat /\ last <= LastRound
      /\ CHUNK_SIZE \in Nat \ {0}
  BY <1>1, ConstAssumption
<1>3. last \div CHUNK_SIZE <= LastRound \div CHUNK_SIZE
  BY <1>2, DivMono
<1>4. last \div CHUNK_SIZE \in Nat /\ LastRound \div CHUNK_SIZE \in Nat
  BY <1>2
<1>5. ChunkOf(last + 1) = last \div CHUNK_SIZE
  BY <1>2 DEF ChunkOf
<1> QED
  BY <1>1, <1>2, <1>3, <1>4, <1>5 DEF OracleChunks

\* The empty canister is bound to nothing.
LEMMA OracleInit == Init => Oracle!Init
<1> SUFFICES ASSUME Init
             PROVE  Oracle!Init
  OBVIOUS
<1>1. BoundIsStored
  BY RunnerInit, BoundMaster
<1>2. ASSUME NEW t \in Tiers, NEW k \in OracleChunks
      PROVE  bound_master(t, k) = None
  <2>1. k \in Nat
    BY <1>2, ChunksInRange
  <2>2. \A m \in Masters : ~Stored(t, k, m)
    BY DEF Init, Stored, InSlot
  <2> QED
    BY <1>1, <2>1, <2>2 DEF BoundIsStored
<1>3. Bound = [t \in Tiers |-> [k \in OracleChunks |-> None]]
  BY <1>2 DEF Bound
<1> QED
  BY <1>3 DEF Oracle!Init, Oracle!ChunkIds, Bound, OracleChunks, Init

\* Every step of the canister is a step of the oracle, or one it does not see.
LEMMA OracleStep ==
    ASSUME RunnerInv, RunnerInv', UniqueInv, [RunnerNext]_vars
    PROVE  [Oracle!Next]_(Oracle!vars)
<1>1. BoundIsStored
  BY BoundMaster
<1>2. BoundIsStored'
  BY BoundMaster, PTL
<1>3. /\ last_settled_rounds \in [Tiers -> RoundIds \cup {0}]
      /\ last_settled_rounds' \in [Tiers -> RoundIds \cup {0}]
  BY DEF RunnerInv, TypeOK
<1>4. CASE \A u \in Tiers : Kept(u)
  <2>1. last_settled_rounds' = last_settled_rounds
    BY <1>3, <1>4 DEF Kept
  <2>2. Bound' = Bound
    BY <1>4, KeptBinds DEF Bound
  <2> QED
    BY <2>1, <2>2 DEF Oracle!vars, Bound, OracleChunks
<1>5. ASSUME NEW t \in Tiers, NEW chunk \in SeedChunk, Moves(t, chunk),
             \A u \in Tiers \ {t} : Kept(u)
      PROVE  Oracle!Next
  <2> DEFINE last == last_settled_rounds[t]
             Settles == last' = last + 1
             Rests == last' = last
  <2>1. /\ last \in RoundIds \cup {0}
        /\ last \in Nat
        /\ LastRound \in Nat
        /\ \A r \in RoundIds : r <= LastRound
        /\ OracleChunks \subseteq Nat
        /\ ChunkOf(last + 1) \in OracleChunks
        /\ ChunkOf(last + 1) + 1 \in OracleChunks
    BY <1>3, TierFacts, ChunksInRange
  \* The step publishes the next round, or only fills a slot.
  <2>2. \/ /\ chunk.chunk_id = ChunkOf(last + 1)
           /\ Settles
           /\ last < LastRound
        \/ /\ chunk.chunk_id \in {ChunkOf(last + 1), ChunkOf(last + 1) + 1}
           /\ Rests
           /\ NewChunk(t, chunk) /\ chunk # seed_chunks[t]
    <3>1. ASSUME NEW r \in RoundIds, PublishedFrom(t, r, chunk)
          PROVE  chunk.chunk_id = ChunkOf(last + 1) /\ Settles /\ last < LastRound
      <4>1. r <= LastRound /\ LastRound \in Nat
        BY <2>1
      <4>2. r = last + 1 /\ last' = r /\ chunk.chunk_id = ChunkOf(r)
        BY <3>1 DEF PublishedFrom
      <4> QED
        BY <2>1, <4>1, <4>2
    <3>2. CASE NewChunk(t, chunk) /\ Fills(t, chunk)
      <4>1. seed_chunks[t] \in SeedChunk
        BY <3>2, TierFacts DEF Fills
      <4>2. chunk # seed_chunks[t]
        BY <3>2, <4>1 DEF Fills, SeedChunk
      <4> QED
        BY <3>2, <4>2 DEF Fills, Prefetched
    <3>3. CASE NewChunk(t, chunk) /\ Replaces(t, chunk)
      <4>1. last >= 1
        BY <2>1, <3>3 DEF Replaces, Replaced
      <4>2. chunk # seed_chunks[t]
        BY <2>1, <3>3, <4>1, ChunkStep DEF Replaces, Replaced, AtChunkEnd
      <4> QED
        BY <3>3, <4>2 DEF Replaces, Replaced
    <3> QED
      BY <1>5, <3>1, <3>2, <3>3 DEF Moves
  <2>3. /\ Settles => last_settled_rounds' = [last_settled_rounds EXCEPT ![t] = @ + 1]
        /\ Rests => last_settled_rounds' = last_settled_rounds
    BY <1>3, <1>5 DEF Kept
  \* The chunk is CURRENT and bound already, or new and bound by this step.
  <2>4. CASE chunk = seed_chunks[t]
    <3>1. Settles /\ last < LastRound /\ chunk.chunk_id = ChunkOf(last + 1)
      BY <2>2, <2>4
    <3>2. Bound' = Bound
      BY <1>1, <1>2, <1>5, <2>1, <2>4, OldBindsNothing DEF Bound
    <3>3. bound_master(t, ChunkOf(last + 1)) # None
      <4>1. chunk # None /\ chunk.master \in Masters /\ chunk.chunk_id \in Nat
        BY NoneAssumption DEF SeedChunk
      <4>2. Stored(t, chunk.chunk_id, chunk.master)
        BY <2>4, <4>1 DEF Stored, InSlot
      <4> QED
        BY <1>1, <3>1, <4>1, <4>2, NoneAssumption DEF BoundIsStored
    <3>4. Bound[t][ChunkOf(last + 1)] # None
      BY <2>1, <3>3 DEF Bound
    <3>5. Oracle!Settle(t)
      BY <2>3, <3>1 DEF Oracle!Settle
    <3>6. Oracle!Reveal(t)
      BY <3>2, <3>4, <3>5 DEF Oracle!Reveal, Oracle!ChunkOf, ChunkOf, Bound,
                             OracleChunks
    <3> QED
      BY <3>6 DEF Oracle!Next
  <2>5. CASE chunk # seed_chunks[t]
    <3> DEFINE id == chunk.chunk_id
    <3>1. NewChunk(t, chunk) /\ id \in OracleChunks /\ chunk.master \in Masters
      BY <1>5, <2>1, <2>2, <2>5 DEF Moves, SeedChunk
    <3>2. /\ bound_master(t, id) = None
          /\ \A u \in Tiers, k \in Nat :
                /\ bound_master(u, k) # chunk.master
                /\ bound_master(u, k)' =
                      IF u = t /\ k = id THEN chunk.master ELSE bound_master(u, k)
      BY <1>1, <1>2, <1>5, <2>5, <3>1, NewBindsOne
    <3>3. Bound[t][id] = None
      BY <3>1, <3>2 DEF Bound
    <3>4. Bound' = [Bound EXCEPT ![t][id] = chunk.master]
      BY <2>1, <3>1, <3>2 DEF Bound
    <3>5. chunk.master \notin Oracle!Committed
      <4>1. Oracle!Committed =
                {Bound[u][k] : u \in Tiers, k \in OracleChunks} \ {None}
        BY DEF Oracle!Committed, Oracle!ChunkIds, Bound, OracleChunks
      <4>2. ASSUME NEW u \in Tiers, NEW k \in OracleChunks
            PROVE  Bound[u][k] # chunk.master
        BY <2>1, <3>2, <4>2 DEF Bound
      <4> QED
        BY <4>1, <4>2
    <3>6. Oracle!Bind(t, id)
      BY <3>1, <3>3, <3>4, <3>5 DEF Oracle!Bind, Bound, OracleChunks
    <3>7. CASE Settles /\ last < LastRound /\ id = ChunkOf(last + 1)
      <4>1. Oracle!Settle(t)
        BY <2>3, <3>7 DEF Oracle!Settle
      <4>2. Oracle!CommitAndReveal(t)
        BY <3>6, <3>7, <4>1 DEF Oracle!CommitAndReveal, Oracle!ChunkOf, ChunkOf
      <4> QED
        BY <4>2 DEF Oracle!Next
    <3>8. CASE Rests /\ id \in {ChunkOf(last + 1), ChunkOf(last + 1) + 1}
      <4>1. id <= ChunkOf(last + 1) + 1
        <5>1. ChunkOf(last + 1) \in Nat
          BY <2>1
        <5> QED
          BY <3>8, <5>1
      <4>2. Oracle!Commit(t)
        BY <2>3, <3>1, <3>6, <3>8, <4>1
        DEF Oracle!Commit, Oracle!ChunkIds, OracleChunks, Oracle!ChunkOf, ChunkOf
      <4> QED
        BY <4>2 DEF Oracle!Next
    <3> QED
      BY <2>2, <3>7, <3>8
  <2> QED
    BY <2>4, <2>5
<1> QED
  BY <1>4, <1>5, StepMoves

\* To someone who sees only which random value a chunk is bound to, and which
\* rounds are settled, the canister is SeedOracle, whatever fails or restarts:
\* a chunk is bound once, to a value of its own and at most one chunk ahead,
\* and rounds are published in order under the commitment of their chunk.
THEOREM OracleImplemented == RunnerSpec => ImplementsOracle
<1>1. UniqueInv /\ [RunnerNext]_vars => UniqueInv'
  BY UniqueStep DEF RunnerNext, request_reveal, Next, RevealNext
<1>2. RunnerInv /\ RunnerInv' /\ UniqueInv /\ [RunnerNext]_vars
          => [Oracle!Next]_(Oracle!vars)
  BY OracleStep
<1> QED
  BY <1>1, <1>2, UniqueInit, OracleInit, RunnerInvariant, PTL
  DEF RunnerSpec, ImplementsOracle, Oracle!Spec

=============================================================================
