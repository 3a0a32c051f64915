-------------------------- MODULE SeedCounter_proof --------------------------
(***************************************************************************)
(* Proof that CHUNK_OFFSETS never lags behind the rounds revealed, however *)
(* reveals overlap.  A reveal of a round that a duplicate has published    *)
(* meanwhile counts again, so the counter may run ahead; it must not run   *)
(* over the word, which the calls in flight together have to fit in.       *)
(***************************************************************************)
EXTENDS SeedReveal_proof, FiniteSetTheorems

\* The word cannot be used up by the reveals allowed and the calls in flight.
WordIsLarge == IsFiniteSet(Calls) /\ MaxReveals + Cardinality(Calls) < U64

PublicRounds(t) == {r \in RoundIds : Revealed(t, r)}

\* The calls that have passed the checks and will publish a round of t.
Awaiting(t) ==
    {c \in Calls : /\ calls[c] # None
                   /\ calls[c].phase = "ensure_chunk"
                   /\ calls[c].tier = t}

\* What is counted covers what is public, and leaves room for what is awaited.
CountInv ==
    /\ TypeOK
    /\ \A t \in Tiers :
          /\ Cardinality(PublicRounds(t)) <= chunk_offsets[t]
          /\ chunk_offsets[t] + Cardinality(Awaiting(t))
                 <= MaxReveals + Cardinality(Calls)

-----------------------------------------------------------------------------
(* Counting *)

\* The sets counted are finite.
LEMMA CountsAreNumbers ==
    ASSUME WordIsLarge, NEW t
    PROVE  /\ IsFiniteSet(PublicRounds(t)) /\ Cardinality(PublicRounds(t)) \in Nat
           /\ IsFiniteSet(Awaiting(t)) /\ Cardinality(Awaiting(t)) \in Nat
           /\ Cardinality(Awaiting(t)) <= Cardinality(Calls)
           /\ Cardinality(Calls) \in Nat /\ MaxReveals \in Nat /\ U64 \in Nat
<1>1. IsFiniteSet(RoundIds)
  <2>1. IsFiniteSet(0 .. (U64 - 1))
    BY ConstAssumption, FS_Interval
  <2> QED
    BY <2>1, ConstAssumption, FS_Subset
<1>2. IsFiniteSet(PublicRounds(t))
  BY <1>1, FS_Subset DEF PublicRounds
<1>3. IsFiniteSet(Awaiting(t)) /\ Cardinality(Awaiting(t)) <= Cardinality(Calls)
  BY FS_Subset DEF Awaiting, WordIsLarge
<1> QED
  BY <1>2, <1>3, FS_CardinalityType, ConstAssumption DEF WordIsLarge

\* A publication adds one round at most, and counts one.
LEMMA PublishCounts ==
    ASSUME WordIsLarge, TypeOK, NEW t \in Tiers, NEW r \in RoundIds,
           NEW chunk \in SeedChunk, publish(t, r, chunk),
           chunk_offsets[t] + 1 < U64, NEW u \in Tiers,
           Cardinality(PublicRounds(u)) <= chunk_offsets[u]
    PROVE  /\ chunk_offsets'[u] = IF u = t THEN chunk_offsets[u] + 1
                                           ELSE chunk_offsets[u]
           /\ Cardinality(PublicRounds(u)') <= chunk_offsets'[u]
<1>1. chunk_offsets \in [Tiers -> 0 .. (U64 - 1)] /\ U64 \in Nat \ {0}
  BY ConstAssumption DEF TypeOK
<1>2. increment_offset(t) = chunk_offsets[t] + 1
  BY <1>1 DEF increment_offset
<1>3. chunk_offsets'[u] = IF u = t THEN chunk_offsets[u] + 1 ELSE chunk_offsets[u]
  BY <1>1, <1>2 DEF publish
<1>4. get_seed_proof(chunk, offset_in_chunk(t, r)) # None
  <2>1. get_seed_proof(chunk, offset_in_chunk(t, r)) \in SeedProof
    BY RoundArithmetic DEF get_seed_proof, SeedProof, SeedChunk
  <2> QED
    BY <2>1, NoneAssumption
<1>5. \A q \in RoundIds : revealed_seeds'[u][q] # None <=>
          revealed_seeds[u][q] # None \/ (u = t /\ q = r)
  BY <1>4 DEF publish, TypeOK
<1>6. PublicRounds(u)' = IF u = t THEN PublicRounds(u) \cup {r} ELSE PublicRounds(u)
  BY <1>5 DEF PublicRounds, Revealed
<1>7. Cardinality(PublicRounds(u) \cup {r}) <= Cardinality(PublicRounds(u)) + 1
  <2>1. IsFiniteSet(PublicRounds(u)) /\ Cardinality(PublicRounds(u)) \in Nat
    BY CountsAreNumbers
  <2>2. \/ Cardinality(PublicRounds(u) \cup {r}) = Cardinality(PublicRounds(u))
        \/ Cardinality(PublicRounds(u) \cup {r}) = Cardinality(PublicRounds(u)) + 1
    BY <2>1, FS_AddElement
  <2> QED
    BY <2>1, <2>2
<1>8. Cardinality(PublicRounds(u)) \in Nat /\ chunk_offsets[u] \in Nat
  BY <1>1, CountsAreNumbers
<1>9. Cardinality(PublicRounds(u) \cup {r}) \in Nat
  BY CountsAreNumbers, FS_AddElement, FS_CardinalityType
<1> QED
  BY <1>3, <1>6, <1>7, <1>8, <1>9

\* Calls that go on, end, or await something other than a reveal's CURRENT.
NoneJoins ==
    \A c \in Calls :
        \/ calls'[c] = None
        \/ calls'[c].phase # "ensure_chunk"
        \/ /\ calls[c] # None
           /\ calls'[c].phase = calls[c].phase
           /\ calls'[c].tier = calls[c].tier

\* Then no more calls await it than before.
LEMMA FewerAwait ==
    ASSUME WordIsLarge, NoneJoins, NEW u
    PROVE  /\ Awaiting(u)' \subseteq Awaiting(u)
           /\ Cardinality(Awaiting(u)') \in Nat
           /\ Cardinality(Awaiting(u)') <= Cardinality(Awaiting(u))
<1>1. Awaiting(u)' \subseteq Awaiting(u)
  BY DEF Awaiting, NoneJoins
<1> QED
  BY <1>1, CountsAreNumbers, FS_Subset, FS_CardinalityType

\* What follows a publication is no wait for CURRENT.
LEMMA MaintainJoinsNone ==
    ASSUME TypeOK, NEW c \in Calls, NEW t \in Tiers, NEW r \in RoundIds,
           NEW chunk, maintain_slots(c, t, r, chunk)
    PROVE  /\ NoneJoins
           /\ calls'[c] = None \/ calls'[c].phase # "ensure_chunk"
<1>1. CASE calls' = [calls EXCEPT ![c] = None]
  BY <1>1 DEF NoneJoins, TypeOK
<1>2. ASSUME NEW phase \in {"prefetch", "boundary"}, NEW want \in Nat,
             Await(c, phase, t, r, want)
      PROVE  /\ NoneJoins
             /\ calls'[c] = None \/ calls'[c].phase # "ensure_chunk"
  BY <1>2 DEF NoneJoins, TypeOK, Await
<1> QED
  BY <1>1, <1>2, MaintainCalls

-----------------------------------------------------------------------------
(* The invariant is inductive *)

\* Steps that publish nothing and add no call that will.
LEMMA QuietCounts ==
    ASSUME WordIsLarge, CountInv, TypeOK', NoneJoins,
           UNCHANGED <<chunk_offsets, revealed_seeds>>
    PROVE  CountInv'
<1>1. ASSUME NEW t \in Tiers
      PROVE  /\ Cardinality(PublicRounds(t)') <= chunk_offsets'[t]
             /\ chunk_offsets'[t] + Cardinality(Awaiting(t)')
                    <= MaxReveals + Cardinality(Calls)
  <2>1. PublicRounds(t)' = PublicRounds(t) /\ chunk_offsets'[t] = chunk_offsets[t]
    BY DEF PublicRounds, Revealed
  <2>2. chunk_offsets[t] \in Nat
    BY ConstAssumption DEF CountInv, TypeOK
  <2> QED
    BY <2>1, <2>2, FewerAwait, CountsAreNumbers DEF CountInv
<1> QED
  BY <1>1 DEF CountInv

\* One step per action.
LEMMA CountStep ==
    ASSUME WordIsLarge, CountInv, [RevealNext]_vars
    PROVE  CountInv'
<1>t. TypeOK /\ TypeOK'
  BY TypeStep DEF CountInv, Next
<1> DEFINE Fits(u) == /\ Cardinality(PublicRounds(u)') <= chunk_offsets'[u]
                      /\ chunk_offsets'[u] + Cardinality(Awaiting(u)')
                             <= MaxReveals + Cardinality(Calls)
<1>f. (\A u \in Tiers : Fits(u)) => CountInv'
  BY <1>t DEF CountInv
<1>o. \A u \in Tiers : chunk_offsets[u] \in Nat
  BY <1>t, ConstAssumption DEF TypeOK
<1>1. ASSUME NEW c \in Calls, NEW t \in Tiers, NEW r \in RoundIds,
             reveal_seed(c, t, r)
      PROVE  CountInv'
  <2>1. chunk_offsets[t] < MaxReveals /\ calls[c] = None
    BY <1>1 DEF reveal_seed
  <2>2. CASE Await(c, "ensure_chunk", t, r, expected_chunk_id(r))
             /\ UNCHANGED stable
    <3> SUFFICES ASSUME NEW u \in Tiers
                 PROVE  Fits(u)
      BY <1>f
    <3>1. PublicRounds(u)' = PublicRounds(u) /\ chunk_offsets'[u] = chunk_offsets[u]
      BY <2>2 DEF stable, PublicRounds, Revealed
    <3>2. u # t => Awaiting(u)' = Awaiting(u)
      <4>1. calls' = [calls EXCEPT ![c] = calls'[c]] /\ calls'[c].tier = t
        BY <1>t, <2>2 DEF Await, TypeOK
      <4>2. \A d \in Calls \ {c} : calls'[d] = calls[d]
        BY <1>t, <2>2 DEF Await, TypeOK
      <4> QED
        BY <2>1, <4>1, <4>2 DEF Awaiting
    <3>3. /\ Awaiting(u)' \subseteq Calls
          /\ Cardinality(Awaiting(u)') \in Nat
          /\ Cardinality(Awaiting(u)') <= Cardinality(Calls)
      <4>1. Awaiting(u)' \subseteq Calls
        BY DEF Awaiting
      <4> QED
        BY <4>1, FS_Subset, FS_CardinalityType DEF WordIsLarge
    <3>4. CASE u = t
      BY <1>o, <2>1, <3>1, <3>3, <3>4, CountsAreNumbers DEF CountInv
    <3>5. CASE u # t
      BY <3>1, <3>2, <3>5 DEF CountInv
    <3> QED
      BY <3>4, <3>5
  <2>3. CASE /\ ~needs_generation(t, r)
             /\ publish(t, r, seed_chunks[t])
             /\ maintain_slots(c, t, r, seed_chunks[t])
    <3> SUFFICES ASSUME NEW u \in Tiers
                 PROVE  Fits(u)
      BY <1>f
    <3>1. seed_chunks[t] \in SeedChunk
      BY <1>t, <2>3 DEF needs_generation, Holds, TypeOK
    <3>2. chunk_offsets[t] + 1 < U64
      BY <1>o, <2>1, CountsAreNumbers DEF WordIsLarge
    <3>3. /\ chunk_offsets'[u] = IF u = t THEN chunk_offsets[u] + 1
                                          ELSE chunk_offsets[u]
          /\ Cardinality(PublicRounds(u)') <= chunk_offsets'[u]
      BY <1>t, <2>3, <3>1, <3>2, PublishCounts DEF CountInv
    <3>4. /\ Cardinality(Awaiting(u)') \in Nat
          /\ Cardinality(Awaiting(u)') <= Cardinality(Awaiting(u))
      BY <1>t, <2>3, MaintainJoinsNone, FewerAwait
    <3> QED
      BY <1>o, <2>1, <3>3, <3>4, CountsAreNumbers DEF CountInv
  <2> QED
    BY <1>1, <2>2, <2>3 DEF reveal_seed
<1>2. ASSUME NEW c \in Calls, ensure_chunk_signed(c)
      PROVE  CountInv'
  <2> SUFFICES ASSUME NEW u \in Tiers
               PROVE  Fits(u)
    BY <1>f
  <2>0. /\ calls[c].tier \in Tiers /\ calls[c].round \in RoundIds
        /\ SignedChunk(calls[c]) \in SeedChunk
    BY <1>t, <1>2, SuspendedType DEF ensure_chunk_signed, Phases
  <2>1. PICK t \in Tiers, r \in RoundIds, chunk \in SeedChunk :
            t = calls[c].tier /\ r = calls[c].round /\ chunk = SignedChunk(calls[c])
    BY <2>0
  <2>2. publish(t, r, chunk) /\ maintain_slots(c, t, r, chunk)
    BY <1>2, <2>1 DEF ensure_chunk_signed
  <2>3. c \in Awaiting(t)
    BY <1>2, <2>1 DEF ensure_chunk_signed, Suspended, Awaiting
  <2>4. /\ NoneJoins
        /\ c \notin Awaiting(t)'
    BY <1>t, <2>1, <2>2, MaintainJoinsNone DEF Awaiting
  <2>5. /\ Cardinality(Awaiting(t)') \in Nat
        /\ Cardinality(Awaiting(t)') + 1 <= Cardinality(Awaiting(t))
    <3>1. Awaiting(t)' \subseteq Awaiting(t) \ {c}
      BY <2>4, FewerAwait
    <3>2. /\ IsFiniteSet(Awaiting(t) \ {c})
          /\ Cardinality(Awaiting(t) \ {c}) = Cardinality(Awaiting(t)) - 1
      BY <2>3, CountsAreNumbers, FS_RemoveElement
    <3>3. /\ IsFiniteSet(Awaiting(t)')
          /\ Cardinality(Awaiting(t)') <= Cardinality(Awaiting(t) \ {c})
      BY <3>1, <3>2, FS_Subset
    <3> QED
      BY <3>2, <3>3, FS_CardinalityType, CountsAreNumbers
  <2>6. chunk_offsets[t] + 1 < U64
    BY <1>o, <2>1, <2>5, CountsAreNumbers DEF CountInv, WordIsLarge
  <2>7. /\ chunk_offsets'[u] = IF u = t THEN chunk_offsets[u] + 1
                                        ELSE chunk_offsets[u]
        /\ Cardinality(PublicRounds(u)') <= chunk_offsets'[u]
    BY <1>t, <2>1, <2>2, <2>6, PublishCounts DEF CountInv
  <2>8. /\ Cardinality(Awaiting(u)') \in Nat
        /\ Cardinality(Awaiting(u)') <= Cardinality(Awaiting(u))
    BY <2>4, FewerAwait
  <2>9. /\ chunk_offsets[u] + Cardinality(Awaiting(u))
               <= MaxReveals + Cardinality(Calls)
        /\ Cardinality(Awaiting(u)) \in Nat
    BY CountsAreNumbers DEF CountInv
  <2>10. CASE u = t
    BY <1>o, <2>5, <2>7, <2>9, <2>10, CountsAreNumbers
  <2>11. CASE u # t
    BY <1>o, <2>7, <2>8, <2>9, <2>11, CountsAreNumbers
  <2> QED
    BY <2>10, <2>11
<1>3. ASSUME NEW c \in Calls,
             \/ raw_rand_reply(c) \/ boundary_signed(c)
             \/ prefetch_signed(c) \/ call_failed(c)
      PROVE  CountInv'
  <2>1. UNCHANGED <<chunk_offsets, revealed_seeds>>
    BY <1>3 DEF raw_rand_reply, boundary_signed, prefetch_signed, call_failed, stable
  <2>2. CASE raw_rand_reply(c)
    BY <1>t, <2>1, <2>2, QuietCounts DEF raw_rand_reply, NoneJoins, TypeOK
  <2>3. CASE boundary_signed(c)
    BY <1>t, <2>1, <2>3, QuietCounts DEF boundary_signed, Await, NoneJoins, TypeOK
  <2>4. CASE prefetch_signed(c) \/ call_failed(c)
    BY <1>t, <2>1, <2>4, QuietCounts
    DEF prefetch_signed, call_failed, Return, NoneJoins, TypeOK
  <2> QED
    BY <1>3, <2>2, <2>3, <2>4
<1>4. CASE upgrade
  BY <1>t, <1>4, QuietCounts DEF upgrade, stable, NoneJoins
<1>5. CASE UNCHANGED vars
  <2>1. NoneJoins
    BY <1>5 DEF vars, NoneJoins
  <2> QED
    BY <1>t, <1>5, <2>1, QuietCounts DEF vars, stable
<1> QED
  BY <1>1, <1>2, <1>3, <1>4, <1>5 DEF RevealNext, Answered

\* Nothing is public and nothing counted at the start.
LEMMA CountInit == WordIsLarge /\ Init => CountInv
<1> SUFFICES ASSUME WordIsLarge, Init
             PROVE  CountInv
  OBVIOUS
<1>1. ASSUME NEW t \in Tiers
      PROVE  /\ PublicRounds(t) = {} /\ Awaiting(t) = {} /\ chunk_offsets[t] = 0
  BY <1>1 DEF Init, PublicRounds, Revealed, Awaiting
<1> QED
  BY <1>1, TypeInit, FS_EmptySet, CountsAreNumbers DEF CountInv

\* However reveals of a tier overlap, fail or are repeated, the counter has
\* counted at least the rounds that are public.
THEOREM CounterCoversReveals ==
    ASSUME WordIsLarge
    PROVE  RevealSpec => []OffsetCoversReveals
<1>1. CountInv => OffsetCoversReveals
  BY DEF CountInv, OffsetCoversReveals, PublicRounds
<1>2. CountInv /\ [RevealNext]_vars => CountInv'
  BY CountStep
<1>3. Init => CountInv
  BY CountInit
<1> QED
  BY <1>1, <1>2, <1>3, PTL DEF RevealSpec

=============================================================================
