------------------------- MODULE EngineRunner_proof -------------------------
(***************************************************************************)
(* Proofs about SeedReveal driven one call per tier at a time, with calls  *)
(* failing at any await and upgrades cutting them: RunnerInv is inductive. *)
(***************************************************************************)
EXTENDS EngineRunner, SeedReveal_proof

-----------------------------------------------------------------------------
(* Arithmetic *)

\* The chunk of the next round is the next chunk exactly at a chunk's end.
LEMMA ChunkStep ==
    ASSUME NEW n \in Nat, n >= 1
    PROVE  /\ ChunkOf(n) \in Nat
           /\ ChunkOf(n + 1) = IF n % CHUNK_SIZE = 0 THEN ChunkOf(n) + 1
                                                     ELSE ChunkOf(n)
<1>1. CHUNK_SIZE \in Nat \ {0}
  BY ConstAssumption
<1>2. ASSUME NEW m \in Nat, NEW d \in Nat \ {0}
      PROVE  /\ m \div d \in Nat
             /\ (m + 1) \div d = IF (m + 1) % d = 0 THEN (m \div d) + 1
                                                    ELSE m \div d
  OBVIOUS
<1>3. n - 1 \in Nat /\ (n - 1) + 1 = n /\ (n + 1) - 1 = n
  OBVIOUS
<1>4. (n - 1) \div CHUNK_SIZE \in Nat
      /\ n \div CHUNK_SIZE = IF n % CHUNK_SIZE = 0
                             THEN ((n - 1) \div CHUNK_SIZE) + 1
                             ELSE (n - 1) \div CHUNK_SIZE
  BY <1>1, <1>2, <1>3
<1> QED
  BY <1>3, <1>4 DEF ChunkOf

\* Integer division is monotonic.
LEMMA DivMono ==
    ASSUME NEW i \in Nat, NEW j \in Nat, NEW d \in Nat \ {0}, i <= j
    PROVE  i \div d <= j \div d
<1>1. \A x, y \in Nat : x + 1 <= y => d * x + d <= d * y
  <2> SUFFICES ASSUME NEW x \in Nat, NEW y \in Nat, x + 1 <= y
               PROVE  d * x + d <= d * y
    OBVIOUS
  <2>1. PICK k \in Nat : y = x + 1 + k
    <3>1. y - (x + 1) \in Nat /\ y = x + 1 + (y - (x + 1))
      OBVIOUS
    <3> QED
      BY <3>1
  <2>2. d * y = d * x + d + d * k /\ d * k \in Nat
    BY <2>1
  <2> QED
    BY <2>2
<1>2. i \div d \in Nat /\ j \div d \in Nat
  OBVIOUS
<1>3. d * (i \div d) <= i /\ j < d * (j \div d) + d
  OBVIOUS
<1>4. SUFFICES ASSUME (j \div d) + 1 <= i \div d
               PROVE  FALSE
  BY <1>2
<1>5. d * (j \div d) + d <= d * (i \div d)
  BY <1>1, <1>2, <1>4
<1>6. d * (j \div d) \in Nat /\ d * (i \div d) \in Nat
  BY <1>2
<1> QED
  BY <1>3, <1>5, <1>6

\* Later rounds are in later chunks or in the same one.
LEMMA ChunkMono ==
    ASSUME NEW m \in Nat, NEW n \in Nat, 1 <= m, m <= n
    PROVE  ChunkOf(m) <= ChunkOf(n)
<1>1. m - 1 \in Nat /\ n - 1 \in Nat /\ m - 1 <= n - 1
  OBVIOUS
<1> QED
  BY <1>1, DivMono, ConstAssumption DEF ChunkOf

\* For rounds from 1 on, all the ways the code computes a round's chunk and
\* offset agree.
LEMMA ChunkAgrees ==
    ASSUME NEW t, NEW r \in RoundIds, r >= 1
    PROVE  /\ r \in 1 .. (U64 - 1)
           /\ expected_chunk_id(r) = ChunkOf(r)
           /\ current_chunk_id(r) = ChunkOf(r)
           /\ offset_in_chunk(t, r) = (r - 1) % CHUNK_SIZE
           /\ r % U64 = r
<1>1. r \in 1 .. (U64 - 1) /\ U64 \in Nat \ {0}
  BY ConstAssumption
<1>2. (r - 1) % U64 = r - 1 /\ r % U64 = r
  BY <1>1
<1> QED
  BY <1>1, <1>2
  DEF expected_chunk_id, current_chunk_id, offset_in_chunk, ChunkOf

-----------------------------------------------------------------------------
(* What the invariant says of one tier, in the forms the steps need *)

\* The types of one tier's state, and its counter.
LEMMA TierFacts ==
    ASSUME RunnerInv, NEW t \in Tiers
    PROVE  /\ last_settled_rounds[t] \in Nat
           /\ last_settled_rounds[t] <= U64 - 1
           /\ chunk_offsets[t] = last_settled_rounds[t]
           /\ seed_chunks[t] \in SeedChunk \cup {None}
           /\ seed_chunks_next[t] \in SeedChunk \cup {None}
<1>1. last_settled_rounds[t] \in RoundIds \cup {0}
  BY DEF RunnerInv, TypeOK
<1>2. RoundIds \subseteq 0 .. (U64 - 1) /\ 0 \in 0 .. (U64 - 1)
  BY ConstAssumption
<1>3. last_settled_rounds[t] \in 0 .. (U64 - 1)
  BY <1>1, <1>2
<1> QED
  BY <1>3, ConstAssumption DEF RunnerInv, OffsetTracksSettled, TypeOK

\* A round that passes the sequential check is the next one.
LEMMA ValidatedIsNext ==
    ASSUME RunnerInv, NEW t \in Tiers, NEW r \in RoundIds, r >= 1,
           validate_reveal_round(t, r)
    PROVE  r = last_settled_rounds[t] + 1
<1> DEFINE last == last_settled_rounds[t]
<1>1. last \in Nat /\ last <= U64 - 1 /\ U64 \in Nat \ {0} /\ r \in 1 .. (U64 - 1)
  BY TierFacts, ChunkAgrees, ConstAssumption
<1>2. CASE last = 0
  BY <1>1, <1>2 DEF validate_reveal_round
<1>3. CASE last # 0
  <2>1. r = (last + 1) % U64
    BY <1>3 DEF validate_reveal_round
  <2>2. CASE last + 1 < U64
    BY <1>1, <2>1, <2>2
  <2>3. CASE last + 1 = U64
    <3>1. U64 % U64 = 0
      BY <1>1
    <3> QED
      BY <1>1, <2>1, <2>3, <3>1
  <2> QED
    BY <1>1, <2>2, <2>3
<1> QED
  BY <1>2, <1>3

\* CURRENT is one of two chunks.
LEMMA CurrentChunk ==
    ASSUME RunnerInv, NEW t \in Tiers, last_settled_rounds[t] >= 1
    PROVE  /\ seed_chunks[t] \in SeedChunk
           /\ \/ seed_chunks[t].chunk_id = ChunkOf(last_settled_rounds[t])
              \/ /\ AtChunkEnd(t)
                 /\ seed_chunks[t].chunk_id = ChunkOf(last_settled_rounds[t]) + 1
BY TierFacts DEF RunnerInv, CurrentFollowsSettled

-----------------------------------------------------------------------------
(* The invariant as a statement about the values of one tier, so that a step *)
(* is checked on the tier it changes and the others keep theirs.             *)

\* CURRENT, NEXT, last settled round and proofs of one tier.
SlotsFit(cur, next, last) ==
    /\ last = 0 => cur = None
    /\ last # 0 =>
          /\ cur # None
          /\ \/ cur.chunk_id = ChunkOf(last)
             \/ last % CHUNK_SIZE = 0 /\ cur.chunk_id = ChunkOf(last) + 1
    /\ next # None =>
          /\ cur # None
          /\ next.chunk_id = cur.chunk_id + 1
          /\ last % CHUNK_SIZE = 0 => cur.chunk_id # ChunkOf(last)

ProofsFit(cur, last, proofs) ==
    \A r \in RoundIds :
        /\ proofs[r] # None <=> 1 <= r /\ r <= last
        /\ proofs[r] # None =>
              /\ proofs[r].chunk_id = ChunkOf(r)
              /\ proofs[r].offset = (r - 1) % CHUNK_SIZE
              /\ Holds(cur, ChunkOf(r)) => proofs[r].master = cur.master

OneRoot(proofs) ==
    \A r1, r2 \in RoundIds :
        proofs[r1] # None /\ proofs[r2] # None
        /\ proofs[r1].chunk_id = proofs[r2].chunk_id
            => proofs[r1].master = proofs[r2].master

\* A suspended call of a tier with this CURRENT and last settled round.
CallFits(call, cur, last) ==
    \/ /\ call.phase = "ensure_chunk"
       /\ call.round = last + 1
       /\ call.want = ChunkOf(last + 1)
       /\ ~Holds(cur, call.want)
    \/ /\ call.phase = "boundary"
       /\ last > 0
       /\ last % CHUNK_SIZE = 0
       /\ cur.chunk_id = ChunkOf(last)
       /\ call.want = cur.chunk_id + 1
    \/ /\ call.phase = "prefetch"
       /\ last > 0
       /\ last % CHUNK_SIZE = 0 => cur.chunk_id # ChunkOf(last)
       /\ call.want = cur.chunk_id + 1

TierFits(t) ==
    /\ chunk_offsets[t] = last_settled_rounds[t]
    /\ SlotsFit(seed_chunks[t], seed_chunks_next[t], last_settled_rounds[t])
    /\ ProofsFit(seed_chunks[t], last_settled_rounds[t], revealed_seeds[t])
    /\ OneRoot(revealed_seeds[t])

CallFitsTier(c) ==
    calls[c] # None =>
        CallFits(calls[c], seed_chunks[calls[c].tier],
                 last_settled_rounds[calls[c].tier])

Serial ==
    \A c, d \in Calls :
        calls[c] # None /\ calls[d] # None /\ calls[c].tier = calls[d].tier
            => c = d

InvOfTiers ==
    /\ TypeOK
    /\ \A t \in Tiers : TierFits(t)
    /\ \A c \in Calls : CallFitsTier(c)
    /\ Serial

\* The invariant, tier by tier and call by call.
LEMMA InvByTier == RunnerInv <=> InvOfTiers
<1> USE DEF InvOfTiers
<1>1. ASSUME RunnerInv
      PROVE  /\ \A t \in Tiers : TierFits(t)
             /\ \A c \in Calls : CallFitsTier(c)
             /\ Serial
  <2>1. ASSUME NEW t \in Tiers
        PROVE  TierFits(t)
    <3>1. SlotsFit(seed_chunks[t], seed_chunks_next[t], last_settled_rounds[t])
      BY <1>1 DEF RunnerInv, CurrentFollowsSettled, NextIsOneAhead, AtChunkEnd,
                  SlotsFit
    <3>2. ProofsFit(seed_chunks[t], last_settled_rounds[t], revealed_seeds[t])
      BY <1>1 DEF RunnerInv, RevealedUpToSettled, ProofsAgree, Revealed, ProofsFit
    <3>3. OneRoot(revealed_seeds[t])
      BY <1>1 DEF RunnerInv, OneRootPerChunk, Revealed, OneRoot
    <3> QED
      BY <1>1, <3>1, <3>2, <3>3 DEF RunnerInv, OffsetTracksSettled, TierFits
  <2>2. ASSUME NEW c \in Calls
        PROVE  CallFitsTier(c)
    BY <1>1 DEF RunnerInv, CallsAreSerial, CallFitsTier, CallFits, AtChunkEnd
  <2> QED
    BY <1>1, <2>1, <2>2 DEF RunnerInv, CallsAreSerial, Serial
<1>2. ASSUME TypeOK, Serial, \A t \in Tiers : TierFits(t),
             \A c \in Calls : CallFitsTier(c)
      PROVE  RunnerInv
  <2>1. OffsetTracksSettled
    BY <1>2 DEF OffsetTracksSettled, TierFits
  <2>2. CurrentFollowsSettled
    BY <1>2 DEF CurrentFollowsSettled, AtChunkEnd, TierFits, SlotsFit
  <2>3. NextIsOneAhead
    BY <1>2 DEF NextIsOneAhead, AtChunkEnd, TierFits, SlotsFit
  <2>4. RevealedUpToSettled /\ ProofsAgree
    BY <1>2 DEF RevealedUpToSettled, ProofsAgree, Revealed, TierFits, ProofsFit
  <2>5. OneRootPerChunk
    BY <1>2 DEF OneRootPerChunk, Revealed, TierFits, OneRoot
  <2>6. CallsAreSerial
    BY <1>2 DEF CallsAreSerial, AtChunkEnd, CallFitsTier, CallFits, Serial
  <2> QED
    BY <1>2, <2>1, <2>2, <2>3, <2>4, <2>5, <2>6 DEF RunnerInv
<1> QED
  BY <1>1, <1>2 DEF RunnerInv

-----------------------------------------------------------------------------
(* What one publication does to a tier *)

\* The next round is published from `chunk`: CURRENT itself, or a new chunk
\* made because CURRENT is not the chunk of that round.
LEMMA PublishFits ==
    ASSUME NEW last \in Nat, NEW r \in RoundIds, r = last + 1,
           NEW cur, NEW next, NEW chunk \in SeedChunk, NEW proofs,
           SlotsFit(cur, next, last), ProofsFit(cur, last, proofs),
           OneRoot(proofs),
           chunk.chunk_id = ChunkOf(r), chunk = cur \/ ~Holds(cur, ChunkOf(r)),
           NEW new, \A q \in RoundIds : q # r => new[q] = proofs[q],
           new[r] # None, new[r].chunk_id = chunk.chunk_id,
           new[r].master = chunk.master, new[r].offset = (r - 1) % CHUNK_SIZE
    PROVE  /\ ProofsFit(chunk, r, new)
           /\ OneRoot(new)
           /\ chunk # cur => next = None
           /\ next # None => next.chunk_id = ChunkOf(r) + 1
<1>1. r \in Nat /\ CHUNK_SIZE \in Nat \ {0} /\ \A q \in RoundIds : q \in Nat
  BY ConstAssumption
<1>2. chunk # cur => next = None
  <2> SUFFICES ASSUME chunk # cur, next # None
               PROVE  FALSE
    OBVIOUS
  <2>1. last # 0 /\ cur.chunk_id # ChunkOf(r)
    BY DEF SlotsFit, Holds
  <2>2. last >= 1
    BY <2>1
  <2> QED
    BY <2>1, <2>2, ChunkStep DEF SlotsFit
<1>3. ASSUME NEW q \in RoundIds, proofs[q] # None, ChunkOf(q) = ChunkOf(r)
      PROVE  proofs[q].master = chunk.master
  <2>1. 1 <= q /\ q <= last
    BY <1>3 DEF ProofsFit
  <2>2. ChunkOf(q) <= ChunkOf(last) /\ ChunkOf(last) <= ChunkOf(r)
    BY <1>1, <2>1, ChunkMono
  <2>3. /\ ChunkOf(q) \in Nat
        /\ ChunkOf(last) \in Nat
        /\ ChunkOf(r) = IF last % CHUNK_SIZE = 0 THEN ChunkOf(last) + 1
                                                 ELSE ChunkOf(last)
    BY <1>1, <2>1, ChunkStep
  <2>4. last % CHUNK_SIZE # 0 /\ ChunkOf(last) = ChunkOf(r)
    BY <1>3, <2>2, <2>3
  <2>5. Holds(cur, ChunkOf(r))
    BY <1>1, <2>1, <2>4 DEF SlotsFit, Holds
  <2> QED
    BY <1>3, <2>5 DEF ProofsFit
<1>4. ProofsFit(chunk, r, new)
  <2> SUFFICES ASSUME NEW q \in RoundIds
               PROVE  /\ new[q] # None <=> 1 <= q /\ q <= r
                      /\ new[q] # None =>
                            /\ new[q].chunk_id = ChunkOf(q)
                            /\ new[q].offset = (q - 1) % CHUNK_SIZE
                            /\ Holds(chunk, ChunkOf(q)) =>
                                  new[q].master = chunk.master
    BY DEF ProofsFit
  <2>1. CASE q = r
    BY <1>1, <2>1
  <2>2. CASE q # r
    <3>1. new[q] = proofs[q] /\ (q <= r <=> q <= last)
      BY <1>1, <2>2
    <3>2. Holds(chunk, ChunkOf(q)) => ChunkOf(q) = ChunkOf(r)
      BY DEF Holds
    <3> QED
      BY <1>3, <3>1, <3>2 DEF ProofsFit
  <2> QED
    BY <2>1, <2>2
<1>5. OneRoot(new)
  <2> SUFFICES ASSUME NEW p \in RoundIds, NEW q \in RoundIds,
                      new[p] # None, new[q] # None,
                      new[p].chunk_id = new[q].chunk_id
               PROVE  new[p].master = new[q].master
    BY DEF OneRoot
  <2>1. ASSUME NEW x \in RoundIds, new[x] # None, new[x].chunk_id = ChunkOf(r)
        PROVE  new[x].master = chunk.master
    <3>1. CASE x = r
      BY <3>1
    <3>2. CASE x # r
      BY <1>3, <2>1, <3>2 DEF ProofsFit
    <3> QED
      BY <3>1, <3>2
  <2>2. CASE p = r \/ q = r
    BY <2>1, <2>2
  <2>3. CASE p # r /\ q # r
    BY <2>3 DEF OneRoot
  <2> QED
    BY <2>2, <2>3
<1>6. next # None => next.chunk_id = ChunkOf(r) + 1
  BY <1>2 DEF SlotsFit
<1> QED
  BY <1>2, <1>4, <1>5, <1>6

\* The slots around a boundary and away from one.
LEMMA SlotsAfter ==
    ASSUME NEW r \in RoundIds, r >= 1, NEW chunk \in SeedChunk,
           chunk.chunk_id = ChunkOf(r), NEW next, NEW new,
           ProofsFit(chunk, r, new),
           next # None => next.chunk_id = ChunkOf(r) + 1
    PROVE  /\ r % CHUNK_SIZE # 0 => SlotsFit(chunk, next, r)
           /\ SlotsFit(chunk, None, r)
           /\ r % CHUNK_SIZE = 0 /\ next # None =>
                 SlotsFit(next, None, r) /\ ProofsFit(next, r, new)
<1>1. r \in Nat /\ ChunkOf(r) \in Nat /\ chunk # None
  BY ConstAssumption, NoneAssumption, ChunkStep
<1>2. SlotsFit(chunk, None, r) /\ (r % CHUNK_SIZE # 0 => SlotsFit(chunk, next, r))
  BY <1>1 DEF SlotsFit
<1>3. ASSUME r % CHUNK_SIZE = 0, next # None
      PROVE  SlotsFit(next, None, r) /\ ProofsFit(next, r, new)
  <2>1. SlotsFit(next, None, r)
    BY <1>1, <1>3 DEF SlotsFit
  <2>2. ASSUME NEW q \in RoundIds, new[q] # None
        PROVE  ~Holds(next, ChunkOf(q))
    <3>1. 1 <= q /\ q <= r /\ q \in Nat
      BY <2>2, ConstAssumption DEF ProofsFit
    <3>2. ChunkOf(q) <= ChunkOf(r) /\ ChunkOf(q) \in Nat
      BY <1>1, <3>1, ChunkMono, ChunkStep
    <3> QED
      BY <1>1, <1>3, <3>2 DEF Holds
  <2>3. ProofsFit(next, r, new)
    BY <2>2 DEF ProofsFit
  <2> QED
    BY <2>1, <2>3
<1> QED
  BY <1>2, <1>3

-----------------------------------------------------------------------------
(* The invariant is inductive *)

OthersKept(t) ==
    \A u \in Tiers : u # t =>
        /\ seed_chunks'[u] = seed_chunks[u]
        /\ seed_chunks_next'[u] = seed_chunks_next[u]
        /\ chunk_offsets'[u] = chunk_offsets[u]
        /\ last_settled_rounds'[u] = last_settled_rounds[u]
        /\ revealed_seeds'[u] = revealed_seeds[u]

\* No call but c is suspended on tier t.
Alone(c, t) ==
    \A d \in Calls : d # c => calls[d] = None \/ calls[d].tier # t

\* A step of one call on one tier.
LEMMA OneTierStep ==
    ASSUME RunnerInv, TypeOK', NEW t \in Tiers, NEW c \in Calls, NEW call,
           calls' = [calls EXCEPT ![c] = call], Alone(c, t), OthersKept(t),
           calls[c] = None \/ calls[c].tier = t,
           TierFits(t)',
           call # None =>
               /\ call.tier = t
               /\ CallFits(call, seed_chunks'[t], last_settled_rounds'[t])
    PROVE  RunnerInv'
<1>1. /\ \A u \in Tiers : TierFits(u)
      /\ \A d \in Calls : CallFitsTier(d)
      /\ Serial
      /\ calls \in [Calls -> SomeCall \cup {None}]
  BY InvByTier DEF InvOfTiers, TypeOK, SomeCall
<1>2. calls'[c] = call /\ \A d \in Calls : d # c => calls'[d] = calls[d]
  BY <1>1
<1>3. ASSUME NEW u \in Tiers
      PROVE  TierFits(u)'
  BY <1>1 DEF OthersKept, TierFits
<1>4. ASSUME NEW d \in Calls
      PROVE  CallFitsTier(d)'
  <2>1. CASE d = c
    BY <1>2, <2>1 DEF CallFitsTier
  <2>2. CASE d # c
    <3> SUFFICES ASSUME calls[d] # None
                 PROVE  CallFits(calls[d], seed_chunks'[calls[d].tier],
                                 last_settled_rounds'[calls[d].tier])
      BY <1>2, <2>2 DEF CallFitsTier
    <3>1. calls[d].tier \in Tiers /\ calls[d].tier # t
      BY <1>1, <2>2 DEF Alone, SomeCall, AtRawRand, AtSign
    <3>2. CallFits(calls[d], seed_chunks[calls[d].tier],
                   last_settled_rounds[calls[d].tier])
      BY <1>1 DEF CallFitsTier
    <3> QED
      BY <3>1, <3>2 DEF OthersKept
  <2> QED
    BY <2>1, <2>2
<1>5. Serial'
  <2> SUFFICES ASSUME NEW d \in Calls, NEW e \in Calls, calls'[d] # None,
                      calls'[e] # None, calls'[d].tier = calls'[e].tier
               PROVE  d = e
    BY DEF Serial
  <2> QED
    BY <1>1, <1>2 DEF Serial, Alone
<1>6. (RunnerInv <=> InvOfTiers)'
  BY InvByTier, PTL
<1> QED
  BY <1>3, <1>4, <1>5, <1>6 DEF InvOfTiers

\* Publication of the next round of t, by the one call of t.
LEMMA RevealStep ==
    ASSUME RunnerInv, TypeOK', NEW t \in Tiers, NEW c \in Calls,
           NEW r \in RoundIds, r = last_settled_rounds[t] + 1,
           calls[c] = None \/ calls[c].tier = t, Alone(c, t),
           NEW chunk \in SeedChunk, chunk.chunk_id = ChunkOf(r),
           chunk = seed_chunks[t] \/ ~Holds(seed_chunks[t], ChunkOf(r)),
           publish(t, r, chunk), maintain_slots(c, t, r, chunk)
    PROVE  RunnerInv'
<1> DEFINE last == last_settled_rounds[t]
           cur == seed_chunks[t]
           next == seed_chunks_next[t]
           proofs == revealed_seeds[t]
           new == revealed_seeds'[t]
           id == current_chunk_id(r)
<1>t. TypeOK
  BY DEF RunnerInv
<1>1. last \in Nat /\ r \in Nat /\ r >= 1 /\ r \in 1 .. (U64 - 1)
      /\ id = ChunkOf(r) /\ offset_in_chunk(t, r) = (r - 1) % CHUNK_SIZE
      /\ r % U64 = r /\ ChunkOf(r) \in Nat /\ last + 1 = r
  <2>1. last \in Nat /\ r = last + 1 /\ r \in Nat /\ r >= 1
    BY TierFacts
  <2> QED
    BY <2>1, ChunkAgrees, ChunkStep
<1>2. TierFits(t)
  BY InvByTier DEF InvOfTiers
<1>3. /\ new = [proofs EXCEPT ![r] = get_seed_proof(chunk, (r - 1) % CHUNK_SIZE)]
      /\ last_settled_rounds'[t] = r
      /\ chunk_offsets'[t] = r
      /\ \A u \in Tiers : u # t =>
            /\ chunk_offsets'[u] = chunk_offsets[u]
            /\ last_settled_rounds'[u] = last_settled_rounds[u]
            /\ revealed_seeds'[u] = revealed_seeds[u]
  BY <1>t, <1>1, <1>2 DEF publish, TypeOK, increment_offset, TierFits
<1>4. /\ \A q \in RoundIds : q # r => new[q] = proofs[q]
      /\ new[r] = get_seed_proof(chunk, (r - 1) % CHUNK_SIZE)
  BY <1>t, <1>3 DEF TypeOK
<1>5. new[r] # None
  <2>1. new[r] \in SeedProof
    BY <1>1, <1>4, ConstAssumption DEF get_seed_proof, SeedProof, SeedChunk
  <2> QED
    BY <2>1, NoneAssumption
<1>6. /\ ProofsFit(chunk, r, new)
      /\ OneRoot(new)
      /\ chunk # cur => next = None
      /\ next # None => next.chunk_id = ChunkOf(r) + 1
  <2>1. /\ new[r].chunk_id = chunk.chunk_id
        /\ new[r].master = chunk.master
        /\ new[r].offset = (r - 1) % CHUNK_SIZE
    BY <1>4 DEF get_seed_proof
  <2> HIDE DEF last, cur, next, proofs, new
  <2> QED
    BY <1>1, <1>2, <1>4, <1>5, <2>1, PublishFits
    DEF TierFits, last, cur, next, proofs
<1>7. /\ r % CHUNK_SIZE # 0 => SlotsFit(chunk, next, r)
      /\ SlotsFit(chunk, None, r)
      /\ r % CHUNK_SIZE = 0 /\ next # None =>
            SlotsFit(next, None, r) /\ ProofsFit(next, r, new)
  BY <1>1, <1>6, SlotsAfter
<1>8. boundary_crossed(t) <=> r % CHUNK_SIZE = 0
  BY <1>1, <1>2 DEF boundary_crossed, increment_offset, TierFits
<1>9. \A phase, want :
          Await(c, phase, t, r, want) <=>
              calls' = [calls EXCEPT ![c] = [at |-> "raw_rand", phase |-> phase,
                                   tier |-> t, round |-> r, want |-> want]]
  BY DEF Await
<1>10. CASE /\ ~boundary_crossed(t)
            /\ seed_chunks' = [seed_chunks EXCEPT ![t] = chunk]
            /\ UNCHANGED seed_chunks_next
            /\ ensure_next_chunk(c, t, r, id + 1, next)
  <2>1. seed_chunks'[t] = chunk /\ seed_chunks_next'[t] = next /\ OthersKept(t)
    BY <1>t, <1>3, <1>10 DEF TypeOK, OthersKept
  <2>2. TierFits(t)'
    BY <1>3, <1>6, <1>7, <1>8, <1>10, <2>1 DEF TierFits
  <2>3. CASE calls' = [calls EXCEPT ![c] = None]
    BY <2>1, <2>2, <2>3, OneTierStep
  <2>4. CASE Await(c, "prefetch", t, r, id + 1)
    <3> DEFINE call == [at |-> "raw_rand", phase |-> "prefetch",
                        tier |-> t, round |-> r, want |-> id + 1]
    <3>1. calls' = [calls EXCEPT ![c] = call]
      BY <1>9, <2>4
    <3>2. CallFits(call, seed_chunks'[t], last_settled_rounds'[t])
      BY <1>1, <1>3, <1>8, <1>10, <2>1 DEF CallFits
    <3>3. call.tier = t
      OBVIOUS
    <3> HIDE DEF call
    <3> QED
      BY <2>1, <2>2, <3>1, <3>2, <3>3, OneTierStep
  <2> QED
    BY <1>10, <2>3, <2>4 DEF ensure_next_chunk, Return
<1>11. CASE /\ boundary_crossed(t)
            /\ Holds(next, id + 1)
            /\ promote_next_to_current(t, next)
            /\ Await(c, "prefetch", t, r, id + 2)
  <2>1. seed_chunks'[t] = next /\ seed_chunks_next'[t] = None /\ OthersKept(t)
    BY <1>t, <1>3, <1>11 DEF TypeOK, OthersKept, promote_next_to_current
  <2>2. next # None /\ next.chunk_id = id + 1
    BY <1>11 DEF Holds
  <2>3. TierFits(t)'
    BY <1>3, <1>6, <1>7, <1>8, <1>11, <2>1, <2>2 DEF TierFits
  <2> DEFINE call == [at |-> "raw_rand", phase |-> "prefetch",
                      tier |-> t, round |-> r, want |-> id + 2]
  <2>4. calls' = [calls EXCEPT ![c] = call]
    BY <1>9, <1>11
  <2>5. CallFits(call, seed_chunks'[t], last_settled_rounds'[t])
    BY <1>1, <1>3, <2>1, <2>2 DEF CallFits
  <2>6. call.tier = t
    OBVIOUS
  <2> HIDE DEF call
  <2> QED
    BY <2>1, <2>3, <2>4, <2>5, <2>6, OneTierStep
<1>12. CASE /\ boundary_crossed(t)
            /\ ~Holds(next, id + 1)
            /\ seed_chunks' = [seed_chunks EXCEPT ![t] = chunk]
            /\ UNCHANGED seed_chunks_next
            /\ Await(c, "boundary", t, r, id + 1)
  <2>1. next = None
    BY <1>1, <1>6, <1>12 DEF Holds
  <2>2. seed_chunks'[t] = chunk /\ seed_chunks_next'[t] = None /\ OthersKept(t)
    BY <1>t, <1>3, <1>12, <2>1 DEF TypeOK, OthersKept
  <2>3. TierFits(t)'
    BY <1>3, <1>6, <1>7, <2>2 DEF TierFits
  <2> DEFINE call == [at |-> "raw_rand", phase |-> "boundary",
                      tier |-> t, round |-> r, want |-> id + 1]
  <2>4. calls' = [calls EXCEPT ![c] = call]
    BY <1>9, <1>12
  <2>5. CallFits(call, seed_chunks'[t], last_settled_rounds'[t])
    BY <1>1, <1>3, <1>8, <1>12, <2>2 DEF CallFits
  <2>6. call.tier = t
    OBVIOUS
  <2> HIDE DEF call
  <2> QED
    BY <2>2, <2>3, <2>4, <2>5, <2>6, OneTierStep
<1> QED
  BY <1>10, <1>11, <1>12 DEF maintain_slots

\* What every suspended call satisfies.
LEMMA SuspendedFits ==
    ASSUME RunnerInv, NEW c \in Calls, calls[c] # None
    PROVE  /\ calls[c].tier \in Tiers
           /\ calls[c].round \in RoundIds
           /\ Alone(c, calls[c].tier)
           /\ CallFits(calls[c], seed_chunks[calls[c].tier],
                       last_settled_rounds[calls[c].tier])
<1>1. calls[c].tier \in Tiers /\ calls[c].round \in RoundIds
  BY DEF RunnerInv, TypeOK, AtRawRand, AtSign
<1> QED
  BY <1>1, InvByTier DEF InvOfTiers, Serial, CallFitsTier, Alone

\* A step that moves the one call of a tier and leaves stable memory alone.
LEMMA CallOnlyStep ==
    ASSUME RunnerInv, TypeOK', NEW t \in Tiers, NEW c \in Calls, NEW call,
           calls' = [calls EXCEPT ![c] = call], Alone(c, t),
           calls[c] = None \/ calls[c].tier = t, UNCHANGED stable,
           call # None =>
               /\ call.tier = t
               /\ CallFits(call, seed_chunks[t], last_settled_rounds[t])
    PROVE  RunnerInv'
<1>1. TierFits(t)'
  BY InvByTier DEF InvOfTiers, TierFits, stable
<1>2. OthersKept(t) /\ UNCHANGED <<seed_chunks, last_settled_rounds>>
  BY DEF OthersKept, stable
<1> QED
  BY <1>1, <1>2, OneTierStep

\* The invariant of the runner is inductive.
LEMMA RunnerStep == RunnerInv /\ [RunnerNext]_vars => RunnerInv'
<1> SUFFICES ASSUME RunnerInv, [RunnerNext]_vars
             PROVE  RunnerInv'
  OBVIOUS
<1>t. TypeOK
  BY DEF RunnerInv
<1>p. TypeOK'
  <2>1. [Next]_vars
    BY DEF RunnerNext, request_reveal, Next, RevealNext
  <2> QED
    BY <1>t, <2>1, TypeStep
<1>1. ASSUME NEW c \in Calls, NEW t \in Tiers, NEW r \in RoundIds,
             request_reveal(c, t, r)
      PROVE  RunnerInv'
  <2>1. r >= 1 /\ calls[c] = None /\ Alone(c, t)
        /\ validate_reveal_round(t, r)
    BY <1>1 DEF request_reveal, reveal_seed, Quiet, OfTier, Alone
  <2>2. r = last_settled_rounds[t] + 1 /\ expected_chunk_id(r) = ChunkOf(r)
    BY <2>1, ValidatedIsNext, ChunkAgrees
  <2>3. CASE /\ needs_generation(t, r)
             /\ Await(c, "ensure_chunk", t, r, expected_chunk_id(r))
             /\ UNCHANGED stable
    <3> DEFINE call == [at |-> "raw_rand", phase |-> "ensure_chunk",
                        tier |-> t, round |-> r, want |-> ChunkOf(r)]
    <3>1. calls' = [calls EXCEPT ![c] = call]
      BY <2>2, <2>3 DEF Await
    <3>2. CallFits(call, seed_chunks[t], last_settled_rounds[t])
      BY <2>2, <2>3 DEF CallFits, needs_generation
    <3>3. call.tier = t
      OBVIOUS
    <3> HIDE DEF call
    <3> QED
      BY <1>p, <2>1, <2>3, <3>1, <3>2, <3>3, CallOnlyStep
  <2>4. CASE /\ ~needs_generation(t, r)
             /\ publish(t, r, seed_chunks[t])
             /\ maintain_slots(c, t, r, seed_chunks[t])
    <3>1. seed_chunks[t] \in SeedChunk /\ seed_chunks[t].chunk_id = ChunkOf(r)
      BY <1>t, <2>2, <2>4 DEF needs_generation, Holds, TypeOK
    <3> QED
      BY <1>p, <2>1, <2>2, <2>4, <3>1, RevealStep
  <2> QED
    BY <1>1, <2>3, <2>4 DEF request_reveal, reveal_seed
<1>2. ASSUME NEW c \in Calls, raw_rand_reply(c)
      PROVE  RunnerInv'
  <2>t. PICK t \in Tiers : t = calls[c].tier
    BY <1>2, SuspendedFits DEF raw_rand_reply
  <2>1. PICK m \in Masters :
           calls' = [calls EXCEPT ![c] =
              [at |-> "sign_with_ecdsa", phase |-> calls[c].phase,
               tier |-> calls[c].tier, round |-> calls[c].round,
               want |-> calls[c].want, master |-> m]]
    BY <1>2 DEF raw_rand_reply
  <2> DEFINE call == [at |-> "sign_with_ecdsa", phase |-> calls[c].phase,
               tier |-> calls[c].tier, round |-> calls[c].round,
               want |-> calls[c].want, master |-> m]
  <2>2. calls[c] # None /\ UNCHANGED stable
    BY <1>2 DEF raw_rand_reply
  <2>3. CallFits(call, seed_chunks[t], last_settled_rounds[t])
    BY <2>2, <2>t, SuspendedFits DEF CallFits
  <2>4. calls' = [calls EXCEPT ![c] = call] /\ call.tier = t
    BY <2>1, <2>t
  <2>5. Alone(c, t)
    BY <2>2, <2>t, SuspendedFits
  <2> HIDE DEF call
  <2> QED
    BY <1>p, <2>2, <2>3, <2>4, <2>5, <2>t, CallOnlyStep
<1>3. ASSUME NEW c \in Calls, ensure_chunk_signed(c)
      PROVE  RunnerInv'
  <2>t. PICK t \in Tiers, r \in RoundIds :
           t = calls[c].tier /\ r = calls[c].round
    BY <1>3, SuspendedFits DEF ensure_chunk_signed, Suspended
  <2>c. PICK chunk \in SeedChunk : chunk = SignedChunk(calls[c])
    BY <1>t, <1>3, SuspendedType DEF ensure_chunk_signed, Phases
  <2>1. calls[c] # None /\ calls[c].phase = "ensure_chunk"
        /\ chunk.chunk_id = calls[c].want
    BY <1>3, <2>c DEF ensure_chunk_signed, Suspended, SignedChunk
  <2>2. Alone(c, t)
    BY <2>1, <2>t, SuspendedFits
  <2>3. /\ r = last_settled_rounds[t] + 1
        /\ calls[c].want = ChunkOf(r)
        /\ ~Holds(seed_chunks[t], ChunkOf(r))
    BY <2>1, <2>t, SuspendedFits DEF CallFits
  <2>4. publish(t, r, chunk) /\ maintain_slots(c, t, r, chunk)
    BY <1>3, <2>t, <2>c DEF ensure_chunk_signed
  <2> QED
    BY <1>p, <2>1, <2>2, <2>3, <2>4, <2>t, RevealStep
<1>4. ASSUME NEW c \in Calls, boundary_signed(c)
      PROVE  RunnerInv'
  <2>t. PICK t \in Tiers : t = calls[c].tier
    BY <1>4, SuspendedFits DEF boundary_signed, Suspended
  <2>c. PICK chunk \in SeedChunk : chunk = SignedChunk(calls[c])
    BY <1>t, <1>4, SuspendedType DEF boundary_signed, Phases
  <2> DEFINE last == last_settled_rounds[t]
             cur == seed_chunks[t]
             call == [at |-> "raw_rand", phase |-> "prefetch", tier |-> t,
                      round |-> calls[c].round, want |-> calls[c].want + 1]
  <2>1. calls[c] # None /\ calls[c].phase = "boundary"
        /\ chunk.chunk_id = calls[c].want
    BY <1>4, <2>c DEF boundary_signed, Suspended, SignedChunk
  <2>2. Alone(c, t)
    BY <2>1, <2>t, SuspendedFits
  <2>3. last > 0 /\ last % CHUNK_SIZE = 0 /\ cur.chunk_id = ChunkOf(last)
        /\ calls[c].want = ChunkOf(last) + 1
    BY <2>1, <2>t, SuspendedFits DEF CallFits
  <2>4. TierFits(t)
    BY InvByTier DEF InvOfTiers
  <2>5. seed_chunks_next[t] = None /\ cur \in SeedChunk
        /\ last \in RoundIds /\ last >= 1 /\ last \in Nat
    BY <1>t, <2>3, <2>4, TierFacts DEF TierFits, SlotsFit, TypeOK
  <2>6. next_after_await(t, chunk) = chunk
    BY <2>5 DEF next_after_await, Holds
  <2>7. /\ promote_next_to_current(t, chunk)
        /\ Await(c, "prefetch", t, calls[c].round, calls[c].want + 1)
        /\ UNCHANGED <<chunk_offsets, last_settled_rounds, revealed_seeds>>
    BY <1>4, <2>6, <2>t, <2>c DEF boundary_signed
  <2>8. seed_chunks'[t] = chunk /\ seed_chunks_next'[t] = None /\ OthersKept(t)
    BY <1>t, <2>7 DEF promote_next_to_current, TypeOK, OthersKept
  <2>9. ProofsFit(cur, last, revealed_seeds[t]) /\ chunk # None
    BY <2>4, NoneAssumption DEF TierFits
  <2>10. SlotsFit(chunk, None, last) /\ ProofsFit(chunk, last, revealed_seeds[t])
    <3>1. chunk # None => chunk.chunk_id = ChunkOf(last) + 1
      BY <2>1, <2>3
    <3> HIDE DEF last, cur
    <3> QED
      BY <2>3, <2>5, <2>9, <3>1, SlotsAfter
  <2>11. TierFits(t)'
    BY <2>4, <2>7, <2>8, <2>10 DEF TierFits
  <2>12. calls' = [calls EXCEPT ![c] = call] /\ call.tier = t
    BY <2>7, <2>t DEF Await
  <2>13. CallFits(call, seed_chunks'[t], last_settled_rounds'[t])
    <3>1. ChunkOf(last) \in Nat
      BY <2>5, ChunkStep
    <3> QED
      BY <2>1, <2>3, <2>7, <2>8, <3>1 DEF CallFits
  <2> HIDE DEF call
  <2> QED
    BY <1>p, <2>2, <2>8, <2>11, <2>12, <2>13, <2>t, OneTierStep
<1>5. ASSUME NEW c \in Calls, prefetch_signed(c)
      PROVE  RunnerInv'
  <2>t. PICK t \in Tiers : t = calls[c].tier
    BY <1>5, SuspendedFits DEF prefetch_signed, Suspended
  <2> DEFINE last == last_settled_rounds[t]
             cur == seed_chunks[t]
             next == next_after_await(t, SignedChunk(calls[c]))
  <2>1. calls[c] # None /\ calls[c].phase = "prefetch"
        /\ SignedChunk(calls[c]).chunk_id = calls[c].want
    BY <1>5 DEF prefetch_signed, Suspended, SignedChunk
  <2>2. Alone(c, t)
    BY <2>1, <2>t, SuspendedFits
  <2>3. last > 0 /\ calls[c].want = cur.chunk_id + 1
        /\ (last % CHUNK_SIZE = 0 => cur.chunk_id # ChunkOf(last))
    BY <2>1, <2>t, SuspendedFits DEF CallFits
  <2>4. next.chunk_id = cur.chunk_id + 1
    BY <2>1, <2>3 DEF next_after_await, Holds
  <2>5. TierFits(t)
    BY InvByTier DEF InvOfTiers
  <2>6. seed_chunks'[t] = cur /\ seed_chunks_next'[t] = next /\ OthersKept(t)
        /\ UNCHANGED <<chunk_offsets, last_settled_rounds, revealed_seeds>>
    BY <1>5, <1>t, <2>t DEF prefetch_signed, TypeOK, OthersKept
  <2>7. SlotsFit(cur, next, last)
    BY <2>3, <2>4, <2>5 DEF TierFits, SlotsFit
  <2>8. TierFits(t)'
    BY <2>5, <2>6, <2>7 DEF TierFits
  <2>9. calls' = [calls EXCEPT ![c] = None]
    BY <1>5 DEF prefetch_signed, Return
  <2> QED
    BY <1>p, <2>2, <2>6, <2>8, <2>9, <2>t, OneTierStep
<1>6. ASSUME NEW c \in Calls, call_failed(c)
      PROVE  RunnerInv'
  <2>1. calls[c] # None /\ calls' = [calls EXCEPT ![c] = None]
        /\ UNCHANGED stable
    BY <1>6 DEF call_failed, Return
  <2>2. PICK t \in Tiers : t = calls[c].tier
    BY <2>1, SuspendedFits
  <2> QED
    BY <1>p, <2>1, <2>2, SuspendedFits, CallOnlyStep
<1>7. ASSUME UNCHANGED stable, \/ UNCHANGED calls
                               \/ \A c \in Calls : calls'[c] = None
      PROVE  RunnerInv'
  <2>1. \A t \in Tiers : TierFits(t)'
    BY <1>7, InvByTier DEF InvOfTiers, TierFits, stable
  <2>2. (\A c \in Calls : CallFitsTier(c)') /\ Serial'
    <3>1. CASE UNCHANGED calls
      BY <1>7, <3>1, InvByTier DEF InvOfTiers, CallFitsTier, Serial, stable
    <3>2. CASE \A c \in Calls : calls'[c] = None
      BY <3>2 DEF CallFitsTier, Serial
    <3> QED
      BY <1>7, <3>1, <3>2
  <2>3. (RunnerInv <=> InvOfTiers)'
    BY InvByTier, PTL
  <2> QED
    BY <1>p, <2>1, <2>2, <2>3 DEF InvOfTiers
<1>8. CASE upgrade
  BY <1>7, <1>8 DEF upgrade
<1>9. CASE UNCHANGED vars
  BY <1>7, <1>9 DEF vars
<1> QED
  BY <1>1, <1>2, <1>3, <1>4, <1>5, <1>6, <1>8, <1>9
  DEF RunnerNext, Answered

\* The empty canister satisfies it.
LEMMA RunnerInit == Init => RunnerInv
<1> SUFFICES ASSUME Init
             PROVE  InvOfTiers
  BY InvByTier
<1>1. TypeOK
  BY TypeInit
<1>2. ASSUME NEW t \in Tiers
      PROVE  TierFits(t)
  <2>1. /\ seed_chunks[t] = None
        /\ seed_chunks_next[t] = None
        /\ last_settled_rounds[t] = 0
        /\ chunk_offsets[t] = 0
        /\ \A r \in RoundIds : revealed_seeds[t][r] = None
    BY DEF Init
  <2>2. \A r \in RoundIds : ~(1 <= r /\ r <= 0)
    BY ConstAssumption
  <2> QED
    BY <2>1, <2>2 DEF TierFits, SlotsFit, ProofsFit, OneRoot
<1>3. Serial /\ \A c \in Calls : CallFitsTier(c)
  BY DEF Init, Serial, CallFitsTier
<1> QED
  BY <1>1, <1>2, <1>3 DEF InvOfTiers

-----------------------------------------------------------------------------
(* Invariants of the engine-runner's calls *)

\* The inductive invariant holds in every execution of the runner: counter,
\* settled round, public rounds, both slots and the suspended call agree.
THEOREM RunnerInvariant == RunnerSpec => []RunnerInv
BY RunnerInit, RunnerStep, PTL DEF RunnerSpec

\* Whatever calls fail, the counter is the last settled round.
THEOREM CounterNeedsNoRepair == RunnerSpec => []OffsetTracksSettled
BY RunnerInvariant, PTL DEF RunnerInv

\* The public rounds are exactly those up to the last settled one.
THEOREM NoGapsNoExtras == RunnerSpec => []RevealedUpToSettled
BY RunnerInvariant, PTL DEF RunnerInv

\* Every seed published from a chunk is under the chunk's one Merkle root.
THEOREM OneRootEver == RunnerSpec => []OneRootPerChunk
BY RunnerInvariant, PTL DEF RunnerInv

\* NEXT is always the chunk after CURRENT.
THEOREM NextIsAhead == RunnerSpec => []NextFollowsCurrent
<1>1. RunnerInv => NextFollowsCurrent
  BY DEF RunnerInv, NextIsOneAhead, NextFollowsCurrent
<1> QED
  BY <1>1, RunnerInvariant, PTL

\* Unless CURRENT is used up, it has the seed of the next round.
SeedReadyInCurrent ==
    \A t \in Tiers :
        /\ last_settled_rounds[t] >= 1
        /\ AtChunkEnd(t) =>
              seed_chunks[t].chunk_id # ChunkOf(last_settled_rounds[t])
        => get_raw_seed_for_round(t, last_settled_rounds[t] + 1) # None

\* The invariant makes it so.
LEMMA CurrentHasNextSeed == RunnerInv => SeedReadyInCurrent
<1> SUFFICES ASSUME RunnerInv, NEW t \in Tiers, last_settled_rounds[t] >= 1,
                    AtChunkEnd(t) =>
                       seed_chunks[t].chunk_id # ChunkOf(last_settled_rounds[t])
             PROVE  get_raw_seed_for_round(t, last_settled_rounds[t] + 1) # None
  BY DEF SeedReadyInCurrent
<1> DEFINE last == last_settled_rounds[t]
           cur == seed_chunks[t]
<1>1. last \in Nat /\ last >= 1 /\ CHUNK_SIZE \in Nat \ {0}
  BY TierFacts, ConstAssumption
<1>2. cur \in SeedChunk /\ cur.chunk_id = ChunkOf(last + 1)
  <2>1. ChunkOf(last + 1) = IF last % CHUNK_SIZE = 0 THEN ChunkOf(last) + 1
                                                     ELSE ChunkOf(last)
    BY <1>1, ChunkStep
  <2> QED
    BY <1>1, <2>1, CurrentChunk DEF AtChunkEnd
<1>3. expected_chunk_id(last + 1) = ChunkOf(last + 1)
  BY <1>1 DEF expected_chunk_id, ChunkOf
<1>4. get_raw_seed_for_round(t, last + 1) =
          <<cur.master, ((last + 1) - 1) % CHUNK_SIZE>>
  BY <1>1, <1>2, <1>3, NoneAssumption DEF get_raw_seed_for_round, Holds
<1>5. cur.master \in Masters /\ ((last + 1) - 1) % CHUNK_SIZE \in 0 .. (CHUNK_SIZE - 1)
  BY <1>1, <1>2 DEF SeedChunk
<1> QED
  BY <1>4, <1>5, NoneAssumption

\* Inside a chunk the seed of the next round is readable whatever failed.
THEOREM MidChunkSeedReady == RunnerSpec => []SeedReadyMidChunk
<1>1. RunnerInv => SeedReadyMidChunk
  <2> SUFFICES ASSUME RunnerInv, NEW t \in Tiers,
                      last_settled_rounds[t] % CHUNK_SIZE # 0
               PROVE  get_raw_seed_for_round(t, last_settled_rounds[t] + 1)
                          # None
    BY DEF SeedReadyMidChunk
  <2>1. last_settled_rounds[t] \in Nat /\ CHUNK_SIZE \in Nat \ {0}
    BY TierFacts, ConstAssumption
  <2>2. last_settled_rounds[t] >= 1
    <3>1. 0 % CHUNK_SIZE = 0
      BY <2>1
    <3> QED
      BY <2>1, <3>1
  <2> QED
    BY <2>2, CurrentHasNextSeed DEF SeedReadyInCurrent, AtChunkEnd
<1> QED
  BY <1>1, RunnerInvariant, PTL

\* A published proof never gives away the seed of a round still to come.
THEOREM NoSeedAhead == RunnerSpec => []NoFutureSeedPublished
<1>1. UniqueInv /\ [RunnerNext]_vars => UniqueInv'
  BY UniqueStep DEF RunnerNext, request_reveal, Next, RevealNext
<1>2. RunnerInv /\ UniqueInv => NoFutureSeedPublished
  <2> SUFFICES ASSUME RunnerInv, UniqueInv, NEW t \in Tiers,
                      NEW q \in RoundIds, NEW r \in Rounds,
                      Revealed(t, q), ~Revealed(t, r),
                      get_raw_seed_for_round(t, r) = Seed(revealed_seeds[t][q])
               PROVE  FALSE
    BY DEF NoFutureSeedPublished
  <2> DEFINE p == revealed_seeds[t][q]
  <2>1. r \in RoundIds /\ r # 0
    BY DEF Rounds
  <2>2. q \in Rounds
    BY ConstAssumption DEF RunnerInv, RevealedUpToSettled, Rounds
  <2>3. p \in SeedProof
    BY DEF RunnerInv, TypeOK, Revealed
  <2>4. Seed(p) # None
    BY <2>3, NoneAssumption DEF Seed, SeedProof
  <2>5. /\ p.offset = (r - 1) % CHUNK_SIZE
        /\ Binds(t, expected_chunk_id(r), p.master)
    <3>1. CASE Holds(seed_chunks[t], expected_chunk_id(r))
      <4>1. Seed(p) = <<seed_chunks[t].master, (r - 1) % CHUNK_SIZE>>
        BY <2>1, <3>1 DEF get_raw_seed_for_round
      <4> QED
        BY <3>1, <4>1 DEF Seed, Binds, InSlot, Holds
    <3>2. CASE ~Holds(seed_chunks[t], expected_chunk_id(r))
      <4>1. /\ Holds(seed_chunks_next[t], expected_chunk_id(r))
            /\ Seed(p) = <<seed_chunks_next[t].master, (r - 1) % CHUNK_SIZE>>
        BY <2>1, <2>4, <3>2 DEF get_raw_seed_for_round
      <4> QED
        BY <4>1 DEF Seed, Binds, InSlot, Holds
    <3> QED
      BY <3>1, <3>2
  <2>6. Binds(t, p.chunk_id, p.master)
    BY DEF Binds, InSlot, Revealed
  <2>7. p.chunk_id = expected_chunk_id(r)
    <3>1. p.chunk_id \in Nat /\ expected_chunk_id(r) \in Nat /\ p.master \in Masters
      BY <2>1, <2>3, RoundArithmetic DEF SeedProof
    <3> QED
      BY <2>5, <2>6, <3>1 DEF UniqueInv, OneChunkPerMaster
  <2>8. compute_round_id(p.chunk_id, p.offset) = q
    BY <2>2 DEF UniqueInv, BindingInv, ProofBinding
  <2>9. compute_round_id(p.chunk_id, p.offset) = r
    <3>1. offset_in_chunk(t, r) = (r - 1) % CHUNK_SIZE
      BY <2>1, ConstAssumption, ChunkAgrees
    <3> QED
      BY <2>1, <2>5, <2>7, <3>1, RoundTrip
  <2> QED
    BY <2>8, <2>9
<1> QED
  BY <1>1, <1>2, UniqueInit, RunnerInvariant, PTL DEF RunnerSpec

-----------------------------------------------------------------------------
(* What a step of the runner's calls can do to a tier *)

\* Nothing.
Kept(t) ==
    /\ seed_chunks'[t] = seed_chunks[t]
    /\ seed_chunks_next'[t] = seed_chunks_next[t]
    /\ last_settled_rounds'[t] = last_settled_rounds[t]
    /\ revealed_seeds'[t] = revealed_seeds[t]

\* Publish the next round, out of CURRENT or, when NEXT is empty and CURRENT
\* is another chunk, out of a new one; promote NEXT at the end of the chunk.
PublishedFrom(t, r, chunk) ==
    /\ r = last_settled_rounds[t] + 1
    /\ chunk.chunk_id = ChunkOf(r)
    /\ \/ chunk = seed_chunks[t]
       \/ seed_chunks_next[t] = None /\ ~Holds(seed_chunks[t], ChunkOf(r))
    /\ last_settled_rounds'[t] = r
    /\ revealed_seeds'[t] = [revealed_seeds[t] EXCEPT
          ![r] = get_seed_proof(chunk, (r - 1) % CHUNK_SIZE)]
    /\ \/ /\ seed_chunks'[t] = chunk
          /\ seed_chunks_next'[t] = seed_chunks_next[t]
       \/ /\ r % CHUNK_SIZE = 0
          /\ Holds(seed_chunks_next[t], ChunkOf(r) + 1)
          /\ seed_chunks'[t] = seed_chunks_next[t]
          /\ seed_chunks_next'[t] = None

Published(t) == \E r \in RoundIds, chunk \in SeedChunk : PublishedFrom(t, r, chunk)

\* Fill an empty NEXT.
Prefetched(t) ==
    /\ seed_chunks_next[t] = None
    /\ seed_chunks'[t] = seed_chunks[t]
    /\ last_settled_rounds'[t] = last_settled_rounds[t]
    /\ revealed_seeds'[t] = revealed_seeds[t]

\* Replace a used-up CURRENT, NEXT being empty.
Replaced(t) ==
    /\ seed_chunks_next[t] = None
    /\ last_settled_rounds[t] > 0
    /\ AtChunkEnd(t)
    /\ seed_chunks[t].chunk_id = ChunkOf(last_settled_rounds[t])
    /\ last_settled_rounds'[t] = last_settled_rounds[t]
    /\ revealed_seeds'[t] = revealed_seeds[t]

\* What publishing the next round of t does to a tier u.
LEMMA PublishEffect ==
    ASSUME RunnerInv, NEW u \in Tiers, NEW t \in Tiers, NEW c,
           NEW r \in RoundIds, r = last_settled_rounds[t] + 1,
           NEW chunk \in SeedChunk, chunk.chunk_id = ChunkOf(r),
           chunk = seed_chunks[t] \/ ~Holds(seed_chunks[t], ChunkOf(r)),
           publish(t, r, chunk), maintain_slots(c, t, r, chunk)
    PROVE  IF u = t THEN PublishedFrom(t, r, chunk) ELSE Kept(u)
<1>t. TypeOK
  BY DEF RunnerInv
<1>1. CASE u # t
  BY <1>t, <1>1
  DEF Kept, TypeOK, publish, maintain_slots, promote_next_to_current
<1>2. CASE u = t
  <2>1. /\ r \in Nat /\ r >= 1 /\ last_settled_rounds[t] \in Nat
        /\ current_chunk_id(r) = ChunkOf(r)
        /\ offset_in_chunk(t, r) = (r - 1) % CHUNK_SIZE
        /\ r % U64 = r
        /\ chunk_offsets[t] = last_settled_rounds[t]
    <3>1. last_settled_rounds[t] \in Nat
          /\ chunk_offsets[t] = last_settled_rounds[t]
      BY TierFacts
    <3>2. r \in Nat /\ r >= 1
      BY <3>1
    <3> QED
      BY <3>1, <3>2, ChunkAgrees
  <2>2. boundary_crossed(t) <=> r % CHUNK_SIZE = 0
    BY <2>1 DEF boundary_crossed, increment_offset
  <2>3. /\ last_settled_rounds'[t] = r
        /\ revealed_seeds'[t] = [revealed_seeds[t] EXCEPT
              ![r] = get_seed_proof(chunk, (r - 1) % CHUNK_SIZE)]
    BY <1>t, <2>1 DEF publish, TypeOK
  <2>4. \/ /\ seed_chunks'[t] = chunk
           /\ seed_chunks_next'[t] = seed_chunks_next[t]
        \/ /\ r % CHUNK_SIZE = 0
           /\ Holds(seed_chunks_next[t], ChunkOf(r) + 1)
           /\ seed_chunks'[t] = seed_chunks_next[t]
           /\ seed_chunks_next'[t] = None
    BY <1>t, <2>1, <2>2
    DEF maintain_slots, promote_next_to_current, TypeOK
  <2>5. \/ chunk = seed_chunks[t]
        \/ seed_chunks_next[t] = None /\ ~Holds(seed_chunks[t], ChunkOf(r))
    <3> SUFFICES ASSUME ~Holds(seed_chunks[t], ChunkOf(r)),
                        seed_chunks_next[t] # None
                 PROVE  FALSE
      OBVIOUS
    <3>1. SlotsFit(seed_chunks[t], seed_chunks_next[t], last_settled_rounds[t])
      BY InvByTier DEF InvOfTiers, TierFits
    <3>2. last_settled_rounds[t] # 0
      BY <3>1 DEF SlotsFit
    <3>3. last_settled_rounds[t] >= 1
      BY <2>1, <3>2
    <3> QED
      BY <2>1, <3>1, <3>3, ChunkStep DEF SlotsFit, Holds
  <2> QED
    BY <1>2, <2>3, <2>4, <2>5 DEF PublishedFrom
<1> QED
  BY <1>1, <1>2

\* Every step does one of four things to a tier.
LEMMA StepEffect ==
    ASSUME RunnerInv, [RunnerNext]_vars, NEW u \in Tiers
    PROVE  Kept(u) \/ Published(u) \/ Prefetched(u) \/ Replaced(u)
<1>t. TypeOK
  BY DEF RunnerInv
<1>1. ASSUME NEW c \in Calls, NEW t \in Tiers, NEW r \in RoundIds,
             request_reveal(c, t, r)
      PROVE  Kept(u) \/ Published(u)
  <2>1. r = last_settled_rounds[t] + 1 /\ expected_chunk_id(r) = ChunkOf(r)
    BY <1>1, ValidatedIsNext, ChunkAgrees DEF request_reveal, reveal_seed
  <2>2. CASE UNCHANGED stable
    BY <2>2 DEF stable, Kept
  <2>3. CASE /\ ~needs_generation(t, r)
             /\ publish(t, r, seed_chunks[t])
             /\ maintain_slots(c, t, r, seed_chunks[t])
    <3>1. seed_chunks[t] \in SeedChunk /\ seed_chunks[t].chunk_id = ChunkOf(r)
      BY <1>t, <2>1, <2>3 DEF needs_generation, Holds, TypeOK
    <3> QED
      BY <2>1, <2>3, <3>1, PublishEffect DEF Published
  <2> QED
    BY <1>1, <2>2, <2>3 DEF request_reveal, reveal_seed
<1>2. ASSUME NEW c \in Calls, ensure_chunk_signed(c)
      PROVE  Kept(u) \/ Published(u)
  <2>1. calls[c] # None /\ calls[c].phase = "ensure_chunk"
    BY <1>2 DEF ensure_chunk_signed, Suspended
  <2>2. PICK t \in Tiers, r \in RoundIds :
           t = calls[c].tier /\ r = calls[c].round
    BY <2>1, SuspendedFits
  <2>3. PICK chunk \in SeedChunk : chunk = SignedChunk(calls[c])
    BY <1>t, <1>2, SuspendedType DEF ensure_chunk_signed, Phases
  <2>4. /\ r = last_settled_rounds[t] + 1
        /\ chunk.chunk_id = ChunkOf(r)
        /\ ~Holds(seed_chunks[t], ChunkOf(r))
    BY <2>1, <2>2, <2>3, SuspendedFits DEF CallFits, SignedChunk
  <2>5. publish(t, r, chunk) /\ maintain_slots(c, t, r, chunk)
    BY <1>2, <2>2, <2>3 DEF ensure_chunk_signed
  <2> QED
    BY <2>4, <2>5, PublishEffect DEF Published
<1>3. ASSUME NEW c \in Calls, boundary_signed(c)
      PROVE  Kept(u) \/ Replaced(u)
  <2>1. calls[c] # None /\ calls[c].phase = "boundary"
    BY <1>3 DEF boundary_signed, Suspended
  <2>2. PICK t \in Tiers : t = calls[c].tier
    BY <2>1, SuspendedFits
  <2>3. CASE u # t
    BY <1>t, <1>3, <2>2, <2>3
    DEF boundary_signed, promote_next_to_current, Kept, TypeOK
  <2>4. CASE u = t
    <3>1. /\ last_settled_rounds[t] > 0
          /\ last_settled_rounds[t] % CHUNK_SIZE = 0
          /\ seed_chunks[t].chunk_id = ChunkOf(last_settled_rounds[t])
      BY <2>1, <2>2, SuspendedFits DEF CallFits
    <3>2. SlotsFit(seed_chunks[t], seed_chunks_next[t], last_settled_rounds[t])
      BY InvByTier DEF InvOfTiers, TierFits
    <3>3. seed_chunks_next[t] = None
      BY <3>1, <3>2 DEF SlotsFit
    <3> QED
      BY <1>3, <2>4, <3>1, <3>3 DEF boundary_signed, Replaced, AtChunkEnd
  <2> QED
    BY <2>3, <2>4
<1>4. ASSUME NEW c \in Calls, prefetch_signed(c)
      PROVE  Kept(u) \/ Prefetched(u)
  <2>1. calls[c] # None /\ calls[c].phase = "prefetch"
        /\ SignedChunk(calls[c]).chunk_id = calls[c].want
    BY <1>4 DEF prefetch_signed, Suspended, SignedChunk
  <2>2. PICK t \in Tiers : t = calls[c].tier
    BY <2>1, SuspendedFits
  <2>3. calls[c].want = seed_chunks[t].chunk_id + 1
    BY <2>1, <2>2, SuspendedFits DEF CallFits
  <2>4. SlotsFit(seed_chunks[t], seed_chunks_next[t], last_settled_rounds[t])
    BY InvByTier DEF InvOfTiers, TierFits
  <2>5. seed_chunks_next[t] # None =>
            next_after_await(t, SignedChunk(calls[c])) = seed_chunks_next[t]
    BY <2>1, <2>3, <2>4 DEF SlotsFit, next_after_await, Holds
  <2>6. /\ seed_chunks_next' = [seed_chunks_next EXCEPT
              ![t] = next_after_await(t, SignedChunk(calls[c]))]
        /\ UNCHANGED <<seed_chunks, last_settled_rounds, revealed_seeds>>
    BY <1>4, <2>2 DEF prefetch_signed
  <2> QED
    BY <1>t, <2>5, <2>6 DEF Kept, Prefetched, TypeOK
<1>5. ASSUME UNCHANGED stable
      PROVE  Kept(u)
  BY <1>5 DEF stable, Kept
<1>6. ASSUME NEW c \in Calls, raw_rand_reply(c) \/ call_failed(c)
      PROVE  Kept(u)
  BY <1>5, <1>6 DEF raw_rand_reply, call_failed
<1>7. CASE upgrade \/ UNCHANGED vars
  BY <1>5, <1>7 DEF upgrade, vars
<1> QED
  BY <1>1, <1>2, <1>3, <1>4, <1>6, <1>7 DEF RunnerNext, Answered

-----------------------------------------------------------------------------
(* What no step of the runner's calls may do *)

\* A step of the runner leaves every published proof alone.
LEMMA ProofStays ==
    ASSUME RunnerInv, [RunnerNext]_vars, NEW t \in Tiers, NEW q \in RoundIds,
           Revealed(t, q)
    PROVE  revealed_seeds'[t][q] = revealed_seeds[t][q]
<1>1. q <= last_settled_rounds[t] /\ last_settled_rounds[t] \in Nat
  BY TierFacts DEF RunnerInv, RevealedUpToSettled
<1>2. CASE Published(t)
  <2>1. PICK r \in RoundIds, chunk \in SeedChunk :
           /\ r = last_settled_rounds[t] + 1
           /\ revealed_seeds'[t] = [revealed_seeds[t] EXCEPT
                 ![r] = get_seed_proof(chunk, (r - 1) % CHUNK_SIZE)]
    BY <1>2 DEF Published, PublishedFrom
  <2>2. q # r
    BY <1>1, <2>1, ConstAssumption
  <2> QED
    BY <2>1, <2>2 DEF RunnerInv, TypeOK
<1> QED
  BY <1>2, StepEffect DEF Kept, Prefetched, Replaced

\* A published proof is never changed or withdrawn.
THEOREM ProofsNeverChange == RunnerSpec => ProofsImmutable
<1>1. RunnerInv /\ [RunnerNext]_vars =>
          [\A t \in Tiers, r \in RoundIds :
              Revealed(t, r) => revealed_seeds'[t][r] = revealed_seeds[t][r]]_vars
  BY ProofStays
<1> QED
  BY <1>1, RunnerInvariant, PTL DEF RunnerSpec, ProofsImmutable

\* Rounds are settled one at a time.
THEOREM RoundsSettleByOne == RunnerSpec => SettledByOne
<1>1. RunnerInv /\ [RunnerNext]_vars =>
          [\A t \in Tiers :
              last_settled_rounds'[t] \in
                  {last_settled_rounds[t], last_settled_rounds[t] + 1}]_vars
  <2> SUFFICES ASSUME RunnerInv, [RunnerNext]_vars, NEW t \in Tiers
               PROVE  last_settled_rounds'[t] \in
                          {last_settled_rounds[t], last_settled_rounds[t] + 1}
    OBVIOUS
  <2> QED
    BY StepEffect DEF Kept, Published, PublishedFrom, Prefetched, Replaced
<1> QED
  BY <1>1, RunnerInvariant, PTL DEF RunnerSpec, SettledByOne

\* get_raw_seed_for_round as a function of the slots.
SeedIn(cur, next, r) ==
    IF Holds(cur, ChunkOf(r)) THEN <<cur.master, (r - 1) % CHUNK_SIZE>>
    ELSE IF Holds(next, ChunkOf(r)) THEN <<next.master, (r - 1) % CHUNK_SIZE>>
    ELSE None

\* Reading a seed is looking it up in the two slots.
LEMMA RawSeedIsIn ==
    ASSUME NEW t, NEW r \in Rounds
    PROVE  /\ get_raw_seed_for_round(t, r) =
                  SeedIn(seed_chunks[t], seed_chunks_next[t], r)
           /\ get_raw_seed_for_round(t, r)' =
                  SeedIn(seed_chunks'[t], seed_chunks_next'[t], r)
<1>1. r # 0 /\ expected_chunk_id(r) = ChunkOf(r)
  BY ChunkAgrees, ConstAssumption DEF Rounds
<1> QED
  BY <1>1 DEF get_raw_seed_for_round, SeedIn

\* A seed readable for an unrevealed round is in a slot that the step keeps.
LEMMA SeedStaysPut ==
    ASSUME RunnerInv, NEW t \in Tiers, NEW q \in Rounds,
           ~Revealed(t, q), NEW seed, seed # None,
           seed = SeedIn(seed_chunks[t], seed_chunks_next[t], q),
           Kept(t) \/ Published(t) \/ Prefetched(t) \/ Replaced(t)
    PROVE  IF revealed_seeds'[t][q] = None
           THEN SeedIn(seed_chunks'[t], seed_chunks_next'[t], q) = seed
           ELSE Seed(revealed_seeds'[t][q]) = seed
<1> DEFINE last == last_settled_rounds[t]
           cur == seed_chunks[t]
           next == seed_chunks_next[t]
<1>1. /\ q \in RoundIds /\ q \in Nat /\ q >= 1 /\ last \in Nat /\ q > last
      /\ revealed_seeds[t][q] = None
      /\ CHUNK_SIZE \in Nat \ {0}
  <2>1. q \in RoundIds /\ q \in Nat /\ q >= 1 /\ last \in Nat
    BY TierFacts, ConstAssumption DEF Rounds
  <2> QED
    BY <2>1, ConstAssumption DEF RunnerInv, RevealedUpToSettled, Revealed
<1>2. SlotsFit(cur, next, last)
  BY InvByTier DEF InvOfTiers, TierFits
\* CURRENT used up and NEXT empty: no seed is readable.
<1>3. ASSUME last >= 1, last % CHUNK_SIZE = 0, cur.chunk_id = ChunkOf(last)
      PROVE  ~Holds(cur, ChunkOf(q))
  <2>1. ChunkOf(last + 1) = ChunkOf(last) + 1 /\ ChunkOf(last) \in Nat
    BY <1>1, <1>3, ChunkStep
  <2>2. ChunkOf(last + 1) <= ChunkOf(q)
    BY <1>1, ChunkMono
  <2>3. ChunkOf(q) \in Nat
    BY <1>1, ChunkStep
  <2> QED
    BY <1>3, <2>1, <2>2, <2>3 DEF Holds
<1>4. CASE Kept(t)
  BY <1>1, <1>4 DEF Kept
<1>5. CASE Prefetched(t)
  <2>1. Holds(cur, ChunkOf(q))
    BY <1>5 DEF Prefetched, SeedIn, Holds
  <2> QED
    BY <1>1, <1>5, <2>1 DEF Prefetched, SeedIn
<1>6. CASE Replaced(t)
  BY <1>1, <1>3, <1>6 DEF Replaced, AtChunkEnd, SeedIn, Holds
<1>7. CASE Published(t)
  <2>1. PICK r \in RoundIds, chunk \in SeedChunk :
        /\ r = last + 1
        /\ chunk.chunk_id = ChunkOf(r)
        /\ chunk = cur \/ (next = None /\ ~Holds(cur, ChunkOf(r)))
        /\ revealed_seeds'[t] = [revealed_seeds[t] EXCEPT
              ![r] = get_seed_proof(chunk, (r - 1) % CHUNK_SIZE)]
        /\ \/ seed_chunks'[t] = chunk /\ seed_chunks_next'[t] = next
           \/ /\ r % CHUNK_SIZE = 0
              /\ Holds(next, ChunkOf(r) + 1)
              /\ seed_chunks'[t] = next
              /\ seed_chunks_next'[t] = None
    BY <1>7 DEF Published, PublishedFrom
  <2>2. r \in Nat /\ r >= 1 /\ r <= q /\ ChunkOf(r) \in Nat
    BY <1>1, <2>1, ChunkStep
  <2>3. chunk = cur
    <3> SUFFICES ASSUME next = None, ~Holds(cur, ChunkOf(r))
                 PROVE  FALSE
      BY <2>1
    <3>1. Holds(cur, ChunkOf(q))
      BY DEF SeedIn, Holds
    <3>2. cur # None /\ last # 0
      BY <1>2, <3>1 DEF SlotsFit, Holds
    <3>3. last >= 1
      BY <1>1, <3>2
    <3>4. ChunkOf(r) = IF last % CHUNK_SIZE = 0 THEN ChunkOf(last) + 1
                                                ELSE ChunkOf(last)
      BY <1>1, <2>1, <3>3, ChunkStep
    <3>5. last % CHUNK_SIZE = 0 /\ cur.chunk_id = ChunkOf(last)
      BY <1>2, <3>2, <3>4 DEF SlotsFit, Holds
    <3> QED
      BY <1>3, <3>1, <3>3, <3>5
  <2>4. cur # None /\ cur.chunk_id = ChunkOf(r)
    BY <2>1, <2>3, NoneAssumption
  <2>5. CASE q = r
    <3>1. revealed_seeds'[t][q] = get_seed_proof(cur, (q - 1) % CHUNK_SIZE)
      BY <1>1, <2>1, <2>3, <2>5 DEF RunnerInv, TypeOK
    <3>2. seed = <<cur.master, (q - 1) % CHUNK_SIZE>>
      BY <2>4, <2>5 DEF SeedIn, Holds
    <3>3. Seed(revealed_seeds'[t][q]) = seed
      BY <3>1, <3>2 DEF Seed, get_seed_proof
    <3>4. get_seed_proof(cur, (q - 1) % CHUNK_SIZE) # None
      <4>1. (q - 1) % CHUNK_SIZE \in 0 .. (CHUNK_SIZE - 1)
        BY <1>1
      <4>2. get_seed_proof(cur, (q - 1) % CHUNK_SIZE) \in SeedProof
        BY <2>3, <4>1 DEF get_seed_proof, SeedProof, SeedChunk
      <4> QED
        BY <4>2, NoneAssumption
    <3> QED
      BY <3>1, <3>3, <3>4
  <2>6. CASE q # r
    <3>1. revealed_seeds'[t][q] = None
      BY <1>1, <2>1, <2>6 DEF RunnerInv, TypeOK
    <3>2. CASE seed_chunks'[t] = chunk /\ seed_chunks_next'[t] = next
      BY <2>3, <3>1, <3>2
    <3>3. CASE /\ r % CHUNK_SIZE = 0
               /\ Holds(next, ChunkOf(r) + 1)
               /\ seed_chunks'[t] = next
               /\ seed_chunks_next'[t] = None
      <4>1. ChunkOf(r + 1) = ChunkOf(r) + 1
        BY <2>2, <3>3, ChunkStep
      <4>2. ChunkOf(r + 1) <= ChunkOf(q) /\ ChunkOf(q) \in Nat
        BY <1>1, <2>2, <2>6, ChunkMono, ChunkStep
      <4>3. ~Holds(cur, ChunkOf(q))
        BY <2>2, <2>4, <4>1, <4>2 DEF Holds
      <4>4. Holds(next, ChunkOf(q)) /\ seed = <<next.master, (q - 1) % CHUNK_SIZE>>
        BY <4>3 DEF SeedIn
      <4> QED
        BY <3>1, <3>3, <4>4 DEF SeedIn
    <3> QED
      BY <2>1, <3>2, <3>3
  <2> QED
    BY <2>5, <2>6
<1> QED
  BY <1>4, <1>5, <1>6, <1>7

\* A seed that a player could read before its round was revealed is the seed
\* the round is revealed with.
THEOREM PlayerSeedNeverChanges == RunnerSpec => PlayerSeedStable
<1>1. RunnerInv /\ [RunnerNext]_vars =>
        [\A t \in Tiers, r \in Rounds :
          LET seed == get_raw_seed_for_round(t, r)
          IN seed # None /\ ~Revealed(t, r) =>
                IF revealed_seeds'[t][r] = None
                THEN get_raw_seed_for_round(t, r)' = seed
                ELSE Seed(revealed_seeds'[t][r]) = seed]_vars
  <2> SUFFICES ASSUME RunnerInv, [RunnerNext]_vars, NEW t \in Tiers,
                      NEW r \in Rounds, get_raw_seed_for_round(t, r) # None,
                      ~Revealed(t, r)
               PROVE  IF revealed_seeds'[t][r] = None
                      THEN get_raw_seed_for_round(t, r)'
                               = get_raw_seed_for_round(t, r)
                      ELSE Seed(revealed_seeds'[t][r])
                               = get_raw_seed_for_round(t, r)
    OBVIOUS
  <2> QED
    BY RawSeedIsIn, StepEffect, SeedStaysPut
<1> QED
  BY <1>1, RunnerInvariant, PTL DEF RunnerSpec, PlayerSeedStable

\* A reveal that returns without waiting for NEXT has not crossed a boundary.
LEMMA ReturnsMidChunk ==
    ASSUME RunnerInv, NEW c \in Calls, NEW t \in Tiers, NEW r \in RoundIds,
           NEW chunk, r = last_settled_rounds[t] + 1,
           publish(t, r, chunk), maintain_slots(c, t, r, chunk),
           calls'[c] = None
    PROVE  /\ last_settled_rounds'[t] = r
           /\ r % CHUNK_SIZE # 0
           /\ r >= 1
<1>t. TypeOK
  BY DEF RunnerInv
<1>1. /\ r >= 1 /\ r % U64 = r
      /\ chunk_offsets[t] = last_settled_rounds[t]
      /\ current_chunk_id(r) = ChunkOf(r)
  <2>1. last_settled_rounds[t] \in Nat /\ chunk_offsets[t] = last_settled_rounds[t]
    BY TierFacts
  <2>2. r >= 1
    BY <2>1
  <2> QED
    BY <2>1, <2>2, ChunkAgrees
<1>2. boundary_crossed(t) <=> r % CHUNK_SIZE = 0
  BY <1>1 DEF boundary_crossed, increment_offset
<1>3. \A phase \in Phases, want \in Nat : ~Await(c, phase, t, r, want)
  BY <1>t, AwaitIsSome
<1>4. ~boundary_crossed(t)
  <2>1. current_chunk_id(r) + 1 \in Nat /\ current_chunk_id(r) + 2 \in Nat
    BY RoundArithmetic
  <2>2. "prefetch" \in Phases /\ "boundary" \in Phases
    BY DEF Phases
  <2> QED
    BY <1>3, <2>1, <2>2 DEF maintain_slots
<1>5. last_settled_rounds'[t] = r
  BY <1>t DEF publish, TypeOK
<1> QED
  BY <1>1, <1>2, <1>4, <1>5

\* When the call that publishes a round succeeds, the seed of the round after
\* it is readable, at the end of a chunk too and whatever failed before.  The
\* answer to a retry of a published round is not meant: it promises nothing.
THEOREM NextSeedAfterReveal == RunnerSpec => SeedReadyAfterReveal
<1>1. RunnerInv /\ RunnerInv' /\ SeedReadyInCurrent' /\ [RunnerNext]_vars =>
        [\A c \in Calls, t \in Tiers :
          /\ (\E r \in RoundIds : request_reveal(c, t, r)) \/ (OfTier(c, t) /\ signed(c))
          /\ calls'[c] = None
          => (get_raw_seed_for_round(t, last_settled_rounds[t] + 1) # None)']_vars
  <2> SUFFICES ASSUME RunnerInv, SeedReadyInCurrent', NEW c \in Calls, NEW t \in Tiers,
                      \/ \E r \in RoundIds : request_reveal(c, t, r)
                      \/ OfTier(c, t) /\ signed(c),
                      calls'[c] = None
               PROVE  (get_raw_seed_for_round(t, last_settled_rounds[t] + 1) # None)'
    OBVIOUS
  <2> SUFFICES /\ last_settled_rounds'[t] >= 1
               /\ \/ last_settled_rounds'[t] % CHUNK_SIZE # 0
                  \/ seed_chunks'[t].chunk_id # ChunkOf(last_settled_rounds'[t])
    BY DEF SeedReadyInCurrent, AtChunkEnd, ChunkOf
  <2>t. TypeOK
    BY DEF RunnerInv
  <2>n. \A phase \in Phases, r \in RoundIds, want \in Nat :
           ~Await(c, phase, t, r, want)
    BY <2>t, AwaitIsSome
  <2>1. ASSUME NEW r \in RoundIds, request_reveal(c, t, r)
        PROVE  last_settled_rounds'[t] >= 1 /\ last_settled_rounds'[t] % CHUNK_SIZE # 0
    <3>1. r = last_settled_rounds[t] + 1
      BY <2>1, ValidatedIsNext DEF request_reveal, reveal_seed
    <3>2. ~Await(c, "ensure_chunk", t, r, expected_chunk_id(r))
      <4>1. expected_chunk_id(r) \in Nat
        BY RoundArithmetic
      <4> QED
        BY <2>n, <4>1 DEF Phases
    <3>3. publish(t, r, seed_chunks[t]) /\ maintain_slots(c, t, r, seed_chunks[t])
      BY <2>1, <3>2 DEF request_reveal, reveal_seed
    <3> QED
      BY <3>1, <3>3, ReturnsMidChunk
  <2>2. ASSUME OfTier(c, t), ensure_chunk_signed(c)
        PROVE  last_settled_rounds'[t] >= 1 /\ last_settled_rounds'[t] % CHUNK_SIZE # 0
    <3> DEFINE r == calls[c].round
               chunk == SignedChunk(calls[c])
    <3>1. r \in RoundIds /\ r = last_settled_rounds[t] + 1
      BY <2>2, SuspendedFits
      DEF OfTier, ensure_chunk_signed, Suspended, CallFits
    <3>2. publish(t, r, chunk) /\ maintain_slots(c, t, r, chunk)
      BY <2>2 DEF OfTier, ensure_chunk_signed
    <3> QED
      BY <3>1, <3>2, ReturnsMidChunk
  <2>3. ASSUME OfTier(c, t), boundary_signed(c)
        PROVE  FALSE
    <3>1. Suspended(c, "sign_with_ecdsa", "boundary")
      BY <2>3 DEF boundary_signed
    <3>2. calls[c].round \in RoundIds /\ calls[c].want + 1 \in Nat
      <4>1. calls[c].round \in RoundIds /\ calls[c].want \in Nat
        BY <2>t, <3>1, SuspendedType DEF Phases
      <4> QED
        BY <4>1
    <3>3. Await(c, "prefetch", t, calls[c].round, calls[c].want + 1)
      BY <2>3 DEF OfTier, boundary_signed
    <3> QED
      BY <2>n, <3>2, <3>3 DEF Phases
  <2>4. ASSUME OfTier(c, t), prefetch_signed(c)
        PROVE  /\ last_settled_rounds'[t] >= 1
               /\ \/ last_settled_rounds'[t] % CHUNK_SIZE # 0
                  \/ seed_chunks'[t].chunk_id # ChunkOf(last_settled_rounds'[t])
    <3>1. /\ last_settled_rounds[t] > 0
          /\ last_settled_rounds[t] % CHUNK_SIZE = 0 =>
                seed_chunks[t].chunk_id # ChunkOf(last_settled_rounds[t])
      BY <2>4, SuspendedFits DEF OfTier, prefetch_signed, Suspended, CallFits
    <3>2. last_settled_rounds[t] \in Nat
      BY TierFacts
    <3>3. /\ last_settled_rounds'[t] = last_settled_rounds[t]
          /\ seed_chunks'[t] = seed_chunks[t]
      BY <2>4 DEF prefetch_signed
    <3> QED
      BY <3>1, <3>2, <3>3
  <2> QED
    BY <2>1, <2>2, <2>3, <2>4 DEF signed
<1> QED
  BY <1>1, CurrentHasNextSeed, RunnerInvariant, PTL
  DEF RunnerSpec, SeedReadyAfterReveal

=============================================================================
