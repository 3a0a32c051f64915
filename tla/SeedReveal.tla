----------------------------- MODULE SeedReveal -----------------------------
(***************************************************************************)
(* The seed-revelation state machine of the orbs_backend canister          *)
(* (seeds/reveal.rs, with the chunk generation of seeds/chunks.rs).        *)
(*                                                                         *)
(* A canister executes one message at a time, but an update call that      *)
(* awaits a management-canister call is cut there: everything up to the    *)
(* await is one atomic step, the rest runs when the answer arrives, and    *)
(* any number of other messages may run in between.  A chunk of seeds is   *)
(* generated behind two such awaits, raw_rand and sign_with_ecdsa, so a    *)
(* reveal is up to five atomic steps.  Each action below is one of them.   *)
(*                                                                         *)
(* A chunk is abstracted to its chunk_id and the random master value its   *)
(* seeds, Merkle root and signature are derived from; a proof is a chunk   *)
(* plus the offset of the seed inside it.                                  *)
(***************************************************************************)
EXTENDS Integers, FiniteSets

CONSTANTS
    Tiers,      \* tier ids
    RoundIds,   \* round ids a caller may ask for
    Calls,      \* update calls that may be in flight together
    Masters,    \* values raw_rand may return
    CHUNK_SIZE, \* seeds per chunk (50 in chunks.rs)
    U64,        \* number of values of a u64 (2^64; the release build wraps)
    MaxReveals, \* bound: no reveal starts once a tier's offset is this high
    None        \* an absent map entry

(* The word size, the chunk size and the round ids of the code. *)
ASSUME ConstAssumption ==
    /\ CHUNK_SIZE \in Nat \ {0}
    /\ U64 \in Nat \ {0}
    /\ RoundIds \subseteq 0 .. (U64 - 1)
    /\ MaxReveals \in Nat

VARIABLES
    seed_chunks,         \* SEED_CHUNKS: the CURRENT slot of every tier
    seed_chunks_next,    \* SEED_CHUNKS_NEXT: the NEXT slot of every tier
    chunk_offsets,       \* CHUNK_OFFSETS: reveals counted per tier
    last_settled_rounds, \* LAST_SETTLED_ROUNDS, 0 when absent
    revealed_seeds,      \* REVEALED_SEEDS: the public proof of every round
    calls                \* the suspended future of every call (not stable)

slots  == <<seed_chunks, seed_chunks_next>>
stable == <<seed_chunks, seed_chunks_next, chunk_offsets,
            last_settled_rounds, revealed_seeds>>
vars   == <<stable, calls>>

SeedChunk == [chunk_id : Nat, master : Masters]
SeedProof == [chunk_id : Nat, master : Masters, offset : 0 .. (CHUNK_SIZE - 1)]

(* Where a call is suspended.  `phase` is the generation it awaits:        *)
(*   ensure_chunk  CURRENT for the round being revealed                    *)
(*   boundary      NEXT, found cold when CURRENT was exhausted             *)
(*   prefetch      NEXT, the last thing a reveal does                      *)
(*   refresh       CURRENT, on an admin's refresh_chunks_for_tier          *)
Phases == {"ensure_chunk", "boundary", "prefetch", "refresh"}
AtRawRand == [at : {"raw_rand"}, phase : Phases, tier : Tiers,
              round : RoundIds, want : Nat]
AtSign == [at : {"sign_with_ecdsa"}, phase : Phases, tier : Tiers,
           round : RoundIds, want : Nat, master : Masters]

ASSUME NoneAssumption ==
    /\ None \notin SeedChunk
    /\ None \notin SeedProof
    /\ None \notin AtRawRand \cup AtSign
    /\ None \notin Masters
    /\ None \notin Masters \X (0 .. (CHUNK_SIZE - 1))

\* Every map holds what its Rust type allows, and every suspended call
\* resumes with a tier, round and chunk of its own.
TypeOK ==
    /\ seed_chunks \in [Tiers -> SeedChunk \cup {None}]
    /\ seed_chunks_next \in [Tiers -> SeedChunk \cup {None}]
    /\ chunk_offsets \in [Tiers -> 0 .. (U64 - 1)]
    /\ last_settled_rounds \in [Tiers -> RoundIds \cup {0}]
    /\ revealed_seeds \in [Tiers -> [RoundIds -> SeedProof \cup {None}]]
    /\ calls \in [Calls -> AtRawRand \cup AtSign \cup {None}]

Init ==
    /\ seed_chunks = [t \in Tiers |-> None]
    /\ seed_chunks_next = [t \in Tiers |-> None]
    /\ chunk_offsets = [t \in Tiers |-> 0]
    /\ last_settled_rounds = [t \in Tiers |-> 0]
    /\ revealed_seeds = [t \in Tiers |-> [r \in RoundIds |-> None]]
    /\ calls = [c \in Calls |-> None]

-----------------------------------------------------------------------------
(* Rounds and chunks. *)

\* Faulty variants: the offset counted from one; the offset taken from the
\* stored counter; the chunk of a round taken as if rounds were 0-indexed.
Offset_from_one(t, r) == (((r - 1) % U64) % CHUNK_SIZE) + 1
Offset_from_counter(t, r) == chunk_offsets[t] % CHUNK_SIZE
Chunk_of_zero_indexed(r) == r \div CHUNK_SIZE

\* The chunk ensure_chunk, generate_chunk and the readers look for.
expected_chunk_id(r) == IF r > 0 THEN (r - 1) \div CHUNK_SIZE ELSE 0

\* reveal_seed itself subtracts without the r > 0 test: round 0 wraps.
current_chunk_id(r) == ((r - 1) % U64) \div CHUNK_SIZE

offset_in_chunk(t, r) == ((r - 1) % U64) % CHUNK_SIZE

compute_round_id(chunk_id, offset) ==
    (chunk_id * CHUNK_SIZE + offset + 1) % U64

Holds(slot, id) == slot # None /\ slot.chunk_id = id

-----------------------------------------------------------------------------
(* What one atomic step does to a call. *)

SignedChunk(call) == [chunk_id |-> call.want, master |-> call.master]

get_seed_proof(chunk, offset) ==
    [chunk_id |-> chunk.chunk_id, master |-> chunk.master, offset |-> offset]

Await(c, phase, t, r, want) ==
    calls' = [calls EXCEPT ![c] = [at |-> "raw_rand", phase |-> phase,
                                   tier |-> t, round |-> r, want |-> want]]

Return(c) == calls' = [calls EXCEPT ![c] = None]

Suspended(c, at, phase) ==
    calls[c] # None /\ calls[c].at = at /\ calls[c].phase = phase

\* ensure_next_chunk up to its await: nothing to sign if NEXT (here `next`)
\* already holds the wanted chunk.
ensure_next_chunk(c, t, r, want, next) ==
    IF Holds(next, want) THEN Return(c) ELSE Await(c, "prefetch", t, r, want)

\* Faulty variant: the slot is not looked at again after the await.
Next_overwritten(t, chunk) == chunk

\* ensure_next_chunk after its await: the slot is checked again and the
\* freshly signed chunk dropped if another call stored the same chunk id.
next_after_await(t, chunk) ==
    IF Holds(seed_chunks_next[t], chunk.chunk_id) THEN seed_chunks_next[t]
                                                  ELSE chunk

promote_next_to_current(t, next) ==
    /\ seed_chunks' = [seed_chunks EXCEPT ![t] = next]
    /\ seed_chunks_next' = [seed_chunks_next EXCEPT ![t] = None]

(* Only raw values no longer stored or travelling are drawn again, which   *)
(* is what 256-bit randomness amounts to with a small set of values.       *)
MastersInUse ==
    LET stored == UNION {{seed_chunks[t], seed_chunks_next[t]} : t \in Tiers}
        proofs == UNION {{revealed_seeds[t][r] : r \in RoundIds} : t \in Tiers}
        awaiting == {call \in {calls[c] : c \in Calls} :
                        call # None /\ call.at = "sign_with_ecdsa"}
    IN {x.master : x \in ((stored \cup proofs) \ {None}) \cup awaiting}

-----------------------------------------------------------------------------
(* reveal_seed *)

\* Faulty variants: any chunk will do; the chunk is always made anew.
Needs_any_chunk(t, r) == seed_chunks[t] = None
Needs_always(t, r) == TRUE

needs_generation(t, r) == ~Holds(seed_chunks[t], expected_chunk_id(r))

\* Faulty variant: the counter wraps at the end of a chunk.
Increment_within_chunk(t) == (chunk_offsets[t] + 1) % CHUNK_SIZE

increment_offset(t) == (chunk_offsets[t] + 1) % U64

\* Faulty variant: promotion one round early.
Boundary_early(t) == (increment_offset(t) + 1) % CHUNK_SIZE = 0

boundary_crossed(t) == increment_offset(t) % CHUNK_SIZE = 0

\* Faulty variants: any later round is accepted; the next one is refused.
Validate_any_later(t, r) == r > last_settled_rounds[t]
Validate_same_round(t, r) ==
    IF last_settled_rounds[t] = 0 THEN r <= 1 ELSE r = last_settled_rounds[t]

validate_reveal_round(t, r) ==
    LET last_settled == last_settled_rounds[t]
    IN IF last_settled = 0 THEN r <= 1 ELSE r = (last_settled + 1) % U64

\* Steps 3 to 6: the proof comes out of CURRENT (here `current`) and the
\* round is settled.
publish(t, r, current) ==
    /\ revealed_seeds' = [revealed_seeds EXCEPT
           ![t][r] = get_seed_proof(current, offset_in_chunk(t, r))]
    /\ last_settled_rounds' = [last_settled_rounds EXCEPT ![t] = r]
    /\ chunk_offsets' = [chunk_offsets EXCEPT ![t] = increment_offset(t)]

\* Steps 7 and 8: keep CURRENT and NEXT one chunk apart.
maintain_slots(c, t, r, current) ==
    LET id == current_chunk_id(r)
        next == seed_chunks_next[t]
    IN \/ /\ ~boundary_crossed(t)
          /\ seed_chunks' = [seed_chunks EXCEPT ![t] = current]
          /\ UNCHANGED seed_chunks_next
          /\ ensure_next_chunk(c, t, r, id + 1, next)
       \/ /\ boundary_crossed(t)
          /\ Holds(next, id + 1)
          /\ promote_next_to_current(t, next)
          /\ Await(c, "prefetch", t, r, id + 2)
       \/ /\ boundary_crossed(t)
          /\ ~Holds(next, id + 1)
          /\ seed_chunks' = [seed_chunks EXCEPT ![t] = current]
          /\ UNCHANGED seed_chunks_next
          /\ Await(c, "boundary", t, r, id + 1)

\* A call of reveal_seed up to its first await.  A round already revealed is
\* answered from REVEALED_SEEDS (EngineRunner's answered_again) and an invalid
\* one refused: neither changes anything, so neither is a step.
reveal_seed(c, t, r) ==
    /\ calls[c] = None
    /\ chunk_offsets[t] < MaxReveals
    /\ revealed_seeds[t][r] = None
    /\ validate_reveal_round(t, r)
    /\ \/ /\ needs_generation(t, r)
          /\ Await(c, "ensure_chunk", t, r, expected_chunk_id(r))
          /\ UNCHANGED stable
       \/ /\ ~needs_generation(t, r)
          /\ publish(t, r, seed_chunks[t])
          /\ maintain_slots(c, t, r, seed_chunks[t])

\* generate_seed_chunk resumes with the random value and asks for the
\* signature of the root it builds from it.
raw_rand_reply(c) ==
    /\ calls[c] # None
    /\ calls[c].at = "raw_rand"
    /\ \E m \in Masters \ MastersInUse :
          calls' = [calls EXCEPT ![c] =
              [at |-> "sign_with_ecdsa", phase |-> calls[c].phase,
               tier |-> calls[c].tier, round |-> calls[c].round,
               want |-> calls[c].want, master |-> m]]
    /\ UNCHANGED stable

\* The signature for CURRENT arrives: generate_chunk stores the chunk
\* whatever CURRENT holds by now, and the reveal goes on in the same step.
ensure_chunk_signed(c) ==
    /\ Suspended(c, "sign_with_ecdsa", "ensure_chunk")
    /\ LET t == calls[c].tier
           r == calls[c].round
       IN /\ publish(t, r, SignedChunk(calls[c]))
          /\ maintain_slots(c, t, r, SignedChunk(calls[c]))

\* The fallback of a boundary whose NEXT was cold: store, promote, prefetch.
boundary_signed(c) ==
    /\ Suspended(c, "sign_with_ecdsa", "boundary")
    /\ LET t == calls[c].tier
       IN /\ promote_next_to_current(t, next_after_await(t, SignedChunk(calls[c])))
          /\ Await(c, "prefetch", t, calls[c].round, calls[c].want + 1)
    /\ UNCHANGED <<chunk_offsets, last_settled_rounds, revealed_seeds>>

\* The last await of a reveal.
prefetch_signed(c) ==
    /\ Suspended(c, "sign_with_ecdsa", "prefetch")
    /\ LET t == calls[c].tier
       IN seed_chunks_next' = [seed_chunks_next EXCEPT
              ![t] = next_after_await(t, SignedChunk(calls[c]))]
    /\ Return(c)
    /\ UNCHANGED <<seed_chunks, chunk_offsets, last_settled_rounds, revealed_seeds>>

\* raw_rand or sign_with_ecdsa is rejected, or the code after the await
\* traps: the call ends and what it stored before the await stays.
call_failed(c) ==
    /\ calls[c] # None
    /\ Return(c)
    /\ UNCHANGED stable

\* Faulty variants: a map kept on the heap is lost with the old module.
Upgrade_loses_revealed ==
    /\ \E c \in Calls : calls[c] # None
    /\ calls' = [c \in Calls |-> None]
    /\ revealed_seeds' = [t \in Tiers |-> [r \in RoundIds |-> None]]
    /\ UNCHANGED <<slots, chunk_offsets, last_settled_rounds>>
Upgrade_loses_settled ==
    /\ \E c \in Calls : calls[c] # None
    /\ calls' = [c \in Calls |-> None]
    /\ last_settled_rounds' = [t \in Tiers |-> 0]
    /\ UNCHANGED <<slots, chunk_offsets, revealed_seeds>>

\* A new module is installed: stable memory survives, suspended calls do not.
upgrade ==
    /\ \E c \in Calls : calls[c] # None
    /\ calls' = [c \in Calls |-> None]
    /\ UNCHANGED stable

-----------------------------------------------------------------------------
(* Admin recovery *)

refresh_chunks_for_tier(c, t, r) ==
    /\ calls[c] = None
    /\ Await(c, "refresh", t, r, expected_chunk_id(r))
    /\ UNCHANGED stable

refresh_signed(c) ==
    /\ Suspended(c, "sign_with_ecdsa", "refresh")
    /\ seed_chunks' = [seed_chunks EXCEPT ![calls[c].tier] = SignedChunk(calls[c])]
    /\ Return(c)
    /\ UNCHANGED <<seed_chunks_next, chunk_offsets, last_settled_rounds,
                   revealed_seeds>>

set_chunk_offset(t, offset) ==
    /\ chunk_offsets' = [chunk_offsets EXCEPT ![t] = offset]
    /\ UNCHANGED <<slots, last_settled_rounds, revealed_seeds, calls>>

set_last_settled_round(t, r) ==
    /\ last_settled_rounds' = [last_settled_rounds EXCEPT ![t] = r]
    /\ UNCHANGED <<slots, chunk_offsets, revealed_seeds, calls>>

clear_revealed_seed(t, r) ==
    /\ revealed_seeds' = [revealed_seeds EXCEPT ![t][r] = None]
    /\ UNCHANGED <<slots, chunk_offsets, last_settled_rounds, calls>>

\* Faulty variant: the newer of the two slots is forgotten.
Clear_keeps_next ==
    /\ seed_chunks' = [t \in Tiers |-> None]
    /\ chunk_offsets' = [t \in Tiers |-> 0]
    /\ last_settled_rounds' = [t \in Tiers |-> 0]
    /\ revealed_seeds' = [t \in Tiers |-> [r \in RoundIds |-> None]]
    /\ UNCHANGED <<seed_chunks_next, calls>>

\* The seed maps of clear_all_data; a suspended reveal is not aborted by it.
clear_all_data ==
    /\ seed_chunks' = [t \in Tiers |-> None]
    /\ seed_chunks_next' = [t \in Tiers |-> None]
    /\ chunk_offsets' = [t \in Tiers |-> 0]
    /\ last_settled_rounds' = [t \in Tiers |-> 0]
    /\ revealed_seeds' = [t \in Tiers |-> [r \in RoundIds |-> None]]
    /\ UNCHANGED calls

-----------------------------------------------------------------------------
(* Reading a seed before it is revealed *)

\* Faulty variant: CURRENT is read without a look at its chunk id.
Seed_of_current(t, r) ==
    IF r = 0 \/ seed_chunks[t] = None THEN None
    ELSE <<seed_chunks[t].master, (r - 1) % CHUNK_SIZE>>

\* get_raw_seed_for_round: CURRENT first, then NEXT, by chunk id.
get_raw_seed_for_round(t, r) ==
    LET id == expected_chunk_id(r)
        offset == (r - 1) % CHUNK_SIZE
    IN IF r = 0 THEN None
       ELSE IF Holds(seed_chunks[t], id)
            THEN <<seed_chunks[t].master, offset>>
       ELSE IF Holds(seed_chunks_next[t], id)
            THEN <<seed_chunks_next[t].master, offset>>
       ELSE None

-----------------------------------------------------------------------------
(* Specifications *)

\* What can happen to a reveal once it is suspended.
Answered(c) ==
    \/ raw_rand_reply(c)
    \/ ensure_chunk_signed(c)
    \/ boundary_signed(c)
    \/ prefetch_signed(c)

\* Any admin calls reveal_seed at any time; nothing is repaired by hand.
RevealNext ==
    \/ \E c \in Calls :
          \/ \E t \in Tiers, r \in RoundIds : reveal_seed(c, t, r)
          \/ Answered(c)
          \/ call_failed(c)
    \/ upgrade

RecoveryNext ==
    \/ \E t \in Tiers, r \in RoundIds :
          \/ \E c \in Calls : refresh_chunks_for_tier(c, t, r)
          \/ set_last_settled_round(t, r)
          \/ clear_revealed_seed(t, r)
    \/ \E t \in Tiers, offset \in 0 .. (U64 - 1) :
          offset <= MaxReveals /\ set_chunk_offset(t, offset)
    \/ \E c \in Calls : refresh_signed(c)
    \/ clear_all_data

Next == RevealNext \/ RecoveryNext

\* Everything an admin may do, and the reveals alone.
Spec == Init /\ [][Next]_vars
RevealSpec == Init /\ [][RevealNext]_vars

-----------------------------------------------------------------------------
(* Properties of every execution, admin recovery included *)

Revealed(t, r) == revealed_seeds[t][r] # None
Seed(proof) == <<proof.master, proof.offset>>
Rounds == RoundIds \ {0}

\* The proof published for a round carries the seed of that round: the
\* round id its leaf was hashed with is the round it is filed under.
\* (reveal.rs reads CURRENT after one or two awaits, and takes the offset
\* from the round and not from CHUNK_OFFSETS.)
ProofBinding ==
    \A t \in Tiers, r \in Rounds :
        Revealed(t, r) =>
            compute_round_id(revealed_seeds[t][r].chunk_id,
                             revealed_seeds[t][r].offset) = r

\* No seed is published for two rounds, of one tier or of two, however
\* chunks are overwritten, regenerated or promoted in between.
SeedsUnique ==
    \A t1, t2 \in Tiers, r1, r2 \in Rounds :
        /\ Revealed(t1, r1)
        /\ Revealed(t2, r2)
        /\ Seed(revealed_seeds[t1][r1]) = Seed(revealed_seeds[t2][r2])
        => t1 = t2 /\ r1 = r2

(* Properties of every interleaving of reveals *)

\* Sequential access: a round is revealed only after its predecessor, even
\* though the check is made before the awaits and not repeated after them.
RevealedInOrder ==
    \A t \in Tiers, r \in RoundIds :
        r >= 2 /\ Revealed(t, r) => r - 1 \in RoundIds /\ Revealed(t, r - 1)

\* The counter never lags behind the rounds revealed.
OffsetCoversReveals ==
    \A t \in Tiers :
        Cardinality({r \in RoundIds : Revealed(t, r)}) <= chunk_offsets[t]

\* Of two prefetches of one chunk that are signed at once, the first stays:
\* the chunk in NEXT, from which players' seeds are read by then, is not
\* replaced by another one of the same id, however reveals, refreshes and
\* repairs overlap.
PrefetchKept ==
    [][\A t \in Tiers :
          LET next == seed_chunks_next[t]
          IN next # None /\ Holds(seed_chunks_next'[t], next.chunk_id) =>
                seed_chunks_next'[t] = next]_vars

(* Claims that only hold while reveals of a tier do not overlap *)

\* What is published for a round is never changed or withdrawn.
ProofsImmutable ==
    [][\A t \in Tiers, r \in RoundIds :
          Revealed(t, r) => revealed_seeds'[t][r] = revealed_seeds[t][r]]_vars

\* The last settled round moves by one round at a time, forwards.
SettledByOne ==
    [][\A t \in Tiers :
          last_settled_rounds'[t] \in
              {last_settled_rounds[t], last_settled_rounds[t] + 1}]_vars

\* All seeds published from a chunk are under one Merkle root.
OneRootPerChunk ==
    \A t \in Tiers, r1, r2 \in RoundIds :
        /\ Revealed(t, r1)
        /\ Revealed(t, r2)
        /\ revealed_seeds[t][r1].chunk_id = revealed_seeds[t][r2].chunk_id
        => revealed_seeds[t][r1].master = revealed_seeds[t][r2].master

\* NEXT holds the chunk after CURRENT.
NextFollowsCurrent ==
    \A t \in Tiers :
        seed_chunks[t] # None /\ seed_chunks_next[t] # None =>
            seed_chunks_next[t].chunk_id = seed_chunks[t].chunk_id + 1

\* No published proof carries the seed of a round not revealed yet, so no
\* seed proof can be had ahead of its round.
NoFutureSeedPublished ==
    \A t \in Tiers, q \in RoundIds, r \in Rounds :
        Revealed(t, q) /\ ~Revealed(t, r) =>
            get_raw_seed_for_round(t, r) # Seed(revealed_seeds[t][q])

=============================================================================
