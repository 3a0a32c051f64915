---------------------------- MODULE EngineRunner ----------------------------
(***************************************************************************)
(* SeedReveal as the engine-runner drives it: for every tier one call at a *)
(* time, always for the round after the last one settled, retried until it *)
(* is answered.  Calls still fail at each await and the canister may be    *)
(* upgraded under them; no two reveals of one tier overlap, no round 0 is  *)
(* asked for and no admin repairs anything.                                *)
(***************************************************************************)
EXTENDS SeedReveal

OfTier(c, t) == calls[c] # None /\ calls[c].tier = t

\* No call of this tier is suspended.
Quiet(t) == \A c \in Calls : ~OfTier(c, t)

request_reveal(c, t, r) ==
    /\ Quiet(t)
    /\ r >= 1
    /\ reveal_seed(c, t, r)

\* The runner repeats a request whose answer it did not get, or whose call
\* failed late: a round already revealed is answered with success at once,
\* from REVEALED_SEEDS, whatever the slots hold.  Nothing changes, so this is
\* a condition and not a step.
answered_again(t, r) == Quiet(t) /\ revealed_seeds[t][r] # None

RunnerNext ==
    \/ \E c \in Calls :
          \/ \E t \in Tiers, r \in RoundIds : request_reveal(c, t, r)
          \/ Answered(c)
          \/ call_failed(c)
    \/ upgrade

RunnerSpec == Init /\ [][RunnerNext]_vars

(* The runner keeps asking for the next round of every tier.  A management *)
(* call may fail any number of times but not for ever: one that is made    *)
(* again and again is answered in the end.                                 *)
signed(c) == ensure_chunk_signed(c) \/ boundary_signed(c) \/ prefetch_signed(c)

Fairness ==
    \A t \in Tiers :
        /\ WF_vars(\E c \in Calls, r \in RoundIds : request_reveal(c, t, r))
        /\ SF_vars(\E c \in Calls : OfTier(c, t) /\ raw_rand_reply(c))
        /\ SF_vars(\E c \in Calls : OfTier(c, t) /\ signed(c))

FairRunnerSpec == RunnerSpec /\ Fairness

\* The same fairness with overlapping reveals: someone keeps asking for
\* whatever round would be accepted next.
FairRevealSpec ==
    /\ RevealSpec
    /\ \A t \in Tiers :
        /\ WF_vars(\E c \in Calls, r \in RoundIds : reveal_seed(c, t, r))
        /\ SF_vars(\E c \in Calls : OfTier(c, t) /\ raw_rand_reply(c))
        /\ SF_vars(\E c \in Calls : OfTier(c, t) /\ signed(c))

-----------------------------------------------------------------------------
(* Properties *)

\* The counter follows the last settled round, as set_chunk_offset's comment
\* says it should, whatever calls failed: no recovery is ever needed.
OffsetTracksSettled ==
    \A t \in Tiers : chunk_offsets[t] = last_settled_rounds[t]

\* Exactly the rounds up to the last settled one are public.
RevealedUpToSettled ==
    \A t \in Tiers, r \in RoundIds :
        Revealed(t, r) <=> 1 <= r /\ r <= last_settled_rounds[t]

\* Once a player can derive the seed of an unrevealed round, that seed stays
\* readable, unchanged, until the round is revealed - with that seed.
PlayerSeedStable ==
    [][\A t \in Tiers, r \in Rounds :
          LET seed == get_raw_seed_for_round(t, r)
          IN seed # None /\ ~Revealed(t, r) =>
                IF revealed_seeds'[t][r] = None
                THEN get_raw_seed_for_round(t, r)' = seed
                ELSE Seed(revealed_seeds'[t][r]) = seed]_vars

\* Inside a chunk the seed of the next round is always readable, even if
\* every prefetch failed.
SeedReadyMidChunk ==
    \A t \in Tiers :
        LET next_round == last_settled_rounds[t] + 1
        IN last_settled_rounds[t] % CHUNK_SIZE # 0 =>
              get_raw_seed_for_round(t, next_round) # None

\* A call that publishes a round and is itself answered with success leaves
\* the seed of the next round readable, across chunk boundaries too and
\* whatever calls failed before it.  (A call that publishes and then fails is
\* another matter: its retry is answered with success as well, see
\* SeamlessAcrossBoundaries.)
SeedReadyAfterReveal ==
    [][\A c \in Calls, t \in Tiers :
          /\ (\E r \in RoundIds : request_reveal(c, t, r)) \/ (OfTier(c, t) /\ signed(c))
          /\ calls'[c] = None
          => (get_raw_seed_for_round(t, last_settled_rounds[t] + 1) # None)']_vars

\* A claim of the documentation: player seeds work across chunk boundaries,
\* after the previous round settled and before the current one is revealed.
\* Whenever the runner is, or on a retry would be, told that the last round is
\* settled, the seed of the round to play now is readable.
SeamlessAcrossBoundaries ==
    \A t \in Tiers, r \in RoundIds :
        r = last_settled_rounds[t] /\ answered_again(t, r) =>
            get_raw_seed_for_round(t, r + 1) # None

\* Every round is revealed in the end, although any call may fail at any
\* await and leave its work half done.
EveryRoundRevealed ==
    \A t \in Tiers, r \in Rounds : <>Revealed(t, r)

-----------------------------------------------------------------------------
(* The inductive invariant behind the safety properties above *)

ChunkOf(r) == (r - 1) \div CHUNK_SIZE
AtChunkEnd(t) == last_settled_rounds[t] % CHUNK_SIZE = 0

\* CURRENT holds the chunk of the last settled round or, once that chunk is
\* used up and NEXT has been promoted, the one after it.
CurrentFollowsSettled ==
    \A t \in Tiers :
        LET cur == seed_chunks[t]
            last == last_settled_rounds[t]
        IN IF last = 0 THEN cur = None
           ELSE /\ cur # None
                /\ \/ cur.chunk_id = ChunkOf(last)
                   \/ AtChunkEnd(t) /\ cur.chunk_id = ChunkOf(last) + 1

\* NEXT is empty or one ahead of CURRENT; it is empty while CURRENT is used up.
NextIsOneAhead ==
    \A t \in Tiers :
        LET cur == seed_chunks[t]
            next == seed_chunks_next[t]
        IN next # None =>
              /\ cur # None
              /\ next.chunk_id = cur.chunk_id + 1
              /\ AtChunkEnd(t) =>
                    cur.chunk_id # ChunkOf(last_settled_rounds[t])

\* Every proof is of its round's chunk and offset, and under the same random
\* value as CURRENT and as every other proof of that chunk.
ProofsAgree ==
    \A t \in Tiers, r \in RoundIds :
        Revealed(t, r) =>
            /\ revealed_seeds[t][r].chunk_id = ChunkOf(r)
            /\ revealed_seeds[t][r].offset = (r - 1) % CHUNK_SIZE
            /\ Holds(seed_chunks[t], ChunkOf(r)) =>
                  revealed_seeds[t][r].master = seed_chunks[t].master

\* A suspended call is the only one of its tier and wants the chunk that its
\* phase says.  No call fetches NEXT while CURRENT is used up: the promotion
\* comes first.
CallsAreSerial ==
    /\ \A c, d \in Calls :
          /\ calls[c] # None
          /\ calls[d] # None
          /\ calls[c].tier = calls[d].tier
          => c = d
    /\ \A c \in Calls : calls[c] # None =>
          LET t == calls[c].tier
              cur == seed_chunks[t]
              last == last_settled_rounds[t]
              want == calls[c].want
          IN \/ /\ calls[c].phase = "ensure_chunk"
                /\ calls[c].round = last + 1
                /\ want = ChunkOf(last + 1)
                /\ ~Holds(cur, want)
             \/ /\ calls[c].phase = "boundary"
                /\ last > 0
                /\ AtChunkEnd(t)
                /\ cur.chunk_id = ChunkOf(last)
                /\ want = cur.chunk_id + 1
             \/ /\ calls[c].phase = "prefetch"
                /\ last > 0
                /\ AtChunkEnd(t) => cur.chunk_id # ChunkOf(last)
                /\ want = cur.chunk_id + 1

\* Counter, settled round, public rounds, both slots and the one suspended
\* call of a tier agree, whatever failed before.
RunnerInv ==
    /\ TypeOK
    /\ OffsetTracksSettled
    /\ RevealedUpToSettled
    /\ CurrentFollowsSettled
    /\ NextIsOneAhead
    /\ ProofsAgree
    /\ OneRootPerChunk
    /\ CallsAreSerial

-----------------------------------------------------------------------------
(* Refinement: the canister keeps the promise of SeedOracle *)

(* The rounds asked for have a last one, as u64 has. *)
ASSUME LastRoundAssumption == \E r \in RoundIds : \A q \in RoundIds : q <= r

LastRound == CHOOSE r \in RoundIds : \A q \in RoundIds : q <= r

\* The random value chunk k of tier t is bound to: what CURRENT or NEXT holds
\* or, once the chunk has left both, what its published proofs carry.
bound_master(t, k) ==
    LET proofs == {revealed_seeds[t][r] : r \in RoundIds} \ {None}
        chunks == {seed_chunks[t], seed_chunks_next[t]} \ {None}
        masters == {x.master : x \in {y \in proofs \cup chunks : y.chunk_id = k}}
    IN IF masters = {} THEN None ELSE CHOOSE m \in masters : TRUE

Oracle == INSTANCE SeedOracle WITH
    commitment <- [t \in Tiers |->
                      [k \in 0 .. (LastRound \div CHUNK_SIZE + 1) |->
                          bound_master(t, k)]],
    settled <- last_settled_rounds

\* Commitments are written once, at most one chunk ahead, and every round is
\* published in order under the commitment of its chunk.
ImplementsOracle == Oracle!Spec

=============================================================================
