----------------------------- MODULE SeedOracle -----------------------------
(***************************************************************************)
(* What the canister promises its players about seeds, without slots,      *)
(* awaits or counters.  A chunk of seeds is committed to once, under one   *)
(* random value, and never more than one chunk ahead of the chunk the next *)
(* round belongs to; rounds are published in order, each under the         *)
(* commitment of its chunk.                                                *)
(***************************************************************************)
EXTENDS Integers

CONSTANTS Tiers, Masters, CHUNK_SIZE, LastRound, None

VARIABLES
    commitment, \* the random value a chunk of a tier is derived from, or None
    settled     \* the last round published per tier

vars == <<commitment, settled>>

ChunkOf(r) == (r - 1) \div CHUNK_SIZE
ChunkIds == 0 .. (LastRound \div CHUNK_SIZE + 1)

Init ==
    /\ commitment = [t \in Tiers |-> [k \in ChunkIds |-> None]]
    /\ settled = [t \in Tiers |-> 0]

Committed == {commitment[t][k] : t \in Tiers, k \in ChunkIds} \ {None}

\* commitment' of one chunk that had none.
Bind(t, k) ==
    /\ commitment[t][k] = None
    /\ \E m \in Masters \ Committed :
          commitment' = [commitment EXCEPT ![t][k] = m]

\* Commit to a chunk at most one ahead of the one the next round is in.
Commit(t) ==
    /\ \E k \in ChunkIds : k <= ChunkOf(settled[t] + 1) + 1 /\ Bind(t, k)
    /\ UNCHANGED settled

Settle(t) ==
    /\ settled[t] < LastRound
    /\ settled' = [settled EXCEPT ![t] = @ + 1]

\* Publish the next round under the commitment its chunk already has.
Reveal(t) ==
    /\ commitment[t][ChunkOf(settled[t] + 1)] # None
    /\ Settle(t)
    /\ UNCHANGED commitment

\* Commit to the chunk of the next round and publish that round at once.
CommitAndReveal(t) ==
    /\ Bind(t, ChunkOf(settled[t] + 1))
    /\ Settle(t)

Next == \E t \in Tiers : Commit(t) \/ Reveal(t) \/ CommitAndReveal(t)

Spec == Init /\ [][Next]_vars
=============================================================================
