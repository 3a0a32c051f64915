----------------------------- MODULE MCCanister -----------------------------
(* Canister with one tier, chunks of two rounds and two games. *)
EXTENDS Canister

CONSTANTS MaxRound, p1, p2, a1, a2

MCRounds == 1 .. MaxRound
MCPlayers == {p1, p2}
MCPlayerOf == (1 :> p1) @@ (2 :> p2)
MCOutcomes == PlayerSeeds

\* Within the points earned, and beyond them.
MCSpendings ==
    {[earned_sp |-> 2, split_aggro |-> 1, tether_res |-> 1, orb_power |-> 0],
     [earned_sp |-> 2, split_aggro |-> 1, tether_res |-> 1, orb_power |-> 1]}

Symmetry == Permutations(Masters)
=============================================================================
