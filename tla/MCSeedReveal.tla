---------------------------- MODULE MCSeedReveal ----------------------------
(* SeedReveal on small instances: several calls in flight together. *)
EXTENDS SeedReveal, TLC

CONSTANT MaxRound   \* rounds asked for: 1 .. MaxRound
MCRounds == 1 .. MaxRound
MCRoundsFromZero == 0 .. MaxRound

Symmetry == Permutations(Calls) \cup Permutations(Masters) \cup Permutations(Tiers)
=============================================================================
