--------------------------- MODULE MCEngineRunner ---------------------------
(* EngineRunner on small instances: rounds 1 .. MaxRound, one or two tiers. *)
EXTENDS EngineRunner, TLC

CONSTANT MaxRound
MCRounds == 1 .. MaxRound
MCRoundsFromZero == 0 .. MaxRound

Symmetry == Permutations(Calls) \cup Permutations(Masters) \cup Permutations(Tiers)
=============================================================================
