------------------------------- MODULE MCFarm -------------------------------
(* A finite instance of Farm: one worker with two boards.                  *)
EXTENDS Farm, TLC

CONSTANTS w1, d1, d2, c1, c2

OneHost == [d \in {d1, d2} |-> w1]

\* Boards of the same worker may be exchanged, as clients may.
BoardSymmetry == Permutations(Clients) \cup Permutations(Devices)
=============================================================================
