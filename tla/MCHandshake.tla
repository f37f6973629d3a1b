----------------------------- MODULE MCHandshake -----------------------------
(* Handshake with two boards on one worker.                                *)
EXTENDS Handshake, TLC

CONSTANTS b1, b2, w1, c1, c2

OneHost == [b \in {b1, b2} |-> w1]

\* For safety only: boards of the one worker, and callers, are alike.
Alike == Permutations({b1, b2}) \cup Permutations({c1, c2})
===============================================================================
