------------------------------ MODULE MCTransfer ------------------------------
(* Transfer with files that are as long as a bitstream, too short and too long. *)
EXTENDS Transfer

CONSTANTS exact, flat, short, long

Lengths == [f \in {exact, flat, short, long} |->
               CASE f = short -> 1 [] f = long -> 3 [] OTHER -> 2]
===============================================================================
