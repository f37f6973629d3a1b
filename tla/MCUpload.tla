------------------------------- MODULE MCUpload -------------------------------
(* Upload on small sessions.                                               *)
EXTENDS Upload, TLC

CONSTANTS b1, b2, b3

BitstreamSymmetry == Permutations(Bitstreams)
===============================================================================
