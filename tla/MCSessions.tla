------------------------------ MODULE MCSessions ------------------------------
(* Sessions with two messages, two sockets and three Session objects.      *)
EXTENDS Sessions

CONSTANTS m1, m2
===============================================================================
