---------------------------- MODULE MCTransactions ----------------------------
(* Transactions of a few connections on the boards of one worker.           *)
EXTENDS Transactions, TLC

CONSTANTS b1, b2, c1, c2, t1, t2

RowSymmetry == Permutations(Boards) \cup Permutations(Clients) \cup Permutations(Txs)
===============================================================================
