----------------------------- MODULE UploadService -----------------------------
(***************************************************************************)
(* What a session on a board promises its client: a bitstream is refused or *)
(* accepted when it arrives; an accepted one is evaluated once and its       *)
(* result sent once; nothing of this is undone while the session lasts,      *)
(* however often the board is rebooted.                                      *)
(***************************************************************************)
CONSTANT Bitstreams
VARIABLES phase, open

Init == phase = [b \in Bitstreams |-> "unsent"] /\ open = TRUE

Move(S, from, to) ==
    /\ open /\ open' = TRUE
    /\ \A b \in S : phase[b] = from
    /\ phase' = [b \in Bitstreams |-> IF b \in S THEN to ELSE phase[b]]

Accept(b) == Move({b}, "unsent", "accepted")
Refuse(b) == Move({b}, "unsent", "refused")
Evaluated(b) == Move({b}, "accepted", "evaluated")
Deliver(S) == Move(S, "evaluated", "delivered")

Close == open /\ open' = FALSE /\ phase' = [b \in Bitstreams |-> "closed"]

Next ==
    \/ \E b \in Bitstreams : Accept(b) \/ Refuse(b) \/ Evaluated(b)
    \/ \E S \in SUBSET Bitstreams : Deliver(S)
    \/ Close

Spec == Init /\ [][Next]_<<phase, open>>
===============================================================================
