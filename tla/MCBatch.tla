-------------------------------- MODULE MCBatch --------------------------------
(* Batch on a small request: two devices, three circuits.                    *)
EXTENDS Batch

CONSTANTS s1, s2, e1, e2, e3

TwoSerials == {s1, s2}

\* A circuit on both devices and one on each: the queues run empty from the last
\* to the first.
EvenList == <<e1, e2, e3>>
EvenSerials == [e \in {e1, e2, e3} |->
                   IF e = e1 THEN {s1, s2} ELSE IF e = e2 THEN {s1} ELSE {s2}]

\* One circuit for the first device and two for the second, whose queue is hidden
\* when that of the first is empty.
UnevenList == <<e1, e2, e3>>
UnevenSerials == [e \in {e1, e2, e3} |-> IF e = e1 THEN {s1} ELSE {s2}]
===============================================================================
