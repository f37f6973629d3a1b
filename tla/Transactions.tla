----------------------------- MODULE Transactions -----------------------------
(***************************************************************************)
(* The procedures that reserve boards and end reservations, statement by    *)
(* statement and row by row, as PostgreSQL runs them under READ COMMITTED:   *)
(* every statement sees what is committed when it starts, a row that another *)
(* transaction has written is waited for, and what a procedure has read into *)
(* its temporary table `res' may be old when it is used.                     *)
(*                                                                         *)
(* Farm takes each procedure as one step.  Here is when it may.            *)
(***************************************************************************)
EXTENDS Naturals, Sequences

CONSTANTS
    Boards,   \* the boards of one worker
    Clients,
    Txs,      \* database connections, one per call
    None

ASSUME NoneAssumption == None \notin Clients

VARIABLES
    device_status, reservations,  \* the rows as they are committed
    worker,  \* per board: ready, notified (it has to be flashed), or flash
    shutting_down,  \* the column of the worker's row
    overtaken,  \* history: the makes that have read it before it was set
    tx,      \* the transaction of each connection, see Begin
    spoiled  \* history: boards that a transaction has written too late, see Overtake

tables == <<device_status, reservations, worker, spoiled>>
closing == <<shutting_down, overtaken>>
vars == <<tables, closing, tx>>

Statements ==
    [make |-> <<"update", "insert">>, end |-> <<"delete", "update">>,
     timeout |-> <<"delete", "update">>, clear |-> <<"delete">>,
     drop |-> <<"remove", "delete">>, none |-> << >>]

Idle == [kind |-> "none", client |-> None, res |-> {}, seen |-> [b \in Boards |-> None],
         step |-> 0, left |-> {}, devices |-> {}, rows |-> {}, late |-> {}]

Statement(t) == IF tx[t].step = 0 THEN "none" ELSE Statements[tx[t].kind][tx[t].step]

Held == {b \in Boards : reservations[b] # None}
Present == {b \in Boards : device_status[b] # "absent"}

\* Rows are locked by the transaction that has written them, until it is over.
DeviceFree(b) == \A t \in Txs : b \notin tx[t].devices
RowFree(b) == \A t \in Txs : b \notin tx[t].rows

\* The row of a device can be referred to while another updates it, not while it goes;
\* nor does it go while a reservation that refers to it is being inserted.
KeyFree(t, b) == \A u \in Txs \ {t} : b \notin tx[u].devices \/ tx[u].kind # "drop"
Unreferred(b) == \A u \in Txs : b \notin tx[u].rows \/ tx[u].kind # "make"

-----------------------------------------------------------------------------
(* A transaction.  The first statement of a procedure fills res; seen are   *)
(* the owners of the reservations it found there.  A board that is spoiled  *)
(* is not followed any further until its worker is new.                    *)

Begin(t, kind, c, S) ==
    /\ tx[t].kind = "none"
    /\ kind \in {"clear", "drop"} \/ S \cap spoiled = {}
    /\ tx' = [tx EXCEPT ![t] =
                [Idle EXCEPT !.kind = kind, !.client = c, !.res = S,
                             !.seen = [b \in Boards |-> IF b \in S /\ kind \in {"end", "timeout"}
                                                        THEN reservations[b] ELSE None]]]
    /\ UNCHANGED <<tables, closing>>

\* make_reservations, make_specific_reservations: the row of the worker is read here,
\* and neither locked nor read again.
Make(t, c, S) ==
    /\ ~shutting_down
    /\ S # {} /\ \A b \in S : device_status[b] = "available"
    /\ Begin(t, "make", c, S)

\* end_reservations, end_all_reservations
End(t, c, S) ==
    /\ S # {} /\ \A b \in S : reservations[b] = c
    /\ Begin(t, "end", c, S)

\* handle_reservation_timeouts: any hour may be over.
Timeout(t, S) == S # {} /\ S \subseteq Held /\ Begin(t, "timeout", None, S)

\* Control.clearWorkers
Clear(t) == Held # {} /\ Begin(t, "clear", None, Boards)

\* handle_worker_timeouts, add_worker: the worker's row goes, and its boards with it.
Drop(t) == Present # {} /\ Begin(t, "drop", None, Boards)

\* The next statement starts; these are the rows it finds.
Found(t, statement) ==
    CASE statement = "insert" -> tx[t].res
      [] statement = "delete" ->
            Held \cap (IF tx[t].kind = "drop" THEN tx[t].devices ELSE tx[t].res)
      [] OTHER -> tx[t].res \cap Present

Starts(t) ==
    /\ tx[t].left = {} /\ tx[t].step < Len(Statements[tx[t].kind])
    /\ tx' = [tx EXCEPT ![t].step = @ + 1,
                        ![t].left = Found(t, Statements[tx[t].kind][tx[t].step + 1])]
    /\ UNCHANGED <<tables, closing>>

WritesDevice(t, b) ==
    /\ Statement(t) \in {"update", "remove"} /\ b \in tx[t].left /\ DeviceFree(b)
    /\ Statement(t) = "update" \/ Unreferred(b)
    /\ tx' = [tx EXCEPT ![t].left = @ \ {b}, ![t].devices = @ \cup {b}]
    /\ UNCHANGED <<tables, closing>>

DeletesRow(t, b) ==
    /\ Statement(t) = "delete" /\ b \in tx[t].left /\ RowFree(b)
    /\ tx' = [tx EXCEPT ![t].left = @ \ {b}, ![t].rows = @ \cup {b}]
    /\ UNCHANGED <<tables, closing>>

\* Mutant: a reservation that exists is replaced (ON CONFLICT DO UPDATE).
InsertsOver(t, b) ==
    /\ Statement(t) = "insert" /\ b \in tx[t].left /\ RowFree(b)
    /\ KeyFree(t, b) /\ b \in Present
    /\ tx' = [tx EXCEPT ![t].left = @ \ {b}, ![t].rows = @ \cup {b}]
    /\ UNCHANGED <<tables, closing>>

\* The key of reservations must be new, and refer to a device.
InsertsRow(t, b) ==
    /\ Statement(t) = "insert" /\ b \in tx[t].left /\ RowFree(b)
    /\ KeyFree(t, b) /\ b \in Present \ Held
    /\ tx' = [tx EXCEPT ![t].left = @ \ {b}, ![t].rows = @ \cup {b}]
    /\ UNCHANGED <<tables, closing>>

\* An exception, a deadlock that the database has found, or a connection that is lost:
\* nothing was written, and the call answers False.
RollsBack(t) ==
    /\ tx[t].kind # "none"
    /\ tx' = [tx EXCEPT ![t] = Idle]
    /\ overtaken' = overtaken \ {t}
    /\ UNCHANGED <<tables, shutting_down>>

\* The boards of M have been taken out of the pool, or put back into it, by another:
\* what the transactions of these kinds have read of them is no longer so.
Overtake(M, kinds) ==
    [t \in Txs |-> IF tx[t].kind \in kinds
                   THEN [tx[t] EXCEPT !.late = @ \cup (M \cap tx[t].res)] ELSE tx[t]]

\* Rows that t has deleted are passed over by the statements that had found them.
Vanished(t, u) ==
    CASE Statement(u) = "delete" /\ tx[t].kind # "make" -> tx[t].rows
      [] Statement(u) \in {"update", "remove"} /\ tx[t].kind = "drop" -> tx[t].devices
      [] OTHER -> {}

CommitAnd(t, notified) ==
    LET kind == tx[t].kind
        status == IF kind = "make" THEN "reserved"
                  ELSE IF kind = "drop" THEN "absent" ELSE "await_flash_default"
        owner == IF kind = "make" THEN tx[t].client ELSE None
        written == tx[t].devices \cup tx[t].rows
        others == IF kind = "make" THEN tx ELSE Overtake(written, {"make"})
    IN  /\ kind # "none" /\ tx[t].left = {} /\ tx[t].step = Len(Statements[kind])
        /\ device_status' = [b \in Boards |-> IF b \in tx[t].devices THEN status
                                              ELSE device_status[b]]
        /\ reservations' = [b \in Boards |-> IF b \in tx[t].rows THEN owner
                                             ELSE reservations[b]]
        /\ worker' = [b \in Boards |-> IF b \in notified THEN "notified" ELSE worker[b]]
        /\ spoiled' = IF kind = "drop" THEN spoiled \ written
                       ELSE spoiled \cup (tx[t].late \cap written)
        /\ tx' = [u \in Txs |-> IF u = t THEN Idle
                                ELSE [others[u] EXCEPT !.left = @ \ Vanished(t, u)]]
        /\ shutting_down' = (shutting_down /\ kind # "drop")
        /\ overtaken' = overtaken \ {t}

\* Mutant: the trigger reservation_end is missing.
CommitsSilently(t) == CommitAnd(t, {})

\* The trigger's notifications are sent with the commit.
Commits(t) == CommitAnd(t, IF tx[t].kind = "make" THEN {} ELSE tx[t].rows)

-----------------------------------------------------------------------------
(* The worker: each write of a status is a transaction of its own.         *)

Enders == {"end", "timeout", "clear", "drop"}

Does(b, from, to, status) ==
    /\ worker[b] = from /\ worker' = [worker EXCEPT ![b] = to]
    /\ DeviceFree(b)
    /\ device_status' = IF b \in Present THEN [device_status EXCEPT ![b] = status]
                        ELSE device_status
    /\ UNCHANGED <<reservations, spoiled, closing>>

\* Device.handleUnreserve, and ReadyState after the flash and the test.
Resets(b) == Does(b, "notified", "flash", "flashing_default") /\ UNCHANGED tx
Offers(b) == Does(b, "flash", "ready", "available") /\ tx' = Overtake({b}, Enders)

\* shutdown_worker; the row is locked while it goes.
ShutsDown ==
    /\ ~shutting_down
    /\ \A t \in Txs : tx[t].kind = "drop" => tx[t].step = 0
    /\ shutting_down' = TRUE
    /\ overtaken' = {t \in Txs : tx[t].kind = "make"}
    /\ UNCHANGED <<tables, tx>>

\* A worker that is new finds its boards: add_device.
Adds(b) ==
    /\ b \notin Present /\ DeviceFree(b)
    /\ device_status' = [device_status EXCEPT ![b] = "await_flash_default"]
    /\ worker' = [worker EXCEPT ![b] = "notified"]
    /\ tx' = Overtake({b}, Enders)
    /\ UNCHANGED <<reservations, spoiled, closing>>

-----------------------------------------------------------------------------
Init ==
    /\ device_status = [b \in Boards |-> "available"]
    /\ reservations = [b \in Boards |-> None]
    /\ worker = [b \in Boards |-> "ready"]
    /\ tx = [t \in Txs |-> Idle] /\ spoiled = {}
    /\ shutting_down = FALSE /\ overtaken = {}

Calls(t) ==
    \/ \E c \in Clients, S \in SUBSET Boards : Make(t, c, S) \/ End(t, c, S)
    \/ \E S \in SUBSET Boards : Timeout(t, S)
    \/ Clear(t) \/ Drop(t)

Runs(t) ==
    \/ Starts(t)
    \/ \E b \in Boards : WritesDevice(t, b) \/ DeletesRow(t, b) \/ InsertsRow(t, b)
    \/ Commits(t) \/ RollsBack(t)

WorkerStep(b) == Resets(b) \/ Offers(b) \/ Adds(b)

Next ==
    \/ \E t \in Txs : Calls(t) \/ Runs(t)
    \/ \E b \in Boards : WorkerStep(b)
    \/ ShutsDown

Spec == Init /\ [][Next]_vars

-----------------------------------------------------------------------------
(* Properties.                                                             *)

Status == {"available", "reserved", "await_flash_default", "flashing_default", "absent"}

Transaction ==
    [kind : DOMAIN Statements, client : Clients \cup {None}, res : SUBSET Boards,
     seen : [Boards -> Clients \cup {None}], step : 0..2, left : SUBSET Boards,
     devices : SUBSET Boards, rows : SUBSET Boards, late : SUBSET Boards]

\* Type invariant; no row has two writers, and a board in status reserved has a
\* reservation, or its worker has been told to reset it: it is never left in limbo.
TypeOK ==
    /\ device_status \in [Boards -> Status]
    /\ reservations \in [Boards -> Clients \cup {None}]
    /\ worker \in [Boards -> {"ready", "notified", "flash"}]
    /\ tx \in [Txs -> Transaction] /\ spoiled \in SUBSET Boards
    /\ shutting_down \in BOOLEAN /\ overtaken \in SUBSET Txs
    /\ \A t \in Txs : tx[t].left \subseteq tx[t].res
    /\ \A t, u \in Txs : t # u =>
          tx[t].devices \cap tx[u].devices = {} /\ tx[t].rows \cap tx[u].rows = {}
    /\ \A b \in Boards :
          device_status[b] = "reserved" => b \in Held \/ worker[b] = "notified"

\* A procedure that is not late does what Farm does in one step: the boards it reserves
\* are available until then, the reservations it ends are those it had found, and a board
\* that it found and another has ended meanwhile is not taken from the pool again.  A
\* worker that shuts down lends no boards, but to a make that had looked before.
Serializable ==
    [][\A t \in Txs : Commits(t) =>
          \A b \in tx[t].res \ (tx[t].late \cup spoiled) :
              /\ tx[t].kind = "make" =>
                    /\ shutting_down => t \in overtaken
                    /\ device_status[b] = "available" /\ reservations[b] = None
                    /\ device_status'[b] = "reserved" /\ reservations'[b] = tx[t].client
              /\ tx[t].kind \in {"end", "timeout"} =>
                    IF b \in tx[t].rows THEN reservations[b] = tx[t].seen[b]
                    ELSE reservations[b] = None /\ device_status[b] # "available"]_vars
===============================================================================
