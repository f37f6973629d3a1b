--------------------------------- MODULE Farm ---------------------------------
(***************************************************************************)
(* The reservation protocol of the farm: the PostgreSQL tables and their   *)
(* stored procedures, the control server's calls, and every worker process *)
(* with the life cycle of the boards attached to it.                       *)
(*                                                                         *)
(* The three parties share no memory.  The control server writes a         *)
(* reservation and then calls the worker's /reserve endpoint from a thread *)
(* per row; the end of a reservation reaches the worker as a PostgreSQL    *)
(* notification; the worker reports what its boards do by overwriting      *)
(* device_status.  Each of these travels on its own.                       *)
(*                                                                         *)
(* A stored procedure is one transaction and one step, but for the two     *)
(* that make reservations: they look for boards in one statement and lend  *)
(* them in the next ones, and lock no worker meanwhile.  Time is the set   *)
(* `expired' of reservations whose `until' has passed.                     *)
(***************************************************************************)
EXTENDS Naturals, FiniteSets

CONSTANTS
    Workers, Devices, Clients,
    Host,        \* the worker a board is plugged into
    Faults,      \* what the environment of a run may do, see FaultKinds
    NoClient, NoDevice

(***************************************************************************)
(* "late_reserve": a /reserve call may reach the worker after the          *)
(*    reservation it was made for has ended.                               *)
(* "deaf": the connection of a worker's LISTEN thread may break; the thread *)
(*    dies with it (Database.py:72 is outside the try).                    *)
(* "timeout": a worker that runs may miss its heartbeats for 180 seconds.  *)
(* "hang": the handleExit of an UploadState may not return, see ExitHangs.  *)
(***************************************************************************)
FaultKinds == {"late_reserve", "deaf", "timeout", "hang"}

ASSUME HostAssumption == Host \in [Devices -> Workers]
ASSUME FaultsAssumption == Faults \subseteq FaultKinds
ASSUME NoClientAssumption == NoClient \notin Clients
ASSUME NoDeviceAssumption == NoDevice \notin Devices

VARIABLES
    (* the database *)
    worker,          \* ids of the rows of table worker
    shutting_down,   \* those rows whose shutting_down is true
    device_status,   \* status of the row of table device, or "absent"
    reservations,    \* client_id of the row of table reservations, or NoClient
    expired,         \* devices whose reservation has until < now
    found,           \* boards that a make_reservations in progress has put into res
    overtaken,       \* history: those whose worker has begun to shut down since
    (* messages *)
    calls,           \* /reserve calls sent and not yet served
    notices,         \* reservation_updates queued at the LISTEN of the host
    astray,          \* history: boards that a /reserve call has reached after its
                     \* reservation, or the end of whose reservation nobody heard
    (* worker processes *)
    up,              \* running processes
    serving,         \* those whose HTTP server answers
    listening,       \* those whose LISTEN connection is open
    unreserving,     \* the device a LISTEN thread is about to reset
    monitor,         \* the graceful shutdown thread
    (* boards, as the worker's Device objects see them *)
    dev,             \* kind of the current state, "none" without an object
    session,         \* client whose /reserve call made the current state
    stale,           \* boards with a running timer of a replaced state
    stuck            \* boards whose lock is held for ever, see ExitHangs

making == <<found, overtaken>>
db == <<worker, shutting_down, device_status, reservations, expired, making>>
news == <<notices, astray>>
process == <<up, serving, listening, monitor>>
board == <<dev, session, stale, stuck>>
vars == <<db, calls, news, process, unreserving, board>>

Status == {"available", "reserved", "await_flash_default",
           "flashing_default", "testing", "broken"}

(* "flash_default" is FlashState with the default firmware, "flash_kind"   *)
(* the state asked for until its firmware is on, "upload" UploadState.     *)
DevState == {"none", "flash_default", "testing", "ready", "flash_kind",
             "upload", "broken"}

(* The thread started for row `row' calls for device `device': the closure *)
(* reads the loop variable when it runs, so the two may differ.            *)
Calls == [row : Devices, device : Devices, client : Clients]

-----------------------------------------------------------------------------
(* The tables.                                                             *)

Hosted(w) == {d \in Devices : Host[d] = w}

Held == {d \in Devices : reservations[d] # NoClient}

\* update_device_status: raises when there is no row, else overwrites.
SetStatus(d, s) ==
    device_status' = IF device_status[d] = "absent" THEN device_status
                     ELSE [device_status EXCEPT ![d] = s]

\* Mutant: the trigger reservation_end is missing.
DeleteReservationsSilently(S) ==
    /\ reservations' = [d \in Devices |->
                          IF d \in S THEN NoClient ELSE reservations[d]]
    /\ expired' = expired \ S
    /\ overtaken' = overtaken \ S
    /\ UNCHANGED news

\* DELETE FROM reservations with its trigger: one notification per row, to
\* the connections that LISTEN now.  Only the host's own is kept: a worker
\* that does not know the serial skips the notification.
DeleteReservations(S) ==
    /\ reservations' = [d \in Devices |->
                          IF d \in S THEN NoClient ELSE reservations[d]]
    /\ expired' = expired \ S
    /\ overtaken' = overtaken \ S
    /\ notices' = [d \in Devices |->
                     IF d \in S /\ reservations[d] # NoClient /\ Host[d] \in listening
                     THEN notices[d] + 1 ELSE notices[d]]
    /\ astray' = astray \cup {d \in S : /\ reservations[d] # NoClient
                                        /\ Host[d] \in up \ listening}

\* DELETE FROM worker, which cascades to device and from there to reservations.
DeleteWorkers(W) ==
    LET gone == UNION {Hosted(w) : w \in W} IN
    /\ DeleteReservations(gone)
    /\ found' = found \ gone
    /\ device_status' = [d \in Devices |->
                           IF d \in gone THEN "absent" ELSE device_status[d]]

-----------------------------------------------------------------------------
(* The control server.                                                     *)

\* Mutants: shutting_down, or the difference between testing and available, is
\* not looked at.
EligibleInShutdown ==
    {d \in Devices : device_status[d] = "available" /\ Host[d] \in worker}
EligibleUntested ==
    {d \in Devices : /\ device_status[d] \in {"available", "testing"}
                     /\ Host[d] \in worker \ shutting_down}

\* The boards make_reservations may pick for a client.
Eligible ==
    {d \in Devices : /\ device_status[d] = "available"
                     /\ Host[d] \in worker \ shutting_down}

\* The row each notification thread reads: its own or a later one of the loop.
RowsRead(S) ==
    {g \in [S -> S] : \E order \in [S -> 1..Cardinality(S)] :
        /\ \A d, e \in S : order[d] = order[e] => d = e
        /\ \A d \in S : order[g[d]] >= order[d]}

\* Bound: a client has one /reserve call per row under way, and there are no more
\* calls than boards.
FewCalls(c, S) ==
    /\ \A call \in calls : call.client = c => call.row \notin S
    /\ Cardinality(calls) + Cardinality(S) <= Cardinality(Devices)

\* The first statement of the procedures, which fills the table res.
Find(S) ==
    /\ S # {}
    /\ S \subseteq Eligible \ found
    /\ found' = found \cup S
    /\ UNCHANGED <<worker, shutting_down, device_status, reservations, expired,
                   overtaken, calls, news, process, unreserving, board>>

\* Not enough boards, or an INSERT that meets the row of a faster procedure.
RollBack(S) ==
    /\ S # {}
    /\ S \subseteq found
    /\ found' = found \ S
    /\ overtaken' = overtaken \ S
    /\ UNCHANGED <<worker, shutting_down, device_status, reservations, expired,
                   calls, news, process, unreserving, board>>

\* Control.reserve and reserveSerials: the rest of the procedure, which does not
\* look at the worker or the status again, then the threads.  Procedures that
\* have found the same board are left to Transactions: one of them lends it.
Reserve(c, S) ==
    /\ S # {}
    /\ S \subseteq found
    /\ S \cap Held = {}
    /\ FewCalls(c, S)
    /\ found' = found \ S
    /\ device_status' = [d \in Devices |->
                           IF d \in S THEN "reserved" ELSE device_status[d]]
    /\ reservations' = [d \in Devices |-> IF d \in S THEN c ELSE reservations[d]]
    /\ \E g \in RowsRead(S) :
         calls' = calls \cup {[row |-> d, device |-> g[d], client |-> c] : d \in S}
    /\ UNCHANGED <<worker, shutting_down, expired, overtaken, news, process,
                   unreserving, board>>

\* Mutant: the board is offered again without the reset.
EndAndOffer(S) ==
    /\ S # {}
    /\ DeleteReservations(S)
    /\ device_status' = [d \in Devices |->
                           IF d \in S THEN "available" ELSE device_status[d]]
    /\ UNCHANGED <<worker, shutting_down, found, calls, process, unreserving, board>>

\* The common part of end_reservations, end_all_reservations and
\* handle_reservation_timeouts.
EndAndReset(S) ==
    /\ S # {}
    /\ DeleteReservations(S)
    /\ device_status' = [d \in Devices |->
                           IF d \in S THEN "await_flash_default" ELSE device_status[d]]
    /\ UNCHANGED <<worker, shutting_down, found, calls, process, unreserving, board>>

End(c, S) == EndAndReset({d \in S : reservations[d] = c})

HandleReservationTimeouts == EndAndReset(expired)

\* Control.clearWorkers: rows go, the status stays as it was.
ClearWorkers ==
    /\ Held # {}
    /\ DeleteReservations(Held)
    /\ UNCHANGED <<worker, shutting_down, device_status, found, calls, process,
                   unreserving, board>>

\* An hour has passed since the reservation was made or extended.
Expire(d) ==
    /\ d \in Held \ expired
    /\ expired' = expired \cup {d}
    /\ UNCHANGED <<worker, shutting_down, device_status, reservations, making,
                   calls, news, process, unreserving, board>>

Extend(c, S) ==
    LET mine == {d \in S : reservations[d] = c} IN
    /\ mine \cap expired # {}
    /\ expired' = expired \ mine
    /\ UNCHANGED <<worker, shutting_down, device_status, reservations, making,
                   calls, news, process, unreserving, board>>

\* Mutant: shutting_down kept apart from the row it belongs to.
HandleWorkerTimeoutsKeepFlag(W) ==
    /\ W # {}
    /\ W \subseteq worker
    /\ "timeout" \in Faults \/ W \cap up = {}
    /\ worker' = worker \ W
    /\ DeleteWorkers(W)
    /\ UNCHANGED <<shutting_down, calls, process, unreserving, board>>

\* Heartbeat: every worker without a heartbeat for 180 seconds is deleted.
HandleWorkerTimeouts(W) ==
    /\ W # {}
    /\ W \subseteq worker
    /\ "timeout" \in Faults \/ W \cap up = {}
    /\ worker' = worker \ W
    /\ shutting_down' = shutting_down \ W
    /\ DeleteWorkers(W)
    /\ UNCHANGED <<calls, process, unreserving, board>>

-----------------------------------------------------------------------------
(* A worker process.                                                       *)

\* Mutant: an upsert of the worker's row that keeps the rows of its devices.
StartKeepsDevices(w) ==
    /\ w \notin up
    /\ up' = up \cup {w}
    /\ worker' = worker \cup {w}
    /\ shutting_down' = shutting_down \ {w}
    /\ UNCHANGED <<device_status, reservations, expired, making, calls, news, serving,
                   listening, monitor, unreserving, board>>

\* WorkerDatabase.__init__: add_worker replaces the row left by an earlier
\* process of the same name.
Start(w) ==
    /\ w \notin up
    /\ up' = up \cup {w}
    /\ worker' = worker \cup {w}
    /\ shutting_down' = shutting_down \ {w}
    /\ DeleteWorkers({w})
    /\ UNCHANGED <<calls, serving, listening, monitor, unreserving, board>>

\* DeviceManager.handleDevEvent for an unknown serial: add_device, then the
\* Device constructor flashes the default firmware.
AddDevice(d) ==
    /\ Host[d] \in up
    /\ dev[d] = "none"
    /\ device_status' = IF device_status[d] = "absent" /\ Host[d] \notin worker
                        THEN device_status
                        ELSE [device_status EXCEPT ![d] = "flashing_default"]
    /\ dev' = [dev EXCEPT ![d] = "flash_default"]
    /\ UNCHANGED <<worker, shutting_down, reservations, expired, making, calls, news,
                   process, unreserving, session, stale, stuck>>

\* The LISTEN thread, started after the scan for boards, gets its connection.
Listen(w) ==
    /\ w \in up \ listening
    /\ listening' = listening \cup {w}
    /\ UNCHANGED <<db, calls, news, up, serving, monitor, unreserving, board>>

\* The HTTP server, started last.
Serve(w) ==
    /\ w \in up \ serving
    /\ serving' = serving \cup {w}
    /\ UNCHANGED <<db, calls, news, up, listening, monitor, unreserving, board>>

\* The LISTEN connection breaks: the iteration over
\* conn.notifies() raises and the thread ends.
ListenerDies(w) ==
    /\ "deaf" \in Faults
    /\ w \in listening
    /\ unreserving[w] = NoDevice
    /\ listening' = listening \ {w}
    /\ notices' = [d \in Devices |-> IF Host[d] = w THEN 0 ELSE notices[d]]
    /\ astray' = astray \cup {d \in Hosted(w) : notices[d] > 0}
    /\ UNCHANGED <<db, calls, up, serving, monitor, unreserving, board>>

\* The process ends.  DeviceManager.onExit asks for remove_worker, whose query
\* names a column that does not exist: it raises and the rows stay.
Stop(w) ==
    /\ w \in up
    /\ up' = up \ {w}
    /\ serving' = serving \ {w}
    /\ listening' = listening \ {w}
    /\ monitor' = [monitor EXCEPT ![w] = "off"]
    /\ unreserving' = [unreserving EXCEPT ![w] = NoDevice]
    /\ notices' = [d \in Devices |-> IF Host[d] = w THEN 0 ELSE notices[d]]
    /\ dev' = [d \in Devices |-> IF Host[d] = w THEN "none" ELSE dev[d]]
    /\ session' = [d \in Devices |-> IF Host[d] = w THEN NoClient ELSE session[d]]
    /\ stale' = stale \ Hosted(w)
    /\ stuck' = stuck \ Hosted(w)
    /\ astray' = astray \ Hosted(w)
    /\ UNCHANGED <<db, calls>>

-----------------------------------------------------------------------------
(* Boards.  Device.switch replaces the current state under the device's    *)
(* lock and does not stop the timer of a FlashState or TestState.          *)

Timed == {"flash_default", "testing"}

SwitchedFrom(d) == stale' = IF dev[d] \in Timed THEN stale \cup {d} ELSE stale

\* /reserve reaches the worker: Device.handleReserve switches whatever the
\* board is doing.
ReserveArrives(call) ==
    LET d == call.device IN
    /\ call \in calls
    /\ Host[d] \in serving
    /\ dev[d] # "none"
    /\ "late_reserve" \in Faults \/ reservations[d] = call.client
    /\ d \notin stuck
    /\ calls' = calls \ {call}
    /\ SwitchedFrom(d)
    /\ dev' = [dev EXCEPT ![d] = "flash_kind"]
    /\ session' = [session EXCEPT ![d] = call.client]
    /\ astray' = IF reservations[d] = call.client THEN astray ELSE astray \cup {d}
    /\ UNCHANGED <<db, notices, process, unreserving, stuck>>

\* The call fails or times out; send_reserve swallows the exception.
ReserveFails(call) ==
    /\ call \in calls
    /\ calls' = calls \ {call}
    /\ UNCHANGED <<db, news, process, unreserving, board>>

\* FlashState(default) uploads its firmware; TestState.__init__.
DefaultFlashed(d) ==
    /\ dev[d] = "flash_default"
    /\ dev' = [dev EXCEPT ![d] = "testing"]
    /\ SetStatus(d, "testing")
    /\ UNCHANGED <<worker, shutting_down, reservations, expired, making, calls, news,
                   process, unreserving, session, stale, stuck>>

\* TestState recognises the default firmware; ReadyState.__init__.
TestPassed(d) ==
    /\ dev[d] = "testing"
    /\ dev' = [dev EXCEPT ![d] = "ready"]
    /\ SetStatus(d, "available")
    /\ UNCHANGED <<worker, shutting_down, reservations, expired, making, calls, news,
                   process, unreserving, session, stale, stuck>>

\* The firmware of the reservation is on; UploadState starts.
KindFlashed(d) ==
    /\ dev[d] = "flash_kind"
    /\ dev' = [dev EXCEPT ![d] = "upload"]
    /\ UNCHANGED <<db, calls, news, process, unreserving, session, stale, stuck>>

\* UploadState.reboot, asked for by any client or after a read error: the
\* state is rebuilt through a FlashState.
Reboot(d) ==
    /\ dev[d] = "upload"
    /\ d \notin stuck
    /\ dev' = [dev EXCEPT ![d] = "flash_kind"]
    /\ UNCHANGED <<db, calls, news, process, unreserving, session, stale, stuck>>

\* A thread of /reboot, of /reserve, of a notification or of the shutdown leaves an
\* UploadState: handleExit joins the run thread with the device's lock held, and
\* the run thread waits for that lock to reboot.  Neither goes on.
ExitHangs(d) ==
    /\ "hang" \in Faults
    /\ dev[d] = "upload"
    /\ stuck' = stuck \cup {d}
    /\ UNCHANGED <<db, calls, news, process, unreserving, dev, session, stale>>

ToBroken(d) ==
    /\ dev' = [dev EXCEPT ![d] = "broken"]
    /\ session' = [session EXCEPT ![d] = NoClient]
    /\ SetStatus(d, "broken")
    /\ UNCHANGED <<worker, shutting_down, reservations, expired, making, calls, news,
                   process, unreserving, stuck>>

\* The timer of the current FlashState or TestState fires, or its upload fails.
TimerFires(d) ==
    /\ dev[d] \in Timed
    /\ ToBroken(d)
    /\ UNCHANGED stale

\* The upload of the reservation's firmware fails, or UploadState finds no
\* serial port.  This flash has no timer: it may also go on for ever.
KindFails(d) ==
    /\ dev[d] = "flash_kind"
    /\ ToBroken(d)
    /\ UNCHANGED stale

\* The timer of a replaced state fires: that state was never told that it is
\* switching, so it switches the board, whatever runs there now.
StaleTimer(d) ==
    /\ d \in stale \ stuck
    /\ stale' = stale \ {d}
    /\ ToBroken(d)

-----------------------------------------------------------------------------
(* The end of a reservation at the worker, and graceful shutdown.          *)

\* Device.handleUnreserve writes the status before it takes the device's lock.
\* The client id of the notification is not looked at.
UnreserveBegins(d) ==
    LET w == Host[d] IN
    /\ w \in listening
    /\ unreserving[w] = NoDevice
    /\ notices[d] > 0
    /\ dev[d] # "none"
    /\ notices' = [notices EXCEPT ![d] = @ - 1]
    /\ unreserving' = [unreserving EXCEPT ![w] = d]
    /\ SetStatus(d, "flashing_default")
    /\ UNCHANGED <<worker, shutting_down, reservations, expired, making, calls, astray,
                   process, board>>

\* Mutant: the board is not flashed.
UnreserveEndsUnflashed(w) ==
    LET d == unreserving[w] IN
    /\ d # NoDevice
    /\ d \notin stuck
    /\ unreserving' = [unreserving EXCEPT ![w] = NoDevice]
    /\ monitor' = IF monitor[w] = "wait" THEN [monitor EXCEPT ![w] = "check"]
                  ELSE monitor
    /\ UNCHANGED <<db, calls, news, up, serving, listening, board>>

\* The switch itself; handleReservationChange then wakes the shutdown thread.
UnreserveEnds(w) ==
    LET d == unreserving[w] IN
    /\ d # NoDevice
    /\ d \notin stuck
    /\ unreserving' = [unreserving EXCEPT ![w] = NoDevice]
    /\ SwitchedFrom(d)
    /\ dev' = [dev EXCEPT ![d] = "flash_default"]
    /\ session' = [session EXCEPT ![d] = NoClient]
    /\ monitor' = IF monitor[w] = "wait" THEN [monitor EXCEPT ![w] = "check"]
                  ELSE monitor
    /\ astray' = astray \ ({d} \ stale')
    /\ UNCHANGED <<db, calls, notices, up, serving, listening, stuck>>

\* has_reservations joins device and worker and never uses its argument.
HasReservations(w) == \E d \in Held : Host[d] \in worker

\* The graceful_shutdown event: shutdown_worker, then the monitor thread.
GracefulShutdown(w) ==
    /\ w \in serving
    /\ monitor[w] = "off"
    /\ monitor' = [monitor EXCEPT ![w] = "check"]
    /\ shutting_down' = shutting_down \cup ({w} \cap worker)
    /\ overtaken' = overtaken \cup (found \cap Hosted(w))
    /\ UNCHANGED <<worker, device_status, reservations, expired, found, calls, news,
                   up, serving, listening, unreserving, board>>

\* waitUntilNoReservations, up to the condition variable's wait.
MonitorChecks(w) ==
    /\ monitor[w] = "check"
    /\ monitor' = [monitor EXCEPT ![w] = IF HasReservations(w) THEN "wait" ELSE "exit"]
    /\ UNCHANGED <<db, calls, news, up, serving, listening, unreserving, board>>

\* manager.onExit: every state's handleExit, then remove_worker, which raises.
MonitorExits(w) ==
    /\ monitor[w] = "exit"
    /\ Hosted(w) \cap stuck = {}
    /\ monitor' = [monitor EXCEPT ![w] = "done"]
    /\ UNCHANGED <<db, calls, news, up, serving, listening, unreserving, board>>

-----------------------------------------------------------------------------
Init ==
    /\ worker = {} /\ shutting_down = {}
    /\ device_status = [d \in Devices |-> "absent"]
    /\ reservations = [d \in Devices |-> NoClient]
    /\ expired = {}
    /\ found = {} /\ overtaken = {}
    /\ astray = {}
    /\ calls = {}
    /\ notices = [d \in Devices |-> 0]
    /\ up = {} /\ serving = {} /\ listening = {}
    /\ unreserving = [w \in Workers |-> NoDevice]
    /\ monitor = [w \in Workers |-> "off"]
    /\ dev = [d \in Devices |-> "none"]
    /\ session = [d \in Devices |-> NoClient]
    /\ stale = {} /\ stuck = {}

ControlStep ==
    \/ \E c \in Clients, S \in SUBSET Devices :
         Reserve(c, S) \/ End(c, S) \/ Extend(c, S)
    \/ \E S \in SUBSET Devices : Find(S) \/ RollBack(S)
    \/ HandleReservationTimeouts
    \/ ClearWorkers
    \/ \E d \in Devices : Expire(d)
    \/ \E W \in SUBSET Workers : HandleWorkerTimeouts(W)

ProcessStep(w) ==
    \/ Start(w) \/ Stop(w) \/ Listen(w) \/ Serve(w) \/ ListenerDies(w)
    \/ UnreserveEnds(w)
    \/ GracefulShutdown(w) \/ MonitorChecks(w) \/ MonitorExits(w)

BoardStep(d) ==
    \/ AddDevice(d)
    \/ DefaultFlashed(d) \/ TestPassed(d) \/ KindFlashed(d) \/ Reboot(d)
    \/ ExitHangs(d)
    \/ TimerFires(d) \/ KindFails(d) \/ StaleTimer(d)
    \/ UnreserveBegins(d)

CallStep == \E call \in Calls : ReserveArrives(call) \/ ReserveFails(call)

Next ==
    \/ ControlStep
    \/ \E w \in Workers : ProcessStep(w)
    \/ \E d \in Devices : BoardStep(d)
    \/ CallStep

Spec == Init /\ [][Next]_vars

(* Fairness.  The LISTEN thread goes on as long as handleExit returns, and     *)
(* reads notifications in the order they were sent, so none waits for ever     *)
(* behind others.  The timers of FlashState (60 s) and TestState (30 s) turn a *)
(* board that hangs into a broken one.  Nothing is assumed of clients, of      *)
(* /reserve calls, of LISTEN's connection, of the shutdown or of the flash of a *)
(* reservation's firmware, which has no timer.                                 *)
Fairness ==
    /\ \A w \in Workers : WF_vars(UnreserveEnds(w))
    /\ \A d \in Devices : /\ SF_vars(UnreserveBegins(d))
                          /\ WF_vars(DefaultFlashed(d) \/ TestPassed(d) \/ TimerFires(d))

FairSpec == Spec /\ Fairness

-----------------------------------------------------------------------------
(* Properties.                                                             *)

\* Type invariant: every variable keeps its shape.
TypeOK ==
    /\ worker \in SUBSET Workers /\ shutting_down \in SUBSET worker
    /\ device_status \in [Devices -> Status \cup {"absent"}]
    /\ reservations \in [Devices -> Clients \cup {NoClient}]
    /\ expired \in SUBSET Devices
    /\ calls \in SUBSET Calls
    /\ notices \in [Devices -> Nat]
    /\ up \in SUBSET Workers /\ serving \in SUBSET up /\ listening \in SUBSET up
    /\ unreserving \in [Workers -> Devices \cup {NoDevice}]
    /\ monitor \in [Workers -> {"off", "check", "wait", "exit", "done"}]
    /\ dev \in [Devices -> DevState]
    /\ session \in [Devices -> Clients \cup {NoClient}]
    /\ stale \in SUBSET Devices /\ stuck \in SUBSET Devices
    /\ found \in SUBSET Devices /\ overtaken \in SUBSET Devices
    /\ astray \in SUBSET Devices

\* A notification that a reservation has ended never reaches a board that is
\* reserved again: it is handled before the board can be offered.  The worker
\* relies on this, because it ignores the client id of the notification.
NoticeNeverHitsHolder ==
    \A d \in Held : notices[d] = 0 /\ unreserving[Host[d]] # d

\* A reserved board is not on its way back to the pool, and its status is
\* "reserved" or "broken": what the worker writes into device_status never
\* offers a reserved board to somebody else.
HeldIsNotRecycled ==
    \A d \in Held : /\ dev[d] \notin Timed
                    /\ device_status[d] \in {"reserved", "broken"}

\* An offered board on a running worker is in ReadyState: nobody's session
\* runs on it and no reset is pending, unless a late /reserve call has reached it.
AvailableIsReady ==
    \A d \in Devices \ astray :
        device_status[d] = "available" /\ Host[d] \in up =>
            dev[d] = "ready" /\ d \notin stale

\* Whoever's state runs on a board holds its reservation, or the notification
\* that ends the session is on its way or being handled.  Only a late /reserve call
\* or a notification that nobody heard makes a session that nobody holds.
SessionIsOwned ==
    \A d \in Devices \ astray :
        dev[d] \in {"flash_kind", "upload"} =>
            \/ reservations[d] = session[d]
            \/ notices[d] > 0
            \/ unreserving[Host[d]] = d

\* A board that waits for its reset, or is still marked as reserved after its
\* reservation ended, has the notification coming that will reset it, unless the
\* worker was not listening when the reservation ended.
NoBoardForgotten ==
    \A d \in Devices \ astray :
        Host[d] \in up /\ reservations[d] = NoClient
            /\ device_status[d] \in {"reserved", "await_flash_default"} =>
                notices[d] > 0 \/ unreserving[Host[d]] = d

\* When a worker's shutdown thread stops waiting, none of its boards is
\* reserved, and none is until the process ends, but for those that a
\* make_reservations had found before shutdown_worker and lends after it.
ShutdownIsClean ==
    \A d \in Held : monitor[Host[d]] \in {"exit", "done"} => d \in overtaken

\* Action property: a client's running session is torn down by an unreserve
\* only when the client does not hold the reservation any more.
TornDownOnlyAfterEnd ==
    [][\A d \in Devices :
         dev[d] \in {"flash_kind", "upload"} /\ dev'[d] = "flash_default" =>
            reservations[d] # session[d]]_vars

\* The LISTEN thread of a board's worker waits for a lock that is never released.
ListenHangs(d) == unreserving[Host[d]] \in stuck

\* Liveness: a board whose reservation has ended is offered again or marked
\* broken, or its worker or its row goes away, unless nobody heard of the end or
\* the thread that heard of it hangs in the handleExit of an UploadState.
BoardIsRecycled ==
    \A d \in Devices :
        (device_status[d] = "await_flash_default" /\ Host[d] \in up) ~>
            \/ device_status[d] \in {"available", "broken", "absent"}
            \/ Host[d] \notin up
            \/ d \in astray \/ ListenHangs(d)

-----------------------------------------------------------------------------
(* The inductive invariant.  Its core is that a pending notification keeps  *)
(* its board out of the two states from which it could be offered again.    *)

\* A stopped process has no threads and no state objects.
DownIsEmpty ==
    /\ \A w \in Workers \ up : unreserving[w] = NoDevice /\ monitor[w] = "off"
    /\ \A d \in Devices : Host[d] \notin up => dev[d] = "none" /\ notices[d] = 0

\* A board its running worker does not know yet has no row.
UnknownHasNoRow ==
    \A d \in Devices : Host[d] \in up /\ dev[d] = "none" => device_status[d] = "absent"

\* Nothing is under way that would reset or offer the board.
Settled(d) ==
    /\ dev[d] \notin Timed
    /\ notices[d] = 0
    /\ unreserving[Host[d]] # d

HeldIsSettled ==
    \A d \in Held : /\ Settled(d)
                    /\ device_status[d] \in {"reserved", "broken"}
                    /\ Host[d] \in worker

AvailableIsSettled ==
    \A d \in Devices : device_status[d] = "available" => Settled(d) /\ d \notin Held

\* A board with a notification pending is known, idle or in use, and has one.
NoticeIsAlone ==
    /\ \A d \in Devices : notices[d] > 0 =>
          /\ dev[d] \notin Timed \cup {"none"}
          /\ notices[d] = 1
          /\ unreserving[Host[d]] # d
    /\ \A w \in Workers : unreserving[w] # NoDevice =>
          /\ Host[unreserving[w]] = w
          /\ dev[unreserving[w]] \notin Timed \cup {"none"}

ExpiredIsHeld == expired \subseteq Held

StaleIsKnown == \A d \in stale : dev[d] # "none"

\* No board of a worker can be reserved once its shutdown has begun.
ShutdownIsMarked ==
    \A w \in Workers : monitor[w] # "off" => w \notin worker \ shutting_down

\* What a procedure has found stays as it is until the procedure ends, but for the
\* timer of a replaced state; what a shutdown has overtaken is remembered.
FoundIsSettled ==
    \A d \in found : /\ Settled(d) /\ d \notin Held
                     /\ device_status[d] \in {"available", "broken"}
                     /\ Host[d] \in worker
                     /\ monitor[Host[d]] # "off" => d \in overtaken

SessionHasClient ==
    \A d \in Devices : dev[d] \in {"flash_kind", "upload"} => session[d] \in Clients

CoreInv ==
    /\ TypeOK
    /\ DownIsEmpty
    /\ UnknownHasNoRow
    /\ HeldIsSettled
    /\ AvailableIsSettled
    /\ NoticeIsAlone
    /\ ExpiredIsHeld
    /\ StaleIsKnown
    /\ SessionHasClient
    /\ ShutdownIsMarked
    /\ FoundIsSettled
    /\ ShutdownIsClean

(* The second part follows each board that is not astray.                    *)

ResetIsWritten ==
    \A d \in Devices : unreserving[Host[d]] = d =>
        device_status[d] \notin {"reserved", "await_flash_default"}

\* Only a late /reserve call replaces a state while its timer runs.
StaleIsAstray == stale \subseteq astray

IInv ==
    /\ CoreInv
    /\ SessionIsOwned
    /\ ResetIsWritten
    /\ NoBoardForgotten
    /\ AvailableIsReady
    /\ StaleIsAstray
===============================================================================
