------------------------------ MODULE Lifecycle ------------------------------
(***************************************************************************)
(* One board at a worker, at the grain of the locks of DeviceManager,        *)
(* Device and AbstractState: the Device objects that /delete and udev make   *)
(* of it, the threads that wait for their locks, the timers, the udev        *)
(* events, and the board that changes its firmware.                        *)
(*                                                                         *)
(* All that a thread does under the lock of a Device is one step, with the  *)
(* states it switches through; only UploadState.start, which waits for the   *)
(* board under the lock, is two.                                           *)
(***************************************************************************)
EXTENDS Naturals, FiniteSets

CONSTANTS
    MaxObjects,       \* bound: Device objects made
    MaxReservations,  \* bound: reservations
    MaxFailures       \* bound: failures of a flash, and timers that are too early

ASSUME BoundsAssumption ==
    MaxObjects \in Nat \ {0} /\ MaxReservations \in Nat /\ MaxFailures \in Nat

VARIABLES
    (* the worker *)
    entry,        \* the object in _devs, or 0
    made,         \* objects made so far
    obj,          \* the state of each object
    events,       \* nodes that a dev-event-handler thread of each object is to handle
    waiting,      \* threads that found an object and want its lock
    deleting,     \* the thread of /delete, or of the scan at start; "dead" when it ends the process
    observer,     \* the thread that calls handleDevEvent is alive
    (* the board *)
    board,
    (* the database, and the messages that it causes *)
    status, reserved, call, notice,
    (* what is counted, and history *)
    reservations, failures,
    spoiled,      \* something went wrong, or an event was late, in this default flash
    crossed,      \* a /delete met a board in use, or the end of a reservation its start
    orphans       \* objects whose constructor raised: they are not in _devs

worker == <<entry, made, obj, events, waiting, deleting, observer>>
database == <<status, reserved, call, notice>>
history == <<reservations, failures, spoiled, crossed, orphans>>
vars == <<worker, board, database, history>>

Objects == 1..MaxObjects
Nodes == {"tty", "disk", "partition"}
Flashing == {"flash_default", "flash_kind"}
Timed == {"flash_default", "test"}
\* An UploadState that is "half" started has no run thread, as its port did not open; of one
\* that is "hung" a thread waits in handleExit for ever, with the lock of the Device.
Session == {"flash_kind", "connecting", "upload", "half"}
Kinds == {"none", "ready", "broken", "exited", "hung"} \cup Timed \cup Session

\* The firmware that runs, or the bootloader; on the way to one there is no node.
App == {"default", "kind"}
Moving == {"to_boot", "to_default", "to_kind"}
Present(b) == CASE b \in App -> {"tty"} [] b = "boot" -> {"disk", "partition"} [] OTHER -> {}

-----------------------------------------------------------------------------
(* States.  A view is what one thread sees and changes under an object's    *)
(* lock; `taken' are the nodes that the state has acted on, and a timer that *)
(* has fired has made its state ignore every other switch.                 *)

View(o) == [state |-> obj[o].state, taken |-> obj[o].taken, timer |-> obj[o].timer,
            stale |-> obj[o].stale, board |-> board, status |-> status,
            failures |-> failures, spoiled |-> spoiled]

Fresh == [state |-> "none", taken |-> {}, timer |-> "off", stale |-> 0]

Written(s, old) ==
    CASE s = "test" -> "testing" [] s = "ready" -> "available" [] s = "broken" -> "broken"
      [] OTHER -> old

\* Mutants: TestState has no timer; a timer is not cancelled.
BecomeUntimed(v, s) ==
    [v EXCEPT !.state = s, !.taken = {}, !.status = Written(s, @),
              !.timer = IF s = "flash_default" THEN "on" ELSE "off"]
BecomeUncancelled(v, s) ==
    [v EXCEPT !.state = s, !.taken = {}, !.status = Written(s, @),
              !.timer = IF s \in Timed THEN "on" ELSE @]

\* The constructor of a state; the timer of the one before was cancelled.
Become(v, s) ==
    [v EXCEPT !.state = s, !.taken = {}, !.status = Written(s, @),
              !.timer = IF s \in Timed THEN "on" ELSE "off"]

\* AbstractState.switch
Switch(v, s) == IF v.timer = "fired" THEN v ELSE Become(v, s)

\* Device.switch does not know of timers.
Leave(v) == [v EXCEPT !.stale = IF v.timer = "off" THEN @ ELSE @ + 1]

\* The bound on failures is here.
Failing(S) == {[v EXCEPT !.failures = @ + 1, !.spoiled = TRUE] :
                  v \in {w \in S : w.failures < MaxFailures}}
Late(v) == [v EXCEPT !.spoiled = TRUE]

Take(v, node) == [v EXCEPT !.taken = @ \cup {node}]

SendsBootloader(v) ==
    LET sent == Take(v, "tty")
    IN IF v.board \in App THEN {[sent EXCEPT !.board = "to_boot"]} \cup Failing({sent})
       ELSE {Late(sent)}

Following(s) == IF s = "flash_default" THEN "test" ELSE "connecting"
Target(s) == IF s = "flash_default" THEN "to_default" ELSE "to_kind"

\* A copy that fails raises, and the state stays; the board may have had all of it.
UploadRaises(taken) == Failing({taken, [taken EXCEPT !.board = Target(taken.state)]})

\* Mutant: when the upload fails, the timer runs on.
UploadsUncancelled(v) ==
    LET taken == Take(v, "partition")
    IN IF v.board # "boot" THEN {Late(Switch(Leave(taken), "broken"))}
       ELSE {[Switch(taken, Following(v.state)) EXCEPT !.board = Target(v.state)]}
            \cup Failing({Switch(Leave(taken), "broken")}) \cup UploadRaises(taken)

\* upload_firmware_path
Uploads(v) ==
    LET taken == Take(v, "partition")
    IN IF v.board # "boot" THEN {Late(Switch(taken, "broken"))}
       ELSE {[Switch(taken, Following(v.state)) EXCEPT !.board = Target(v.state)]}
            \cup Failing({Switch(taken, "broken")}) \cup UploadRaises(taken)

\* Mutants: any device file that can be opened passes; the timer runs on.
TestsAny(v, node) ==
    {IF node = "tty" THEN Switch(Take(v, node), "ready") ELSE Late(Take(v, node))}
TestsUncancelled(v, node) ==
    {IF node = "tty" /\ v.board = "default" THEN Switch(Leave(Take(v, node)), "ready")
     ELSE Late(Take(v, node))}

\* TestState looks at the first event only, whatever it is.
Tests(v, node) ==
    {IF node = "tty" /\ v.board = "default" THEN Switch(Take(v, node), "ready")
     ELSE Late(Take(v, node))}

\* handleAdd of the state
Add(v, node) ==
    CASE v.state \in Flashing /\ node = "tty" /\ v.taken = {} -> SendsBootloader(v)
      [] v.state \in Flashing /\ node = "partition" /\ node \notin v.taken -> Uploads(v)
      [] v.state = "test" /\ v.taken = {} -> Tests(v, node)
      [] OTHER -> {v}

\* Mutant: nothing is done until an event comes.
StartFlashBlindly(v, s) ==
    {[Become(Leave(v), s) EXCEPT !.spoiled = IF s = "flash_default" THEN FALSE ELSE @]}

\* Device.switch to a FlashState, whose start handles the files that are there.
StartFlash(v, s) ==
    LET new == [Become(Leave(v), s) EXCEPT !.spoiled = IF s = "flash_default" THEN FALSE ELSE @]
    IN CASE v.board \in App -> Add(new, "tty")
         [] v.board = "boot" -> Add(new, "partition")
         [] OTHER -> {new}

-----------------------------------------------------------------------------
(* The worker's threads.                                                   *)

Unlocked(o) == obj[o].state \notin {"connecting", "hung"}

Update(o, v) ==
    /\ obj' = [obj EXCEPT ![o] = [state |-> v.state, taken |-> v.taken,
                                  timer |-> v.timer, stale |-> v.stale]]
    /\ board' = v.board /\ status' = v.status
    /\ failures' = v.failures /\ spoiled' = v.spoiled

\* Device.handleDeviceEvent
HandleDeviceEvent(o, n) ==
    /\ n \in events[o] /\ Unlocked(o)
    /\ events' = [events EXCEPT ![o] = @ \ {n}]
    /\ \E v \in Add(View(o), n) : Update(o, v)
    /\ UNCHANGED <<entry, made, waiting, deleting, observer, reserved, call, notice,
                   reservations, crossed, orphans>>

WorkerUnchanged == UNCHANGED <<entry, made, events, waiting, deleting, observer>>
MessagesUnchanged == UNCHANGED <<reserved, call, notice, reservations, crossed, orphans>>

\* UploadState.start
ConnectSerial(o) ==
    /\ obj[o].state = "connecting" /\ board \in App
    /\ Update(o, Become(View(o), "upload"))
    /\ WorkerUnchanged /\ MessagesUnchanged

\* serial.Serial raises, which ends the thread that was to start the state.
ConnectSerialRaises(o) ==
    /\ obj[o].state = "connecting" /\ board \in App
    /\ \E v \in Failing({View(o)}) : Update(o, Become(v, "half"))
    /\ WorkerUnchanged /\ MessagesUnchanged

\* connectSerial has no retries left.
ConnectSerialFails(o) ==
    /\ obj[o].state = "connecting" /\ board \notin App
    /\ \E v \in (IF board = "boot" THEN {View(o)} ELSE Failing({View(o)})) :
          Update(o, Become(v, "broken"))
    /\ WorkerUnchanged /\ MessagesUnchanged

\* A timer is slower than the board and its events, but for a failure.
Quiet ==
    /\ board \notin Moving
    /\ \A o \in Objects : \/ obj[o].state = "hung"
                          \/ Unlocked(o) /\ events[o] = {}

\* AbstractState.switch of a timer: first the state is marked ...  The board has nothing to
\* do with the flash of an orphan.
TimerFires(o) ==
    /\ obj[o].timer = "on"
    /\ \E v \in (IF Quiet \/ o \in orphans THEN {View(o)} ELSE Failing({View(o)})) :
          Update(o, [v EXCEPT !.timer = "fired"])
    /\ WorkerUnchanged /\ MessagesUnchanged

\* ... and then the Device is switched.
TimerSwitches(o) ==
    /\ obj[o].timer = "fired"
    /\ Update(o, Become(View(o), "broken"))
    /\ WorkerUnchanged /\ MessagesUnchanged

\* The timer of a state that Device.switch has replaced.
StaleTimer(o) ==
    /\ obj[o].stale > 0 /\ Unlocked(o)
    /\ Update(o, Become([Leave(View(o)) EXCEPT !.stale = @ - 1], "broken"))
    /\ WorkerUnchanged /\ MessagesUnchanged

\* UploadState.reboot
Reboot(o) ==
    /\ obj[o].state \in {"upload", "half"} /\ o = entry
    /\ failures < MaxFailures
    /\ \E v \in StartFlash([View(o) EXCEPT !.failures = @ + 1], "flash_kind") : Update(o, v)
    /\ WorkerUnchanged /\ MessagesUnchanged

\* UploadState.handleExit joins a run thread that wants the lock for its own reboot: by a
\* thread that has waited for the lock, which waits on, or by a client that reboots.
ExitHangs(o) ==
    /\ obj[o].state = "upload" /\ failures < MaxFailures
    /\ o = entry \/ \E t \in waiting : t.object = o
    /\ Update(o, [View(o) EXCEPT !.state = "hung", !.failures = @ + 1])
    /\ WorkerUnchanged /\ MessagesUnchanged

Thread(what, o) == [what |-> what, object |-> o]

\* DeviceManager.reserve
Reserve ==
    /\ call /\ call' = FALSE
    /\ waiting' = IF entry = 0 THEN waiting ELSE waiting \cup {Thread("reserve", entry)}
    /\ UNCHANGED <<entry, made, obj, events, deleting, observer, board, status, reserved, notice,
                   history>>

\* Device.handleReserve
HandleReserve(o) ==
    /\ Thread("reserve", o) \in waiting /\ Unlocked(o)
    /\ waiting' = waiting \ {Thread("reserve", o)}
    /\ \E v \in StartFlash(View(o), "flash_kind") : Update(o, v)
    /\ UNCHANGED <<entry, made, events, deleting, observer>> /\ MessagesUnchanged

\* DeviceManager.unreserve, on the LISTEN thread, and handleUnreserve up to the lock.
Unreserve ==
    /\ notice > 0 /\ \A t \in waiting : t.what # "unreserve"
    /\ notice' = notice - 1
    /\ IF entry = 0 THEN UNCHANGED <<status, waiting>>
       ELSE /\ status' = "flashing_default"
            /\ waiting' = waiting \cup {Thread("unreserve", entry)}
    /\ UNCHANGED <<entry, made, obj, events, deleting, observer, board, reserved, call, history>>

\* A /reserve call that still waits for the lock is overtaken.
HandleUnreserve(o) ==
    /\ Thread("unreserve", o) \in waiting /\ Unlocked(o)
    /\ waiting' = waiting \ {Thread("unreserve", o)}
    /\ \E v \in StartFlash(View(o), "flash_default") : Update(o, v)
    /\ crossed' = (crossed \/ \E t \in waiting : t.what = "reserve")
    /\ UNCHANGED <<entry, made, events, deleting, observer, reserved, call, notice, reservations,
                   orphans>>

-----------------------------------------------------------------------------
(* DeviceManager.delete and handleDevEvent.                                *)

\* What the panel's button is for: a board that is broken, and that nobody has.
Deletable == obj[entry].state = "broken" /\ ~reserved /\ notice = 0 /\ waiting = {}

\* Bound: there is room for two more, of which one may be an orphan.
Delete ==
    /\ deleting = "no" /\ entry # 0 /\ made + 1 < MaxObjects
    /\ deleting' = "exit"
    /\ waiting' = waiting \cup {Thread("delete", entry)}
    /\ crossed' = (crossed \/ ~Deletable)
    /\ UNCHANGED <<entry, made, obj, events, observer, board, database, reservations, failures,
                   spoiled, orphans>>

\* Device.handleExit ends the threads of an UploadState, and of no other state.
HandleExit(o) ==
    /\ Thread("delete", o) \in waiting /\ Unlocked(o)
    /\ waiting' = waiting \ {Thread("delete", o)}
    /\ obj' = [obj EXCEPT ![o].state = IF @ \in {"upload", "half"} THEN "exited"
                                                ELSE @]
    /\ deleting' = "remove"
    /\ UNCHANGED <<entry, made, events, observer, board, database, history>>

Remove ==
    /\ deleting = "remove" /\ deleting' = "scan"
    /\ entry' = 0
    /\ UNCHANGED <<made, obj, events, waiting, observer, board, database, history>>

\* handleDevEvent for every node of a board b, which has a Device.
DevEvents(b) ==
    /\ entry # 0 /\ board' = b
    /\ events' = [events EXCEPT ![entry] = @ \cup Present(b)]
    /\ UNCHANGED <<entry, made, obj, status, failures, spoiled, orphans>>

\* A constructor whose copy raises has started the timer, and leaves its state as it is.
Raised(v) == v.state = "flash_default" /\ "partition" \in v.taken

\* handleDevEvent of a serial that is not known: the constructor of its Device flashes it,
\* and a constructor that raises keeps handleDevEvent from the rest.
NewDevice(b) ==
    LET o == made + 1
    IN /\ entry = 0 /\ made < MaxObjects /\ made' = o
       /\ \E v \in StartFlash([View(o) EXCEPT !.board = b, !.status = "flashing_default"],
                             "flash_default") :
             /\ Update(o, v)
             /\ IF Raised(v)
                THEN orphans' = orphans \cup {o} /\ UNCHANGED <<entry, events>>
                ELSE /\ entry' = o /\ UNCHANGED orphans
                     /\ events' = [events EXCEPT ![o] = @ \cup Present(b)]

\* handleDevEvent is not called.
Unheard(b) ==
    /\ board' = b
    /\ UNCHANGED <<entry, made, obj, events, status, failures, spoiled, orphans>>

\* Bound: when there is no room for a Device, no event is heard.
NoRoom == entry = 0 /\ made = MaxObjects

\* The request of /delete, or the worker that starts, ends when a constructor raises.
Scan ==
    /\ deleting = "scan"
    /\ IF Present(board) = {} \/ NoRoom THEN Unheard(board)
       ELSE DevEvents(board) \/ NewDevice(board)
    /\ deleting' = IF made = 0 /\ orphans' # orphans THEN "dead" ELSE "no"
    /\ UNCHANGED <<waiting, observer, reserved, call, notice, reservations, crossed>>

Arrived == CASE board = "to_boot" -> "boot" [] board = "to_kind" -> "kind" [] OTHER -> "default"

\* The board has restarted; the observer ends when a constructor raises.
Enumerate ==
    /\ board \in Moving
    /\ IF ~observer \/ NoRoom THEN Unheard(Arrived)
       ELSE DevEvents(Arrived) \/ NewDevice(Arrived)
    /\ observer' = (observer /\ orphans' = orphans)
    /\ UNCHANGED <<waiting, deleting, reserved, call, notice, reservations, crossed>>

\* The constructor for another board raises on the observer's thread.
ObserverEnds ==
    /\ observer /\ observer' = FALSE
    /\ failures < MaxFailures /\ failures' = failures + 1
    /\ UNCHANGED <<entry, made, obj, events, waiting, deleting, board, database, reservations,
                   spoiled, crossed, orphans>>

-----------------------------------------------------------------------------
(* The database.                                                           *)

MakeReservation ==
    /\ status = "available" /\ ~reserved /\ reservations < MaxReservations
    /\ status' = "reserved" /\ reserved' = TRUE /\ call' = TRUE
    /\ reservations' = reservations + 1
    /\ UNCHANGED <<worker, board, notice, failures, spoiled, crossed, orphans>>

\* A /reserve call that is late is a matter of module Farm.
EndReservation ==
    /\ reserved
    /\ reserved' = FALSE /\ status' = "await_flash_default" /\ call' = FALSE
    /\ notice' = notice + 1
    /\ UNCHANGED <<worker, board, history>>

-----------------------------------------------------------------------------
Init ==
    /\ entry = 0 /\ made = 0 /\ obj = [o \in Objects |-> Fresh]
    /\ events = [o \in Objects |-> {}]
    /\ waiting = {} /\ deleting = "scan" /\ observer = TRUE
    /\ board \in App \cup {"boot"}
    /\ status = "await_flash_default" /\ reserved = FALSE /\ call = FALSE /\ notice = 0
    /\ reservations = 0 /\ failures = 0 /\ spoiled = FALSE /\ crossed = FALSE /\ orphans = {}

LockStep(o) ==
    \/ \E n \in Nodes : HandleDeviceEvent(o, n)
    \/ ConnectSerial(o)
    \/ TimerSwitches(o) \/ StaleTimer(o)
    \/ HandleReserve(o) \/ HandleUnreserve(o) \/ HandleExit(o)

ManagerStep == Reserve \/ Unreserve \/ Remove \/ Scan

Progress ==
    /\ deleting # "dead"
    /\ \/ \E o \in Objects : LockStep(o) \/ ConnectSerialFails(o) \/ TimerFires(o)
       \/ ManagerStep \/ Enumerate

Next ==
    \/ Progress
    \/ /\ deleting # "dead"
       /\ \/ \E o \in Objects : ConnectSerialRaises(o) \/ Reboot(o) \/ ExitHangs(o)
          \/ Delete \/ ObserverEnds \/ MakeReservation \/ EndReservation

Spec == Init /\ [][Next]_vars

(***************************************************************************)
(* Fairness: what threads, timers and the board can do by themselves goes    *)
(* on; as all of it is bounded, none of it needs fairness of its own.  Of    *)
(* clients and operators nothing is assumed.                               *)
(***************************************************************************)
FairSpec == Spec /\ WF_vars(Progress)

-----------------------------------------------------------------------------
(* Properties.                                                             *)

Status == {"await_flash_default", "flashing_default", "testing", "available", "reserved",
           "broken"}

\* Type invariant; only a state that is flashed or tested for the pool has a timer.
TypeOK ==
    /\ made \in 0..MaxObjects /\ entry \in 0..made
    /\ obj \in [Objects -> [state : Kinds, taken : SUBSET Nodes, timer : {"off", "on", "fired"},
                            stale : Nat]]
    /\ \A o \in Objects : obj[o].timer # "off" => obj[o].state \in Timed
    /\ events \in [Objects -> SUBSET Nodes]
    /\ waiting \in SUBSET [what : {"reserve", "unreserve", "delete"}, object : Objects]
    /\ deleting \in {"no", "exit", "remove", "scan", "dead"} /\ observer \in BOOLEAN
    /\ board \in App \cup Moving \cup {"boot"}
    /\ status \in Status /\ reserved \in BOOLEAN /\ call \in BOOLEAN /\ notice \in Nat
    /\ reservations \in 0..MaxReservations /\ failures \in 0..MaxFailures
    /\ spoiled \in BOOLEAN /\ crossed \in BOOLEAN /\ orphans \subseteq 1..made

\* A session runs on a board with the firmware of its kind, and a board that is ready has
\* the default firmware, whichever events were late or timers early.
RightFirmware ==
    (entry # 0 /\ ~crossed) =>
        /\ obj[entry].state = "upload" => board = "kind"
        /\ obj[entry].state = "ready" => board = "default"

\* An object can still act on the board or its status.
Acts(o) ==
    \/ obj[o].state \in Timed \cup Session
    \/ obj[o].stale > 0
    \/ \E t \in waiting : t.object = o /\ t.what # "delete"

\* After a broken board was deleted, the object that stood for it does nothing more: no
\* timer and no thread of it marks the board, flashes it, or tells a client of a failure.
\* An object whose constructor raised still marks the board as broken when its timer fires,
\* and does no more than that: it never touches the board, and no thread finds it.
OneDriver ==
    ~crossed => /\ \A o \in Objects \ ({entry} \cup orphans) : ~Acts(o)
                /\ entry \notin orphans
                /\ \A o \in orphans : /\ obj[o].state \in {"flash_default", "broken"}
                                      /\ obj[o].stale = 0 /\ events[o] = {}
                                      /\ \A t \in waiting : t.object # o

\* A board that is offered is ready, and nothing on its way changes it, but for the timer of
\* an object whose constructor raised.
AvailableIsReady ==
    (status = "available" /\ ~crossed) =>
        /\ entry # 0 /\ obj[entry].state = "ready"
        /\ \A o \in Objects \ orphans : ~Acts(o)
        /\ notice = 0 /\ deleting \notin {"exit", "remove"}

\* Liveness: a board is not left in flashing_default or testing, even when /delete hits a
\* board in the middle of a session and two objects drive it, unless the process is gone or a
\* handleExit never returns: the notification of the end has then written flashing_default,
\* and waits for the lock.
StatusSettles ==
    status \in {"flashing_default", "testing"} ~>
        \/ status \notin {"flashing_default", "testing"}
        \/ deleting = "dead" \/ \E o \in Objects : obj[o].state = "hung"

\* Liveness: the object in _devs for a board that works is ready in the end, after a scan, a
\* reservation or a /delete, unless a step fails, an event is late or nobody hears events.
HealthyIsReady ==
    (~crossed /\ IF entry = 0 THEN deleting = "scan" ELSE obj[entry].state \in Timed) ~>
        ((entry # 0 /\ obj[entry].state = "ready") \/ spoiled \/ crossed \/ ~observer)
===============================================================================
