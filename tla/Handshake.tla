------------------------------ MODULE Handshake ------------------------------
(***************************************************************************)
(* BaseClient: the calls that reserve, reboot and end boards, against the   *)
(* events that tell of these boards.                                       *)
(*                                                                         *)
(* Every call runs on a thread of the program, every event on a thread of   *)
(* its own.  They share the serials that are tracked, the sockets to the    *)
(* workers, and one set of serials that have yet to be initialized.        *)
(***************************************************************************)
EXTENDS Naturals, FiniteSets

CONSTANTS
    Boards, Workers,
    Host,         \* the worker of each board
    Callers,      \* threads that call the client
    Operations,   \* the calls they make
    MaxCalls,     \* bound: calls made
    MaxLosses,    \* bound: boards that fail, or whose hour is over
    MaxNews,      \* bound: devices_available events on their way
    None

ASSUME HostAssumption == IsFiniteSet(Boards) /\ Host \in [Boards -> Workers]
ASSUME NoneAssumption == None \notin Boards \cup Callers
ASSUME OperationsAssumption ==
    Operations \subseteq {"reserve", "reserveSpecific", "reboot", "end"}
ASSUME BoundsAssumption == MaxCalls \in Nat /\ MaxLosses \in Nat /\ MaxNews \in Nat

VARIABLES
    db,          \* "free", "away" with others, reserved by the client ("mine", or
                 \* "broken"), or "ended" by it, and not offered again here
    starting,    \* boards whose UploadState is on its way
    wire,        \* events on their way to the client
    news,        \* the counts of devices_available events on their way
    connection_info, worker_sockets, reservation_lock,
    awaiting_serials, woken, last_available,
    caller,      \* where each thread is in its call, and the call's locals
    calls,       \* number of calls made
    losses,      \* number of boards lost
    removals,    \* removeSerial calls that are about to close a socket
    ready,       \* history: the boards initialized since each call's request
    overwritten, \* history: calls whose awaiting_serials another call has replaced
    raced        \* history: workers whose socket was opened, closed or left in a race

system == <<db, starting, wire, news>>
tracking == <<connection_info, worker_sockets, removals, raced>>
waiting == <<awaiting_serials, woken>>
callState == <<reservation_lock, ready, overwritten>>
calling == <<caller, callState>>
vars == <<system, tracking, waiting, calling, last_available, calls, losses>>

Free == {b \in Boards : db[b] = "free"}
Held == {b \in Boards : db[b] \in {"mine", "broken"}}
Hosted(w) == {b \in Boards : Host[b] = w}

Event(e, b) == [event |-> e, serial |-> b]
Events == {"initialized", "failure", "reservation end"}

\* Events of a worker wait in its session until there is a socket.
Deliverable(e) == e.event = "reservation end" \/ worker_sockets[Host[e.serial]] = "open"

Idle == [at |-> "idle", call |-> "none", serials |-> {}, left |-> {}, amount |-> 0]
At(c, place) == caller[c].at = place

-----------------------------------------------------------------------------
(* The system, as the client sees it.                                      *)

ClientUnchanged == UNCHANGED <<tracking, waiting, calling, last_available, calls>>

Initializes(b) ==
    /\ b \in starting
    /\ starting' = starting \ {b}
    /\ wire' = wire \cup {Event("initialized", b)}
    /\ UNCHANGED <<db, news, losses>> /\ ClientUnchanged

\* The reply to a reservation is quicker than what may end it: a board that was lost
\* before the client has heard of it would be tracked for good.
Answered(b) == \A c \in Callers : At(c, "reply") => b \notin caller[c].serials

\* The bound on lost boards is here.
Lost == losses < MaxLosses /\ losses' = losses + 1

\* BrokenState: the board stays reserved.
Fails(b) ==
    /\ db[b] = "mine" /\ Answered(b) /\ Lost
    /\ db' = [db EXCEPT ![b] = "broken"]
    /\ starting' = starting \ {b}
    /\ wire' = wire \cup {Event("failure", b)}
    /\ UNCHANGED news /\ ClientUnchanged

EndReservations(S) ==
    /\ db' = [b \in Boards |-> IF b \in S THEN "ended" ELSE db[b]]
    /\ starting' = starting \ S
    /\ wire' = wire \cup {Event("reservation end", b) : b \in S}
    /\ UNCHANGED news

\* The hour is over.
ReservationEnds(b) ==
    /\ b \in Held /\ Answered(b) /\ Lost
    /\ EndReservations({b})
    /\ ClientUnchanged

\* A board of another client is back.
Freed(b) ==
    /\ db[b] = "away"
    /\ Cardinality(news) < MaxNews
    /\ db' = [db EXCEPT ![b] = "free"]
    /\ news' = news \cup {Cardinality(Free) + 1}
    /\ UNCHANGED <<starting, wire, losses>> /\ ClientUnchanged

-----------------------------------------------------------------------------
(* Calls: the availability of boards.                                      *)

\* A call of the boards S, at a place in it, with its other locals.
Begins(c, at, call, S, L, n) ==
    caller' = [caller EXCEPT ![c] =
                  [at |-> at, call |-> call, serials |-> S, left |-> L, amount |-> n]]

Move(c, place) == caller' = [caller EXCEPT ![c].at = place]

\* A call begins; the bound on their number is here.
Calls(c) == At(c, "idle") /\ calls < MaxCalls /\ calls' = calls + 1

\* A call is over, by a return or by an exception; `with' releases the lock.
Over(c) ==
    /\ caller' = [caller EXCEPT ![c] = Idle]
    /\ reservation_lock' = IF reservation_lock = c THEN None ELSE reservation_lock
    /\ overwritten' = overwritten \ {c}
    /\ ready' = [ready EXCEPT ![c] = {}]

\* reserve asks what is available, and waits if it is told to.
ReserveAsks(c) ==
    /\ "reserve" \in Operations /\ Calls(c)
    /\ \E n \in 1..Cardinality(Boards) :
          Begins(c, IF Cardinality(Free) < n THEN "counting" ELSE "lock", "reserve", {}, {}, n)
    /\ UNCHANGED <<system, tracking, waiting, callState, last_available, losses>>

\* Mutant: only a count above the amount is enough.
CountsTooFar(c) ==
    /\ At(c, "counting") /\ caller[c].amount < last_available
    /\ Move(c, "lock")
    /\ UNCHANGED <<system, tracking, waiting, callState, last_available, calls, losses>>

\* waitForAmountAvailable; its timeout raises on a thread of its own.
Counted(c) ==
    /\ At(c, "counting") /\ caller[c].amount <= last_available
    /\ Move(c, "lock")
    /\ UNCHANGED <<system, tracking, waiting, callState, last_available, calls, losses>>

HandleNews(n) ==
    /\ n \in news
    /\ news' = news \ {n}
    /\ last_available' = n
    /\ UNCHANGED <<db, starting, wire, tracking, waiting, calling, calls, losses>>

-----------------------------------------------------------------------------
(* Calls: the reservation.                                                 *)

\* The control server reserves all of S for the client.
Request(c, call, S) ==
    /\ db' = [b \in Boards |-> IF b \in S THEN "mine" ELSE db[b]]
    /\ starting' = starting \cup S
    /\ ready' = [ready EXCEPT ![c] = {}]
    /\ Begins(c, "reply", call, S, S, 0)
    /\ UNCHANGED <<wire, news, tracking, waiting, overwritten, last_available>>

\* BaseAPI.reserve, under the lock: as many boards as were asked for, or none.
Reserve(c) ==
    /\ At(c, "lock") /\ reservation_lock = None
    /\ reservation_lock' = c
    /\ \E S \in SUBSET Free :
          /\ S = {} => Cardinality(Free) < caller[c].amount
          /\ S # {} => Cardinality(S) = caller[c].amount
          /\ Request(c, "reserve", S)
    /\ UNCHANGED <<calls, losses>>

\* BaseAPI.reserveSpecific, without it.
ReserveSpecific(c) ==
    /\ "reserveSpecific" \in Operations /\ Calls(c)
    /\ \E S \in (SUBSET Free) \ {{}} : Request(c, "reserveSpecific", S)
    /\ UNCHANGED <<reservation_lock, losses>>

\* The reply is lost, or nothing was reserved: the call returns.
ReplyFails(c) ==
    /\ At(c, "reply")
    /\ Over(c)
    /\ UNCHANGED <<system, tracking, waiting, last_available, calls, losses>>

\* _addConnectionData
Reply(c) ==
    /\ At(c, "reply") /\ caller[c].serials # {}
    /\ connection_info' = connection_info \cup caller[c].serials
    /\ Move(c, "connect")
    /\ UNCHANGED <<system, worker_sockets, removals, raced, waiting, callState, last_available, calls, losses>>

\* getConnectionInfo and connectWorker, board by board: without the info, info.url()
\* raises; a socket that did not connect is kept as False.
Connect(c) ==
    /\ At(c, "connect")
    /\ \E b \in caller[c].left :
          LET w == Host[b]
              left == caller[c].left \ {b}
          IN IF b \notin connection_info
             THEN /\ Over(c)
                  /\ raced' = raced \cup {Host[x] : x \in caller[c].left}
                  /\ UNCHANGED worker_sockets
             ELSE /\ caller' = [caller EXCEPT ![c].at = IF left = {} THEN "assign" ELSE "connect",
                                              ![c].left = left]
                  /\ IF worker_sockets[w] # "none" THEN UNCHANGED worker_sockets
                     ELSE \E s \in {"open", "failed"} :
                             worker_sockets' = [worker_sockets EXCEPT ![w] = s]
                  /\ UNCHANGED <<callState, raced>>
    /\ UNCHANGED <<system, connection_info, removals, waiting, last_available, calls, losses>>

-----------------------------------------------------------------------------
(* Calls: waitUntilInitilized.                                             *)

Waits(c) == caller[c].at \in {"wait", "sleeping"}

\* The set is replaced, without the condition's lock ...
Assign(c) ==
    /\ At(c, "assign")
    /\ awaiting_serials' = caller[c].serials
    /\ overwritten' = overwritten \cup {d \in Callers \ {c} : Waits(d)}
    /\ Move(c, "wait")
    /\ UNCHANGED <<system, tracking, woken, reservation_lock, ready, last_available, calls, losses>>

Returns(c) ==
    /\ Over(c)
    /\ woken' = woken \ {c}
    /\ UNCHANGED <<system, tracking, awaiting_serials, last_available, calls, losses>>

\* ... before the call waits for it to become empty.
Wait(c) ==
    /\ At(c, "wait")
    /\ IF awaiting_serials = {} THEN Returns(c)
       ELSE /\ Move(c, "sleeping")
            /\ UNCHANGED <<system, tracking, waiting, callState,
                           last_available, calls, losses>>

Wake(c) ==
    /\ At(c, "sleeping") /\ c \in woken
    /\ IF awaiting_serials = {} THEN Returns(c)
       ELSE /\ woken' = woken \ {c}
            /\ UNCHANGED <<system, tracking, awaiting_serials, calling,
                           last_available, calls, losses>>

\* Only reboot is given a timeout.
TimesOut(c) ==
    /\ At(c, "sleeping") /\ caller[c].call = "reboot"
    /\ Returns(c)

Discard(b, left, threads) ==
    /\ Event("initialized", b) \in wire /\ Deliverable(Event("initialized", b))
    /\ wire' = wire \ {Event("initialized", b)}
    /\ awaiting_serials' = left
    /\ woken' = IF left = {} THEN threads ELSE woken
    /\ ready' = [c \in Callers |-> ready[c] \cup ({b} \cap caller[c].serials)]
    /\ UNCHANGED <<db, starting, news, tracking, caller, reservation_lock, overwritten,
                   last_available, calls, losses>>

Sleepers == {c \in Callers : At(c, "sleeping")}

\* Mutant: nobody is woken.
HandleQuietly(b) == Discard(b, awaiting_serials \ {b}, woken)

\* Mutant: a thread that has yet to wait is woken, too.
HandleForAll(b) == Discard(b, awaiting_serials \ {b}, Callers)

\* Mutant: the first event is taken for all.
HandleAny(b) == Discard(b, {}, Sleepers)

HandleInitialization(b) == Discard(b, awaiting_serials \ {b}, Sleepers)

-----------------------------------------------------------------------------
(* Calls: reboot and end.                                                  *)

\* The control server has the boards rebooted one after the other, as far as it can.
Reboot(c) ==
    /\ "reboot" \in Operations /\ Calls(c)
    /\ \E S \in SUBSET connection_info \ {{}} :
          /\ Begins(c, "assign", "reboot", S, {}, 0)
          /\ \E R \in SUBSET {b \in S : db[b] = "mine"} : starting' = starting \cup R
    /\ UNCHANGED <<db, wire, news, tracking, waiting, callState, last_available, losses>>

\* end, endAll
End(c) ==
    /\ "end" \in Operations /\ Calls(c)
    /\ \E S \in SUBSET {b \in Held : Answered(b)} \ {{}} :
          /\ EndReservations(S)
          /\ Begins(c, "ended", "end", {}, S, 0)
    /\ UNCHANGED <<tracking, waiting, callState, last_available, losses>>

\* The reply is lost: the boards are left to their events.
EndFails(c) ==
    /\ At(c, "ended")
    /\ Over(c)
    /\ UNCHANGED <<system, tracking, waiting, last_available, calls, losses>>

-----------------------------------------------------------------------------
(* removeSerial, by the caller of end or by an event's thread.             *)

Untrack(by, b, left, used) ==
    /\ connection_info' = left
    /\ removals' = IF b \in connection_info /\ ~used
                   THEN removals \cup {[by |-> by, serial |-> b]} ELSE removals

\* Mutant: the board stays tracked.
RemoveNot(by, b) ==
    Untrack(by, b, connection_info, (connection_info \ {b}) \cap Hosted(Host[b]) # {})

\* Mutant: usingConnection is asked before the board is removed.
RemoveLater(by, b) ==
    Untrack(by, b, connection_info \ {b}, connection_info \cap Hosted(Host[b]) # {})

\* BaseAPI.removeSerial and usingConnection: a board that is not tracked is done with,
\* and a socket that no other board uses is about to be closed.
Remove(by, b) ==
    Untrack(by, b, connection_info \ {b}, (connection_info \ {b}) \cap Hosted(Host[b]) # {})

EndRemoves(c) ==
    /\ At(c, "ended")
    /\ \A r \in removals : r.by # c
    /\ IF caller[c].left = {}
       THEN Over(c) /\ UNCHANGED <<connection_info, removals>>
       ELSE \E b \in caller[c].left :
               /\ Remove(c, b)
               /\ caller' = [caller EXCEPT ![c].left = @ \ {b}]
               /\ UNCHANGED callState
    /\ UNCHANGED <<system, worker_sockets, raced, waiting, last_available, calls, losses>>

\* "reservation end" and "failure"
HandleRemoval(e) ==
    /\ e \in wire /\ e.event # "initialized" /\ Deliverable(e)
    /\ wire' = wire \ {e}
    /\ Remove(e.event, e.serial)
    /\ UNCHANGED <<db, starting, news, worker_sockets, raced, waiting, calling,
                   last_available, calls, losses>>

\* disconnectWorker: nothing is done for a socket that never connected.
RemovalDisconnects(r) ==
    /\ r \in removals
    /\ removals' = removals \ {r}
    /\ LET w == Host[r.serial]
       IN /\ worker_sockets' = IF worker_sockets[w] = "open"
                               THEN [worker_sockets EXCEPT ![w] = "none"] ELSE worker_sockets
          /\ raced' = IF connection_info \cap Hosted(w) = {} THEN raced ELSE raced \cup {w}
    /\ UNCHANGED <<system, connection_info, waiting, calling, last_available, calls, losses>>

-----------------------------------------------------------------------------
Init ==
    /\ db \in [Boards -> {"free", "away"}]
    /\ starting = {} /\ wire = {} /\ news = {}
    /\ connection_info = {} /\ worker_sockets = [w \in Workers |-> "none"]
    /\ reservation_lock = None /\ awaiting_serials = {} /\ woken = {}
    /\ last_available = 0
    /\ caller = [c \in Callers |-> Idle] /\ calls = 0 /\ losses = 0 /\ removals = {}
    /\ ready = [c \in Callers |-> {}] /\ overwritten = {} /\ raced = {}

CallStep(c) ==
    \/ Counted(c) \/ Reserve(c) \/ ReplyFails(c) \/ Reply(c) \/ Connect(c)
    \/ Assign(c) \/ Wait(c) \/ Wake(c) \/ EndFails(c) \/ EndRemoves(c)

EventStep ==
    \/ \E n \in news : HandleNews(n)
    \/ \E b \in Boards : HandleInitialization(b)
    \/ \E e \in wire : HandleRemoval(e)
    \/ \E r \in removals : RemovalDisconnects(r)

SystemStep(b) == Fails(b) \/ ReservationEnds(b) \/ Freed(b)

Next ==
    \/ \E b \in Boards : SystemStep(b) \/ Initializes(b)
    \/ EventStep
    \/ \E c \in Callers :
          \/ ReserveAsks(c) \/ ReserveSpecific(c) \/ Reboot(c) \/ End(c)
          \/ CallStep(c) \/ TimesOut(c)

Spec == Init /\ [][Next]_vars

(***************************************************************************)
(* Fairness: threads that are inside a call or an event go on, boards are   *)
(* set up, and events that have a socket arrive.                           *)
(***************************************************************************)
FairSpec ==
    /\ Spec
    /\ WF_vars(EventStep)
    /\ \A c \in Callers : WF_vars(CallStep(c))
    /\ \A b \in Boards : WF_vars(Initializes(b))

-----------------------------------------------------------------------------
(* Properties.                                                             *)

Places == {"idle", "counting", "lock", "reply", "connect", "assign", "wait", "sleeping", "ended"}

CallRecords == [at : Places, call : Operations \cup {"none"},
                serials : SUBSET Boards, left : SUBSET Boards, amount : Nat]

\* Type invariant; only a thread that sleeps has been woken.
TypeOK ==
    /\ db \in [Boards -> {"free", "away", "mine", "broken", "ended"}]
    /\ starting \in SUBSET Boards
    /\ wire \in SUBSET [event : Events, serial : Boards]
    /\ news \in SUBSET Nat
    /\ connection_info \in SUBSET Boards
    /\ worker_sockets \in [Workers -> {"none", "open", "failed"}]
    /\ reservation_lock \in Callers \cup {None}
    /\ awaiting_serials \in SUBSET Boards /\ woken \in SUBSET Sleepers
    /\ last_available \in Nat
    /\ caller \in [Callers -> CallRecords]
    /\ calls \in 0..MaxCalls /\ losses \in 0..MaxLosses
    /\ removals \in SUBSET [by : Callers \cup Events, serial : Boards]
    /\ ready \in [Callers -> SUBSET Boards]
    /\ overwritten \in SUBSET Callers /\ raced \in SUBSET Workers

\* When a reservation returns its boards, each has been initialized since it was asked
\* for, whatever the order of events and calls, unless a call that takes no lock has
\* replaced the set of serials.
ReadyOnReturn ==
    [][\A c \in Callers :
          (caller[c].call \in {"reserve", "reserveSpecific"} /\ Waits(c)
           /\ caller'[c].at = "idle" /\ c \notin overwritten)
          => caller[c].serials \subseteq ready[c]]_vars

\* A board whose reservation has ended, or that has failed, is tracked only until the
\* event that tells so has been handled, also when the call that ended it never returns.
EndedIsRemoved ==
    \A b \in connection_info :
        \/ db[b] = "mine"
        \/ \E e \in wire : e.serial = b /\ e.event # "initialized"

\* A socket is open only to workers with a board that is tracked, or about to be
\* removed, and no board is tracked without an attempt to connect, unless a reservation
\* ended in the middle of a call for a board of the same worker.
SocketsMatch ==
    /\ \A w \in Workers \ raced :
          worker_sockets[w] = "open" =>
              connection_info \cap Hosted(w) # {} \/ \E r \in removals : Host[r.serial] = w
    /\ \A b \in connection_info :
          \/ worker_sockets[Host[b]] # "none" \/ Host[b] \in raced
          \/ \E c \in Callers : At(c, "connect") /\ b \in caller[c].left

\* Liveness: a reservation that waits returns, unless another call has replaced the set,
\* or it still holds a board whose event came before the wait, that was lost, or whose
\* worker has no socket.
ReserveReturns ==
    \A c \in Callers :
        (At(c, "sleeping") /\ caller[c].call # "reboot") ~>
            \/ ~At(c, "sleeping") \/ c \in overwritten
            \/ \E b \in awaiting_serials :
                  b \in ready[c] \/ db[b] # "mine" \/ worker_sockets[Host[b]] # "open"

\* Liveness: a call that waits for boards goes on when enough of them are and stay free.
WaiterWakes ==
    \A c \in Callers :
        (At(c, "counting") /\ Cardinality(Free) >= caller[c].amount) ~>
            (~At(c, "counting") \/ Cardinality(Free) < caller[c].amount)
===============================================================================
