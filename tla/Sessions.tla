------------------------------- MODULE Sessions -------------------------------
(***************************************************************************)
(* EventSender: the events a worker, or the control server, sends to one    *)
(* client over the websockets this client opens one after another.          *)
(*                                                                         *)
(* Handlers of connect and disconnect run one at a time on the event loop,  *)
(* which also runs the emits they schedule.  Every event is sent by a       *)
(* thread of its own, and every session has a timer that removes it.        *)
(***************************************************************************)
EXTENDS Naturals, FiniteSets

CONSTANTS
    Messages,     \* the events sent to the client
    MaxSockets,   \* bound: sockets the client opens
    MaxSessions,  \* bound: Session objects made, see TimerFires
    Timeouts,     \* whether the 60 seconds of a session's timer may pass
    Raises,       \* whether an emit to a socket that is gone may raise
    Overlap       \* whether the client may be back before its last disconnect is seen

ASSUME BoundsAssumption == MaxSockets \in Nat /\ MaxSessions \in Nat
ASSUME FlagsAssumption == {Timeouts, Raises, Overlap} \subseteq BOOLEAN

Sockets == 1..MaxSockets
SessionIds == 1..MaxSessions

VARIABLES
    (* the client *)
    opened,     \* number of sockets opened
    live,       \* the socket the client uses, or 0
    (* the server: EventSender and its sessions *)
    table,      \* the client's entry of sessions, or 0
    made,       \* Session objects made
    sock,       \* sock_id of each session, or 0
    queue,      \* message_queue of each session
    armed,      \* whether the timer in its timeout field runs
    stray,      \* timers that run and are in no field any more
    requeued,   \* history: messages queued again by an emit that raised, not flushed since
    (* the event loop *)
    loop,       \* what it does: the place, the socket and the session
    known,      \* sockets whose connect was handled
    closed,     \* sockets whose disconnect was handled
    tasks,      \* emits that are scheduled
    (* the threads that send *)
    pc, ref, out, to,
    (* what became of messages *)
    accepted, received, vanished, expired

clientVars == <<opened, live>>
sessionVars == <<table, made, sock, queue, armed, stray, requeued>>
loopVars == <<loop, known, closed, tasks>>
senderVars == <<pc, ref, out, to>>
fates == <<accepted, received, vanished, expired>>
vars == <<clientVars, sessionVars, loopVars, senderVars, fates>>

Idle == [at |-> "idle", sock |-> 0, session |-> 0]

-----------------------------------------------------------------------------
(* Sessions.                                                               *)

\* startSession: the client's session, made with its timer if there is none.
StartSession(i) ==
    IF table # 0
    THEN i = table /\ UNCHANGED sessionVars
    ELSE /\ made < MaxSessions
         /\ i = made + 1
         /\ table' = i /\ made' = i
         /\ armed' = [armed EXCEPT ![i] = TRUE]
         /\ UNCHANGED <<sock, queue, stray, requeued>>

\* An emit to a socket that is gone may pass unnoticed.
Emit(m, k) ==
    /\ IF k = live
       THEN received' = received \cup {m} /\ UNCHANGED vanished
       ELSE vanished' = vanished \cup {m} /\ UNCHANGED received
    /\ UNCHANGED <<accepted, expired>>

\* A session's timer ends the client's session, whichever it is by now.  The bound on
\* sessions is here: there is always one more to start.
TimerFires(i) ==
    /\ Timeouts /\ made < MaxSessions
    /\ \/ /\ armed[i]
          /\ armed' = [armed EXCEPT ![i] = FALSE]
          /\ UNCHANGED stray
       \/ /\ stray[i] > 0
          /\ stray' = [stray EXCEPT ![i] = @ - 1]
          /\ UNCHANGED armed
    /\ table' = 0
    /\ expired' = IF live = 0 /\ table # 0 THEN expired \cup queue[table] ELSE expired
    /\ UNCHANGED <<clientVars, made, sock, queue, requeued, loopVars, senderVars, accepted,
                   received, vanished>>

-----------------------------------------------------------------------------
(* Threads that send, each one message.                                    *)

\* sendSerial: an event of a device without reservation is dropped.
SendStarts(m) ==
    /\ pc[m] = "new"
    /\ \/ \E i \in SessionIds :
             /\ StartSession(i)
             /\ ref' = [ref EXCEPT ![m] = i]
             /\ pc' = [pc EXCEPT ![m] = "append"]
             /\ accepted' = accepted \cup {m}
       \/ /\ pc' = [pc EXCEPT ![m] = "done"]
          /\ UNCHANGED <<sessionVars, ref, accepted>>
    /\ UNCHANGED <<clientVars, loopVars, out, to, received, vanished, expired>>

\* Session.send
SendAppends(m) ==
    /\ pc[m] = "append"
    /\ queue' = [queue EXCEPT ![ref[m]] = @ \cup {m}]
    /\ pc' = [pc EXCEPT ![m] = "flush"]
    /\ UNCHANGED <<clientVars, table, made, sock, armed, stray, requeued, loopVars, ref, out,
                   to, fates>>

\* Mutant: the queue is read but not emptied.
SendFlushesCopy(m) ==
    /\ pc[m] = "flush"
    /\ IF queue[ref[m]] = {} \/ sock[ref[m]] = 0
       THEN /\ pc' = [pc EXCEPT ![m] = "done"]
            /\ UNCHANGED <<out, to>>
       ELSE /\ out' = [out EXCEPT ![m] = queue[ref[m]]]
            /\ to' = [to EXCEPT ![m] = sock[ref[m]]]
            /\ pc' = [pc EXCEPT ![m] = "emit"]
    /\ UNCHANGED <<clientVars, sessionVars, loopVars, ref, fates>>

\* Mutant: the missing socket is not noticed.
SendFlushesBlindly(m) ==
    /\ pc[m] = "flush"
    /\ out' = [out EXCEPT ![m] = queue[ref[m]]]
    /\ to' = [to EXCEPT ![m] = sock[ref[m]]]
    /\ queue' = [queue EXCEPT ![ref[m]] = {}]
    /\ requeued' = requeued \ queue[ref[m]]
    /\ pc' = [pc EXCEPT ![m] = "emit"]
    /\ UNCHANGED <<clientVars, table, made, sock, armed, stray, loopVars, ref, fates>>

\* Session.flush takes the queue and the socket under the lock ...
SendFlushes(m) ==
    /\ pc[m] = "flush"
    /\ IF queue[ref[m]] = {} \/ sock[ref[m]] = 0
       THEN /\ pc' = [pc EXCEPT ![m] = "done"]
            /\ UNCHANGED <<queue, requeued, out, to>>
       ELSE /\ out' = [out EXCEPT ![m] = queue[ref[m]]]
            /\ to' = [to EXCEPT ![m] = sock[ref[m]]]
            /\ queue' = [queue EXCEPT ![ref[m]] = {}]
            /\ requeued' = requeued \ queue[ref[m]]
            /\ pc' = [pc EXCEPT ![m] = "emit"]
    /\ UNCHANGED <<clientVars, table, made, sock, armed, stray, loopVars, ref, fates>>

\* Mutant: what could not be emitted is dropped.
SendEmitsOnce(m) ==
    /\ pc[m] = "emit"
    /\ \/ \E x \in out[m] :
             /\ out' = [out EXCEPT ![m] = @ \ {x}]
             /\ Emit(x, to[m]) \/ (Raises /\ to[m] # live /\ UNCHANGED fates)
             /\ UNCHANGED <<queue, requeued, pc>>
       \/ /\ out[m] = {}
          /\ pc' = [pc EXCEPT ![m] = "done"]
          /\ UNCHANGED <<queue, requeued, out, fates>>
    /\ UNCHANGED <<clientVars, table, made, sock, armed, stray, loopVars, ref, to>>

\* ... and emits without it; what raises is queued again.
SendEmits(m) ==
    /\ pc[m] = "emit"
    /\ \/ \E x \in out[m] :
             /\ out' = [out EXCEPT ![m] = @ \ {x}]
             /\ \/ /\ Emit(x, to[m])
                   /\ UNCHANGED <<queue, requeued>>
                \/ /\ Raises /\ to[m] # live
                   /\ queue' = [queue EXCEPT ![ref[m]] = @ \cup {x}]
                   /\ requeued' = requeued \cup {x}
                   /\ UNCHANGED fates
             /\ UNCHANGED pc
       \/ /\ out[m] = {}
          /\ pc' = [pc EXCEPT ![m] = "done"]
          /\ UNCHANGED <<queue, requeued, out, fates>>
    /\ UNCHANGED <<clientVars, table, made, sock, armed, stray, loopVars, ref, to>>

-----------------------------------------------------------------------------
(* The client.                                                             *)

ClientConnects ==
    /\ live = 0
    /\ opened < MaxSockets
    /\ Overlap \/ closed = 1..opened
    /\ opened' = opened + 1
    /\ live' = opened + 1
    /\ UNCHANGED <<sessionVars, loopVars, senderVars, fates>>

ClientDrops ==
    /\ live # 0
    /\ live' = 0
    /\ UNCHANGED <<opened, sessionVars, loopVars, senderVars, fates>>

-----------------------------------------------------------------------------
(* The event loop.                                                         *)

LoopUnchanged == UNCHANGED <<clientVars, senderVars>>

\* connect: addSocket starts the session ...
LoopConnects ==
    /\ loop = Idle
    /\ \E k \in 1..opened \ known, i \in SessionIds :
          /\ StartSession(i)
          /\ known' = known \cup {k}
          /\ loop' = [at |-> "set", sock |-> k, session |-> i]
    /\ LoopUnchanged
    /\ UNCHANGED <<closed, tasks, fates>>

\* ... setSocket sets its socket ...
LoopSets ==
    /\ loop.at = "set"
    /\ sock' = [sock EXCEPT ![loop.session] = loop.sock]
    /\ loop' = [loop EXCEPT !.at = "stop"]
    /\ LoopUnchanged
    /\ UNCHANGED <<table, made, queue, armed, stray, requeued, known, closed, tasks, fates>>

\* ... stops the timer in its timeout field ...
LoopStops ==
    /\ loop.at = "stop"
    /\ armed' = [armed EXCEPT ![loop.session] = FALSE]
    /\ loop' = [loop EXCEPT !.at = "flush"]
    /\ LoopUnchanged
    /\ UNCHANGED <<table, made, sock, queue, stray, requeued, known, closed, tasks, fates>>

\* Mutant: what was queued is not flushed to a new socket.
LoopLeaves ==
    /\ loop.at = "flush"
    /\ loop' = Idle
    /\ LoopUnchanged
    /\ UNCHANGED <<sessionVars, known, closed, tasks, fates>>

\* ... and flushes: on the event loop, emits are only scheduled.
LoopFlushes ==
    /\ loop.at = "flush"
    /\ tasks' = tasks \cup {<<m, sock[loop.session]>> : m \in queue[loop.session]}
    /\ queue' = [queue EXCEPT ![loop.session] = {}]
    /\ requeued' = requeued \ queue[loop.session]
    /\ loop' = Idle
    /\ LoopUnchanged
    /\ UNCHANGED <<table, made, sock, armed, stray, known, closed, fates>>

LoopEmits ==
    /\ loop = Idle
    /\ \E t \in tasks : tasks' = tasks \ {t} /\ Emit(t[1], t[2])
    /\ LoopUnchanged
    /\ UNCHANGED <<sessionVars, loop, known, closed>>

\* disconnect: removeSocket looks for the client's session, not the socket's ...
LoopDisconnects ==
    /\ loop = Idle
    /\ \E k \in known \ (closed \cup {live}) :
          /\ closed' = closed \cup {k}
          /\ loop' = IF table = 0 THEN Idle
                     ELSE [at |-> "unset", sock |-> k, session |-> table]
    /\ LoopUnchanged
    /\ UNCHANGED <<sessionVars, known, tasks, fates>>

\* ... removes whatever socket it has ...
LoopUnsets ==
    /\ loop.at = "unset"
    /\ sock' = [sock EXCEPT ![loop.session] = 0]
    /\ loop' = [loop EXCEPT !.at = "arm"]
    /\ LoopUnchanged
    /\ UNCHANGED <<table, made, queue, armed, stray, requeued, known, closed, tasks, fates>>

\* ... and starts a timer, whether or not one runs.
LoopArms ==
    /\ loop.at = "arm"
    /\ armed' = [armed EXCEPT ![loop.session] = TRUE]
    /\ stray' = IF armed[loop.session]
                THEN [stray EXCEPT ![loop.session] = @ + 1] ELSE stray
    /\ loop' = Idle
    /\ LoopUnchanged
    /\ UNCHANGED <<table, made, sock, queue, requeued, known, closed, tasks, fates>>

-----------------------------------------------------------------------------
Init ==
    /\ opened = 0 /\ live = 0
    /\ table = 0 /\ made = 0
    /\ sock = [i \in SessionIds |-> 0] /\ queue = [i \in SessionIds |-> {}]
    /\ requeued = {}
    /\ armed = [i \in SessionIds |-> FALSE] /\ stray = [i \in SessionIds |-> 0]
    /\ loop = Idle /\ known = {} /\ closed = {} /\ tasks = {}
    /\ pc = [m \in Messages |-> "new"] /\ ref = [m \in Messages |-> 0]
    /\ out = [m \in Messages |-> {}] /\ to = [m \in Messages |-> 0]
    /\ accepted = {} /\ received = {} /\ vanished = {} /\ expired = {}

LoopStep ==
    \/ LoopConnects \/ LoopSets \/ LoopStops \/ LoopFlushes \/ LoopEmits
    \/ LoopDisconnects \/ LoopUnsets \/ LoopArms

SendStep(m) == SendAppends(m) \/ SendFlushes(m) \/ SendEmits(m)

Next ==
    \/ LoopStep \/ ClientConnects \/ ClientDrops
    \/ \E m \in Messages : SendStarts(m) \/ SendStep(m)
    \/ \E i \in SessionIds : TimerFires(i)

Spec == Init /\ [][Next]_vars

(* Fairness: the event loop runs, and so do threads that have begun to send. *)
FairSpec == Spec /\ WF_vars(LoopStep) /\ \A m \in Messages : WF_vars(SendStep(m))

-----------------------------------------------------------------------------
(* Properties.                                                             *)

LoopPlaces == {"idle", "set", "stop", "flush", "unset", "arm"}

\* Type invariant; what is emitted has a socket to go to.
TypeOK ==
    /\ opened \in 0..MaxSockets /\ live \in 0..MaxSockets
    /\ table \in 0..MaxSessions /\ made \in 0..MaxSessions
    /\ sock \in [SessionIds -> 0..MaxSockets] /\ queue \in [SessionIds -> SUBSET Messages]
    /\ armed \in [SessionIds -> BOOLEAN] /\ stray \in [SessionIds -> Nat]
    /\ requeued \in SUBSET Messages
    /\ loop \in [at : LoopPlaces, sock : 0..MaxSockets, session : 0..MaxSessions]
    /\ known \in SUBSET Sockets /\ closed \in SUBSET Sockets
    /\ tasks \in SUBSET (Messages \X Sockets)
    /\ pc \in [Messages -> {"new", "append", "flush", "emit", "done"}]
    /\ ref \in [Messages -> 0..MaxSessions] /\ out \in [Messages -> SUBSET Messages]
    /\ to \in [Messages -> 0..MaxSockets] /\ \A m \in Messages : pc[m] = "emit" => to[m] # 0
    /\ accepted \in SUBSET Messages /\ received \in SUBSET Messages
    /\ vanished \in SUBSET Messages /\ expired \in SUBSET Messages

Scheduled == {t[1] : t \in tasks}

\* A message that was accepted is in a queue, on its way, or was emitted: no
\* interleaving of flushes, reconnects and timers loses one in between.
Kept ==
    \A m \in accepted :
        \/ pc[m] = "append"
        \/ \E i \in SessionIds : m \in queue[i]
        \/ \E n \in Messages : m \in out[n]
        \/ m \in Scheduled \cup received \cup vanished

\* No two flushes take the same message, and what was emitted is nowhere else, so
\* no message is emitted twice.
EmittedOnce ==
    /\ \A i, j \in SessionIds : i # j => queue[i] \cap queue[j] = {}
    /\ \A m, n \in Messages : m # n => out[m] \cap out[n] = {}
    /\ \A i \in SessionIds, n \in Messages : queue[i] \cap out[n] = {}
    /\ \A i \in SessionIds : queue[i] \cap (Scheduled \cup received \cup vanished) = {}
    /\ \A n \in Messages : out[n] \cap (Scheduled \cup received \cup vanished) = {}
    /\ Scheduled \cap (received \cup vanished) = {}
    /\ \A s, t \in tasks : s[1] = t[1] => s = t

\* The connect of the client's socket has been handled, and flushes to it no more.
Connected == live # 0 /\ live \in known /\ loop.sock # live

\* The ways a message may wait for a connected client: the session that holds it has lost
\* the client's socket, to a disconnect of an older one or to a timer, or its emit to an
\* older socket raised after the session was flushed to the new one.
Missed(m) ==
    \E i \in SessionIds : Connected /\ m \in queue[i] /\ (sock[i] # live \/ m \in requeued)

\* Liveness: a message for a client that is and stays connected reaches it, unless it was
\* emitted to a socket that was gone, the client had been away for the whole of the
\* session's time, or the message was missed.
Delivered ==
    \A m \in Messages :
        (m \in accepted /\ live # 0) ~>
            (m \in received \cup vanished \cup expired \/ live = 0 \/ Missed(m))
===============================================================================
