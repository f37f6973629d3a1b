---------------------------- MODULE Sessions_proofs ----------------------------
(***************************************************************************)
(* Proofs about Sessions: no message is lost between its queue and its      *)
(* emit, and none is emitted twice, whatever the clients, the timers and    *)
(* the threads that flush do.                                              *)
(***************************************************************************)
EXTENDS Sessions, TLAPS

USE BoundsAssumption, FlagsAssumption

Emitted == Scheduled \cup received \cup vanished

\* A message that has not been appended is nowhere.
Fresh ==
    \A m \in Messages : pc[m] \in {"new", "append"} =>
        /\ \A i \in SessionIds : m \notin queue[i]
        /\ \A n \in Messages : m \notin out[n]
        /\ m \notin Emitted
        /\ pc[m] = "new" => m \notin accepted

\* Threads that are sending, and the event loop, work on a session; the loop
\* flushes to the socket it has set.
Working ==
    /\ \A m \in Messages : pc[m] \in {"append", "flush", "emit"} => ref[m] \in SessionIds
    /\ \A m \in Messages : pc[m] # "emit" => out[m] = {}
    /\ loop.at # "idle" => loop.session \in SessionIds /\ loop.sock \in Sockets
    /\ loop.at \in {"stop", "flush"} => sock[loop.session] = loop.sock
    /\ loop.at = "idle" => loop = Idle

IInv == TypeOK /\ Fresh /\ Working /\ Kept /\ EmittedOnce

LEMMA Initially == Init => IInv
<1> SUFFICES ASSUME Init PROVE IInv
  OBVIOUS
<1>1. TypeOK
  BY DEF Init, TypeOK, Idle, LoopPlaces, Sockets, SessionIds
<1>2. Scheduled = {}
  BY DEF Init, Scheduled
<1>3. Fresh /\ Working /\ Kept /\ EmittedOnce
  BY <1>2 DEF Init, Fresh, Working, Kept, EmittedOnce, Emitted, Idle
<1> QED
  BY <1>1, <1>3 DEF IInv

\* What startSession changes.
LEMMA Started ==
    ASSUME IInv, NEW i \in SessionIds, StartSession(i)
    PROVE  /\ table' \in 0..MaxSessions /\ made' \in 0..MaxSessions
           /\ armed' \in [SessionIds -> BOOLEAN]
           /\ UNCHANGED <<sock, queue, stray, requeued>>
<1>1. CASE table # 0
  BY <1>1 DEF StartSession, IInv, TypeOK, sessionVars
<1>2. CASE table = 0
  <2>1. i = made + 1 /\ made < MaxSessions /\ table' = i /\ made' = i
    BY <1>2 DEF StartSession
  <2>2. armed' = [armed EXCEPT ![i] = TRUE] /\ UNCHANGED <<sock, queue, stray, requeued>>
    BY <1>2 DEF StartSession
  <2> QED
    BY <2>1, <2>2 DEF IInv, TypeOK, SessionIds
<1> QED
  BY <1>1, <1>2

\* What a step that moves no message keeps.
Still == UNCHANGED <<queue, out, tasks, received, vanished>>

LEMMA StillKeeps ==
    ASSUME IInv, Still, accepted' = accepted, UNCHANGED pc
    PROVE  Fresh' /\ Kept' /\ EmittedOnce'
BY DEF Still, IInv, Fresh, Kept, EmittedOnce, Emitted, Scheduled

LEMMA KeepsTimerFires ==
    ASSUME IInv, NEW i \in SessionIds, TimerFires(i)
    PROVE  IInv'
<1> USE DEF TimerFires, clientVars, sessionVars, loopVars, senderVars, fates
<1>1. TypeOK'
  <2>1. armed' \in [SessionIds -> BOOLEAN] /\ stray' \in [SessionIds -> Nat]
    <3>1. CASE armed' = [armed EXCEPT ![i] = FALSE] /\ stray' = stray
      BY <3>1 DEF IInv, TypeOK
    <3>2. CASE stray[i] > 0 /\ stray' = [stray EXCEPT ![i] = @ - 1] /\ armed' = armed
      <4>1. stray[i] - 1 \in Nat
        BY <3>2 DEF IInv, TypeOK
      <4> QED
        BY <3>2, <4>1 DEF IInv, TypeOK
    <3> QED
      BY <3>1, <3>2
  <2>2. expired' \in SUBSET Messages
    BY DEF IInv, TypeOK, SessionIds
  <2>3. table' \in 0..MaxSessions
    OBVIOUS
  <2> QED
    BY <2>1, <2>2, <2>3 DEF IInv, TypeOK
<1>2. Working'
  BY DEF IInv, TypeOK, Working
<1>3. Fresh' /\ Kept' /\ EmittedOnce'
  BY StillKeeps DEF Still
<1> QED
  BY <1>1, <1>2, <1>3 DEF IInv

LEMMA KeepsClientConnects ==
    ASSUME IInv, ClientConnects
    PROVE  IInv'
<1> USE DEF ClientConnects, clientVars, sessionVars, loopVars, senderVars, fates
<1>1. TypeOK'
  BY DEF IInv, TypeOK
<1>2. Working'
  BY DEF IInv, TypeOK, Working
<1>3. Fresh' /\ Kept' /\ EmittedOnce'
  BY StillKeeps DEF Still
<1> QED
  BY <1>1, <1>2, <1>3 DEF IInv

LEMMA KeepsClientDrops ==
    ASSUME IInv, ClientDrops
    PROVE  IInv'
<1> USE DEF ClientDrops, clientVars, sessionVars, loopVars, senderVars, fates
<1>1. TypeOK'
  BY DEF IInv, TypeOK, Idle, Sockets
<1>2. Working'
  BY DEF IInv, TypeOK, Working, Sockets
<1>3. Fresh' /\ Kept' /\ EmittedOnce'
  BY StillKeeps DEF Still
<1> QED
  BY <1>1, <1>2, <1>3 DEF IInv

LEMMA KeepsLoopConnects ==
    ASSUME IInv, LoopConnects
    PROVE  IInv'
<1> USE DEF LoopConnects, LoopUnchanged, clientVars, sessionVars, loopVars, senderVars, fates
<1>1. TypeOK'
  <2>1. PICK k \in 1..opened \ known, i \in SessionIds :
           /\ StartSession(i)
           /\ known' = known \cup {k}
           /\ loop' = [at |-> "set", sock |-> k, session |-> i]
    OBVIOUS
  <2>2. k \in Sockets /\ k \in 0..MaxSockets /\ i \in 0..MaxSessions
    BY DEF IInv, TypeOK, Sockets, SessionIds
  <2>3. loop' \in [at : LoopPlaces, sock : 0..MaxSockets, session : 0..MaxSessions]
    BY <2>1, <2>2 DEF LoopPlaces
  <2>4. known' \in SUBSET Sockets
    BY <2>1, <2>2 DEF IInv, TypeOK
  <2> QED
    BY <2>1, <2>3, <2>4, Started DEF IInv, TypeOK
<1>2. Working'
  BY Started DEF IInv, TypeOK, Working, Sockets
<1>3. Fresh' /\ Kept' /\ EmittedOnce'
  BY Started, StillKeeps DEF Still
<1> QED
  BY <1>1, <1>2, <1>3 DEF IInv

LEMMA KeepsLoopSets ==
    ASSUME IInv, LoopSets
    PROVE  IInv'
<1> USE DEF LoopSets, LoopUnchanged, clientVars, sessionVars, loopVars, senderVars, fates
<1>1. TypeOK'
  BY DEF IInv, TypeOK, LoopPlaces
<1>2. Working'
  BY DEF IInv, TypeOK, Working, Idle
<1>3. Fresh' /\ Kept' /\ EmittedOnce'
  BY StillKeeps DEF Still
<1> QED
  BY <1>1, <1>2, <1>3 DEF IInv

LEMMA KeepsLoopStops ==
    ASSUME IInv, LoopStops
    PROVE  IInv'
<1> USE DEF LoopStops, LoopUnchanged, clientVars, sessionVars, loopVars, senderVars, fates
<1>1. TypeOK'
  BY DEF IInv, TypeOK, LoopPlaces
<1>2. Working'
  BY DEF IInv, TypeOK, Working, Idle
<1>3. Fresh' /\ Kept' /\ EmittedOnce'
  BY StillKeeps DEF Still
<1> QED
  BY <1>1, <1>2, <1>3 DEF IInv

LEMMA KeepsLoopDisconnects ==
    ASSUME IInv, LoopDisconnects
    PROVE  IInv'
<1> USE DEF LoopDisconnects, LoopUnchanged, clientVars, sessionVars, loopVars, senderVars, fates
<1>1. TypeOK'
  BY DEF IInv, TypeOK, LoopPlaces, Sockets
<1>2. Working'
  <2>1. PICK k \in known \ (closed \cup {live}) :
           loop' = IF table = 0 THEN Idle
                   ELSE [at |-> "unset", sock |-> k, session |-> table]
    OBVIOUS
  <2>2. CASE table = 0
    BY <2>1, <2>2 DEF IInv, Working
  <2>3. CASE table # 0
    <3>1. loop'.at = "unset" /\ loop'.session \in SessionIds /\ loop'.sock \in Sockets
      BY <2>1, <2>3 DEF IInv, TypeOK, SessionIds
    <3> QED
      BY <3>1 DEF IInv, Working
  <2> QED
    BY <2>2, <2>3
<1>3. Fresh' /\ Kept' /\ EmittedOnce'
  BY StillKeeps DEF Still
<1> QED
  BY <1>1, <1>2, <1>3 DEF IInv

LEMMA KeepsLoopUnsets ==
    ASSUME IInv, LoopUnsets
    PROVE  IInv'
<1> USE DEF LoopUnsets, LoopUnchanged, clientVars, sessionVars, loopVars, senderVars, fates
<1>1. TypeOK'
  <2>1. loop' \in [at : LoopPlaces, sock : 0..MaxSockets, session : 0..MaxSessions]
    BY DEF IInv, TypeOK, LoopPlaces
  <2>2. sock' \in [SessionIds -> 0..MaxSockets]
    <3>1. 0 \in 0..MaxSockets
      OBVIOUS
    <3> QED
      BY <3>1, Zenon DEF IInv, TypeOK
  <2> QED
    BY <2>1, <2>2 DEF IInv, TypeOK
<1>2. Working'
  BY DEF IInv, TypeOK, Working
<1>3. Fresh' /\ Kept' /\ EmittedOnce'
  BY StillKeeps DEF Still
<1> QED
  BY <1>1, <1>2, <1>3 DEF IInv

LEMMA KeepsLoopArms ==
    ASSUME IInv, LoopArms
    PROVE  IInv'
<1> USE DEF LoopArms, LoopUnchanged, clientVars, sessionVars, loopVars, senderVars, fates
<1>1. TypeOK'
  <2>1. loop' \in [at : LoopPlaces, sock : 0..MaxSockets, session : 0..MaxSessions]
    BY DEF Idle, LoopPlaces
  <2>2. armed' \in [SessionIds -> BOOLEAN] /\ stray' \in [SessionIds -> Nat]
    <3>1. loop.session \in SessionIds /\ stray[loop.session] + 1 \in Nat
      BY DEF IInv, TypeOK, Working
    <3>2. armed' \in [SessionIds -> BOOLEAN]
      BY <3>1 DEF IInv, TypeOK
    <3> QED
      BY <3>1, <3>2 DEF IInv, TypeOK
  <2> QED
    BY <2>1, <2>2 DEF IInv, TypeOK
<1>2. Working'
  BY DEF IInv, TypeOK, Working, Idle
<1>3. Fresh' /\ Kept' /\ EmittedOnce'
  BY StillKeeps DEF Still
<1> QED
  BY <1>1, <1>2, <1>3 DEF IInv

\* The event loop takes a whole queue and schedules it.
LEMMA KeepsLoopFlushes ==
    ASSUME IInv, LoopFlushes
    PROVE  IInv'
<1> USE DEF LoopFlushes, LoopUnchanged, clientVars, sessionVars, loopVars, senderVars, fates
<1>1. TypeOK'
  BY DEF IInv, TypeOK, Idle, LoopPlaces, Working
<1>2. Working'
  BY DEF IInv, TypeOK, Working, Idle
<1>0. /\ loop.session \in SessionIds
      /\ Scheduled' = Scheduled \cup queue[loop.session]
  <2>1. loop.session \in SessionIds
    BY DEF IInv, Working
  <2> DEFINE new == {<<m, sock[loop.session]>> : m \in queue[loop.session]}
  <2>2. {t[1] : t \in new} = queue[loop.session]
    <3>1. \A t \in new : t[1] \in queue[loop.session]
      OBVIOUS
    <3>2. \A m \in queue[loop.session] : \E t \in new : t[1] = m
      <4>1. TAKE m \in queue[loop.session]
      <4>2. <<m, sock[loop.session]>> \in new
        OBVIOUS
      <4> QED
        BY <4>2
    <3>3. \A x : x \in {t[1] : t \in new} <=> x \in queue[loop.session]
      BY <3>1, <3>2
    <3> QED
      BY <3>3
  <2>3. {t[1] : t \in tasks \cup new} = {t[1] : t \in tasks} \cup {t[1] : t \in new}
    OBVIOUS
  <2> QED
    BY <2>1, <2>2, <2>3 DEF Scheduled
<1>3. Fresh'
  BY DEF IInv, Fresh, Working, Emitted, Scheduled
<1>4. Kept'
  BY <1>0 DEF IInv, Kept
<1>5. EmittedOnce'
  BY DEF IInv, TypeOK, EmittedOnce, Working, Scheduled
<1> QED
  BY <1>1, <1>2, <1>3, <1>4, <1>5 DEF IInv

\* A scheduled emit is done once.
LEMMA KeepsLoopEmits ==
    ASSUME IInv, LoopEmits
    PROVE  IInv'
<1> USE DEF LoopEmits, LoopUnchanged, Emit, clientVars, sessionVars, loopVars, senderVars, fates
<1>1. TypeOK'
  <2>1. PICK t \in tasks : tasks' = tasks \ {t} /\ Emit(t[1], t[2])
    OBVIOUS
  <2>2. t[1] \in Messages
    BY <2>1 DEF IInv, TypeOK
  <2>3. received' \in SUBSET Messages /\ vanished' \in SUBSET Messages
    BY <2>1, <2>2 DEF IInv, TypeOK
  <2> QED
    BY <2>1, <2>3 DEF IInv, TypeOK
<1>2. Working'
  BY DEF IInv, TypeOK, Working
<1>3. Fresh'
  BY DEF IInv, Fresh, Emitted, Scheduled
<1>4. Kept'
  BY DEF IInv, Kept, Working, Scheduled
<1>5. EmittedOnce'
  BY DEF IInv, EmittedOnce, Emitted, Scheduled
<1> QED
  BY <1>1, <1>2, <1>3, <1>4, <1>5 DEF IInv

LEMMA KeepsSendStarts ==
    ASSUME IInv, NEW m \in Messages, SendStarts(m)
    PROVE  IInv'
<1> USE DEF SendStarts, clientVars, sessionVars, loopVars, senderVars, fates
<1>1. TypeOK'
  <2>1. /\ pc' \in [Messages -> {"new", "append", "flush", "emit", "done"}]
        /\ \A n \in Messages : pc'[n] = "emit" => pc[n] = "emit"
        /\ ref' \in [Messages -> 0..MaxSessions] /\ accepted' \in SUBSET Messages
    <3>1. CASE \E i \in SessionIds : /\ ref' = [ref EXCEPT ![m] = i]
                                     /\ pc' = [pc EXCEPT ![m] = "append"]
                                     /\ accepted' = accepted \cup {m}
      BY <3>1 DEF IInv, TypeOK, SessionIds
    <3>2. CASE pc' = [pc EXCEPT ![m] = "done"] /\ UNCHANGED <<ref, accepted>>
      BY <3>2 DEF IInv, TypeOK
    <3> QED
      BY <3>1, <3>2
  <2> QED
    BY <2>1, Started DEF IInv, TypeOK
<1>2. Working'
  BY Started DEF IInv, TypeOK, Working
<1>3. Fresh'
  BY Started DEF IInv, TypeOK, Fresh, Emitted, Scheduled
<1>4. Kept'
  BY Started DEF IInv, TypeOK, Kept, Working, Scheduled
<1>5. EmittedOnce'
  BY Started DEF IInv, TypeOK, EmittedOnce, Emitted, Scheduled
<1> QED
  BY <1>1, <1>2, <1>3, <1>4, <1>5 DEF IInv

\* A message enters one queue.
LEMMA KeepsSendAppends ==
    ASSUME IInv, NEW m \in Messages, SendAppends(m)
    PROVE  IInv'
<1> USE DEF SendAppends, clientVars, sessionVars, loopVars, senderVars, fates
<1>1. TypeOK'
  BY DEF IInv, TypeOK
<1>2. Working'
  BY DEF IInv, TypeOK, Working
<1>3. Fresh'
  BY DEF IInv, TypeOK, Fresh, Emitted, Scheduled
<1>4. Kept'
  BY DEF IInv, TypeOK, Kept, Working, Scheduled
<1>5. EmittedOnce'
  BY DEF IInv, TypeOK, EmittedOnce, Fresh, Working, Emitted, Scheduled
<1> QED
  BY <1>1, <1>2, <1>3, <1>4, <1>5 DEF IInv

\* A thread takes a whole queue.
LEMMA KeepsSendFlushes ==
    ASSUME IInv, NEW m \in Messages, SendFlushes(m)
    PROVE  IInv'
<1> USE DEF SendFlushes, clientVars, sessionVars, loopVars, senderVars, fates
<1>1. TypeOK'
  <2>0. ref[m] \in SessionIds
    BY DEF IInv, Working
  <2>1. CASE queue[ref[m]] = {} \/ sock[ref[m]] = 0
    BY <2>1 DEF IInv, TypeOK
  <2>2. CASE ~(queue[ref[m]] = {} \/ sock[ref[m]] = 0)
    <3>1. /\ queue' \in [SessionIds -> SUBSET Messages]
          /\ out' \in [Messages -> SUBSET Messages] /\ to' \in [Messages -> 0..MaxSockets]
      BY <2>0, <2>2 DEF IInv, TypeOK
    <3>2. /\ pc' \in [Messages -> {"new", "append", "flush", "emit", "done"}]
          /\ \A n \in Messages : pc'[n] = "emit" => to'[n] # 0
      BY <2>0, <2>2 DEF IInv, TypeOK
    <3> QED
      BY <3>1, <3>2 DEF IInv, TypeOK
  <2> QED
    BY <2>1, <2>2
<1>2. Working'
  BY DEF IInv, TypeOK, Working
<1>3. Fresh'
  BY DEF IInv, TypeOK, Fresh, Working, Emitted, Scheduled
<1>4. Kept'
  BY DEF IInv, TypeOK, Kept, Fresh, Working, Scheduled
<1>5. EmittedOnce'
  <2>1. CASE UNCHANGED <<queue, out>>
    BY <2>1 DEF IInv, EmittedOnce, Scheduled
  <2>2. CASE /\ queue' = [queue EXCEPT ![ref[m]] = {}]
             /\ out' = [out EXCEPT ![m] = queue[ref[m]]]
    <3>1. ref[m] \in SessionIds /\ out[m] = {} /\ Scheduled' = Scheduled
      BY DEF IInv, Working, Scheduled
    <3> QED
      BY <2>2, <3>1 DEF IInv, TypeOK, EmittedOnce
  <2> QED
    BY <2>1, <2>2
<1> QED
  BY <1>1, <1>2, <1>3, <1>4, <1>5 DEF IInv

\* What a thread emits is received or vanishes, or goes back to a queue.
LEMMA KeepsSendEmits ==
    ASSUME IInv, NEW m \in Messages, SendEmits(m)
    PROVE  IInv'
<1> USE DEF SendEmits, Emit, clientVars, sessionVars, loopVars, senderVars, fates
<1>1. TypeOK'
  <2>1. /\ queue' \in [SessionIds -> SUBSET Messages] /\ out' \in [Messages -> SUBSET Messages]
    BY DEF IInv, TypeOK
  <2>2. /\ pc' \in [Messages -> {"new", "append", "flush", "emit", "done"}]
        /\ \A n \in Messages : pc'[n] = "emit" => pc[n] = "emit"
    BY DEF IInv, TypeOK
  <2>3. /\ accepted' = accepted /\ expired' = expired
        /\ received' \in SUBSET Messages /\ vanished' \in SUBSET Messages
    BY DEF IInv, TypeOK
  <2> QED
    BY <2>1, <2>2, <2>3 DEF IInv, TypeOK
<1>2. Working'
  BY DEF IInv, TypeOK, Working
<1>3. Fresh'
  BY DEF IInv, TypeOK, Fresh, Emitted, Scheduled
<1>4. Kept'
  BY DEF IInv, TypeOK, Kept, Working, Scheduled
<1>5. EmittedOnce'
  <2>0. ref[m] \in SessionIds /\ Scheduled' = Scheduled
    BY DEF IInv, Working, Scheduled
  <2>1. ASSUME NEW x \in out[m], out' = [out EXCEPT ![m] = @ \ {x}], Emit(x, to[m]),
               queue' = queue
        PROVE  EmittedOnce'
    BY <2>0, <2>1 DEF IInv, TypeOK, EmittedOnce
  <2>2. ASSUME NEW x \in out[m], out' = [out EXCEPT ![m] = @ \ {x}],
               queue' = [queue EXCEPT ![ref[m]] = @ \cup {x}],
               received' = received, vanished' = vanished
        PROVE  EmittedOnce'
    BY <2>0, <2>2 DEF IInv, TypeOK, EmittedOnce
  <2>3. CASE UNCHANGED <<queue, out, fates>>
    BY <2>0, <2>3 DEF IInv, EmittedOnce
  <2> QED
    BY <2>1, <2>2, <2>3
<1> QED
  BY <1>1, <1>2, <1>3, <1>4, <1>5 DEF IInv

LEMMA Stutters == IInv /\ UNCHANGED vars => IInv'
<1> SUFFICES ASSUME IInv, UNCHANGED vars PROVE IInv'
  OBVIOUS
<1> USE DEF vars, clientVars, sessionVars, loopVars, senderVars, fates
<1>1. TypeOK' /\ Working'
  BY DEF IInv, TypeOK, Working
<1>2. Fresh' /\ Kept' /\ EmittedOnce'
  BY StillKeeps DEF Still
<1> QED
  BY <1>1, <1>2 DEF IInv

\* Every step preserves the invariant.
LEMMA Inductive == IInv /\ [Next]_vars => IInv'
BY Stutters, KeepsTimerFires, KeepsClientConnects, KeepsClientDrops, KeepsLoopConnects,
   KeepsLoopSets, KeepsLoopStops, KeepsLoopDisconnects, KeepsLoopUnsets, KeepsLoopArms,
   KeepsLoopFlushes, KeepsLoopEmits, KeepsSendStarts, KeepsSendAppends, KeepsSendFlushes,
   KeepsSendEmits
   DEF Next, LoopStep, SendStep

\* The handlers, threads and timers of EventSender keep the invariant.
THEOREM Invariance == Spec => []IInv
BY Initially, Inductive, PTL DEF Spec

\* The variables of an EventSender keep their types, and what is emitted has a
\* socket to go to.
THEOREM Types == Spec => []TypeOK
<1>1. IInv => TypeOK
  BY DEF IInv
<1> QED
  BY <1>1, Invariance, PTL

\* Every accepted message is queued, on its way or emitted.
THEOREM NoneLost == Spec => []Kept
<1>1. IInv => Kept
  BY DEF IInv
<1> QED
  BY <1>1, Invariance, PTL

\* No message is emitted twice.
THEOREM NoneTwice == Spec => []EmittedOnce
<1>1. IInv => EmittedOnce
  BY DEF IInv
<1> QED
  BY <1>1, Invariance, PTL
===============================================================================
