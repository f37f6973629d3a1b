--------------------------- MODULE Handshake_proofs ---------------------------
(***************************************************************************)
(* Proofs about Handshake, for every set of boards, workers and threads and  *)
(* all bounds: a reservation returns boards that are initialized, boards     *)
(* that are lost are forgotten, and sockets match the boards tracked.       *)
(***************************************************************************)
EXTENDS Handshake, FiniteSetTheorems, TLAPS

USE HostAssumption, NoneAssumption, OperationsAssumption, BoundsAssumption

\* While a reply is on its way, its boards are the client's.
ReplyIsHeld ==
    \A c \in Callers : At(c, "reply") =>
        /\ caller[c].left = caller[c].serials
        /\ \A b \in caller[c].serials : db[b] = "mine"

\* Only reserve waits for boards and for the lock.
LockIsForReserve ==
    \A c \in Callers : caller[c].at \in {"counting", "lock"} => caller[c].call = "reserve"

\* A reservation waits for each of its boards, or has had its event.
Awaited ==
    \A c \in Callers :
        (caller[c].call # "reboot" /\ Waits(c) /\ c \notin overwritten) =>
            caller[c].serials \subseteq awaiting_serials \cup ready[c]

IInv == TypeOK /\ LockIsForReserve /\ ReplyIsHeld /\ Awaited /\ EndedIsRemoved /\ SocketsMatch

LEMMA EventIsTyped ==
    ASSUME NEW e \in Events, NEW b \in Boards
    PROVE  /\ Event(e, b) \in [event : Events, serial : Boards]
           /\ Event(e, b).event = e /\ Event(e, b).serial = b
BY DEF Event

LEMMA FreeIsCounted ==
    ASSUME NEW D \in SUBSET Boards
    PROVE  Cardinality(D) \in Nat
BY FS_Subset, FS_CardinalityType

LEMMA Initially == Init => IInv
<1> SUFFICES ASSUME Init PROVE IInv
  OBVIOUS
<1>1. TypeOK
  BY DEF Init, TypeOK, Idle, CallRecords, Places, Sleepers
<1>2. LockIsForReserve /\ ReplyIsHeld /\ Awaited /\ EndedIsRemoved /\ SocketsMatch
  BY DEF Init, LockIsForReserve, ReplyIsHeld, Awaited, EndedIsRemoved, SocketsMatch, At, Waits, Idle
<1> QED
  BY <1>1, <1>2 DEF IInv

\* A board that is removed leaves a socket that others use, or is about to close it.
LEMMA RemovedMatches ==
    ASSUME TypeOK, SocketsMatch, NEW b \in Boards, NEW by, Remove(by, b),
           UNCHANGED <<worker_sockets, raced>>,
           \A c \in Callers : At(c, "connect") => caller'[c] = caller[c]
    PROVE  SocketsMatch'
<1>1. /\ connection_info' = connection_info \ {b}
      /\ removals \subseteq removals'
      /\ (b \in connection_info /\ connection_info' \cap Hosted(Host[b]) = {}) =>
            \E r \in removals' : r.serial = b
  <2>1. connection_info' = connection_info \ {b}
    BY DEF Remove, Untrack
  <2>2. CASE b \in connection_info /\ (connection_info \ {b}) \cap Hosted(Host[b]) = {}
    <3>1. removals' = removals \cup {[by |-> by, serial |-> b]}
      BY <2>2 DEF Remove, Untrack
    <3>2. [by |-> by, serial |-> b] \in removals' /\ [by |-> by, serial |-> b].serial = b
      BY <3>1
    <3> QED
      BY <2>1, <3>1, <3>2
  <2>3. CASE ~(b \in connection_info /\ (connection_info \ {b}) \cap Hosted(Host[b]) = {})
    <3>1. removals' = removals
      BY <2>3 DEF Remove, Untrack
    <3> QED
      BY <2>1, <2>3, <3>1
  <2> QED
    BY <2>2, <2>3
<1>2. \A w \in Workers \ raced : worker_sockets[w] = "open" =>
          connection_info' \cap Hosted(w) # {} \/ \E r \in removals' : Host[r.serial] = w
  <2> SUFFICES ASSUME NEW w \in Workers \ raced, worker_sockets[w] = "open",
                      connection_info' \cap Hosted(w) = {}
               PROVE  \E r \in removals' : Host[r.serial] = w
    OBVIOUS
  <2>1. CASE connection_info \cap Hosted(w) = {}
    BY <1>1, <2>1 DEF SocketsMatch
  <2>2. CASE connection_info \cap Hosted(w) # {}
    <3>1. b \in connection_info /\ Host[b] = w
      BY <1>1, <2>2 DEF Hosted
    <3> QED
      BY <1>1, <3>1
  <2> QED
    BY <2>1, <2>2
<1>3. \A x \in connection_info' :
          \/ worker_sockets[Host[x]] # "none" \/ Host[x] \in raced
          \/ \E c \in Callers : caller'[c].at = "connect" /\ x \in caller'[c].left
  BY <1>1 DEF SocketsMatch, At
<1> QED
  BY <1>2, <1>3 DEF SocketsMatch, Hosted, At

\* What the end of reservations does to the boards that are lent.
LEMMA EndsTyped ==
    ASSUME TypeOK, NEW S \in SUBSET Boards, EndReservations(S)
    PROVE  /\ db' \in [Boards -> {"free", "away", "mine", "broken", "ended"}]
           /\ starting' \in SUBSET Boards
           /\ wire' \in SUBSET [event : Events, serial : Boards]
           /\ news' = news
<1>1. \A b \in S : Event("reservation end", b) \in [event : Events, serial : Boards]
  BY EventIsTyped DEF Events
<1>2. wire' \in SUBSET [event : Events, serial : Boards]
  <2>1. \A e \in wire' : e \in wire \/ \E b \in S : e = Event("reservation end", b)
    BY DEF EndReservations
  <2>2. wire \in SUBSET [event : Events, serial : Boards]
    BY DEF TypeOK
  <2>3. ASSUME NEW e \in wire' PROVE e \in [event : Events, serial : Boards]
    <3>1. CASE e \in wire
      BY <2>2, <3>1
    <3>2. CASE \E b \in S : e = Event("reservation end", b)
      BY <1>1, <3>2
    <3> QED
      BY <2>1, <2>3, <3>1, <3>2
  <2> QED
    BY <2>3
<1>3. db' \in [Boards -> {"free", "away", "mine", "broken", "ended"}]
  BY DEF EndReservations, TypeOK
<1> QED
  BY <1>2, <1>3 DEF EndReservations, TypeOK

LEMMA EndsKeeps ==
    ASSUME IInv, NEW S \in SUBSET {b \in Held : Answered(b)}, EndReservations(S)
    PROVE  /\ (/\ \A c \in Callers : At(c, "reply")' => At(c, "reply") /\ caller'[c] = caller[c])
              => ReplyIsHeld'
           /\ connection_info' = connection_info => EndedIsRemoved'
<1>1. \A b \in Boards : db'[b] = IF b \in S THEN "ended" ELSE db[b]
  BY DEF EndReservations
<1>2. \A c \in Callers : At(c, "reply") =>
          caller[c].serials \subseteq Boards /\ caller[c].serials \cap S = {}
  BY DEF Answered, IInv, TypeOK, CallRecords
<1>3. ASSUME \A c \in Callers : At(c, "reply")' => At(c, "reply") /\ caller'[c] = caller[c]
      PROVE  ReplyIsHeld'
  BY <1>1, <1>2, <1>3 DEF IInv, ReplyIsHeld
<1>4. ASSUME connection_info' = connection_info PROVE EndedIsRemoved'
  <2>1. ASSUME NEW b \in S
        PROVE  \E e \in wire' : e.serial = b /\ e.event # "initialized"
    <3>1. Event("reservation end", b) \in wire' /\ b \in Boards
      BY DEF EndReservations, Held
    <3>2. /\ Event("reservation end", b).serial = b
          /\ Event("reservation end", b).event = "reservation end"
      BY <3>1, EventIsTyped DEF Events
    <3> QED
      BY <3>1, <3>2
  <2>2. connection_info \subseteq Boards /\ wire \subseteq wire'
    BY DEF IInv, TypeOK, EndReservations
  <2> QED
    BY <1>1, <1>4, <2>1, <2>2 DEF IInv, EndedIsRemoved
<1> QED
  BY <1>3, <1>4

LEMMA KeepsInitializes ==
    ASSUME IInv, NEW b \in Boards, Initializes(b)
    PROVE  IInv'
<1> USE DEF Initializes, system, tracking, waiting, callState, calling, ClientUnchanged
<1>1. TypeOK'
  <2>1. Event("initialized", b) \in [event : Events, serial : Boards]
    BY EventIsTyped DEF Events
  <2>2. woken' \subseteq Sleepers'
    BY DEF IInv, TypeOK, Sleepers, At
  <2> QED
    BY <2>1, <2>2 DEF IInv, TypeOK
<1>6. LockIsForReserve'
  BY DEF IInv, TypeOK, LockIsForReserve
<1>2. ReplyIsHeld'
  BY DEF IInv, TypeOK, CallRecords, ReplyIsHeld, At
<1>3. Awaited'
  BY DEF IInv, TypeOK, CallRecords, Awaited, Waits, At
<1>4. EndedIsRemoved'
  BY DEF IInv, TypeOK, CallRecords, EndedIsRemoved, ReplyIsHeld, At
<1>5. SocketsMatch'
  BY DEF IInv, TypeOK, CallRecords, SocketsMatch, ReplyIsHeld, At, Hosted
<1> QED
  BY <1>1, <1>2, <1>3, <1>4, <1>5, <1>6 DEF IInv

LEMMA KeepsFails ==
    ASSUME IInv, NEW b \in Boards, Fails(b)
    PROVE  IInv'
<1> USE DEF Fails, Answered, Lost, system, tracking, waiting, callState, calling,
            ClientUnchanged
<1>1. TypeOK'
  <2>1. wire' \in SUBSET [event : Events, serial : Boards]
    <3>1. Event("failure", b) \in [event : Events, serial : Boards]
      BY EventIsTyped DEF Events
    <3> QED
      BY <3>1 DEF IInv, TypeOK
  <2>2. woken' \subseteq Sleepers'
    BY DEF IInv, TypeOK, Sleepers, At
  <2>3. losses' \in 0..MaxLosses
    BY DEF IInv, TypeOK
  <2>4. db' \in [Boards -> {"free", "away", "mine", "broken", "ended"}]
    BY DEF IInv, TypeOK
  <2> QED
    BY <2>1, <2>2, <2>3, <2>4 DEF IInv, TypeOK
<1>6. LockIsForReserve'
  BY DEF IInv, TypeOK, LockIsForReserve
<1>2. ReplyIsHeld'
  BY DEF IInv, TypeOK, CallRecords, ReplyIsHeld, At
<1>3. Awaited'
  BY DEF IInv, TypeOK, CallRecords, Awaited, Waits, At
<1>4. EndedIsRemoved'
  <2>1. wire' = wire \cup {Event("failure", b)} /\ Event("failure", b).serial = b
        /\ Event("failure", b).event # "initialized"
    BY EventIsTyped DEF Events
  <2>2. \A x \in Boards \ {b} : db'[x] = db[x]
    BY DEF IInv, TypeOK
  <2> QED
    BY <2>1, <2>2 DEF IInv, TypeOK, EndedIsRemoved
<1>5. SocketsMatch'
  BY DEF IInv, TypeOK, CallRecords, SocketsMatch, ReplyIsHeld, At, Hosted
<1> QED
  BY <1>1, <1>2, <1>3, <1>4, <1>5, <1>6 DEF IInv

LEMMA KeepsReservationEnds ==
    ASSUME IInv, NEW b \in Boards, ReservationEnds(b)
    PROVE  IInv'
<1> USE DEF ReservationEnds, Lost, tracking, waiting, callState, calling, ClientUnchanged
<1>1. TypeOK'
  <2>1. woken' \subseteq Sleepers'
    BY DEF IInv, TypeOK, Sleepers, At
  <2>2. losses' \in 0..MaxLosses
    BY DEF IInv, TypeOK
  <2> QED
    BY <2>1, <2>2, EndsTyped DEF IInv, TypeOK
<1>2. ReplyIsHeld' /\ EndedIsRemoved'
  BY EndsKeeps DEF At
<1>3. LockIsForReserve' /\ Awaited' /\ SocketsMatch'
  BY DEF IInv, LockIsForReserve, Awaited, Waits, SocketsMatch, At, Hosted
<1> QED
  BY <1>1, <1>2, <1>3 DEF IInv

LEMMA KeepsFreed ==
    ASSUME IInv, NEW b \in Boards, Freed(b)
    PROVE  IInv'
<1> USE DEF Freed, system, tracking, waiting, callState, calling, ClientUnchanged, Lost
<1>1. TypeOK'
  <2>1. Cardinality(Free) + 1 \in Nat
    BY FreeIsCounted DEF Free
  <2>2. woken' \subseteq Sleepers'
    BY DEF IInv, TypeOK, Sleepers, At
  <2>3. db' \in [Boards -> {"free", "away", "mine", "broken", "ended"}]
    BY DEF IInv, TypeOK
  <2> QED
    BY <2>1, <2>2, <2>3 DEF IInv, TypeOK
<1>6. LockIsForReserve'
  BY DEF IInv, TypeOK, LockIsForReserve
<1>2. ReplyIsHeld'
  BY DEF IInv, TypeOK, CallRecords, ReplyIsHeld, At
<1>3. Awaited'
  BY DEF IInv, TypeOK, CallRecords, Awaited, Waits, At
<1>4. EndedIsRemoved'
  BY DEF IInv, TypeOK, CallRecords, EndedIsRemoved, ReplyIsHeld, At
<1>5. SocketsMatch'
  BY DEF IInv, TypeOK, CallRecords, SocketsMatch, ReplyIsHeld, At, Hosted
<1> QED
  BY <1>1, <1>2, <1>3, <1>4, <1>5, <1>6 DEF IInv

LEMMA KeepsHandleNews ==
    ASSUME IInv, NEW n \in news, HandleNews(n)
    PROVE  IInv'
<1> USE DEF HandleNews, system, tracking, waiting, callState, calling, ClientUnchanged, Lost
<1>1. TypeOK'
  BY FreeIsCounted DEF IInv, TypeOK, At, Sleepers, Free, Events
<1>6. LockIsForReserve'
  BY DEF IInv, TypeOK, LockIsForReserve
<1>2. ReplyIsHeld'
  BY DEF IInv, TypeOK, CallRecords, ReplyIsHeld, At
<1>3. Awaited'
  BY DEF IInv, TypeOK, CallRecords, Awaited, Waits, At
<1>4. EndedIsRemoved'
  BY DEF IInv, TypeOK, CallRecords, EndedIsRemoved, ReplyIsHeld, At
<1>5. SocketsMatch'
  BY DEF IInv, TypeOK, CallRecords, SocketsMatch, ReplyIsHeld, At, Hosted
<1> QED
  BY <1>1, <1>2, <1>3, <1>4, <1>5, <1>6 DEF IInv

LEMMA KeepsHandleInitialization ==
    ASSUME IInv, NEW b \in Boards, HandleInitialization(b)
    PROVE  IInv'
<1> USE DEF HandleInitialization, Discard, Event, system, tracking, waiting, callState, calling, ClientUnchanged, Lost
<1>1. TypeOK'
  BY FreeIsCounted DEF IInv, TypeOK, At, Sleepers, Free, Events
<1>6. LockIsForReserve'
  BY DEF IInv, TypeOK, LockIsForReserve
<1>2. ReplyIsHeld'
  BY DEF IInv, TypeOK, CallRecords, ReplyIsHeld, At
<1>3. Awaited'
  BY DEF IInv, TypeOK, CallRecords, Awaited, Waits, At
<1>4. EndedIsRemoved'
  BY DEF IInv, TypeOK, CallRecords, EndedIsRemoved, ReplyIsHeld, At
<1>5. SocketsMatch'
  BY DEF IInv, TypeOK, CallRecords, SocketsMatch, ReplyIsHeld, At, Hosted
<1> QED
  BY <1>1, <1>2, <1>3, <1>4, <1>5, <1>6 DEF IInv

LEMMA KeepsHandleRemoval ==
    ASSUME IInv, NEW e \in wire, HandleRemoval(e)
    PROVE  IInv'
<1> USE DEF HandleRemoval, Remove, Untrack, Hosted, system, tracking, waiting, callState, calling, ClientUnchanged, Lost
<1>1. TypeOK'
  <2>1. e \in [event : Events, serial : Boards] /\ wire' \subseteq wire
    BY DEF IInv, TypeOK
  <2>2. [by |-> e.event, serial |-> e.serial] \in [by : Callers \cup Events, serial : Boards]
    BY <2>1
  <2>3. removals' \in SUBSET [by : Callers \cup Events, serial : Boards]
    BY <2>2 DEF IInv, TypeOK
  <2>4. woken' \subseteq Sleepers'
    BY DEF IInv, TypeOK, Sleepers, At
  <2> QED
    BY <2>1, <2>3, <2>4 DEF IInv, TypeOK
<1>6. LockIsForReserve'
  BY DEF IInv, TypeOK, LockIsForReserve
<1>2. ReplyIsHeld'
  BY DEF IInv, TypeOK, CallRecords, ReplyIsHeld, At
<1>3. Awaited'
  BY DEF IInv, TypeOK, CallRecords, Awaited, Waits, At
<1>4. EndedIsRemoved'
  BY DEF IInv, TypeOK, CallRecords, EndedIsRemoved, ReplyIsHeld, At
<1>5. SocketsMatch'
  <2>1. e.serial \in Boards
    BY DEF IInv, TypeOK
  <2> QED
    BY <2>1, RemovedMatches DEF IInv
<1> QED
  BY <1>1, <1>2, <1>3, <1>4, <1>5, <1>6 DEF IInv

LEMMA KeepsRemovalDisconnects ==
    ASSUME IInv, NEW r \in removals, RemovalDisconnects(r)
    PROVE  IInv'
<1> USE DEF RemovalDisconnects, Hosted, system, tracking, waiting, callState, calling, ClientUnchanged, Lost
<1>1. TypeOK'
  BY FreeIsCounted DEF IInv, TypeOK, At, Sleepers, Free, Events
<1>6. LockIsForReserve'
  BY DEF IInv, TypeOK, LockIsForReserve
<1>2. ReplyIsHeld'
  BY DEF IInv, TypeOK, CallRecords, ReplyIsHeld, At
<1>3. Awaited'
  BY DEF IInv, TypeOK, CallRecords, Awaited, Waits, At
<1>4. EndedIsRemoved'
  BY DEF IInv, TypeOK, CallRecords, EndedIsRemoved, ReplyIsHeld, At
<1>5. SocketsMatch'
  BY DEF IInv, TypeOK, CallRecords, SocketsMatch, ReplyIsHeld, At, Hosted
<1> QED
  BY <1>1, <1>2, <1>3, <1>4, <1>5, <1>6 DEF IInv

\* What a call changes in caller, seen field by field.
LEMMA Moved ==
    ASSUME TypeOK, NEW c \in Callers, NEW place \in Places, Move(c, place)
    PROVE  /\ caller' \in [Callers -> CallRecords]
           /\ caller'[c].at = place /\ caller'[c].call = caller[c].call
           /\ caller'[c].serials = caller[c].serials /\ caller'[c].left = caller[c].left
           /\ \A d \in Callers \ {c} : caller'[d] = caller[d]
<1>1. caller \in [Callers -> CallRecords]
  BY DEF TypeOK
<1>2. caller' = [caller EXCEPT ![c] = [caller[c] EXCEPT !.at = place]]
  BY DEF Move
<1>3. [caller[c] EXCEPT !.at = place] \in CallRecords
  BY <1>1 DEF CallRecords
<1> QED
  BY <1>1, <1>2, <1>3 DEF CallRecords

LEMMA Ended ==
    ASSUME TypeOK, NEW c \in Callers, Over(c)
    PROVE  /\ caller' \in [Callers -> CallRecords] /\ caller'[c].at = "idle"
           /\ \A d \in Callers \ {c} : caller'[d] = caller[d] /\ ready'[d] = ready[d]
           /\ reservation_lock' \in Callers \cup {None}
           /\ overwritten' = overwritten \ {c}
           /\ ready' \in [Callers -> SUBSET Boards]
<1>1. Idle \in CallRecords /\ Idle.at = "idle"
  BY DEF Idle, CallRecords, Places
<1> QED
  BY <1>1 DEF Over, TypeOK

\* A call that begins, or whose request is answered.
LEMMA Begun ==
    ASSUME TypeOK, NEW c \in Callers, NEW at \in Places, NEW call \in Operations \cup {"none"},
           NEW S \in SUBSET Boards, NEW L \in SUBSET Boards, NEW n \in Nat,
           Begins(c, at, call, S, L, n)
    PROVE  /\ caller' \in [Callers -> CallRecords]
           /\ caller'[c].at = at /\ caller'[c].call = call
           /\ caller'[c].serials = S /\ caller'[c].left = L
           /\ \A d \in Callers \ {c} : caller'[d] = caller[d]
<1>1. [at |-> at, call |-> call, serials |-> S, left |-> L, amount |-> n] \in CallRecords
  BY DEF CallRecords
<1> QED
  BY <1>1 DEF Begins, TypeOK

\* A thread that goes on, or returns, is no thread that another has woken.
LEMMA StillAsleep ==
    ASSUME TypeOK, NEW c \in Callers, \A d \in Callers \ {c} : caller'[d] = caller[d],
           woken' \subseteq woken,
           ~At(c, "sleeping") \/ c \notin woken' \/ At(c, "sleeping")'
    PROVE  woken' \subseteq Sleepers'
BY DEF TypeOK, Sleepers, At

LEMMA KeepsReserveAsks ==
    ASSUME IInv, NEW c \in Callers, ReserveAsks(c)
    PROVE  IInv'
<1> USE DEF ReserveAsks, Calls, system, tracking, waiting, callState
<1>1. PICK n \in 1..Cardinality(Boards), at \in {"counting", "lock"} :
          Begins(c, at, "reserve", {}, {}, n)
  OBVIOUS
<1>2. n \in Nat
  BY FreeIsCounted
<1>9. "reserve" \in Operations \cup {"none"} /\ at \in Places
  BY DEF Places
<1>3. /\ caller' \in [Callers -> CallRecords]
      /\ caller'[c].at = at /\ caller'[c].call = "reserve"
      /\ \A d \in Callers \ {c} : caller'[d] = caller[d]
  BY <1>1, <1>2, <1>9, Begun DEF IInv
<1>4. TypeOK'
  <2>1. woken' \subseteq Sleepers'
    BY <1>3, StillAsleep DEF IInv, At
  <2>2. calls' \in 0..MaxCalls
    BY DEF IInv, TypeOK
  <2> QED
    BY <1>3, <2>1, <2>2 DEF IInv, TypeOK
<1>5. LockIsForReserve' /\ ReplyIsHeld' /\ Awaited'
  BY <1>3 DEF IInv, LockIsForReserve, ReplyIsHeld, Awaited, Waits, At
<1>6. EndedIsRemoved' /\ SocketsMatch'
  BY <1>3 DEF IInv, EndedIsRemoved, SocketsMatch, At, Hosted
<1> QED
  BY <1>4, <1>5, <1>6 DEF IInv

LEMMA KeepsCounted ==
    ASSUME IInv, NEW c \in Callers, Counted(c)
    PROVE  IInv'
<1> USE DEF Counted, system, tracking, waiting, callState
<1>1. /\ caller' \in [Callers -> CallRecords]
      /\ caller'[c].at = "lock" /\ caller'[c].call = caller[c].call
      /\ \A d \in Callers \ {c} : caller'[d] = caller[d]
  BY Moved DEF IInv, Places
<1>2. TypeOK'
  <2>1. woken' \subseteq Sleepers'
    BY <1>1, StillAsleep DEF IInv, At
  <2> QED
    BY <1>1, <2>1 DEF IInv, TypeOK
<1>3. LockIsForReserve' /\ ReplyIsHeld' /\ Awaited'
  BY <1>1 DEF IInv, LockIsForReserve, ReplyIsHeld, Awaited, Waits, At
<1>4. EndedIsRemoved' /\ SocketsMatch'
  BY <1>1 DEF IInv, EndedIsRemoved, SocketsMatch, At, Hosted
<1> QED
  BY <1>2, <1>3, <1>4 DEF IInv

\* A request that was granted.
LEMMA Requested ==
    ASSUME IInv, NEW c \in Callers, ~At(c, "sleeping"), NEW call \in Operations,
           NEW S \in SUBSET Free, Request(c, call, S), ~At(c, "connect"),
           reservation_lock' \in Callers \cup {None}, calls' \in 0..MaxCalls,
           UNCHANGED losses
    PROVE  IInv'
<1> USE DEF Request, system, tracking, waiting
<1>1. S \in SUBSET Boards /\ \A b \in S : db[b] = "free"
  BY DEF Free
<1>2. Begins(c, "reply", call, S, S, 0)
  OBVIOUS
<1>3. /\ caller' \in [Callers -> CallRecords]
      /\ caller'[c].at = "reply" /\ caller'[c].call = call
      /\ caller'[c].serials = S /\ caller'[c].left = S
      /\ \A d \in Callers \ {c} : caller'[d] = caller[d]
  BY <1>1, <1>2, Begun DEF IInv, Places
<1>4. \A b \in Boards : db'[b] = IF b \in S THEN "mine" ELSE db[b]
  BY <1>1
<1>5. \A d \in Callers \ {c} : ready'[d] = ready[d]
  BY DEF IInv, TypeOK
<1>6. TypeOK'
  <2>1. woken' \subseteq Sleepers'
    BY <1>3, StillAsleep DEF IInv
  <2>2. db' \in [Boards -> {"free", "away", "mine", "broken", "ended"}]
    BY DEF IInv, TypeOK
  <2>3. ready' \in [Callers -> SUBSET Boards]
    BY DEF IInv, TypeOK
  <2> QED
    BY <1>1, <1>3, <2>1, <2>2, <2>3 DEF IInv, TypeOK
<1>7. LockIsForReserve' /\ Awaited'
  BY <1>3, <1>5 DEF IInv, LockIsForReserve, Awaited, Waits, At
<1>8. ReplyIsHeld'
  <2>1. ASSUME NEW d \in Callers, At(d, "reply")'
        PROVE  /\ caller'[d].left = caller'[d].serials
               /\ \A b \in caller'[d].serials : db'[b] = "mine"
    <3>1. CASE d = c
      BY <1>1, <1>3, <1>4, <3>1
    <3>2. CASE d # c
      <4>1. caller[d].serials \subseteq Boards
        BY DEF IInv, TypeOK, CallRecords
      <4> QED
        BY <1>3, <1>4, <2>1, <3>2, <4>1 DEF IInv, ReplyIsHeld, At
    <3> QED
      BY <3>1, <3>2
  <2> QED
    BY <2>1 DEF ReplyIsHeld
<1>9. EndedIsRemoved' /\ SocketsMatch'
  <2>1. \A b \in connection_info : b \in Boards
    BY DEF IInv, TypeOK
  <2> QED
    BY <1>1, <1>3, <1>4, <2>1 DEF IInv, EndedIsRemoved, SocketsMatch, At, Hosted
<1> QED
  BY <1>6, <1>7, <1>8, <1>9 DEF IInv

LEMMA KeepsReserve ==
    ASSUME IInv, NEW c \in Callers, Reserve(c)
    PROVE  IInv'
<1>1. PICK S \in SUBSET Free : Request(c, "reserve", S)
  BY DEF Reserve
<1>2. "reserve" \in Operations
  BY DEF Reserve, IInv, LockIsForReserve, TypeOK, CallRecords, At
<1>3. calls' \in 0..MaxCalls /\ reservation_lock' \in Callers \cup {None} /\ UNCHANGED losses
  BY DEF Reserve, IInv, TypeOK
<1> QED
  BY <1>1, <1>2, <1>3, Requested DEF Reserve, At

LEMMA KeepsReserveSpecific ==
    ASSUME IInv, NEW c \in Callers, ReserveSpecific(c)
    PROVE  IInv'
<1>1. PICK S \in SUBSET Free : Request(c, "reserveSpecific", S)
  BY DEF ReserveSpecific
<1>2. calls' \in 0..MaxCalls /\ reservation_lock' \in Callers \cup {None} /\ UNCHANGED losses
  BY DEF ReserveSpecific, Calls, IInv, TypeOK
<1> QED
  BY <1>1, <1>2, Requested DEF ReserveSpecific, Calls, At

\* A call that returns, and changes nothing else.
LEMMA OverKeeps ==
    ASSUME IInv, NEW c \in Callers, Over(c), ~At(c, "connect"),
           c \notin woken' , woken' \subseteq woken,
           UNCHANGED <<system, tracking, awaiting_serials, last_available, calls, losses>>
    PROVE  IInv'
<1> USE DEF system, tracking
<1>1. /\ caller' \in [Callers -> CallRecords] /\ caller'[c].at = "idle"
      /\ \A d \in Callers \ {c} : caller'[d] = caller[d] /\ ready'[d] = ready[d]
      /\ reservation_lock' \in Callers \cup {None}
      /\ overwritten' = overwritten \ {c}
      /\ ready' \in [Callers -> SUBSET Boards]
  BY Ended DEF IInv
<1>2. TypeOK'
  <2>1. woken' \subseteq Sleepers'
    BY <1>1, StillAsleep DEF IInv
  <2> QED
    BY <1>1, <2>1 DEF IInv, TypeOK
<1>3. LockIsForReserve' /\ ReplyIsHeld' /\ Awaited'
  BY <1>1 DEF IInv, LockIsForReserve, ReplyIsHeld, Awaited, Waits, At
<1>4. EndedIsRemoved' /\ SocketsMatch'
  BY <1>1 DEF IInv, EndedIsRemoved, SocketsMatch, At, Hosted
<1> QED
  BY <1>2, <1>3, <1>4 DEF IInv

LEMMA KeepsReplyFails ==
    ASSUME IInv, NEW c \in Callers, ReplyFails(c) \/ EndFails(c)
    PROVE  IInv'
<1>1. c \notin woken' /\ woken' \subseteq woken
  BY DEF ReplyFails, EndFails, IInv, TypeOK, Sleepers, At, waiting
<1> QED
  BY <1>1, OverKeeps DEF ReplyFails, EndFails, At, waiting

LEMMA KeepsTimesOut ==
    ASSUME IInv, NEW c \in Callers, TimesOut(c)
    PROVE  IInv'
BY OverKeeps DEF TimesOut, Returns, At

LEMMA KeepsReply ==
    ASSUME IInv, NEW c \in Callers, Reply(c)
    PROVE  IInv'
<1> USE DEF Reply, system, waiting, callState
<1>1. /\ caller' \in [Callers -> CallRecords]
      /\ caller'[c].at = "connect" /\ caller'[c].left = caller[c].left
      /\ \A d \in Callers \ {c} : caller'[d] = caller[d]
  BY Moved DEF IInv, Places
<1>2. /\ caller[c].serials \in SUBSET Boards /\ caller[c].left = caller[c].serials
      /\ \A b \in caller[c].serials : db[b] = "mine"
  BY DEF IInv, TypeOK, CallRecords, ReplyIsHeld
<1>3. TypeOK'
  <2>1. woken' \subseteq Sleepers'
    BY <1>1, StillAsleep DEF IInv, At
  <2> QED
    BY <1>1, <1>2, <2>1 DEF IInv, TypeOK
<1>4. LockIsForReserve' /\ ReplyIsHeld' /\ Awaited'
  BY <1>1 DEF IInv, LockIsForReserve, ReplyIsHeld, Awaited, Waits, At
<1>5. EndedIsRemoved'
  BY <1>2 DEF IInv, EndedIsRemoved
<1>6. SocketsMatch'
  BY <1>1, <1>2 DEF IInv, SocketsMatch, At, Hosted
<1> QED
  BY <1>3, <1>4, <1>5, <1>6 DEF IInv

LEMMA KeepsConnect ==
    ASSUME IInv, NEW c \in Callers, Connect(c)
    PROVE  IInv'
<1> USE DEF system, waiting
<1>1. PICK b \in caller[c].left :
          IF b \notin connection_info
          THEN /\ Over(c)
               /\ raced' = raced \cup {Host[x] : x \in caller[c].left}
               /\ UNCHANGED worker_sockets
          ELSE /\ caller' = [caller EXCEPT
                    ![c].at = IF caller[c].left \ {b} = {} THEN "assign" ELSE "connect",
                    ![c].left = caller[c].left \ {b}]
               /\ IF worker_sockets[Host[b]] # "none" THEN UNCHANGED worker_sockets
                  ELSE \E s \in {"open", "failed"} :
                          worker_sockets' = [worker_sockets EXCEPT ![Host[b]] = s]
               /\ UNCHANGED <<callState, raced>>
  BY DEF Connect
<1>2. b \in Boards /\ caller[c].left \subseteq Boards /\ Host[b] \in Workers
  BY DEF IInv, TypeOK, CallRecords
<1>3. UNCHANGED <<db, starting, wire, news, connection_info, removals, awaiting_serials, woken,
                  last_available, calls, losses>> /\ At(c, "connect")
  BY DEF Connect
<1>4. CASE b \notin connection_info
  <2>1. /\ caller' \in [Callers -> CallRecords] /\ caller'[c].at = "idle"
        /\ \A d \in Callers \ {c} : caller'[d] = caller[d] /\ ready'[d] = ready[d]
        /\ reservation_lock' \in Callers \cup {None}
        /\ overwritten' = overwritten \ {c}
        /\ ready' \in [Callers -> SUBSET Boards]
    BY <1>1, <1>4, Ended DEF IInv
  <2>2. raced' = raced \cup {Host[x] : x \in caller[c].left} /\ UNCHANGED worker_sockets
    BY <1>1, <1>4
  <2>3. TypeOK'
    <3>1. woken' \subseteq Sleepers'
      BY <1>3, <2>1, StillAsleep DEF IInv, At
    <3> QED
      BY <1>2, <1>3, <2>1, <2>2, <3>1 DEF IInv, TypeOK
  <2>4. LockIsForReserve' /\ ReplyIsHeld' /\ Awaited' /\ EndedIsRemoved'
    BY <1>3, <2>1 DEF IInv, LockIsForReserve, ReplyIsHeld, Awaited, Waits, At, EndedIsRemoved
  <2>5. SocketsMatch'
    BY <1>3, <2>1, <2>2 DEF IInv, SocketsMatch, At, Hosted
  <2> QED
    BY <2>3, <2>4, <2>5 DEF IInv
<1>5. CASE b \in connection_info
  <2> DEFINE at == IF caller[c].left \ {b} = {} THEN "assign" ELSE "connect"
  <2>1. UNCHANGED <<reservation_lock, ready, overwritten, raced>>
    BY <1>1, <1>5 DEF callState
  <2>2. caller' = [caller EXCEPT ![c] = [caller[c] EXCEPT !.at = at, !.left = caller[c].left \ {b}]]
    BY <1>1, <1>5
  <2>3. /\ caller' \in [Callers -> CallRecords] /\ caller'[c].at \in {"assign", "connect"}
        /\ caller'[c].left = caller[c].left \ {b}
        /\ caller'[c].left # {} => caller'[c].at = "connect"
        /\ \A d \in Callers \ {c} : caller'[d] = caller[d]
    <3>1. caller[c] \in CallRecords /\ caller \in [Callers -> CallRecords]
      BY DEF IInv, TypeOK
    <3>2. [caller[c] EXCEPT !.at = at, !.left = caller[c].left \ {b}] \in CallRecords
      BY <3>1 DEF CallRecords, Places
    <3> QED
      BY <2>2, <3>1, <3>2 DEF CallRecords
  <2>4. /\ worker_sockets' \in [Workers -> {"none", "open", "failed"}]
        /\ worker_sockets'[Host[b]] # "none"
        /\ \A w \in Workers \ {Host[b]} : worker_sockets'[w] = worker_sockets[w]
        /\ worker_sockets[Host[b]] # "none" => UNCHANGED worker_sockets
    BY <1>1, <1>2, <1>5 DEF IInv, TypeOK
  <2>5. TypeOK'
    <3>1. woken' \subseteq Sleepers'
      BY <1>3, <2>3, StillAsleep DEF IInv, At
    <3> QED
      BY <1>3, <2>1, <2>3, <2>4, <3>1 DEF IInv, TypeOK
  <2>6. LockIsForReserve' /\ ReplyIsHeld' /\ Awaited' /\ EndedIsRemoved'
    BY <1>3, <2>1, <2>3 DEF IInv, LockIsForReserve, ReplyIsHeld, Awaited, Waits, At, EndedIsRemoved
  <2>7. \A w \in Workers \ raced : worker_sockets'[w] = "open" =>
            connection_info \cap Hosted(w) # {} \/ \E r \in removals : Host[r.serial] = w
    BY <1>2, <1>5, <2>4 DEF IInv, SocketsMatch, Hosted
  <2>8. \A x \in connection_info :
            \/ worker_sockets'[Host[x]] # "none" \/ Host[x] \in raced
            \/ \E d \in Callers : caller'[d].at = "connect" /\ x \in caller'[d].left
    <3> SUFFICES ASSUME NEW x \in connection_info, worker_sockets'[Host[x]] = "none",
                        Host[x] \notin raced
                 PROVE  \E d \in Callers : caller'[d].at = "connect" /\ x \in caller'[d].left
      OBVIOUS
    <3>1. x \in Boards /\ Host[x] \in Workers /\ Host[x] # Host[b]
      BY <2>4 DEF IInv, TypeOK
    <3>2. worker_sockets[Host[x]] = "none"
      BY <2>4, <3>1
    <3>3. PICK d \in Callers : caller[d].at = "connect" /\ x \in caller[d].left
      BY <3>2 DEF IInv, SocketsMatch, At
    <3>4. CASE d = c
      BY <2>3, <3>1, <3>3, <3>4
    <3>5. CASE d # c
      BY <2>3, <3>3, <3>5
    <3> QED
      BY <3>4, <3>5
  <2>9. SocketsMatch'
    BY <1>3, <2>1, <2>7, <2>8 DEF SocketsMatch, At, Hosted
  <2> QED
    BY <2>5, <2>6, <2>9 DEF IInv
<1> QED
  BY <1>4, <1>5

LEMMA KeepsAssign ==
    ASSUME IInv, NEW c \in Callers, Assign(c)
    PROVE  IInv'
<1> USE DEF Assign, system, tracking
<1>1. /\ caller' \in [Callers -> CallRecords]
      /\ caller'[c].at = "wait" /\ caller'[c].serials = caller[c].serials
      /\ \A d \in Callers \ {c} : caller'[d] = caller[d]
  BY Moved DEF IInv, Places
<1>2. TypeOK'
  <2>1. woken' \subseteq Sleepers'
    BY <1>1, StillAsleep DEF IInv, At
  <2>2. caller[c].serials \in SUBSET Boards
    BY DEF IInv, TypeOK, CallRecords
  <2> QED
    BY <1>1, <2>1, <2>2 DEF IInv, TypeOK
<1>3. LockIsForReserve' /\ ReplyIsHeld' /\ Awaited'
  BY <1>1 DEF IInv, LockIsForReserve, ReplyIsHeld, Awaited, Waits, At
<1>4. EndedIsRemoved' /\ SocketsMatch'
  BY <1>1 DEF IInv, EndedIsRemoved, SocketsMatch, At, Hosted
<1> QED
  BY <1>2, <1>3, <1>4 DEF IInv

\* A thread that goes to sleep, and one that has been woken too early.
LEMMA KeepsWait ==
    ASSUME IInv, NEW c \in Callers, Wait(c)
    PROVE  IInv'
<1>1. CASE awaiting_serials = {}
  BY <1>1, OverKeeps DEF Wait, Returns, At
<1>2. CASE awaiting_serials # {}
  <2> USE DEF system, tracking, waiting, callState
  <2>1. /\ Move(c, "sleeping") /\ At(c, "wait")
        /\ UNCHANGED <<system, tracking, waiting, callState, last_available, calls, losses>>
    BY <1>2 DEF Wait
  <2>2. /\ caller' \in [Callers -> CallRecords] /\ caller'[c].at = "sleeping"
        /\ caller'[c].call = caller[c].call /\ caller'[c].serials = caller[c].serials
        /\ \A d \in Callers \ {c} : caller'[d] = caller[d]
    BY <2>1, Moved DEF IInv, Places
  <2>3. TypeOK'
    <3>1. woken' \subseteq Sleepers'
      BY <2>1, <2>2, StillAsleep DEF IInv, At
    <3> QED
      BY <2>1, <2>2, <3>1 DEF IInv, TypeOK
  <2>4. LockIsForReserve' /\ ReplyIsHeld' /\ Awaited'
    BY <2>1, <2>2 DEF IInv, LockIsForReserve, ReplyIsHeld, Awaited, Waits, At
  <2>5. EndedIsRemoved' /\ SocketsMatch'
    BY <2>1, <2>2 DEF IInv, EndedIsRemoved, SocketsMatch, At, Hosted
  <2> QED
    BY <2>3, <2>4, <2>5 DEF IInv
<1> QED
  BY <1>1, <1>2

LEMMA KeepsWake ==
    ASSUME IInv, NEW c \in Callers, Wake(c)
    PROVE  IInv'
<1>1. CASE awaiting_serials = {}
  BY <1>1, OverKeeps DEF Wake, Returns, At
<1>2. CASE awaiting_serials # {}
  <2> USE DEF system, tracking, calling, callState
  <2>1. /\ woken' = woken \ {c}
        /\ UNCHANGED <<system, tracking, awaiting_serials, calling, last_available, calls, losses>>
    BY <1>2 DEF Wake
  <2>2. TypeOK'
    BY <2>1 DEF IInv, TypeOK, Sleepers, At
  <2>3. LockIsForReserve' /\ ReplyIsHeld' /\ Awaited' /\ EndedIsRemoved' /\ SocketsMatch'
    BY <2>1 DEF IInv, LockIsForReserve, ReplyIsHeld, Awaited, Waits, EndedIsRemoved, SocketsMatch,
                At, Hosted
  <2> QED
    BY <2>2, <2>3 DEF IInv
<1> QED
  BY <1>1, <1>2

LEMMA KeepsReboot ==
    ASSUME IInv, NEW c \in Callers, Reboot(c)
    PROVE  IInv'
<1> USE DEF Reboot, Calls, tracking, waiting, callState
<1>1. PICK S \in SUBSET connection_info : Begins(c, "assign", "reboot", S, {}, 0)
  OBVIOUS
<1>2. S \in SUBSET Boards
  BY DEF IInv, TypeOK
<1>3. /\ caller' \in [Callers -> CallRecords]
      /\ caller'[c].at = "assign"
      /\ \A d \in Callers \ {c} : caller'[d] = caller[d]
  BY <1>1, <1>2, Begun DEF IInv, Places
<1>4. TypeOK'
  <2>1. woken' \subseteq Sleepers'
    BY <1>3, StillAsleep DEF IInv, At
  <2>2. starting' \in SUBSET Boards /\ calls' \in 0..MaxCalls
    BY <1>2 DEF IInv, TypeOK
  <2> QED
    BY <1>3, <2>1, <2>2 DEF IInv, TypeOK
<1>5. LockIsForReserve' /\ ReplyIsHeld' /\ Awaited'
  BY <1>3 DEF IInv, LockIsForReserve, ReplyIsHeld, Awaited, Waits, At
<1>6. EndedIsRemoved' /\ SocketsMatch'
  BY <1>3 DEF IInv, EndedIsRemoved, SocketsMatch, At, Hosted
<1> QED
  BY <1>4, <1>5, <1>6 DEF IInv

LEMMA KeepsEnd ==
    ASSUME IInv, NEW c \in Callers, End(c)
    PROVE  IInv'
<1> USE DEF Calls, tracking, waiting, callState
<1>1. PICK S \in SUBSET {b \in Held : Answered(b)} :
          EndReservations(S) /\ Begins(c, "ended", "end", {}, S, 0)
  BY DEF End
<1>2. At(c, "idle") /\ calls' \in 0..MaxCalls /\ "end" \in Operations
      /\ UNCHANGED <<tracking, waiting, callState, last_available, losses>>
  BY DEF End, IInv, TypeOK
<1>3. S \in SUBSET Boards
  BY DEF Held
<1>4. /\ caller' \in [Callers -> CallRecords]
      /\ caller'[c].at = "ended"
      /\ \A d \in Callers \ {c} : caller'[d] = caller[d]
  BY <1>1, <1>2, <1>3, Begun DEF IInv, Places
<1>5. TypeOK'
  <2>1. woken' \subseteq Sleepers'
    BY <1>2, <1>4, StillAsleep DEF IInv, At
  <2> QED
    BY <1>1, <1>2, <1>3, <1>4, <2>1, EndsTyped DEF IInv, TypeOK
<1>6. LockIsForReserve' /\ Awaited'
  BY <1>2, <1>4 DEF IInv, LockIsForReserve, Awaited, Waits, At
<1>7. ReplyIsHeld'
  BY <1>1, <1>2, <1>3, <1>4, EndsKeeps DEF IInv, At
<1>8. EndedIsRemoved'
  BY <1>1, <1>2, <1>3, EndsKeeps DEF IInv
<1>9. SocketsMatch'
  BY <1>2, <1>4 DEF IInv, SocketsMatch, At, Hosted
<1> QED
  BY <1>5, <1>6, <1>7, <1>8, <1>9 DEF IInv

LEMMA KeepsEndRemoves ==
    ASSUME IInv, NEW c \in Callers, EndRemoves(c)
    PROVE  IInv'
<1> USE DEF system, waiting
<1>1. At(c, "ended") /\ UNCHANGED <<system, worker_sockets, raced, waiting, last_available,
                                    calls, losses>>
  BY DEF EndRemoves
<1>2. CASE caller[c].left = {}
  <2>1. Over(c) /\ UNCHANGED <<connection_info, removals>>
    BY <1>2 DEF EndRemoves
  <2>2. c \notin woken
    BY <1>1 DEF IInv, TypeOK, Sleepers, At
  <2> QED
    BY <1>1, <2>1, <2>2, OverKeeps DEF At, tracking
<1>3. CASE caller[c].left # {}
  <2> USE DEF callState
  <2>1. PICK b \in caller[c].left :
            /\ Remove(c, b)
            /\ caller' = [caller EXCEPT ![c].left = @ \ {b}]
            /\ UNCHANGED callState
    BY <1>3 DEF EndRemoves
  <2>2. b \in Boards
    BY DEF IInv, TypeOK, CallRecords
  <2>3. /\ caller' \in [Callers -> CallRecords] /\ caller'[c].at = "ended"
        /\ \A d \in Callers \ {c} : caller'[d] = caller[d]
    <3>1. caller[c] \in CallRecords /\ caller \in [Callers -> CallRecords]
      BY DEF IInv, TypeOK
    <3>2. caller' = [caller EXCEPT ![c] = [caller[c] EXCEPT !.left = caller[c].left \ {b}]]
      BY <2>1
    <3>3. [caller[c] EXCEPT !.left = caller[c].left \ {b}] \in CallRecords
      BY <3>1 DEF CallRecords
    <3> QED
      BY <1>1, <3>1, <3>2, <3>3 DEF CallRecords, At
  <2>4. TypeOK'
    <3>1. woken' \subseteq Sleepers'
      BY <1>1, <2>3, StillAsleep DEF IInv, At
    <3>2. removals' \in SUBSET [by : Callers \cup Events, serial : Boards]
          /\ connection_info' \in SUBSET Boards
      BY <2>1, <2>2 DEF IInv, TypeOK, Remove, Untrack
    <3> QED
      BY <1>1, <2>1, <2>3, <3>1, <3>2 DEF IInv, TypeOK
  <2>5. LockIsForReserve' /\ ReplyIsHeld' /\ Awaited'
    BY <1>1, <2>1, <2>3 DEF IInv, LockIsForReserve, ReplyIsHeld, Awaited, Waits, At
  <2>6. EndedIsRemoved'
    BY <1>1, <2>1 DEF IInv, EndedIsRemoved, Remove, Untrack
  <2>7. SocketsMatch'
    BY <1>1, <2>1, <2>2, <2>3, RemovedMatches DEF IInv, At
  <2> QED
    BY <2>4, <2>5, <2>6, <2>7 DEF IInv
<1> QED
  BY <1>2, <1>3

LEMMA Step ==
    ASSUME IInv, [Next]_vars
    PROVE  IInv'
<1>1. ASSUME NEW b \in Boards, SystemStep(b) \/ Initializes(b) PROVE IInv'
  BY <1>1, KeepsInitializes, KeepsFails, KeepsReservationEnds, KeepsFreed DEF SystemStep
<1>2. ASSUME EventStep PROVE IInv'
  BY <1>2, KeepsHandleNews, KeepsHandleInitialization, KeepsHandleRemoval,
     KeepsRemovalDisconnects DEF EventStep
<1>3. ASSUME NEW c \in Callers, CallStep(c) PROVE IInv'
  BY <1>3, KeepsCounted, KeepsReserve, KeepsReplyFails, KeepsReply, KeepsConnect, KeepsAssign,
     KeepsWait, KeepsWake, KeepsEndRemoves DEF CallStep
<1>4. ASSUME NEW c \in Callers, ReserveAsks(c) \/ ReserveSpecific(c) \/ Reboot(c) \/ End(c)
             \/ TimesOut(c)
      PROVE  IInv'
  BY <1>4, KeepsReserveAsks, KeepsReserveSpecific, KeepsReboot, KeepsEnd, KeepsTimesOut
<1>5. ASSUME UNCHANGED vars PROVE IInv'
  BY <1>5 DEF vars, system, tracking, waiting, calling, callState, IInv, TypeOK,
              LockIsForReserve, ReplyIsHeld, Awaited, EndedIsRemoved, SocketsMatch, Sleepers,
              At, Waits, Hosted
<1> QED
  BY <1>1, <1>2, <1>3, <1>4, <1>5 DEF Next

\* The inductive invariant of the client's calls.
THEOREM HandshakeInvariant == Spec => []IInv
<1> QED
  BY Initially, Step, PTL DEF Spec

\* Type correctness: only a thread that sleeps has been woken.
THEOREM HandshakeTypeOK == Spec => []TypeOK
<1>1. IInv => TypeOK
  BY DEF IInv
<1> QED
  BY <1>1, HandshakeInvariant, PTL

\* A board that is lost is tracked only until the event that tells so is handled.
THEOREM HandshakeEndedIsRemoved == Spec => []EndedIsRemoved
<1>1. IInv => EndedIsRemoved
  BY DEF IInv
<1> QED
  BY <1>1, HandshakeInvariant, PTL

\* Sockets and tracked boards belong together, but for the races that raced names.
THEOREM HandshakeSocketsMatch == Spec => []SocketsMatch
<1>1. IInv => SocketsMatch
  BY DEF IInv
<1> QED
  BY <1>1, HandshakeInvariant, PTL

\* A call that returns from its wait, and took no event of another for its own, has had
\* an event for each of its boards: only an empty set lets it return.
LEMMA ReturnIsReady ==
    ASSUME IInv, Next, NEW c \in Callers,
           caller[c].call \in {"reserve", "reserveSpecific"}, Waits(c),
           caller'[c].at = "idle", c \notin overwritten
    PROVE  caller[c].serials \subseteq ready[c]
<1>1. caller'[c] # caller[c]
  BY DEF Waits
<1>2. awaiting_serials = {}
  <2>1. ASSUME NEW b \in Boards, SystemStep(b) \/ Initializes(b) PROVE FALSE
    BY <1>1, <2>1 DEF SystemStep, Initializes, Fails, ReservationEnds, Freed, ClientUnchanged,
                      calling
  <2>2. ASSUME EventStep PROVE FALSE
    BY <1>1, <2>2 DEF EventStep, HandleNews, HandleInitialization, Discard, HandleRemoval,
                      RemovalDisconnects, calling
  <2>3. ASSUME NEW d \in Callers,
               ReserveAsks(d) \/ ReserveSpecific(d) \/ Reboot(d) \/ End(d) \/ Counted(d)
               \/ Reserve(d) \/ ReplyFails(d) \/ Reply(d) \/ Connect(d) \/ Assign(d)
               \/ EndFails(d) \/ EndRemoves(d) \/ TimesOut(d)
        PROVE  FALSE
    <3>1. d # c
      BY <2>3 DEF ReserveAsks, ReserveSpecific, Reboot, End, Counted, Reserve, ReplyFails, Reply,
                  Connect, Assign, EndFails, EndRemoves, TimesOut, Calls, At, Waits
    <3>2. \A e \in Callers \ {d} : caller'[e] = caller[e]
      BY <2>3 DEF IInv, TypeOK, ReserveAsks, ReserveSpecific, Reboot, End, Counted, Reserve,
                  ReplyFails, Reply, Connect, Assign, EndFails, EndRemoves, TimesOut, Request,
                  Begins, Returns, Over, Move
    <3> QED
      BY <1>1, <3>1, <3>2
  <2>4. ASSUME NEW d \in Callers, Wait(d) \/ Wake(d) PROVE awaiting_serials = {}
    <3>1. d = c
      BY <1>1, <2>4 DEF IInv, TypeOK, Wait, Wake, Returns, Over, Move, calling
    <3> QED
      BY <2>4, <3>1, Moved DEF Wait, Wake, IInv, Places, calling, Waits
  <2> QED
    BY <2>1, <2>2, <2>3, <2>4 DEF Next, CallStep
<1> QED
  BY <1>2 DEF IInv, Awaited

\* Whatever the order of calls and events, a reservation that returns its boards has had an
\* "initialized" for each of them since it asked, unless a call without the lock interfered.
THEOREM HandshakeReadyOnReturn == Spec => ReadyOnReturn
<1> DEFINE Ready == \A c \in Callers :
              (caller[c].call \in {"reserve", "reserveSpecific"} /\ Waits(c)
               /\ caller'[c].at = "idle" /\ c \notin overwritten)
              => caller[c].serials \subseteq ready[c]
<1>1. IInv /\ [Next]_vars => [Ready]_vars
  BY ReturnIsReady
<1> QED
  BY <1>1, HandshakeInvariant, PTL DEF Spec, ReadyOnReturn
===============================================================================
