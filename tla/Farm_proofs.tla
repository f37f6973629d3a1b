----------------------------- MODULE Farm_proofs -----------------------------
EXTENDS Farm, TLAPS

USE HostAssumption, FaultsAssumption, NoClientAssumption, NoDeviceAssumption

LEMMA CoreInit == Init => CoreInv
<1> SUFFICES ASSUME Init PROVE CoreInv
    OBVIOUS
<1> QED
    BY DEF Init, CoreInv, TypeOK, DownIsEmpty, UnknownHasNoRow, HeldIsSettled,
           AvailableIsSettled, NoticeIsAlone, ExpiredIsHeld, ShutdownIsMarked, FoundIsSettled,
           ShutdownIsClean, StaleIsKnown, SessionHasClient, Held, Settled, Status, DevState,
           Timed, Calls

\* A board that is found is offered, hence settled, on a worker that is not shutting
\* down.
LEMMA CoreFind ==
    ASSUME CoreInv, NEW S \in SUBSET Devices, Find(S) \/ RollBack(S)
    PROVE  CoreInv'
<1> USE DEF Find, RollBack, Eligible, news, process, board
<1>1. TypeOK'
  BY DEF CoreInv, TypeOK, Status, DevState, Calls
<1>2. DownIsEmpty' /\ NoticeIsAlone' /\ StaleIsKnown' /\ SessionHasClient' /\
     ShutdownIsMarked' /\ UnknownHasNoRow'
  BY DEF CoreInv, DownIsEmpty, NoticeIsAlone, StaleIsKnown, UnknownHasNoRow,
          SessionHasClient, ShutdownIsMarked, Timed
<1>3. HeldIsSettled' /\ AvailableIsSettled' /\ ExpiredIsHeld'
  BY DEF CoreInv, HeldIsSettled, AvailableIsSettled, ExpiredIsHeld, Held, Settled
<1>4. FoundIsSettled'
  BY DEF CoreInv, FoundIsSettled, TypeOK, AvailableIsSettled, ShutdownIsMarked, Held,
          Settled
<1>5. ShutdownIsClean'
  BY DEF CoreInv, ShutdownIsClean, TypeOK, FoundIsSettled, Held
<1> QED
  BY <1>1, <1>2, <1>3, <1>4, <1>5 DEF CoreInv

\* What a procedure has found has stayed as it was; what a shutdown has overtaken is
\* remembered.
LEMMA CoreReserve ==
    ASSUME CoreInv, NEW c \in Clients, NEW S \in SUBSET Devices, Reserve(c, S)
    PROVE  CoreInv'
<1> USE DEF Reserve, db, process, board, making, news
<1>1. TypeOK'
  BY DEF CoreInv, TypeOK, RowsRead, Status, DevState, Calls
<1>2. UnknownHasNoRow'
  BY DEF CoreInv, UnknownHasNoRow, TypeOK, FoundIsSettled, Held
<1>3. HeldIsSettled'
  BY DEF CoreInv, HeldIsSettled, TypeOK, FoundIsSettled, Held, Settled,
          Timed
<1>4. AvailableIsSettled'
  BY DEF CoreInv, AvailableIsSettled, TypeOK, Held, Settled, Timed
<1>5. ExpiredIsHeld'
  BY DEF CoreInv, ExpiredIsHeld, TypeOK, Held
<1>6. ShutdownIsClean'
  BY DEF CoreInv, ShutdownIsClean, TypeOK, FoundIsSettled, Held
<1>7. DownIsEmpty' /\ NoticeIsAlone' /\ StaleIsKnown' /\ SessionHasClient' /\
     ShutdownIsMarked'
  BY DEF CoreInv, DownIsEmpty, NoticeIsAlone, StaleIsKnown,
          SessionHasClient, ShutdownIsMarked, Timed
<1>8. FoundIsSettled'
  BY DEF CoreInv, FoundIsSettled, TypeOK, Held, Settled, Timed
<1> QED
  BY <1>1, <1>2, <1>3, <1>4, <1>5, <1>6, <1>7, <1>8 DEF CoreInv

\* A notification is queued only for a board that was held, hence settled.
LEMMA CoreEndAndReset ==
    ASSUME CoreInv, NEW S \in SUBSET Held, EndAndReset(S)
    PROVE  CoreInv'
<1> USE DEF EndAndReset, DeleteReservations, db, process, board, making, news
<1>1. TypeOK'
  BY DEF CoreInv, TypeOK, Held, Status, DevState, Calls
<1>2. DownIsEmpty'
  BY DEF CoreInv, DownIsEmpty, TypeOK
<1>3. UnknownHasNoRow'
  BY DEF CoreInv, UnknownHasNoRow, TypeOK, HeldIsSettled, Held
<1>4. HeldIsSettled'
  BY DEF CoreInv, HeldIsSettled, TypeOK, Held, Settled, Timed
<1>5. AvailableIsSettled'
  BY DEF CoreInv, AvailableIsSettled, TypeOK, Held, Settled, Timed
<1>6. NoticeIsAlone'
  BY DEF CoreInv, NoticeIsAlone, TypeOK, HeldIsSettled, UnknownHasNoRow,
          Held, Settled, Timed
<1>7. ExpiredIsHeld'
  BY DEF CoreInv, ExpiredIsHeld, TypeOK, Held
<1>8. ShutdownIsClean'
  BY DEF CoreInv, ShutdownIsClean, TypeOK, Held
<1>9. StaleIsKnown' /\ SessionHasClient' /\ ShutdownIsMarked'
  BY DEF CoreInv, StaleIsKnown, SessionHasClient, ShutdownIsMarked
<1>10. FoundIsSettled'
  BY DEF CoreInv, FoundIsSettled, TypeOK, Held, Settled, Timed, HeldIsSettled
<1> QED
  BY <1>1, <1>2, <1>3, <1>4, <1>5, <1>6, <1>7, <1>8, <1>9, <1>10 DEF CoreInv

\* The same, with the statuses left alone.
LEMMA CoreClearWorkers ==
    ASSUME CoreInv, ClearWorkers
    PROVE  CoreInv'
<1> USE DEF ClearWorkers, DeleteReservations, db, process, board, making, news
<1>1. TypeOK'
  BY DEF CoreInv, TypeOK, Held, Status, DevState, Calls
<1>2. DownIsEmpty'
  BY DEF CoreInv, DownIsEmpty, TypeOK
<1>3. HeldIsSettled'
  BY DEF CoreInv, HeldIsSettled, TypeOK, Held, Settled, Timed
<1>4. AvailableIsSettled'
  BY DEF CoreInv, AvailableIsSettled, TypeOK, Held, Settled, Timed
<1>5. NoticeIsAlone'
  BY DEF CoreInv, NoticeIsAlone, TypeOK, HeldIsSettled, UnknownHasNoRow,
          Held, Settled, Timed
<1>6. ExpiredIsHeld'
  BY DEF CoreInv, ExpiredIsHeld, TypeOK, Held
<1>7. ShutdownIsClean'
  BY DEF CoreInv, ShutdownIsClean, TypeOK, Held
<1>8. UnknownHasNoRow' /\ StaleIsKnown' /\ SessionHasClient' /\ ShutdownIsMarked'
  BY DEF CoreInv, UnknownHasNoRow, StaleIsKnown, SessionHasClient,
          ShutdownIsMarked
<1>9. FoundIsSettled'
  BY DEF CoreInv, FoundIsSettled, TypeOK, Held, Settled, Timed, HeldIsSettled
<1> QED
  BY <1>1, <1>2, <1>3, <1>4, <1>5, <1>6, <1>7, <1>8, <1>9 DEF CoreInv

\* The cascade ends the reservations of the boards whose rows go.
LEMMA CoreWorkerTimeouts ==
    ASSUME CoreInv, NEW W \in SUBSET Workers, HandleWorkerTimeouts(W)
    PROVE  CoreInv'
<1> USE DEF HandleWorkerTimeouts, DeleteWorkers, Hosted, DeleteReservations, db,
    process, board, making, news
<1>1. TypeOK'
  BY DEF CoreInv, TypeOK, Status, DevState, Calls
<1>2. DownIsEmpty'
  BY DEF CoreInv, DownIsEmpty, TypeOK
<1>3. UnknownHasNoRow'
  BY DEF CoreInv, UnknownHasNoRow, TypeOK
<1>4. HeldIsSettled'
  BY DEF CoreInv, HeldIsSettled, TypeOK, Held, Settled, Timed
<1>5. AvailableIsSettled'
  BY DEF CoreInv, AvailableIsSettled, TypeOK, Held, Settled, Timed
<1>6. NoticeIsAlone'
  BY DEF CoreInv, NoticeIsAlone, TypeOK, HeldIsSettled, UnknownHasNoRow,
          Held, Settled, Timed
<1>7. ExpiredIsHeld'
  BY DEF CoreInv, ExpiredIsHeld, TypeOK, Held
<1>8. ShutdownIsMarked'
  BY DEF CoreInv, ShutdownIsMarked, TypeOK
<1>9. ShutdownIsClean'
  BY DEF CoreInv, ShutdownIsClean, TypeOK, Held
<1>10. StaleIsKnown' /\ SessionHasClient'
  BY DEF CoreInv, StaleIsKnown, SessionHasClient
<1>11. FoundIsSettled'
  BY DEF CoreInv, FoundIsSettled, TypeOK, Held, Settled, Timed
<1> QED
  BY <1>1, <1>2, <1>3, <1>4, <1>5, <1>6, <1>7, <1>8, <1>9, <1>10, <1>11 DEF CoreInv

\* A new process finds no rows, no threads and no state objects of its own.
LEMMA CoreStart ==
    ASSUME CoreInv, NEW w \in Workers, Start(w)
    PROVE  CoreInv'
<1> USE DEF Start, DeleteWorkers, Hosted, DeleteReservations, db, process, board,
    making, news
<1>1. TypeOK'
  BY DEF CoreInv, TypeOK, Status, DevState, Calls
<1>2. DownIsEmpty'
  BY DEF CoreInv, DownIsEmpty, TypeOK
<1>3. UnknownHasNoRow'
  BY DEF CoreInv, UnknownHasNoRow, TypeOK
<1>4. HeldIsSettled'
  BY DEF CoreInv, HeldIsSettled, TypeOK, Held, Settled, Timed
<1>5. AvailableIsSettled'
  BY DEF CoreInv, AvailableIsSettled, TypeOK, Held, Settled, Timed
<1>6. NoticeIsAlone'
  BY DEF CoreInv, NoticeIsAlone, TypeOK, Timed
<1>7. ExpiredIsHeld'
  BY DEF CoreInv, ExpiredIsHeld, TypeOK, Held
<1>8. ShutdownIsMarked'
  BY DEF CoreInv, ShutdownIsMarked, TypeOK, DownIsEmpty
<1>9. ShutdownIsClean'
  BY DEF CoreInv, ShutdownIsClean, TypeOK, Held
<1>10. StaleIsKnown' /\ SessionHasClient'
  BY DEF CoreInv, StaleIsKnown, SessionHasClient
<1>11. FoundIsSettled'
  BY DEF CoreInv, FoundIsSettled, TypeOK, Held, Settled, Timed, DownIsEmpty
<1> QED
  BY <1>1, <1>2, <1>3, <1>4, <1>5, <1>6, <1>7, <1>8, <1>9, <1>10, <1>11 DEF CoreInv

\* The end of a process drops its pending notifications with its state objects.
LEMMA CoreStop ==
    ASSUME CoreInv, NEW w \in Workers, Stop(w)
    PROVE  CoreInv'
<1> USE DEF Stop, Hosted, db, process, board, making, news
<1>1. TypeOK'
  BY DEF CoreInv, TypeOK, Status, DevState, Calls
<1>2. DownIsEmpty'
  BY DEF CoreInv, DownIsEmpty, TypeOK
<1>3. UnknownHasNoRow'
  BY DEF CoreInv, UnknownHasNoRow, TypeOK
<1>4. HeldIsSettled'
  BY DEF CoreInv, HeldIsSettled, TypeOK, Held, Settled, Timed
<1>5. AvailableIsSettled'
  BY DEF CoreInv, AvailableIsSettled, TypeOK, Held, Settled, Timed
<1>6. NoticeIsAlone'
  BY DEF CoreInv, NoticeIsAlone, TypeOK, Timed
<1>7. StaleIsKnown'
  BY DEF CoreInv, StaleIsKnown, TypeOK
<1>8. SessionHasClient'
  BY DEF CoreInv, SessionHasClient, TypeOK
<1>9. ShutdownIsMarked'
  BY DEF CoreInv, ShutdownIsMarked, TypeOK
<1>10. ShutdownIsClean'
  BY DEF CoreInv, ShutdownIsClean, TypeOK, Held
<1>11. ExpiredIsHeld'
  BY DEF CoreInv, ExpiredIsHeld, Held
<1>12. FoundIsSettled'
  BY DEF CoreInv, FoundIsSettled, TypeOK, Held, Settled, Timed
<1> QED
  BY <1>1, <1>2, <1>3, <1>4, <1>5, <1>6, <1>7, <1>8, <1>9, <1>10, <1>11, <1>12 DEF CoreInv

\* A broken LISTEN connection loses notifications and adds none.
LEMMA CoreListenerDies ==
    ASSUME CoreInv, NEW w \in Workers, ListenerDies(w)
    PROVE  CoreInv'
<1> USE DEF ListenerDies, db, process, board, making, news, Hosted
<1>1. TypeOK'
  BY DEF CoreInv, TypeOK, Status, DevState, Calls
<1>2. DownIsEmpty'
  BY DEF CoreInv, DownIsEmpty, TypeOK
<1>3. HeldIsSettled'
  BY DEF CoreInv, HeldIsSettled, TypeOK, Held, Settled, Timed
<1>4. AvailableIsSettled'
  BY DEF CoreInv, AvailableIsSettled, TypeOK, Held, Settled, Timed
<1>5. NoticeIsAlone'
  BY DEF CoreInv, NoticeIsAlone, TypeOK, Timed
<1>6. UnknownHasNoRow' /\ ExpiredIsHeld' /\ StaleIsKnown' /\ SessionHasClient' /\
     ShutdownIsMarked' /\ ShutdownIsClean'
  BY DEF CoreInv, UnknownHasNoRow, ExpiredIsHeld, StaleIsKnown,
          SessionHasClient, ShutdownIsMarked, ShutdownIsClean, Held
<1>7. FoundIsSettled'
  BY DEF CoreInv, FoundIsSettled, TypeOK, Held, Settled, Timed
<1> QED
  BY <1>1, <1>2, <1>3, <1>4, <1>5, <1>6, <1>7 DEF CoreInv

\* A board its worker did not know has no row, so it is not held.
LEMMA CoreAddDevice ==
    ASSUME CoreInv, NEW d \in Devices, AddDevice(d)
    PROVE  CoreInv'
<1> USE DEF AddDevice, db, process, board, making, news
<1>1. TypeOK'
  BY DEF CoreInv, TypeOK, Status, DevState, Calls
<1>2. DownIsEmpty'
  BY DEF CoreInv, DownIsEmpty, TypeOK
<1>3. UnknownHasNoRow'
  BY DEF CoreInv, UnknownHasNoRow, TypeOK
<1>4. HeldIsSettled'
  BY DEF CoreInv, HeldIsSettled, TypeOK, UnknownHasNoRow, Held, Settled,
          Timed
<1>5. AvailableIsSettled'
  BY DEF CoreInv, AvailableIsSettled, TypeOK, Held, Settled, Timed
<1>6. NoticeIsAlone'
  BY DEF CoreInv, NoticeIsAlone, TypeOK, Timed
<1>7. StaleIsKnown'
  BY DEF CoreInv, StaleIsKnown, TypeOK
<1>8. SessionHasClient'
  BY DEF CoreInv, SessionHasClient, TypeOK
<1>9. ExpiredIsHeld' /\ ShutdownIsMarked' /\ ShutdownIsClean'
  BY DEF CoreInv, ExpiredIsHeld, ShutdownIsMarked, ShutdownIsClean, Held
<1>10. FoundIsSettled'
  BY DEF CoreInv, FoundIsSettled, TypeOK, Held, Settled, Timed, UnknownHasNoRow
<1> QED
  BY <1>1, <1>2, <1>3, <1>4, <1>5, <1>6, <1>7, <1>8, <1>9, <1>10 DEF CoreInv

\* A /reserve call, late or not, takes a board out of the recycling states.
LEMMA CoreReserveArrives ==
    ASSUME CoreInv, NEW call \in Calls, ReserveArrives(call)
    PROVE  CoreInv'
<1> USE DEF ReserveArrives, SwitchedFrom, Calls, db, process, board, making, news
<1>1. TypeOK'
  BY DEF CoreInv, TypeOK, Status, DevState, Calls
<1>2. DownIsEmpty'
  BY DEF CoreInv, DownIsEmpty, TypeOK
<1>3. UnknownHasNoRow'
  BY DEF CoreInv, UnknownHasNoRow, TypeOK
<1>4. HeldIsSettled'
  BY DEF CoreInv, HeldIsSettled, TypeOK, Held, Settled, Timed
<1>5. AvailableIsSettled'
  BY DEF CoreInv, AvailableIsSettled, TypeOK, Held, Settled, Timed
<1>6. NoticeIsAlone'
  BY DEF CoreInv, NoticeIsAlone, TypeOK, Timed
<1>7. StaleIsKnown'
  BY DEF CoreInv, StaleIsKnown, TypeOK
<1>8. SessionHasClient'
  BY DEF CoreInv, SessionHasClient, TypeOK
<1>9. ExpiredIsHeld' /\ ShutdownIsMarked' /\ ShutdownIsClean'
  BY DEF CoreInv, ExpiredIsHeld, ShutdownIsMarked, ShutdownIsClean, Held
<1>10. FoundIsSettled'
  BY DEF CoreInv, FoundIsSettled, TypeOK, Held, Settled, Timed
<1> QED
  BY <1>1, <1>2, <1>3, <1>4, <1>5, <1>6, <1>7, <1>8, <1>9, <1>10 DEF CoreInv

\* A board in FlashState(default) is not held and has no notification pending.
LEMMA CoreDefaultFlashed ==
    ASSUME CoreInv, NEW d \in Devices, DefaultFlashed(d)
    PROVE  CoreInv'
<1> USE DEF DefaultFlashed, SetStatus, db, process, board, making, news
<1>1. TypeOK'
  BY DEF CoreInv, TypeOK, Status, DevState, Calls
<1>2. DownIsEmpty'
  BY DEF CoreInv, DownIsEmpty, TypeOK
<1>3. UnknownHasNoRow'
  BY DEF CoreInv, UnknownHasNoRow, TypeOK
<1>4. HeldIsSettled'
  BY DEF CoreInv, HeldIsSettled, TypeOK, Held, Settled, Timed
<1>5. AvailableIsSettled'
  BY DEF CoreInv, AvailableIsSettled, TypeOK, Held, Settled, Timed
<1>6. NoticeIsAlone'
  BY DEF CoreInv, NoticeIsAlone, TypeOK, Timed
<1>7. StaleIsKnown'
  BY DEF CoreInv, StaleIsKnown, TypeOK
<1>8. SessionHasClient'
  BY DEF CoreInv, SessionHasClient, TypeOK
<1>9. ExpiredIsHeld' /\ ShutdownIsMarked' /\ ShutdownIsClean'
  BY DEF CoreInv, ExpiredIsHeld, ShutdownIsMarked, ShutdownIsClean, Held
<1>10. FoundIsSettled'
  BY DEF CoreInv, FoundIsSettled, TypeOK, Held, Settled, Timed
<1> QED
  BY <1>1, <1>2, <1>3, <1>4, <1>5, <1>6, <1>7, <1>8, <1>9, <1>10 DEF CoreInv

\* Neither has a board in TestState, so it may be offered when the test passes.
LEMMA CoreTestPassed ==
    ASSUME CoreInv, NEW d \in Devices, TestPassed(d)
    PROVE  CoreInv'
<1> USE DEF TestPassed, SetStatus, db, process, board, making, news
<1>1. TypeOK'
  BY DEF CoreInv, TypeOK, Status, DevState, Calls
<1>2. DownIsEmpty'
  BY DEF CoreInv, DownIsEmpty, TypeOK
<1>3. UnknownHasNoRow'
  BY DEF CoreInv, UnknownHasNoRow, TypeOK
<1>4. HeldIsSettled'
  BY DEF CoreInv, HeldIsSettled, TypeOK, Held, Settled, Timed
<1>5. AvailableIsSettled'
  BY DEF CoreInv, AvailableIsSettled, TypeOK, HeldIsSettled, NoticeIsAlone,
          Held, Settled, Timed
<1>6. NoticeIsAlone'
  BY DEF CoreInv, NoticeIsAlone, TypeOK, Timed
<1>7. StaleIsKnown'
  BY DEF CoreInv, StaleIsKnown, TypeOK
<1>8. SessionHasClient'
  BY DEF CoreInv, SessionHasClient, TypeOK
<1>9. ExpiredIsHeld' /\ ShutdownIsMarked' /\ ShutdownIsClean'
  BY DEF CoreInv, ExpiredIsHeld, ShutdownIsMarked, ShutdownIsClean, Held
<1>10. FoundIsSettled'
  BY DEF CoreInv, FoundIsSettled, TypeOK, Held, Settled, Timed
<1> QED
  BY <1>1, <1>2, <1>3, <1>4, <1>5, <1>6, <1>7, <1>8, <1>9, <1>10 DEF CoreInv

\* Steps of a session.
LEMMA CoreKindStep ==
    ASSUME CoreInv, NEW d \in Devices, KindFlashed(d) \/ Reboot(d) \/ ExitHangs(d)
    PROVE  CoreInv'
<1> USE DEF KindFlashed, Reboot, ExitHangs, db, process, board, making, news
<1>1. TypeOK'
  BY DEF CoreInv, TypeOK, Status, DevState, Calls
<1>2. DownIsEmpty'
  BY DEF CoreInv, DownIsEmpty, TypeOK
<1>3. UnknownHasNoRow'
  BY DEF CoreInv, UnknownHasNoRow, TypeOK
<1>4. HeldIsSettled'
  BY DEF CoreInv, HeldIsSettled, TypeOK, Held, Settled, Timed
<1>5. AvailableIsSettled'
  BY DEF CoreInv, AvailableIsSettled, TypeOK, Held, Settled, Timed
<1>6. NoticeIsAlone'
  BY DEF CoreInv, NoticeIsAlone, TypeOK, Timed
<1>7. StaleIsKnown'
  BY DEF CoreInv, StaleIsKnown, TypeOK
<1>8. SessionHasClient'
  BY DEF CoreInv, SessionHasClient, TypeOK
<1>9. ExpiredIsHeld' /\ ShutdownIsMarked' /\ ShutdownIsClean'
  BY DEF CoreInv, ExpiredIsHeld, ShutdownIsMarked, ShutdownIsClean, Held
<1>10. FoundIsSettled'
  BY DEF CoreInv, FoundIsSettled, TypeOK, Held, Settled, Timed
<1> QED
  BY <1>1, <1>2, <1>3, <1>4, <1>5, <1>6, <1>7, <1>8, <1>9, <1>10 DEF CoreInv

\* A board that breaks is not offered; a held one may break.
LEMMA CoreBreaks ==
    ASSUME CoreInv, NEW d \in Devices, TimerFires(d) \/ KindFails(d) \/ StaleTimer(d)
    PROVE  CoreInv'
<1> USE DEF TimerFires, KindFails, StaleTimer, ToBroken, SetStatus, db, process,
    board, making, news
<1>1. TypeOK'
  BY DEF CoreInv, TypeOK, Status, DevState, Calls
<1>2. DownIsEmpty'
  BY DEF CoreInv, DownIsEmpty, TypeOK, StaleIsKnown, Timed
<1>3. UnknownHasNoRow'
  BY DEF CoreInv, UnknownHasNoRow, TypeOK, StaleIsKnown, Timed
<1>4. HeldIsSettled'
  BY DEF CoreInv, HeldIsSettled, TypeOK, Held, Settled, Timed
<1>5. AvailableIsSettled'
  BY DEF CoreInv, AvailableIsSettled, TypeOK, Held, Settled, Timed
<1>6. NoticeIsAlone'
  BY DEF CoreInv, NoticeIsAlone, TypeOK, Timed
<1>7. StaleIsKnown'
  BY DEF CoreInv, StaleIsKnown, TypeOK
<1>8. SessionHasClient'
  BY DEF CoreInv, SessionHasClient, TypeOK
<1>9. ExpiredIsHeld' /\ ShutdownIsMarked' /\ ShutdownIsClean'
  BY DEF CoreInv, ExpiredIsHeld, ShutdownIsMarked, ShutdownIsClean, Held
<1>10. FoundIsSettled'
  BY DEF CoreInv, FoundIsSettled, TypeOK, Held, Settled, Timed
<1> QED
  BY <1>1, <1>2, <1>3, <1>4, <1>5, <1>6, <1>7, <1>8, <1>9, <1>10 DEF CoreInv

\* The only notification of the board is taken off the queue.
LEMMA CoreUnreserveBegins ==
    ASSUME CoreInv, NEW d \in Devices, UnreserveBegins(d)
    PROVE  CoreInv'
<1> USE DEF UnreserveBegins, SetStatus, db, process, board, making, news
<1>1. TypeOK'
  BY DEF CoreInv, TypeOK, Status, DevState, Calls
<1>2. DownIsEmpty'
  BY DEF CoreInv, DownIsEmpty, TypeOK
<1>3. UnknownHasNoRow'
  BY DEF CoreInv, UnknownHasNoRow, TypeOK
<1>4. HeldIsSettled'
  BY DEF CoreInv, HeldIsSettled, TypeOK, Held, Settled, Timed
<1>5. AvailableIsSettled'
  BY DEF CoreInv, AvailableIsSettled, TypeOK, Held, Settled, Timed
<1>6. NoticeIsAlone'
  BY DEF CoreInv, NoticeIsAlone, TypeOK, Timed
<1>7. ExpiredIsHeld' /\ StaleIsKnown' /\ SessionHasClient' /\ ShutdownIsMarked' /\
     ShutdownIsClean'
  BY DEF CoreInv, ExpiredIsHeld, StaleIsKnown, SessionHasClient,
          ShutdownIsMarked, ShutdownIsClean, Held
<1>8. FoundIsSettled'
  BY DEF CoreInv, FoundIsSettled, TypeOK, Held, Settled, Timed
<1> QED
  BY <1>1, <1>2, <1>3, <1>4, <1>5, <1>6, <1>7, <1>8 DEF CoreInv

\* The board enters FlashState(default) with no notification left for it.
LEMMA CoreUnreserveEnds ==
    ASSUME CoreInv, NEW w \in Workers, UnreserveEnds(w)
    PROVE  CoreInv'
<1> USE DEF UnreserveEnds, SwitchedFrom, db, process, board, making, news, Hosted
<1>1. TypeOK'
  BY DEF CoreInv, TypeOK, Status, DevState, Calls
<1>2. DownIsEmpty'
  BY DEF CoreInv, DownIsEmpty, TypeOK, NoticeIsAlone
<1>3. UnknownHasNoRow'
  BY DEF CoreInv, UnknownHasNoRow, TypeOK, NoticeIsAlone
<1>4. HeldIsSettled'
  BY DEF CoreInv, HeldIsSettled, TypeOK, NoticeIsAlone, Held, Settled, Timed
<1>5. AvailableIsSettled'
  BY DEF CoreInv, AvailableIsSettled, TypeOK, NoticeIsAlone, Held, Settled,
          Timed
<1>6. NoticeIsAlone'
  BY DEF CoreInv, NoticeIsAlone, TypeOK, Timed
<1>7. StaleIsKnown'
  BY DEF CoreInv, StaleIsKnown, TypeOK, NoticeIsAlone
<1>8. SessionHasClient'
  BY DEF CoreInv, SessionHasClient, TypeOK
<1>9. ShutdownIsMarked'
  BY DEF CoreInv, ShutdownIsMarked, TypeOK
<1>10. ShutdownIsClean'
  BY DEF CoreInv, ShutdownIsClean, TypeOK, Held
<1>11. ExpiredIsHeld'
  BY DEF CoreInv, ExpiredIsHeld, Held
<1>12. FoundIsSettled'
  BY DEF CoreInv, FoundIsSettled, TypeOK, Held, Settled, Timed, NoticeIsAlone
<1> QED
  BY <1>1, <1>2, <1>3, <1>4, <1>5, <1>6, <1>7, <1>8, <1>9, <1>10, <1>11, <1>12 DEF CoreInv

\* The shutdown thread leaves its wait when no board at all is held.
LEMMA CoreMonitor ==
    ASSUME CoreInv, NEW w \in Workers, GracefulShutdown(w) \/ MonitorChecks(w) \/ MonitorExits(w)
    PROVE  CoreInv'
<1> USE DEF GracefulShutdown, MonitorChecks, MonitorExits, HasReservations, db,
    process, board, making, news, Hosted
<1>1. TypeOK'
  BY DEF CoreInv, TypeOK, Status, DevState, Calls
<1>2. DownIsEmpty'
  BY DEF CoreInv, DownIsEmpty, TypeOK
<1>3. HeldIsSettled'
  BY DEF CoreInv, HeldIsSettled, TypeOK, Held, Settled, Timed
<1>4. AvailableIsSettled'
  BY DEF CoreInv, AvailableIsSettled, TypeOK, Held, Settled, Timed
<1>5. ShutdownIsMarked'
  BY DEF CoreInv, ShutdownIsMarked, TypeOK
<1>6. ShutdownIsClean'
  BY DEF CoreInv, ShutdownIsClean, TypeOK, HeldIsSettled, Held
<1>7. UnknownHasNoRow' /\ NoticeIsAlone' /\ ExpiredIsHeld' /\ StaleIsKnown' /\
     SessionHasClient'
  BY DEF CoreInv, UnknownHasNoRow, NoticeIsAlone, ExpiredIsHeld,
          StaleIsKnown, SessionHasClient, Timed, Held
<1>8. FoundIsSettled'
  BY DEF CoreInv, FoundIsSettled, TypeOK, Held, Settled, Timed, ShutdownIsMarked
<1> QED
  BY <1>1, <1>2, <1>3, <1>4, <1>5, <1>6, <1>7, <1>8 DEF CoreInv

\* Steps that touch only time, messages under way or a server coming up.
Quiet ==
    \/ \E c \in Clients, S \in SUBSET Devices : Extend(c, S)
    \/ \E d \in Devices : Expire(d)
    \/ \E w \in Workers : Listen(w) \/ Serve(w)
    \/ \E call \in Calls : ReserveFails(call)
    \/ UNCHANGED vars

LEMMA CoreQuiet ==
    ASSUME CoreInv, Quiet
    PROVE  CoreInv'
<1> USE DEF Quiet, Extend, Expire, Listen, Serve, ReserveFails, vars, db, process,
    board, making, news
<1>1. TypeOK' /\ ExpiredIsHeld'
  BY DEF CoreInv, TypeOK, ExpiredIsHeld, Status, DevState, Calls, Held
<1>2. DownIsEmpty' /\ UnknownHasNoRow' /\ StaleIsKnown' /\ SessionHasClient'
      /\ NoticeIsAlone'
  BY DEF CoreInv, DownIsEmpty, UnknownHasNoRow, StaleIsKnown, SessionHasClient,
         NoticeIsAlone
<1>3. HeldIsSettled' /\ AvailableIsSettled'
  BY DEF CoreInv, HeldIsSettled, AvailableIsSettled, Held, Settled
<1>4. ShutdownIsMarked' /\ ShutdownIsClean'
  BY DEF CoreInv, ShutdownIsMarked, ShutdownIsClean, Held
<1>5. FoundIsSettled'
  BY DEF CoreInv, FoundIsSettled, TypeOK, Held, Settled, Timed
<1> QED
  BY <1>1, <1>2, <1>3, <1>4, <1>5 DEF CoreInv

LEMMA CoreNext ==
    ASSUME CoreInv, [Next]_vars
    PROVE  CoreInv'
<1>1. ASSUME ControlStep PROVE CoreInv'
  <2>1. ASSUME NEW c \in Clients, NEW S \in SUBSET Devices, Reserve(c, S)
        PROVE  CoreInv'
    BY <2>1, CoreReserve
  <2>2. ASSUME NEW c \in Clients, NEW S \in SUBSET Devices, End(c, S)
        PROVE  CoreInv'
    <3>1. {d \in S : reservations[d] = c} \in SUBSET Held
      BY DEF Held
    <3> QED
      BY <2>2, <3>1, CoreEndAndReset DEF End
  <2>3. ASSUME HandleReservationTimeouts PROVE CoreInv'
    <3>1. expired \in SUBSET Held
      BY DEF CoreInv, ExpiredIsHeld
    <3> QED
      BY <2>3, <3>1, CoreEndAndReset DEF HandleReservationTimeouts
  <2> QED
    BY <1>1, <2>1, <2>2, <2>3, CoreFind, CoreClearWorkers, CoreWorkerTimeouts, CoreQuiet
       DEF ControlStep, Quiet
<1>2. ASSUME NEW w \in Workers, ProcessStep(w) PROVE CoreInv'
  BY <1>2, CoreStart, CoreStop, CoreListenerDies, CoreUnreserveEnds, CoreMonitor,
     CoreQuiet DEF ProcessStep, Quiet
<1>3. ASSUME NEW d \in Devices, BoardStep(d) PROVE CoreInv'
  BY <1>3, CoreAddDevice, CoreDefaultFlashed, CoreTestPassed, CoreKindStep,
     CoreBreaks, CoreUnreserveBegins DEF BoardStep
<1>4. ASSUME CallStep PROVE CoreInv'
  BY <1>4, CoreReserveArrives, CoreQuiet DEF CallStep, Quiet
<1>5. ASSUME UNCHANGED vars PROVE CoreInv'
  BY <1>5, CoreQuiet DEF Quiet
<1> QED
  BY <1>1, <1>2, <1>3, <1>4, <1>5 DEF Next

\* The inductive invariant, under every fault.
THEOREM CoreIsInvariant == Spec => []CoreInv
<1>1. CoreInv /\ [Next]_vars => CoreInv'
  BY CoreNext
<1> QED
  BY CoreInit, <1>1, PTL DEF Spec

\* Every variable keeps its shape, whatever the workers, boards and clients.
THEOREM FarmTypeOK == Spec => []TypeOK
<1>1. CoreInv => TypeOK
  BY DEF CoreInv
<1> QED
  BY <1>1, CoreIsInvariant, PTL

\* A notification that a reservation has ended never reaches a reserved board,
\* though the worker does not look at whose reservation it was.
THEOREM FarmNoticeNeverHitsHolder == Spec => []NoticeNeverHitsHolder
<1>1. CoreInv => NoticeNeverHitsHolder
  BY DEF CoreInv, HeldIsSettled, Settled, NoticeNeverHitsHolder
<1> QED
  BY <1>1, CoreIsInvariant, PTL

\* A reserved board is never on its way back to the pool.
THEOREM FarmHeldIsNotRecycled == Spec => []HeldIsNotRecycled
<1>1. CoreInv => HeldIsNotRecycled
  BY DEF CoreInv, HeldIsSettled, Settled, HeldIsNotRecycled
<1> QED
  BY <1>1, CoreIsInvariant, PTL

\* A graceful shutdown never goes on while a board of the worker is reserved, unless a
\* make_reservations had found it before shutdown_worker.
THEOREM FarmShutdownIsClean == Spec => []ShutdownIsClean
<1>1. CoreInv => ShutdownIsClean
  BY DEF CoreInv
<1> QED
  BY <1>1, CoreIsInvariant, PTL

\* The only step that tears a running session down is the second half of an
\* unreserve, and it finds a board that nobody holds.
LEMMA TearDownStep ==
    ASSUME CoreInv, Next, NEW d \in Devices,
           dev[d] \in {"flash_kind", "upload"}, dev'[d] = "flash_default"
    PROVE  reservations[d] # session[d]
<1>1. ASSUME NEW w \in Workers, UnreserveEnds(w) PROVE reservations[d] # session[d]
  <2>1. unreserving[w] = d /\ Host[d] = w
    BY <1>1 DEF UnreserveEnds, CoreInv, TypeOK, NoticeIsAlone
  <2>2. d \notin Held
    BY <2>1 DEF CoreInv, HeldIsSettled, Settled
  <2> QED
    BY <2>2 DEF Held, CoreInv, SessionHasClient
<1>2. ASSUME ControlStep PROVE FALSE
  BY <1>2 DEF ControlStep, Find, RollBack, Reserve, End, EndAndReset, Extend, ClearWorkers, Expire,
         HandleReservationTimeouts, HandleWorkerTimeouts, board
<1>3. ASSUME NEW w \in Workers, ProcessStep(w), ~UnreserveEnds(w) PROVE FALSE
  BY <1>3 DEF ProcessStep, Start, Stop, Listen, Serve, ListenerDies,
         GracefulShutdown, MonitorChecks, MonitorExits, board, CoreInv, TypeOK
<1>4. ASSUME NEW e \in Devices, BoardStep(e) PROVE FALSE
  BY <1>4 DEF BoardStep, AddDevice, DefaultFlashed, TestPassed, KindFlashed, Reboot,
         ExitHangs, TimerFires, KindFails, StaleTimer, ToBroken, UnreserveBegins, board,
         CoreInv, TypeOK
<1>5. ASSUME CallStep PROVE FALSE
  BY <1>5 DEF CallStep, ReserveArrives, ReserveFails, Calls, board, CoreInv, TypeOK
<1> QED
  BY <1>1, <1>2, <1>3, <1>4, <1>5 DEF Next

\* A client's running session is torn down only after its reservation ended.
THEOREM FarmTornDownOnlyAfterEnd == Spec => TornDownOnlyAfterEnd
<1> DEFINE Kept == \A d \in Devices :
             dev[d] \in {"flash_kind", "upload"} /\ dev'[d] = "flash_default" =>
                reservations[d] # session[d]
<1>1. CoreInv /\ [Next]_vars => [Kept]_vars
  BY TearDownStep
<1> QED
  BY <1>1, CoreIsInvariant, PTL DEF Spec, TornDownOnlyAfterEnd

-----------------------------------------------------------------------------
(***************************************************************************)
(* What holds of every board that is not astray, again under every fault.  *)
(* A board goes astray by a /reserve call that comes after its reservation, *)
(* or by an end of a reservation that its worker does not hear.            *)
(***************************************************************************)

LEMMA FarmInit == Init => IInv
<1> SUFFICES ASSUME Init PROVE IInv
  OBVIOUS
<1> QED
  BY CoreInit DEF Init, IInv, SessionIsOwned, ResetIsWritten, NoBoardForgotten,
     AvailableIsReady, StaleIsAstray

\* Finding boards changes none of them.
LEMMA FarmFind ==
    ASSUME IInv, NEW S \in SUBSET Devices, Find(S) \/ RollBack(S)
    PROVE  IInv'
<1>0. CoreInv'
  BY CoreFind DEF IInv
<1> USE DEF Find, RollBack, news, process, board
<1>1. SessionIsOwned'
  BY DEF IInv, CoreInv, TypeOK, SessionIsOwned
<1>2. ResetIsWritten'
  BY DEF IInv, CoreInv, TypeOK, ResetIsWritten
<1>3. NoBoardForgotten'
  BY DEF IInv, CoreInv, TypeOK, NoBoardForgotten
<1>4. AvailableIsReady'
  BY DEF IInv, CoreInv, TypeOK, AvailableIsReady
<1>5. StaleIsAstray'
  BY DEF IInv, CoreInv, TypeOK, StaleIsAstray
<1> QED
  BY <1>0, <1>1, <1>2, <1>3, <1>4, <1>5 DEF IInv

\* A board that is lent was settled: nobody's session runs on it.
LEMMA FarmReserve ==
    ASSUME IInv, NEW c \in Clients, NEW S \in SUBSET Devices, Reserve(c, S)
    PROVE  IInv'
<1>0. CoreInv'
  BY CoreReserve DEF IInv
<1> USE DEF Reserve, db, making, news, process, board
<1>1. SessionIsOwned'
  BY DEF IInv, CoreInv, TypeOK, SessionIsOwned, FoundIsSettled, Settled,
          SessionHasClient, Held
<1>2. ResetIsWritten'
  BY DEF IInv, CoreInv, TypeOK, ResetIsWritten, FoundIsSettled, Settled
<1>3. NoBoardForgotten'
  BY DEF IInv, CoreInv, TypeOK, NoBoardForgotten
<1>4. AvailableIsReady'
  BY DEF IInv, CoreInv, TypeOK, AvailableIsReady
<1>5. StaleIsAstray'
  BY DEF IInv, CoreInv, TypeOK, StaleIsAstray
<1> QED
  BY <1>0, <1>1, <1>2, <1>3, <1>4, <1>5 DEF IInv

\* The end of a reservation is heard, or its board goes astray.
LEMMA FarmEndAndReset ==
    ASSUME IInv, NEW S \in SUBSET Held, EndAndReset(S)
    PROVE  IInv'
<1>0. CoreInv'
  BY CoreEndAndReset DEF IInv
<1> USE DEF EndAndReset, DeleteReservations, db, making, news, process, board
<1>1. SessionIsOwned'
  BY DEF IInv, CoreInv, TypeOK, SessionIsOwned, Held, DownIsEmpty
<1>2. ResetIsWritten'
  BY DEF IInv, CoreInv, TypeOK, ResetIsWritten, HeldIsSettled, Settled, Held
<1>3. NoBoardForgotten'
  BY DEF IInv, CoreInv, TypeOK, NoBoardForgotten, Held
<1>4. AvailableIsReady'
  BY DEF IInv, CoreInv, TypeOK, AvailableIsReady
<1>5. StaleIsAstray'
  BY DEF IInv, CoreInv, TypeOK, StaleIsAstray
<1> QED
  BY <1>0, <1>1, <1>2, <1>3, <1>4, <1>5 DEF IInv

\* The same for clearWorkers.
LEMMA FarmClearWorkers ==
    ASSUME IInv, ClearWorkers
    PROVE  IInv'
<1>0. CoreInv'
  BY CoreClearWorkers DEF IInv
<1> USE DEF ClearWorkers, DeleteReservations, db, making, news, process, board
<1>1. SessionIsOwned'
  BY DEF IInv, CoreInv, TypeOK, SessionIsOwned, Held, DownIsEmpty
<1>2. ResetIsWritten'
  BY DEF IInv, CoreInv, TypeOK, ResetIsWritten, HeldIsSettled, Settled, Held
<1>3. NoBoardForgotten'
  BY DEF IInv, CoreInv, TypeOK, NoBoardForgotten, Held
<1>4. AvailableIsReady'
  BY DEF IInv, CoreInv, TypeOK, AvailableIsReady
<1>5. StaleIsAstray'
  BY DEF IInv, CoreInv, TypeOK, StaleIsAstray
<1> QED
  BY <1>0, <1>1, <1>2, <1>3, <1>4, <1>5 DEF IInv

\* The same for the rows the cascade deletes.
LEMMA FarmWorkerTimeouts ==
    ASSUME IInv, NEW W \in SUBSET Workers, HandleWorkerTimeouts(W)
    PROVE  IInv'
<1>0. CoreInv'
  BY CoreWorkerTimeouts DEF IInv
<1> USE DEF HandleWorkerTimeouts, DeleteWorkers, Hosted, DeleteReservations, db,
    making, news, process, board
<1>1. SessionIsOwned'
  BY DEF IInv, CoreInv, TypeOK, SessionIsOwned, Held, DownIsEmpty,
          SessionHasClient
<1>2. ResetIsWritten'
  BY DEF IInv, CoreInv, TypeOK, ResetIsWritten, HeldIsSettled, Settled, Held
<1>3. NoBoardForgotten'
  BY DEF IInv, CoreInv, TypeOK, NoBoardForgotten, Held
<1>4. AvailableIsReady'
  BY DEF IInv, CoreInv, TypeOK, AvailableIsReady
<1>5. StaleIsAstray'
  BY DEF IInv, CoreInv, TypeOK, StaleIsAstray
<1> QED
  BY <1>0, <1>1, <1>2, <1>3, <1>4, <1>5 DEF IInv

\* A new process begins with no sessions and no rows.
LEMMA FarmStart ==
    ASSUME IInv, NEW w \in Workers, Start(w)
    PROVE  IInv'
<1>0. CoreInv'
  BY CoreStart DEF IInv
<1> USE DEF Start, DeleteWorkers, Hosted, DeleteReservations, db, making, news,
    process, board
<1>1. SessionIsOwned'
  BY DEF IInv, CoreInv, TypeOK, SessionIsOwned, DownIsEmpty
<1>2. ResetIsWritten'
  BY DEF IInv, CoreInv, TypeOK, ResetIsWritten
<1>3. NoBoardForgotten'
  BY DEF IInv, CoreInv, TypeOK, NoBoardForgotten
<1>4. AvailableIsReady'
  BY DEF IInv, CoreInv, TypeOK, AvailableIsReady
<1>5. StaleIsAstray'
  BY DEF IInv, CoreInv, TypeOK, StaleIsAstray
<1> QED
  BY <1>0, <1>1, <1>2, <1>3, <1>4, <1>5 DEF IInv

\* The sessions and the timers of a process end with it.
LEMMA FarmStop ==
    ASSUME IInv, NEW w \in Workers, Stop(w)
    PROVE  IInv'
<1>0. CoreInv'
  BY CoreStop DEF IInv
<1> USE DEF Stop, Hosted, db, making, process, board
<1>1. SessionIsOwned'
  BY DEF IInv, CoreInv, TypeOK, SessionIsOwned
<1>2. ResetIsWritten'
  BY DEF IInv, CoreInv, TypeOK, ResetIsWritten, NoticeIsAlone
<1>3. NoBoardForgotten'
  BY DEF IInv, CoreInv, TypeOK, NoBoardForgotten
<1>4. AvailableIsReady'
  BY DEF IInv, CoreInv, TypeOK, AvailableIsReady
<1>5. StaleIsAstray'
  BY DEF IInv, CoreInv, TypeOK, StaleIsAstray
<1> QED
  BY <1>0, <1>1, <1>2, <1>3, <1>4, <1>5 DEF IInv

\* The boards whose notifications are lost go astray.
LEMMA FarmListenerDies ==
    ASSUME IInv, NEW w \in Workers, ListenerDies(w)
    PROVE  IInv'
<1>0. CoreInv'
  BY CoreListenerDies DEF IInv
<1> USE DEF ListenerDies, Hosted, db, making, process, board
<1>1. SessionIsOwned'
  BY DEF IInv, CoreInv, TypeOK, SessionIsOwned
<1>2. ResetIsWritten'
  BY DEF IInv, CoreInv, TypeOK, ResetIsWritten
<1>3. NoBoardForgotten'
  BY DEF IInv, CoreInv, TypeOK, NoBoardForgotten
<1>4. AvailableIsReady'
  BY DEF IInv, CoreInv, TypeOK, AvailableIsReady
<1>5. StaleIsAstray'
  BY DEF IInv, CoreInv, TypeOK, StaleIsAstray
<1> QED
  BY <1>0, <1>1, <1>2, <1>3, <1>4, <1>5 DEF IInv

\* A new board is flashed at once.
LEMMA FarmAddDevice ==
    ASSUME IInv, NEW d \in Devices, AddDevice(d)
    PROVE  IInv'
<1>0. CoreInv'
  BY CoreAddDevice DEF IInv
<1> USE DEF AddDevice, db, making, news, process, board
<1>1. SessionIsOwned'
  BY DEF IInv, CoreInv, TypeOK, SessionIsOwned
<1>2. ResetIsWritten'
  BY DEF IInv, CoreInv, TypeOK, ResetIsWritten
<1>3. NoBoardForgotten'
  BY DEF IInv, CoreInv, TypeOK, NoBoardForgotten, UnknownHasNoRow
<1>4. AvailableIsReady'
  BY DEF IInv, CoreInv, TypeOK, AvailableIsReady
<1>5. StaleIsAstray'
  BY DEF IInv, CoreInv, TypeOK, StaleIsAstray
<1> QED
  BY <1>0, <1>1, <1>2, <1>3, <1>4, <1>5 DEF IInv

\* A call that arrives in time finds the reservation it was made for.
LEMMA FarmReserveArrives ==
    ASSUME IInv, NEW call \in Calls, ReserveArrives(call)
    PROVE  IInv'
<1>0. CoreInv'
  BY CoreReserveArrives DEF IInv
<1> USE DEF ReserveArrives, SwitchedFrom, Calls, db, making, news, process, board
<1>1. SessionIsOwned'
  BY DEF IInv, CoreInv, TypeOK, SessionIsOwned
<1>2. ResetIsWritten'
  BY DEF IInv, CoreInv, TypeOK, ResetIsWritten
<1>3. NoBoardForgotten'
  BY DEF IInv, CoreInv, TypeOK, NoBoardForgotten
<1>4. AvailableIsReady'
  BY DEF IInv, CoreInv, TypeOK, AvailableIsReady, AvailableIsSettled, Held
<1>5. StaleIsAstray'
  BY DEF IInv, CoreInv, TypeOK, StaleIsAstray, HeldIsSettled, Held, Settled
<1> QED
  BY <1>0, <1>1, <1>2, <1>3, <1>4, <1>5 DEF IInv

\* The worker's own statuses are never those of a board that waits.
LEMMA FarmDefaultFlashed ==
    ASSUME IInv, NEW d \in Devices, DefaultFlashed(d)
    PROVE  IInv'
<1>0. CoreInv'
  BY CoreDefaultFlashed DEF IInv
<1> USE DEF DefaultFlashed, SetStatus, db, making, news, process, board
<1>1. SessionIsOwned'
  BY DEF IInv, CoreInv, TypeOK, SessionIsOwned
<1>2. ResetIsWritten'
  BY DEF IInv, CoreInv, TypeOK, ResetIsWritten
<1>3. NoBoardForgotten'
  BY DEF IInv, CoreInv, TypeOK, NoBoardForgotten
<1>4. AvailableIsReady'
  BY DEF IInv, CoreInv, TypeOK, AvailableIsReady
<1>5. StaleIsAstray'
  BY DEF IInv, CoreInv, TypeOK, StaleIsAstray
<1> QED
  BY <1>0, <1>1, <1>2, <1>3, <1>4, <1>5 DEF IInv

\* A board is offered from ReadyState, with no timer left behind unless it is astray.
LEMMA FarmTestPassed ==
    ASSUME IInv, NEW d \in Devices, TestPassed(d)
    PROVE  IInv'
<1>0. CoreInv'
  BY CoreTestPassed DEF IInv
<1> USE DEF TestPassed, SetStatus, db, making, news, process, board
<1>1. SessionIsOwned'
  BY DEF IInv, CoreInv, TypeOK, SessionIsOwned
<1>2. ResetIsWritten'
  BY DEF IInv, CoreInv, TypeOK, ResetIsWritten
<1>3. NoBoardForgotten'
  BY DEF IInv, CoreInv, TypeOK, NoBoardForgotten
<1>4. AvailableIsReady'
  BY DEF IInv, CoreInv, TypeOK, AvailableIsReady, StaleIsAstray
<1>5. StaleIsAstray'
  BY DEF IInv, CoreInv, TypeOK, StaleIsAstray
<1> QED
  BY <1>0, <1>1, <1>2, <1>3, <1>4, <1>5 DEF IInv

\* A session keeps its client.
LEMMA FarmKindStep ==
    ASSUME IInv, NEW d \in Devices, KindFlashed(d) \/ Reboot(d) \/ ExitHangs(d)
    PROVE  IInv'
<1>0. CoreInv'
  BY CoreKindStep DEF IInv
<1> USE DEF KindFlashed, Reboot, ExitHangs, db, making, news, process, board
<1>1. SessionIsOwned'
  BY DEF IInv, CoreInv, TypeOK, SessionIsOwned
<1>2. ResetIsWritten'
  BY DEF IInv, CoreInv, TypeOK, ResetIsWritten
<1>3. NoBoardForgotten'
  BY DEF IInv, CoreInv, TypeOK, NoBoardForgotten
<1>4. AvailableIsReady'
  BY DEF IInv, CoreInv, TypeOK, AvailableIsReady
<1>5. StaleIsAstray'
  BY DEF IInv, CoreInv, TypeOK, StaleIsAstray
<1> QED
  BY <1>0, <1>1, <1>2, <1>3, <1>4, <1>5 DEF IInv

\* A broken board is neither offered nor waiting.
LEMMA FarmBreaks ==
    ASSUME IInv, NEW d \in Devices, TimerFires(d) \/ KindFails(d) \/ StaleTimer(d)
    PROVE  IInv'
<1>0. CoreInv'
  BY CoreBreaks DEF IInv
<1> USE DEF TimerFires, KindFails, StaleTimer, ToBroken, SetStatus, db, making,
    news, process, board
<1>1. SessionIsOwned'
  BY DEF IInv, CoreInv, TypeOK, SessionIsOwned
<1>2. ResetIsWritten'
  BY DEF IInv, CoreInv, TypeOK, ResetIsWritten
<1>3. NoBoardForgotten'
  BY DEF IInv, CoreInv, TypeOK, NoBoardForgotten
<1>4. AvailableIsReady'
  BY DEF IInv, CoreInv, TypeOK, AvailableIsReady, StaleIsAstray
<1>5. StaleIsAstray'
  BY DEF IInv, CoreInv, TypeOK, StaleIsAstray
<1> QED
  BY <1>0, <1>1, <1>2, <1>3, <1>4, <1>5 DEF IInv

\* The board stays accounted for between the two steps.
LEMMA FarmUnreserveBegins ==
    ASSUME IInv, NEW d \in Devices, UnreserveBegins(d)
    PROVE  IInv'
<1>0. CoreInv'
  BY CoreUnreserveBegins DEF IInv
<1> USE DEF UnreserveBegins, SetStatus, db, making, news, process, board
<1>1. SessionIsOwned'
  BY DEF IInv, CoreInv, TypeOK, SessionIsOwned
<1>2. ResetIsWritten'
  BY DEF IInv, CoreInv, TypeOK, ResetIsWritten
<1>3. NoBoardForgotten'
  BY DEF IInv, CoreInv, TypeOK, NoBoardForgotten
<1>4. AvailableIsReady'
  BY DEF IInv, CoreInv, TypeOK, AvailableIsReady
<1>5. StaleIsAstray'
  BY DEF IInv, CoreInv, TypeOK, StaleIsAstray
<1> QED
  BY <1>0, <1>1, <1>2, <1>3, <1>4, <1>5 DEF IInv

\* The reset finds the status it wrote, and brings an astray board back unless an
\* old timer still threatens it.
LEMMA FarmUnreserveEnds ==
    ASSUME IInv, NEW w \in Workers, UnreserveEnds(w)
    PROVE  IInv'
<1>0. CoreInv'
  BY CoreUnreserveEnds DEF IInv
<1> USE DEF UnreserveEnds, SwitchedFrom, db, making, news, process, board
<1>1. SessionIsOwned'
  BY DEF IInv, CoreInv, TypeOK, SessionIsOwned, NoticeIsAlone
<1>2. ResetIsWritten'
  BY DEF IInv, CoreInv, TypeOK, ResetIsWritten, NoticeIsAlone
<1>3. NoBoardForgotten'
  BY DEF IInv, CoreInv, TypeOK, NoBoardForgotten, ResetIsWritten, NoticeIsAlone
<1>4. AvailableIsReady'
  BY DEF IInv, CoreInv, TypeOK, AvailableIsReady, NoticeIsAlone,
          AvailableIsSettled, Settled
<1>5. StaleIsAstray'
  BY DEF IInv, CoreInv, TypeOK, StaleIsAstray, NoticeIsAlone
<1> QED
  BY <1>0, <1>1, <1>2, <1>3, <1>4, <1>5 DEF IInv

\* A step that leaves the reservations, the queues and the boards alone.
LEMMA FarmQuiet ==
    ASSUME IInv,
           Quiet \/ \E w \in Workers :
                       GracefulShutdown(w) \/ MonitorChecks(w) \/ MonitorExits(w)
    PROVE  IInv'
<1>0. CoreInv'
  BY CoreQuiet, CoreMonitor DEF IInv
<1> USE DEF Quiet, Extend, Expire, Listen, Serve, ReserveFails, GracefulShutdown,
    MonitorChecks, MonitorExits, vars, db, making, news, process, board
<1>1. SessionIsOwned' /\ ResetIsWritten' /\ NoBoardForgotten'
  BY DEF IInv, SessionIsOwned, ResetIsWritten, NoBoardForgotten
<1>2. AvailableIsReady' /\ StaleIsAstray'
  BY DEF IInv, AvailableIsReady, StaleIsAstray
<1> QED
  BY <1>0, <1>1, <1>2 DEF IInv

LEMMA FarmNext ==
    ASSUME IInv, [Next]_vars
    PROVE  IInv'
<1>1. ASSUME ControlStep PROVE IInv'
  <2>1. ASSUME NEW c \in Clients, NEW S \in SUBSET Devices, Reserve(c, S)
        PROVE  IInv'
    BY <2>1, FarmReserve
  <2>2. ASSUME NEW c \in Clients, NEW S \in SUBSET Devices, End(c, S)
        PROVE  IInv'
    <3>1. {d \in S : reservations[d] = c} \in SUBSET Held
      BY DEF Held
    <3> QED
      BY <2>2, <3>1, FarmEndAndReset DEF End
  <2>3. ASSUME HandleReservationTimeouts PROVE IInv'
    <3>1. expired \in SUBSET Held
      BY DEF IInv, CoreInv, ExpiredIsHeld
    <3> QED
      BY <2>3, <3>1, FarmEndAndReset DEF HandleReservationTimeouts
  <2> QED
    BY <1>1, <2>1, <2>2, <2>3, FarmFind, FarmClearWorkers, FarmWorkerTimeouts,
       FarmQuiet DEF ControlStep, Quiet
<1>2. ASSUME NEW w \in Workers, ProcessStep(w) PROVE IInv'
  BY <1>2, FarmStart, FarmStop, FarmListenerDies, FarmUnreserveEnds, FarmQuiet
     DEF ProcessStep, Quiet
<1>3. ASSUME NEW d \in Devices, BoardStep(d) PROVE IInv'
  BY <1>3, FarmAddDevice, FarmDefaultFlashed, FarmTestPassed, FarmKindStep,
     FarmBreaks, FarmUnreserveBegins DEF BoardStep
<1>4. ASSUME CallStep PROVE IInv'
  BY <1>4, FarmReserveArrives, FarmQuiet DEF CallStep, Quiet
<1>5. ASSUME UNCHANGED vars PROVE IInv'
  BY <1>5, FarmQuiet DEF Quiet
<1> QED
  BY <1>1, <1>2, <1>3, <1>4, <1>5 DEF Next

\* The whole inductive invariant, under every fault.
THEOREM FarmInvariance == Spec => []IInv
<1>1. IInv /\ [Next]_vars => IInv'
  BY FarmNext
<1> QED
  BY FarmInit, <1>1, PTL DEF Spec

\* Whoever's state runs on a board that is not astray holds its reservation, or the
\* notification that ends the session is on its way.
THEOREM FarmSessionIsOwned == Spec => []SessionIsOwned
<1>1. IInv => SessionIsOwned
  BY DEF IInv
<1> QED
  BY <1>1, FarmInvariance, PTL

\* A board that waits for its reset has the notification coming, unless its worker
\* was not listening when the reservation ended.
THEOREM FarmNoBoardForgotten == Spec => []NoBoardForgotten
<1>1. IInv => NoBoardForgotten
  BY DEF IInv
<1> QED
  BY <1>1, FarmInvariance, PTL

\* An offered board that is not astray is in ReadyState and no timer threatens it.
THEOREM FarmAvailableIsReady == Spec => []AvailableIsReady
<1>1. IInv => AvailableIsReady
  BY DEF IInv
<1> QED
  BY <1>1, FarmInvariance, PTL
==============================================================================
