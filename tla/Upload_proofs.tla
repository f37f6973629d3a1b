----------------------------- MODULE Upload_proofs -----------------------------
(***************************************************************************)
(* Proofs about Upload: its types, that no accepted bitstream is lost, that *)
(* one state exists at a time, and that a session implements UploadService. *)
(***************************************************************************)
EXTENDS Upload, TLAPS

-----------------------------------------------------------------------------
(* The inductive invariant.                                                *)

\* What the run thread holds at each of its places.
Holding ==
    /\ run \in {"none", "pop", "took", "flush"} => current = None
    /\ run \in {"write", "result", "store"} => current # None
    /\ run = "clear" => current \in results
    /\ run = "took" <=> popped # None

\* What a reboot keeps, and for how long.
Keeping ==
    /\ run \notin {"keep", "lock"} => carry["run"] = <<>>
    /\ run = "lock" => current \in {None} \cup Elems(carry["run"])
    /\ reboot = "no" => carry["reboot"] = <<>>
    /\ state = "upload" => carry["flash"] = <<>>

\* Who holds the device's lock.
Locking ==
    /\ lock = "reboot" <=> reboot # "no"
    /\ lock = "end" <=> ending = "join"

\* A state that is being left, or was left, has an empty queue.
Leaving ==
    /\ shut => queue = <<>>
    /\ run \in {"keep", "lock"} \/ reboot # "no" \/ state = "flash" => shut
    /\ reboot # "no" => state = "upload"

\* A bitstream that was not sent is nowhere.
Unsent == unsent \cap (dropped \cup Waiting \cup results \cup delivered) = {}

\* A file is removed when the result is kept, so that no bitstream is evaluated again.
Once ==
    /\ results \cap delivered = {}
    /\ files \cap (results \cup delivered) = {}
    /\ run \in {"result", "store"} => current \in files

IInv ==
    /\ TypeOK /\ Holding /\ Keeping /\ Locking /\ Leaving /\ Unsent /\ Once
    /\ OneState /\ NothingLost

-----------------------------------------------------------------------------
(* The elements of a sequence.                                             *)

LEMMA ElemsEmpty == Elems(<<>>) = {}
BY DEF Elems

LEMMA ElemsType ==
    ASSUME NEW S, NEW s \in Seq(S)
    PROVE  Elems(s) \subseteq S
BY DEF Elems

LEMMA ElemsAppend ==
    ASSUME NEW S, NEW s \in Seq(S), NEW e \in S
    PROVE  /\ Append(s, e) \in Seq(S)
           /\ Elems(Append(s, e)) = Elems(s) \cup {e}
<1>1. Append(s, e) \in Seq(S) /\ Len(Append(s, e)) = Len(s) + 1
  OBVIOUS
<1>2. \A i \in 1..Len(s) + 1 :
        Append(s, e)[i] = IF i = Len(s) + 1 THEN e ELSE s[i]
  OBVIOUS
<1>3. ASSUME NEW x
      PROVE  x \in Elems(Append(s, e)) <=> x \in Elems(s) \cup {e}
  BY <1>1, <1>2 DEF Elems
<1> QED
  BY <1>1, <1>3

LEMMA ElemsPop ==
    ASSUME NEW S, NEW s \in Seq(S), s # <<>>
    PROVE  /\ Head(s) \in S /\ Tail(s) \in Seq(S)
           /\ Elems(s) = {Head(s)} \cup Elems(Tail(s))
<1>1. /\ Head(s) = s[1] /\ Tail(s) \in Seq(S) /\ Len(s) \in Nat \ {0}
      /\ Len(Tail(s)) = Len(s) - 1
      /\ \A i \in 1..Len(s) - 1 : Tail(s)[i] = s[i + 1]
  OBVIOUS
<1>2. ASSUME NEW x \in Elems(s)
      PROVE  x \in {Head(s)} \cup Elems(Tail(s))
  <2>1. PICK i \in 1..Len(s) : x = s[i]
    BY <1>2 DEF Elems
  <2>2. CASE i = 1
    BY <2>1, <2>2, <1>1
  <2>3. CASE i # 1
    <3>1. i - 1 \in 1..Len(Tail(s)) /\ Tail(s)[i - 1] = s[i]
      BY <2>1, <2>3, <1>1
    <3> QED
      BY <3>1, <2>1 DEF Elems
  <2> QED
    BY <2>2, <2>3
<1>3. ASSUME NEW x \in {Head(s)} \cup Elems(Tail(s))
      PROVE  x \in Elems(s)
  BY <1>1, <1>3 DEF Elems
<1>4. Head(s) \in S
  BY <1>1
<1> QED
  BY <1>1, <1>2, <1>3, <1>4

-----------------------------------------------------------------------------
(* The invariant is inductive.                                             *)

USE NoneAssumption, EventsAssumption, BoundsAssumption

LEMMA Initially == Init => IInv
<1> SUFFICES ASSUME Init PROVE IInv
  OBVIOUS
<1>1. carry \in [Threads -> Seq(Bitstreams)]
  BY DEF Init, Threads
<1>2. TypeOK
  <2>1. queue \in Seq(Bitstreams)
    BY DEF Init
  <2>2. failures \in 0..MaxFailures /\ reboots \in 0..MaxReboots
    BY DEF Init
  <2> QED
    BY <1>1, <2>1, <2>2 DEF Init, TypeOK, RunPlaces
<1>3. Holding /\ Keeping /\ Locking /\ Leaving /\ OneState /\ NothingLost
  BY DEF Init, Holding, Keeping, Locking, Leaving, OneState, NothingLost
<1>4. Unsent /\ Once
  BY ElemsEmpty DEF Init, Unsent, Once, Waiting
<1> QED
  BY <1>2, <1>3, <1>4 DEF IInv

\* A request's bitstream leaves unsent for the queue or for dropped.
LEMMA KeepsEvaluate ==
    ASSUME IInv, NEW b \in Bitstreams, Evaluate(b)
    PROVE  IInv'
<1> USE DEF Evaluate, session, reader, outside, counters
<1>0. /\ queue' \in Seq(Bitstreams)
      /\ \/ queue' = queue /\ dropped' = dropped \cup {b}
         \/ Elems(queue') = Elems(queue) \cup {b} /\ dropped' = dropped /\ state = "upload" /\ ~shut
  <2>1. CASE state = "upload" /\ ~shut
    <3>1. queue' = Append(queue, b) /\ dropped' = dropped
      BY <2>1
    <3> QED
      BY <2>1, <3>1, ElemsAppend DEF IInv, TypeOK
  <2>2. CASE ~(state = "upload" /\ ~shut)
    BY <2>2 DEF IInv, TypeOK
  <2> QED
    BY <2>1, <2>2
<1>1. TypeOK'
  BY <1>0 DEF IInv, TypeOK
<1>2. Holding' /\ Keeping' /\ Locking' /\ Leaving' /\ OneState'
  BY DEF IInv, TypeOK, Holding, Keeping, Locking, Leaving, OneState
<1>3. Unsent'
  BY <1>0, ElemsType DEF IInv, Unsent, Waiting, Holding, Keeping, Leaving
<1>4. NothingLost'
  BY <1>0 DEF IInv, NothingLost, Open, Waiting
<1>5. Once'
  BY DEF IInv, TypeOK, Once, Unsent, Holding
<1> QED
  BY <1>1, <1>2, <1>3, <1>4, <1>5 DEF IInv

\* The popped bitstream is held by the run thread before it is current.
LEMMA KeepsRunPops ==
    ASSUME IInv, RunPops
    PROVE  IInv'
<1> USE DEF RunPops, RunUnchanged, session, reader, outside, counters
<1>0. /\ queue' \in Seq(Bitstreams)
      /\ \/ queue' = queue /\ popped' = popped /\ run' = "none"
         \/ /\ popped' \in Bitstreams /\ run' = "took"
            /\ Elems(queue) = {popped'} \cup Elems(queue')
  BY ElemsPop DEF IInv, TypeOK
<1>1. TypeOK'
  BY <1>0 DEF IInv, TypeOK, RunPlaces
<1>2. Holding' /\ Keeping' /\ Locking' /\ Leaving' /\ OneState'
  BY DEF IInv, TypeOK, Threads, Holding, Keeping, Locking, Leaving, OneState
<1>3. Unsent'
  BY <1>0 DEF IInv, TypeOK, Unsent, Waiting, Holding, Keeping, Leaving
<1>4. NothingLost'
  BY <1>0 DEF IInv, NothingLost, Open, Waiting, Holding
<1>5. Once'
  BY DEF IInv, TypeOK, Once, Unsent, Holding
<1> QED
  BY <1>1, <1>2, <1>3, <1>4, <1>5 DEF IInv

LEMMA KeepsRunTakes ==
    ASSUME IInv, RunTakes
    PROVE  IInv'
<1> USE DEF RunTakes, RunUnchanged, session, reader, outside, counters
<1>1. TypeOK'
  BY DEF IInv, TypeOK, RunPlaces
<1>2. Holding' /\ Keeping' /\ Locking' /\ Leaving' /\ OneState'
  BY DEF IInv, TypeOK, Threads, Holding, Keeping, Locking, Leaving, OneState
<1>3. Unsent'
  BY DEF IInv, Unsent, Waiting, Holding, Keeping, Leaving
<1>4. NothingLost'
  BY DEF IInv, NothingLost, Open, Waiting, Holding
<1>5. Once'
  BY DEF IInv, TypeOK, Once, Unsent, Holding
<1> QED
  BY <1>1, <1>2, <1>3, <1>4, <1>5 DEF IInv

LEMMA KeepsRunWrites ==
    ASSUME IInv, RunWrites
    PROVE  IInv'
<1> USE DEF RunWrites, RunUnchanged, session, reader, outside, counters
<1>1. TypeOK'
  <2>1. queue' \in Seq(Bitstreams) /\ carry' \in [Threads -> Seq(Bitstreams)]
    BY DEF IInv, TypeOK
  <2>2. ready' \in BOOLEAN /\ run' \in RunPlaces
    BY DEF IInv, TypeOK, RunPlaces
  <2>3. board' \in {"idle", "busy", "printed", "gone"} /\ last' = last
    BY DEF IInv, TypeOK
  <2> QED
    BY <2>1, <2>2, <2>3 DEF IInv, TypeOK
<1>2. Holding' /\ Keeping' /\ Locking' /\ Leaving' /\ OneState'
  BY DEF IInv, TypeOK, Holding, Keeping, Locking, Leaving, OneState
<1>3. Unsent'
  BY DEF IInv, Unsent, Waiting, Holding, Keeping, Leaving
<1>4. NothingLost'
  BY DEF IInv, NothingLost, Open, Waiting
<1>5. Once'
  BY DEF IInv, TypeOK, Once, Unsent, Holding
<1> QED
  BY <1>1, <1>2, <1>3, <1>4, <1>5 DEF IInv

LEMMA KeepsRunGetsResult ==
    ASSUME IInv, RunGetsResult
    PROVE  IInv'
<1> USE DEF RunGetsResult, RunUnchanged, session, reader, outside, counters
<1>1. TypeOK'
  BY DEF IInv, TypeOK, RunPlaces
<1>2. Holding' /\ Keeping' /\ Locking' /\ Leaving' /\ OneState'
  BY DEF IInv, TypeOK, Threads, Holding, Keeping, Locking, Leaving, OneState
<1>3. Unsent'
  BY DEF IInv, Unsent, Waiting, Holding, Keeping, Leaving
<1>4. NothingLost'
  BY DEF IInv, NothingLost, Open, Waiting
<1>5. Once'
  BY DEF IInv, TypeOK, Once, Unsent, Holding
<1> QED
  BY <1>1, <1>2, <1>3, <1>4, <1>5 DEF IInv

LEMMA KeepsRunStores ==
    ASSUME IInv, RunStores
    PROVE  IInv'
<1> USE DEF RunStores, RunUnchanged, session, reader, outside, counters
<1>1. TypeOK'
  BY DEF IInv, TypeOK, RunPlaces, Holding
<1>2. Holding' /\ Keeping' /\ Locking' /\ Leaving' /\ OneState'
  BY DEF IInv, TypeOK, Threads, Holding, Keeping, Locking, Leaving, OneState
<1>3. Unsent'
  BY DEF IInv, Unsent, Waiting, Holding, Keeping, Leaving
<1>4. NothingLost'
  BY DEF IInv, NothingLost, Open, Waiting
<1>5. Once'
  BY DEF IInv, TypeOK, Once, Unsent, Holding
<1> QED
  BY <1>1, <1>2, <1>3, <1>4, <1>5 DEF IInv

\* current_bitstream is reset when its result is kept.
LEMMA KeepsRunClears ==
    ASSUME IInv, RunClears
    PROVE  IInv'
<1> USE DEF RunClears, RunUnchanged, session, reader, outside, counters
<1>1. TypeOK'
  BY DEF IInv, TypeOK, RunPlaces
<1>2. Holding' /\ Keeping' /\ Locking' /\ Leaving' /\ OneState'
  BY DEF IInv, TypeOK, Threads, Holding, Keeping, Locking, Leaving, OneState
<1>3. Unsent'
  BY DEF IInv, Unsent, Waiting, Holding, Keeping, Leaving
<1>4. NothingLost'
  BY DEF IInv, NothingLost, Open, Waiting, Holding
<1>5. Once'
  BY DEF IInv, TypeOK, Once, Unsent, Holding
<1> QED
  BY <1>1, <1>2, <1>3, <1>4, <1>5 DEF IInv

\* Results that are sent are delivered.
LEMMA KeepsRunFlushes ==
    ASSUME IInv, RunFlushes
    PROVE  IInv'
<1> USE DEF RunFlushes, RunUnchanged, session, reader, outside, counters
<1>1. TypeOK'
  BY DEF IInv, TypeOK, RunPlaces
<1>2. Holding' /\ Keeping' /\ Locking' /\ Leaving' /\ OneState'
  BY DEF IInv, TypeOK, Threads, Holding, Keeping, Locking, Leaving, OneState
<1>3. Unsent'
  BY DEF IInv, Unsent, Waiting, Holding, Keeping, Leaving
<1>4. NothingLost'
  BY DEF IInv, NothingLost, Open, Waiting
<1>5. Once'
  BY DEF IInv, TypeOK, Once, Unsent, Holding
<1> QED
  BY <1>1, <1>2, <1>3, <1>4, <1>5 DEF IInv

\* The queue moves to the list the run thread keeps.
LEMMA KeepsRunShutsDown ==
    ASSUME IInv, RunShutsDown
    PROVE  IInv'
<1> USE DEF RunShutsDown, session, reader, outside, counters
<1>1. TypeOK'
  BY DEF IInv, TypeOK, RunPlaces, Threads
<1>2. Holding' /\ Keeping' /\ Locking' /\ Leaving' /\ OneState'
  BY DEF IInv, TypeOK, Threads, Holding, Keeping, Locking, Leaving, OneState
<1>3. Unsent'
  BY DEF IInv, Unsent, Waiting, Holding, Keeping, Leaving
<1>4. NothingLost'
  BY DEF IInv, TypeOK, Threads, NothingLost, Open, Waiting, Holding, Keeping
<1>5. Once'
  BY DEF IInv, TypeOK, Once, Unsent, Holding
<1> QED
  BY <1>1, <1>2, <1>3, <1>4, <1>5 DEF IInv

LEMMA KeepsRunKeeps ==
    ASSUME IInv, RunKeeps
    PROVE  IInv'
<1> USE DEF RunKeeps, session, reader, outside, counters
<1>1. TypeOK'
  BY DEF IInv, TypeOK, RunPlaces, Threads
<1>2. Holding' /\ Keeping' /\ Locking' /\ Leaving' /\ OneState'
  BY ElemsAppend DEF IInv, TypeOK, Threads, Holding, Keeping, Locking, Leaving, OneState
<1>3. Unsent'
  BY ElemsAppend DEF IInv, TypeOK, Threads, Unsent, Waiting, Holding, Keeping, Leaving
<1>4. NothingLost'
  BY ElemsAppend DEF IInv, TypeOK, NothingLost, Open, Waiting
<1>5. Once'
  BY DEF IInv, TypeOK, Once, Unsent, Holding
<1> QED
  BY <1>1, <1>2, <1>3, <1>4, <1>5 DEF IInv

\* What the run thread kept, its current bitstream included, goes to the FlashState.
LEMMA KeepsRunSwitches ==
    ASSUME IInv, RunSwitches
    PROVE  IInv'
<1> USE DEF RunSwitches, SwitchToFlash, session, reader, outside, counters
<1>1. TypeOK'
  BY DEF IInv, TypeOK, RunPlaces, Threads
<1>2. Holding' /\ Keeping' /\ Locking' /\ Leaving' /\ OneState'
  BY DEF IInv, TypeOK, Threads, Holding, Keeping, Locking, Leaving, OneState
<1>3. Unsent'
  BY DEF IInv, TypeOK, Threads, Unsent, Waiting, Holding, Keeping, Leaving
<1>4. NothingLost'
  BY DEF IInv, TypeOK, Threads, NothingLost, Open, Waiting, Keeping, OneState
<1>5. Once'
  BY DEF IInv, TypeOK, Once, Unsent, Holding
<1> QED
  BY <1>1, <1>2, <1>3, <1>4, <1>5 DEF IInv

\* The board and its reader hold no bitstream.
LEMMA KeepsBoard ==
    ASSUME IInv, BoardStep
    PROVE  IInv'
<1> USE DEF BoardStep, BoardAnswers, BoardTimesOut, BoardWaits, BoardGoes,
            BoardUnchanged, session, reader, outside, counters
<1>1. TypeOK'
  <2>1. queue' \in Seq(Bitstreams) /\ carry' \in [Threads -> Seq(Bitstreams)]
    BY DEF IInv, TypeOK
  <2>2. failures' \in 0..MaxFailures
    BY DEF IInv, TypeOK
  <2>3. /\ ready' \in BOOLEAN /\ last' \in {"none", "value", "failed"}
        /\ board' \in {"idle", "busy", "printed", "gone"}
    BY DEF IInv, TypeOK
  <2> QED
    BY <2>1, <2>2, <2>3 DEF IInv, TypeOK
<1>2. Holding' /\ Keeping' /\ Locking' /\ Leaving' /\ OneState'
  BY DEF IInv, TypeOK, Holding, Keeping, Locking, Leaving, OneState
<1>3. Unsent'
  BY DEF IInv, Unsent, Waiting, Holding, Keeping, Leaving
<1>4. NothingLost'
  BY DEF IInv, NothingLost, Open, Waiting
<1>5. Once'
  BY DEF IInv, TypeOK, Once, Unsent, Holding
<1> QED
  BY <1>1, <1>2, <1>3, <1>4, <1>5 DEF IInv

\* The queue moves to the list /reboot keeps.
LEMMA KeepsRebootStarts ==
    ASSUME IInv, RebootStarts
    PROVE  IInv'
<1> USE DEF RebootStarts, session, reader, outside, counters
<1>1. TypeOK'
  BY DEF IInv, TypeOK, Threads
<1>2. Holding' /\ Keeping' /\ Locking' /\ Leaving' /\ OneState'
  BY DEF IInv, TypeOK, Holding, Keeping, Locking, Leaving, OneState
<1>3. Unsent'
  BY DEF IInv, Unsent, Waiting, Holding, Keeping, Leaving
<1>4. NothingLost'
  BY DEF IInv, TypeOK, Threads, NothingLost, Open, Waiting, Holding, Keeping
<1>5. Once'
  BY DEF IInv, TypeOK, Once, Unsent, Holding
<1> QED
  BY <1>1, <1>2, <1>3, <1>4, <1>5 DEF IInv

LEMMA KeepsRebootKeeps ==
    ASSUME IInv, RebootKeeps
    PROVE  IInv'
<1> USE DEF RebootKeeps, session, reader, outside, counters
<1>1. TypeOK'
  BY DEF IInv, TypeOK, Threads
<1>2. Holding' /\ Keeping' /\ Locking' /\ Leaving' /\ OneState'
  BY ElemsAppend DEF IInv, TypeOK, Holding, Keeping, Locking, Leaving, OneState
<1>3. Unsent'
  BY ElemsAppend DEF IInv, TypeOK, Unsent, Waiting, Holding, Keeping, Leaving
<1>4. NothingLost'
  BY ElemsAppend DEF IInv, TypeOK, NothingLost, Open, Waiting
<1>5. Once'
  BY DEF IInv, TypeOK, Once, Unsent, Holding
<1> QED
  BY <1>1, <1>2, <1>3, <1>4, <1>5 DEF IInv

\* The run thread has ended, so it holds nothing and keeps nothing.
LEMMA KeepsRebootSwitches ==
    ASSUME IInv, RebootSwitches
    PROVE  IInv'
<1> USE DEF RebootSwitches, SwitchToFlash, session, reader, outside, counters
<1>1. TypeOK'
  BY DEF IInv, TypeOK, Threads
<1>2. Holding' /\ Keeping' /\ Locking' /\ Leaving' /\ OneState'
  BY DEF IInv, TypeOK, Threads, Holding, Keeping, Locking, Leaving, OneState
<1>3. Unsent'
  BY DEF IInv, TypeOK, Threads, Unsent, Waiting, Holding, Keeping, Leaving
<1>4. NothingLost'
  BY DEF IInv, TypeOK, Threads, NothingLost, Open, Waiting, Holding, Keeping, Leaving
<1>5. Once'
  BY DEF IInv, TypeOK, Once, Unsent, Holding
<1> QED
  BY <1>1, <1>2, <1>3, <1>4, <1>5 DEF IInv

\* The new state's queue is the list that was kept.
LEMMA KeepsFlashDone ==
    ASSUME IInv, FlashDone
    PROVE  IInv'
<1> USE DEF FlashDone, session, reader, outside, counters
<1>1. TypeOK'
  <2>1. queue' \in Seq(Bitstreams) /\ carry' \in [Threads -> Seq(Bitstreams)]
    BY DEF IInv, TypeOK, Threads
  <2> QED
    BY <2>1 DEF IInv, TypeOK, RunPlaces
<1>2. Holding' /\ Keeping' /\ Locking' /\ Leaving' /\ OneState'
  BY DEF IInv, TypeOK, Threads, Holding, Keeping, Locking, Leaving, OneState
<1>3. Unsent'
  BY DEF IInv, TypeOK, Threads, Unsent, Waiting, Holding, Keeping, Leaving
<1>4. NothingLost'
  BY DEF IInv, NothingLost, Open, Waiting, Keeping, Leaving
<1>5. Once'
  BY DEF IInv, TypeOK, Once, Unsent, Holding
<1> QED
  BY <1>1, <1>2, <1>3, <1>4, <1>5 DEF IInv

\* The session ends with its state.
LEMMA KeepsFlashFails ==
    ASSUME IInv, FlashFails
    PROVE  IInv'
<1> USE DEF FlashFails, session, reader, outside, counters
<1>1. TypeOK'
  BY DEF IInv, TypeOK, Threads
<1>2. Holding' /\ Keeping' /\ Locking' /\ Leaving' /\ OneState'
  BY DEF IInv, TypeOK, Holding, Keeping, Locking, Leaving, OneState
<1>3. Unsent'
  BY DEF IInv, Unsent, Waiting, Holding, Keeping, Leaving
<1>4. NothingLost'
  BY DEF IInv, NothingLost, Open
<1>5. Once'
  BY DEF IInv, TypeOK, Once, Unsent, Holding
<1> QED
  BY <1>1, <1>2, <1>3, <1>4, <1>5 DEF IInv

\* A flash that stays as it is keeps its list.
LEMMA KeepsFlashStalls ==
    ASSUME IInv, FlashStalls
    PROVE  IInv'
<1> USE DEF FlashStalls, session, reader, outside, counters
<1>1. TypeOK'
  BY DEF IInv, TypeOK
<1>2. Holding' /\ Keeping' /\ Locking' /\ Leaving' /\ OneState'
  BY DEF IInv, TypeOK, Holding, Keeping, Locking, Leaving, OneState
<1>3. Unsent'
  BY DEF IInv, Unsent, Waiting, Holding, Keeping, Leaving
<1>4. NothingLost'
  BY DEF IInv, NothingLost, Open, Waiting
<1>5. Once'
  BY DEF IInv, TypeOK, Once, Unsent, Holding
<1> QED
  BY <1>1, <1>2, <1>3, <1>4, <1>5 DEF IInv

\* A state without run thread has the list as its queue.
LEMMA KeepsHalfStarts ==
    ASSUME IInv, HalfStarts
    PROVE  IInv'
<1> USE DEF HalfStarts, session, reader, outside, counters
<1>1. TypeOK'
  <2>1. queue' \in Seq(Bitstreams) /\ carry' \in [Threads -> Seq(Bitstreams)]
    BY DEF IInv, TypeOK, Threads
  <2>2. run' = run /\ shut' = FALSE /\ state' = "upload"
    OBVIOUS
  <2> QED
    BY <2>1, <2>2 DEF IInv, TypeOK
<1>2. Holding' /\ Keeping' /\ Locking' /\ Leaving' /\ OneState'
  BY DEF IInv, TypeOK, Threads, Holding, Keeping, Locking, Leaving, OneState
<1>3. Unsent'
  BY DEF IInv, TypeOK, Threads, Unsent, Waiting, Holding, Keeping, Leaving
<1>4. NothingLost'
  BY DEF IInv, NothingLost, Open, Waiting, Keeping, Leaving
<1>5. Once'
  BY DEF IInv, TypeOK, Once, Unsent, Holding
<1> QED
  BY <1>1, <1>2, <1>3, <1>4, <1>5 DEF IInv

LEMMA KeepsEndStarts ==
    ASSUME IInv, EndStarts
    PROVE  IInv'
<1> USE DEF EndStarts, session, reader, outside, counters
<1>1. TypeOK'
  <2>1. queue' \in Seq(Bitstreams) /\ carry' \in [Threads -> Seq(Bitstreams)]
    <3>1. queue' \in {queue, <<>>} /\ carry' = carry
      BY Zenon
    <3>2. <<>> \in Seq(Bitstreams)
      OBVIOUS
    <3> QED
      BY <3>1, <3>2, Zenon DEF IInv, TypeOK
  <2>2. shut' \in BOOLEAN
    BY DEF IInv, TypeOK
  <2> QED
    BY <2>1, <2>2 DEF IInv, TypeOK
<1>2. Holding' /\ Keeping' /\ Locking' /\ Leaving' /\ OneState'
  BY DEF IInv, TypeOK, Holding, Keeping, Locking, Leaving, OneState
<1>3. Unsent'
  BY DEF IInv, Unsent, Waiting, Holding, Keeping, Leaving
<1>4. NothingLost'
  BY DEF IInv, NothingLost, Open, Holding
<1>5. Once'
  BY DEF IInv, TypeOK, Once, Unsent, Holding
<1> QED
  BY <1>1, <1>2, <1>3, <1>4, <1>5 DEF IInv

LEMMA KeepsEndSwitches ==
    ASSUME IInv, EndSwitches
    PROVE  IInv'
<1> USE DEF EndSwitches, session, reader, outside, counters
<1>1. TypeOK'
  BY DEF IInv, TypeOK
<1>2. Holding' /\ Keeping' /\ Locking' /\ Leaving' /\ OneState'
  BY DEF IInv, TypeOK, Holding, Keeping, Locking, Leaving, OneState
<1>3. Unsent'
  BY DEF IInv, Unsent, Waiting, Holding, Keeping, Leaving
<1>4. NothingLost'
  BY DEF IInv, NothingLost, Open
<1>5. Once'
  BY DEF IInv, TypeOK, Once, Unsent, Holding
<1> QED
  BY <1>1, <1>2, <1>3, <1>4, <1>5 DEF IInv

LEMMA KeepsRunStep == IInv /\ RunStep => IInv'
BY KeepsRunPops, KeepsRunTakes, KeepsRunWrites, KeepsRunGetsResult, KeepsRunStores,
   KeepsRunClears, KeepsRunFlushes, KeepsRunShutsDown, KeepsRunKeeps, KeepsRunSwitches
   DEF RunStep

LEMMA Stutters == IInv /\ UNCHANGED vars => IInv'
BY DEF vars, session, reader, outside, counters, IInv, TypeOK, RunPlaces, Holding, Keeping,
       Locking, Leaving, Unsent, Once, OneState, NothingLost, Open, Waiting, Elems

\* Every step preserves the invariant.
LEMMA Inductive == IInv /\ [Next]_vars => IInv'
BY KeepsEvaluate, KeepsRunStep, KeepsBoard, KeepsFlashDone, KeepsFlashFails,
   KeepsFlashStalls, KeepsHalfStarts,
   KeepsRebootKeeps, KeepsRebootSwitches, KeepsEndSwitches, KeepsRebootStarts,
   KeepsEndStarts, Stutters
   DEF Next, FlashStep, SwitchStep

\* The threads of a session on a board keep the invariant, wherever they interleave.
THEOREM Invariance == Spec => []IInv
<1> QED
  BY Initially, Inductive, PTL DEF Spec

\* The variables of a session keep their types.
THEOREM Types == Spec => []TypeOK
<1>1. IInv => TypeOK
  BY DEF IInv
<1> QED
  BY <1>1, Invariance, PTL

\* No bitstream the worker accepted is lost while its session lasts, whatever
\* the run thread, /reboot, the board and the end of the reservation do.
THEOREM Keeps == Spec => []NothingLost
<1>1. IInv => NothingLost
  BY DEF IInv
<1> QED
  BY <1>1, Invariance, PTL

\* A run thread never outlives its UploadState.
THEOREM Alone == Spec => []OneState
<1>1. IInv => OneState
  BY DEF IInv
<1> QED
  BY <1>1, Invariance, PTL

-----------------------------------------------------------------------------
(* The session implements UploadService.                                   *)

\* The phase of a bitstream, when none is lost.
PhaseOf(b) ==
    IF ~Open THEN "closed" ELSE IF b \in unsent THEN "unsent"
    ELSE IF b \in dropped THEN "refused" ELSE IF b \in delivered THEN "delivered"
    ELSE IF b \in results THEN "evaluated" ELSE "accepted"

phase == [b \in Bitstreams |-> Phase(b)]

LEMMA PhaseIs == IInv => phase = [b \in Bitstreams |-> PhaseOf(b)]
<1>1. ASSUME IInv, NEW b \in Bitstreams PROVE Phase(b) = PhaseOf(b)
  BY <1>1 DEF IInv, TypeOK, NothingLost, Once, Phase, PhaseOf
<1> QED
  BY <1>1 DEF phase

LEMMA PhaseIsNext == IInv' => phase' = [b \in Bitstreams |-> PhaseOf(b)']
<1>1. ASSUME IInv', NEW b \in Bitstreams PROVE Phase(b)' = PhaseOf(b)'
  BY <1>1 DEF IInv, TypeOK, NothingLost, Once, Phase, PhaseOf
<1> QED
  BY <1>1 DEF phase

\* A session that ended does not start again.
LEMMA StaysClosed ==
    ASSUME IInv, Next, Open'
    PROVE  Open
<1> USE DEF Open, IInv, TypeOK, RunUnchanged, BoardUnchanged, SwitchToFlash
<1>1. CASE \E b \in Bitstreams : Evaluate(b)
  BY <1>1 DEF Evaluate
<1>2. CASE RunStep
  BY <1>2 DEF RunStep, RunPops, RunTakes, RunWrites, RunGetsResult, RunStores, RunClears,
              RunFlushes, RunShutsDown, RunKeeps, RunSwitches, OneState
<1>3. CASE BoardStep
  BY <1>3 DEF BoardStep, BoardAnswers, BoardTimesOut, BoardWaits, BoardGoes
<1>4. CASE FlashStep \/ SwitchStep \/ RebootStarts \/ EndStarts
  BY <1>4 DEF FlashStep, FlashDone, FlashFails, FlashStalls, HalfStarts, SwitchStep, RebootKeeps, RebootSwitches,
              EndSwitches, RebootStarts, EndStarts, Leaving
<1> QED
  BY <1>1, <1>2, <1>3, <1>4 DEF Next

\* What the client can tell of a step.
Told == UNCHANGED <<unsent, dropped, delivered, results>>

\* Only the arrival of a bitstream, its result and a flush can be told.
LEMMA Quiet ==
    ASSUME IInv, Next
    PROVE  \/ Told
           \/ \E b \in Bitstreams : Evaluate(b)
           \/ RunStores
           \/ RunFlushes
<1> USE DEF Told, RunUnchanged, BoardUnchanged, SwitchToFlash, outside, session
<1>1. CASE RunStep
  BY <1>1 DEF RunStep, RunPops, RunTakes, RunWrites, RunGetsResult, RunClears,
              RunShutsDown, RunKeeps, RunSwitches
<1>2. CASE BoardStep
  BY <1>2 DEF BoardStep, BoardAnswers, BoardTimesOut, BoardWaits, BoardGoes
<1>3. CASE FlashStep \/ SwitchStep \/ RebootStarts \/ EndStarts
  BY <1>3 DEF FlashStep, FlashDone, FlashFails, FlashStalls, HalfStarts, SwitchStep, RebootKeeps, RebootSwitches,
              EndSwitches, RebootStarts, EndStarts
<1> QED
  BY <1>1, <1>2, <1>3 DEF Next

LEMMA Simulates ==
    ASSUME IInv, [Next]_vars
    PROVE  [Service!Next]_<<phase, Open>>
<1> DEFINE of == [b \in Bitstreams |-> PhaseOf(b)]
           next == [b \in Bitstreams |-> PhaseOf(b)']
<1>0. IInv' /\ phase = of /\ phase' = next /\ Open \in BOOLEAN
  BY Inductive, PhaseIs, PhaseIsNext DEF Open
<1>1. CASE UNCHANGED vars
  <2>1. next = of /\ Open' = Open
    BY <1>1 DEF vars, session, outside, PhaseOf, Open
  <2> QED
    BY <2>1, <1>0
<1>2. CASE Next /\ ~Open
  <2>1. ~Open'
    BY <1>2, StaysClosed
  <2>2. next = of
    BY <1>2, <2>1 DEF PhaseOf
  <2>3. Open' = Open
    BY <1>2, <2>1 DEF Open
  <2> QED
    BY <2>2, <2>3, <1>0
<1>3. CASE Next /\ Open /\ ~Open'
  <2>1. next = [b \in Bitstreams |-> "closed"]
    BY <1>3 DEF PhaseOf
  <2>2. Open' = FALSE
    BY <1>3, <1>0 DEF Open
  <2>3. Service!Close
    BY <1>3, <2>1, <2>2, <1>0 DEF Service!Close, phase
  <2> QED
    BY <2>3 DEF Service!Next
<1>4. CASE Next /\ Open /\ Open'
  <2> USE <1>4
  <2>0. ASSUME NEW S \in SUBSET Bitstreams, NEW f, NEW t,
               \A b \in S : PhaseOf(b) = f /\ PhaseOf(b)' = t,
               \A b \in Bitstreams \ S : PhaseOf(b)' = PhaseOf(b)
        PROVE  Service!Move(S, f, t)
    <3>1. \A b \in S : of[b] = f
      BY <2>0
    <3>2. next = [b \in Bitstreams |-> IF b \in S THEN t ELSE of[b]]
      BY <2>0
    <3>3. Open' = TRUE
      BY DEF Open
    <3> QED
      BY <3>1, <3>2, <3>3, <1>0 DEF Service!Move, phase
  <2>1. CASE Told
    <3>1. next = of
      BY <2>1 DEF Told, PhaseOf
    <3>2. Open' = Open
      BY DEF Open
    <3> QED
      BY <3>1, <3>2, <1>0
  <2>2. ASSUME NEW b \in Bitstreams, Evaluate(b) PROVE Service!Next
    <3> USE <2>2
    <3>1. /\ b \in unsent /\ unsent' = unsent \ {b}
          /\ delivered' = delivered /\ results' = results
          /\ dropped' = dropped \/ dropped' = dropped \cup {b}
      BY DEF Evaluate
    <3>2. b \notin dropped \cup delivered \cup results
      BY <3>1 DEF IInv, Unsent
    <3>3. \A c \in Bitstreams \ {b} : PhaseOf(c)' = PhaseOf(c)
      BY <3>1 DEF PhaseOf
    <3>4. CASE dropped' = dropped
      <4>1. PhaseOf(b) = "unsent" /\ PhaseOf(b)' = "accepted"
        BY <3>1, <3>2, <3>4 DEF PhaseOf
      <4>2. Service!Accept(b)
        BY <4>1, <3>3, <2>0 DEF Service!Accept
      <4> QED
        BY <4>2 DEF Service!Next
    <3>5. CASE dropped' = dropped \cup {b}
      <4>1. PhaseOf(b) = "unsent" /\ PhaseOf(b)' = "refused"
        BY <3>1, <3>5 DEF PhaseOf
      <4>2. Service!Refuse(b)
        BY <4>1, <3>3, <2>0 DEF Service!Refuse
      <4> QED
        BY <4>2 DEF Service!Next
    <3> QED
      BY <3>1, <3>4, <3>5
  <2>3. CASE RunStores
    <3>1. /\ unsent' = unsent /\ dropped' = dropped /\ delivered' = delivered
          /\ results' = results \cup {current} /\ current \in Bitstreams
          /\ current \notin unsent
      BY <2>3 DEF RunStores, RunUnchanged, IInv, TypeOK, Holding, Unsent, Waiting
    <3>2. PICK b \in Bitstreams : b = current
      BY <3>1
    <3>3. \A c \in Bitstreams \ {b} : PhaseOf(c)' = PhaseOf(c)
      BY <3>1, <3>2 DEF PhaseOf
    <3>4. CASE b \in dropped \cup delivered \cup results
      <4>1. PhaseOf(b)' = PhaseOf(b)
        BY <3>1, <3>2, <3>4 DEF PhaseOf
      <4>2. next = of
        BY <4>1, <3>3
      <4>3. Open' = Open
        BY DEF Open
      <4> QED
        BY <4>2, <4>3, <1>0
    <3>5. CASE b \notin dropped \cup delivered \cup results
      <4>1. PhaseOf(b) = "accepted" /\ PhaseOf(b)' = "evaluated"
        BY <3>1, <3>2, <3>5 DEF PhaseOf
      <4>2. Service!Evaluated(b)
        BY <4>1, <3>3, <2>0 DEF Service!Evaluated
      <4> QED
        BY <4>2 DEF Service!Next
    <3> QED
      BY <3>4, <3>5
  <2>4. CASE RunFlushes /\ ~Told
    <3>1. /\ unsent' = unsent /\ dropped' = dropped /\ results' = {}
          /\ delivered' = delivered \cup results
      BY <2>4 DEF RunFlushes, RunUnchanged, Told
    <3> DEFINE S == results \ (unsent \cup dropped \cup delivered)
    <3>2. S \in SUBSET Bitstreams
      BY DEF IInv, TypeOK
    <3>3. \A b \in S : PhaseOf(b) = "evaluated" /\ PhaseOf(b)' = "delivered"
      BY <3>1 DEF PhaseOf
    <3>4. \A b \in Bitstreams \ S : PhaseOf(b)' = PhaseOf(b)
      BY <3>1 DEF PhaseOf
    <3>5. Service!Deliver(S)
      BY <3>2, <3>3, <3>4, <2>0 DEF Service!Deliver
    <3> QED
      BY <3>2, <3>5 DEF Service!Next
  <2> QED
    BY <2>1, <2>2, <2>3, <2>4, Quiet
<1> QED
  BY <1>1, <1>2, <1>3, <1>4

\* A session implements UploadService: accepted bitstreams are evaluated once
\* and their results sent once, through every reboot, until it ends.
THEOREM Implements == Spec => ServiceSpec
<1>1. Init => Service!Init
  <2> SUFFICES ASSUME Init PROVE Service!Init
    OBVIOUS
  <2>1. Open = TRUE
    BY DEF Init, Open
  <2>2. \A b \in Bitstreams : PhaseOf(b) = "unsent"
    BY <2>1 DEF Init, PhaseOf
  <2>3. phase = [b \in Bitstreams |-> "unsent"]
    BY <2>2, Initially, PhaseIs
  <2> QED
    BY <2>1, <2>3 DEF Service!Init, phase
<1>2. IInv /\ [Next]_vars => [Service!Next]_<<[b \in Bitstreams |-> Phase(b)], Open>>
  BY Simulates DEF phase
<1> QED
  BY <1>1, <1>2, Invariance, PTL DEF Spec, ServiceSpec, Service!Spec
===============================================================================
