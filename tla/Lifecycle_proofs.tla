-------------------------- MODULE Lifecycle_proofs --------------------------
(***************************************************************************)
(* Proofs about Lifecycle, for any number of Device objects, reservations   *)
(* and failures: the objects that a /delete leaves behind do nothing more,  *)
(* a state has the firmware it needs, and a board that is offered is ready.  *)
(***************************************************************************)
EXTENDS Lifecycle, TLAPS

USE BoundsAssumption

-----------------------------------------------------------------------------
(* The inductive invariant.                                                *)

\* A /delete has found an object, and has one thread.
Found ==
    /\ deleting \in {"exit", "remove"} => entry # 0
    /\ \A t \in waiting : t.what = "delete" => deleting = "exit" /\ t.object = entry

Waits(what) == \E t \in waiting : t.what = what

\* A reservation, or what its end has left to do.
Claimed == reserved \/ notice > 0 \/ Waits("unreserve")

\* No timer is stale, and only the object in _devs has a state that acts, or a thread; but
\* for those whose constructor raised.
Driven ==
    /\ \A o \in Objects : obj[o].stale = 0
    /\ \A o \in Objects \ ({entry} \cup orphans) : obj[o].state \notin Timed \cup Session
    /\ \A t \in waiting : t.object = entry

\* An object whose constructor raised was never in _devs, and has but its timer.
Orphaned ==
    /\ entry \notin orphans
    /\ \A o \in Objects : events[o] # {} => o \in (1..made) \ orphans
    /\ \A o \in orphans : obj[o].state \in {"flash_default", "broken"}

\* The firmware of each state.
Programmed ==
    entry # 0 => /\ obj[entry].state = "connecting" => board \in {"to_kind", "kind"}
                 /\ obj[entry].state = "upload" => board = "kind"
                 /\ obj[entry].state = "ready" => board = "default"

\* A reservation is one of: held, ended and to be notified, or notified.
Exclusive ==
    /\ reserved => notice = 0 /\ ~Waits("unreserve")
    /\ notice > 0 => notice = 1 /\ ~Waits("unreserve")
    /\ call => reserved /\ ~Waits("reserve")

\* What each state says of the reservation and of the board's status.
Paced ==
    /\ status = "available" => /\ entry # 0 /\ obj[entry].state = "ready"
                               /\ ~Claimed /\ ~Waits("reserve")
    /\ call \/ Waits("reserve") => entry # 0 /\ obj[entry].state = "ready"
    /\ entry = 0 => ~Claimed
    /\ (entry # 0 /\ obj[entry].state \in Timed) => ~Claimed
    /\ deleting \in {"exit", "remove"} => ~Claimed /\ obj[entry].state = "broken"

Orderly == Driven /\ Orphaned /\ Programmed /\ Exclusive /\ Paced

IInv == TypeOK /\ Found /\ (~crossed => Orderly)

-----------------------------------------------------------------------------
(* Views.                                                                  *)

Places == App \cup Moving \cup {"boot"}

Views ==
    [state : Kinds, taken : SUBSET Nodes, timer : {"off", "on", "fired"}, stale : Nat,
     board : Places, status : Status, failures : 0..MaxFailures, spoiled : BOOLEAN]

Typed(v) == v \in Views /\ (v.timer # "off" => v.state \in Timed)

\* Thread w comes from v by a step that makes the state s and the board b.
Makes(v, w, s, b) ==
    /\ Typed(w) /\ w.state = s /\ w.board = b
    /\ w.status = Written(s, v.status) /\ w.stale = v.stale

\* What an event makes of a view.
Reaches(v, w) ==
    /\ Typed(w) /\ w.stale = v.stale
    /\ \/ w.state = v.state /\ w.status = v.status /\ (v.state \in Flashing \/ w.board = v.board)
       \/ v.state \in Flashing /\ Makes(v, w, Following(v.state), Target(v.state))
       \/ v.state \in Flashing /\ Makes(v, w, "broken", v.board)
       \/ v.state = "test" /\ v.board = "default" /\ Makes(v, w, "ready", "default")

LEMMA BecomeIs ==
    ASSUME NEW v \in Views, NEW s \in Kinds
    PROVE  Makes(v, Become(v, s), s, v.board)
<1> DEFINE w == Become(v, s)
<1>1. w = [v EXCEPT !.state = s, !.taken = {}, !.status = Written(s, @),
                    !.timer = IF s \in Timed THEN "on" ELSE "off"]
  BY DEF Become
<1> HIDE DEF w
<1>2. Written(s, v.status) \in Status
  BY DEF Written, Status, Views
<1>3. w \in Views /\ w.state = s /\ w.board = v.board /\ w.status = Written(s, v.status)
      /\ w.stale = v.stale /\ w.timer = IF s \in Timed THEN "on" ELSE "off"
  BY <1>1, <1>2 DEF Views
<1>4. Makes(v, w, s, v.board)
  BY <1>3 DEF Makes, Typed
<1> QED
  BY <1>4 DEF w

\* AbstractState.switch does nothing once the timer has fired.
LEMMA SwitchIs ==
    ASSUME NEW v, Typed(v), NEW s \in Kinds
    PROVE  IF v.timer = "fired" THEN Switch(v, s) = v
           ELSE Makes(v, Switch(v, s), s, v.board)
BY BecomeIs DEF Switch, Typed

LEMMA MarksAre ==
    ASSUME NEW v, Typed(v), NEW node \in Nodes
    PROVE  /\ Typed(Late(v)) /\ Typed(Take(v, node))
           /\ Late(v).state = v.state /\ Late(v).status = v.status /\ Late(v).board = v.board
           /\ Late(v).stale = v.stale /\ Late(v).timer = v.timer
           /\ Take(v, node).state = v.state /\ Take(v, node).status = v.status
           /\ Take(v, node).board = v.board /\ Take(v, node).stale = v.stale
           /\ Take(v, node).timer = v.timer
<1> DEFINE a == Late(v)
           b == Take(v, node)
<1>1. a = [v EXCEPT !.spoiled = TRUE] /\ b = [v EXCEPT !.taken = @ \cup {node}]
  BY DEF Late, Take
<1> HIDE DEF a, b
<1>2. a \in Views /\ a.state = v.state /\ a.status = v.status /\ a.board = v.board
      /\ a.stale = v.stale /\ a.timer = v.timer
  BY <1>1 DEF Typed, Views
<1>3. b \in Views /\ b.state = v.state /\ b.status = v.status /\ b.board = v.board
      /\ b.stale = v.stale /\ b.timer = v.timer
  BY <1>1 DEF Typed, Views
<1> QED
  BY <1>2, <1>3 DEF Typed, a, b

LEMMA FailingIs ==
    ASSUME NEW S, NEW w \in Failing(S), \A v \in S : Typed(v)
    PROVE  \E v \in S : /\ Typed(w) /\ w.state = v.state /\ w.status = v.status
                        /\ w.board = v.board /\ w.stale = v.stale /\ w.timer = v.timer
<1>1. PICK v \in S : v.failures < MaxFailures
                     /\ w = [v EXCEPT !.failures = @ + 1, !.spoiled = TRUE]
  BY DEF Failing
<1>2. Typed(v) /\ v.failures + 1 \in 0..MaxFailures
  BY <1>1 DEF Typed, Views
<1>3. w \in Views /\ w.state = v.state /\ w.status = v.status /\ w.board = v.board
      /\ w.stale = v.stale /\ w.timer = v.timer
  BY <1>1, <1>2 DEF Typed, Views
<1> QED
  BY <1>2, <1>3 DEF Typed

LEMMA SendsBootloaderIs ==
    ASSUME NEW v, Typed(v), v.state \in Flashing, NEW w \in SendsBootloader(v)
    PROVE  Reaches(v, w)
<1> DEFINE sent == Take(v, "tty")
           moved == [sent EXCEPT !.board = "to_boot"]
<1>1. w = moved \/ w \in Failing({sent}) \/ w = Late(sent)
  BY DEF SendsBootloader
<1>2. Typed(sent) /\ sent.state = v.state /\ sent.status = v.status /\ sent.stale = v.stale
      /\ sent.board = v.board
  BY MarksAre DEF Nodes
<1> HIDE DEF sent
<1>3. Typed(moved) /\ moved.state = v.state /\ moved.status = v.status /\ moved.stale = v.stale
  <2>1. moved \in Views /\ moved.state = sent.state /\ moved.status = sent.status
        /\ moved.stale = sent.stale /\ moved.timer = sent.timer
    BY <1>2 DEF Typed, Views, Places, Moving
  <2> QED
    BY <1>2, <2>1 DEF Typed
<1> HIDE DEF moved
<1>4. CASE w \in Failing({sent})
  <2>1. Typed(w) /\ w.state = sent.state /\ w.status = sent.status /\ w.stale = sent.stale
    BY <1>2, <1>4, FailingIs
  <2> QED
    BY <1>2, <2>1 DEF Reaches
<1>5. CASE w = Late(sent)
  <2>1. Typed(w) /\ w.state = sent.state /\ w.status = sent.status /\ w.stale = sent.stale
    BY <1>2, <1>5, MarksAre DEF Nodes
  <2> QED
    BY <1>2, <2>1 DEF Reaches
<1> QED
  BY <1>1, <1>3, <1>4, <1>5 DEF Reaches

LEMMA UploadsIs ==
    ASSUME NEW v, Typed(v), v.state \in Flashing, NEW w \in Uploads(v)
    PROVE  Reaches(v, w)
<1> DEFINE taken == Take(v, "partition")
           failed == Switch(taken, "broken")
           done == Switch(taken, Following(v.state))
           moved == [done EXCEPT !.board = Target(v.state)]
           copied == [taken EXCEPT !.board = Target(v.state)]
<1>0. taken.state = v.state
  BY MarksAre DEF Nodes
<1>1. w = Late(failed) \/ w = moved \/ w \in Failing({failed}) \/ w \in Failing({taken, copied})
  BY <1>0 DEF Uploads, UploadRaises
<1>2. Typed(taken) /\ taken.state = v.state /\ taken.status = v.status /\ taken.stale = v.stale
      /\ taken.board = v.board /\ "broken" \in Kinds
  BY MarksAre DEF Nodes, Kinds
<1>3. Following(v.state) \in Kinds /\ Target(v.state) \in Places
  BY DEF Following, Target, Kinds, Timed, Session, Places, Moving
<1>4. failed = taken \/ Makes(taken, failed, "broken", taken.board)
  <2> HIDE DEF taken
  <2> QED
    BY <1>2, SwitchIs
<1>5. done = taken \/ Makes(taken, done, Following(v.state), taken.board)
  <2> HIDE DEF taken
  <2> QED
    BY <1>2, <1>3, SwitchIs
<1>50. copied \in Views /\ copied.state = taken.state /\ copied.status = taken.status
      /\ copied.stale = taken.stale /\ copied.timer = taken.timer
  <2> HIDE DEF taken
  <2> QED
    BY <1>2, <1>3 DEF Typed, Views
<1> HIDE DEF taken, failed, done, copied
<1>51. Typed(copied)
  BY <1>2, <1>50 DEF Typed
<1>6. /\ Typed(failed) /\ failed.stale = v.stale /\ failed.board = v.board
      /\ \/ failed.state = v.state /\ failed.status = v.status
         \/ failed.state = "broken" /\ failed.status = Written("broken", v.status)
  BY <1>2, <1>4 DEF Makes
<1>7. ASSUME Typed(w), NEW x \in {failed, taken, copied}, w.state = x.state, w.status = x.status,
             w.stale = x.stale, w.board = x.board
      PROVE  Reaches(v, w)
  BY <1>2, <1>6, <1>7, <1>50 DEF Reaches, Makes
<1>8. CASE w = Late(failed)
  <2>1. Typed(w) /\ w.state = failed.state /\ w.status = failed.status /\ w.stale = failed.stale
        /\ w.board = failed.board
    BY <1>6, <1>8, MarksAre DEF Nodes
  <2> QED
    BY <1>7, <2>1
<1>9. CASE w = moved
  <2>1. /\ Typed(done) /\ done.stale = v.stale
        /\ \/ done.state = v.state /\ done.status = v.status
           \/ done.state = Following(v.state) /\ done.status = Written(Following(v.state), v.status)
    BY <1>2, <1>5 DEF Makes
  <2>2. w \in Views /\ w.state = done.state /\ w.status = done.status /\ w.stale = done.stale
        /\ w.timer = done.timer /\ w.board = Target(v.state)
    BY <1>3, <1>9, <2>1 DEF Typed, Views
  <2>3. Typed(w)
    BY <2>1, <2>2 DEF Typed
  <2> QED
    BY <2>1, <2>2, <2>3 DEF Reaches, Makes
<1>10. CASE w \in Failing({failed})
  <2>1. /\ Typed(w) /\ w.state = failed.state /\ w.status = failed.status
        /\ w.board = failed.board /\ w.stale = failed.stale
    BY <1>6, <1>10, FailingIs
  <2> QED
    BY <1>7, <2>1
<1>11. CASE w \in Failing({taken, copied})
  <2>1. PICK x \in {taken, copied} : /\ Typed(w) /\ w.state = x.state /\ w.status = x.status
                                     /\ w.board = x.board /\ w.stale = x.stale
    BY <1>2, <1>51, <1>11, FailingIs
  <2> QED
    BY <1>7, <2>1
<1> QED
  BY <1>1, <1>8, <1>9, <1>10, <1>11

LEMMA TestsIs ==
    ASSUME NEW v, Typed(v), v.state = "test", NEW node \in Nodes, NEW w \in Tests(v, node)
    PROVE  Reaches(v, w)
<1> DEFINE taken == Take(v, node)
<1>1. Typed(taken) /\ taken.state = v.state /\ taken.status = v.status /\ taken.stale = v.stale
      /\ taken.board = v.board /\ "ready" \in Kinds
  BY MarksAre DEF Kinds
<1>2. (v.board = "default" /\ w = Switch(taken, "ready")) \/ w = Late(taken)
  BY DEF Tests
<1> HIDE DEF taken
<1>3. CASE v.board = "default" /\ w = Switch(taken, "ready")
  <2>1. w = taken \/ Makes(taken, w, "ready", taken.board)
    BY <1>1, <1>3, SwitchIs
  <2> QED
    BY <1>1, <1>3, <2>1 DEF Reaches, Makes
<1>4. CASE w = Late(taken)
  <2>1. Typed(w) /\ w.state = taken.state /\ w.status = taken.status /\ w.stale = taken.stale
        /\ w.board = taken.board
    BY <1>1, <1>4, MarksAre
  <2> QED
    BY <1>1, <2>1 DEF Reaches
<1> QED
  BY <1>2, <1>3, <1>4

\* handleAdd of a state.
LEMMA AddIs ==
    ASSUME NEW v, Typed(v), NEW node \in Nodes, NEW w \in Add(v, node)
    PROVE  Reaches(v, w)
<1>1. CASE v.state \in Flashing /\ node = "tty" /\ v.taken = {}
  <2>1. w \in SendsBootloader(v)
    BY <1>1 DEF Add, Flashing
  <2> QED
    BY <1>1, <2>1, SendsBootloaderIs
<1>2. CASE v.state \in Flashing /\ node = "partition" /\ node \notin v.taken
  <2>1. w \in Uploads(v)
    BY <1>2 DEF Add, Flashing
  <2> QED
    BY <1>2, <2>1, UploadsIs
<1>3. CASE v.state = "test" /\ v.taken = {}
  <2>1. w \in Tests(v, node)
    BY <1>3 DEF Add, Flashing
  <2> QED
    BY <1>3, <2>1, TestsIs
<1>4. CASE ~(v.state \in Flashing /\ node = "tty" /\ v.taken = {})
           /\ ~(v.state \in Flashing /\ node = "partition" /\ node \notin v.taken)
           /\ ~(v.state = "test" /\ v.taken = {})
  <2>1. w = v
    BY <1>4 DEF Add
  <2> QED
    BY <2>1 DEF Reaches
<1> QED
  BY <1>1, <1>2, <1>3, <1>4

\* The start of a FlashState.
Starts(v, s, w) ==
    /\ Typed(w) /\ w.stale = IF v.timer = "off" THEN v.stale ELSE v.stale + 1
    /\ w.state \in {s, Following(s), "broken"} /\ w.status = Written(w.state, v.status)
    /\ w.state = Following(s) => w.board = Target(s)

LEMMA StartFlashIs ==
    ASSUME NEW v \in Views, NEW s \in Flashing, NEW w \in StartFlash(v, s)
    PROVE  Starts(v, s, w)
<1> DEFINE left == Leave(v)
           come == Become(left, s)
           new == [come EXCEPT !.spoiled = IF s = "flash_default" THEN FALSE ELSE @]
<1>1. left \in Views /\ left.status = v.status /\ left.board = v.board
      /\ left.stale = IF v.timer = "off" THEN v.stale ELSE v.stale + 1
  <2>1. left = [v EXCEPT !.stale = IF v.timer = "off" THEN @ ELSE @ + 1]
    BY DEF Leave
  <2> HIDE DEF left
  <2>2. (IF v.timer = "off" THEN v.stale ELSE v.stale + 1) \in Nat
    BY DEF Views
  <2> QED
    BY <2>1, <2>2 DEF Views
<1>2. w \in Add(new, "tty") \/ w \in Add(new, "partition") \/ w = new
  BY DEF StartFlash
<1> HIDE DEF left
<1>3. s \in Kinds /\ {"tty", "partition"} \subseteq Nodes
  BY DEF Flashing, Kinds, Timed, Session, Nodes
<1>4. Makes(left, come, s, left.board)
  BY <1>1, <1>3, BecomeIs
<1> HIDE DEF come
<1>5. new \in Views /\ new.state = come.state /\ new.status = come.status /\ new.stale = come.stale
      /\ new.timer = come.timer /\ new.board = come.board
  BY <1>4 DEF Makes, Typed, Views
<1> HIDE DEF new
<1>6. Typed(new) /\ new.state = s /\ new.status = Written(s, v.status) /\ new.stale = left.stale
  BY <1>1, <1>4, <1>5 DEF Makes, Typed
<1>7. Written(s, v.status) = v.status
  BY DEF Written, Flashing
<1>8. CASE w = new
  <2>1. s # Following(s)
    BY DEF Following, Flashing
  <2> QED
    BY <1>1, <1>6, <1>8, <2>1 DEF Starts
<1>9. CASE w \in Add(new, "tty") \/ w \in Add(new, "partition")
  <2>1. Reaches(new, w)
    BY <1>3, <1>6, <1>9, AddIs
  <2>2. s # Following(s) /\ s # "test" /\ Following(s) # "broken"
    BY DEF Following, Flashing
  <2> QED
    BY <1>1, <1>6, <1>7, <2>1, <2>2 DEF Reaches, Makes, Starts
<1> QED
  BY <1>2, <1>8, <1>9

-----------------------------------------------------------------------------
(* Steps under the lock of an object.                                      *)

ObjectsTyped ==
    /\ obj \in [Objects -> [state : Kinds, taken : SUBSET Nodes, timer : {"off", "on", "fired"},
                            stale : Nat]]
    /\ \A o \in Objects : obj[o].timer # "off" => obj[o].state \in Timed
    /\ board \in Places /\ status \in Status /\ failures \in 0..MaxFailures
    /\ spoiled \in BOOLEAN

ThreadsTyped ==
    /\ made \in 0..MaxObjects /\ entry \in 0..made
    /\ events \in [Objects -> SUBSET Nodes]
    /\ waiting \in SUBSET [what : {"reserve", "unreserve", "delete"}, object : Objects]
    /\ deleting \in {"no", "exit", "remove", "scan", "dead"} /\ observer \in BOOLEAN
    /\ orphans \subseteq 1..made
    /\ reserved \in BOOLEAN /\ call \in BOOLEAN /\ notice \in Nat
    /\ reservations \in 0..MaxReservations /\ crossed \in BOOLEAN

LEMMA TypeOKIs == TypeOK <=> ObjectsTyped /\ ThreadsTyped
BY DEF TypeOK, ObjectsTyped, ThreadsTyped, Places

LEMMA TypeOKWillBe == TypeOK' <=> ObjectsTyped' /\ ThreadsTyped'
BY DEF TypeOK, ObjectsTyped, ThreadsTyped, Places

\* Object o is what the view w says.
Updated(o, w) ==
    /\ ObjectsTyped' /\ board' = w.board /\ status' = w.status
    /\ obj'[o].state = w.state /\ obj'[o].stale = w.stale
    /\ \A p \in Objects \ {o} : obj'[p] = obj[p]

LEMMA ViewIs ==
    ASSUME TypeOK, NEW o \in Objects
    PROVE  /\ Typed(View(o)) /\ View(o).state = obj[o].state /\ View(o).stale = obj[o].stale
           /\ View(o).timer = obj[o].timer /\ View(o).board = board /\ View(o).status = status
           /\ View(o).failures = failures /\ View(o).taken = obj[o].taken
<1>1. ObjectsTyped
  BY TypeOKIs
<1> QED
  BY <1>1 DEF ObjectsTyped, View, Typed, Views

LEMMA UpdateIs ==
    ASSUME TypeOK, NEW o \in Objects, NEW w, Typed(w), Update(o, w)
    PROVE  Updated(o, w)
<1>1. ObjectsTyped
  BY TypeOKIs
<1> DEFINE r == [state |-> w.state, taken |-> w.taken, timer |-> w.timer, stale |-> w.stale]
           Records == [state : Kinds, taken : SUBSET Nodes, timer : {"off", "on", "fired"}, stale : Nat]
<1>2. r \in Records /\ r.state = w.state /\ r.stale = w.stale /\ r.timer = w.timer
  BY DEF Typed, Views
<1>3. obj' = [obj EXCEPT ![o] = r] /\ board' = w.board /\ status' = w.status
      /\ failures' = w.failures /\ spoiled' = w.spoiled
  BY DEF Update
<1>4. obj \in [Objects -> Records]
  BY <1>1 DEF ObjectsTyped
<1> HIDE DEF r, Records
<1>5. obj' \in [Objects -> Records] /\ obj'[o] = r /\ \A p \in Objects \ {o} : obj'[p] = obj[p]
  BY <1>2, <1>3, <1>4
<1>6. \A p \in Objects : obj'[p].timer # "off" => obj'[p].state \in Timed
  BY <1>1, <1>2, <1>5 DEF ObjectsTyped, Typed
<1>7. board' \in Places /\ status' \in Status /\ failures' \in 0..MaxFailures /\ spoiled' \in BOOLEAN
  BY <1>3 DEF Typed, Views
<1>8. ObjectsTyped'
  BY <1>5, <1>6, <1>7 DEF ObjectsTyped, Records
<1> QED
  BY <1>2, <1>3, <1>5, <1>8 DEF Updated

LEMMA EventIs ==
    ASSUME TypeOK, NEW o \in Objects, NEW n \in Nodes, HandleDeviceEvent(o, n)
    PROVE  \E w : Reaches(View(o), w) /\ Updated(o, w)
<1>1. PICK w \in Add(View(o), n) : Update(o, w)
  BY DEF HandleDeviceEvent
<1>2. Reaches(View(o), w)
  BY <1>1, AddIs, ViewIs
<1> QED
  BY <1>1, <1>2, UpdateIs DEF Reaches

LEMMA ConnectIs ==
    ASSUME TypeOK, NEW o \in Objects, ConnectSerial(o)
    PROVE  \E w : Makes(View(o), w, "upload", board) /\ Updated(o, w)
<1>1. View(o) \in Views /\ View(o).board = board /\ "upload" \in Kinds
  BY ViewIs DEF Typed, Kinds, Session
<1>2. Makes(View(o), Become(View(o), "upload"), "upload", board)
  BY <1>1, BecomeIs
<1> QED
  BY <1>2, UpdateIs DEF ConnectSerial, Makes

LEMMA BreaksIs ==
    ASSUME TypeOK, NEW o \in Objects, ConnectSerialFails(o) \/ TimerSwitches(o)
    PROVE  \E w : Makes(View(o), w, "broken", board) /\ Updated(o, w)
<1>1. Typed(View(o)) /\ View(o).board = board /\ "broken" \in Kinds
  BY ViewIs DEF Kinds
<1>2. PICK v : /\ v = View(o) \/ v \in Failing({View(o)})
               /\ Update(o, Become(v, "broken"))
  BY DEF ConnectSerialFails, TimerSwitches
<1>3. Typed(v) /\ v.board = board /\ v.stale = View(o).stale
  <2>1. CASE v = View(o)
    BY <1>1, <2>1
  <2>2. CASE v \in Failing({View(o)})
    BY <1>1, <2>2, FailingIs
  <2> QED
    BY <1>2, <2>1, <2>2
<1>4. Makes(v, Become(v, "broken"), "broken", board)
  BY <1>1, <1>3, BecomeIs DEF Typed
<1>5. Makes(View(o), Become(v, "broken"), "broken", board)
  BY <1>3, <1>4 DEF Makes, Written
<1> QED
  BY <1>2, <1>5, UpdateIs DEF Makes

LEMMA RaisesIs ==
    ASSUME TypeOK, NEW o \in Objects, ConnectSerialRaises(o)
    PROVE  \E w : Makes(View(o), w, "half", board) /\ Updated(o, w)
<1>1. Typed(View(o)) /\ View(o).board = board /\ "half" \in Kinds
  BY ViewIs DEF Kinds, Session
<1>2. PICK v \in Failing({View(o)}) : Update(o, Become(v, "half"))
  BY DEF ConnectSerialRaises
<1>3. Typed(v) /\ v.board = board /\ v.stale = View(o).stale /\ v.status = View(o).status
  BY <1>1, FailingIs
<1>4. Makes(v, Become(v, "half"), "half", board)
  BY <1>1, <1>3, BecomeIs DEF Typed
<1>5. Makes(View(o), Become(v, "half"), "half", board)
  BY <1>3, <1>4 DEF Makes
<1> QED
  BY <1>2, <1>5, UpdateIs DEF Makes

\* A thread waits in handleExit for ever.
LEMMA HangsIs ==
    ASSUME TypeOK, NEW o \in Objects, ExitHangs(o)
    PROVE  \E w : /\ Updated(o, w) /\ w.state = "hung" /\ w.stale = obj[o].stale
                  /\ w.board = board /\ w.status = status
<1> DEFINE w == [View(o) EXCEPT !.state = "hung", !.failures = @ + 1]
<1>1. /\ View(o) \in Views /\ View(o).failures < MaxFailures /\ View(o).timer = obj[o].timer
      /\ View(o).stale = obj[o].stale /\ View(o).board = board /\ View(o).status = status
  BY ViewIs DEF Typed, ExitHangs
<1>2. obj[o].timer = "off"
  BY DEF ExitHangs, TypeOK, Timed
<1>3. Update(o, w)
  BY DEF ExitHangs
<1>4. /\ w \in Views /\ w.state = "hung" /\ w.timer = View(o).timer
      /\ w.stale = View(o).stale /\ w.board = View(o).board /\ w.status = View(o).status
  <2>1. View(o).failures + 1 \in 0..MaxFailures /\ "hung" \in Kinds
    BY <1>1 DEF Views, Kinds
  <2> QED
    BY <1>1, <2>1 DEF Views
<1> HIDE DEF w
<1>5. Typed(w)
  BY <1>1, <1>2, <1>4 DEF Typed
<1> QED
  BY <1>1, <1>3, <1>4, <1>5, UpdateIs

LEMMA FiresIs ==
    ASSUME TypeOK, NEW o \in Objects, TimerFires(o)
    PROVE  \E w : /\ Updated(o, w) /\ w.state = obj[o].state /\ w.stale = obj[o].stale
                  /\ w.board = board /\ w.status = status
<1>1. /\ Typed(View(o)) /\ View(o).state = obj[o].state /\ View(o).board = board
      /\ View(o).timer = "on" /\ View(o).status = status /\ View(o).stale = obj[o].stale
  BY ViewIs DEF TimerFires
<1>2. PICK v : /\ v = View(o) \/ v \in Failing({View(o)})
               /\ Update(o, [v EXCEPT !.timer = "fired"])
  BY DEF TimerFires
<1>3. /\ Typed(v) /\ v.board = board /\ v.stale = View(o).stale /\ v.state = obj[o].state
      /\ v.status = View(o).status /\ v.timer = "on"
  <2>1. CASE v = View(o)
    BY <1>1, <2>1
  <2>2. CASE v \in Failing({View(o)})
    BY <1>1, <2>2, FailingIs
  <2> QED
    BY <1>2, <2>1, <2>2
<1> DEFINE w == [v EXCEPT !.timer = "fired"]
<1>4. w \in Views /\ w.state = v.state /\ w.board = v.board /\ w.stale = v.stale
      /\ w.status = v.status
  BY <1>3 DEF Typed, Views
<1>5. Update(o, w)
  BY <1>2
<1> HIDE DEF w
<1>6. v.state \in Timed
  BY <1>3 DEF Typed
<1>7. Typed(w)
  BY <1>4, <1>6 DEF Typed
<1> QED
  BY <1>1, <1>3, <1>4, <1>5, <1>7, UpdateIs

LEMMA StaleIs ==
    ASSUME TypeOK, NEW o \in Objects, StaleTimer(o)
    PROVE  \E w : Updated(o, w)
<1> DEFINE left == Leave(View(o))
           v == [left EXCEPT !.stale = @ - 1]
<1>1. View(o) \in Views /\ View(o).stale = obj[o].stale /\ "broken" \in Kinds
  BY ViewIs DEF Typed, Kinds
<1>2. obj[o].stale > 0 /\ Update(o, Become(v, "broken"))
  BY DEF StaleTimer
<1>3. left \in Views /\ left.stale \in Nat \ {0}
  <2>1. left = [View(o) EXCEPT !.stale = IF View(o).timer = "off" THEN @ ELSE @ + 1]
    BY DEF Leave
  <2> HIDE DEF left
  <2>2. (IF View(o).timer = "off" THEN View(o).stale ELSE View(o).stale + 1) \in Nat \ {0}
    BY <1>1, <1>2 DEF Views
  <2> QED
    BY <1>1, <2>1, <2>2 DEF Views
<1> HIDE DEF left
<1>4. v \in Views
  BY <1>3 DEF Views
<1> HIDE DEF v
<1>5. Typed(Become(v, "broken"))
  BY <1>1, <1>4, BecomeIs DEF Makes
<1> QED
  BY <1>2, <1>5, UpdateIs

\* The start of a FlashState, by a /reserve call, a notification or a client that reboots.
LEMMA FlashIs ==
    ASSUME TypeOK, NEW o \in Objects, NEW s \in Flashing, NEW v \in Views,
           v.state = obj[o].state, v.timer = obj[o].timer, v.stale = obj[o].stale,
           v.status = status, NEW w \in StartFlash(v, s), Update(o, w)
    PROVE  /\ Updated(o, w) /\ Starts(View(o), s, w)
<1>1. Starts(v, s, w)
  BY StartFlashIs
<1>2. Starts(View(o), s, w)
  BY <1>1, ViewIs DEF Starts
<1> QED
  BY <1>1, <1>2, UpdateIs DEF Starts

LEMMA ReserveIs ==
    ASSUME TypeOK, NEW o \in Objects, HandleReserve(o)
    PROVE  \E w : Updated(o, w) /\ Starts(View(o), "flash_kind", w)
<1>1. PICK w \in StartFlash(View(o), "flash_kind") : Update(o, w)
  BY DEF HandleReserve
<1> QED
  BY <1>1, FlashIs, ViewIs DEF Flashing, Typed

LEMMA UnreserveIs ==
    ASSUME TypeOK, NEW o \in Objects, HandleUnreserve(o)
    PROVE  \E w : Updated(o, w) /\ Starts(View(o), "flash_default", w)
<1>1. PICK w \in StartFlash(View(o), "flash_default") : Update(o, w)
  BY DEF HandleUnreserve
<1> QED
  BY <1>1, FlashIs, ViewIs DEF Flashing, Typed

LEMMA RebootIs ==
    ASSUME TypeOK, NEW o \in Objects, Reboot(o)
    PROVE  \E w : Updated(o, w) /\ Starts(View(o), "flash_kind", w)
<1> DEFINE v == [View(o) EXCEPT !.failures = @ + 1]
<1>1. PICK w \in StartFlash(v, "flash_kind") : Update(o, w)
  BY DEF Reboot
<1>2. /\ View(o) \in Views /\ View(o).failures < MaxFailures
      /\ View(o).state = obj[o].state /\ View(o).timer = obj[o].timer
      /\ View(o).stale = obj[o].stale /\ View(o).status = status
  BY ViewIs DEF Typed, Reboot
<1>3. v \in Views /\ v.state = View(o).state /\ v.timer = View(o).timer
      /\ v.stale = View(o).stale /\ v.status = View(o).status
  <2>1. View(o).failures + 1 \in 0..MaxFailures
    BY <1>2 DEF Views
  <2> QED
    BY <1>2, <2>1 DEF Views
<1> HIDE DEF v
<1> QED
  BY <1>1, <1>2, <1>3, FlashIs DEF Flashing

\* A Device is made for a board that is not known; it gets into _devs, or it is an orphan.
LEMMA NewIs ==
    ASSUME TypeOK, NEW b \in Places, NewDevice(b)
    PROVE  /\ entry = 0 /\ made' = made + 1 /\ made + 1 \in Objects
           /\ \/ /\ entry' = made + 1 /\ orphans' = orphans
                 /\ events' = [events EXCEPT ![made + 1] = @ \cup Present(b)]
              \/ /\ entry' = 0 /\ events' = events /\ orphans' = orphans \cup {made + 1}
                 /\ obj'[made + 1].state = "flash_default"
           /\ \E w : Updated(made + 1, w) /\ Typed(w)
                     /\ w.state \in {"flash_default", "test", "broken"} /\ w.status # "available"
                     /\ w.stale = IF obj[made + 1].timer = "off" THEN obj[made + 1].stale
                                  ELSE obj[made + 1].stale + 1
<1> DEFINE o == made + 1
           v == [View(o) EXCEPT !.board = b, !.status = "flashing_default"]
<1>1. made \in Nat /\ made < MaxObjects
  BY DEF TypeOK, NewDevice
<1>2. o \in Objects /\ "flash_default" \in Flashing
  BY <1>1 DEF Objects, Flashing
<1>3. entry = 0 /\ made' = o
  BY DEF NewDevice
<1>4. PICK w \in StartFlash(v, "flash_default") :
             /\ Update(o, w)
             /\ IF Raised(w)
                THEN orphans' = orphans \cup {o} /\ entry' = entry /\ events' = events
                ELSE /\ entry' = o /\ orphans' = orphans
                     /\ events' = [events EXCEPT ![o] = @ \cup Present(b)]
  BY DEF NewDevice
<1> HIDE DEF o
<1>6. View(o) \in Views /\ View(o).timer = obj[o].timer /\ View(o).stale = obj[o].stale
  BY <1>2, ViewIs DEF Typed
<1>7. v \in Views /\ v.timer = View(o).timer /\ v.stale = View(o).stale /\ v.status = "flashing_default"
  <2>1. "flashing_default" \in Status
    BY DEF Status
  <2> QED
    BY <1>6, <2>1 DEF Views
<1> HIDE DEF v
<1>8. Starts(v, "flash_default", w)
  BY <1>2, <1>4, <1>7, StartFlashIs
<1>9. w.state \in {"flash_default", "test", "broken"} /\ w.status # "available" /\ Typed(w)
      /\ w.stale = IF obj[o].timer = "off" THEN obj[o].stale ELSE obj[o].stale + 1
  BY <1>6, <1>7, <1>8 DEF Starts, Following, Written
<1>10. Updated(o, w)
  BY <1>2, <1>4, <1>9, UpdateIs
<1>11. Raised(w) => obj'[o].state = "flash_default"
  BY <1>10 DEF Raised, Updated
<1> QED
  BY <1>2, <1>3, <1>4, <1>9, <1>10, <1>11 DEF o

-----------------------------------------------------------------------------
(* Types.                                                                  *)

\* The steps of an object.
ObjectStep(o) ==
    \/ \E n \in Nodes : HandleDeviceEvent(o, n)
    \/ ConnectSerial(o) \/ ConnectSerialFails(o) \/ TimerFires(o) \/ TimerSwitches(o)
    \/ StaleTimer(o) \/ HandleReserve(o) \/ HandleUnreserve(o) \/ HandleExit(o) \/ Reboot(o)
    \/ ConnectSerialRaises(o) \/ ExitHangs(o)

LEMMA ObjectStepTyped ==
    ASSUME TypeOK, Found, NEW o \in Objects, ObjectStep(o)
    PROVE  TypeOK' /\ Found'
<1> USE DEF ThreadsTyped, Found, WorkerUnchanged, MessagesUnchanged
<1>0. ObjectsTyped /\ ThreadsTyped
  BY TypeOKIs
<1>1. ASSUME NEW n \in Nodes, HandleDeviceEvent(o, n) PROVE TypeOK' /\ Found'
  <2>1. ObjectsTyped'
    BY <1>1, EventIs DEF Updated
  <2>2. ThreadsTyped' /\ Found'
    BY <1>0, <1>1 DEF HandleDeviceEvent
  <2> QED
    BY <2>1, <2>2, TypeOKWillBe
<1>2. CASE ConnectSerial(o) \/ ConnectSerialFails(o) \/ TimerFires(o) \/ TimerSwitches(o)
           \/ StaleTimer(o) \/ Reboot(o) \/ ConnectSerialRaises(o) \/ ExitHangs(o)
  <2>1. ObjectsTyped'
    BY <1>2, ConnectIs, BreaksIs, FiresIs, StaleIs, RebootIs, RaisesIs, HangsIs DEF Updated
  <2>2. UNCHANGED <<entry, made, events, waiting, deleting, observer, reserved, call, notice,
                    reservations, crossed, orphans>>
    BY <1>2 DEF ConnectSerial, ConnectSerialFails, TimerFires, TimerSwitches, StaleTimer, Reboot,
       ConnectSerialRaises, ExitHangs
  <2>3. ThreadsTyped' /\ Found'
    BY <1>0, <2>2
  <2> QED
    BY <2>1, <2>3, TypeOKWillBe
<1>3. CASE HandleReserve(o) \/ HandleUnreserve(o)
  <2>1. ObjectsTyped'
    BY <1>3, ReserveIs, UnreserveIs DEF Updated
  <2>2. /\ UNCHANGED <<entry, made, events, deleting, observer, reserved, call, notice,
                        reservations, orphans>>
        /\ waiting' \subseteq waiting /\ crossed' \in BOOLEAN
    BY <1>0, <1>3 DEF HandleReserve, HandleUnreserve
  <2>3. ThreadsTyped' /\ Found'
    BY <1>0, <2>2
  <2> QED
    BY <2>1, <2>3, TypeOKWillBe
<1>4. CASE HandleExit(o)
  <2>1. /\ obj' = [obj EXCEPT ![o].state = IF @ \in {"upload", "half"} THEN "exited" ELSE @]
        /\ UNCHANGED <<board, status, failures, spoiled>> /\ "exited" \in Kinds
    BY <1>4 DEF HandleExit, database, history, Kinds
  <2>2. ObjectsTyped'
    BY <1>0, <2>1 DEF ObjectsTyped, Timed
  <2>3. /\ Thread("delete", o) \in waiting /\ waiting' = waiting \ {Thread("delete", o)}
        /\ deleting' = "remove"
        /\ UNCHANGED <<entry, made, events, observer, reserved, call, notice, reservations, crossed,
                        orphans>>
    BY <1>4 DEF HandleExit, database, history
  <2>4. deleting = "exit" /\ entry = o
    BY <2>3 DEF Thread
  <2>5. ASSUME NEW t \in waiting', t.what = "delete" PROVE FALSE
    <3>1. t \in waiting /\ t.what = "delete" /\ t.object = o
      BY <2>3, <2>4, <2>5
    <3>2. t = Thread("delete", o)
      BY <1>0, <3>1 DEF Thread
    <3> QED
      BY <2>3, <2>5, <3>2
  <2>6. ThreadsTyped' /\ Found'
    BY <1>0, <2>3, <2>4, <2>5
  <2> QED
    BY <2>2, <2>6, TypeOKWillBe
<1> QED
  BY <1>1, <1>2, <1>3, <1>4 DEF ObjectStep

\* The steps of DeviceManager, of the board and of the database.
LEMMA ManagerTyped ==
    ASSUME TypeOK, Found,
           Reserve \/ Unreserve \/ Remove \/ Delete \/ ObserverEnds \/ MakeReservation \/ EndReservation
    PROVE  TypeOK' /\ Found'
<1> USE DEF TypeOK, Found, worker, database, history
<1>1. entry # 0 => entry \in Objects
  BY DEF Objects
<1>2. CASE Reserve
  <2>1. /\ waiting' \subseteq waiting \cup (IF entry = 0 THEN {} ELSE {Thread("reserve", entry)})
        /\ call' = FALSE
        /\ UNCHANGED <<entry, made, obj, events, deleting, observer, board, status, reserved, notice,
                        history>>
    BY <1>2 DEF Reserve
  <2>2. waiting' \in SUBSET [what : {"reserve", "unreserve", "delete"}, object : Objects]
    BY <1>1, <2>1 DEF Thread
  <2>3. \A t \in waiting' : t.what = "delete" => t \in waiting
    BY <2>1 DEF Thread
  <2> QED
    BY <2>1, <2>2, <2>3
<1>3. CASE Unreserve
  <2>1. /\ notice' \in Nat /\ status' \in Status
        /\ waiting' \subseteq waiting \cup (IF entry = 0 THEN {} ELSE {Thread("unreserve", entry)})
        /\ UNCHANGED <<entry, made, obj, events, deleting, observer, board, reserved, call, history>>
    BY <1>3 DEF Unreserve, Status
  <2> QED
    BY <1>1, <2>1 DEF Thread
<1>4. CASE Remove
  BY <1>4 DEF Remove
<1>5. CASE Delete
  BY <1>1, <1>5 DEF Delete, Thread
<1>6. CASE MakeReservation
  BY <1>6 DEF MakeReservation, Status
<1>7. CASE EndReservation
  <2>1. /\ status' \in Status /\ notice' \in Nat /\ reserved' = FALSE /\ call' = FALSE
        /\ UNCHANGED <<entry, made, obj, events, waiting, deleting, observer, board, history>>
    BY <1>7 DEF EndReservation, Status
  <2> QED
    BY <2>1
<1>8. CASE ObserverEnds
  <2>1. failures < MaxFailures /\ failures' = failures + 1 /\ observer' = FALSE
        /\ UNCHANGED <<entry, made, obj, events, waiting, deleting, board, status, reserved, call,
                        notice, reservations, spoiled, crossed, orphans>>
    BY <1>8 DEF ObserverEnds
  <2>2. failures' \in 0..MaxFailures
    BY <2>1
  <2> QED
    BY <2>1, <2>2
<1> QED
  BY <1>2, <1>3, <1>4, <1>5, <1>6, <1>7, <1>8

\* A call of handleDevEvent for a board b, or none.
Handles(b) == Unheard(b) \/ DevEvents(b) \/ NewDevice(b)

\* ... by the scan or the observer.
Calls ==
    /\ deleting' = deleting \/ (deleting = "scan" /\ deleting' \in {"no", "dead"})
    /\ observer' \in BOOLEAN
    /\ waiting' = waiting /\ reserved' = reserved /\ call' = call /\ notice' = notice
    /\ reservations' = reservations /\ crossed' = crossed

LEMMA HandlesTyped ==
    ASSUME TypeOK, Found, NEW b \in Places, Handles(b), Calls
    PROVE  TypeOK' /\ Found'
<1>1. ObjectsTyped /\ ThreadsTyped /\ Present(b) \subseteq Nodes
  BY TypeOKIs DEF Present, Nodes
<1>2. CASE Unheard(b)
  <2>1. ObjectsTyped'
    BY <1>1, <1>2 DEF Unheard, ObjectsTyped
  <2>2. ThreadsTyped' /\ Found'
    BY <1>1, <1>2 DEF Unheard, Calls, ThreadsTyped, Found
  <2> QED
    BY <2>1, <2>2, TypeOKWillBe
<1>3. CASE DevEvents(b)
  <2>1. /\ entry' = entry /\ board' = b
        /\ events' = [events EXCEPT ![entry] = @ \cup Present(b)]
        /\ UNCHANGED <<made, obj, status, failures, spoiled, orphans>>
    BY <1>3 DEF DevEvents
  <2>2. ObjectsTyped'
    BY <1>1, <2>1 DEF ObjectsTyped
  <2>3. events' \in [Objects -> SUBSET Nodes]
    BY <1>1, <2>1 DEF ThreadsTyped
  <2>4. ThreadsTyped' /\ Found'
    BY <1>1, <2>1, <2>3 DEF Calls, ThreadsTyped, Found
  <2> QED
    BY <2>2, <2>4, TypeOKWillBe
<1>4. CASE NewDevice(b)
  <2>1. /\ entry = 0 /\ made' = made + 1 /\ made + 1 \in Objects /\ ObjectsTyped'
        /\ entry' \in {0, made + 1} /\ orphans' \subseteq orphans \cup {made + 1}
        /\ events' \in {events, [events EXCEPT ![made + 1] = @ \cup Present(b)]}
    BY <1>4, NewIs DEF Updated
  <2>2. events' \in [Objects -> SUBSET Nodes]
    BY <1>1, <2>1 DEF ThreadsTyped
  <2>3. deleting \notin {"exit", "remove"} /\ \A t \in waiting : t.what # "delete"
    BY <2>1 DEF Found
  <2>4. made \in Nat /\ made + 1 \in 1..MaxObjects
    BY <1>1, <2>1 DEF ThreadsTyped, Objects
  <2>5. made' \in 0..MaxObjects /\ entry' \in 0..made' /\ orphans' \subseteq 1..made'
    BY <1>1, <2>1, <2>4 DEF ThreadsTyped
  <2>6. ThreadsTyped' /\ Found'
    BY <1>1, <2>2, <2>3, <2>5 DEF Calls, ThreadsTyped, Found
  <2> QED
    BY <2>1, <2>6, TypeOKWillBe
<1> QED
  BY <1>2, <1>3, <1>4 DEF Handles

LEMMA ScanHandles ==
    ASSUME TypeOK, Scan
    PROVE  Handles(board) /\ Calls /\ board \in Places
BY DEF Scan, Handles, Calls, TypeOK, Places

LEMMA EnumerateHandles ==
    ASSUME TypeOK, Enumerate
    PROVE  Handles(Arrived) /\ Calls /\ Arrived \in Places /\ board \in Moving
BY DEF Enumerate, Handles, Calls, TypeOK, Arrived, Places, App

-----------------------------------------------------------------------------
(* Order.                                                                  *)

\* What no step of an object does.
Orphans ==
    /\ orphans' = orphans /\ made' = made
    /\ \A o \in Objects : events'[o] # {} => o \in (1..made) \ orphans

LEMMA OrphansStay ==
    ASSUME TypeOK, Orphaned, NEW o \in Objects, ObjectStep(o)
    PROVE  Orphans
<1>1. orphans' = orphans /\ made' = made
  BY DEF ObjectStep, HandleDeviceEvent, ConnectSerial, ConnectSerialFails, TimerFires,
     TimerSwitches, StaleTimer, HandleReserve, HandleUnreserve, HandleExit, Reboot,
     ConnectSerialRaises, ExitHangs, WorkerUnchanged, MessagesUnchanged, history
<1>2. events' = events \/ \E n \in Nodes : events' = [events EXCEPT ![o] = @ \ {n}]
  BY DEF ObjectStep, HandleDeviceEvent, ConnectSerial, ConnectSerialFails, TimerFires,
     TimerSwitches, StaleTimer, HandleReserve, HandleUnreserve, HandleExit, Reboot,
     ConnectSerialRaises, ExitHangs, WorkerUnchanged
<1>3. \A p \in Objects : events'[p] # {} => events[p] # {}
  BY <1>2 DEF TypeOK
<1> QED
  BY <1>1, <1>3 DEF Orphans, Orphaned

\* A step of the object in _devs that leaves the manager and the database alone.
LEMMA EntryKeeps ==
    ASSUME TypeOK, Found, Orderly, entry \in Objects, ObjectsTyped',
           UNCHANGED <<entry, deleting, reserved, call, notice>>,
           waiting' \subseteq waiting, Orphans,
           \A o \in Objects \ {entry} : obj'[o] = obj[o],
           obj'[entry].stale = 0,
           obj'[entry].state = "connecting" => board' \in {"to_kind", "kind"},
           obj'[entry].state = "upload" => board' = "kind",
           obj'[entry].state = "ready" => board' = "default",
           status' = "available" => obj'[entry].state = "ready" /\ ~Claimed' /\ ~Waits("reserve")',
           call \/ Waits("reserve")' => obj'[entry].state = "ready",
           obj'[entry].state \in Timed => ~Claimed',
           obj[entry].state = "broken" => obj'[entry].state = "broken" \/ Claimed \/ Waits("reserve")
    PROVE  Orderly'
<1>1. entry # 0
  BY DEF Objects
<1>2. Waits("unreserve")' => Waits("unreserve")
  BY DEF Waits
<1>3. Waits("reserve")' => Waits("reserve")
  BY DEF Waits
<1>4. Claimed' => Claimed
  BY <1>2 DEF Claimed
<1>5. Driven' /\ Orphaned'
  <2>1. Driven'
    BY DEF Orderly, Driven, Orphans
  <2>2. \A o \in orphans : o \in Objects /\ o # entry
    BY DEF Orderly, Orphaned, TypeOK, Objects
  <2> QED
    BY <2>1, <2>2 DEF Orderly, Orphaned, Orphans
<1>6. Programmed'
  BY DEF Programmed
<1>7. Exclusive'
  BY <1>2, <1>3 DEF Orderly, Exclusive
<1>8. Paced'
  <2>1. deleting \in {"exit", "remove"} => ~Claimed /\ ~Waits("reserve") /\ obj[entry].state = "broken"
    BY DEF Orderly, Paced
  <2> QED
    BY <1>1, <1>4, <2>1 DEF Paced
<1> QED
  BY <1>5, <1>6, <1>7, <1>8 DEF Orderly

\* An object that a /delete has left behind does nothing.
LEMMA LeftAlone ==
    ASSUME TypeOK, Driven, NEW o \in Objects \ ({entry} \cup orphans), ObjectStep(o)
    PROVE  \E n \in Nodes : HandleDeviceEvent(o, n)
<1>1. obj[o].state \notin Timed \cup Session /\ obj[o].stale = 0
  BY DEF Driven
<1>2. obj[o].timer = "off"
  BY <1>1 DEF TypeOK
<1>3. \A t \in waiting : t.object # o
  BY DEF Driven
<1>4. \A what : Thread(what, o) \notin waiting
  BY <1>3 DEF Thread
<1> QED
  BY <1>1, <1>2, <1>4 DEF ObjectStep, ConnectSerial, ConnectSerialFails, TimerFires, TimerSwitches,
     StaleTimer, HandleReserve, HandleUnreserve, HandleExit, Reboot, ConnectSerialRaises,
     ExitHangs, Session

\* Of an object whose constructor raised there is the timer.
LEMMA OrphanOnly ==
    ASSUME TypeOK, Driven, Orphaned, NEW o \in orphans, o \in Objects, ObjectStep(o)
    PROVE  TimerFires(o) \/ TimerSwitches(o)
<1>1. obj[o].state \in {"flash_default", "broken"} /\ obj[o].stale = 0 /\ events[o] = {}
      /\ o # entry
  BY DEF Driven, Orphaned
<1>2. \A t \in waiting : t.object # o
  BY <1>1 DEF Driven
<1>3. \A what : Thread(what, o) \notin waiting
  BY <1>2 DEF Thread
<1> QED
  BY <1>1, <1>3 DEF ObjectStep, HandleDeviceEvent, ConnectSerial, ConnectSerialFails,
     StaleTimer, HandleReserve, HandleUnreserve, HandleExit, Reboot, ConnectSerialRaises,
     ExitHangs

LEMMA ObjectStepOrderly ==
    ASSUME TypeOK, Found, Orderly, NEW o \in Objects, ObjectStep(o), ~crossed'
    PROVE  Orderly'
<1>0. /\ Driven /\ Orphaned /\ Programmed /\ Exclusive /\ Paced /\ ObjectsTyped' /\ Orphans
      /\ View(o).state = obj[o].state /\ View(o).stale = 0 /\ View(o).timer = obj[o].timer
      /\ View(o).board = board /\ View(o).status = status
  BY ObjectStepTyped, TypeOKWillBe, ViewIs, OrphansStay DEF Orderly, Driven
<1>1. CASE o # entry
  <2>1. /\ UNCHANGED <<entry, waiting, deleting, reserved, call, notice>>
        /\ board' = board /\ status' \in {status, "broken"} /\ obj'[o].stale = 0
        /\ obj'[o].state = obj[o].state \/ (o \in orphans /\ obj'[o].state = "broken")
        /\ \A p \in Objects \ {o} : obj'[p] = obj[p]
    <3>1. CASE o \notin orphans
      <4>1. PICK n \in Nodes : HandleDeviceEvent(o, n)
        BY <1>0, <1>1, <3>1, LeftAlone
      <4>2. PICK w : Reaches(View(o), w) /\ Updated(o, w)
        BY <4>1, EventIs
      <4>3. obj[o].state \notin Flashing \cup {"test"}
        BY <1>0, <1>1, <3>1 DEF Driven, Flashing, Timed, Session
      <4>4. /\ board' = board /\ status' = status /\ obj'[o].state = obj[o].state
            /\ obj'[o].stale = 0 /\ \A p \in Objects \ {o} : obj'[p] = obj[p]
        BY <1>0, <4>2, <4>3 DEF Reaches, Updated
      <4>5. UNCHANGED <<entry, waiting, deleting, reserved, call, notice>>
        BY <4>1 DEF HandleDeviceEvent
      <4> QED
        BY <4>4, <4>5
    <3>2. CASE o \in orphans
      <4>1. TimerFires(o) \/ TimerSwitches(o)
        BY <1>0, <3>2, OrphanOnly
      <4>2. UNCHANGED <<entry, waiting, deleting, reserved, call, notice>>
        BY <4>1 DEF TimerFires, TimerSwitches, WorkerUnchanged, MessagesUnchanged
      <4>3. CASE TimerFires(o)
        <5>1. PICK w : /\ Updated(o, w) /\ w.state = obj[o].state /\ w.stale = obj[o].stale
                       /\ w.board = board /\ w.status = status
          BY <4>3, FiresIs
        <5> QED
          BY <1>0, <4>2, <5>1 DEF Updated, Driven
      <4>4. CASE TimerSwitches(o)
        <5>1. PICK w : Makes(View(o), w, "broken", board) /\ Updated(o, w)
          BY <4>4, BreaksIs
        <5> QED
          BY <1>0, <3>2, <4>2, <5>1 DEF Makes, Updated, Written
      <4> QED
        BY <4>1, <4>3, <4>4
    <3> QED
      BY <3>1, <3>2
  <2>6. entry # 0 => entry \in Objects /\ obj'[entry] = obj[entry]
    BY <1>1, <2>1 DEF TypeOK, Objects
  <2>7. \A p \in Objects : obj'[p].stale = 0
                         /\ (obj'[p].state = obj[p].state \/ (p \in orphans /\ obj'[p].state = "broken"))
    BY <1>0, <2>1 DEF Driven
  <2>8. (Claimed' <=> Claimed) /\ (Waits("reserve")' <=> Waits("reserve"))
        /\ (Waits("unreserve")' <=> Waits("unreserve"))
    BY <2>1 DEF Claimed, Waits
  <2>9. Driven' /\ Orphaned'
    <3>1. Driven'
      BY <1>0, <2>1, <2>7 DEF Driven, Orphans
    <3>2. orphans \subseteq Objects
      BY DEF TypeOK, Objects
    <3> QED
      BY <1>0, <2>1, <2>7, <3>1, <3>2 DEF Orphaned, Orphans
  <2>10. Programmed' /\ Exclusive'
    BY <1>0, <2>1, <2>6, <2>8 DEF Programmed, Exclusive
  <2>11. Paced'
    <3>1. deleting \in {"exit", "remove"} => entry # 0
      BY DEF Found
    <3> QED
      BY <1>0, <2>1, <2>6, <2>8, <3>1 DEF Paced
  <2> QED
    BY <2>9, <2>10, <2>11 DEF Orderly
<1>2. CASE o = entry
  <2>0. entry \in Objects /\ entry # 0
    BY <1>2 DEF Objects
  <2> DEFINE S == obj[entry].state
  <2>1. /\ status = "available" => S = "ready" /\ ~Claimed /\ ~Waits("reserve")
        /\ call \/ Waits("reserve") => S = "ready"
        /\ S \in Timed => ~Claimed
        /\ S = "connecting" => board \in {"to_kind", "kind"}
        /\ S = "upload" => board = "kind"
        /\ S = "ready" => board = "default"
    BY <1>0, <2>0 DEF Paced, Programmed
  <2>2. ASSUME NEW n \in Nodes, HandleDeviceEvent(o, n) PROVE Orderly'
    <3>1. PICK w : Reaches(View(o), w) /\ Updated(o, w)
      BY <2>2, EventIs
    <3>2. UNCHANGED <<entry, waiting, deleting, reserved, call, notice>>
      BY <2>2 DEF HandleDeviceEvent
    <3>3. (Claimed' <=> Claimed) /\ (Waits("reserve")' <=> Waits("reserve"))
      BY <3>2 DEF Claimed, Waits
    <3>4. /\ board' = w.board /\ status' = w.status /\ obj'[entry].state = w.state
          /\ obj'[entry].stale = 0 /\ \A p \in Objects \ {entry} : obj'[p] = obj[p]
      BY <1>0, <1>2, <3>1 DEF Reaches, Updated
    <3>5. CASE w.state = S /\ w.status = status /\ (S \in Flashing \/ w.board = board)
      BY <1>0, <2>0, <2>1, <3>2, <3>3, <3>4, <3>5, EntryKeeps DEF Flashing
    <3>6. CASE S \in Flashing /\ Makes(View(o), w, Following(S), Target(S))
      <4>1. /\ S = "flash_default" => w.state = "test" /\ w.status = "testing"
            /\ S = "flash_kind" => w.state = "connecting" /\ w.board = "to_kind" /\ w.status = status
        BY <1>0, <3>6 DEF Makes, Following, Target, Written
      <4> QED
        BY <1>0, <2>0, <2>1, <3>2, <3>3, <3>4, <3>6, <4>1, EntryKeeps DEF Flashing, Timed
    <3>7. CASE S \in Flashing /\ Makes(View(o), w, "broken", board)
      <4>1. w.state = "broken" /\ w.status = "broken"
        BY <3>7 DEF Makes, Written
      <4> QED
        BY <1>0, <2>0, <2>1, <3>2, <3>3, <3>4, <3>7, <4>1, EntryKeeps DEF Flashing, Timed
    <3>8. CASE S = "test" /\ Makes(View(o), w, "ready", "default")
      <4>1. w.state = "ready" /\ w.board = "default"
        BY <3>8 DEF Makes
      <4>2. ~Claimed /\ ~Waits("reserve") /\ ~call
        BY <2>1, <3>8 DEF Timed
      <4> QED
        BY <1>0, <2>0, <2>1, <3>2, <3>3, <3>4, <3>8, <4>1, <4>2, EntryKeeps DEF Timed
    <3> QED
      BY <1>0, <1>2, <3>1, <3>5, <3>6, <3>7, <3>8 DEF Reaches
  <2>3. ASSUME ConnectSerial(o) \/ ConnectSerialFails(o) \/ TimerFires(o) \/ TimerSwitches(o)
               \/ StaleTimer(o) \/ Reboot(o) \/ ConnectSerialRaises(o) \/ ExitHangs(o)
        PROVE  /\ UNCHANGED <<entry, waiting, deleting, reserved, call, notice>>
               /\ (Claimed' <=> Claimed) /\ (Waits("reserve")' <=> Waits("reserve"))
    <3>1. UNCHANGED <<entry, waiting, deleting, reserved, call, notice>>
      BY <2>3 DEF ConnectSerial, ConnectSerialFails, TimerFires, TimerSwitches, StaleTimer, Reboot,
         ConnectSerialRaises, ExitHangs, WorkerUnchanged, MessagesUnchanged
    <3> QED
      BY <3>1 DEF Claimed, Waits
  <2>4. CASE ConnectSerial(o)
    <3>1. S = "connecting" /\ board = "kind"
      BY <1>2, <2>1, <2>4 DEF ConnectSerial, App
    <3>2. PICK w : Makes(View(o), w, "upload", board) /\ Updated(o, w)
      BY <2>4, ConnectIs
    <3>3. /\ board' = board /\ status' = status /\ obj'[entry].state = "upload"
          /\ obj'[entry].stale = 0 /\ \A p \in Objects \ {entry} : obj'[p] = obj[p]
      BY <1>0, <1>2, <3>2 DEF Makes, Updated, Written
    <3> QED
      BY <1>0, <2>0, <2>1, <2>3, <2>4, <3>1, <3>3, EntryKeeps DEF Timed
  <2>5. CASE ConnectSerialFails(o) \/ TimerSwitches(o)
    <3>1. PICK w : Makes(View(o), w, "broken", board) /\ Updated(o, w)
      BY <2>5, BreaksIs
    <3>2. /\ board' = board /\ status' = "broken" /\ obj'[entry].state = "broken"
          /\ obj'[entry].stale = 0 /\ \A p \in Objects \ {entry} : obj'[p] = obj[p]
      BY <1>0, <1>2, <3>1 DEF Makes, Updated, Written
    <3>3. S # "ready"
      BY <1>2, <2>5 DEF ConnectSerialFails, TimerSwitches, TypeOK, Timed
    <3> QED
      BY <1>0, <2>0, <2>1, <2>3, <2>5, <3>2, <3>3, EntryKeeps DEF Timed
  <2>6. CASE TimerFires(o)
    <3>1. PICK w : /\ Updated(o, w) /\ w.state = obj[o].state /\ w.stale = obj[o].stale
                   /\ w.board = board /\ w.status = status
      BY <2>6, FiresIs
    <3>2. /\ board' = board /\ status' = status /\ obj'[entry].state = S
          /\ obj'[entry].stale = 0 /\ \A p \in Objects \ {entry} : obj'[p] = obj[p]
      BY <1>0, <1>2, <3>1 DEF Updated, Driven
    <3> QED
      BY <1>0, <2>0, <2>1, <2>3, <2>6, <3>2, EntryKeeps
  <2>7. CASE StaleTimer(o)
    BY <1>0, <2>7 DEF StaleTimer, Driven
  <2>8. ASSUME NEW s \in Flashing, NEW w, Updated(o, w), Starts(View(o), s, w), S \notin Timed
        PROVE  /\ obj'[entry].stale = 0 /\ \A p \in Objects \ {entry} : obj'[p] = obj[p]
               /\ obj'[entry].state \in {s, Following(s), "broken"}
               /\ obj'[entry].state = "connecting" => board' = "to_kind"
               /\ status' \in {status, "testing", "broken"}
    <3>1. View(o).timer = "off"
      BY <1>0, <1>2, <2>8 DEF TypeOK
    <3> QED
      BY <1>0, <1>2, <2>8, <3>1 DEF Updated, Starts, Following, Target, Written, Flashing
  <2>9. CASE Reboot(o)
    <3>1. S \in {"upload", "half"}
      BY <1>2, <2>9 DEF Reboot
    <3>2. PICK w : Updated(o, w) /\ Starts(View(o), "flash_kind", w)
      BY <2>9, RebootIs
    <3>3. /\ obj'[entry].stale = 0 /\ \A p \in Objects \ {entry} : obj'[p] = obj[p]
          /\ obj'[entry].state \in {"flash_kind", "connecting", "broken"}
          /\ obj'[entry].state = "connecting" => board' = "to_kind"
          /\ status' \in {status, "testing", "broken"}
      BY <2>8, <3>1, <3>2 DEF Flashing, Timed, Following
    <3> QED
      BY <1>0, <2>0, <2>1, <2>3, <2>9, <3>1, <3>3, EntryKeeps DEF Timed
  <2>10. CASE HandleReserve(o)
    <3>1. /\ Thread("reserve", o) \in waiting /\ waiting' = waiting \ {Thread("reserve", o)}
          /\ UNCHANGED <<entry, deleting, reserved, call, notice>>
      BY <2>10 DEF HandleReserve, MessagesUnchanged
    <3>2. Waits("reserve") /\ S = "ready"
      BY <2>1, <3>1 DEF Waits, Thread
    <3>3. ~Waits("reserve")' /\ ~call /\ status # "available"
      <4>1. \A t \in waiting : t.what = "reserve" => t = Thread("reserve", o)
        BY <1>0, <1>2 DEF TypeOK, Driven, Thread
      <4> QED
        BY <1>0, <2>1, <3>1, <3>2, <4>1 DEF Waits, Exclusive
    <3>4. PICK w : Updated(o, w) /\ Starts(View(o), "flash_kind", w)
      BY <2>10, ReserveIs
    <3>5. /\ obj'[entry].stale = 0 /\ \A p \in Objects \ {entry} : obj'[p] = obj[p]
          /\ obj'[entry].state \in {"flash_kind", "connecting", "broken"}
          /\ obj'[entry].state = "connecting" => board' = "to_kind"
          /\ status' \in {status, "testing", "broken"}
      BY <2>8, <3>2, <3>4 DEF Flashing, Timed, Following
    <3> QED
      BY <1>0, <2>0, <2>1, <3>1, <3>2, <3>3, <3>5, EntryKeeps DEF Timed
  <2>11. CASE HandleUnreserve(o)
    <3>1. /\ Thread("unreserve", o) \in waiting /\ waiting' = waiting \ {Thread("unreserve", o)}
          /\ UNCHANGED <<entry, deleting, reserved, call, notice>> /\ ~Waits("reserve")
      BY <2>11 DEF HandleUnreserve, Waits
    <3>2. Waits("unreserve") /\ Claimed /\ S \notin Timed /\ status # "available"
      BY <2>1, <3>1 DEF Waits, Thread, Claimed
    <3>3. ~Claimed' /\ ~Waits("reserve")' /\ ~call
      <4>1. \A t \in waiting : t.what = "unreserve" => t = Thread("unreserve", o)
        BY <1>0, <1>2 DEF TypeOK, Driven, Thread
      <4>2. ~Waits("unreserve")'
        BY <3>1, <4>1 DEF Waits
      <4>3. ~reserved /\ ~(notice > 0) /\ ~call
        BY <1>0, <3>2 DEF Exclusive
      <4> QED
        BY <3>1, <4>2, <4>3 DEF Claimed, Waits
    <3>4. PICK w : Updated(o, w) /\ Starts(View(o), "flash_default", w)
      BY <2>11, UnreserveIs
    <3>5. /\ obj'[entry].stale = 0 /\ \A p \in Objects \ {entry} : obj'[p] = obj[p]
          /\ obj'[entry].state \in {"flash_default", "test", "broken"}
          /\ status' \in {status, "testing", "broken"}
      BY <2>8, <3>2, <3>4 DEF Flashing, Following
    <3> QED
      BY <1>0, <2>0, <2>1, <3>1, <3>2, <3>3, <3>5, EntryKeeps DEF Timed
  <2>12. CASE HandleExit(o)
    <3>1. /\ Thread("delete", o) \in waiting /\ waiting' = waiting \ {Thread("delete", o)}
          /\ obj' = [obj EXCEPT ![o].state = IF @ \in {"upload", "half"} THEN "exited" ELSE @]
          /\ deleting' = "remove" /\ UNCHANGED <<entry, board, status, reserved, call, notice>>
      BY <2>12 DEF HandleExit, database
    <3>2. deleting = "exit"
      BY <3>1 DEF Found, Thread
    <3>3. S = "broken" /\ ~Claimed
      BY <1>0, <3>2 DEF Paced
    <3>4. \A p \in Objects : obj'[p].state = obj[p].state /\ obj'[p].stale = obj[p].stale
      BY <1>2, <3>1, <3>3 DEF TypeOK
    <3>5. (Claimed' <=> Claimed) /\ (Waits("reserve")' <=> Waits("reserve"))
          /\ (Waits("unreserve")' <=> Waits("unreserve"))
      BY <3>1 DEF Claimed, Waits, Thread
    <3>6. Driven' /\ Orphaned' /\ Programmed' /\ Exclusive'
      <4>1. orphans \subseteq Objects
        BY DEF TypeOK, Objects
      <4>2. Orphaned'
        BY <1>0, <3>1, <3>4, <4>1 DEF Orphaned, Orphans
      <4>3. Driven'
        BY <1>0, <3>1, <3>4 DEF Driven, Orphans
      <4> QED
        BY <1>0, <2>0, <3>1, <3>4, <3>5, <4>2, <4>3 DEF Programmed, Exclusive
    <3>7. Paced'
      BY <1>0, <2>0, <3>1, <3>3, <3>4, <3>5 DEF Paced
    <3> QED
      BY <3>6, <3>7 DEF Orderly
  <2>13. CASE ConnectSerialRaises(o)
    <3>1. PICK w : Makes(View(o), w, "half", board) /\ Updated(o, w)
      BY <2>13, RaisesIs
    <3>2. /\ board' = board /\ status' = status /\ obj'[entry].state = "half"
          /\ obj'[entry].stale = 0 /\ \A p \in Objects \ {entry} : obj'[p] = obj[p]
      BY <1>0, <1>2, <3>1 DEF Makes, Updated, Written
    <3>3. S = "connecting"
      BY <1>2, <2>13 DEF ConnectSerialRaises
    <3> QED
      BY <1>0, <2>0, <2>1, <2>3, <2>13, <3>2, <3>3, EntryKeeps DEF Timed
  <2>14. CASE ExitHangs(o)
    <3>1. PICK w : /\ Updated(o, w) /\ w.state = "hung" /\ w.stale = obj[o].stale
                   /\ w.board = board /\ w.status = status
      BY <2>14, HangsIs
    <3>2. /\ board' = board /\ status' = status /\ obj'[entry].state = "hung"
          /\ obj'[entry].stale = 0 /\ \A p \in Objects \ {entry} : obj'[p] = obj[p]
      BY <1>0, <1>2, <3>1 DEF Updated, Driven
    <3>3. S = "upload"
      BY <1>2, <2>14 DEF ExitHangs
    <3> QED
      BY <1>0, <2>0, <2>1, <2>3, <2>14, <3>2, <3>3, EntryKeeps DEF Timed
  <2> QED
    BY <2>2, <2>4, <2>5, <2>6, <2>7, <2>9, <2>10, <2>11, <2>12, <2>13, <2>14 DEF ObjectStep
<1> QED
  BY <1>1, <1>2

LEMMA ManagerOrderly ==
    ASSUME TypeOK, Found, Orderly, ~crossed', TypeOK',
           Reserve \/ Unreserve \/ Remove \/ Delete \/ ObserverEnds \/ MakeReservation \/ EndReservation
    PROVE  Orderly'
<1> USE DEF worker, database, history
<1>0. Driven /\ Orphaned /\ Programmed /\ Exclusive /\ Paced /\ (entry # 0 => entry \in Objects)
  BY DEF Orderly, TypeOK, Objects
<1>00. orphans' = orphans /\ Orphaned'
  <2>1. orphans' = orphans /\ made' = made /\ obj' = obj /\ events' = events
        /\ entry' \in {entry, 0}
    BY DEF Reserve, Unreserve, Remove, Delete, ObserverEnds, MakeReservation, EndReservation
  <2>2. 0 \notin orphans
    BY DEF TypeOK
  <2> QED
    BY <1>0, <2>1, <2>2 DEF Orphaned
<1>1. CASE Reserve
  <2>1. /\ call /\ call' = FALSE
        /\ waiting' = IF entry = 0 THEN waiting ELSE waiting \cup {Thread("reserve", entry)}
        /\ UNCHANGED <<entry, obj, deleting, board, status, reserved, notice>>
    BY <1>1 DEF Reserve
  <2>2. reserved /\ ~Waits("reserve") /\ entry # 0 /\ obj[entry].state = "ready" /\ Claimed
    BY <1>0, <1>00, <2>1 DEF Exclusive, Paced, Claimed
  <2>3. Waits("unreserve")' <=> Waits("unreserve")
    BY <2>1 DEF Waits, Thread
  <2>4. Claimed' <=> Claimed
    BY <2>1, <2>3 DEF Claimed
  <2>5. Driven' /\ Programmed' /\ Exclusive'
    BY <1>0, <1>00, <2>1, <2>2, <2>3 DEF Driven, Programmed, Exclusive, Thread
  <2>6. Paced'
    BY <1>0, <1>00, <2>1, <2>2, <2>4 DEF Paced
  <2> QED
    BY <1>00, <2>5, <2>6 DEF Orderly
<1>2. CASE Unreserve
  <2>1. /\ notice > 0 /\ notice' = notice - 1
        /\ entry # 0 => /\ status' = "flashing_default"
                        /\ waiting' = waiting \cup {Thread("unreserve", entry)}
        /\ UNCHANGED <<entry, obj, deleting, board, reserved, call>>
    BY <1>2 DEF Unreserve
  <2>2. notice = 1 /\ ~reserved /\ ~call /\ Claimed /\ entry # 0
    BY <1>0, <1>00, <2>1 DEF Exclusive, Paced, Claimed
  <2>3. Waits("reserve")' <=> Waits("reserve")
    BY <2>1, <2>2 DEF Waits, Thread
  <2>4. notice' = 0 /\ status' = "flashing_default"
    BY <2>1, <2>2
  <2>5. Driven' /\ Programmed' /\ Exclusive'
    BY <1>0, <1>00, <2>1, <2>2, <2>4 DEF Driven, Programmed, Exclusive, Thread
  <2>6. Paced'
    BY <1>0, <1>00, <2>1, <2>2, <2>3, <2>4 DEF Paced
  <2> QED
    BY <1>00, <2>5, <2>6 DEF Orderly
<1>3. CASE Remove
  <2>1. /\ deleting = "remove" /\ deleting' = "scan" /\ entry' = 0
        /\ UNCHANGED <<obj, waiting, board, status, reserved, call, notice>>
    BY <1>3 DEF Remove
  <2>2. ~Claimed /\ obj[entry].state = "broken" /\ entry # 0
    BY <1>0, <1>00, <2>1 DEF Paced, Found
  <2>3. ~Waits("reserve") /\ ~call /\ status # "available"
    BY <1>0, <1>00, <2>2 DEF Paced
  <2>4. waiting = {}
    <3> SUFFICES ASSUME NEW t \in waiting PROVE FALSE
      OBVIOUS
    <3>1. t.what \in {"reserve", "unreserve", "delete"}
      BY DEF TypeOK
    <3> QED
      BY <2>1, <2>2, <2>3, <3>1 DEF Waits, Claimed, Found
  <2>5. (Claimed' <=> Claimed) /\ ~Waits("reserve")' /\ ~Waits("unreserve")'
    BY <2>1, <2>4 DEF Claimed, Waits
  <2>6. Driven'
    <3>1. \A o \in Objects \ orphans : obj[o].state \notin Timed \cup Session
      BY <1>0, <1>00, <2>2 DEF Driven, Timed, Session
    <3> QED
      BY <1>0, <1>00, <2>1, <2>4, <3>1 DEF Driven
  <2>7. Programmed' /\ Exclusive'
    BY <1>0, <1>00, <2>1, <2>3, <2>5 DEF Programmed, Exclusive
  <2>8. Paced'
    BY <2>1, <2>2, <2>3, <2>5 DEF Paced
  <2> QED
    BY <1>00, <2>6, <2>7, <2>8 DEF Orderly
<1>4. CASE Delete
  <2>1. /\ Deletable /\ deleting' = "exit" /\ entry # 0
        /\ waiting' = waiting \cup {Thread("delete", entry)}
        /\ UNCHANGED <<entry, obj, board, status, reserved, call, notice>>
    BY <1>4 DEF Delete
  <2>2. /\ obj[entry].state = "broken" /\ ~reserved /\ notice = 0 /\ ~Waits("unreserve")
        /\ ~Waits("reserve") /\ ~Claimed
    BY <2>1 DEF Deletable, Waits, Claimed
  <2>3. ~Waits("unreserve")' /\ ~Waits("reserve")'
    BY <2>1, <2>2 DEF Waits, Thread
  <2>4. ~Claimed'
    BY <2>1, <2>2, <2>3 DEF Claimed
  <2>5. Driven' /\ Programmed' /\ Exclusive'
    BY <1>0, <1>00, <2>1, <2>2, <2>3 DEF Driven, Programmed, Exclusive, Thread
  <2>6. Paced'
    BY <1>0, <1>00, <2>1, <2>2, <2>3, <2>4 DEF Paced
  <2> QED
    BY <1>00, <2>5, <2>6 DEF Orderly
<1>5. CASE MakeReservation
  <2>1. /\ status = "available" /\ status' = "reserved" /\ reserved' = TRUE /\ call' = TRUE
        /\ UNCHANGED <<entry, obj, waiting, deleting, board, notice>>
    BY <1>5 DEF MakeReservation
  <2>2. entry # 0 /\ obj[entry].state = "ready" /\ ~Claimed /\ ~Waits("reserve")
    BY <1>0, <1>00, <2>1 DEF Paced
  <2>3. notice = 0 /\ ~Waits("unreserve")
    BY <2>2 DEF Claimed, TypeOK
  <2>4. ~Waits("unreserve")' /\ ~Waits("reserve")'
    BY <2>1, <2>2, <2>3 DEF Waits
  <2>5. Driven' /\ Programmed' /\ Exclusive'
    BY <1>0, <1>00, <2>1, <2>3, <2>4 DEF Driven, Programmed, Exclusive
  <2>6. Paced'
    BY <1>0, <1>00, <2>1, <2>2, <2>4 DEF Paced, Timed
  <2> QED
    BY <1>00, <2>5, <2>6 DEF Orderly
<1>6. CASE EndReservation
  <2>1. /\ reserved /\ reserved' = FALSE /\ status' = "await_flash_default" /\ call' = FALSE
        /\ notice' = notice + 1 /\ UNCHANGED <<entry, obj, waiting, deleting, board>>
    BY <1>6 DEF EndReservation
  <2>2. notice = 0 /\ ~Waits("unreserve") /\ Claimed
    BY <1>0, <1>00, <2>1 DEF Exclusive, Claimed
  <2>3. (Waits("unreserve")' <=> Waits("unreserve")) /\ (Waits("reserve")' <=> Waits("reserve"))
    BY <2>1 DEF Waits
  <2>4. Driven' /\ Programmed' /\ Exclusive'
    BY <1>0, <1>00, <2>1, <2>2, <2>3 DEF Driven, Programmed, Exclusive
  <2>5. Paced'
    BY <1>0, <1>00, <2>1, <2>2, <2>3 DEF Paced
  <2> QED
    BY <1>00, <2>4, <2>5 DEF Orderly
<1>7. CASE ObserverEnds
  <2>1. UNCHANGED <<entry, obj, waiting, deleting, board, status, reserved, call, notice>>
    BY <1>7 DEF ObserverEnds
  <2>2. Driven' /\ Programmed' /\ Exclusive' /\ Paced'
    BY <1>0, <1>00, <2>1 DEF Driven, Programmed, Exclusive, Paced, Claimed, Waits
  <2> QED
    BY <1>00, <2>2 DEF Orderly
<1> QED
  BY <1>1, <1>2, <1>3, <1>4, <1>5, <1>6, <1>7

LEMMA HandlesOrderly ==
    ASSUME TypeOK, Found, Orderly, NEW b \in Places, Handles(b), Calls,
           b = board \/ (board \in Moving /\ b = Arrived)
    PROVE  Orderly'
<1>0. /\ Driven /\ Orphaned /\ Programmed /\ Exclusive /\ Paced
      /\ UNCHANGED <<waiting, reserved, call, notice>>
      /\ deleting' \in {"exit", "remove"} => deleting' = deleting
  BY DEF Orderly, Calls
<1>1. /\ Claimed' <=> Claimed
      /\ Waits("reserve")' <=> Waits("reserve")
      /\ Waits("unreserve")' <=> Waits("unreserve")
  BY <1>0 DEF Claimed, Waits
<1>2. CASE NewDevice(b)
  <2> DEFINE o == made + 1
  <2>1. PICK w : /\ Updated(o, w) /\ Typed(w)
                 /\ w.state \in {"flash_default", "test", "broken"} /\ w.status # "available"
                 /\ w.stale = IF obj[o].timer = "off" THEN obj[o].stale ELSE obj[o].stale + 1
    BY <1>2, NewIs
  <2>2. /\ entry = 0 /\ o \in Objects /\ o # 0 /\ made' = o
        /\ \/ entry' = o /\ orphans' = orphans
              /\ events' = [events EXCEPT ![o] = @ \cup Present(b)]
           \/ /\ entry' = 0 /\ events' = events /\ orphans' = orphans \cup {o}
              /\ obj'[o].state = "flash_default"
    BY <1>2, NewIs DEF Objects
  <2>3. /\ ~Claimed /\ ~call /\ ~Waits("reserve") /\ waiting = {}
        /\ deleting \notin {"exit", "remove"}
        /\ \A p \in Objects : obj[p].stale = 0
        /\ \A p \in Objects \ orphans : obj[p].state \notin Timed \cup Session
    <3>1. \A p \in Objects \ orphans : obj[p].state \notin Timed \cup Session
      BY <1>0, <2>2 DEF Driven, Objects
    <3>2. waiting = {}
      BY <1>0, <2>2 DEF Driven, TypeOK, Objects
    <3> QED
      BY <1>0, <2>2, <3>1, <3>2 DEF Driven, Paced, Found, Waits
  <2>4. orphans \subseteq Objects /\ o \notin orphans /\ o \notin 1..made /\ 1..o = (1..made) \cup {o}
    BY DEF TypeOK, Objects
  <2> HIDE DEF o
  <2>5. obj[o].timer = "off"
    BY <2>2, <2>3, <2>4 DEF TypeOK
  <2>6. /\ status' # "available" /\ obj'[o].state \in {"flash_default", "test", "broken"}
        /\ obj'[o].stale = 0 /\ \A p \in Objects \ {o} : obj'[p] = obj[p]
    BY <2>1, <2>2, <2>3, <2>5 DEF Updated
  <2>7. Driven'
    BY <1>0, <2>2, <2>3, <2>6 DEF Driven
  <2>8. Orphaned'
    <3>1. events \in [Objects -> SUBSET Nodes]
      BY DEF TypeOK
    <3>2. \A p \in Objects : events[p] # {} => p \in (1..made) \ orphans
      BY <1>0 DEF Orphaned
    <3>3. \A p \in Objects : events'[p] # {} => p \in (1..o) \ orphans'
      <4>1. CASE entry' = 0
        BY <2>2, <2>4, <3>2, <4>1
      <4>2. CASE entry' = o /\ orphans' = orphans
                 /\ events' = [events EXCEPT ![o] = @ \cup Present(b)]
        BY <2>2, <2>4, <3>1, <3>2, <4>2
      <4> QED
        BY <2>2, <4>1, <4>2
    <3>4. \A p \in orphans' : obj'[p].state \in {"flash_default", "broken"}
      BY <1>0, <2>2, <2>4, <2>6 DEF Orphaned
    <3>5. entry' \notin orphans'
      <4>1. 0 \notin orphans
        BY DEF TypeOK
      <4> QED
        BY <2>2, <2>4, <4>1
    <3> QED
      BY <2>2, <3>3, <3>4, <3>5 DEF Orphaned
  <2>9. Programmed' /\ Exclusive'
    BY <1>0, <1>1, <2>2, <2>6 DEF Programmed, Exclusive
  <2>10. Paced'
    BY <1>0, <1>1, <2>2, <2>3, <2>6 DEF Paced
  <2> QED
    BY <2>7, <2>8, <2>9, <2>10 DEF Orderly
<1>3. CASE DevEvents(b) \/ Unheard(b)
  <2>1. UNCHANGED <<entry, made, obj, status, orphans>> /\ board' = b
    BY <1>3 DEF DevEvents, Unheard
  <2>2. Programmed'
    BY <1>0, <2>1 DEF Programmed, Moving, Arrived
  <2>3. Driven' /\ Exclusive'
    BY <1>0, <1>1, <2>1 DEF Driven, Exclusive
  <2>4. Paced'
    BY <1>0, <1>1, <2>1 DEF Paced
  <2>5. Orphaned'
    <3>1. events' = events \/ (entry # 0 /\ events' = [events EXCEPT ![entry] = @ \cup Present(b)])
      BY <1>3 DEF DevEvents, Unheard
    <3>2. entry # 0 => entry \in 1..made
      BY DEF TypeOK
    <3>3. \A p \in Objects : events'[p] # {} => p \in (1..made) \ orphans
      BY <1>0, <3>1, <3>2 DEF Orphaned, TypeOK
    <3> QED
      BY <1>0, <2>1, <3>3 DEF Orphaned
  <2> QED
    BY <2>2, <2>3, <2>4, <2>5 DEF Orderly
<1> QED
  BY <1>2, <1>3 DEF Handles

-----------------------------------------------------------------------------
(* Theorems.                                                               *)

LEMMA Initially == Init => IInv
<1> SUFFICES ASSUME Init PROVE IInv
  OBVIOUS
<1>1. TypeOK
  <2>1. Fresh \in [state : Kinds, taken : SUBSET Nodes, timer : {"off", "on", "fired"}, stale : Nat]
        /\ Fresh.timer = "off"
    BY DEF Fresh, Kinds
  <2>2. /\ obj \in [Objects -> [state : Kinds, taken : SUBSET Nodes, timer : {"off", "on", "fired"},
                                stale : Nat]]
        /\ \A o \in Objects : obj[o].timer # "off" => obj[o].state \in Timed
    BY <2>1 DEF Init
  <2>3. /\ made \in 0..MaxObjects /\ entry \in 0..made /\ events \in [Objects -> SUBSET Nodes]
        /\ waiting \in SUBSET [what : {"reserve", "unreserve", "delete"}, object : Objects]
        /\ reservations \in 0..MaxReservations /\ failures \in 0..MaxFailures
    BY DEF Init
  <2> QED
    BY <2>2, <2>3 DEF Init, TypeOK, Status
<1>2. Found
  BY DEF Init, Found
<1>3. Orderly
  BY DEF Init, Orderly, Driven, Orphaned, Programmed, Exclusive, Paced, Claimed, Waits, Fresh, Timed, Session
<1> QED
  BY <1>1, <1>2, <1>3 DEF IInv

LEMMA StepKeeps ==
    ASSUME IInv, [Next]_vars
    PROVE  IInv'
<1>0. TypeOK /\ Found /\ (~crossed => Orderly)
  BY DEF IInv
<1>1. ASSUME NEW o \in Objects, ObjectStep(o) PROVE IInv'
  <2>1. TypeOK' /\ Found'
    BY <1>0, <1>1, ObjectStepTyped
  <2>2. crossed => crossed'
    BY <1>1 DEF ObjectStep, HandleDeviceEvent, ConnectSerial, ConnectSerialFails, TimerFires,
       TimerSwitches, StaleTimer, HandleReserve, HandleUnreserve, HandleExit, Reboot,
       ConnectSerialRaises, ExitHangs, MessagesUnchanged, history
  <2>3. ~crossed' => Orderly'
    BY <1>0, <1>1, <2>2, ObjectStepOrderly
  <2> QED
    BY <2>1, <2>3 DEF IInv
<1>2. ASSUME Reserve \/ Unreserve \/ Remove \/ Delete \/ ObserverEnds \/ MakeReservation \/ EndReservation
      PROVE  IInv'
  <2>1. TypeOK' /\ Found'
    BY <1>0, <1>2, ManagerTyped
  <2>2. crossed => crossed'
    BY <1>2 DEF Reserve, Unreserve, Remove, Delete, ObserverEnds, MakeReservation,
       EndReservation, history
  <2>3. ~crossed' => Orderly'
    BY <1>0, <1>2, <2>1, <2>2, ManagerOrderly
  <2> QED
    BY <2>1, <2>3 DEF IInv
<1>3. ASSUME Scan PROVE IInv'
  <2>1. Handles(board) /\ Calls /\ board \in Places
    BY <1>0, <1>3, ScanHandles
  <2>2. ~crossed' => Orderly'
    BY <1>0, <2>1, HandlesOrderly DEF Calls
  <2> QED
    BY <1>0, <2>1, <2>2, HandlesTyped DEF IInv
<1>4. ASSUME Enumerate PROVE IInv'
  <2>1. Handles(Arrived) /\ Calls /\ Arrived \in Places /\ board \in Moving
    BY <1>0, <1>4, EnumerateHandles
  <2>2. ~crossed' => Orderly'
    BY <1>0, <2>1, HandlesOrderly DEF Calls
  <2> QED
    BY <1>0, <2>1, <2>2, HandlesTyped DEF IInv
<1>5. ASSUME UNCHANGED vars PROVE IInv'
  <2>1. UNCHANGED <<worker, board, database, history>>
    BY <1>5 DEF vars
  <2>2. UNCHANGED <<entry, made, obj, events, waiting, deleting, observer, board, status, reserved,
                    call, notice, reservations, failures, spoiled, crossed, orphans>>
    BY <2>1 DEF worker, database, history
  <2> QED
    BY <2>2 DEF IInv, TypeOK, Found, Orderly, Driven, Orphaned, Programmed,
       Exclusive, Paced, Claimed, Waits
<1>6. Progress => \/ \E o \in Objects : ObjectStep(o)
                  \/ Reserve \/ Unreserve \/ Remove \/ Scan \/ Enumerate
  BY DEF Progress, LockStep, ManagerStep, ObjectStep
<1>7. \A o \in Objects : Reboot(o) \/ ConnectSerialRaises(o) \/ ExitHangs(o) => ObjectStep(o)
  BY DEF ObjectStep
<1> QED
  BY <1>1, <1>2, <1>3, <1>4, <1>5, <1>6, <1>7 DEF Next

\* The inductive invariant holds in every behaviour.
THEOREM Invariance == Spec => []IInv
<1>1. Init => IInv
  BY Initially
<1>2. IInv /\ [Next]_vars => IInv'
  BY StepKeeps
<1> QED
  BY <1>1, <1>2, PTL DEF Spec

\* Types; a Device is never made beyond the bound, and only a state that is flashed or tested
\* for the pool has a timer, whatever /delete meets.
THEOREM TypeCorrect == Spec => []TypeOK
<1>1. IInv => TypeOK
  BY DEF IInv
<1> QED
  BY <1>1, Invariance, PTL

\* An UploadState runs on a board with the firmware of its kind, and a ReadyState on one with
\* the default firmware, though the states see only udev events, which may be late.
THEOREM RightFirmwareHolds == Spec => []RightFirmware
<1>1. IInv => RightFirmware
  BY DEF IInv, Orderly, Programmed, RightFirmware
<1> QED
  BY <1>1, Invariance, PTL

\* Device objects that DeviceManager.delete has dropped have no timer and no thread that
\* still acts on the board.
THEOREM OneDriverHolds == Spec => []OneDriver
<1>1. IInv => OneDriver
  <2> SUFFICES ASSUME IInv, ~crossed
               PROVE  /\ \A o \in Objects \ ({entry} \cup orphans) : ~Acts(o)
                      /\ entry \notin orphans
                      /\ \A o \in orphans : /\ obj[o].state \in {"flash_default", "broken"}
                                            /\ obj[o].stale = 0 /\ events[o] = {}
                                            /\ \A t \in waiting : t.object # o
    BY DEF OneDriver
  <2>1. TypeOK /\ Driven /\ Orphaned
    BY DEF IInv, Orderly
  <2>2. orphans \subseteq Objects
    BY <2>1 DEF TypeOK, Objects
  <2>3. \A o \in Objects \ ({entry} \cup orphans) : ~Acts(o)
    BY <2>1 DEF Driven, Acts
  <2> QED
    BY <2>1, <2>2, <2>3 DEF Driven, Orphaned
<1> QED
  BY <1>1, Invariance, PTL

\* A board whose row says available is in ReadyState, and no timer, thread, notification or
\* /delete is on its way to it.
THEOREM AvailableIsReadyHolds == Spec => []AvailableIsReady
<1>1. IInv => AvailableIsReady
  <2> SUFFICES ASSUME IInv, status = "available", ~crossed
               PROVE  /\ entry # 0 /\ obj[entry].state = "ready"
                      /\ \A o \in Objects \ orphans : ~Acts(o)
                      /\ notice = 0 /\ deleting \notin {"exit", "remove"}
    BY DEF AvailableIsReady
  <2>1. TypeOK /\ Driven /\ Paced
    BY DEF IInv, Orderly
  <2>2. entry # 0 /\ obj[entry].state = "ready" /\ ~Claimed /\ ~Waits("reserve")
    BY <2>1 DEF Paced
  <2>3. notice = 0 /\ ~Waits("unreserve")
    BY <2>1, <2>2 DEF Claimed, TypeOK
  <2>4. deleting \notin {"exit", "remove"}
    BY <2>1, <2>2 DEF Paced, TypeOK
  <2>5. ASSUME NEW o \in Objects \ orphans, Acts(o) PROVE FALSE
    <3>1. obj[o].stale = 0
      BY <2>1 DEF Driven
    <3>2. obj[o].state \notin Timed \cup Session
      BY <2>1, <2>2 DEF Driven, Timed, Session
    <3>3. \A t \in waiting : t.what = "delete"
      BY <2>1, <2>2, <2>3 DEF Waits, TypeOK
    <3> QED
      BY <2>5, <3>1, <3>2, <3>3 DEF Acts
  <2> QED
    BY <2>2, <2>3, <2>4, <2>5
<1> QED
  BY <1>1, Invariance, PTL
===============================================================================
