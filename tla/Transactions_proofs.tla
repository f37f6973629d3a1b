------------------------- MODULE Transactions_proofs -------------------------
(***************************************************************************)
(* Proofs about Transactions, for any sets of boards, clients and          *)
(* connections: what a procedure writes at its commit is what it would    *)
(* write in one step, unless it is late.                                  *)
(***************************************************************************)
EXTENDS Transactions, TLAPS

USE NoneAssumption

-----------------------------------------------------------------------------
(* The inductive invariant.                                                *)

\* The statements that write devices, and those that delete reservations.
Writing(t) ==
    \/ tx[t].kind \in {"make", "drop"} /\ tx[t].step = 1
    \/ tx[t].kind \in {"end", "timeout"} /\ tx[t].step = 2
Deleting(t) ==
    \/ tx[t].kind \in {"end", "timeout", "clear"} /\ tx[t].step = 1
    \/ tx[t].kind = "drop" /\ tx[t].step = 2

\* What a transaction has written is of what it has read.
Shaped(t) ==
    /\ tx[t].devices \cup tx[t].rows \subseteq tx[t].res
    /\ tx[t].kind = "none" => tx[t].res = {} /\ tx[t].step = 0
    /\ tx[t].kind = "clear" => tx[t].step < 2
    /\ tx[t].kind = "drop" => tx[t].rows \subseteq tx[t].devices
    /\ tx[t].kind = "make" => tx[t].client \in Clients
    /\ tx[t].kind \in {"end", "timeout"} => \A b \in tx[t].res : tx[t].seen[b] \in Clients

\* The rows that are written or about to be written are there, or are not yet.
Locked(t) ==
    /\ tx[t].devices \subseteq Present
    /\ Writing(t) => tx[t].left \subseteq Present
    /\ Deleting(t) => tx[t].left \subseteq Held
    /\ tx[t].kind = "make" => tx[t].rows \subseteq Present \ Held
    /\ tx[t].kind # "make" => tx[t].rows \subseteq Held

\* A statement writes each row that it had to, unless the transaction is late.
Progressed(t) ==
    /\ tx[t].kind = "make" =>
          /\ tx[t].res \ tx[t].late \subseteq Present
          /\ tx[t].step = 1 => tx[t].res \ tx[t].late \subseteq tx[t].left \cup tx[t].devices
          /\ tx[t].step = 2 => /\ tx[t].res \ tx[t].late \subseteq tx[t].devices
                               /\ tx[t].res \subseteq tx[t].left \cup tx[t].rows
    /\ (tx[t].kind = "drop" /\ tx[t].step = 2) =>
          /\ tx[t].left \subseteq tx[t].devices
          /\ tx[t].devices \cap Held \subseteq tx[t].left \cup tx[t].rows

\* A board that make has found available still is, or another transaction was faster.
MakeReads(t) ==
    tx[t].kind = "make" =>
        \A b \in tx[t].res \ (tx[t].late \cup spoiled) :
            b \in Held \/ device_status[b] = "available"

\* A reservation that end has found is still the same, or has been ended.
EndReads(t) ==
    tx[t].kind \in {"end", "timeout"} =>
        \A b \in tx[t].res \ (tx[t].late \cup spoiled) :
            /\ \/ reservations[b] = tx[t].seen[b]
               \/ reservations[b] = None /\ device_status[b] # "available"
            /\ (tx[t].step > 0 /\ b \in Held) =>
                  b \in tx[t].rows \/ (tx[t].step = 1 /\ b \in tx[t].left)

Sound(t) == Shaped(t) /\ Locked(t) /\ Progressed(t) /\ MakeReads(t) /\ EndReads(t)

\* No device goes to which a reservation is being inserted.
Apart ==
    \A t, u \in Txs : (tx[t].kind = "make" /\ tx[u].kind = "drop") =>
        tx[t].rows \cap tx[u].devices = {}

\* A reservation refers to a device.
Referred == Held \subseteq Present

\* A board that is reserved or available has a worker that leaves it alone.
Pooled ==
    \A b \in Boards \ spoiled :
        /\ b \in Held => device_status[b] # "available"
        /\ b \in Held \/ device_status[b] = "available" => worker[b] = "ready"

\* A worker that shuts down is met only by the makes that had looked before.
Watched ==
    /\ shutting_down \in BOOLEAN /\ overtaken \in SUBSET Txs
    /\ \A t \in Txs : (tx[t].kind = "make" /\ shutting_down) => t \in overtaken

IInv == TypeOK /\ Apart /\ Referred /\ Pooled /\ Watched /\ \A t \in Txs : Sound(t)

-----------------------------------------------------------------------------
(* Statements.                                                             *)

LEMMA TxIsTyped ==
    ASSUME TypeOK, NEW t \in Txs
    PROVE  /\ tx[t] \in Transaction
           /\ tx[t].kind \in {"make", "end", "timeout", "clear", "drop", "none"}
           /\ tx[t].step \in 0..2 /\ tx[t].res \subseteq Boards
           /\ tx[t].left \subseteq tx[t].res /\ tx[t].late \subseteq Boards
           /\ tx[t].devices \subseteq Boards /\ tx[t].rows \subseteq Boards
           /\ tx[t].client \in Clients \cup {None}
           /\ tx[t].seen \in [Boards -> Clients \cup {None}]
BY DEF TypeOK, Transaction, Statements

LEMMA Lengths ==
    /\ Len(Statements["make"]) = 2 /\ Len(Statements["end"]) = 2
    /\ Len(Statements["timeout"]) = 2 /\ Len(Statements["drop"]) = 2
    /\ Len(Statements["clear"]) = 1 /\ Len(Statements["none"]) = 0
BY DEF Statements

LEMMA StatementIs ==
    ASSUME TypeOK, NEW t \in Txs, Shaped(t)
    PROVE  /\ Statement(t) \in {"update", "remove"} <=> Writing(t)
           /\ Statement(t) = "delete" <=> Deleting(t)
           /\ Statement(t) = "insert" <=> tx[t].kind = "make" /\ tx[t].step = 2
           /\ Statement(t) = "remove" <=> tx[t].kind = "drop" /\ tx[t].step = 1
<1>1. tx[t].kind \in {"make", "end", "timeout", "clear", "drop", "none"} /\ tx[t].step \in 0..2
  BY TxIsTyped
<1>2. CASE tx[t].step = 0
  BY <1>2 DEF Statement, Writing, Deleting
<1>3. CASE tx[t].step = 1
  BY <1>1, <1>3 DEF Statement, Writing, Deleting, Statements, Shaped
<1>4. CASE tx[t].step = 2
  BY <1>1, <1>4 DEF Statement, Writing, Deleting, Statements, Shaped
<1> QED
  BY <1>1, <1>2, <1>3, <1>4

\* A step that leaves shutting_down alone and begins no make while it is set.
LEMMA WatchedStays ==
    ASSUME IInv, UNCHANGED closing,
           \A u \in Txs : tx'[u].kind = "make" => tx[u].kind = "make" \/ ~shutting_down
    PROVE  Watched'
BY DEF IInv, Watched, closing

\* A step of one transaction that leaves the tables alone.
LEMMA OneTx ==
    ASSUME IInv, NEW t \in Txs, UNCHANGED tables,
           DOMAIN tx' = Txs, tx' = [u \in Txs |-> tx'[u]],
           \A u \in Txs \ {t} : tx'[u] = tx[u],
           tx'[t] \in Transaction, tx'[t].left \subseteq tx'[t].res,
           Sound(t)', Watched',
           \A u \in Txs \ {t} : /\ tx'[t].devices \cap tx[u].devices = {}
                                /\ tx'[t].rows \cap tx[u].rows = {}
                                /\ (tx'[t].kind = "make" /\ tx[u].kind = "drop") =>
                                      tx'[t].rows \cap tx[u].devices = {}
                                /\ (tx[u].kind = "make" /\ tx'[t].kind = "drop") =>
                                      tx[u].rows \cap tx'[t].devices = {}
    PROVE  IInv'
<1>1. TypeOK'
  <2>1. tx' \in [Txs -> Transaction]
    BY DEF IInv, TypeOK
  <2>2. \A u \in Txs : tx'[u].left \subseteq tx'[u].res
    BY DEF IInv, TypeOK
  <2>3. \A u, v \in Txs : u # v =>
            tx'[u].devices \cap tx'[v].devices = {} /\ tx'[u].rows \cap tx'[v].rows = {}
    BY DEF IInv, TypeOK
  <2> QED
    BY <2>1, <2>2, <2>3 DEF IInv, TypeOK, Watched, tables, Held
<1>2. Apart'
  BY DEF IInv, Apart
<1>3. Referred' /\ Pooled'
  BY DEF IInv, Referred, Pooled, tables, Held, Present
<1>4. ASSUME NEW u \in Txs \ {t} PROVE Sound(u)'
  <2>1. Sound(u) /\ tx'[u] = tx[u]
    BY DEF IInv
  <2> QED
    BY <2>1 DEF Sound, Shaped, Locked, Progressed, MakeReads, EndReads, Writing, Deleting,
                tables, Held, Present
<1> QED
  BY <1>1, <1>2, <1>3, <1>4 DEF IInv

LEMMA Initially == Init => IInv
<1> SUFFICES ASSUME Init PROVE IInv
  OBVIOUS
<1>1. Watched
  BY DEF Init, Watched, Idle
<1>2. shutting_down \in BOOLEAN /\ overtaken \in SUBSET Txs
  BY <1>1 DEF Watched
<1>3. TypeOK
  BY <1>2 DEF Init, TypeOK, Transaction, Status, Statements, Idle
<1>4. Apart /\ Referred /\ Pooled
  BY DEF Init, Apart, Referred, Pooled, Idle, Held, Present
<1>5. \A t \in Txs : Sound(t)
  BY DEF Init, Idle, Sound, Shaped, Locked, Progressed, MakeReads, EndReads, Writing, Deleting,
         Held, Present
<1> QED
  BY <1>1, <1>3, <1>4, <1>5 DEF IInv

LEMMA IdleIsTyped == Idle \in Transaction
BY DEF Idle, Transaction, Statements

-----------------------------------------------------------------------------
(* Calls and statements.                                                   *)

LEMMA BeginKeeps ==
    ASSUME IInv, NEW t \in Txs, NEW c \in Clients \cup {None}, NEW S \in SUBSET Boards,
           NEW kind \in {"make", "end", "timeout", "clear", "drop"}, Begin(t, kind, c, S),
           kind = "make" => c \in Clients /\ \A b \in S : device_status[b] = "available",
           kind \in {"end", "timeout"} => S \subseteq Held,
           kind = "make" => ~shutting_down
    PROVE  IInv'
<1> DEFINE seen == [b \in Boards |-> IF b \in S /\ kind \in {"end", "timeout"}
                                    THEN reservations[b] ELSE None]
<1>1. /\ tx \in [Txs -> Transaction] /\ reservations \in [Boards -> Clients \cup {None}]
      /\ Referred /\ Pooled
  BY DEF IInv, TypeOK
<1>2. /\ tx' = [tx EXCEPT ![t] = [Idle EXCEPT !.kind = kind, !.client = c, !.res = S, !.seen = seen]]
      /\ UNCHANGED tables
  BY DEF Begin
<1>3. seen \in [Boards -> Clients \cup {None}]
  BY <1>1
<1>4. /\ \A u \in Txs \ {t} : tx'[u] = tx[u]
      /\ DOMAIN tx' = Txs /\ tx' = [u \in Txs |-> tx'[u]]
      /\ tx'[t] \in Transaction
      /\ tx'[t].kind = kind /\ tx'[t].client = c /\ tx'[t].res = S /\ tx'[t].seen = seen
      /\ tx'[t].step = 0 /\ tx'[t].left = {} /\ tx'[t].devices = {} /\ tx'[t].rows = {}
      /\ tx'[t].late = {}
  <2> HIDE DEF seen
  <2>1. tx'[t] = [Idle EXCEPT !.kind = kind, !.client = c, !.res = S, !.seen = seen]
    BY <1>1, <1>2
  <2>2. kind \in DOMAIN Statements
    BY DEF Statements
  <2>3. Idle.step = 0 /\ Idle.left = {} /\ Idle.devices = {} /\ Idle.rows = {} /\ Idle.late = {}
    BY DEF Idle
  <2>4. /\ \A u \in Txs \ {t} : tx'[u] = tx[u]
        /\ DOMAIN tx' = Txs /\ tx' = [u \in Txs |-> tx'[u]]
    BY <1>1, <1>2
  <2> DEFINE y == tx'[t]
  <2>5. y = [Idle EXCEPT !.kind = kind, !.client = c, !.res = S, !.seen = seen]
    BY <2>1
  <2> HIDE DEF y
  <2>6. /\ y \in Transaction /\ y.kind = kind /\ y.client = c /\ y.res = S /\ y.seen = seen
        /\ y.step = Idle.step /\ y.left = Idle.left /\ y.devices = Idle.devices
        /\ y.rows = Idle.rows /\ y.late = Idle.late
    BY <1>3, <2>2, <2>5, IdleIsTyped DEF Transaction
  <2> QED
    BY <2>3, <2>4, <2>6 DEF y
<1>5. \A b \in S : kind \in {"end", "timeout"} =>
          seen[b] = reservations[b] /\ reservations[b] \in Clients
  BY <1>1 DEF Held
<1> HIDE DEF seen
<1>6. Sound(t)'
  <2>1. Shaped(t)'
    BY <1>4, <1>5 DEF Shaped
  <2>2. Locked(t)'
    BY <1>4 DEF Locked, Writing, Deleting
  <2>3. Progressed(t)'
    BY <1>1, <1>2, <1>4 DEF Progressed, tables, Present
  <2>4. MakeReads(t)'
    BY <1>2, <1>4 DEF MakeReads, tables
  <2>5. EndReads(t)'
    BY <1>2, <1>4, <1>5 DEF EndReads, tables
  <2> QED
    BY <2>1, <2>2, <2>3, <2>4, <2>5 DEF Sound
<1>7. Watched'
  BY <1>4, WatchedStays DEF Begin
<1> QED
  BY <1>2, <1>4, <1>6, <1>7, OneTx

LEMMA CallKeeps ==
    ASSUME IInv, NEW t \in Txs, Calls(t)
    PROVE  IInv'
<1>1. reservations \in [Boards -> Clients \cup {None}]
  BY DEF IInv, TypeOK
<1>2. ASSUME NEW c \in Clients, NEW S \in SUBSET Boards, Make(t, c, S) PROVE IInv'
  BY <1>2, BeginKeeps DEF Make
<1>3. ASSUME NEW c \in Clients, NEW S \in SUBSET Boards, End(t, c, S) PROVE IInv'
  BY <1>1, <1>3, BeginKeeps DEF End, Held
<1>4. ASSUME NEW S \in SUBSET Boards, Timeout(t, S) PROVE IInv'
  BY <1>4, BeginKeeps DEF Timeout
<1>5. CASE Clear(t) \/ Drop(t)
  BY <1>5, BeginKeeps DEF Clear, Drop
<1> QED
  BY <1>2, <1>3, <1>4, <1>5 DEF Calls

LEMMA StartsKeeps ==
    ASSUME IInv, NEW t \in Txs, Starts(t)
    PROVE  IInv'
<1> DEFINE next == Statements[tx[t].kind][tx[t].step + 1]
           found == Found(t, next)
<1>1. Sound(t) /\ TypeOK /\ Referred /\ UNCHANGED tables
  BY DEF IInv, Starts
<1>2. /\ tx[t] \in Transaction /\ tx[t].kind \in {"make", "end", "timeout", "clear", "drop", "none"}
      /\ tx[t].step \in 0..2 /\ tx[t].res \subseteq Boards /\ tx[t].devices \subseteq Boards
  BY <1>1, TxIsTyped
<1>3. /\ tx[t].left = {} /\ tx[t].step < Len(Statements[tx[t].kind])
      /\ tx' = [tx EXCEPT ![t].step = @ + 1, ![t].left = found]
  BY DEF Starts
<1>4. tx[t].kind # "none" /\ tx[t].step + 1 \in 1..2 /\ (tx[t].kind = "clear" => tx[t].step = 0)
  <2>1. CASE tx[t].kind = "none"
    BY <1>2, <1>3, <2>1, Lengths
  <2>2. CASE tx[t].kind = "clear"
    BY <1>2, <1>3, <2>2, Lengths
  <2>3. CASE tx[t].kind \in {"make", "end", "timeout", "drop"}
    <3>1. Len(Statements[tx[t].kind]) = 2
      BY <2>3, Lengths
    <3> HIDE DEF found
    <3> QED
      BY <1>2, <1>3, <2>3, <3>1
  <2> QED
    BY <1>2, <2>1, <2>2, <2>3
<1>5. /\ tx[t].kind = "make" => next = IF tx[t].step = 0 THEN "update" ELSE "insert"
      /\ tx[t].kind \in {"end", "timeout"} => next = IF tx[t].step = 0 THEN "delete" ELSE "update"
      /\ tx[t].kind = "clear" => next = "delete"
      /\ tx[t].kind = "drop" => next = IF tx[t].step = 0 THEN "remove" ELSE "delete"
  <2>1. tx[t].step = 0 \/ tx[t].step = 1
    BY <1>2, <1>4
  <2>2. CASE tx[t].step = 0
    <3>1. next = Statements[tx[t].kind][1]
      BY <2>2
    <3> QED
      BY <2>2, <3>1 DEF Statements
  <2>3. CASE tx[t].step = 1
    <3>1. next = Statements[tx[t].kind][2]
      BY <2>3
    <3> QED
      BY <1>4, <2>3, <3>1 DEF Statements
  <2> QED
    BY <2>1, <2>2, <2>3
<1>6. /\ (tx[t].kind = "make" /\ tx[t].step = 1) => found = tx[t].res
      /\ (tx[t].kind \in {"make", "drop"} /\ tx[t].step = 0) => found = tx[t].res \cap Present
      /\ (tx[t].kind \in {"end", "timeout"} /\ tx[t].step = 1) => found = tx[t].res \cap Present
      /\ (tx[t].kind \in {"end", "timeout", "clear"} /\ tx[t].step = 0) => found = tx[t].res \cap Held
      /\ (tx[t].kind = "drop" /\ tx[t].step = 1) => found = tx[t].devices \cap Held
  <2> HIDE DEF next
  <2> QED
    BY <1>4, <1>5 DEF Found
<1> HIDE DEF found
<1>7. found \subseteq tx[t].res
  BY <1>1, <1>2, <1>4, <1>6 DEF Sound, Shaped
<1>8. /\ \A u \in Txs \ {t} : tx'[u] = tx[u]
      /\ tx'[t] = [tx[t] EXCEPT !.step = @ + 1, !.left = found]
      /\ DOMAIN tx' = Txs /\ tx' = [u \in Txs |-> tx'[u]]
  BY <1>1, <1>3 DEF TypeOK
<1>9. /\ tx'[t].kind = tx[t].kind /\ tx'[t].client = tx[t].client /\ tx'[t].res = tx[t].res
      /\ tx'[t].seen = tx[t].seen /\ tx'[t].step = tx[t].step + 1 /\ tx'[t].left = found
      /\ tx'[t].devices = tx[t].devices /\ tx'[t].rows = tx[t].rows /\ tx'[t].late = tx[t].late
      /\ tx'[t] \in Transaction
  <2> DEFINE x == tx[t]
             y == tx'[t]
  <2>1. x \in Transaction /\ found \in SUBSET Boards /\ x.step + 1 \in 0..2
        /\ y = [x EXCEPT !.step = @ + 1, !.left = found]
    BY <1>2, <1>4, <1>7, <1>8
  <2> HIDE DEF x, y
  <2>2. /\ y \in Transaction /\ y.kind = x.kind /\ y.client = x.client /\ y.res = x.res
        /\ y.seen = x.seen /\ y.step = x.step + 1 /\ y.left = found /\ y.devices = x.devices
        /\ y.rows = x.rows /\ y.late = x.late
    BY <2>1 DEF Transaction
  <2> QED
    BY <2>2 DEF x, y
<1>10. Held' = Held /\ Present' = Present
  BY <1>1 DEF tables, Held, Present
<1>11. Sound(t)'
  <2>1. Shaped(t)'
    BY <1>1, <1>2, <1>4, <1>9 DEF Sound, Shaped
  <2>2. Locked(t)'
    BY <1>1, <1>2, <1>4, <1>6, <1>9, <1>10 DEF Sound, Locked, Writing, Deleting
  <2>3. Progressed(t)'
    <3>1. CASE tx[t].kind = "make" /\ tx[t].step = 0
      BY <1>1, <1>6, <1>9, <1>10, <3>1 DEF Sound, Progressed
    <3>2. CASE tx[t].kind = "make" /\ tx[t].step = 1
      BY <1>1, <1>3, <1>6, <1>9, <1>10, <3>2 DEF Sound, Progressed
    <3>3. CASE tx[t].kind = "drop" /\ tx[t].step = 0
      BY <1>9, <3>3 DEF Progressed
    <3>4. CASE tx[t].kind = "drop" /\ tx[t].step = 1
      BY <1>6, <1>9, <1>10, <3>4 DEF Progressed
    <3>5. CASE tx[t].kind \notin {"make", "drop"}
      BY <1>9, <3>5 DEF Progressed
    <3> QED
      BY <1>2, <1>4, <3>1, <3>2, <3>3, <3>4, <3>5
  <2>4. MakeReads(t)'
    BY <1>1, <1>9, <1>10 DEF Sound, MakeReads, tables
  <2>5. EndReads(t)'
    BY <1>1, <1>2, <1>3, <1>4, <1>6, <1>9, <1>10 DEF Sound, EndReads, tables
  <2> QED
    BY <2>1, <2>2, <2>3, <2>4, <2>5 DEF Sound
<1>12. \A u \in Txs \ {t} : tx[t].devices \cap tx[u].devices = {} /\ tx[t].rows \cap tx[u].rows = {}
  BY DEF IInv, TypeOK
<1>13. \A u \in Txs : /\ (tx[t].kind = "make" /\ tx[u].kind = "drop") => tx[t].rows \cap tx[u].devices = {}
                      /\ (tx[u].kind = "make" /\ tx[t].kind = "drop") => tx[u].rows \cap tx[t].devices = {}
  BY DEF IInv, Apart
<1> QED
  <2>1. UNCHANGED tables /\ tx'[t].left \subseteq tx'[t].res
    BY <1>1, <1>7, <1>9
  <2>2. /\ DOMAIN tx' = Txs /\ tx' = [u \in Txs |-> tx'[u]]
        /\ \A u \in Txs \ {t} : tx'[u] = tx[u]
    BY <1>8
  <2>3. \A u \in Txs \ {t} : /\ tx'[t].devices \cap tx[u].devices = {}
                             /\ tx'[t].rows \cap tx[u].rows = {}
                             /\ (tx'[t].kind = "make" /\ tx[u].kind = "drop") =>
                                   tx'[t].rows \cap tx[u].devices = {}
                             /\ (tx[u].kind = "make" /\ tx'[t].kind = "drop") =>
                                   tx[u].rows \cap tx'[t].devices = {}
    BY <1>9, <1>12, <1>13
  <2>4. Watched'
    BY <1>8, <1>9, WatchedStays DEF Starts
  <2> QED
    BY <1>9, <1>11, <2>1, <2>2, <2>3, <2>4, OneTx

LEMMA WritesDeviceKeeps ==
    ASSUME IInv, NEW t \in Txs, NEW b \in Boards, WritesDevice(t, b)
    PROVE  IInv'
<1>1. /\ Sound(t) /\ TypeOK /\ Referred /\ UNCHANGED tables
      /\ tx' = [tx EXCEPT ![t].left = @ \ {b}, ![t].devices = @ \cup {b}]
  BY DEF IInv, WritesDevice
<1>2. /\ tx[t] \in Transaction /\ tx[t].kind \in {"make", "end", "timeout", "clear", "drop", "none"}
      /\ tx[t].step \in 0..2 /\ tx[t].left \subseteq tx[t].res
  BY <1>1, TxIsTyped
<1>3. /\ \A u \in Txs \ {t} : tx'[u] = tx[u]
      /\ tx'[t] = [tx[t] EXCEPT !.left = @ \ {b}, !.devices = @ \cup {b}]
      /\ DOMAIN tx' = Txs /\ tx' = [u \in Txs |-> tx'[u]]
  BY <1>1 DEF TypeOK
<1>4. /\ tx'[t].kind = tx[t].kind /\ tx'[t].client = tx[t].client /\ tx'[t].res = tx[t].res
      /\ tx'[t].seen = tx[t].seen /\ tx'[t].step = tx[t].step /\ tx'[t].left = tx[t].left \ {b}
      /\ tx'[t].devices = tx[t].devices \cup {b} /\ tx'[t].rows = tx[t].rows
      /\ tx'[t].late = tx[t].late /\ tx'[t] \in Transaction
  <2> DEFINE x == tx[t]
             y == tx'[t]
  <2>1. x \in Transaction /\ y = [x EXCEPT !.left = @ \ {b}, !.devices = @ \cup {b}]
    BY <1>2, <1>3
  <2> HIDE DEF x, y
  <2>2. /\ y \in Transaction /\ y.kind = x.kind /\ y.client = x.client /\ y.res = x.res
        /\ y.seen = x.seen /\ y.step = x.step /\ y.left = x.left \ {b}
        /\ y.devices = x.devices \cup {b} /\ y.rows = x.rows /\ y.late = x.late
    BY <2>1 DEF Transaction
  <2> QED
    BY <2>2 DEF x, y
<1>5. Held' = Held /\ Present' = Present
  BY <1>1 DEF tables, Held, Present
<1>6. Writing(t) /\ b \in tx[t].left
  BY <1>1, StatementIs DEF WritesDevice, Sound
<1>7. Shaped(t) /\ Locked(t) /\ Progressed(t) /\ MakeReads(t) /\ EndReads(t)
  BY <1>1 DEF Sound
<1>8. Sound(t)'
  <2>1. Shaped(t)'
    BY <1>2, <1>4, <1>6, <1>7 DEF Shaped
  <2>2. Locked(t)'
    BY <1>4, <1>5, <1>6, <1>7 DEF Locked, Writing, Deleting
  <2>3. Progressed(t)'
    BY <1>4, <1>5, <1>6, <1>7 DEF Progressed, Writing, Deleting
  <2>4. MakeReads(t)'
    BY <1>1, <1>4, <1>5, <1>7 DEF MakeReads, tables
  <2>5. EndReads(t)'
    <3>1. tx[t].kind \in {"end", "timeout"} => tx[t].step = 2
      BY <1>6 DEF Writing
    <3>2. reservations' = reservations /\ device_status' = device_status /\ spoiled' = spoiled
      BY <1>1 DEF tables
    <3> QED
      BY <1>4, <1>5, <1>7, <3>1, <3>2 DEF EndReads
  <2> QED
    BY <2>1, <2>2, <2>3, <2>4, <2>5 DEF Sound
<1>9. \A u \in Txs \ {t} : /\ tx'[t].devices \cap tx[u].devices = {}
                           /\ tx'[t].rows \cap tx[u].rows = {}
                           /\ (tx'[t].kind = "make" /\ tx[u].kind = "drop") =>
                                 tx'[t].rows \cap tx[u].devices = {}
                           /\ (tx[u].kind = "make" /\ tx'[t].kind = "drop") =>
                                 tx[u].rows \cap tx'[t].devices = {}
  <2>1. \A u \in Txs \ {t} : tx[t].devices \cap tx[u].devices = {} /\ tx[t].rows \cap tx[u].rows = {}
    BY <1>1 DEF TypeOK
  <2>2. \A u \in Txs : /\ (tx[t].kind = "make" /\ tx[u].kind = "drop") => tx[t].rows \cap tx[u].devices = {}
                       /\ (tx[u].kind = "make" /\ tx[t].kind = "drop") => tx[u].rows \cap tx[t].devices = {}
    BY DEF IInv, Apart
  <2>3. \A u \in Txs : b \notin tx[u].devices /\ (tx[u].kind = "make" /\ tx[t].kind = "drop" => b \notin tx[u].rows)
    BY <1>1, <1>6, StatementIs DEF WritesDevice, DeviceFree, Unreferred, Sound, Writing
  <2> SUFFICES ASSUME NEW u \in Txs \ {t}
               PROVE  /\ tx'[t].devices \cap tx[u].devices = {}
                      /\ tx'[t].rows \cap tx[u].rows = {}
                      /\ (tx[t].kind = "make" /\ tx[u].kind = "drop") =>
                            tx'[t].rows \cap tx[u].devices = {}
                      /\ (tx[u].kind = "make" /\ tx[t].kind = "drop") =>
                            tx[u].rows \cap tx'[t].devices = {}
    BY <1>4
  <2>4. tx'[t].devices \cap tx[u].devices = {} /\ tx'[t].rows \cap tx[u].rows = {}
    BY <1>4, <2>1, <2>3
  <2>5. (tx[t].kind = "make" /\ tx[u].kind = "drop") => tx'[t].rows \cap tx[u].devices = {}
    <3> SUFFICES ASSUME tx[t].kind = "make", tx[u].kind = "drop",
                        NEW d \in tx'[t].rows, d \in tx[u].devices
                 PROVE  FALSE
      OBVIOUS
    <3>1. d \notin tx[t].rows
      BY <2>2
    <3> QED
      BY <1>4, <2>3, <3>1
  <2>6. (tx[u].kind = "make" /\ tx[t].kind = "drop") => tx[u].rows \cap tx'[t].devices = {}
    BY <1>4, <2>2, <2>3
  <2> QED
    BY <2>4, <2>5, <2>6
<1>10. Watched'
  BY <1>3, <1>4, WatchedStays DEF WritesDevice
<1> QED
  BY <1>1, <1>2, <1>3, <1>4, <1>8, <1>9, <1>10, OneTx

LEMMA DeletesRowKeeps ==
    ASSUME IInv, NEW t \in Txs, NEW b \in Boards, DeletesRow(t, b)
    PROVE  IInv'
<1>1. /\ Sound(t) /\ TypeOK /\ Referred /\ UNCHANGED tables
      /\ tx' = [tx EXCEPT ![t].left = @ \ {b}, ![t].rows = @ \cup {b}]
  BY DEF IInv, DeletesRow
<1>2. /\ tx[t] \in Transaction /\ tx[t].kind \in {"make", "end", "timeout", "clear", "drop", "none"}
      /\ tx[t].step \in 0..2 /\ tx[t].left \subseteq tx[t].res
  BY <1>1, TxIsTyped
<1>3. /\ \A u \in Txs \ {t} : tx'[u] = tx[u]
      /\ tx'[t] = [tx[t] EXCEPT !.left = @ \ {b}, !.rows = @ \cup {b}]
      /\ DOMAIN tx' = Txs /\ tx' = [u \in Txs |-> tx'[u]]
  BY <1>1 DEF TypeOK
<1>4. /\ tx'[t].kind = tx[t].kind /\ tx'[t].client = tx[t].client /\ tx'[t].res = tx[t].res
      /\ tx'[t].seen = tx[t].seen /\ tx'[t].step = tx[t].step /\ tx'[t].left = tx[t].left \ {b}
      /\ tx'[t].rows = tx[t].rows \cup {b} /\ tx'[t].devices = tx[t].devices
      /\ tx'[t].late = tx[t].late /\ tx'[t] \in Transaction
  <2> DEFINE x == tx[t]
             y == tx'[t]
  <2>1. x \in Transaction /\ y = [x EXCEPT !.left = @ \ {b}, !.rows = @ \cup {b}]
    BY <1>2, <1>3
  <2> HIDE DEF x, y
  <2>2. /\ y \in Transaction /\ y.kind = x.kind /\ y.client = x.client /\ y.res = x.res
        /\ y.seen = x.seen /\ y.step = x.step /\ y.left = x.left \ {b}
        /\ y.rows = x.rows \cup {b} /\ y.devices = x.devices /\ y.late = x.late
    BY <2>1 DEF Transaction
  <2> QED
    BY <2>2 DEF x, y
<1>5. Held' = Held /\ Present' = Present
  BY <1>1 DEF tables, Held, Present
<1>6. Deleting(t) /\ b \in tx[t].left
  BY <1>1, StatementIs DEF DeletesRow, Sound
<1>7. Shaped(t) /\ Locked(t) /\ Progressed(t) /\ MakeReads(t) /\ EndReads(t)
  BY <1>1 DEF Sound
<1>8. Sound(t)'
  <2>1. Shaped(t)'
    BY <1>2, <1>4, <1>6, <1>7 DEF Shaped, Progressed, Deleting
  <2>2. Locked(t)'
    BY <1>4, <1>5, <1>6, <1>7 DEF Locked, Writing, Deleting
  <2>3. Progressed(t)'
    BY <1>4, <1>5, <1>6, <1>7 DEF Progressed, Writing, Deleting
  <2>4. MakeReads(t)'
    BY <1>1, <1>4, <1>5, <1>7 DEF MakeReads, tables
  <2>5. EndReads(t)'
    BY <1>1, <1>4, <1>5, <1>6, <1>7 DEF EndReads, tables, Writing, Deleting
  <2> QED
    BY <2>1, <2>2, <2>3, <2>4, <2>5 DEF Sound
<1>9. \A u \in Txs \ {t} : /\ tx'[t].devices \cap tx[u].devices = {}
                           /\ tx'[t].rows \cap tx[u].rows = {}
                           /\ (tx'[t].kind = "make" /\ tx[u].kind = "drop") =>
                                 tx'[t].rows \cap tx[u].devices = {}
                           /\ (tx[u].kind = "make" /\ tx'[t].kind = "drop") =>
                                 tx[u].rows \cap tx'[t].devices = {}
  <2>1. \A u \in Txs \ {t} : tx[t].devices \cap tx[u].devices = {} /\ tx[t].rows \cap tx[u].rows = {}
    BY <1>1 DEF TypeOK
  <2>2. \A u \in Txs : /\ (tx[t].kind = "make" /\ tx[u].kind = "drop") => tx[t].rows \cap tx[u].devices = {}
                       /\ (tx[u].kind = "make" /\ tx[t].kind = "drop") => tx[u].rows \cap tx[t].devices = {}
    BY DEF IInv, Apart
  <2>3. tx[t].kind # "make" /\ \A u \in Txs : b \notin tx[u].rows
    BY <1>6 DEF DeletesRow, RowFree, Deleting
  <2> SUFFICES ASSUME NEW u \in Txs \ {t}
               PROVE  /\ tx'[t].devices \cap tx[u].devices = {}
                      /\ tx'[t].rows \cap tx[u].rows = {}
                      /\ (tx[t].kind = "make" /\ tx[u].kind = "drop") =>
                            tx'[t].rows \cap tx[u].devices = {}
                      /\ (tx[u].kind = "make" /\ tx[t].kind = "drop") =>
                            tx[u].rows \cap tx'[t].devices = {}
    BY <1>4
  <2>4. tx'[t].devices \cap tx[u].devices = {} /\ tx'[t].rows \cap tx[u].rows = {}
    BY <1>4, <2>1, <2>3
  <2>5. (tx[t].kind = "make" /\ tx[u].kind = "drop") => tx'[t].rows \cap tx[u].devices = {}
    <3> SUFFICES ASSUME tx[t].kind = "make", tx[u].kind = "drop",
                        NEW d \in tx'[t].rows, d \in tx[u].devices
                 PROVE  FALSE
      OBVIOUS
    <3>1. d \notin tx[t].rows
      BY <2>2
    <3> QED
      BY <1>4, <2>3, <3>1
  <2>6. (tx[u].kind = "make" /\ tx[t].kind = "drop") => tx[u].rows \cap tx'[t].devices = {}
    BY <1>4, <2>2, <2>3
  <2> QED
    BY <2>4, <2>5, <2>6
<1>10. Watched'
  BY <1>3, <1>4, WatchedStays DEF DeletesRow
<1> QED
  BY <1>1, <1>2, <1>3, <1>4, <1>8, <1>9, <1>10, OneTx

LEMMA InsertsRowKeeps ==
    ASSUME IInv, NEW t \in Txs, NEW b \in Boards, InsertsRow(t, b)
    PROVE  IInv'
<1>1. /\ Sound(t) /\ TypeOK /\ Referred /\ UNCHANGED tables
      /\ tx' = [tx EXCEPT ![t].left = @ \ {b}, ![t].rows = @ \cup {b}]
  BY DEF IInv, InsertsRow
<1>2. /\ tx[t] \in Transaction /\ tx[t].kind \in {"make", "end", "timeout", "clear", "drop", "none"}
      /\ tx[t].step \in 0..2 /\ tx[t].left \subseteq tx[t].res
  BY <1>1, TxIsTyped
<1>3. /\ \A u \in Txs \ {t} : tx'[u] = tx[u]
      /\ tx'[t] = [tx[t] EXCEPT !.left = @ \ {b}, !.rows = @ \cup {b}]
      /\ DOMAIN tx' = Txs /\ tx' = [u \in Txs |-> tx'[u]]
  BY <1>1 DEF TypeOK
<1>4. /\ tx'[t].kind = tx[t].kind /\ tx'[t].client = tx[t].client /\ tx'[t].res = tx[t].res
      /\ tx'[t].seen = tx[t].seen /\ tx'[t].step = tx[t].step /\ tx'[t].left = tx[t].left \ {b}
      /\ tx'[t].rows = tx[t].rows \cup {b} /\ tx'[t].devices = tx[t].devices
      /\ tx'[t].late = tx[t].late /\ tx'[t] \in Transaction
  <2> DEFINE x == tx[t]
             y == tx'[t]
  <2>1. x \in Transaction /\ y = [x EXCEPT !.left = @ \ {b}, !.rows = @ \cup {b}]
    BY <1>2, <1>3
  <2> HIDE DEF x, y
  <2>2. /\ y \in Transaction /\ y.kind = x.kind /\ y.client = x.client /\ y.res = x.res
        /\ y.seen = x.seen /\ y.step = x.step /\ y.left = x.left \ {b}
        /\ y.rows = x.rows \cup {b} /\ y.devices = x.devices /\ y.late = x.late
    BY <2>1 DEF Transaction
  <2> QED
    BY <2>2 DEF x, y
<1>5. Held' = Held /\ Present' = Present
  BY <1>1 DEF tables, Held, Present
<1>6. /\ tx[t].kind = "make" /\ tx[t].step = 2
      /\ b \in tx[t].left /\ b \in Present \ Held
  BY <1>1, StatementIs DEF InsertsRow, Sound
<1>7. Shaped(t) /\ Locked(t) /\ Progressed(t) /\ MakeReads(t) /\ EndReads(t)
  BY <1>1 DEF Sound
<1>8. Sound(t)'
  <2>1. Shaped(t)'
    BY <1>2, <1>4, <1>6, <1>7 DEF Shaped
  <2>2. Locked(t)'
    BY <1>4, <1>5, <1>6, <1>7 DEF Locked, Writing, Deleting
  <2>3. Progressed(t)'
    BY <1>4, <1>5, <1>6, <1>7 DEF Progressed, Writing, Deleting
  <2>4. MakeReads(t)'
    BY <1>1, <1>4, <1>5, <1>7 DEF MakeReads, tables
  <2>5. EndReads(t)'
    BY <1>1, <1>4, <1>5, <1>6, <1>7 DEF EndReads, tables, Writing, Deleting
  <2> QED
    BY <2>1, <2>2, <2>3, <2>4, <2>5 DEF Sound
<1>9. \A u \in Txs \ {t} : /\ tx'[t].devices \cap tx[u].devices = {}
                           /\ tx'[t].rows \cap tx[u].rows = {}
                           /\ (tx'[t].kind = "make" /\ tx[u].kind = "drop") =>
                                 tx'[t].rows \cap tx[u].devices = {}
                           /\ (tx[u].kind = "make" /\ tx'[t].kind = "drop") =>
                                 tx[u].rows \cap tx'[t].devices = {}
  <2>1. \A u \in Txs \ {t} : tx[t].devices \cap tx[u].devices = {} /\ tx[t].rows \cap tx[u].rows = {}
    BY <1>1 DEF TypeOK
  <2>2. \A u \in Txs : /\ (tx[t].kind = "make" /\ tx[u].kind = "drop") => tx[t].rows \cap tx[u].devices = {}
                       /\ (tx[u].kind = "make" /\ tx[t].kind = "drop") => tx[u].rows \cap tx[t].devices = {}
    BY DEF IInv, Apart
  <2>3. \A u \in Txs \ {t} : b \notin tx[u].rows /\ (tx[u].kind = "drop" => b \notin tx[u].devices)
    BY DEF InsertsRow, RowFree, KeyFree
  <2> SUFFICES ASSUME NEW u \in Txs \ {t}
               PROVE  /\ tx'[t].devices \cap tx[u].devices = {}
                      /\ tx'[t].rows \cap tx[u].rows = {}
                      /\ (tx[t].kind = "make" /\ tx[u].kind = "drop") =>
                            tx'[t].rows \cap tx[u].devices = {}
                      /\ (tx[u].kind = "make" /\ tx[t].kind = "drop") =>
                            tx[u].rows \cap tx'[t].devices = {}
    BY <1>4
  <2>4. tx'[t].devices \cap tx[u].devices = {} /\ tx'[t].rows \cap tx[u].rows = {}
    BY <1>4, <2>1, <2>3
  <2>5. (tx[t].kind = "make" /\ tx[u].kind = "drop") => tx'[t].rows \cap tx[u].devices = {}
    <3> SUFFICES ASSUME tx[t].kind = "make", tx[u].kind = "drop",
                        NEW d \in tx'[t].rows, d \in tx[u].devices
                 PROVE  FALSE
      OBVIOUS
    <3>1. d \notin tx[t].rows
      BY <2>2
    <3> QED
      BY <1>4, <2>3, <3>1
  <2>6. (tx[u].kind = "make" /\ tx[t].kind = "drop") => tx[u].rows \cap tx'[t].devices = {}
    BY <1>4, <2>2, <2>3
  <2> QED
    BY <2>4, <2>5, <2>6
<1>10. Watched'
  BY <1>3, <1>4, WatchedStays DEF InsertsRow
<1> QED
  BY <1>1, <1>2, <1>3, <1>4, <1>8, <1>9, <1>10, OneTx

LEMMA RollsBackKeeps ==
    ASSUME IInv, NEW t \in Txs, RollsBack(t)
    PROVE  IInv'
<1>1. UNCHANGED tables /\ tx' = [tx EXCEPT ![t] = Idle] /\ tx \in [Txs -> Transaction]
  BY DEF IInv, TypeOK, RollsBack
<1>2. /\ \A u \in Txs \ {t} : tx'[u] = tx[u]
      /\ tx'[t] = Idle /\ DOMAIN tx' = Txs /\ tx' = [u \in Txs |-> tx'[u]]
  BY <1>1
<1>3. /\ Idle.kind = "none" /\ Idle.res = {} /\ Idle.step = 0 /\ Idle.left = {}
      /\ Idle.devices = {} /\ Idle.rows = {}
  BY DEF Idle
<1>4. Sound(t)'
  BY <1>2, <1>3 DEF Sound, Shaped, Locked, Progressed, MakeReads, EndReads, Writing, Deleting
<1>5. Watched'
  BY <1>2, <1>3 DEF IInv, Watched, RollsBack
<1> QED
  BY <1>1, <1>2, <1>3, <1>4, <1>5, IdleIsTyped, OneTx

-----------------------------------------------------------------------------
(* The worker.                                                             *)

\* y is transaction x, but for what it is late for.
LikeBut(y, x, late) ==
    /\ y \in Transaction /\ y.kind = x.kind /\ y.client = x.client /\ y.res = x.res
    /\ y.seen = x.seen /\ y.step = x.step /\ y.left = x.left /\ y.devices = x.devices
    /\ y.rows = x.rows /\ y.late = late

LEMMA OvertakeIs ==
    ASSUME TypeOK, NEW M \in SUBSET Boards, NEW kinds, NEW u \in Txs
    PROVE  LikeBut(Overtake(M, kinds)[u], tx[u],
                   IF tx[u].kind \in kinds THEN tx[u].late \cup (M \cap tx[u].res)
                   ELSE tx[u].late)
<1> DEFINE x == tx[u]
           y == Overtake(M, kinds)[u]
<1>1. x \in Transaction
  BY DEF TypeOK
<1>2. y = IF x.kind \in kinds THEN [x EXCEPT !.late = @ \cup (M \cap x.res)] ELSE x
  BY DEF Overtake
<1> HIDE DEF x, y
<1>3. LikeBut(y, x, IF x.kind \in kinds THEN x.late \cup (M \cap x.res) ELSE x.late)
  BY <1>1, <1>2 DEF Transaction, LikeBut
<1> QED
  BY <1>3 DEF x, y

\* The worker writes the status of a board that no transaction has locked.
LEMMA StatusKeeps ==
    ASSUME IInv, NEW b \in Boards, NEW s \in Status \ {"reserved"}, NEW w \in {"ready", "notified", "flash"},
           DeviceFree(b), UNCHANGED <<reservations, spoiled, closing>>,
           device_status' = [device_status EXCEPT ![b] = s],
           worker' = [worker EXCEPT ![b] = w],
           s = "absent" => b \notin Present,
           \A u \in Txs :
              /\ tx'[u].kind = tx[u].kind /\ tx'[u].client = tx[u].client /\ tx'[u].res = tx[u].res
              /\ tx'[u].seen = tx[u].seen /\ tx'[u].step = tx[u].step /\ tx'[u].left = tx[u].left
              /\ tx'[u].devices = tx[u].devices /\ tx'[u].rows = tx[u].rows
              /\ tx[u].late \subseteq tx'[u].late
              /\ (s = "available" /\ tx[u].kind \in {"end", "timeout"} /\ b \in tx[u].res) =>
                    b \in tx'[u].late,
           tx' \in [Txs -> Transaction],
           b \notin spoiled => b \notin Held /\ device_status[b] # "available",
           s = "available" => w = "ready"
    PROVE  IInv'
<1>1. TypeOK /\ Apart /\ Referred /\ Pooled
  BY DEF IInv
<1>2. /\ Held' = Held /\ Present \subseteq Present'
      /\ device_status'[b] = s /\ worker'[b] = w
      /\ \A a \in Boards \ {b} : device_status'[a] = device_status[a] /\ worker'[a] = worker[a]
  BY <1>1 DEF TypeOK, Held, Present
<1>0. Watched'
  BY WatchedStays
<1>3. TypeOK'
  <2>1. device_status' \in [Boards -> Status] /\ worker' \in [Boards -> {"ready", "notified", "flash"}]
    BY <1>1 DEF TypeOK
  <2>2. \A a \in Boards : device_status'[a] = "reserved" => a \in Held' \/ worker'[a] = "notified"
    BY <1>1, <1>2 DEF TypeOK
  <2>3. \A u \in Txs : tx'[u].left \subseteq tx'[u].res
    BY <1>1 DEF TypeOK
  <2>4. \A u, v \in Txs : u # v =>
            tx'[u].devices \cap tx'[v].devices = {} /\ tx'[u].rows \cap tx'[v].rows = {}
    BY <1>1 DEF TypeOK
  <2> QED
    BY <1>0, <1>1, <2>1, <2>2, <2>3, <2>4 DEF TypeOK, Watched
<1>4. Apart'
  BY <1>1 DEF Apart
<1>5. Referred'
  BY <1>1, <1>2 DEF Referred
<1>6. Pooled'
  BY <1>1, <1>2 DEF Pooled
<1>7. ASSUME NEW u \in Txs PROVE Sound(u)'
  <2>1. Sound(u) /\ (Writing(u)' <=> Writing(u)) /\ (Deleting(u)' <=> Deleting(u))
    BY DEF IInv, Writing, Deleting
  <2>2. Shaped(u)'
    BY <2>1 DEF Sound, Shaped
  <2>3. Locked(u)'
    BY <1>2, <2>1 DEF Sound, Locked
  <2>4. Progressed(u)'
    BY <1>2, <2>1 DEF Sound, Progressed
  <2>5. MakeReads(u)'
    BY <1>1, <1>2, <2>1, TxIsTyped DEF Sound, MakeReads
  <2>6. EndReads(u)'
    BY <1>1, <1>2, <2>1, TxIsTyped DEF Sound, EndReads
  <2> QED
    BY <2>2, <2>3, <2>4, <2>5, <2>6 DEF Sound
<1> QED
  BY <1>0, <1>3, <1>4, <1>5, <1>6, <1>7 DEF IInv

LEMMA WorkerStepKeeps ==
    ASSUME IInv, NEW b \in Boards, WorkerStep(b)
    PROVE  IInv'
<1>1. TypeOK /\ Pooled /\ Referred
  BY DEF IInv
<1>2. /\ device_status \in [Boards -> Status] /\ tx \in [Txs -> Transaction]
      /\ worker \in [Boards -> {"ready", "notified", "flash"}]
  BY <1>1 DEF TypeOK
<1>3. b \notin spoiled =>
        worker[b] = "ready" \/ (b \notin Held /\ device_status[b] # "available")
  BY <1>1 DEF Pooled
<1>4. b \notin Present => device_status[b] = "absent"
  BY DEF Present
<1>5. CASE Resets(b)
  <2> DEFINE s == IF b \in Present THEN "flashing_default" ELSE "absent"
  <2>1. device_status' = [device_status EXCEPT ![b] = s] /\ s \in Status \ {"reserved"}
    BY <1>2, <1>4, <1>5 DEF Resets, Does, Status
  <2>2. s # "available" /\ (s = "absent" => b \notin Present)
    OBVIOUS
  <2> HIDE DEF s
  <2>3. /\ worker[b] = "notified" /\ worker' = [worker EXCEPT ![b] = "flash"] /\ DeviceFree(b)
        /\ UNCHANGED <<reservations, spoiled, closing>> /\ tx' = tx
    BY <1>5 DEF Resets, Does
  <2> QED
    BY <1>2, <1>3, <2>1, <2>2, <2>3, StatusKeeps
<1>6. ASSUME tx' = Overtake({b}, Enders)
      PROVE  /\ tx' \in [Txs -> Transaction]
             /\ \A u \in Txs :
                  /\ tx'[u].kind = tx[u].kind /\ tx'[u].client = tx[u].client /\ tx'[u].res = tx[u].res
                  /\ tx'[u].seen = tx[u].seen /\ tx'[u].step = tx[u].step /\ tx'[u].left = tx[u].left
                  /\ tx'[u].devices = tx[u].devices /\ tx'[u].rows = tx[u].rows
                  /\ tx[u].late \subseteq tx'[u].late
                  /\ (tx[u].kind \in {"end", "timeout"} /\ b \in tx[u].res) => b \in tx'[u].late
  <2>1. tx' = [u \in Txs |-> tx'[u]]
    BY <1>6 DEF Overtake
  <2>2. \A u \in Txs :
          LikeBut(tx'[u], tx[u], IF tx[u].kind \in Enders THEN tx[u].late \cup ({b} \cap tx[u].res)
                                 ELSE tx[u].late)
    <3>1. {b} \in SUBSET Boards
      OBVIOUS
    <3> QED
      BY <1>1, <1>6, <3>1, OvertakeIs
  <2> QED
    BY <2>1, <2>2 DEF Enders, LikeBut
<1>7. CASE Offers(b)
  <2> DEFINE s == IF b \in Present THEN "available" ELSE "absent"
  <2>1. device_status' = [device_status EXCEPT ![b] = s] /\ s \in Status \ {"reserved"}
    BY <1>2, <1>4, <1>7 DEF Offers, Does, Status
  <2>2. s = "absent" => b \notin Present
    OBVIOUS
  <2> HIDE DEF s
  <2>3. /\ worker[b] = "flash" /\ worker' = [worker EXCEPT ![b] = "ready"] /\ DeviceFree(b)
        /\ UNCHANGED <<reservations, spoiled, closing>> /\ tx' = Overtake({b}, Enders)
    BY <1>7 DEF Offers, Does
  <2> QED
    BY <1>3, <1>6, <2>1, <2>2, <2>3, StatusKeeps
<1>8. CASE Adds(b)
  <2>1. /\ device_status' = [device_status EXCEPT ![b] = "await_flash_default"]
        /\ worker' = [worker EXCEPT ![b] = "notified"] /\ DeviceFree(b) /\ b \notin Present
        /\ UNCHANGED <<reservations, spoiled, closing>> /\ tx' = Overtake({b}, Enders)
    BY <1>8 DEF Adds
  <2>2. b \notin Held /\ device_status[b] # "available"
    BY <1>1, <1>4, <2>1 DEF Referred
  <2>3. "await_flash_default" \in Status \ {"reserved"}
    BY DEF Status
  <2> QED
    BY <1>6, <2>1, <2>2, <2>3, StatusKeeps
<1> QED
  BY <1>5, <1>7, <1>8 DEF WorkerStep

-----------------------------------------------------------------------------
(* The commit.                                                             *)

\* The rows of the statement of u that a commit of t takes away.
Taken(t, u) ==
    IF Deleting(u) /\ tx[t].kind # "make" THEN tx[t].rows
    ELSE IF Writing(u) /\ tx[t].kind = "drop" THEN tx[t].devices ELSE {}

\* What the commit of t does to a transaction u.
Follows(t, u) ==
    /\ tx'[u].kind = tx[u].kind /\ tx'[u].client = tx[u].client /\ tx'[u].res = tx[u].res
    /\ tx'[u].seen = tx[u].seen /\ tx'[u].step = tx[u].step
    /\ tx'[u].devices = tx[u].devices /\ tx'[u].rows = tx[u].rows
    /\ tx'[u].left = tx[u].left \ Taken(t, u)
    /\ tx'[u].late = IF tx[t].kind # "make" /\ tx[u].kind = "make"
                     THEN tx[u].late \cup ((tx[t].devices \cup tx[t].rows) \cap tx[u].res)
                     ELSE tx[u].late
    /\ tx'[u] \in Transaction

\* What the commit of t does to the tables.
Stores(t) ==
    /\ device_status' \in [Boards -> Status]
    /\ reservations' \in [Boards -> Clients \cup {None}]
    /\ worker' \in [Boards -> {"ready", "notified", "flash"}]
    /\ \A b \in Boards :
          /\ device_status'[b] = IF b \notin tx[t].devices THEN device_status[b]
                                 ELSE IF tx[t].kind = "make" THEN "reserved"
                                 ELSE IF tx[t].kind = "drop" THEN "absent"
                                 ELSE "await_flash_default"
          /\ reservations'[b] = IF b \notin tx[t].rows THEN reservations[b]
                                ELSE IF tx[t].kind = "make" THEN tx[t].client ELSE None
          /\ worker'[b] = IF tx[t].kind # "make" /\ b \in tx[t].rows THEN "notified"
                          ELSE worker[b]
    /\ spoiled' = IF tx[t].kind = "drop" THEN spoiled \ (tx[t].devices \cup tx[t].rows)
                  ELSE spoiled \cup (tx[t].late \cap (tx[t].devices \cup tx[t].rows))
    /\ Held' = IF tx[t].kind = "make" THEN Held \cup tx[t].rows ELSE Held \ tx[t].rows
    /\ Present' = IF tx[t].kind = "drop" THEN Present \ tx[t].devices ELSE Present

\* A transaction that commits has written all that it had to.
Done(t) ==
    /\ tx[t].left = {}
    /\ tx[t].step = IF tx[t].kind = "clear" THEN 1 ELSE 2
    /\ tx[t].kind \in {"make", "end", "timeout", "clear", "drop"}

LEMMA CommitStores ==
    ASSUME IInv, NEW t \in Txs, Commits(t)
    PROVE  Done(t) /\ Stores(t)
<1>1. TypeOK /\ Shaped(t) /\ Locked(t)
  BY DEF IInv, Sound
<1>2. /\ tx[t].kind \in {"make", "end", "timeout", "clear", "drop", "none"}
      /\ tx[t].devices \subseteq Boards /\ tx[t].rows \subseteq Boards
  BY <1>1, TxIsTyped
<1>3. Done(t)
  <2>1. tx[t].kind # "none" /\ tx[t].left = {} /\ tx[t].step = Len(Statements[tx[t].kind])
    BY DEF Commits, CommitAnd
  <2> QED
    BY <1>2, <2>1, Lengths DEF Done
<1>4. /\ device_status' = [b \in Boards |-> IF b \in tx[t].devices
            THEN IF tx[t].kind = "make" THEN "reserved"
                 ELSE IF tx[t].kind = "drop" THEN "absent" ELSE "await_flash_default"
            ELSE device_status[b]]
      /\ reservations' = [b \in Boards |-> IF b \in tx[t].rows
            THEN IF tx[t].kind = "make" THEN tx[t].client ELSE None ELSE reservations[b]]
      /\ worker' = [b \in Boards |-> IF b \in (IF tx[t].kind = "make" THEN {} ELSE tx[t].rows)
                                     THEN "notified" ELSE worker[b]]
      /\ spoiled' = IF tx[t].kind = "drop" THEN spoiled \ (tx[t].devices \cup tx[t].rows)
                    ELSE spoiled \cup (tx[t].late \cap (tx[t].devices \cup tx[t].rows))
  BY DEF Commits, CommitAnd
<1>5. \A b \in Boards :
          /\ device_status'[b] = IF b \notin tx[t].devices THEN device_status[b]
                                 ELSE IF tx[t].kind = "make" THEN "reserved"
                                 ELSE IF tx[t].kind = "drop" THEN "absent"
                                 ELSE "await_flash_default"
          /\ reservations'[b] = IF b \notin tx[t].rows THEN reservations[b]
                                ELSE IF tx[t].kind = "make" THEN tx[t].client ELSE None
          /\ worker'[b] = IF tx[t].kind # "make" /\ b \in tx[t].rows THEN "notified"
                          ELSE worker[b]
  BY <1>4
<1>6. tx[t].kind = "make" => tx[t].client \in Clients
  BY <1>1 DEF Shaped
<1>7. /\ device_status' \in [Boards -> Status]
      /\ reservations' \in [Boards -> Clients \cup {None}]
      /\ worker' \in [Boards -> {"ready", "notified", "flash"}]
  BY <1>1, <1>4, <1>6 DEF TypeOK, Status
<1>8. Held' = IF tx[t].kind = "make" THEN Held \cup tx[t].rows ELSE Held \ tx[t].rows
  BY <1>2, <1>5, <1>6 DEF Held
<1>9. Present' = IF tx[t].kind = "drop" THEN Present \ tx[t].devices ELSE Present
  BY <1>1, <1>2, <1>5 DEF Present, Locked
<1> QED
  BY <1>3, <1>4, <1>5, <1>7, <1>8, <1>9 DEF Stores

LEMMA CommitFollows ==
    ASSUME IInv, NEW t \in Txs, Commits(t)
    PROVE  /\ tx' \in [Txs -> Transaction] /\ tx'[t] = Idle
           /\ \A u \in Txs \ {t} : Follows(t, u)
<1>1. TypeOK /\ \A u \in Txs : Shaped(u)
  BY DEF IInv, Sound
<1> DEFINE written == tx[t].devices \cup tx[t].rows
           others == IF tx[t].kind = "make" THEN tx ELSE Overtake(written, {"make"})
<1>2. tx' = [u \in Txs |-> IF u = t THEN Idle
                           ELSE [others[u] EXCEPT !.left = @ \ Vanished(t, u)]]
  BY DEF Commits, CommitAnd
<1>3. tx'[t] = Idle /\ Idle \in Transaction
  BY <1>2 DEF Idle, Transaction, Statements
<1>4. ASSUME NEW u \in Txs \ {t} PROVE Follows(t, u)
  <2> DEFINE x == tx[u]
             m == others[u]
             y == tx'[u]
             gone == Vanished(t, u)
             late == IF tx[t].kind # "make" /\ tx[u].kind = "make"
                     THEN tx[u].late \cup (written \cap tx[u].res) ELSE tx[u].late
  <2>1. LikeBut(m, x, late)
    <3>1. CASE tx[t].kind = "make"
      BY <1>1, <3>1, TxIsTyped DEF LikeBut
    <3>2. CASE tx[t].kind # "make"
      <4>1. written \in SUBSET Boards
        BY <1>1, TxIsTyped
      <4>2. LikeBut(Overtake(written, {"make"})[u], x,
                    IF x.kind \in {"make"} THEN x.late \cup (written \cap x.res) ELSE x.late)
        <5> HIDE DEF written
        <5> QED
          BY <1>1, <4>1, OvertakeIs
      <4> QED
        BY <3>2, <4>2
    <3> QED
      BY <3>1, <3>2
  <2>2. y = [m EXCEPT !.left = @ \ gone]
    BY <1>2
  <2>3. gone = Taken(t, u)
    BY <1>1, StatementIs DEF Vanished, Taken, Writing, Deleting
  <2> HIDE DEF x, m, y, gone, late, others
  <2>4. /\ y \in Transaction /\ y.kind = x.kind /\ y.client = x.client /\ y.res = x.res
        /\ y.seen = x.seen /\ y.step = x.step /\ y.left = x.left \ gone
        /\ y.devices = x.devices /\ y.rows = x.rows /\ y.late = late
    BY <2>1, <2>2 DEF LikeBut, Transaction
  <2> QED
    BY <2>3, <2>4 DEF Follows, x, y, late
<1>5. tx' \in [Txs -> Transaction]
  BY <1>2, <1>3, <1>4 DEF Follows
<1> QED
  BY <1>3, <1>4, <1>5

\* What a transaction that commits has written.
LEMMA Wrote ==
    ASSUME IInv, NEW t \in Txs, Done(t)
    PROVE  /\ tx[t].devices \subseteq tx[t].res /\ tx[t].rows \subseteq tx[t].res
           /\ tx[t].devices \subseteq Present
           /\ tx[t].kind = "make" => /\ tx[t].rows = tx[t].res
                                     /\ tx[t].res \ tx[t].late \subseteq tx[t].devices
                                     /\ tx[t].rows \subseteq Present \ Held
           /\ tx[t].kind = "drop" => /\ tx[t].rows \subseteq tx[t].devices
                                     /\ tx[t].devices \cap Held \subseteq tx[t].rows
           /\ tx[t].kind # "make" => tx[t].rows \subseteq Held
           /\ tx[t].res \subseteq Boards /\ tx[t].late \subseteq Boards
<1>1. Shaped(t) /\ Locked(t) /\ Progressed(t) /\ TypeOK
  BY DEF IInv, Sound
<1> QED
  BY <1>1, TxIsTyped DEF Done, Shaped, Locked, Progressed

LEMMA CommitWatched ==
    ASSUME IInv, NEW t \in Txs, Commits(t)
    PROVE  Watched'
<1>1. /\ shutting_down' = (shutting_down /\ tx[t].kind # "drop")
      /\ overtaken' = overtaken \ {t}
  BY DEF Commits, CommitAnd
<1>2. tx'[t].kind = "none" /\ \A u \in Txs \ {t} : tx'[u].kind = tx[u].kind
  <2>1. tx'[t] = Idle /\ \A u \in Txs \ {t} : Follows(t, u)
    BY CommitFollows
  <2>2. Idle.kind = "none"
    BY DEF Idle
  <2> QED
    BY <2>1, <2>2 DEF Follows
<1> QED
  BY <1>1, <1>2 DEF IInv, Watched

LEMMA CommitTyped ==
    ASSUME IInv, NEW t \in Txs, Commits(t)
    PROVE  TypeOK'
<1>1. Done(t) /\ Stores(t) /\ TypeOK
  BY CommitStores DEF IInv
<1>2. tx' \in [Txs -> Transaction] /\ \A u \in Txs \ {t} : Follows(t, u)
  BY CommitFollows
<1>0. tx'[t].devices = {} /\ tx'[t].rows = {} /\ tx'[t].left = {}
  BY CommitFollows DEF Idle
<1>3. spoiled' \in SUBSET Boards
  BY <1>1, TxIsTyped DEF Stores, TypeOK
<1>4. \A u \in Txs : tx'[u].left \subseteq tx'[u].res
  BY <1>0, <1>1, <1>2 DEF Follows, TypeOK
<1>5. \A u, v \in Txs : u # v =>
        tx'[u].devices \cap tx'[v].devices = {} /\ tx'[u].rows \cap tx'[v].rows = {}
  BY <1>0, <1>1, <1>2 DEF Follows, TypeOK
<1>6. ASSUME NEW b \in Boards, device_status'[b] = "reserved"
      PROVE  b \in Held' \/ worker'[b] = "notified"
  <2>1. CASE b \in tx[t].devices
    BY <1>1, <1>6, <2>1, Wrote DEF Stores, Done
  <2>2. CASE b \notin tx[t].devices
    <3>1. b \in Held \/ worker[b] = "notified"
      BY <1>1, <1>6, <2>2 DEF Stores, TypeOK
    <3> QED
      BY <1>1, <3>1 DEF Stores
  <2> QED
    BY <2>1, <2>2
<1> QED
  BY <1>1, <1>2, <1>3, <1>4, <1>5, <1>6, CommitWatched DEF TypeOK, Stores, Watched

LEMMA CommitTables ==
    ASSUME IInv, NEW t \in Txs, Commits(t)
    PROVE  Apart' /\ Referred' /\ Pooled'
<1>1. Done(t) /\ Stores(t) /\ TypeOK /\ Apart /\ Referred /\ Pooled /\ MakeReads(t)
  BY CommitStores DEF IInv, Sound
<1>2. \A u \in Txs \ {t} : Follows(t, u)
  BY CommitFollows
<1>3. Apart'
  <2>1. tx'[t].kind = "none"
    BY CommitFollows DEF Idle
  <2> QED
    BY <1>1, <1>2, <2>1 DEF Apart, Follows
<1>4. Referred'
  BY <1>1, Wrote DEF Referred, Stores, Done
<1>5. ASSUME NEW b \in Boards, b \notin spoiled'
      PROVE  /\ b \in Held' => device_status'[b] # "available"
             /\ (b \in Held' \/ device_status'[b] = "available") => worker'[b] = "ready"
  <2>1. CASE b \notin tx[t].devices \cup tx[t].rows
    <3>1. b \notin spoiled
      BY <1>1, <1>5, <2>1 DEF Stores
    <3>2. /\ b \in Held' <=> b \in Held
          /\ device_status'[b] = device_status[b] /\ worker'[b] = worker[b]
      BY <1>1, <2>1 DEF Stores
    <3> QED
      BY <1>1, <3>1, <3>2 DEF Pooled
  <2>2. CASE b \in tx[t].devices \cup tx[t].rows /\ tx[t].kind = "drop"
    BY <1>1, <2>2, Wrote DEF Stores
  <2>3. CASE b \in tx[t].devices \cup tx[t].rows /\ tx[t].kind # "drop"
    <3>1. b \notin spoiled /\ b \notin tx[t].late
      BY <1>1, <1>5, <2>3 DEF Stores
    <3>2. CASE tx[t].kind = "make"
      <4>1. b \in tx[t].devices /\ b \in tx[t].rows /\ b \notin Held
        BY <1>1, <2>3, <3>1, <3>2, Wrote
      <4>2. device_status[b] = "available"
        BY <1>1, <3>1, <3>2, <4>1, Wrote DEF MakeReads
      <4> QED
        BY <1>1, <3>1, <3>2, <4>1, <4>2 DEF Pooled, Stores
    <3>3. CASE tx[t].kind # "make" /\ b \in tx[t].rows
      <4>1. b \in Held /\ b \notin Held' /\ device_status[b] # "available"
        BY <1>1, <3>1, <3>3, Wrote DEF Pooled, Stores
      <4> QED
        BY <1>1, <2>3, <3>3, <4>1 DEF Stores
    <3>4. CASE tx[t].kind # "make" /\ b \in tx[t].devices \ tx[t].rows
      <4>1. device_status'[b] = "await_flash_default" /\ worker'[b] = worker[b]
        BY <1>1, <2>3, <3>4 DEF Stores
      <4>2. b \in Held' => b \in Held
        BY <1>1, <3>4 DEF Stores
      <4> QED
        BY <1>1, <3>1, <4>1, <4>2 DEF Pooled
    <3> QED
      BY <2>3, <3>2, <3>3, <3>4
  <2> QED
    BY <2>1, <2>2, <2>3
<1> QED
  BY <1>3, <1>4, <1>5 DEF Pooled

\* Another transaction of which a row has been locked meanwhile.
LEMMA CommitSound ==
    ASSUME IInv, NEW t \in Txs, Commits(t), NEW u \in Txs \ {t}
    PROVE  Sound(u)'
<1>1. Done(t) /\ Stores(t) /\ Follows(t, u)
  BY CommitStores, CommitFollows
<1>2. /\ tx[t].devices \cap tx[u].devices = {} /\ tx[t].rows \cap tx[u].rows = {}
      /\ tx[u].left \subseteq tx[u].res /\ tx[u].res \subseteq Boards
      /\ Apart /\ Pooled /\ MakeReads(t)
  <2>1. TypeOK
    BY DEF IInv
  <2> QED
    BY <2>1, TxIsTyped DEF IInv, Sound, TypeOK
<1>3. Shaped(u) /\ Locked(u) /\ Progressed(u) /\ MakeReads(u) /\ EndReads(u)
  BY DEF IInv, Sound
<1>4. (Writing(u)' <=> Writing(u)) /\ (Deleting(u)' <=> Deleting(u)) /\ ~(Writing(u) /\ Deleting(u))
  BY <1>1 DEF Follows, Writing, Deleting
<1>5. Shaped(u)'
  BY <1>1, <1>3 DEF Shaped, Follows
<1>6. Locked(u)'
  <2>1. tx'[u].devices \subseteq Present'
    BY <1>1, <1>2, <1>3 DEF Locked, Follows, Stores
  <2>2. Writing(u) => tx'[u].left \subseteq Present'
    BY <1>1, <1>3, <1>4 DEF Locked, Follows, Stores, Taken
  <2>3. Deleting(u) => tx'[u].left \subseteq Held'
    BY <1>1, <1>3, <1>4 DEF Locked, Follows, Stores, Taken
  <2>4. tx[u].kind = "make" => tx'[u].rows \subseteq Present' \ Held'
    BY <1>1, <1>2, <1>3 DEF Locked, Follows, Stores, Apart
  <2>5. tx[u].kind # "make" => tx'[u].rows \subseteq Held'
    BY <1>1, <1>2, <1>3 DEF Locked, Follows, Stores
  <2>6. tx'[u].kind = tx[u].kind
    BY <1>1 DEF Follows
  <2> QED
    BY <1>4, <2>1, <2>2, <2>3, <2>4, <2>5, <2>6 DEF Locked
<1>7. Progressed(u)'
  <2>1. CASE tx[u].kind = "make"
    <3>1. /\ tx[u].kind = "make" /\ tx'[u].kind = "make" /\ tx'[u].res = tx[u].res
          /\ tx'[u].step = tx[u].step /\ tx[u].late \subseteq tx'[u].late
          /\ tx'[u].devices = tx[u].devices /\ tx'[u].rows = tx[u].rows
          /\ tx[t].kind = "drop" => tx[t].devices \cap tx[u].res \subseteq tx'[u].late
      BY <1>1, <2>1 DEF Follows
    <3>2. /\ tx[u].step = 2 => tx'[u].left = tx[u].left
          /\ tx'[u].left = tx[u].left \/ (tx[t].kind = "drop" /\ tx'[u].left = tx[u].left \ tx[t].devices)
      BY <1>1, <2>1 DEF Follows, Taken, Writing, Deleting
    <3>3. Present' = Present \/ (tx[t].kind = "drop" /\ Present' = Present \ tx[t].devices)
      BY <1>1 DEF Stores
    <3> QED
      BY <1>3, <3>1, <3>2, <3>3 DEF Progressed
  <2>2. CASE tx[u].kind = "drop" /\ tx[u].step = 2
    <3>1. /\ tx'[u].kind = "drop" /\ tx'[u].step = 2 /\ tx'[u].devices = tx[u].devices
          /\ tx'[u].rows = tx[u].rows
          /\ tx'[u].left = IF tx[t].kind = "make" THEN tx[u].left ELSE tx[u].left \ tx[t].rows
      BY <1>1, <2>2 DEF Follows, Taken, Deleting, Writing
    <3>2. tx[t].kind = "make" => tx[t].rows \cap tx[u].devices = {}
      BY <1>2, <2>2 DEF Apart
    <3> QED
      BY <1>1, <1>3, <2>2, <3>1, <3>2 DEF Progressed, Stores
  <2>3. CASE tx[u].kind # "make" /\ ~(tx[u].kind = "drop" /\ tx[u].step = 2)
    BY <1>1, <2>3 DEF Progressed, Follows
  <2> QED
    BY <2>1, <2>2, <2>3
<1>8. MakeReads(u)'
  <2> SUFFICES ASSUME tx[u].kind = "make", NEW b \in tx[u].res, b \notin tx'[u].late, b \notin spoiled'
               PROVE  b \in Held' \/ device_status'[b] = "available"
    BY <1>1 DEF MakeReads, Follows
  <2>1. CASE b \in tx[t].devices \cup tx[t].rows
    BY <1>1, <2>1, Wrote DEF Follows, Stores
  <2>2. CASE b \notin tx[t].devices \cup tx[t].rows
    <3>1. b \notin spoiled /\ b \notin tx[u].late
      BY <1>1, <2>2 DEF Stores, Follows
    <3> QED
      BY <1>1, <1>2, <1>3, <2>2, <3>1 DEF MakeReads, Stores
  <2> QED
    BY <2>1, <2>2
<1>9. EndReads(u)'
  <2> SUFFICES ASSUME tx[u].kind \in {"end", "timeout"}, NEW b \in tx[u].res,
                      b \notin tx[u].late, b \notin spoiled'
               PROVE  /\ \/ reservations'[b] = tx[u].seen[b]
                         \/ reservations'[b] = None /\ device_status'[b] # "available"
                      /\ (tx[u].step > 0 /\ b \in Held') =>
                            b \in tx[u].rows \/ (tx[u].step = 1 /\ b \in tx'[u].left)
    BY <1>1 DEF EndReads, Follows
  <2>1. b \in Boards /\ tx[u].seen[b] \in Clients
    BY <1>2, <1>3 DEF Shaped
  <2>2. tx[u].step = 1 => tx'[u].left = IF tx[t].kind = "make" THEN tx[u].left
                                       ELSE tx[u].left \ tx[t].rows
    BY <1>1 DEF Follows, Taken, Deleting, Writing
  <2>3. b \in Held' <=> reservations'[b] # None
    BY <2>1 DEF Held
  <2>4. b \in Held <=> reservations[b] # None
    BY <2>1 DEF Held
  <2>5. CASE b \notin tx[t].devices \cup tx[t].rows
    <3>1. /\ b \notin spoiled /\ reservations'[b] = reservations[b]
          /\ device_status'[b] = device_status[b]
      BY <1>1, <2>1, <2>5 DEF Stores
    <3> QED
      BY <1>3, <2>2, <2>3, <2>4, <2>5, <3>1 DEF EndReads
  <2>6. CASE b \in tx[t].devices \cup tx[t].rows /\ tx[t].kind = "drop"
    <3>1. device_status'[b] = "absent" /\ reservations'[b] = None
      BY <1>1, <2>1, <2>4, <2>6, Wrote DEF Stores
    <3> QED
      BY <2>3, <3>1
  <2>7. CASE b \in tx[t].devices \cup tx[t].rows /\ tx[t].kind # "drop"
    <3>1. b \notin spoiled /\ b \notin tx[t].late
      BY <1>1, <2>7 DEF Stores
    <3>2. /\ \/ reservations[b] = tx[u].seen[b]
             \/ reservations[b] = None /\ device_status[b] # "available"
          /\ (tx[u].step > 0 /\ b \in Held) =>
                b \in tx[u].rows \/ (tx[u].step = 1 /\ b \in tx[u].left)
      BY <1>3, <3>1 DEF EndReads
    <3>3. CASE tx[t].kind = "make"
      <4>1. b \in tx[t].res /\ b \notin Held
        BY <1>1, <2>7, <3>3, Wrote
      <4>2. device_status[b] = "available"
        BY <1>2, <3>1, <3>3, <4>1 DEF MakeReads
      <4> QED
        BY <2>1, <2>4, <3>2, <4>1, <4>2
    <3>4. CASE tx[t].kind # "make" /\ b \in tx[t].rows
      <4>1. b \in Held /\ device_status[b] # "available"
        BY <1>1, <1>2, <2>1, <3>1, <3>4, Wrote DEF Pooled
      <4>2. reservations'[b] = None /\ device_status'[b] # "available"
        BY <1>1, <2>1, <2>7, <3>4, <4>1 DEF Stores
      <4> QED
        BY <2>3, <4>2
    <3>5. CASE tx[t].kind # "make" /\ b \notin tx[t].rows
      <4>1. reservations'[b] = reservations[b] /\ device_status'[b] = "await_flash_default"
        BY <1>1, <2>1, <2>7, <3>5 DEF Stores
      <4> QED
        BY <2>2, <2>3, <2>4, <3>2, <3>5, <4>1
    <3> QED
      BY <3>3, <3>4, <3>5
  <2> QED
    BY <2>5, <2>6, <2>7
<1> QED
  BY <1>5, <1>6, <1>7, <1>8, <1>9 DEF Sound

LEMMA CommitKeeps ==
    ASSUME IInv, NEW t \in Txs, Commits(t)
    PROVE  IInv'
<1>1. Sound(t)'
  <2>1. /\ tx'[t].kind = "none" /\ tx'[t].res = {} /\ tx'[t].step = 0 /\ tx'[t].left = {}
        /\ tx'[t].devices = {} /\ tx'[t].rows = {}
    BY CommitFollows DEF Idle
  <2> QED
    BY <2>1 DEF Sound, Shaped, Locked, Progressed, MakeReads, EndReads, Writing, Deleting
<1>2. \A u \in Txs \ {t} : Sound(u)'
  BY CommitSound
<1> QED
  BY <1>1, <1>2, CommitTyped, CommitTables, CommitWatched DEF IInv

-----------------------------------------------------------------------------
(* Theorems.                                                               *)

LEMMA StepKeeps ==
    ASSUME IInv, [Next]_vars
    PROVE  IInv'
<1>1. ASSUME NEW t \in Txs, Calls(t) PROVE IInv'
  BY <1>1, CallKeeps
<1>2. ASSUME NEW t \in Txs, Runs(t) PROVE IInv'
  BY <1>2, StartsKeeps, WritesDeviceKeeps, DeletesRowKeeps, InsertsRowKeeps, CommitKeeps,
     RollsBackKeeps DEF Runs
<1>3. ASSUME NEW b \in Boards, WorkerStep(b) PROVE IInv'
  BY <1>3, WorkerStepKeeps
<1>4. ASSUME tx' = tx, device_status' = device_status, reservations' = reservations,
             worker' = worker, spoiled' = spoiled, Watched'
      PROVE  IInv'
  BY <1>4 DEF IInv, TypeOK, Watched, Apart, Referred, Pooled, Sound, Shaped, Locked,
              Progressed, MakeReads, EndReads, Writing, Deleting, Held, Present
<1>5. CASE ShutsDown
  <2>1. /\ tx' = tx /\ device_status' = device_status /\ reservations' = reservations
        /\ worker' = worker /\ spoiled' = spoiled
        /\ shutting_down' = TRUE /\ overtaken' = {t \in Txs : tx[t].kind = "make"}
    BY <1>5 DEF ShutsDown, tables
  <2>2. Watched'
    BY <2>1 DEF Watched
  <2> QED
    BY <1>4, <2>1, <2>2
<1>6. CASE UNCHANGED vars
  <2>1. /\ tx' = tx /\ device_status' = device_status /\ reservations' = reservations
        /\ worker' = worker /\ spoiled' = spoiled /\ UNCHANGED closing
    BY <1>6 DEF vars, tables
  <2>2. Watched'
    BY <2>1, WatchedStays
  <2> QED
    BY <1>4, <2>1, <2>2
<1> QED
  BY <1>1, <1>2, <1>3, <1>5, <1>6 DEF Next

\* The inductive invariant holds in every behaviour.
THEOREM Invariance == Spec => []IInv
<1>1. Init => IInv
  BY Initially
<1>2. IInv /\ [Next]_vars => IInv'
  BY StepKeeps
<1> QED
  BY <1>1, <1>2, PTL DEF Spec

\* No row of the database has two writers, and a board that is reserved for somebody has a
\* reservation or a worker that has been told to reset it (reservation_end's notification).
THEOREM TypeCorrect == Spec => []TypeOK
<1>1. IInv => TypeOK
  BY DEF IInv
<1> QED
  BY <1>1, Invariance, PTL

\* A transaction commits what its procedure does in one step, but for the boards it is late
\* for: what make_reservations has read of a board still holds when it commits, and
\* end_reservations deletes the reservation that it found, or it was ended meanwhile.  A
\* worker that shuts down lends a board only to a make that had looked before.
THEOREM SerializableHolds == Spec => Serializable
<1>1. ASSUME IInv, NEW t \in Txs, Commits(t), NEW b \in tx[t].res \ (tx[t].late \cup spoiled)
      PROVE  /\ tx[t].kind = "make" =>
                  /\ shutting_down => t \in overtaken
                  /\ device_status[b] = "available" /\ reservations[b] = None
                  /\ device_status'[b] = "reserved" /\ reservations'[b] = tx[t].client
             /\ tx[t].kind \in {"end", "timeout"} =>
                  IF b \in tx[t].rows THEN reservations[b] = tx[t].seen[b]
                  ELSE reservations[b] = None /\ device_status[b] # "available"
  <2>1. Done(t) /\ Stores(t) /\ Shaped(t) /\ MakeReads(t) /\ EndReads(t) /\ b \in Boards
    BY <1>1, CommitStores, Wrote DEF IInv, Sound
  <2>2. b \in Held <=> reservations[b] # None
    BY <2>1 DEF Held
  <2>3. CASE tx[t].kind = "make"
    <3>1. b \in tx[t].devices /\ b \in tx[t].rows /\ b \notin Held
      BY <1>1, <2>1, <2>3, Wrote
    <3>2. device_status[b] = "available"
      BY <1>1, <2>1, <2>3, <3>1 DEF MakeReads
    <3> QED
      BY <1>1, <2>1, <2>2, <2>3, <3>1, <3>2 DEF Stores, IInv, Watched
  <2>4. CASE tx[t].kind \in {"end", "timeout"}
    <3>1. /\ \/ reservations[b] = tx[t].seen[b]
             \/ reservations[b] = None /\ device_status[b] # "available"
          /\ b \in Held => b \in tx[t].rows
          /\ tx[t].seen[b] \in Clients
      BY <1>1, <2>1, <2>4 DEF EndReads, Done, Shaped
    <3>2. b \in tx[t].rows => b \in Held
      BY <1>1, <2>1, <2>4, Wrote
    <3> QED
      BY <2>2, <2>4, <3>1, <3>2
  <2> QED
    BY <2>3, <2>4
<1> DEFINE Whole == \A t \in Txs : Commits(t) =>
          \A b \in tx[t].res \ (tx[t].late \cup spoiled) :
              /\ tx[t].kind = "make" =>
                    /\ shutting_down => t \in overtaken
                    /\ device_status[b] = "available" /\ reservations[b] = None
                    /\ device_status'[b] = "reserved" /\ reservations'[b] = tx[t].client
              /\ tx[t].kind \in {"end", "timeout"} =>
                    IF b \in tx[t].rows THEN reservations[b] = tx[t].seen[b]
                    ELSE reservations[b] = None /\ device_status[b] # "available"
<1>2. IInv /\ [Next]_vars => [Whole]_vars
  BY <1>1
<1> QED
  BY <1>2, Invariance, PTL DEF Serializable, Spec
===============================================================================
