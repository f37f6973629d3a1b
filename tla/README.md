# A verification project for iCEFARM

iCEFARM lends pico2-ice boards to clients. This directory holds TLA+ models of
the system, the TLC configurations that check them on small instances, and
theorems that TLAPS proves for every instance. Paths below are relative to
`src/src/icefarm/` unless they start with `docs/`.

## 1. The system

| Component | State it keeps | Operations | Talks to |
|---|---|---|---|
| PostgreSQL (`control/flyway/migrations`) | tables `worker`, `device`, `reservations` | `make_reservations`, `end_reservations`, `handle_*_timeouts`, `add_worker`, `add_device`, `update_device_status`, ...; triggers `reservation_end`, `device_available` | everybody, one connection per call; `NOTIFY` to whoever `LISTEN`s |
| Control server (`control/`) | none of its own but the websocket sessions | HTTP endpoints, heartbeat jobs | database; workers over HTTP (`/reserve`, `/reboot`, `/delete`, `/heartbeat`); clients over websockets |
| Worker process (`worker/app.py`, `WorkerDatabase.py`) | shutdown thread, LISTEN thread | `/reserve`, `/reboot`, `/delete`, websocket `request`, `graceful_shutdown` | database, `DeviceManager` |
| `DeviceManager`, `Device`, `AbstractState` and its subclasses (`worker/device`) | one state object per board, a lock per board, timers of `FlashState` and `TestState` | `switch`, `handleReserve`, `handleUnreserve`, `reboot`, `handleExit`, udev events | database (status), boards over USB |
| `UploadState`, `Reader`, `Queue` | queue of bitstreams, results not yet sent, run thread, reader thread | `queue`, `run`, `reboot`, `handleExit`, `_flush` | board over serial, client through `EventSender` |
| `EventSender`, `Session` (`utils/EventSender.py`) | per client: socket, queued messages, timer | `send`, `flush`, `setSocket`, `removeSocket`, `endSession` | websockets |
| Client library (`client/lib`) | serials held, sockets, the set of serials awaited, batches awaiting results | `reserve`, `reboot`, `end`, `waitUntilInitilized`, `evaluateEvaluations`, watchdog | control server, workers |
| Firmware (`src/firmware`) | the state of its loop, the bytes received | receive, flash the FPGA, measure, print | the worker over USB serial |
| Web panel, configuration, logging, docker | - | - | - |

What is hard here: three parties without shared memory, whose messages are lost
(a failed `/reserve`, a `NOTIFY` with nobody listening) or late; a status column
that everybody overwrites; threads that join each other under the board's lock;
timers of states that have been replaced; a client that counts results to know
when it is done.

What makes each component correct:

- reservations: a board is lent to one client, is not reset or offered while
  it is lent, and is always reset after it was lent;
- shutdown: it ends when the reservations have, and leaves nothing reserved;
- a board at its worker: one Device object drives it, it has the firmware of
  the state it is in, its status in the database settles and tells the truth;
- a session on a board: every bitstream accepted is evaluated and its result
  delivered, across reboots; a result is taken for the bitstream it was measured
  on; a state that is left really ends;
- events: each reaches the client once while it is connected;
- client calls: a reservation returns boards that are ready, boards that are lost
  are forgotten, a socket is open while it is needed;
- batches: every evaluation is sent and every result is handed to the caller,
  and the iteration ends.

## 2. Plan

Done:

1. `Farm`: reservation protocol, worker life cycle, graceful shutdown; proofs in
   `Farm_proofs`.
2. `Upload`: one session on a board at the grain of its threads, and
   `UploadService`, what it promises its client; proofs in `Upload_proofs`.
3. `Sessions`: `EventSender` and `Session`; proofs in `Sessions_proofs`.
4. `Batch`: bundles, batches, results and the watchdog of the client; proofs in
   `Batch_proofs`.
5. `Handshake`: the client's `reserve`, `reboot` and `end` on several threads,
   against `initialized`, `reservation end`, `failure` and `devices_available`;
   proofs in `Handshake_proofs`.
6. `Transfer`: the serial port between the run thread, the reader and the
   firmware, unit by unit; proofs in `Transfer_proofs`.
7. `Lifecycle`: one board at the grain of the locks of `Device`,
   `AbstractState.switch` and `DeviceManager`, with `/delete`, timers and udev
   events; proofs in `Lifecycle_proofs`.
8. `Transactions`: the procedures of reservations statement by statement and row
   by row, under READ COMMITTED; proofs in `Transactions_proofs`.

How they compose: `Farm` takes a procedure of the database as one step, but for
those that make reservations, whose first statement is a step of its own;
`Transactions` cuts all of them and shows when one step may stand for them. `Farm`
takes a board's states as single steps; `Lifecycle` cuts these at the locks and
adds the objects and events below them.
`Upload` opens the session that is one state of both, and `Transfer` the write
and the wait that are one step of `Upload`. `Sessions` is the delivery
`Handshake` relies on, and `Handshake` the outcome of the reboot that is one
step of `Batch`. Only `Upload` and `UploadService` are formally a refinement;
the others meet at the names they share.

Every safety invariant and action property that a run checks is also a theorem
for all values of the constants; section 12 lists what TLC alone checks. Left:
abstract specifications that `Sessions` (a channel that delivers once) and
`Lifecycle` (one board of `Farm`) would refine.

## 3. Module Farm

`Farm.tla` holds the database, the control server, the worker processes and the
boards in one state machine, because the properties relate them.

| Variable | Code |
|---|---|
| `worker`, `shutting_down` | rows of `worker`, column `shutting_down` |
| `device_status` | rows of `device` and their status; `"absent"` without a row |
| `reservations`, `expired` | rows of `reservations`; those with `until` in the past |
| `found` | the tables `res` of the `make_reservations` in progress |
| `calls` | `/reserve` calls on their way to a worker, from `_sendReservationNotifications` |
| `notices` | notifications of `reservation_updates` not yet read by the board's worker |
| `up`, `serving`, `listening`, `unreserving`, `monitor` | the process, its HTTP server, its LISTEN thread, its shutdown thread |
| `dev`, `session`, `stale` | the board's state object, the client whose `/reserve` made it, a timer left by a replaced state |
| `stuck` | boards whose lock is held for ever, by a `handleExit` that does not return |
| `overtaken`, `astray` | history: found boards whose worker has begun to shut down since; boards that a late `/reserve` has reached, or the end of whose reservation nobody heard |

Each stored procedure is one action (the procedures that end reservations share
`EndAndReset`), but for the two that make reservations. Their first statement
reads `device_status` and `worker.shutting_down` and locks no row of `worker`;
the others use what it has put into `res`. `Find` is the first, `Reserve` the
rest and `RollBack` the exceptions, and anything may come between. Two
procedures that have found the same board are left to `Transactions`, and a
worker that restarts between two statements takes its boards out of `found`.

`handleUnreserve` is two actions, because it writes the status before it waits
for the board's lock; that wait joins the threads of the state it leaves, and
may never end: `ExitHangs` is the deadlock that `Upload` finds (section 5), after
which nothing takes the board's lock until the process ends. `Device.switch`
replaces the state and leaves its timer running, so `stale` remembers it.
`Reserve` may draw any loop variable for the thread of a row, as the closure in
`_sendReservationNotifications` does. The names of `Faults` decide what the
environment of a run may do; `Farm.tla` explains each, and both runs have all.

Abstractions: one reservation kind, supported by every worker; time is the set
`expired`; `Extend` and `Expire` touch that set only; the flash of a
reservation's firmware has no timer, as in the code. Left out: `/delete`, the
`device_available` trigger, the read-only queries, failures of the database
(`/delete` is in `Lifecycle`, the trigger's counts in `Handshake`).

| Run | Instance | Shows |
|---|---|---|
| `faults` | 1 worker, 2 boards, 2 clients, every fault | `TypeOK`, `NoticeNeverHitsHolder`, `HeldIsNotRecycled`, `TornDownOnlyAfterEnd`, `SessionIsOwned`, `AvailableIsReady`, `NoBoardForgotten`, `ShutdownIsClean` |
| `reservations` | 1 worker, 2 boards, 1 client, every fault, fair | `BoardIsRecycled` |

What is false of the code, and excepted by name. A board that is `astray` may be
in a session nobody holds, wait for a reset that never comes, or be offered with
a timer behind it; a reset that finds no old timer brings it back. A board that
is `overtaken` may be lent by a worker that has shut down: the procedure read
`shutting_down` before `shutdown_worker`, and the shutdown thread looked for
reservations before the procedure's commit. A LISTEN thread that hangs in
`handleExit` resets none of its boards any more (`ListenHangs`).

Bounds. Two boards on one worker are enough for the swapped `/reserve` call and
for two notifications handled one after the other; two clients for a board that
changes hands, which liveness does not need. Workers meet only in
`has_reservations`, which counts the reservations of all (section 11). The only
bound in the module is `FewCalls`: a client has one `/reserve` call per board on
its way, and there are no more calls than boards. Every other variable is finite
by itself.

Fairness (`FairSpec`). The timers of `FlashState` (60 s) and `TestState` (30 s)
fire, so the default flash and the test end one way or the other. The LISTEN
thread of a running worker goes on, unless its board is `stuck`. Notifications
are read in order, one after the other, so each is read in the end, however many
are behind it: `UnreserveBegins` has strong fairness. Nothing is assumed of
clients, `/reserve` calls, heartbeats, the LISTEN connection, the shutdown or the
flash of a reservation's firmware.

### Proofs

`Farm_proofs.tla` proves `CoreInv` inductive for every set of workers, boards
and clients and all faults, one lemma per action. Its core is `NoticeIsAlone`
with `HeldIsSettled` and `AvailableIsSettled`: a board with a notification
pending is not in one of the two states from which it could be offered, so it
cannot be reserved before the notification has been handled. `FoundIsSettled`
carries this over the gap between the statements of `make_reservations`. That
gives `NoticeNeverHitsHolder`, `HeldIsNotRecycled`, `ShutdownIsClean` and the
action property `TornDownOnlyAfterEnd`.

Its second part adds to `CoreInv` what holds of every board that is not astray
(`IInv`): `SessionIsOwned`, `NoBoardForgotten`, `AvailableIsReady`, with two
conjuncts that make them inductive. `ResetIsWritten` says that the status
of a board being reset is none that waits, and `StaleIsAstray` that only a late
`/reserve` replaces a state whose timer runs. No theorem assumes anything of
`Faults`.

The liveness property is model-checked only: TLAPS does not reason about
fairness here.

## 4. Module Transactions

`Transactions.tla` cuts the procedures of `V1.3__ReservationProc.sql`, and the
other deletions of reservations, where PostgreSQL may run another transaction
between: at each statement, which sees what is committed when it starts, and at
each row it writes, for whose lock it may have to wait.

| Variable | Code |
|---|---|
| `device_status`, `reservations` | the rows that are committed |
| `tx[t]` | the transaction on a connection: its procedure (`kind`), the temporary table `res`, the owners it found (`seen`), the statement (`step`), the rows that it has yet to write (`left`) and those that it has locked (`devices`, `rows`) |
| `worker` | whether the worker has been told to reset the board, or flashes it |
| `shutting_down` | that column of the worker's row |
| `tx[t].late` | history: boards of `res` that changed hands since the transaction read them |
| `overtaken` | history: `make`s that read `shutting_down` before it was set |
| `spoiled` | history: boards that such a transaction has written |

`make` is `make_reservations` and `make_specific_reservations`, `end` the two
procedures of a client, `timeout` that of the heartbeat, `clear` the `DELETE` of
`Control.clearWorkers`, `drop` the deletion of a worker with its cascade. A
transaction may roll back at any moment, for an exception (a key that exists, a
device that is gone), a deadlock or a lost connection. The statuses between
`flashing_default` and `available` do not matter here and are left to `Farm`, as
is `/reserve`.

The run `transactions` has 2 boards, 2 clients and 2 connections, and shows
`Serializable`: what a transaction writes at its commit is what its procedure
would write in one step then, as it does in `Farm`. In particular two clients that
find the same board available do not both get it, as the second `INSERT` meets
the first one's key; and a board that two ends have found is not taken from the
pool by the second. `TypeOK` adds that no row has two writers and that a board in
status `reserved` has a reservation, or its worker has been told to reset it.

What is false: a transaction that is late, that is one that sleeps between two
statements while its board changes hands. A `make` that has read a board before
another client reserved and gave it back reserves it while it waits for its
reset. An `end` whose board has been ended by another, reset and offered again
sets it to `await_flash_default`, with no notification to bring it back; if it
was reserved again before the `DELETE`, that deletes the reservation of the new
client, as the statement names the board only (`V1.3__ReservationProc.sql:189`;
`ControlDatabase.py:43` says "under the name of the client"). `Serializable`
leaves these boards out: a reset takes seconds, and the statements of one
procedure milliseconds. It names one more exception: a `make` locks no row of
`worker`, so `shutdown_worker` may run between its first statement and its
commit, and it lends a board of a worker that shuts down (`overtaken`).

Bounds. Two connections are a transaction and the ones that overtake it, one after
the other; two boards let two transactions lock rows in opposite orders. Boards
of one worker stand for all: `make` reads its row, `drop` deletes it, and
`ShutsDown` (`shutdown_worker`) writes it. A spoiled
board is not reserved or given back again before its worker is new.

Proofs (`Transactions_proofs.tla`), for any boards, clients and connections. What
a commit writes depends on what the transaction read several statements ago, so
that `Serializable` needs an invariant about what of it still holds. `IInv` has
`Sound` of each transaction: it has written what it read and nothing else
(`Shaped`), the rows it has locked or is about to write are there (`Locked`), a
statement has written every row it had to (`Progressed`), and unless it is late, a
board that `make` found available still is or has been reserved by a faster one
(`MakeReads`), and a reservation that `end` found is the same or has been ended
(`EndReads`). Between transactions, no device goes to which a row is being
inserted (`Apart`), a worker that shuts down is met only by a `make` that had
looked before (`Watched`), reservations refer to devices (`Referred`), and the worker of a
board that is lent or offered leaves it alone (`Pooled`). `SerializableHolds`
compares each commit with its procedure, board by board. TLC checks `IInv` on the
instance of the run.

## 5. Modules Upload and UploadService

`Upload.tla` is one client's session on one board, from the `UploadState` the
client reserved to the end of the reservation. Its actors are the run thread,
the board with the reader thread, a `/reboot` thread, the thread of the
unreserve, and requests. They meet at the lock of `Device`, whose holder is
`lock`; a thread that waits for the run thread keeps it.

| Variable | Code |
|---|---|
| `state` | the kind of `Device._device` |
| `queue`, `shut` | `bitstream_queue.contents`, `.shutting_down` |
| `current`, `popped` | `current_bitstream`; what `pop` returned, before the assignment |
| `results` | `UploadState.results`, handed to the next state by `transfer_bitstreams` |
| `run` | the place of the run thread in `run`, `_writeBitstream`, `_flush`, `reboot` |
| `ready`, `last`, `board` | `Reader.ready`, `Reader.last_result`; the firmware's transfer loop |
| `reboot`, `ending` | the places of `/reboot` and of `handleUnreserve` |
| `carry` | the list `bitstreams` of a `reboot` call, and of the factory of the `FlashState` it switched to |
| `files` | the files under `media_path` |
| `unsent`, `dropped`, `delivered` | what the client has not sent, what `queue` dropped, what `_flush` sent |

`run` is cut wherever another thread may look: between `pop` and the assignment
of `current_bitstream`, between `os.remove` and its reset, and before the lock.
The 2 s sleeps and the chunks of a write are not steps; two requests are one
after the other under the lock. A flash ends (`FlashDone`), gives a `BrokenState`
(`FlashFails`: the copy answers failure, or the port does not come back), stays as it
is for the rest of the session (`FlashStalls`: a session's `FlashState` has no timer, a
copy that raises or a restart command that fails leaves it waiting), or gives an
`UploadState` without run thread (`HalfStarts`: `serial.Serial` raises), which still
queues bitstreams and can be rebooted. A result is the bitstream it belongs to. `failures` and `reboots` are bounded by
`MaxFailures` and `MaxReboots`.

`UploadService.tla` is what a client may rely on: each bitstream is accepted or
refused, an accepted one is evaluated once and its result sent once, and no
reboot undoes any of it. `ServiceSpec` is the refinement: the phase of a
bitstream is computed from where `Upload` holds it. A bitstream that waits without its
file, or whose result is to be sent though it was sent before, is in no phase of the
service.

| Run | Instance | Shows |
|---|---|---|
| `upload_all` | 3 bitstreams, every event, 2 failures, 2 reboots, fair | `NothingLost`, `OneState`, `ServiceSpec`, `ResultsDelivered` |
| `upload_exit` | a failure while the reservation ends, fair | violation of `HandleExitReturns`: deadlock of `handleExit` and `reboot` |

What is false of the code. A session may hang, and `ResultsDelivered` says what must
then be so; `Stuck` lists the seven ways:

- the flash of a reboot neither ends nor fails;
- `serial.Serial` raises when the flash is done (`:99`), and no run thread is started;
- a `/reboot` between `os.remove` and the reset of `current_bitstream`
  (`UploadState.py:193`, `:213`) keeps a bitstream without its file, and the run
  thread reboots for ever on the missing file;
- the run thread waits for the device's lock, whose holder joins it (`upload_exit`);
- the parser's result is falsy, and the reader takes it for none;
- the reader thread ends, on an unplugged board, before the firmware asks for a
  bitstream: `waitUntilReady` waits for a thread that is gone;
- a `/reboot` between a result and its flush hands the result to the next state, whose
  run thread waits for a bitstream before it looks at what is to be flushed.

A watchdog timeout makes the run thread reboot, and a bitstream that arrives during
that reboot is dropped (`:126`) though the client asked for nothing; hence
`dropped` counts as refused, and not as a fault, in `UploadService`.

Bounds. Three bitstreams with `FlushAt = 1` give a queue above, at and below the
flush threshold, and a session that is part evaluated, part queued when it
reboots; two failures and two reboots let the second hit the state that the
first one made.

Fairness. Threads run; a firmware that received a bitstream prints a result or
its watchdog message, then asks for the next. Nothing makes a flash end: `FlashStep` is
fair, but one of its outcomes is that the state stays as it is. Nothing is assumed
of requests, `/reboot` calls or the end of the reservation. The run thread's wait
for the lock needs no strong fairness, as its holder releases it only once.

Proofs (`Upload_proofs.tla`), for every set of bitstreams and all bounds.
`NothingLost` is not inductive: which place holds a bitstream depends on where
the run thread is (`Holding`), on which lists a reboot carries and for how long
(`Keeping`), on who has the lock (`Locking`), and on a state that is being left
having an empty queue (`Leaving`). `Unsent` keeps a bitstream from arriving
twice, and `Once` one from being evaluated or sent again: its file is removed when its
result is kept. `IInv` is their conjunction. One lemma per action proves that it is kept, the
sequences being seen through `Elems` and four lemmas about it. `Implements`
proves `ServiceSpec` from `IInv`: `PhaseOf` names the phase of one bitstream and
`Simulates` maps every action to a step of `UploadService` or to none.

## 6. Module Sessions

`Sessions.tla` is `EventSender` for one client of one server: the handlers of
`connect` and `disconnect`, one at a time on the event loop (`loop`); a thread
per event that is sent (`pc`, `ref`, `out`, `to`); and the timers of the sessions.

| Variable | Code |
|---|---|
| `table`, `made` | `EventSender.sessions[client_id]`; the `Session` objects made so far, of which older ones may still be in use |
| `sock`, `queue` | `sock_id`, `message_queue` of each session |
| `armed`, `stray` | the timer in `timeout`; timers that `startTimeout` has overwritten |
| `known`, `closed` | sockets whose `connect` and `disconnect` were handled |
| `tasks` | emits scheduled by `SyncAsyncServer.emit` on the event loop |
| `out`, `to` | `messages` and `sock_id` of a thread in `flush` |
| `opened`, `live` | sockets the client opened; the one it uses |
| `accepted`, `received`, `vanished`, `expired` | what became of a message |
| `requeued` | history: messages that `flush` queued again after an emit raised |

Each critical section of `Session.lock` is an action; `setSocket`,
`removeSocket` and `flush` take the lock several times and are as many actions.
An emit on the event loop is a task and never raises; on another thread it may
(`Raises`) when the socket is gone, or pass unnoticed (`vanished`). The order of
messages is not modelled: a flush emits outside the lock, and nothing says in
which order messages arrive. `sendAllJson` and the contents of messages are left
out; `sendSerial` finds a reservation or not.

| Run | Instance | Shows |
|---|---|---|
| `sessions_all` | 2 messages, 2 sockets, 3 sessions, everything allowed, fair | `Kept`, `EmittedOnce`, `Delivered` |

What is false of the code: a message may wait for a client that is connected.
`Missed` names the two ways, and `Delivered` says that there is no third. Its
session has lost the client's socket: to the disconnect of an older one, which
the server sees only after the client is back (`EventSender.py:70`), or to a timer
that fires between `startSession` and `stopTimeout` (`:44`), so that messages go to
a session without socket. Or an emit to an old socket raised after the client's
new one was flushed to (`:98`), and the message that is queued again waits for the
next socket.

Bounds. Two messages are two flushes at once, and one flush that takes the
message of another thread; two sockets are a reconnect; three sessions are
objects that timers have removed and the one that follows them (`TimerFires` leaves
the last one, so that there is always one to follow). `Delivered`
excuses a message that was emitted to a socket that was gone, and one whose
session ended while the client was away.

Fairness: the event loop runs its handlers and tasks, and a thread that has begun
to send goes on. Clients need not connect, and timers need not fire.

Proofs (`Sessions_proofs.tla`). `Kept` and `EmittedOnce` need `Fresh` (a message
that has not been appended is nowhere) and `Working` (a thread or the loop in
the middle of a handler has a session, and the loop flushes to the socket that it
has just set); with `TypeOK` they are `IInv`, inductive for every number of
messages, sockets and sessions.

## 7. Module Batch

`Batch.tla` is one call of `evaluateEvaluations`. `result_cv` is `lock`: both
generators are suspended at a `yield` with the lock held, so `SenderAdds` and
`SenderSends`, and `ReceiverWakes` to `ReceiverChecks`, keep it between their
steps, and the bundle is used without it (`SenderNext`).

| Variable | Code |
|---|---|
| `queue`, `empty` | the evaluations in `EvaluationBundle.queue`, whose lists and keys are in the order of `Evaluations`; `.empty` |
| `sender`, `batch` | `evaluate_batches`, `getBatches` and the batch between them |
| `receiver`, `results` | `getResults` and the list it yields from |
| `awaiting` | `awaiting_results` |
| `watchdog`, `expired`, `failing`, `broken` | `watch` and its locals, `broken_serials` |
| `sent`, `yielded` | requests that reached a worker; how often the caller got a result |

The next batch is stated by what the loop of `EvaluationBundle.__next__`
computes, not by how: `IsBatch` says that the batch has of each live key its last
evaluations, that no device has more than `batch_size` of them counting those of
the keys searched before, and that nothing stays behind which would have fitted.
`BatchExists` and `BatchIsUnique` prove that this describes one batch, for any
list and any overlapping sets of serials.

Results are abstracted to the pair of device and evaluation. Time is a choice:
the watchdog may find any waiting device expired, and a device may answer at any
time after the request reached it, again or too late. `client.reboot` is a choice
of the devices that come back (`WatchdogWakes`). Each of the others is ended with an
HTTP call in the body of a loop (`WatchdogEnds`) over the set that `reboot` returns,
which is the one that "initialized" discards from: `WatchdogDies` is the
`RuntimeError` of a device that comes back during such a call. `_addBatch` adds and answers under one lock and is
one step.

| Run | Instance | Shows |
|---|---|---|
| `batch_losses` | 3 circuits, one on both devices and one on each, losses, balanced factory, fair | `YieldedOnce`, `OnlyBundleIsLeft`, `Balanced`, `Answered`; with `TypeOK`, that no device has more than `batch_size` circuits in a batch |
| `batch_hidden` | 3 circuits, one on the first device and two on the second, nothing lost | violation of `Complete`: the iteration ends with a circuit in the bundle |

What is false of the code. `Complete` (section 11). And a device that the watchdog
had ended when it died is `Abandoned`: it is in `broken_serials`, so new circuits for
it fail at once, but those that it had are awaited for ever. A circuit that was
lost is given up only when a reboot of its device fails; on a device that comes
back it is never answered, and `Answered` does not speak of it.

Bounds. Two devices and sets of serials that overlap are where batches and
thresholds interact: batches of one fill up with a device's own circuit, so that
the shared one has to wait, the balanced factory has a second batch to hold back,
and a device can break while that batch waits. The queues of the list of
`batch_losses` run empty from the last key to the first, those of the list of
`batch_hidden` from the first.

Fairness. Threads that want the lock get it in the end: strong fairness of the
sender, the caller's iteration, the watchdog and the answers, which compete for
it. The caller is assumed to ask for the next result, and a worker to answer what
reached it, unless the device was ended; what was lost is in no fairness condition, and the watchdog need not
find a device expired.

Proofs (`Batch_proofs.tla`), for any list of evaluations, any sets of serials, sizes
and factory. `YieldedOnce` needs `OnePlace`: a pair of device and evaluation is in
the bundle, in the batch, awaited, in `results` or yielded, and in one of these
only, whoever answers for it (the device, the watchdog that gives up, or
`_addBatch` for a device given up before); and `OneResult`, that the list has it
once. `Ended` relates the ends of the two generators. `Balanced` rests on
`BatchFits`: no device has more than `batch_size` evaluations in a batch, as the
last of its keys to be searched has counted all of them. `IInv` is their
conjunction with `TypeOK`; TLC checks it on the lists of both runs, and with `batch_size` 2.

`Complete` is not a theorem as it stands, since the code can leave evaluations in
the bundle (section 11). Proved is what is true of every list: when the iteration
ends, what has no result was never taken from the bundle (`OnlyBundleIsLeftHolds`);
everything has a result if no queue with evaluations in it was ever hidden
behind an empty one (`CompleteIfReached`, whose condition `Reached` fails on the list
of `batch_hidden` and holds on that of `batch_losses`); and this without a condition when all
evaluations are for the same devices (`CompleteForOneSet`).

## 8. Module Handshake

`Handshake.tla` is `BaseClient` with the part of `BaseAPI` that changes its state.
Each call runs on a thread of the program (`caller`), each event on a thread of
its own; what they share is tracked by the client without one lock for all of it.

| Variable | Code |
|---|---|
| `db`, `starting` | what the control server and the workers make of the client's calls: who has each board, which boards are on their way to `UploadState` |
| `wire`, `news` | events on their way: those about a board, and the counts of `devices_available` |
| `connection_info`, `worker_sockets` | the same; a socket that did not connect is kept as `False` (`"failed"`) |
| `awaiting_serials`, `woken` | the set `waitUntilInitilized` waits for; threads that its condition has notified |
| `reservation_lock`, `last_available` | the same |
| `caller`, `removals` | where a call is, with its locals; `removeSerial` calls between `usingConnection` and `disconnectWorker` |
| `ready`, `overwritten`, `raced` | history: boards initialized since a request; calls whose set was replaced; workers whose socket was used while it was closed |

`waitUntilInitilized` is cut between the assignment of the set, which takes no
lock, and the wait; `removeSerial` between looking whether a socket is used and
closing it. Events of a worker wait until the client has a socket there
(`Deliverable`), which is what `Sessions` promises; they are not ordered.

| Run | Instance | Shows |
|---|---|---|
| `handshake` | 2 threads, 3 calls of any kind, 2 boards of one worker, 1 board lost | `EndedIsRemoved`, `SocketsMatch`, `ReadyOnReturn` |
| `handshake_waits` | 2 threads that reserve, 1 board lost, 1 `devices_available` at a time, fair | `ReserveReturns`, `WaiterWakes` |

What is false of the code, and how the properties say so. A board whose
"initialized" comes before line 63 of `BaseClient.py` is waited for, for ever:
`ReserveReturns` excuses a call that still holds such a board (`b \in
ready[c]`). A board that fails, or whose reservation ends, is never initialized,
and nothing takes it from the set; a call that waits for it does not return.
`reserveSpecific` and `reboot` take no lock and replace the set of another call
(`overwritten`). The set that is returned is the one that was not initialized,
where the docstring (`BaseClient.py:42-43`) says the opposite. Two
`removeSerial` of one worker's boards may both find its socket unused, or close
it after a reservation found it open (`raced`); `getConnectionInfo` may then
return nothing, and `info.url()` raises after the error was logged (`:136-139`).
A reply that comes after the board was lost makes the client track it for good;
`Answered` leaves this out, as it takes an event that is faster than the reply
to the request that caused it. With several `devices_available` on their way an
old count may be handled last; hence `MaxNews = 1`.

Bounds. Two boards of one worker share its socket, two threads are all it takes
for calls to meet, and three calls are two that meet and one that has gone before.
More workers would only be more sockets of the same kind.

Fairness. Calls and event handlers go on, boards that start get initialized; no
call, no loss and no `devices_available` has to happen.

Proofs (`Handshake_proofs.tla`), for every finite set of boards, any workers and
threads, and all bounds. `EndedIsRemoved` and `SocketsMatch` need the other parts
of `IInv`: `ReplyIsHeld` (while a reply is on its way its boards are the client's,
so that those it adds to `connection_info` are not lost already) and
`LockIsForReserve` (what is done under the lock is a `reserve`). `ReadyOnReturn` needs
`Awaited`: each board of a reservation that waits is in `awaiting_serials`, or has
been initialized since the request, unless the set was replaced. A wait only ends
when the set is empty; a step of `reboot`'s timeout is no step of a reservation.

## 9. Module Transfer

`Transfer.tla` looks inside the step in which `Upload` writes a bitstream and waits
for its result. The worker writes as many units as the file has; the firmware
collects as many as a bitstream has (`Size`), whoever sent them, and prints a
value. Nothing on the wire says where a file begins or to which file a value
belongs, so that the two agree is a property of the protocol as a whole.

| Variable | Code |
|---|---|
| `queue`, `current`, `run`, `written` | `UploadState.run` and `_writeBitstream` |
| `ready`, `last_result` | `Reader` |
| `port`, `rx`, `tx` | the serial port, what is on its way to the board and to the worker |
| `firmware`, `currentState`, `previousState`, `image` | both `main.cpp`: the state of the loop, the bytes received |
| `spoiled` | history: a file longer than a bitstream was written since the last flash |

Each case of the firmware's loop is one action. `Receive` keeps that the watchdog
does not leave the iteration it fires in, which goes on to read and may complete
the bitstream it has given up. A unit stands for a part of a bitstream, a value
for the image it was measured on; `Falsy` is what the variance parser makes of a
flat waveform.

The run `transfer` has a file of the right length, a flat one, one that is too
short and one that is too long, either firmware, and one early watchdog; `Size`
is 2, so a short file leaves a gap, a long one a rest, and a write can be cut in
the middle. It shows:

- `RightImage`: a value that is taken for a bitstream was measured on it, though
  a short file reboots the board, and an early watchdog tells of a timeout and
  then of a value;
- `EvaluatedInTheEnd`: a bitstream of the right length is evaluated.

What is false: after a file that is too long its rest is the head of the next
one, and every later value belongs to the wrong image (`spoiled`; nothing checks
the length, `BITSTREAM_SIZE` in `UploadState.py:23` is 0 with a TODO). A flat
waveform has variance 0.0, which `Reader.read` takes for no result (`:253`): the
run thread waits until someone reboots the board (`Stuck`).

Fairness. The threads and the firmware's loop run, and the watchdog fires when
nothing more comes. `slow` bounds a watchdog that fires though the rest is coming.

Proofs (`Transfer_proofs.tla`), for any files of any lengths and any `Size`. A session
in which no file was too long is in one of four phases, which `Traced` says: what
the board has collected and what is on its way continue each other and come to
what has been written (`Follows`); the watchdog has fired and too little is left
to fill an image (`Fails`); the board has the whole image of `current` and no
value is out (`Full`); or its one value is (`Answers`). With `Linked`, the place of
the run thread, this is inductive, and `RightImage` follows from `Answers`. That
a bitstream has the right length is not assumed: a short one ends in `Fails` and a
reboot. TLC checks `IInv` on the instance of the run, and with `Size` 3 and two
early watchdogs.

## 10. Module Lifecycle

`Lifecycle.tla` is one board at one worker. `Farm` takes a flash and a test as one
step each; here they are what udev events and threads make of them.

| Variable | Code |
|---|---|
| `entry`, `made` | `DeviceManager._devs[serial]`; the `Device` objects made so far, of which older ones may still have threads |
| `obj[o].state`, `.taken` | the state of `Device._device`; the nodes it has acted on (`_bootloader_sent`, `_uploading`, `exiting`) |
| `obj[o].timer`, `.stale` | its timer: `"fired"` between `switching = True` and the lock; timers of states that `Device.switch` replaced |
| `events[o]` | nodes a `dev-event-handler` thread of the object is to handle |
| `waiting` | threads of `/reserve`, the notification and `/delete` that wait for the lock of an object |
| `deleting` | the place of `/delete` in `DeviceManager.delete`, or the scan at start; `"dead"` when an exception of the scan ends the process |
| `observer` | the pyudev thread, which ends with an exception of a constructor |
| `orphans` | objects whose constructor raised: never in `_devs`, but with a timer |
| `board` | the firmware that runs, the bootloader, or on the way to one |
| `status`, `reserved`, `call`, `notice` | the board's rows; the `/reserve` call and the notifications they cause |
| `spoiled`, `crossed` | history: something went wrong, or an event came late, in this default flash; a `/delete` met a board in use, or the end of a reservation overtook its start |

All that a thread does under the lock of a `Device` is one step; `View` is what
such a step sees, and the operators from `Become` to `StartFlash` are the
constructors and handlers that it runs through. `UploadState.start` waits for the
board with the lock held and is two steps. Each firmware shows one `tty` (a
`FlashState` acts on the first only), the bootloader a disk and a partition.
A copy that raises leaves its state as it is, and in the constructor of a `Device`
(`NewDevice`) also keeps `handleDevEvent` from entering it in `_devs`: the next event
makes another. An `UploadState` is `"half"` when its port raised and no run thread was
started, and `"hung"` when a `handleExit` waits for ever for its run thread, with the
lock of the `Device` held (section 5).
Events of one node that wait at the same time count as one. A `/reserve` call that
comes after the end of its reservation is left to `Farm`, requests to `Upload`.

The run `lifecycle` has three objects (one `/delete`, at any moment), one
reservation and one failure: an upload, a bootloader signal, a copy or a
connection that fails or raises, a timer that is early, a `/reboot`, a `handleExit`
that hangs, or the observer's end for another board. It shows:

- `RightFirmware`: a session runs on the firmware of its kind, and a board that is
  ready has the default one, whatever was late;
- `OneDriver`: after a broken board was deleted, nothing of the old object acts, and
  an orphan has nothing but its timer;
- `AvailableIsReady`: an offered board is ready, and nothing under way changes it,
  but for the timer of an orphan;
- `StatusSettles` and `HealthyIsReady`: no board is left in the middle, and a
  board that works comes back, unless the process is dead, a `handleExit` hangs or
  nobody hears udev events.

What is false of the code. A `/delete` of a board that is flashed, tested or in
use (`crossed`) leaves the old object with timers and threads, which mark the
board broken or flash it again under the new object; on a reserved board it
makes the board available with the row of the reservation still there, and the
next `make_reservations` fails on its primary key. The timer of an orphan marks the
board as broken 60 s after its constructor raised, also when a second `Device` has
made it available meanwhile. When the notification of an end has written
`flashing_default` (`Device.py:45`) and then waits for the lock of a `Device` that
hangs, that status stays. `handleExit` ends the threads
of an `UploadState` only. `TestState` acts on the first event only
(`TestState.py:23`), so a late event of the bootloader's disk spoils the test,
and a late partition event breaks a flash (`spoiled`): both end at the timer or
in `BrokenState`, never in a board that is wrongly offered. A board that the
scan finds in the bootloader ends broken once: the constructor of its `Device`
has flashed it before the events of its disk and partition are handled, and the
first of these spoils the test. The flash of a reservation's firmware has no
timer, so one failed copy leaves it there until the reservation ends;
`StatusSettles` does not include `reserved` for that reason.

Bounds. Three objects are an old and a new one, which is all a property of two
drivers needs, and an orphan before either; one reservation is a session, its end and the reset after it; with
one failure every step may fail once, at any place.

Fairness. One condition for all that happens by itself (`Progress`): it is bounded,
so nothing in it can keep the rest waiting for ever. Timers fire only when nothing
else is left to happen, or as a failure: 30 and 60 seconds are longer than the
steps they watch. The timer of an orphan may fire at any moment. That a thread gets
the lock is assumed of a `Device` that is not `"hung"` only. Clients, operators and `/reboot` need not do anything.

Proofs (`Lifecycle_proofs.tla`), for any number of objects, reservations and failures.
`IInv` has what is true in any case, that `/delete` makes room for an object
before it removes the old one (`Roomy`), and what is true until a `/delete` meets a
board in use (`crossed`): only the object in `_devs` has a state that acts, a
timer or a thread, but for the orphans (`Driven`), which have no events and no
threads (`Orphaned`); a state has its firmware (`Programmed`); a
reservation is held, ended and to be notified, or notified, and one of these only
(`Exclusive`); and what status and state say of each other (`Paced`). `OneDriver`
is about the old objects and needs `Driven`; `RightFirmware` needs that no session
begins on a board in the middle of a flash, `AvailableIsReady` that no `/reserve` or
notification is left when the board is offered: both are `Exclusive` and `Paced`.
The constructors and handlers are operators on a `View`, so one lemma for each
says what it reaches, and those about steps cite it. TLC checks `IInv` on the run's
instance, and with two reservations.

## 11. Disagreements between the code and its documents

Two are runs that are expected to find a violation, with the quoted lines in
`PROJECT.json`:

- `upload_exit`: a failing board and the end of its reservation deadlock in
  `handleExit` and `reboot`.
- `batch_hidden`: `MappedQueues` stops at its first empty list (`utils/utils.py:198`),
  where its docstring says that it skips them (`:161-163`): with sets of serials
  whose queues do not run empty from the last to the first, evaluations are never
  sent, and `Complete` fails.

Met while modelling, and modelled as the code is, without a run of their own:

- `has_reservations` (`V1.3__ReservationProc.sql:124`) counts the reservations of
  all workers, and only the end of one of a worker's own wakes its shutdown
  thread (`WorkerDatabase.py:71`): a graceful shutdown may wait for ever.
- `remove_worker` names columns that do not exist, so the worker's row outlives a
  graceful shutdown (`WorkerDatabase.py:75`, `MonitorExits`).
- A reservation cleared before the worker LISTENs is never reset (`Control.py:83`,
  the fault `startup`).
- The sender sets `bundle.empty` when it asks for the batch after the last one
  (`BatchClient.py:82`). If the last result is yielded before, or there was nothing
  to evaluate, `getResults` waits for another result (`:164`) and never returns.
  `Batch` has the behaviour, and no property says that the iteration ends.
- `sendSerialJson` returns `True` for an event that `sendSerial` did not send
  (`EventSender.py:193`).
- Those of sections 4, 5, 6, 8, 9 and 10.

## 12. What is not modelled

- The web panel, configuration, logging, builds and images have no state of
  interest to a property; examples and tests only use the library.
- The queries that only read, and `extend_reservations` between the statements of
  other procedures: one statement that changes `until` alone.
- A database that cannot be reached, the pings of the heartbeat, and the notice
  that a reservation ends soon.
- Requests for several boards at once, whose threads share a loop variable
  (`worker/app.py:108`); `sendAllJson`; the client that `sendSerial` finds when a
  reservation ends and begins between the event and its lookup.
- Flashing of the FPGA, counting of pulses and sampling.

What a model leaves out of the code it covers is said with the module; hazards
without a property are listed with the reason in `PROJECT.json`.

TLC alone checks liveness, which TLAPS does not prove under fairness:
`BoardIsRecycled`, `ResultsDelivered`, `Delivered`, `Answered`, `ReserveReturns`,
`WaiterWakes`, `EvaluatedInTheEnd`, `StatusSettles`, `HealthyIsReady`, and the
violation of `HandleExitReturns`. `Complete` is proved under a condition (section
7), and no other theorem has one. That modules agree
on what they share (section 2) is not formal, but for `Upload` and `UploadService`.
