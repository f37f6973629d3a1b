-------------------------------- MODULE Upload --------------------------------
(***************************************************************************)
(* One client's session on one board: UploadState with its Reader, its     *)
(* queue of bitstreams and its run thread, the lock of the board's Device,  *)
(* and the threads that take this lock: websocket requests, /reboot, udev   *)
(* events during a flash, and the unreserve that ends the session.         *)
(*                                                                         *)
(* A thread that leaves an UploadState joins its run thread while it holds  *)
(* the device's lock; a run thread that fails asks for that same lock.      *)
(***************************************************************************)
EXTENDS Naturals, Sequences

CONSTANTS
    Bitstreams,   \* the evaluations a client sends, one file each
    FlushAt,      \* flush_at_bitstreams_remaining
    Interval,     \* whether flush_interval_seconds is set
    Events,       \* what may happen to the session in a run, see EventKinds
    MaxFailures,  \* bound: failures of the board
    MaxReboots,   \* bound: /reboot calls
    None

(***************************************************************************)
(* "watchdog": the firmware reports a timeout of the transfer;  "unplug":   *)
(* the serial port raises;  "zero": the parser's result is falsy, as is the *)
(* variance 0.0 of a flat waveform;  "reboot": /reboot is called;  "end":   *)
(* the reservation ends.                                                    *)
(***************************************************************************)
EventKinds == {"watchdog", "unplug", "zero", "reboot", "end"}

ASSUME NoneAssumption == None \notin Bitstreams \cup {"reboot", "end"}
ASSUME EventsAssumption == Events \subseteq EventKinds
ASSUME FlushAtAssumption == FlushAt \in Nat
ASSUME IntervalAssumption == Interval \in BOOLEAN
ASSUME BoundsAssumption == MaxFailures \in Nat /\ MaxReboots \in Nat

VARIABLES
    state,      \* the kind of the Device's current state
    lock,       \* holder of the Device's lock between two steps
    (* the current UploadState *)
    queue,      \* bitstream_queue
    shut,       \* its shutting_down
    current,    \* current_bitstream
    results,    \* bitstreams whose result has not been flushed
    run,        \* where the run thread is
    popped,     \* popped by the run thread, not yet assigned to current_bitstream
    (* its Reader, and the board *)
    ready, last, board,
    (* the other threads *)
    reboot,     \* where the /reboot thread is
    ending,     \* where the unreserve is
    carry,      \* list kept by a reboot, and by the FlashState it switches to
    (* the outside *)
    files,      \* bitstreams whose file exists
    unsent, dropped, delivered,
    failures, reboots

session == <<queue, shut, current, results, run, popped>>
reader == <<ready, last, board>>
outside == <<files, unsent, dropped, delivered>>
counters == <<failures, reboots>>
vars == <<state, lock, session, reader, reboot, ending, carry, outside, counters>>

Elems(s) == {s[i] : i \in 1..Len(s)}

-----------------------------------------------------------------------------
(* Requests.                                                               *)

\* A request's thread runs UploadState.queue under the device's lock.  A state
\* without that method ignores the request; a queue that was shut down raises.
Evaluate(b) ==
    /\ b \in unsent
    /\ lock = None
    /\ unsent' = unsent \ {b}
    /\ IF state = "upload" /\ ~shut
       THEN /\ queue' = Append(queue, b)
            /\ files' = files \cup {b}
            /\ UNCHANGED dropped
       ELSE /\ dropped' = dropped \cup {b}
            /\ UNCHANGED <<queue, files>>
    /\ UNCHANGED <<state, lock, shut, current, results, run, popped, reader,
                   reboot, ending, carry, delivered, counters>>

-----------------------------------------------------------------------------
(* The run thread.                                                         *)

RunUnchanged == UNCHANGED <<state, lock, reboot, ending, carry, unsent, dropped,
                            counters>>

\* Queue.pop
RunPops ==
    /\ run = "pop"
    /\ IF shut
       THEN /\ run' = "none"
            /\ UNCHANGED <<queue, popped>>
       ELSE /\ queue # <<>>
            /\ popped' = Head(queue)
            /\ queue' = Tail(queue)
            /\ run' = "took"
    /\ RunUnchanged
    /\ UNCHANGED <<shut, current, results, reader, files, delivered>>

RunTakes ==
    /\ run = "took"
    /\ current' = popped
    /\ popped' = None
    /\ run' = "write"
    /\ RunUnchanged
    /\ UNCHANGED <<queue, shut, results, reader, files, delivered>>

\* _writeBitstream: open the file, wait until the board is ready, write.
RunWrites ==
    /\ run = "write"
    /\ \/ /\ current \notin files
          /\ run' = "fail"
          /\ UNCHANGED reader
       \/ /\ current \in files
          /\ ready
          /\ ready' = FALSE
          /\ run' = IF board = "gone" THEN "fail" ELSE "result"
          /\ board' = IF board = "gone" THEN "gone" ELSE "busy"
          /\ UNCHANGED last
    /\ RunUnchanged
    /\ UNCHANGED <<queue, shut, current, results, popped, files, delivered>>

\* Reader.waitUntilPulse
RunGetsResult ==
    /\ run = "result"
    /\ last # "none"
    /\ run' = IF last = "failed" THEN "fail" ELSE "store"
    /\ last' = IF last = "failed" THEN last ELSE "none"
    /\ RunUnchanged
    /\ UNCHANGED <<queue, shut, current, results, popped, ready, board, files,
                   delivered>>

\* The result is kept and the file removed ...
RunStores ==
    /\ run = "store"
    /\ results' = results \cup {current}
    /\ files' = files \ {current}
    /\ run' = "clear"
    /\ RunUnchanged
    /\ UNCHANGED <<queue, shut, current, popped, reader, delivered>>

\* ... before current_bitstream is reset.
RunClears ==
    /\ run = "clear"
    /\ current' = None
    /\ run' = "flush"
    /\ RunUnchanged
    /\ UNCHANGED <<queue, shut, results, popped, reader, files, delivered>>

\* Mutant: results are only flushed at flush_at_bitstreams_remaining.
RunFlushesAtOnly ==
    /\ run = "flush"
    /\ run' = "pop"
    /\ IF ~shut /\ Len(queue) = FlushAt
       THEN /\ delivered' = delivered \cup results
            /\ results' = {}
       ELSE UNCHANGED <<delivered, results>>
    /\ RunUnchanged
    /\ UNCHANGED <<queue, shut, current, popped, reader, files>>

\* _flush: a queue that was shut down raises, and nothing is sent.
RunFlushes ==
    /\ run = "flush"
    /\ run' = "pop"
    /\ \/ /\ ~shut
          /\ queue = <<>> \/ Len(queue) = FlushAt \/ Interval
          /\ delivered' = delivered \cup results
          /\ results' = {}
       \/ /\ shut \/ (queue # <<>> /\ Len(queue) # FlushAt)
          /\ UNCHANGED <<delivered, results>>
    /\ RunUnchanged
    /\ UNCHANGED <<queue, shut, current, popped, reader, files>>

\* The run thread reboots its own state: the queue is shut down ...
RunShutsDown ==
    /\ run = "fail"
    /\ run' = "keep"
    /\ carry' = [carry EXCEPT !["run"] = queue]
    /\ queue' = <<>>
    /\ shut' = TRUE
    /\ UNCHANGED <<state, lock, current, results, popped, reader, reboot, ending,
                   outside, counters>>

\* Mutant: the bitstream that failed is left behind.
RunForgets ==
    /\ run = "keep"
    /\ run' = "lock"
    /\ UNCHANGED <<state, lock, queue, shut, current, results, popped, reader, reboot,
                   ending, carry, outside, counters>>

\* ... and the current bitstream kept; handleExit does not join the thread itself.
RunKeeps ==
    /\ run = "keep"
    /\ run' = "lock"
    /\ carry' = IF current = None THEN carry
                ELSE [carry EXCEPT !["run"] = Append(@, current)]
    /\ UNCHANGED <<state, lock, queue, shut, current, results, popped, reader,
                   reboot, ending, outside, counters>>

SwitchToFlash(t) ==
    /\ state' = "flash"
    /\ carry' = [carry EXCEPT !["flash"] = carry[t], ![t] = <<>>]
    /\ current' = None

\* Device.switch, called by the run thread, waits for the lock.
RunSwitches ==
    /\ run = "lock"
    /\ lock = None
    /\ SwitchToFlash("run")
    /\ run' = "none"
    /\ UNCHANGED <<lock, queue, shut, results, popped, reader, reboot, ending,
                   outside, counters>>

-----------------------------------------------------------------------------
(* The board, as its Reader sees it.                                       *)

BoardUnchanged == UNCHANGED <<state, lock, session, reboot, ending, carry, outside,
                              reboots>>

\* A result is printed; one that the parser makes falsy is not noticed.
BoardAnswers ==
    /\ state = "upload"
    /\ board = "busy"
    /\ board' = "printed"
    /\ \/ last' = "value"
       \/ "zero" \in Events /\ UNCHANGED last
    /\ UNCHANGED <<ready, failures>>
    /\ BoardUnchanged

BoardTimesOut ==
    /\ state = "upload"
    /\ "watchdog" \in Events
    /\ failures < MaxFailures
    /\ board = "busy"
    /\ board' = "printed"
    /\ last' = "failed"
    /\ failures' = failures + 1
    /\ UNCHANGED ready
    /\ BoardUnchanged

\* "Waiting for bitstream transfer"
BoardWaits ==
    /\ state = "upload"
    /\ board = "printed"
    /\ board' = "idle"
    /\ ready' = TRUE
    /\ UNCHANGED <<last, failures>>
    /\ BoardUnchanged

\* The reader thread's read raises: it ends, and says so in last_result only.
BoardGoes ==
    /\ state = "upload"
    /\ "unplug" \in Events
    /\ failures < MaxFailures
    /\ board # "gone"
    /\ board' = "gone"
    /\ last' = "failed"
    /\ failures' = failures + 1
    /\ UNCHANGED ready
    /\ BoardUnchanged

-----------------------------------------------------------------------------
(* /reboot.                                                                *)

\* Device.reboot takes the lock; UploadState.reboot shuts the queue down ...
RebootStarts ==
    /\ "reboot" \in Events
    /\ reboots < MaxReboots
    /\ reboot = "no"
    /\ state = "upload"
    /\ lock = None
    /\ lock' = "reboot"
    /\ reboots' = reboots + 1
    /\ reboot' = "keep"
    /\ carry' = [carry EXCEPT !["reboot"] = queue]
    /\ queue' = <<>>
    /\ shut' = TRUE
    /\ UNCHANGED <<state, current, results, run, popped, reader, ending, outside,
                   failures>>

\* Mutant: current_bitstream is kept without looking whether there is one.
RebootKeepsAny ==
    /\ reboot = "keep"
    /\ reboot' = "join"
    /\ carry' = [carry EXCEPT !["reboot"] = Append(@, current)]
    /\ UNCHANGED <<state, lock, session, reader, ending, outside, counters>>

\* ... keeps the bitstream under evaluation, whose result may be stored already ...
RebootKeeps ==
    /\ reboot = "keep"
    /\ reboot' = "join"
    /\ carry' = IF current = None THEN carry
                ELSE [carry EXCEPT !["reboot"] = Append(@, current)]
    /\ UNCHANGED <<state, lock, session, reader, ending, outside, counters>>

\* Mutant: the run thread is not joined.
RebootSwitchesAtOnce ==
    /\ reboot = "join"
    /\ SwitchToFlash("reboot")
    /\ reboot' = "no"
    /\ lock' = None
    /\ UNCHANGED <<queue, shut, results, run, popped, reader, ending, outside,
                   counters>>

\* ... joins the run thread in handleExit and switches to a FlashState.
RebootSwitches ==
    /\ reboot = "join"
    /\ run = "none"
    /\ SwitchToFlash("reboot")
    /\ reboot' = "no"
    /\ lock' = None
    /\ UNCHANGED <<queue, shut, results, run, popped, reader, ending, outside,
                   counters>>

\* Mutant: the new state starts with an empty queue.
FlashForgets ==
    /\ state = "flash"
    /\ lock = None
    /\ state' = "upload"
    /\ queue' = <<>>
    /\ carry' = [carry EXCEPT !["flash"] = <<>>]
    /\ shut' = FALSE
    /\ run' = "pop"
    /\ ready' = TRUE /\ last' = "none" /\ board' = "idle"
    /\ UNCHANGED <<lock, current, results, popped, reboot, ending, outside, counters>>

\* The FlashState is done: transfer_bitstreams makes a new UploadState with the
\* old results and the kept bitstreams, and start() starts its threads.
FlashDone ==
    /\ state = "flash"
    /\ lock = None
    /\ state' = "upload"
    /\ queue' = carry["flash"]
    /\ carry' = [carry EXCEPT !["flash"] = <<>>]
    /\ shut' = FALSE
    /\ run' = "pop"
    /\ ready' = TRUE /\ last' = "none" /\ board' = "idle"
    /\ UNCHANGED <<lock, current, results, popped, reboot, ending, outside, counters>>

\* The flash fails, or the serial port does not come back.
FlashFails ==
    /\ state = "flash"
    /\ lock = None
    /\ state' = "broken"
    /\ carry' = [carry EXCEPT !["flash"] = <<>>]
    /\ UNCHANGED <<lock, session, reader, reboot, ending, outside, counters>>

\* The flash neither ends nor fails, and a session's FlashState has no timer: the copy
\* raises, or the command to restart fails, which handleAdd does not look at.
FlashStalls ==
    /\ state = "flash"
    /\ lock = None
    /\ state' = "stalled"
    /\ UNCHANGED <<lock, session, reader, reboot, ending, carry, outside, counters>>

\* serial.Serial raises in start(): the new UploadState is the Device's state, with the
\* old results and the kept bitstreams, and has no run thread.
HalfStarts ==
    /\ state = "flash"
    /\ lock = None
    /\ state' = "upload"
    /\ queue' = carry["flash"]
    /\ carry' = [carry EXCEPT !["flash"] = <<>>]
    /\ shut' = FALSE
    /\ UNCHANGED <<lock, current, results, run, popped, reader, reboot, ending, outside,
                   counters>>

-----------------------------------------------------------------------------
(* The reservation ends: Device.handleUnreserve switches to the default     *)
(* firmware, and handleExit of an UploadState joins its run thread.         *)

EndStarts ==
    /\ "end" \in Events
    /\ ending = "no"
    /\ lock = None
    /\ ending' = "join"
    /\ lock' = "end"
    /\ IF state = "upload"
       THEN queue' = <<>> /\ shut' = TRUE
       ELSE UNCHANGED <<queue, shut>>
    /\ UNCHANGED <<state, current, results, run, popped, reader, reboot, carry,
                   outside, counters>>

EndSwitches ==
    /\ ending = "join"
    /\ run = "none"
    /\ ending' = "done"
    /\ lock' = None
    /\ state' = "default"
    /\ UNCHANGED <<session, reader, reboot, carry, outside, counters>>

-----------------------------------------------------------------------------
Init ==
    /\ state = "upload" /\ lock = None
    /\ queue = <<>> /\ shut = FALSE /\ current = None /\ results = {}
    /\ run = "pop" /\ popped = None
    /\ ready = TRUE /\ last = "none" /\ board = "idle"
    /\ reboot = "no" /\ ending = "no"
    /\ carry = [t \in {"run", "reboot", "flash"} |-> <<>>]
    /\ files = {} /\ unsent = Bitstreams /\ dropped = {} /\ delivered = {}
    /\ failures = 0 /\ reboots = 0

RunStep ==
    \/ RunPops \/ RunTakes \/ RunWrites \/ RunGetsResult \/ RunStores \/ RunClears
    \/ RunFlushes \/ RunShutsDown \/ RunKeeps \/ RunSwitches

BoardStep == BoardAnswers \/ BoardTimesOut \/ BoardWaits \/ BoardGoes

FlashStep == FlashDone \/ FlashFails \/ FlashStalls \/ HalfStarts

SwitchStep == RebootKeeps \/ RebootSwitches \/ EndSwitches

Next ==
    \/ \E b \in Bitstreams : Evaluate(b)
    \/ RunStep \/ BoardStep \/ FlashStep \/ SwitchStep
    \/ RebootStarts \/ EndStarts

Spec == Init /\ [][Next]_vars

(* Fairness: threads run, and the firmware answers or times out.  Nothing makes a    *)
(* flash end: FlashStep has an outcome of its own for one that stays as it is.        *)
Fairness ==
    /\ WF_vars(RunStep)
    /\ WF_vars(BoardAnswers \/ BoardTimesOut) /\ WF_vars(BoardWaits)
    /\ WF_vars(FlashStep) /\ WF_vars(SwitchStep)

FairSpec == Spec /\ Fairness

-----------------------------------------------------------------------------
(* Properties.                                                             *)

Threads == {"run", "reboot", "flash"}

RunPlaces == {"none", "pop", "took", "write", "result", "store", "clear", "flush",
              "fail", "keep", "lock"}

\* Type invariant.
TypeOK ==
    /\ state \in {"upload", "flash", "stalled", "default", "broken"}
    /\ lock \in {None, "reboot", "end"}
    /\ queue \in Seq(Bitstreams) /\ shut \in BOOLEAN
    /\ current \in Bitstreams \cup {None} /\ popped \in Bitstreams \cup {None}
    /\ results \in SUBSET Bitstreams
    /\ run \in RunPlaces
    /\ ready \in BOOLEAN /\ last \in {"none", "value", "failed"}
    /\ board \in {"idle", "busy", "printed", "gone"}
    /\ reboot \in {"no", "keep", "join"} /\ ending \in {"no", "join", "done"}
    /\ carry \in [Threads -> Seq(Bitstreams)]
    /\ files \in SUBSET Bitstreams /\ unsent \in SUBSET Bitstreams
    /\ dropped \in SUBSET Bitstreams /\ delivered \in SUBSET Bitstreams
    /\ failures \in 0..MaxFailures /\ reboots \in 0..MaxReboots

\* The session lasts: its results are of use to the client.
Open == ending = "no" /\ state \in {"upload", "flash", "stalled"}

\* Bitstreams queued, under evaluation, or on their way through a reboot.
Waiting ==
    Elems(queue) \cup Elems(carry["run"]) \cup Elems(carry["reboot"])
        \cup Elems(carry["flash"]) \cup ({current, popped} \ {None})

\* While the session lasts, a bitstream that was accepted is waiting, with its file, or
\* its result is known, through every interleaving of the run thread, its own
\* reboots and those asked for.
NothingLost ==
    Open => Bitstreams \subseteq unsent \cup dropped \cup (Waiting \cap files)
                                   \cup results \cup delivered

\* One state exists at a time: when another state has replaced an UploadState,
\* its run thread has ended.
OneState == state # "upload" => run = "none"

\* Liveness: the handleExit of an unreserve returns, so that the board is freed.
HandleExitReturns == (ending = "join") ~> (ending = "done")

\* The ways a session may hang: its flash stays as it is; the UploadState that follows a
\* flash has no run thread; a bitstream waits whose file was removed, so that the run
\* thread reboots again and again; the run thread asks for the lock of a thread that joins
\* it; the Reader has taken a result for none; it has ended before the board was ready
\* again, which no one tells the run thread; a /reboot came between a result and its flush,
\* and the next flush waits for another bitstream.
Stuck ==
    \/ state = "stalled"
    \/ state = "upload" /\ run = "none" /\ ~shut
    \/ ~(Elems(queue) \cup Elems(carry["flash"]) \subseteq files)
    \/ run = "lock" /\ lock # None
    \/ run = "result" /\ board \in {"printed", "idle"} /\ last = "none"
    \/ run = "write" /\ board = "gone" /\ ~ready
    \/ run = "pop" /\ queue = <<>> /\ results # {} /\ reboots > 0

\* Liveness: the result of a bitstream that was accepted is sent while the session lasts,
\* unless the session hangs in one of the ways of Stuck.
ResultsDelivered ==
    \A b \in Bitstreams :
        (b \notin unsent \cup dropped) ~> (b \in delivered \/ ~Open \/ Stuck)

-----------------------------------------------------------------------------
(* What the session promises its client.                                   *)

Phase(b) ==
    IF ~Open THEN "closed"
    ELSE IF b \in unsent THEN "unsent"
    ELSE IF b \in dropped THEN "refused"
    ELSE IF b \in delivered \cap results THEN "again"
    ELSE IF b \in delivered THEN "delivered"
    ELSE IF b \in results THEN "evaluated"
    ELSE IF b \in Waiting \cap files THEN "accepted"
    ELSE "lost"

Service == INSTANCE UploadService WITH
              phase <- [b \in Bitstreams |-> Phase(b)], open <- Open

\* Every step of the session is a step of the service it promises.
ServiceSpec == Service!Spec
===============================================================================
