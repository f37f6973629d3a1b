------------------------------ MODULE Transfer ------------------------------
(***************************************************************************)
(* One board in an UploadState, byte by byte: the run thread writes         *)
(* bitstreams to the serial port, the firmware collects as many bytes as a   *)
(* bitstream has, whoever sent them, flashes the FPGA and prints a value,    *)
(* and the Reader tells the run thread.  Nothing on the wire says where a    *)
(* bitstream begins, or to which one a value belongs.                       *)
(*                                                                         *)
(* A unit stands for a part of a bitstream; a file has the length that the  *)
(* client gave it.                                                         *)
(***************************************************************************)
EXTENDS Naturals, Sequences

CONSTANTS
    Files,
    Length,      \* the units of each file
    Size,        \* bitstreamSizeLengthBytes, in units
    Flat,        \* files whose circuit has no variance
    MaxSlow,     \* bound: times that the watchdog fires though the rest is coming
    None

ASSUME LengthAssumption == Length \in [Files -> Nat \ {0}] /\ Size \in Nat \ {0}
ASSUME FlatAssumption == Flat \subseteq Files
ASSUME SlowAssumption == MaxSlow \in Nat
ASSUME NoneAssumption == None \notin Files

VARIABLES
    (* the run thread *)
    queue, current,
    run,         \* where it is
    written,     \* units of current that are written
    (* the Reader *)
    ready, last_result,
    (* the serial port *)
    port,        \* "closed", "open", or "touched" by send_bootloader
    rx, tx,      \* units on their way to the board, lines on their way to the Reader
    (* the board *)
    firmware, currentState, previousState,
    image,       \* the bytes received so far
    (* the client, and what is counted *)
    unsent, results, slow,
    spoiled      \* history: a file that is too long was written since the last flash

thread == <<queue, current, run, written>>
reader == <<ready, last_result>>
wire == <<port, rx, tx>>
board == <<firmware, currentState, previousState, image>>
client == <<unsent, results, slow, spoiled>>
vars == <<thread, reader, wire, board, client>>

Bits(f) == [i \in 1..Length[f] |-> <<f, i>>]
Line(k, i) == [kind |-> k, image |-> i]

Connected == port # "closed"
InSession == port = "open"

\* A line is lost when the worker does not listen.
Prints(line) == tx' = IF InSession THEN Append(tx, line) ELSE tx

\* What the parser makes of a value; the variance of a flat waveform is 0.0, which is
\* taken for no result.  A count of pulses is a string.
Falsy(i) == firmware = "variance" /\ Len(i) = Size /\ i[1][1] \in Flat

-----------------------------------------------------------------------------
(* The worker.                                                             *)

\* What arrives while the board reboots is a matter of module Upload.
Evaluate(f) ==
    /\ f \in unsent /\ InSession
    /\ unsent' = unsent \ {f}
    /\ queue' = Append(queue, f)
    /\ UNCHANGED <<current, run, written, reader, wire, board, results, slow, spoiled>>

Pop ==
    /\ run = "pop" /\ queue # <<>>
    /\ current' = Head(queue) /\ queue' = Tail(queue)
    /\ run' = "ready"
    /\ UNCHANGED <<written, reader, wire, board, client>>

WaitUntilReady ==
    /\ run = "ready" /\ ready
    /\ ready' = FALSE
    /\ run' = "write" /\ written' = 0
    /\ UNCHANGED <<queue, current, last_result, wire, board, client>>

Write ==
    /\ run = "write"
    /\ written' = written + 1
    /\ rx' = Append(rx, Bits(current)[written + 1])
    /\ run' = IF written + 1 = Length[current] THEN "pulse" ELSE "write"
    /\ spoiled' = (spoiled \/ written + 1 > Size)
    /\ UNCHANGED <<queue, current, reader, port, tx, board, unsent, results, slow>>

\* The session ends: the bitstream goes back, the port is closed.
Reboots(q) ==
    /\ queue' = q
    /\ current' = None /\ run' = "reboot"
    /\ port' = "closed" /\ tx' = <<>>
    /\ UNCHANGED <<written, reader, rx, results>>

Takes(last) ==
    /\ results' = results \cup {<<current, last_result.image>>}
    /\ last_result' = last
    /\ current' = None /\ run' = "pop"
    /\ UNCHANGED <<queue, written, ready, wire>>

\* Mutant: the last result is not forgotten.
PulseKeeps ==
    /\ run = "pulse" /\ last_result # None
    /\ IF last_result.kind = "watchdog" THEN Reboots(Append(queue, current)) ELSE Takes(last_result)
    /\ UNCHANGED <<board, unsent, slow, spoiled>>

\* Mutant: the bitstream that failed is the next one again.
PulseRetries ==
    /\ run = "pulse" /\ last_result # None
    /\ IF last_result.kind = "watchdog" THEN Reboots(<<current>> \o queue) ELSE Takes(None)
    /\ UNCHANGED <<board, unsent, slow, spoiled>>

WaitUntilPulse ==
    /\ run = "pulse" /\ last_result # None
    /\ IF last_result.kind = "watchdog" THEN Reboots(Append(queue, current)) ELSE Takes(None)
    /\ UNCHANGED <<board, unsent, slow, spoiled>>

\* send_bootloader opens the port for a moment.
SendBootloader ==
    /\ run = "reboot" /\ port = "closed"
    /\ port' = "touched"
    /\ UNCHANGED <<thread, reader, rx, tx, board, client>>

\* The firmware starts from scratch, and with it the next UploadState.
Flashed ==
    /\ run = "reboot" /\ port = "touched"
    /\ port' = "open" /\ rx' = <<>> /\ tx' = <<>>
    /\ currentState' = "WAIT_FOR_USB_CONNECTION" /\ previousState' = "INIT" /\ image' = <<>>
    /\ ready' = TRUE /\ last_result' = None
    /\ run' = "pop" /\ spoiled' = FALSE
    /\ UNCHANGED <<queue, current, written, firmware, unsent, results, slow>>

\* Reader.read
Read ==
    /\ InSession /\ tx # <<>>
    /\ tx' = Tail(tx)
    /\ LET line == Head(tx)
       IN /\ ready' = (ready \/ line.kind = "waiting")
          /\ last_result' =
                IF line.kind = "watchdog" \/ (line.kind = "value" /\ ~Falsy(line.image))
                THEN line ELSE last_result
    /\ UNCHANGED <<thread, port, rx, board, client>>

-----------------------------------------------------------------------------
(* The firmware, one action for every case of its loop.                    *)

Goes(from, to) == currentState = from /\ currentState' = to /\ previousState' = from

\* The outer loop.
Connect ==
    /\ currentState = "WAIT_FOR_USB_CONNECTION" /\ Connected
    /\ currentState' = "USB_CONNECTED"
    /\ UNCHANGED <<thread, reader, wire, firmware, previousState, image, client>>

UsbConnected ==
    /\ currentState = "USB_CONNECTED"
    /\ currentState' = "WAIT_FOR_BITSTREAM_TRANSFER"
    /\ previousState' = IF previousState = "INIT" THEN "INIT" ELSE "USB_CONNECTED"
    /\ UNCHANGED <<thread, reader, wire, firmware, image, client>>

UsbDisconnected ==
    /\ Goes("USB_DISCONNECTED", IF Connected THEN "USB_CONNECTED" ELSE "USB_DISCONNECTED")
    /\ UNCHANGED <<thread, reader, wire, firmware, image, client>>

WaitForBitstreamTransfer ==
    /\ Goes("WAIT_FOR_BITSTREAM_TRANSFER",
            CASE ~Connected -> "USB_DISCONNECTED"
              [] Connected /\ rx # <<>> -> "TRANSFER_BITSTREAM"
              [] OTHER -> "WAIT_FOR_BITSTREAM_TRANSFER")
    /\ IF previousState # currentState THEN Prints(Line("waiting", <<>>)) ELSE UNCHANGED tx
    /\ UNCHANGED <<thread, reader, port, rx, firmware, image, client>>

TransferDisconnected ==
    /\ ~Connected
    /\ Goes("TRANSFER_BITSTREAM", "USB_DISCONNECTED")
    /\ image' = <<>>
    /\ UNCHANGED <<thread, reader, wire, firmware, client>>

Received == IF previousState = "TRANSFER_BITSTREAM" THEN image ELSE <<>>

\* The watchdog does not stop the iteration it fires in, which goes on to read.
Receive(expired, n) ==
    /\ Connected /\ (expired => previousState = "TRANSFER_BITSTREAM")
    /\ image' = Received \o SubSeq(rx, 1, n)
    /\ rx' = SubSeq(rx, n + 1, Len(rx))
    /\ Goes("TRANSFER_BITSTREAM",
            CASE Len(image') >= Size -> "FLASH_FPGA"
              [] Len(image') < Size /\ expired -> "WAIT_FOR_BITSTREAM_TRANSFER"
              [] OTHER -> "TRANSFER_BITSTREAM")
    /\ IF expired THEN Prints(Line("watchdog", <<>>)) ELSE UNCHANGED tx
    /\ slow' = IF expired /\ (run = "write" \/ Len(image') >= Size) THEN slow + 1 ELSE slow
    /\ slow' <= MaxSlow
    /\ UNCHANGED <<thread, reader, port, firmware, unsent, results, spoiled>>

\* Mutant: everything that is there is read.
TransferUnclipped(expired) == Receive(expired, Len(rx))

TransferBitstream(expired) ==
    Receive(expired, IF Len(Received) + Len(rx) > Size THEN Size - Len(Received) ELSE Len(rx))

FlashFpga ==
    /\ IF firmware = "pulse_count"
       THEN Goes("FLASH_FPGA", "IDLE") /\ Prints(Line("value", image))
       ELSE Goes("FLASH_FPGA", "SAMPLE_ADC") /\ UNCHANGED tx
    /\ UNCHANGED <<thread, reader, port, rx, firmware, image, client>>

SampleAdc ==
    /\ Goes("SAMPLE_ADC", "IDLE")
    /\ Prints(Line("value", image))
    /\ UNCHANGED <<thread, reader, port, rx, firmware, image, client>>

Rest ==
    /\ Goes("IDLE", "WAIT_FOR_USB_CONNECTION")
    /\ UNCHANGED <<thread, reader, wire, firmware, image, client>>

-----------------------------------------------------------------------------
Init ==
    /\ queue = <<>> /\ current = None /\ run = "pop" /\ written = 0
    /\ ready = TRUE /\ last_result = None
    /\ port = "open" /\ rx = <<>> /\ tx = <<>>
    /\ firmware \in {"pulse_count", "variance"}
    /\ currentState = "WAIT_FOR_USB_CONNECTION" /\ previousState = "INIT" /\ image = <<>>
    /\ unsent = Files /\ results = {} /\ slow = 0 /\ spoiled = FALSE

Worker == Pop \/ WaitUntilReady \/ Write \/ WaitUntilPulse \/ SendBootloader \/ Flashed

Board ==
    \/ Connect \/ UsbConnected \/ UsbDisconnected \/ WaitForBitstreamTransfer
    \/ TransferDisconnected \/ TransferBitstream(FALSE) \/ FlashFpga \/ SampleAdc \/ Rest

Next ==
    \/ \E f \in Files : Evaluate(f)
    \/ Worker \/ Read \/ Board \/ TransferBitstream(TRUE)

Spec == Init /\ [][Next]_vars

(***************************************************************************)
(* Fairness: the threads of the worker and the loop of the board run, and   *)
(* the watchdog fires when nothing more comes.                             *)
(***************************************************************************)
FairSpec ==
    /\ Spec
    /\ WF_vars(Worker) /\ WF_vars(Read) /\ WF_vars(Board) /\ WF_vars(TransferBitstream(TRUE))

-----------------------------------------------------------------------------
(* Properties.                                                             *)

Places == {"pop", "ready", "write", "pulse", "reboot"}
States == {"WAIT_FOR_USB_CONNECTION", "USB_CONNECTED", "USB_DISCONNECTED",
           "WAIT_FOR_BITSTREAM_TRANSFER", "TRANSFER_BITSTREAM", "FLASH_FPGA", "SAMPLE_ADC",
           "IDLE"}
Units == Files \X Nat

\* Type invariant; the board never writes past the end of its buffer.
TypeOK ==
    /\ queue \in Seq(Files) /\ current \in Files \cup {None}
    /\ run \in Places /\ written \in Nat
    /\ ready \in BOOLEAN
    /\ last_result \in [kind : {"watchdog", "value"}, image : Seq(Units)] \cup {None}
    /\ port \in {"closed", "open", "touched"}
    /\ rx \in Seq(Units)
    /\ tx \in Seq([kind : {"waiting", "watchdog", "value"}, image : Seq(Units)])
    /\ firmware \in {"pulse_count", "variance"}
    /\ currentState \in States /\ previousState \in States \cup {"INIT"}
    /\ image \in Seq(Units) /\ Len(image) <= Size
    /\ unsent \subseteq Files /\ results \subseteq Files \X Seq(Units)
    /\ slow \in 0..MaxSlow /\ spoiled \in BOOLEAN

\* A value that is taken for a bitstream was measured on exactly this bitstream, though
\* nothing on the wire relates them, unless a file that is too long was written since the
\* firmware was flashed.
RightImage ==
    [][\A f \in Files : \A i \in {r[2] : r \in results'} :
          (<<f, i>> \in results' \ results /\ ~spoiled) => i = Bits(f)]_vars

\* The run thread waits for a value that the Reader has taken for none.
Stuck == run = "pulse" /\ Falsy(image)

\* Liveness: a bitstream of the right length is evaluated, though a file that is too short
\* is tried again for ever, unless a flat one blocks the session.
EvaluatedInTheEnd ==
    \A f \in Files :
        (Length[f] = Size /\ \E i \in DOMAIN queue : queue[i] = f) ~>
            (\E r \in results : r[1] = f) \/ Stuck
===============================================================================
