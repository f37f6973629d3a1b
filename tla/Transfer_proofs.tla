-------------------------- MODULE Transfer_proofs --------------------------
(***************************************************************************)
(* Proofs about Transfer, for any files of any lengths: a value belongs to  *)
(* the bitstream it is taken for, though nothing on the wire says so.       *)
(***************************************************************************)
EXTENDS Transfer, TLAPS

USE LengthAssumption, FlatAssumption, SlowAssumption, NoneAssumption

-----------------------------------------------------------------------------
(* The inductive invariant.                                                *)

\* The units of current that have been written.
Sent == IF run \in {"write", "pulse"} THEN written ELSE 0

\* The units that the board has collected for the image that it is receiving.
Collected ==
    IF currentState = "TRANSFER_BITSTREAM" /\ previousState = "TRANSFER_BITSTREAM"
    THEN image ELSE <<>>

\* No value is on its way to the run thread.
Valueless ==
    /\ \A i \in 1..Len(tx) : tx[i].kind # "value"
    /\ last_result # None => last_result.kind # "value"

\* The run thread holds a bitstream while it evaluates it, and writes it to its end.
Linked ==
    /\ run = "reboot" <=> port # "open"
    /\ run \in {"ready", "write", "pulse"} => current \in Files
    /\ run = "write" => written < Length[current]
    /\ run = "pulse" => written = Length[current]
    /\ ~spoiled => Sent <= Size

\* What is on its way to the board goes on from what the board has collected.
Follows ==
    /\ currentState \notin {"FLASH_FPGA", "SAMPLE_ADC"} /\ Valueless
    /\ Len(Collected) + Len(rx) = Sent
    /\ \A j \in 1..Len(Collected) : Collected[j] = <<current, j>>
    /\ \A j \in 1..Len(rx) : rx[j] = <<current, Len(Collected) + j>>
    /\ currentState = "TRANSFER_BITSTREAM" =>
          IF previousState = "TRANSFER_BITSTREAM" THEN image # <<>> ELSE rx # <<>>

\* The watchdog has fired: too little is left to fill an image.
Fails ==
    /\ currentState \notin {"FLASH_FPGA", "SAMPLE_ADC"} /\ Valueless
    /\ Len(Collected) + Len(rx) < Sent

\* The image of a file that has the right length.
Whole(f, i) == Len(i) = Size /\ \A j \in 1..Size : i[j] = <<f, j>>

\* The board has the image and has not printed its value.
Full ==
    /\ currentState \in {"FLASH_FPGA", "SAMPLE_ADC"} /\ Valueless
    /\ Whole(current, image) /\ rx = <<>> /\ Sent = Size

\* The value has been printed, once.
Answers ==
    /\ currentState \notin {"FLASH_FPGA", "SAMPLE_ADC", "TRANSFER_BITSTREAM"}
    /\ rx = <<>> /\ Sent = Size
    /\ \A i \in 1..Len(tx) : tx[i].kind = "value" =>
          /\ Whole(current, tx[i].image)
          /\ last_result # None => last_result.kind # "value"
          /\ \A j \in 1..Len(tx) : tx[j].kind = "value" => i = j
    /\ (last_result # None /\ last_result.kind = "value") => Whole(current, last_result.image)

\* A session in which no file was too long is in one of these phases.
Traced == (run # "reboot" /\ ~spoiled) => Follows \/ Fails \/ Full \/ Answers

IInv == TypeOK /\ Linked /\ Traced

-----------------------------------------------------------------------------
(* Types.                                                                  *)

LEMMA BitsAre ==
    ASSUME NEW f \in Files
    PROVE  /\ Bits(f) \in Seq(Units) /\ Len(Bits(f)) = Length[f]
           /\ \A j \in 1..Length[f] : Bits(f)[j] = <<f, j>>
BY DEF Bits, Units

Lines == [kind : {"waiting", "watchdog", "value"}, image : Seq(Units)]

LEMMA PrintsTyped ==
    ASSUME tx \in Seq(Lines), NEW k \in {"waiting", "watchdog", "value"}, NEW i \in Seq(Units),
           Prints(Line(k, i))
    PROVE  tx' \in Seq(Lines)
<1>1. Line(k, i) \in Lines
  BY DEF Line, Lines
<1>2. tx' = Append(tx, Line(k, i)) \/ tx' = tx
  BY DEF Prints
<1> HIDE DEF Lines
<1> QED
  BY <1>1, <1>2

\* What one iteration of TRANSFER_BITSTREAM collects.
LEMMA ReceivesUnits ==
    ASSUME TypeOK, NEW expired \in BOOLEAN, TransferBitstream(expired)
    PROVE  LET n == IF Len(Received) + Len(rx) > Size THEN Size - Len(Received) ELSE Len(rx)
           IN  /\ n \in 0..Len(rx) /\ Received \in Seq(Units) /\ Len(Received) <= Size
               /\ image' \in Seq(Units) /\ Len(image') = Len(Received) + n /\ Len(image') <= Size
               /\ rx' \in Seq(Units) /\ Len(rx') = Len(rx) - n
               /\ \A j \in 1..Len(Received) : image'[j] = Received[j]
               /\ \A j \in 1..n : image'[Len(Received) + j] = rx[j]
               /\ \A j \in 1..Len(rx') : rx'[j] = rx[n + j]
<1> DEFINE n == IF Len(Received) + Len(rx) > Size THEN Size - Len(Received) ELSE Len(rx)
<1>1. Received \in Seq(Units) /\ Len(Received) <= Size /\ rx \in Seq(Units)
  BY DEF TypeOK, Received
<1>2. n \in 0..Len(rx) /\ Len(Received) + n <= Size
  BY <1>1
<1>3. image' = Received \o SubSeq(rx, 1, n) /\ rx' = SubSeq(rx, n + 1, Len(rx))
  BY DEF TransferBitstream, Receive
<1> HIDE DEF n
<1>4. /\ SubSeq(rx, 1, n) \in Seq(Units) /\ Len(SubSeq(rx, 1, n)) = n
      /\ \A j \in 1..n : SubSeq(rx, 1, n)[j] = rx[j]
  BY <1>1, <1>2
<1>5. /\ rx' \in Seq(Units) /\ Len(rx') = Len(rx) - n
      /\ \A j \in 1..Len(rx') : rx'[j] = rx[n + j]
  BY <1>1, <1>2, <1>3
<1>6. /\ image' \in Seq(Units) /\ Len(image') = Len(Received) + n
      /\ \A j \in 1..Len(Received) : image'[j] = Received[j]
      /\ \A j \in 1..n : image'[Len(Received) + j] = rx[j]
  BY <1>1, <1>2, <1>3, <1>4
<1> QED
  BY <1>1, <1>2, <1>5, <1>6 DEF n

LEMMA WorkerTyped ==
    ASSUME TypeOK, Linked, Worker
    PROVE  TypeOK'
<1> USE DEF TypeOK, Places, Linked
<1>1. CASE Pop
  BY <1>1 DEF Pop, reader, wire, board, client
<1>2. CASE WaitUntilReady
  BY <1>2 DEF WaitUntilReady, wire, board, client
<1>3. CASE Write
  <2>1. Bits(current)[written + 1] \in Units
    BY <1>3 DEF Write, Bits, Units
  <2> QED
    BY <1>3, <2>1 DEF Write, reader, board
<1>4. CASE WaitUntilPulse
  <2>1. CASE last_result.kind = "watchdog"
    <3>1. /\ queue' = Append(queue, current) /\ current' = None /\ run' = "reboot"
          /\ port' = "closed" /\ tx' = <<>>
          /\ UNCHANGED <<written, reader, rx, results, board, unsent, slow, spoiled>>
      BY <1>4, <2>1 DEF WaitUntilPulse, Reboots
    <3>2. queue' \in Seq(Files)
      BY <1>4, <3>1 DEF WaitUntilPulse
    <3> QED
      BY <3>1, <3>2 DEF reader, board
  <2>2. CASE last_result.kind # "watchdog"
    <3>1. /\ results' = results \cup {<<current, last_result.image>>} /\ last_result' = None
          /\ current' = None /\ run' = "pop"
          /\ UNCHANGED <<queue, written, ready, wire, board, unsent, slow, spoiled>>
      BY <1>4, <2>2 DEF WaitUntilPulse, Takes
    <3>2. last_result.image \in Seq(Units) /\ current \in Files
      BY <1>4 DEF WaitUntilPulse
    <3> QED
      BY <3>1, <3>2 DEF wire, board
  <2> QED
    BY <2>1, <2>2
<1>5. CASE SendBootloader
  BY <1>5 DEF SendBootloader, thread, reader, board, client
<1>6. CASE Flashed
  <2>1. /\ <<>> \in Seq(Units) /\ Len(<<>>) = 0
        /\ <<>> \in Seq([kind : {"waiting", "watchdog", "value"}, image : Seq(Units)])
    OBVIOUS
  <2>2. rx' = <<>> /\ tx' = <<>> /\ image' = <<>>
    BY <1>6 DEF Flashed
  <2>3. image' \in Seq(Units) /\ Len(image') <= Size
    BY <2>1, <2>2
  <2> QED
    BY <1>6, <2>1, <2>2, <2>3 DEF Flashed, States
<1> QED
  BY <1>1, <1>2, <1>3, <1>4, <1>5, <1>6 DEF Worker

LEMMA BoardTyped ==
    ASSUME TypeOK, Board \/ TransferBitstream(TRUE)
    PROVE  TypeOK'
<1> USE DEF TypeOK, States, Goes, thread, reader, wire, board, client
<1>0. tx \in Seq(Lines) /\ image \in Seq(Units) /\ <<>> \in Seq(Units)
  BY DEF Lines
<1>1. CASE Connect \/ UsbConnected \/ UsbDisconnected \/ Rest
  BY <1>1 DEF Connect, UsbConnected, UsbDisconnected, Rest
<1>6. CASE TransferDisconnected
  <2>1. image' = <<>> /\ Len(<<>>) = 0
    BY <1>6 DEF TransferDisconnected
  <2> QED
    BY <1>0, <1>6, <2>1 DEF TransferDisconnected
<1>2. CASE WaitForBitstreamTransfer
  <2>1. tx' \in Seq(Lines)
    BY <1>0, <1>2, PrintsTyped DEF WaitForBitstreamTransfer
  <2> QED
    BY <1>2, <2>1 DEF WaitForBitstreamTransfer, Lines
<1>3. ASSUME NEW expired \in BOOLEAN, TransferBitstream(expired) PROVE TypeOK'
  <2>1. tx' \in Seq(Lines)
    BY <1>0, <1>3, PrintsTyped DEF TransferBitstream, Receive
  <2>2. image' \in Seq(Units) /\ Len(image') <= Size /\ rx' \in Seq(Units)
    BY <1>3, ReceivesUnits
  <2>3. slow' \in 0..MaxSlow
    BY <1>3 DEF TransferBitstream, Receive
  <2>4. currentState' \in States /\ previousState' \in States
    BY <1>3 DEF TransferBitstream, Receive
  <2> QED
    BY <1>3, <2>1, <2>2, <2>3, <2>4 DEF TransferBitstream, Receive, Lines
<1>4. CASE FlashFpga
  <2>1. tx' \in Seq(Lines)
    BY <1>0, <1>4, PrintsTyped DEF FlashFpga
  <2> QED
    BY <1>4, <2>1 DEF FlashFpga, Lines
<1>5. CASE SampleAdc
  <2>1. tx' \in Seq(Lines)
    BY <1>0, <1>5, PrintsTyped DEF SampleAdc
  <2> QED
    BY <1>5, <2>1 DEF SampleAdc, Lines
<1> QED
  BY <1>1, <1>2, <1>3, <1>4, <1>5, <1>6 DEF Board

LEMMA StepTyped ==
    ASSUME TypeOK, Linked, [Next]_vars
    PROVE  TypeOK'
<1>1. ASSUME NEW f \in Files, Evaluate(f) PROVE TypeOK'
  BY <1>1 DEF TypeOK, Evaluate, reader, wire, board
<1>2. CASE Read
  <2>1. /\ tx \in Seq(Lines) /\ tx # <<>> /\ tx' = Tail(tx)
        /\ ready' = (ready \/ Head(tx).kind = "waiting")
        /\ last_result' = last_result \/ (Head(tx).kind \in {"watchdog", "value"} /\ last_result' = Head(tx))
        /\ UNCHANGED <<thread, port, rx, board, client>>
    BY <1>2 DEF TypeOK, Lines, Read
  <2>2. tx' \in Seq(Lines) /\ Head(tx) \in Lines
    <3> HIDE DEF Lines
    <3> QED
      BY <2>1
  <2>3. last_result' \in [kind : {"watchdog", "value"}, image : Seq(Units)] \cup {None}
    BY <2>1, <2>2 DEF TypeOK, Lines
  <2> QED
    BY <2>1, <2>2, <2>3 DEF TypeOK, Lines, thread, board, client
<1>3. CASE UNCHANGED vars
  BY <1>3 DEF TypeOK, vars, thread, reader, wire, board, client
<1> QED
  BY <1>1, <1>2, <1>3, WorkerTyped, BoardTyped DEF Next

-----------------------------------------------------------------------------
(* The phases of a session.                                                *)

LEMMA LinkedKeeps ==
    ASSUME TypeOK, Linked, [Next]_vars
    PROVE  Linked'
<1> USE DEF Linked, Sent, TypeOK, thread, reader, wire, board, client
<1>1. ASSUME NEW f \in Files, Evaluate(f) PROVE Linked'
  BY <1>1 DEF Evaluate
<1>2. CASE Pop
  BY <1>2 DEF Pop
<1>3. CASE WaitUntilReady
  BY <1>3 DEF WaitUntilReady
<1>4. CASE Write
  <2>1. /\ current \in Files /\ current' = current /\ written' = written + 1 /\ port' = port
        /\ written < Length[current] /\ run = "write"
        /\ run' = IF written + 1 = Length[current] THEN "pulse" ELSE "write"
        /\ spoiled' <=> (spoiled \/ written + 1 > Size)
    BY <1>4 DEF Write
  <2>2. Length[current] \in Nat /\ written \in Nat /\ Size \in Nat
    BY <2>1
  <2> QED
    BY <2>1, <2>2
<1>5. CASE WaitUntilPulse
  BY <1>5 DEF WaitUntilPulse, Takes, Reboots
<1>6. CASE SendBootloader
  BY <1>6 DEF SendBootloader
<1>7. CASE Flashed
  BY <1>7 DEF Flashed
<1>8. CASE Read
  BY <1>8 DEF Read
<1>9. ASSUME Board \/ TransferBitstream(TRUE) PROVE Linked'
  <2>1. UNCHANGED <<run, current, written, port, spoiled>>
    BY <1>9 DEF Board, Connect, UsbConnected, UsbDisconnected, WaitForBitstreamTransfer,
       TransferDisconnected, TransferBitstream, Receive, FlashFpga, SampleAdc, Rest
  <2> QED
    BY <2>1
<1>10. CASE UNCHANGED vars
  BY <1>10 DEF vars
<1> QED
  BY <1>1, <1>2, <1>3, <1>4, <1>5, <1>6, <1>7, <1>8, <1>9, <1>10 DEF Next, Worker

LEMMA CollectedTyped ==
    ASSUME TypeOK
    PROVE  /\ Collected \in Seq(Units) /\ Len(Collected) \in Nat /\ Len(rx) \in Nat
           /\ rx # <<>> <=> Len(rx) > 0
           /\ image # <<>> <=> Len(image) > 0
           /\ currentState # "TRANSFER_BITSTREAM" => Collected = <<>>
           /\ currentState = "TRANSFER_BITSTREAM" => Collected = Received
           /\ Len(<<>>) = 0
           /\ Len(tx) \in Nat /\ Sent \in Nat
<1>1. rx \in Seq(Units) /\ image \in Seq(Units) /\ tx \in Seq(Lines) /\ written \in Nat
  BY DEF TypeOK, Lines
<1> QED
  BY <1>1 DEF Collected, Received, Sent

\* A line that is no value.
LEMMA PrintsNoValue ==
    ASSUME TypeOK, NEW k \in {"waiting", "watchdog"}, tx' = tx \/ Prints(Line(k, <<>>))
    PROVE  /\ Len(tx) \in Nat /\ Len(tx') \in Nat
           /\ \A i \in 1..Len(tx') : tx'[i].kind = "value" => i \in 1..Len(tx) /\ tx'[i] = tx[i]
<1>1. tx \in Seq(Lines) /\ Line(k, <<>>) \in Lines /\ Line(k, <<>>).kind # "value"
  BY DEF TypeOK, Lines, Line
<1>2. tx' = tx \/ tx' = Append(tx, Line(k, <<>>))
  BY DEF Prints
<1> HIDE DEF Lines
<1> QED
  BY <1>1, <1>2

\* The board goes from one state to another without touching the bytes.
LEMMA Passes ==
    ASSUME IInv, UNCHANGED <<run, current, written, last_result, rx, spoiled>>,
           NEW k \in {"waiting", "watchdog"}, tx' = tx \/ Prints(Line(k, <<>>)),
           currentState \notin {"TRANSFER_BITSTREAM", "FLASH_FPGA", "SAMPLE_ADC"},
           currentState' \notin {"FLASH_FPGA", "SAMPLE_ADC"},
           currentState' = "TRANSFER_BITSTREAM" =>
              rx # <<>> /\ previousState' # "TRANSFER_BITSTREAM"
    PROVE  Traced'
<1> SUFFICES ASSUME run # "reboot", ~spoiled
             PROVE  Traced'
  BY DEF Traced
<1>1. TypeOK /\ (Follows \/ Fails \/ Answers)
  BY DEF IInv, Traced, Full
<1>2. Collected = <<>> /\ Collected' = <<>>
  BY DEF Collected
<1>3. /\ Len(tx) \in Nat /\ Len(tx') \in Nat
      /\ \A i \in 1..Len(tx') : tx'[i].kind = "value" => i \in 1..Len(tx) /\ tx'[i] = tx[i]
  BY <1>1, PrintsNoValue
<1>4. Sent' = Sent
  BY DEF Sent
<1>5. Valueless => Valueless'
  BY <1>3 DEF Valueless
<1>6. Follows => Follows'
  BY <1>2, <1>4, <1>5 DEF Follows
<1>7. Fails => Fails'
  BY <1>2, <1>4, <1>5 DEF Fails
<1>8. Answers => Answers'
  BY <1>3, <1>4 DEF Answers, Whole
<1> QED
  BY <1>1, <1>6, <1>7, <1>8 DEF Traced

LEMMA BoardPasses ==
    ASSUME IInv,
           Connect \/ UsbConnected \/ UsbDisconnected \/ WaitForBitstreamTransfer
           \/ TransferDisconnected \/ Rest
    PROVE  Traced'
<1> USE DEF thread, reader, wire, board, client
<1>1. CASE Connect \/ UsbConnected \/ UsbDisconnected \/ Rest
  <2>1. /\ UNCHANGED <<run, current, written, last_result, rx, tx, spoiled>>
        /\ currentState \notin {"TRANSFER_BITSTREAM", "FLASH_FPGA", "SAMPLE_ADC"}
        /\ currentState' \notin {"FLASH_FPGA", "SAMPLE_ADC"}
    BY <1>1 DEF Connect, UsbConnected, UsbDisconnected, Rest, Goes
  <2>2. currentState' # "TRANSFER_BITSTREAM"
    BY <1>1 DEF Connect, UsbConnected, UsbDisconnected, Rest, Goes
  <2> QED
    BY <2>1, <2>2, Passes
<1>2. CASE WaitForBitstreamTransfer
  <2>1. /\ UNCHANGED <<run, current, written, last_result, rx, spoiled>>
        /\ tx' = tx \/ Prints(Line("waiting", <<>>))
        /\ currentState = "WAIT_FOR_BITSTREAM_TRANSFER"
        /\ previousState' = "WAIT_FOR_BITSTREAM_TRANSFER"
        /\ currentState' \notin {"FLASH_FPGA", "SAMPLE_ADC"}
        /\ currentState' = "TRANSFER_BITSTREAM" => rx # <<>>
    BY <1>2 DEF WaitForBitstreamTransfer, Goes
  <2> QED
    BY <2>1, Passes
<1>3. CASE TransferDisconnected
  BY <1>3 DEF TransferDisconnected, Connected, IInv, Linked, Traced
<1> QED
  BY <1>1, <1>2, <1>3

LEMMA ReceiveTraced ==
    ASSUME IInv, NEW expired \in BOOLEAN, TransferBitstream(expired)
    PROVE  Traced'
<1>1. /\ UNCHANGED <<run, current, written, last_result, spoiled>>
      /\ currentState = "TRANSFER_BITSTREAM" /\ previousState' = "TRANSFER_BITSTREAM"
      /\ tx' = tx \/ Prints(Line("watchdog", <<>>))
      /\ expired => previousState = "TRANSFER_BITSTREAM"
      /\ currentState' = CASE Len(image') >= Size -> "FLASH_FPGA"
              [] Len(image') < Size /\ expired -> "WAIT_FOR_BITSTREAM_TRANSFER"
              [] OTHER -> "TRANSFER_BITSTREAM"
  BY DEF TransferBitstream, Receive, Goes, thread, reader
<1> SUFFICES ASSUME run # "reboot", ~spoiled
             PROVE  Traced'
  BY <1>1 DEF Traced
<1>2. TypeOK /\ (Follows \/ Fails) /\ Valueless /\ Sent <= Size /\ Sent \in Nat
  BY <1>1, CollectedTyped DEF IInv, Traced, Full, Answers, Follows, Fails, Linked
<1>3. Valueless'
  <2>1. /\ Len(tx) \in Nat /\ Len(tx') \in Nat
        /\ \A i \in 1..Len(tx') : tx'[i].kind = "value" => i \in 1..Len(tx) /\ tx'[i] = tx[i]
    BY <1>1, <1>2, PrintsNoValue
  <2> QED
    BY <1>1, <1>2, <2>1 DEF Valueless
<1>4. Received = Collected /\ Sent' = Sent
  BY <1>1 DEF Received, Collected, Sent
<1>5. /\ Len(Collected) \in Nat /\ Len(rx) \in Nat /\ Len(Collected) + Len(rx) <= Sent
  BY <1>2, CollectedTyped DEF Follows, Fails
<1>6. /\ image' \in Seq(Units) /\ Len(image') = Len(Collected) + Len(rx)
      /\ rx' = <<>>
      /\ \A j \in 1..Len(Collected) : image'[j] = Collected[j]
      /\ \A j \in 1..Len(rx) : image'[Len(Collected) + j] = rx[j]
  <2> DEFINE n == IF Len(Received) + Len(rx) > Size THEN Size - Len(Received) ELSE Len(rx)
  <2>1. n = Len(rx)
    BY <1>2, <1>4, <1>5
  <2>2. /\ image' \in Seq(Units) /\ Len(image') = Len(Received) + n
        /\ rx' \in Seq(Units) /\ Len(rx') = Len(rx) - n
        /\ \A j \in 1..Len(Received) : image'[j] = Received[j]
        /\ \A j \in 1..n : image'[Len(Received) + j] = rx[j]
    BY <1>2, ReceivesUnits
  <2> QED
    BY <1>4, <1>5, <2>1, <2>2
<1>7. CASE Follows
  <2>1. /\ Len(image') = Sent
        /\ \A j \in 1..Sent : image'[j] = <<current, j>>
    <3>1. Len(image') = Sent
      BY <1>6, <1>7 DEF Follows
    <3>2. ASSUME NEW j \in 1..Sent PROVE image'[j] = <<current, j>>
      <4>1. CASE j <= Len(Collected)
        BY <1>5, <1>6, <1>7, <4>1 DEF Follows
      <4>2. CASE j > Len(Collected)
        <5>1. /\ j - Len(Collected) \in 1..Len(rx)
              /\ Len(Collected) + (j - Len(Collected)) = j
          BY <1>2, <1>5, <1>7, <4>2 DEF Follows
        <5>2. /\ image'[Len(Collected) + (j - Len(Collected))] = rx[j - Len(Collected)]
              /\ rx[j - Len(Collected)] = <<current, Len(Collected) + (j - Len(Collected))>>
          BY <1>6, <1>7, <5>1 DEF Follows
        <5> QED
          BY <5>1, <5>2
      <4> QED
        BY <1>5, <4>1, <4>2
    <3> QED
      BY <3>1, <3>2
  <2>2. Sent > 0
    <3>1. IF previousState = "TRANSFER_BITSTREAM" THEN Len(Collected) > 0 ELSE Len(rx) > 0
      BY <1>1, <1>2, <1>7, CollectedTyped DEF Follows, Collected
    <3>2. Len(Collected) + Len(rx) = Sent
      BY <1>7 DEF Follows
    <3> QED
      BY <1>5, <3>1, <3>2
  <2>3. CASE Sent = Size
    <3>1. currentState' = "FLASH_FPGA"
      BY <1>1, <1>2, <2>1, <2>3
    <3> QED
      BY <1>1, <1>3, <1>4, <1>6, <2>1, <2>3, <3>1 DEF Traced, Full, Whole
  <2>4. CASE Sent < Size /\ expired
    <3>1. currentState' = "WAIT_FOR_BITSTREAM_TRANSFER"
      BY <1>1, <1>2, <2>1, <2>4
    <3>2. Collected' = <<>>
      BY <3>1 DEF Collected
    <3> QED
      BY <1>2, <1>3, <1>4, <1>6, <2>2, <3>1, <3>2 DEF Traced, Fails
  <2>5. CASE Sent < Size /\ ~expired
    <3>1. currentState' = "TRANSFER_BITSTREAM"
      BY <1>1, <1>2, <2>1, <2>5
    <3>2. Collected' = image' /\ image' # <<>>
      BY <1>1, <2>1, <2>2, <3>1 DEF Collected
    <3> QED
      BY <1>1, <1>2, <1>3, <1>4, <1>6, <2>1, <3>1, <3>2 DEF Traced, Follows
  <2> QED
    BY <1>2, <2>3, <2>4, <2>5
<1>8. CASE Fails
  <2>1. Len(image') < Sent
    BY <1>6, <1>8 DEF Fails
  <2>2. /\ currentState' \notin {"FLASH_FPGA", "SAMPLE_ADC"}
        /\ Len(image') \in Nat
    BY <1>1, <1>2, <1>6, <2>1
  <2>3. Collected' = image' \/ Collected' = <<>>
    BY DEF Collected
  <2>4. Len(Collected') + Len(rx') < Sent
    BY <1>2, <1>6, <2>1, <2>2, <2>3
  <2> QED
    BY <1>3, <1>4, <2>2, <2>4 DEF Traced, Fails
<1> QED
  BY <1>2, <1>7, <1>8

\* A value is printed only when there is an image, and only once.
LEMMA ValueTraced ==
    ASSUME IInv, FlashFpga \/ SampleAdc
    PROVE  Traced'
<1>1. /\ UNCHANGED <<run, current, written, last_result, spoiled, rx, image>>
      /\ \/ tx' = tx /\ currentState' = "SAMPLE_ADC"
         \/ Prints(Line("value", image)) /\ currentState' = "IDLE"
      /\ currentState \in {"FLASH_FPGA", "SAMPLE_ADC"}
  BY DEF FlashFpga, SampleAdc, Goes, thread, reader, client
<1> SUFFICES ASSUME run # "reboot", ~spoiled
             PROVE  Traced'
  BY <1>1 DEF Traced
<1>2. TypeOK /\ Full /\ InSession
  BY <1>1 DEF IInv, Traced, Follows, Fails, Answers, Linked, InSession
<1>3. Sent' = Sent
  BY <1>1 DEF Sent
<1>4. CASE tx' = tx /\ currentState' = "SAMPLE_ADC"
  <2>1. Full'
    BY <1>1, <1>2, <1>3, <1>4 DEF Full, Whole, Valueless
  <2> QED
    BY <2>1 DEF Traced
<1>5. CASE Prints(Line("value", image)) /\ currentState' = "IDLE"
  <2>1. tx \in Seq(Lines) /\ Line("value", image) \in Lines /\ Line("value", image).image = image
    BY <1>2 DEF TypeOK, Lines, Line
  <2>2. tx' = Append(tx, Line("value", image))
    BY <1>2, <1>5 DEF Prints
  <2>3. /\ Len(tx) \in Nat /\ Len(tx') = Len(tx) + 1 /\ tx'[Len(tx) + 1].image = image
        /\ \A i \in 1..Len(tx) : tx'[i] = tx[i]
    <3> HIDE DEF Lines
    <3> QED
      BY <2>1, <2>2
  <2>4. \A i \in 1..Len(tx') : tx'[i].kind = "value" => i = Len(tx) + 1
    BY <1>2, <2>3 DEF Full, Valueless
  <2>5. Answers'
    BY <1>1, <1>2, <1>3, <1>5, <2>3, <2>4 DEF Answers, Full, Whole, Valueless
  <2> QED
    BY <2>5 DEF Traced
<1> QED
  BY <1>1, <1>4, <1>5

LEMMA ReadTraced ==
    ASSUME IInv, Read
    PROVE  Traced'
<1>1. /\ UNCHANGED <<run, current, written, spoiled, rx, image, currentState, previousState>>
      /\ tx # <<>> /\ tx' = Tail(tx)
      /\ \/ last_result' = last_result
         \/ Head(tx).kind \in {"watchdog", "value"} /\ last_result' = Head(tx)
  BY DEF Read, thread, board, client
<1> SUFFICES ASSUME run # "reboot", ~spoiled
             PROVE  Traced'
  BY <1>1 DEF Traced
<1>2. TypeOK /\ (Follows \/ Fails \/ Full \/ Answers)
  BY DEF IInv, Traced
<1>3. /\ Len(tx) \in Nat \ {0} /\ Head(tx) = tx[1] /\ Len(tx') = Len(tx) - 1
      /\ \A i \in 1..Len(tx') : tx'[i] = tx[i + 1]
  <2>1. tx \in Seq(Lines)
    BY <1>2 DEF TypeOK, Lines
  <2> HIDE DEF Lines
  <2> QED
    BY <1>1, <2>1
<1>4. Sent' = Sent /\ Collected' = Collected
  BY <1>1 DEF Sent, Collected
<1>5. Valueless => Valueless'
  BY <1>1, <1>3 DEF Valueless
<1>6. Follows => Follows'
  BY <1>1, <1>4, <1>5 DEF Follows
<1>7. Fails => Fails'
  BY <1>1, <1>4, <1>5 DEF Fails
<1>8. Full => Full'
  BY <1>1, <1>4, <1>5 DEF Full, Whole
<1>9. ASSUME Answers PROVE Answers'
  <2>1. \A i \in 1..Len(tx') : i + 1 \in 1..Len(tx)
    BY <1>3
  <2>2. CASE Head(tx).kind # "value"
    <3>1. ASSUME NEW i \in 1..Len(tx'), tx'[i].kind = "value"
          PROVE  /\ Whole(current, tx'[i].image)
                 /\ last_result' # None => last_result'.kind # "value"
                 /\ \A j \in 1..Len(tx') : tx'[j].kind = "value" => i = j
      BY <1>1, <1>3, <1>9, <2>1, <2>2, <3>1 DEF Answers
    <3>2. (last_result' # None /\ last_result'.kind = "value") => Whole(current, last_result'.image)
      BY <1>1, <1>9, <2>2 DEF Answers
    <3> QED
      BY <1>1, <1>4, <1>9, <3>1, <3>2 DEF Answers
  <2>3. CASE Head(tx).kind = "value"
    <3>1. /\ Whole(current, tx[1].image)
          /\ last_result # None => last_result.kind # "value"
          /\ \A i \in 1..Len(tx') : tx'[i].kind # "value"
      BY <1>3, <1>9, <2>1, <2>3 DEF Answers
    <3>2. (last_result' # None /\ last_result'.kind = "value") => Whole(current, last_result'.image)
      BY <1>1, <1>3, <3>1
    <3> QED
      BY <1>1, <1>4, <1>9, <3>1, <3>2 DEF Answers
  <2> QED
    BY <2>2, <2>3
<1> QED
  BY <1>2, <1>6, <1>7, <1>8, <1>9 DEF Traced

\* The client and the run thread.
LEMMA WorkerTraced ==
    ASSUME IInv, Worker
    PROVE  Traced'
<1>0. TypeOK /\ Linked /\ Traced /\ <<>> \in Seq(Units) /\ Len(<<>>) = 0
  BY DEF IInv
<1>1. ASSUME UNCHANGED <<rx, tx, currentState, previousState, image, last_result, spoiled>>,
             run \in {"pop", "ready"}, run' # "reboot", Sent' = 0
      PROVE  Traced'
  <2>1. Sent = 0 /\ Collected' = Collected /\ (Valueless => Valueless')
    BY <1>1 DEF Sent, Collected, Valueless
  <2> SUFFICES ASSUME ~spoiled PROVE Traced'
    BY <1>1 DEF Traced
  <2>2. Follows /\ Len(Collected) \in Nat /\ Len(rx) \in Nat
    BY <1>0, <1>1, <2>1, CollectedTyped DEF Traced, Fails, Full, Answers
  <2>3. Len(Collected) = 0 /\ Len(rx) = 0
    BY <2>1, <2>2 DEF Follows
  <2> QED
    BY <1>1, <2>1, <2>2, <2>3 DEF Traced, Follows
<1>2. CASE Pop
  BY <1>1, <1>2 DEF Pop, Sent, reader, wire, board, client
<1>3. CASE WaitUntilReady
  BY <1>1, <1>3 DEF WaitUntilReady, Sent, wire, board, client
<1>4. CASE Write
  <2>1. /\ run = "write" /\ run' \in {"write", "pulse"} /\ written' = written + 1
        /\ rx' = Append(rx, Bits(current)[written + 1])
        /\ spoiled' <=> (spoiled \/ written + 1 > Size)
        /\ UNCHANGED <<current, tx, last_result, currentState, previousState, image>>
    BY <1>4 DEF Write, reader, board
  <2>2. /\ current \in Files /\ written \in Nat /\ rx \in Seq(Units)
        /\ Bits(current)[written + 1] = <<current, written + 1>>
    <3>1. current \in Files /\ written \in Nat /\ rx \in Seq(Units) /\ written < Length[current]
      BY <1>0, <2>1 DEF Linked, TypeOK
    <3>2. written + 1 \in 1..Length[current]
      BY <3>1
    <3> QED
      BY <3>1, <3>2, BitsAre
  <2>3. /\ Len(rx) \in Nat /\ Len(rx') = Len(rx) + 1 /\ rx'[Len(rx) + 1] = <<current, written + 1>>
        /\ \A j \in 1..Len(rx) : rx'[j] = rx[j]
    BY <2>1, <2>2
  <2> SUFFICES ASSUME ~spoiled, written + 1 <= Size PROVE Traced'
    BY <2>1, <2>2 DEF Traced
  <2>4. Sent = written /\ Sent' = written + 1 /\ Collected' = Collected /\ Len(Collected) \in Nat
    BY <1>0, <2>1, CollectedTyped DEF Sent, Collected
  <2>5. (Follows \/ Fails) /\ Valueless'
    BY <1>0, <2>1, <2>2, <2>4 DEF Traced, Follows, Fails, Full, Answers, Valueless
  <2>6. Follows => Follows'
    <3> SUFFICES ASSUME Follows PROVE Follows'
      OBVIOUS
    <3>1. Len(Collected') + Len(rx') = Sent'
      BY <2>2, <2>3, <2>4 DEF Follows
    <3>2. \A j \in 1..Len(rx') : rx'[j] = <<current, Len(Collected) + j>>
      <4> TAKE j \in 1..Len(rx')
      <4>1. CASE j <= Len(rx)
        BY <2>3, <4>1 DEF Follows
      <4>2. CASE j = Len(rx) + 1
        <5>1. Len(Collected) + Len(rx) = Sent
          BY DEF Follows
        <5>2. written + 1 = Len(Collected) + j
          <6>1. Len(rx) \in Nat /\ Len(Collected) \in Nat /\ written \in Nat /\ Sent = written
            BY <2>2, <2>3, <2>4
          <6> QED
            BY <4>2, <5>1, <6>1
        <5> QED
          BY <2>3, <4>2, <5>2
      <4> QED
        BY <2>3, <4>1, <4>2
    <3>3. rx' # <<>>
      BY <1>0, <2>3
    <3> QED
      BY <2>1, <2>4, <2>5, <3>1, <3>2, <3>3 DEF Follows
  <2>7. Fails => Fails'
    BY <2>1, <2>2, <2>3, <2>4, <2>5 DEF Fails
  <2> QED
    BY <2>5, <2>6, <2>7 DEF Traced
<1>5. CASE WaitUntilPulse
  <2>1. CASE last_result.kind = "watchdog"
    BY <1>5, <2>1 DEF WaitUntilPulse, Reboots, Traced
  <2>2. CASE last_result.kind # "watchdog"
    <3>1. /\ run = "pulse" /\ run' = "pop" /\ last_result # None /\ last_result' = None
          /\ UNCHANGED <<rx, tx, currentState, previousState, image, spoiled>>
      BY <1>5, <2>2 DEF WaitUntilPulse, Takes, wire, board
    <3> SUFFICES ASSUME ~spoiled PROVE Traced'
      BY <3>1 DEF Traced
    <3>2. last_result.kind = "value"
      BY <1>0, <2>2, <3>1 DEF TypeOK
    <3>3. Answers
      BY <1>0, <3>1, <3>2 DEF Traced, Follows, Fails, Full, Valueless
    <3>4. Sent' = 0 /\ Collected' = <<>> /\ rx' = <<>>
      BY <3>1, <3>3 DEF Sent, Collected, Answers
    <3>5. Valueless'
      BY <3>1, <3>2, <3>3 DEF Valueless, Answers
    <3>6. Follows'
      BY <1>0, <3>1, <3>3, <3>4, <3>5 DEF Follows, Answers
    <3> QED
      BY <3>6 DEF Traced
  <2> QED
    BY <2>1, <2>2
<1>6. CASE SendBootloader
  BY <1>6 DEF SendBootloader, Traced, thread
<1>7. CASE Flashed
  <2>1. /\ rx' = <<>> /\ tx' = <<>> /\ last_result' = None /\ run' = "pop"
        /\ currentState' = "WAIT_FOR_USB_CONNECTION"
    BY <1>7 DEF Flashed
  <2>2. Sent' = 0 /\ Collected' = <<>> /\ Valueless'
    BY <1>0, <2>1 DEF Sent, Collected, Valueless
  <2>3. Follows'
    BY <1>0, <2>1, <2>2 DEF Follows
  <2> QED
    BY <2>3 DEF Traced
<1> QED
  BY <1>2, <1>3, <1>4, <1>5, <1>6, <1>7 DEF Worker

-----------------------------------------------------------------------------
(* Theorems.                                                               *)

LEMMA Initially == Init => IInv
<1> SUFFICES ASSUME Init PROVE IInv
  OBVIOUS
<1>1. <<>> \in Seq(Units) /\ <<>> \in Seq(Files) /\ Len(<<>>) = 0
      /\ <<>> \in Seq([kind : {"waiting", "watchdog", "value"}, image : Seq(Units)])
  OBVIOUS
<1>2. TypeOK
  <2>1. queue \in Seq(Files) /\ rx \in Seq(Units) /\ image \in Seq(Units) /\ Len(image) <= Size
        /\ tx \in Seq([kind : {"waiting", "watchdog", "value"}, image : Seq(Units)])
    BY <1>1 DEF Init
  <2>2. last_result \in [kind : {"watchdog", "value"}, image : Seq(Units)] \cup {None}
    BY DEF Init
  <2>3. currentState \in States /\ previousState \in States \cup {"INIT"} /\ slow \in 0..MaxSlow
    BY DEF Init, States
  <2> QED
    BY <2>1, <2>2, <2>3 DEF Init, TypeOK, Places
<1>3. Linked /\ Sent = 0
  BY DEF Init, Linked, Sent
<1>4. Follows
  BY <1>1, <1>3 DEF Init, Follows, Collected, Valueless
<1> QED
  BY <1>2, <1>3, <1>4 DEF IInv, Traced

LEMMA StepKeeps ==
    ASSUME IInv, [Next]_vars
    PROVE  IInv'
<1>1. TypeOK' /\ Linked'
  BY StepTyped, LinkedKeeps DEF IInv
<1>2. ASSUME UNCHANGED <<run, current, written, rx, tx, currentState, previousState, image,
                         last_result, spoiled>>
      PROVE  Traced'
  BY <1>2 DEF IInv, Traced, Follows, Fails, Full, Answers, Whole, Valueless, Collected, Sent
<1>3. ASSUME NEW f \in Files, Evaluate(f) PROVE Traced'
  BY <1>2, <1>3 DEF Evaluate, reader, wire, board
<1>4. ASSUME UNCHANGED vars PROVE Traced'
  <2>1. UNCHANGED <<thread, reader, wire, board, client>>
    BY <1>4 DEF vars
  <2> QED
    BY <1>2, <2>1 DEF thread, reader, wire, board, client
<1>5. Board \/ TransferBitstream(TRUE) => Traced'
  BY BoardPasses, ValueTraced, ReceiveTraced DEF Board
<1>6. Traced'
  <2>1. Worker \/ Read => Traced'
    BY WorkerTraced, ReadTraced
  <2> QED
    BY <1>3, <1>4, <1>5, <2>1 DEF Next
<1> QED
  BY <1>1, <1>6 DEF IInv

\* The inductive invariant holds in every behaviour.
THEOREM Invariance == Spec => []IInv
<1>1. Init => IInv
  BY Initially
<1>2. IInv /\ [Next]_vars => IInv'
  BY StepKeeps
<1> QED
  BY <1>1, <1>2, PTL DEF Spec

\* The firmware never writes past the end of the buffer in which it collects an image
\* (TRANSFER_BITSTREAM clips what it reads), whatever the lengths of the files.
THEOREM TypeCorrect == Spec => []TypeOK
<1>1. IInv => TypeOK
  BY DEF IInv
<1> QED
  BY <1>1, Invariance, PTL

\* The result that the run thread takes for a bitstream was measured on that bitstream,
\* unless a file that is too long was written since the firmware was flashed.
THEOREM RightImageHolds == Spec => RightImage
<1> DEFINE Right == \A f \in Files : \A i \in {r[2] : r \in results'} :
                       (<<f, i>> \in results' \ results /\ ~spoiled) => i = Bits(f)
<1>1. IInv /\ [Next]_vars => [Right]_vars
  <2> SUFFICES ASSUME IInv, Next, NEW f \in Files, NEW i,
                      <<f, i>> \in results' \ results, ~spoiled
               PROVE  i = Bits(f)
    OBVIOUS
  <2>1. WaitUntilPulse /\ last_result.kind # "watchdog"
    BY DEF Next, Worker, Board, Evaluate, Pop, WaitUntilReady, Write, WaitUntilPulse, Reboots,
       SendBootloader, Flashed, Read, Connect, UsbConnected, UsbDisconnected,
       WaitForBitstreamTransfer, TransferDisconnected, TransferBitstream, Receive, FlashFpga,
       SampleAdc, Rest, client
  <2>2. /\ run = "pulse" /\ last_result # None
        /\ results' = results \cup {<<current, last_result.image>>}
    BY <2>1 DEF WaitUntilPulse, Takes
  <2>3. f = current /\ i = last_result.image
    BY <2>2
  <2>4. TypeOK /\ last_result.kind = "value" /\ i \in Seq(Units)
    BY <2>1, <2>2, <2>3 DEF IInv, TypeOK
  <2>5. Answers /\ written = Length[f]
    BY <2>2, <2>3, <2>4 DEF IInv, Linked, Traced, Follows, Fails, Full, Valueless
  <2>6. Whole(current, i) /\ Length[f] = Size
    BY <2>2, <2>3, <2>4, <2>5 DEF Answers, Sent
  <2>7. Bits(f) \in Seq(Units) /\ Len(Bits(f)) = Len(i) /\ \A j \in 1..Len(i) : i[j] = Bits(f)[j]
    BY <2>3, <2>6, BitsAre DEF Whole
  <2> HIDE DEF Units
  <2> QED
    BY <2>4, <2>7
<1> QED
  BY <1>1, Invariance, PTL DEF RightImage, Spec
===============================================================================
