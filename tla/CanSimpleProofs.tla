-------------------------- MODULE CanSimpleProofs ---------------------------
(***************************************************************************)
(* The layouts of the code agree: those of the generated classes, which    *)
(* are also the drive's, and those of the node's hand-packed frames and of *)
(* the cases of recv_callback.  So all of CanFramesProofs holds of every   *)
(* message that is sent.                                                   *)
(***************************************************************************)
EXTENDS CanSimple, CanFramesProofs

\* Fields in ascending order, in so many bytes.
Laid(signals, length) ==
  /\ signals \in Seq(SignalType)
  /\ \A i \in 1..Len(signals) :
       /\ signals[i].length <= signals[i].width /\ End(signals[i]) <= 8 * length
       /\ \A j \in i+1..Len(signals) : End(signals[i]) <= signals[j].start

-----------------------------------------------------------------------------
(* The layouts of the generated classes.                                   *)

LEMMA VersionLaid == Laid([i \in 1..8 |-> Byte(i - 1)], 8)
  BY DEF Laid, Byte, Signal, SignalType, Bits, End

LEMMA HeartbeatLaid == Laid(<<Word32, Byte(4), Byte(5), Signal(48, 1, 8)>>, 8)
  BY DEF Laid, Word32, Byte, Signal, SignalType, Bits, End

LEMMA AddressLaid == Laid(<<Byte(0), Signal(8, 48, 64)>>, 8)
  BY DEF Laid, Byte, Signal, SignalType, Bits, End

LEMMA InputPosLaid == Laid(<<Word32, Signal(32, 16, 16), Signal(48, 16, 16)>>, 8)
  BY DEF Laid, Word32, Signal, SignalType, Bits, End

LEMMA WordsLaid ==
  Laid(<<>>, 0) /\ Laid(<<Byte(0)>>, 1) /\ Laid(<<Word32>>, 8) /\ Laid(Words32, 8)
<1>1. Laid(<<>>, 0)
  BY DEF Laid
<1>2. Laid(<<Byte(0)>>, 1)
  BY DEF Laid, Byte, Signal, SignalType, Bits, End
<1>3. Laid(<<Word32>>, 8)
  BY DEF Laid, Word32, Signal, SignalType, Bits, End
<1>4. Laid(Words32, 8)
  BY DEF Laid, Words32, Word32, Signal, SignalType, Bits, End
<1> QED BY <1>1, <1>2, <1>3, <1>4

\* A class has a cmd_id of five bits and a msg_length of at most eight.
LEMMA MessagesTyped == \A m \in Messages : m.cmd \in 0..31 /\ m.length \in 0..8
  BY DEF Messages, Announcements, Discovery, Setpoints, Limits, Measurements, Tuning, Powers,
         Message

\* The fields of every generated class lie one after the other in the bytes
\* that it sends, and each fits its C++ type.
LEMMA MessagesLaid == \A m \in Messages : Laid(m.signals, m.length)
<1> USE VersionLaid, HeartbeatLaid, AddressLaid, InputPosLaid, WordsLaid DEF Message
<1>1. \A m \in Announcements : Laid(m.signals, m.length)
  BY DEF Announcements
<1>2. \A m \in Discovery : Laid(m.signals, m.length)
  BY DEF Discovery
<1>3. \A m \in Setpoints : Laid(m.signals, m.length)
  BY DEF Setpoints
<1>4. \A m \in Limits : Laid(m.signals, m.length)
  BY DEF Limits
<1>5. \A m \in Measurements : Laid(m.signals, m.length)
  BY DEF Measurements
<1>6. \A m \in Tuning : Laid(m.signals, m.length)
  BY DEF Tuning
<1>7. \A m \in Powers : Laid(m.signals, m.length)
  BY DEF Powers
<1> QED BY <1>1, <1>2, <1>3, <1>4, <1>5, <1>6, <1>7 DEF Messages

\* No two classes have one cmd_id, so a drive knows the layout of a command.
LEMMA DriveKnows ==
  /\ DriveLayout(1) = Message(1, 8, <<Word32, Byte(4), Byte(5), Signal(48, 1, 8)>>)
  /\ DriveLayout(3) = Message(3, 8, Words32)
  /\ DriveLayout(7) = Message(7, 8, <<Word32>>)
  /\ DriveLayout(9) = Message(9, 8, Words32)
  /\ DriveLayout(11) = Message(11, 8, Words32)
  /\ DriveLayout(12) = Message(12, 8, <<Word32, Signal(32, 16, 16), Signal(48, 16, 16)>>)
  /\ DriveLayout(13) = Message(13, 8, Words32)
  /\ DriveLayout(14) = Message(14, 8, <<Word32>>)
  /\ DriveLayout(20) = Message(20, 8, Words32)
  /\ DriveLayout(21) = Message(21, 8, Words32)
  /\ DriveLayout(23) = Message(23, 8, Words32)
  /\ DriveLayout(24) = Message(24, 1, <<Byte(0)>>)
  /\ DriveLayout(28) = Message(28, 8, Words32)
<1> USE DEF DriveLayout, Messages, Announcements, Discovery, Setpoints, Limits,
            Measurements, Tuning, Powers, Message
<1>1. DriveLayout(1) = Message(1, 8, <<Word32, Byte(4), Byte(5), Signal(48, 1, 8)>>)
  OBVIOUS
<1>2. DriveLayout(3) = Message(3, 8, Words32)
  OBVIOUS
<1>3. DriveLayout(7) = Message(7, 8, <<Word32>>)
  OBVIOUS
<1>4. DriveLayout(9) = Message(9, 8, Words32)
  OBVIOUS
<1>5. DriveLayout(11) = Message(11, 8, Words32)
  OBVIOUS
<1>6. DriveLayout(12) = Message(12, 8, <<Word32, Signal(32, 16, 16), Signal(48, 16, 16)>>)
  OBVIOUS
<1>7. DriveLayout(13) = Message(13, 8, Words32)
  OBVIOUS
<1>8. DriveLayout(14) = Message(14, 8, <<Word32>>)
  OBVIOUS
<1>9. DriveLayout(20) = Message(20, 8, Words32)
  OBVIOUS
<1>10. DriveLayout(21) = Message(21, 8, Words32)
  OBVIOUS
<1>11. DriveLayout(23) = Message(23, 8, Words32)
  OBVIOUS
<1>12. DriveLayout(24) = Message(24, 1, <<Byte(0)>>)
  OBVIOUS
<1>13. DriveLayout(28) = Message(28, 8, Words32)
  OBVIOUS
<1> QED BY <1>1, <1>2, <1>3, <1>4, <1>5, <1>6, <1>7, <1>8, <1>9, <1>10, <1>11, <1>12, <1>13

-----------------------------------------------------------------------------
(* Writers and readers.                                                    *)

\* A writer and a reader with one layout between them agree on it, unless
\* the frame was not cleared.
LEMMA OneLayoutAgrees ==
  ASSUME NEW cmd, NEW length \in 0..8, NEW expected, length \in expected,
         NEW signals, Laid(signals, length), NEW dirty, NEW strays, dirty => strays,
         NEW report
  PROVE  Agree(Transfer(cmd, length, expected, signals, signals, dirty, strays, report))
<1> DEFINE t == Transfer(cmd, length, expected, signals, signals, dirty, strays, report)
<1>1. /\ t.dlc = length /\ t.expected = expected /\ t.writes = signals /\ t.reads = signals
      /\ t.dirty = dirty /\ t.strays = strays
  BY DEF Transfer
<1> HIDE DEF t
<1>2. \A i \in 1..Len(signals) : signals[i].start \in Int /\ signals[i].length \in Int
  BY SignalTyped DEF Laid
<1>3. Agree(t)
  BY <1>1, <1>2 DEF Agree, Laid
<1> QED BY <1>3 DEF t

\* A buffer that the classes write is read by the classes.
LEMMA ToolsAgree == \A t \in ToolTransfers : Agree(t)
<1> SUFFICES ASSUME NEW m \in Messages
             PROVE  Agree(Transfer(m.cmd, m.length, 0..8, m.signals, m.signals, TRUE, TRUE, FALSE))
  BY DEF ToolTransfers
<1> QED BY MessagesTyped, MessagesLaid, OneLayoutAgrees

\* The node's bytes are the fields of the classes.
LEMMA SameFields ==
  /\ Bytes(0, 1) = Byte(0) /\ Bytes(0, 4) = Word32
  /\ <<Bytes(0, 4), Bytes(4, 4)>> = Words32
  /\ Bytes(4, 1) = Byte(4) /\ Bytes(5, 1) = Byte(5)
  /\ Bytes(4, 2) = Signal(32, 16, 16) /\ Bytes(6, 2) = Signal(48, 16, 16)
  BY DEF Bytes, Byte, Word32, Words32, Signal

LEMMA SetStateLaid == Laid(<<Word32>>, 4)
  BY DEF Laid, Word32, Signal, SignalType, Bits, End

\* The drive finds the fields of the node's frames where its classes have
\* them; the frame of request_state_callback, which nobody cleared, is filled.
LEMMA CommandsAgree == \A t \in NodeTransfers : Agree(t)
<1>1. /\ kSetAxisState = 7 /\ kSetControllerMode = 11 /\ kSetInputPos = 12
      /\ kSetInputVel = 13 /\ kSetInputTorque = 14 /\ kClearErrors = 24
  BY DEF kSetAxisState, kSetControllerMode, kSetInputPos, kSetInputVel, kSetInputTorque,
         kClearErrors
<1>2. ASSUME NEW c, NEW length \in 0..8, NEW s, Laid(s, length), DriveLayout(c).signals = s
      PROVE  Agree(Command(Message(c, length, s), FALSE))
  BY <1>2, OneLayoutAgrees DEF Command, Message
<1>3. 1 \in 0..8 /\ 4 \in 0..8 /\ 8 \in 0..8
  OBVIOUS
<1>4. /\ DriveLayout(24).signals = <<Byte(0)>>
      /\ DriveLayout(7).signals = <<Word32>> /\ DriveLayout(14).signals = <<Word32>>
      /\ DriveLayout(11).signals = Words32 /\ DriveLayout(13).signals = Words32
      /\ DriveLayout(12).signals = <<Word32, Signal(32, 16, 16), Signal(48, 16, 16)>>
  BY DriveKnows DEF Message
<1>5. \A m \in StartupFrames : Agree(Command(m, FALSE))
  <2>1. Agree(Command(Message(24, 1, <<Byte(0)>>), FALSE))
    BY <1>2, <1>3, <1>4, WordsLaid, Zenon
  <2>2. Agree(Command(Message(7, 4, <<Word32>>), FALSE))
    BY <1>2, <1>3, <1>4, SetStateLaid, Zenon
  <2> QED BY <1>1, <2>1, <2>2, SameFields, Zenon DEF StartupFrames
<1>6. \A m \in SetpointFrames : Agree(Command(m, FALSE))
  <2>1. /\ Agree(Command(Message(11, 8, Words32), FALSE))
        /\ Agree(Command(Message(13, 8, Words32), FALSE))
    BY <1>2, <1>3, <1>4, WordsLaid, Zenon
  <2>2. Agree(Command(Message(14, 4, <<Word32>>), FALSE))
    BY <1>2, <1>3, <1>4, SetStateLaid, Zenon
  <2>3. Agree(Command(Message(12, 8, <<Word32, Signal(32, 16, 16), Signal(48, 16, 16)>>), FALSE))
    BY <1>2, <1>3, <1>4, InputPosLaid, Zenon
  <2> QED BY <1>1, <2>1, <2>2, <2>3, SameFields, Zenon DEF SetpointFrames
<1>7. Agree(Command(RequestState, TRUE))
  BY <1>1, DriveKnows DEF RequestState, Command, Transfer, Message, Bytes, Word32, Signal,
                          Agree, End
<1> QED BY <1>5, <1>6, <1>7 DEF NodeTransfers

\* The node finds the drive's fields; of the last of a heartbeat it reads
\* seven bits more, which are zero.
LEMMA ReportsAgree == \A t \in DriveTransfers : Agree(t)
<1> DEFINE Report(m) == Transfer(DriveLayout(m.cmd).cmd, DriveLayout(m.cmd).length,
                                 {m.length}, DriveLayout(m.cmd).signals, m.signals,
                                 FALSE, FALSE, TRUE)
<1>0. ASSUME NEW c, NEW s, NEW w, DriveLayout(c) = Message(c, 8, w),
             Agree(Transfer(c, 8, {8}, w, s, FALSE, FALSE, TRUE))
      PROVE  Agree(Report(Message(c, 8, s)))
  <2>1. /\ Message(c, 8, s).cmd = c /\ Message(c, 8, s).length = 8
        /\ Message(c, 8, s).signals = s
        /\ DriveLayout(c).cmd = c /\ DriveLayout(c).length = 8 /\ DriveLayout(c).signals = w
    BY <1>0 DEF Message
  <2>2. Report(Message(c, 8, s)) = Transfer(c, 8, {8}, w, s, FALSE, FALSE, TRUE)
    BY <2>1, Zenon
  <2> QED BY <1>0, <2>2, Zenon
<1> HIDE DEF Report
<1>1. ASSUME NEW c \in {3, 9, 20, 21, 23, 28}
      PROVE  Agree(Report(Message(c, 8, Floats)))
  <2>1. DriveLayout(c) = Message(c, 8, Words32) /\ Floats = Words32
    BY DriveKnows, SameFields DEF Floats
  <2>2. Agree(Transfer(c, 8, {8}, Words32, Words32, FALSE, FALSE, TRUE))
    <3>1. 8 \in 0..8 /\ 8 \in {8} /\ (FALSE => FALSE)
      OBVIOUS
    <3> QED BY <3>1, WordsLaid, OneLayoutAgrees, Zenon
  <2> QED BY <1>0, <2>1, <2>2, Zenon
<1>2. Agree(Report(Message(1, 8, <<Bytes(0, 4), Bytes(4, 1), Bytes(5, 1), Bytes(6, 1)>>)))
  <2> DEFINE w == <<Word32, Byte(4), Byte(5), Signal(48, 1, 8)>>
             r == <<Bytes(0, 4), Bytes(4, 1), Bytes(5, 1), Bytes(6, 1)>>
             t == Transfer(1, 8, {8}, w, r, FALSE, FALSE, TRUE)
  <2>1. /\ t.dlc = 8 /\ t.expected = {8} /\ t.writes = w /\ t.reads = r
        /\ ~t.dirty /\ ~t.strays
    BY DEF Transfer
  <2>2. Len(w) = 4 /\ Len(r) = 4
    OBVIOUS
  <2>3. ASSUME NEW i \in 1..4
        PROVE  /\ w[i].length <= w[i].width /\ End(w[i]) <= 64 /\ End(r[i]) <= 64
               /\ r[i].start = w[i].start /\ r[i].length >= w[i].length
    BY DEF Word32, Byte, Bytes, Signal, End
  <2>4. ASSUME NEW i \in 1..4, NEW j \in i+1..4
        PROVE  End(w[i]) <= w[j].start /\ End(r[i]) <= w[j].start
    BY DEF Word32, Byte, Bytes, Signal, End
  <2> HIDE DEF w, r, t
  <2>5. Agree(t)
    BY <2>1, <2>2, <2>3, <2>4 DEF Agree
  <2>6. DriveLayout(1) = Message(1, 8, w)
    BY DriveKnows DEF w
  <2> QED BY <1>0, <2>5, <2>6, Zenon DEF r, t
<1> QED
  <2>1. \A m \in NodeReads : Agree(Report(m))
    BY <1>1, <1>2 DEF NodeReads
  <2> QED BY <2>1 DEF DriveTransfers, Report

LEMMA AllAgree == \A t \in AllTransfers : Agree(t)
  BY ToolsAgree, CommandsAgree, ReportsAgree DEF AllTransfers

-----------------------------------------------------------------------------
\* The message under way is one of those that are sent.
Sendable == stage # "idle" => transfer \in Transfers

LEMMA SendableInvariant == Spec => []Sendable
<1>1. Init => Sendable
  BY DEF Init, Sendable
<1>2. Sendable /\ [Next]_vars => Sendable'
  BY DEF Sendable, Next, Start, WriteField, Transmit, Receive, vars
<1> QED BY <1>1, <1>2, PTL DEF Spec

\* The generated classes, the node's hand-packed frames, the cases of
\* recv_callback and the lengths they want agree on every message.
THEOREM LayoutsTheorem ==
  ASSUME Transfers \subseteq AllTransfers
  PROVE  Spec => []LayoutsAgree
<1>1. Sendable => LayoutsAgree
  BY AllAgree DEF Sendable, LayoutsAgree
<1> QED BY <1>1, SendableInvariant, PTL

\* So every message of the code arrives as it was meant, no bit leaves that
\* no field put there, and get_errors reports what the drive raised: for all
\* values, ids and contents of memory that nobody wrote.
THEOREM WholeMessages ==
  ASSUME Transfers \subseteq AllTransfers
  PROVE  Spec => [](FieldsArrive /\ NoStrayBits /\ ErrorsReported)
<1>1. stage = "idle" => FieldsArrive /\ NoStrayBits /\ ErrorsReported
  BY DEF FieldsArrive, NoStrayBits, ErrorsReported
<1>2. /\ LayoutsAgree
      /\ Agree(transfer) => FieldsArrive
      /\ Agree(transfer) => NoStrayBits
      /\ Agree(transfer) => ErrorsReported
      => FieldsArrive /\ NoStrayBits /\ ErrorsReported
  BY <1>1 DEF LayoutsAgree
<1> QED BY <1>2, LayoutsTheorem, MessagesArrive, OnlyPayloadSent, AllErrorsReported, PTL
=============================================================================
