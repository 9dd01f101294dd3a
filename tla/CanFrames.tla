----------------------------- MODULE CanFrames ------------------------------
(***************************************************************************)
(* One message on the CAN bus: its fields are packed into eight bytes, the *)
(* frame is addressed, filtered, and unpacked by whoever it is for.  Three *)
(* kinds of packing meet here: can_set_signal_raw and can_get_signal_raw   *)
(* of the generated message classes, write_le and read_le of the node, and *)
(* the drive's, which is external.  CanSimple holds the frame layouts.     *)
(*                                                                         *)
(* A word is the set of its bits that are one, so a shift moves the        *)
(* members, a mask intersects and | is a union.  A field of any C++ type   *)
(* is its bits.  can_get_signal_raw's memcpy of 64 bytes reads past the    *)
(* buffer; only the eight bytes that tempVal covers are used.              *)
(*                                                                         *)
(* An operator whose name starts with "Bad" is the next definition with a  *)
(* bug in it; it stands in for that definition when a property is tested.  *)
(***************************************************************************)
EXTENDS Integers, Sequences

CONSTANTS
  Transfers,  \* what may be sent: see TransferType
  NodeIds,    \* the node_id parameters of the node processes on the bus
  Drives,     \* the CAN ids of the drives
  Patterns,   \* words fields take their values from, a bound of the model
  Junk        \* words that memory nobody wrote may hold, a bound of the model

Bits == 0..63

\* A field: its first bit, its bits, and the bits of its C++ type.
SignalType == [start : Bits, length : 1..64, width : 1..64]

\* A message between a writer and a reader that each have a layout of their
\* own.  expected: the lengths the reader takes; dirty: the bytes held
\* something before the writer wrote its fields; strays: the writer is
\* can_set_signal_raw; report: a drive sends it to its node.
TransferType == [cmd : 0..31, dlc : 0..8, expected : SUBSET (0..8),
                 writes : Seq(SignalType), reads : Seq(SignalType),
                 dirty : BOOLEAN, strays : BOOLEAN, report : BOOLEAN]

End(s) == s.start + s.length

MaxNodeId == 65535

\* node_id is a uint16_t that nothing limits; a drive has six bits.
ASSUME FramesAssumption ==
  /\ Transfers \subseteq TransferType
  /\ NodeIds \subseteq 0..MaxNodeId /\ Drives \subseteq 0..63
  /\ Patterns \subseteq SUBSET Bits
  /\ Junk \subseteq SUBSET Bits

NoTransfer == [cmd |-> 0, dlc |-> 0, expected |-> {}, writes |-> <<>>, reads |-> <<>>,
               dirty |-> FALSE, strays |-> FALSE, report |-> FALSE]
NoFrame == [can_id |-> 0, data |-> {}]

-----------------------------------------------------------------------------
(* Packing and unpacking.                                                  *)

\* The field's old bits are not cleared.
BadSetSignal(data, val, s) ==
  {b \in Bits : b \in data \/ (b >= s.start /\ b - s.start \in val)}

\* can_set_signal_raw: the field's bits are cleared, then the value is OR-ed
\* in, whole: it is not masked.  write_le of a whole number of bytes is the
\* same for a value no longer than its field.
SetSignal(data, val, s) ==
  {b \in Bits : \/ b \in data /\ b \notin s.start..End(s)-1
                \/ b >= s.start /\ b - s.start \in val}

\* can_get_signal_raw and read_le.
GetSignal(data, s) == {b \in 0..s.length-1 : b + s.start \in data}

\* The bits of a value that may come with it: valAsBits is wider than the
\* member of the union that was written.
WithStrays(val, junk, s) == val \cup {b \in junk : b >= s.width}

-----------------------------------------------------------------------------
(* Addressing.                                                             *)

\* node_id_ << 5 | cmd_id, of which a standard frame carries eleven bits.
ArbitrationId(node, cmd) == (32 * node + cmd) % 2048

\* The id's mask is one bit short.
BadAccepts(id, node) == (id \div 32) % 32 = node

\* The first line of recv_callback, which compares with all of node_id_; a
\* drive does the same.
Accepts(id, node) == (id \div 32) % 64 = node

CommandOf(id) == id % 32

\* Who may send a message, and who may take it.
Senders(t) == IF t.report THEN Drives ELSE NodeIds
Readers(t) == IF t.report THEN NodeIds ELSE Drives

-----------------------------------------------------------------------------
(* decode_odrive_error.  The name of an error stands for its bit.          *)

GetError == 3

\* kOdriveErrorBits: the bits that have a name, of those an error has.
KnownErrors == (0..17 \ {7}) \cup 24..28 \cup {30}

\* What no name was found for is not reported.
BadDecodeError(error) == [names |-> error \cap KnownErrors, unknown |-> {}]

\* The loop over the table, then what it did not match as one entry more.
DecodeError(error) ==
  LET matched == error \cap KnownErrors
  IN [names |-> matched, unknown |-> error \ matched]

-----------------------------------------------------------------------------
VARIABLES
  stage,     \* "idle", "writing", "sent" or "received"
  transfer,  \* the message under way
  node,      \* its sender's id
  buf,       \* the writer's eight bytes
  values,    \* history: the fields written so far
  frame,     \* what is on the bus
  got        \* the fields the reader has

vars == <<stage, transfer, node, buf, values, frame, got>>

Init ==
  /\ stage = "idle" /\ transfer = NoTransfer /\ node \in NodeIds
  /\ buf = {} /\ values = <<>> /\ frame = NoFrame /\ got = <<>>

\* A can_frame or a buffer is there; "= {}" clears it.  Nobody need have taken
\* the last frame.
Start(t, n) ==
  /\ stage # "writing"
  /\ stage' = "writing" /\ transfer' = t /\ node' = n
  /\ buf' \in IF t.dirty THEN Junk ELSE {{}}
  /\ values' = <<>> /\ frame' = NoFrame /\ got' = <<>>

\* The next field is written; values fit their fields.
WriteField(p, junk) ==
  /\ stage = "writing" /\ Len(values) < Len(transfer.writes)
  /\ LET s   == transfer.writes[Len(values) + 1]
         val == p \cap 0..s.length-1
     IN /\ buf' = SetSignal(buf, IF transfer.strays THEN WithStrays(val, junk, s)
                                 ELSE val, s)
        /\ values' = Append(values, val)
  /\ UNCHANGED <<stage, transfer, node, frame, got>>

\* send_can_frame, or a drive: the first can_dlc bytes go out.
Transmit ==
  /\ stage = "writing" /\ Len(values) = Len(transfer.writes)
  /\ stage' = "sent"
  /\ frame' = [can_id |-> ArbitrationId(node, transfer.cmd),
               data |-> {b \in buf : b < 8 * transfer.dlc}]
  /\ UNCHANGED <<transfer, node, buf, values, got>>

\* recv_callback with verify_length, or decode_buf.  The reader's eight bytes
\* may hold anything after the ones received.
Receive(n, junk) ==
  /\ stage = "sent"
  /\ Accepts(frame.can_id, n) /\ transfer.dlc \in transfer.expected
  /\ stage' = "received"
  /\ LET data == frame.data \cup {b \in junk : b >= 8 * transfer.dlc}
     IN got' = [i \in 1..Len(transfer.reads) |-> GetSignal(data, transfer.reads[i])]
  /\ UNCHANGED <<transfer, node, buf, values, frame>>

Next ==
  \/ \E t \in Transfers : \E n \in Senders(t) : Start(t, n)
  \/ \E p \in Patterns, junk \in Junk : WriteField(p, junk)
  \/ Transmit
  \/ \E n \in Readers(transfer), junk \in Junk : Receive(n, junk)

Spec == Init /\ [][Next]_vars

-----------------------------------------------------------------------------
(* Properties.                                                             *)

\* Every variable has its type.
TypeOK ==
  /\ stage \in {"idle", "writing", "sent", "received"}
  /\ transfer \in Transfers \cup {NoTransfer}
  /\ node \in NodeIds \cup Drives
  /\ buf \in SUBSET Bits
  /\ values \in Seq(SUBSET Bits) /\ got \in Seq(SUBSET Bits)
  /\ frame \in [can_id : 0..2047, data : SUBSET Bits]

\* What two layouts of a message need to agree on.  A writer fills its
\* fields in ascending order, so that what its values bring along is cleared
\* by the fields that follow; a field lies in the bytes sent, a number of
\* bytes the reader takes; the reader looks where the writer wrote, and
\* further only where nothing can be; a frame that was not cleared is filled
\* by its fields.
Agree(t) ==
  /\ t.dlc \in t.expected
  /\ Len(t.reads) = Len(t.writes)
  /\ \A i \in 1..Len(t.writes) :
       LET w == t.writes[i]
           r == t.reads[i]
       IN /\ w.length <= w.width /\ End(w) <= 8 * t.dlc /\ End(r) <= 8 * t.dlc
          /\ r.start = w.start /\ r.length >= w.length
          /\ t.dirty \/ t.strays => r.length = w.length
          /\ \A j \in i+1..Len(t.writes) :
               End(w) <= t.writes[j].start /\ End(r) <= t.writes[j].start
  /\ t.dirty /\ ~t.strays =>
       \A b \in 0..8*t.dlc-1 :
         \E i \in 1..Len(t.writes) : b \in t.writes[i].start..End(t.writes[i])-1

\* The generated classes, the node's hand-packed frames and the cases of
\* recv_callback agree on every message.
LayoutsAgree == stage # "idle" => Agree(transfer)

\* The reader has the fields the writer meant, whatever the buffer held
\* before, whatever the unions' upper bytes hold: also between a generated
\* class on one side and the node's hand-packed bytes on the other.
FieldsArrive == stage = "received" => got = values

\* The bits the fields say.
Payload(t, vals) ==
  {b \in Bits : \E i \in DOMAIN vals :
     b >= t.writes[i].start /\ b - t.writes[i].start \in vals[i]}

\* No bit leaves the node that no field put there, although
\* request_state_callback does not clear its can_frame: its can_dlc ends
\* where its field ends.
NoStrayBits ==
  stage \in {"sent", "received"} /\ ~transfer.strays
  => frame.data = Payload(transfer, values)

\* A frame on the shared bus is taken for the command it is, and by the one
\* id that its sender's last six bits are.  So nodes and drives of six bits
\* talk to their own and to no other; a node whose node_id has more commands
\* another's drive, and is deaf.
OnlyAddressee ==
  stage \in {"sent", "received"} =>
    /\ \A n \in NodeIds \cup Drives : Accepts(frame.can_id, n) <=> n = node % 64
    /\ CommandOf(frame.can_id) = transfer.cmd

\* odrive_error_decoder.hpp:56 "so nothing is silently lost": every error
\* bit the drive reported is in the answer of get_errors, once, and nothing
\* else is.
ErrorsReported ==
  stage = "received" /\ transfer.cmd = GetError =>
    \A i \in DOMAIN values :
      LET answer == DecodeError(got[i])
      IN /\ answer.names \cup answer.unknown = values[i]
         /\ answer.names \cap answer.unknown = {}
         /\ answer.names \subseteq KnownErrors
=============================================================================
