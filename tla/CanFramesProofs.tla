-------------------------- MODULE CanFramesProofs ---------------------------
(***************************************************************************)
(* Whatever the layouts, the ids, the values and the contents of memory    *)
(* nobody wrote: a message whose layouts agree arrives as it was meant.    *)
(*                                                                         *)
(* The invariant follows the writer: the fields written so far hold their  *)
(* values (what later values bring along lies above them), and a writer    *)
(* that started from a cleared frame has set no bit outside its fields.    *)
(***************************************************************************)
EXTENDS CanFrames, SequenceTheorems, TLAPS

Span(s) == s.start..End(s)-1

\* The fields written so far have their values in buf.
Written ==
  \A i \in 1..Len(values) : \A b \in Span(transfer.writes[i]) :
    b \in buf <=> b - transfer.writes[i].start \in values[i]

\* A cleared frame has no other bit set.
Clean ==
  ~transfer.dirty /\ ~transfer.strays =>
    \A b \in buf : \E i \in 1..Len(values) : b \in Span(transfer.writes[i])

Values ==
  /\ Len(values) <= Len(transfer.writes)
  /\ \A i \in 1..Len(values) : values[i] \subseteq 0..transfer.writes[i].length-1
  /\ stage \in {"sent", "received"} => Len(values) = Len(transfer.writes)

FrameSent ==
  stage \in {"sent", "received"} =>
    frame = [can_id |-> ArbitrationId(node, transfer.cmd),
             data |-> {b \in buf : b < 8 * transfer.dlc}]

IInv ==
  /\ TypeOK
  /\ Values
  /\ FrameSent
  /\ stage # "idle" /\ Agree(transfer) => Written /\ Clean
  /\ Agree(transfer) => FieldsArrive

-----------------------------------------------------------------------------
\* A message, or none, is a transfer.
LEMMA TransferTyped == ASSUME TypeOK PROVE transfer \in TransferType
<1>1. NoTransfer \in TransferType
  <2>1. <<>> \in Seq(SignalType)
    OBVIOUS
  <2>2. {} \in SUBSET (0..8)
    OBVIOUS
  <2> QED BY <2>1, <2>2 DEF NoTransfer, TransferType
<1> QED BY <1>1, FramesAssumption DEF TypeOK

\* Fields of a layout.
LEMMA FieldTyped ==
  ASSUME NEW t \in TransferType
  PROVE  /\ Len(t.writes) \in Nat /\ Len(t.reads) \in Nat
         /\ \A i \in 1..Len(t.writes) : t.writes[i] \in SignalType
         /\ \A i \in 1..Len(t.reads) : t.reads[i] \in SignalType
  BY DEF TransferType

\* can_set_signal_raw leaves eight bytes.
LEMMA SetSignalTyped ==
  ASSUME NEW data, NEW val, NEW s
  PROVE  SetSignal(data, val, s) \in SUBSET Bits
  BY DEF SetSignal

LEMMA GetSignalTyped ==
  ASSUME NEW data, NEW s \in SignalType
  PROVE  GetSignal(data, s) \in SUBSET Bits
  BY DEF GetSignal, SignalType, Bits

\* custom_odrive_node.cpp:6, (node_id << 5) | cmd_id: the filter's six bits are
\* the last six of the sender's id, the low five the command.
LEMMA AddressRoundTrip ==
  ASSUME NEW n \in Nat, NEW cmd \in 0..31
  PROVE  /\ \A m \in Nat : Accepts(ArbitrationId(n, cmd), m) <=> m = n % 64
         /\ CommandOf(ArbitrationId(n, cmd)) = cmd
<1>0. PICK k, q : k = n % 64 /\ q = n \div 64
  OBVIOUS
<1>1. k \in 0..63 /\ q \in Nat
  <2>1. n % 64 \in 0..63
    OBVIOUS
  <2>2. n \div 64 \in Int /\ n \div 64 >= 0
    OBVIOUS
  <2> QED BY <1>0, <2>1, <2>2
<1>2. k = n - 64 * q
  <2>1. n % 64 = n - 64 * (n \div 64)
    OBVIOUS
  <2> QED BY <1>0, <2>1
<1>3. ArbitrationId(n, cmd) = 32 * k + cmd
  <2>1. 32 * n + cmd = 2048 * q + (32 * k + cmd)
    BY <1>1, <1>2
  <2>2. (2048 * q + (32 * k + cmd)) % 2048 = 32 * k + cmd
    BY <1>1
  <2> QED BY <2>1, <2>2 DEF ArbitrationId
<1>4. (32 * k + cmd) \div 32 = k /\ (32 * k + cmd) % 32 = cmd /\ k % 64 = k
  BY <1>1
<1>5. \A m \in Nat : Accepts(32 * k + cmd, m) <=> m = k
  BY <1>4 DEF Accepts
<1>6. CommandOf(32 * k + cmd) = cmd
  BY <1>4 DEF CommandOf
<1> QED BY <1>0, <1>3, <1>5, <1>6, Zenon

\* It is an id of eleven bits.
LEMMA StandardId ==
  \A n \in Nat, cmd \in 0..31 : ArbitrationId(n, cmd) \in 0..2047
<1> SUFFICES ASSUME NEW n \in Nat, NEW cmd \in 0..31
             PROVE  ArbitrationId(n, cmd) \in 0..2047
  OBVIOUS
<1>1. 32 * n + cmd \in Nat
  OBVIOUS
<1> QED BY <1>1 DEF ArbitrationId

\* The ids of processes and drives.
LEMMA IdsTyped == NodeIds \cup Drives \subseteq Nat
<1>1. 0..MaxNodeId \subseteq Nat /\ 0..63 \subseteq Nat
  OBVIOUS
<1> QED BY <1>1, FramesAssumption

\* Every variable has its type, from one step to the next.
LEMMA TypeInductive ==
  ASSUME TypeOK, [Next]_vars
  PROVE  TypeOK'
<1>0. transfer \in TransferType
  BY TransferTyped
<1>1. ASSUME NEW t \in Transfers, NEW n \in Senders(t), Start(t, n)
      PROVE  TypeOK'
  <2>1. buf' \in SUBSET Bits
    BY <1>1, FramesAssumption DEF Start
  <2>4. node' \in NodeIds \cup Drives
    BY <1>1 DEF Start, Senders
  <2>2. values' \in Seq(SUBSET Bits) /\ got' \in Seq(SUBSET Bits)
    BY <1>1 DEF Start
  <2>3. frame' \in [can_id : 0..2047, data : SUBSET Bits]
    BY <1>1 DEF Start, NoFrame
  <2> QED BY <1>1, <2>1, <2>2, <2>3, <2>4 DEF TypeOK, Start
<1>2. ASSUME NEW p \in Patterns, NEW junk \in Junk, WriteField(p, junk)
      PROVE  TypeOK'
  <2>1. buf' \in SUBSET Bits
    BY <1>2, SetSignalTyped DEF WriteField
  <2>2. values' \in Seq(SUBSET Bits)
    <3> DEFINE val == p \cap 0..transfer.writes[Len(values) + 1].length-1
    <3>1. val \in SUBSET Bits
      BY FramesAssumption
    <3>2. values' = Append(values, val)
      BY <1>2 DEF WriteField
    <3> HIDE DEF val
    <3> QED BY <3>1, <3>2 DEF TypeOK
  <2>3. UNCHANGED <<stage, transfer, node, frame, got>>
    BY <1>2 DEF WriteField
  <2> QED BY <2>1, <2>2, <2>3 DEF TypeOK
<1>3. ASSUME Transmit
      PROVE  TypeOK'
  <2>1. ArbitrationId(node, transfer.cmd) \in 0..2047
    <3>1. node \in Nat
      BY IdsTyped DEF TypeOK
    <3>2. transfer.cmd \in 0..31
      BY <1>0 DEF TransferType
    <3> DEFINE ids == 0..2047
    <3>3. \A n \in Nat, cmd \in 0..31 : ArbitrationId(n, cmd) \in ids
      BY StandardId
    <3> HIDE DEF ids
    <3>4. ArbitrationId(node, transfer.cmd) \in ids
      BY <3>1, <3>2, <3>3, Zenon
    <3> QED BY <3>4 DEF ids
  <2>2. frame' \in [can_id : 0..2047, data : SUBSET Bits]
    <3>1. {b \in buf : b < 8 * transfer.dlc} \in SUBSET Bits
      BY DEF TypeOK
    <3> QED BY <1>3, <2>1, <3>1 DEF Transmit
  <2> QED BY <1>3, <2>2 DEF TypeOK, Transmit
<1>4. ASSUME NEW n \in Readers(transfer), NEW junk \in Junk, Receive(n, junk)
      PROVE  TypeOK'
  <2>1. got' \in Seq(SUBSET Bits)
    <3> DEFINE word == frame.data \cup {b \in junk : b >= 8 * transfer.dlc}
               g(i) == GetSignal(word, transfer.reads[i])
    <3>1. got' = [i \in 1..Len(transfer.reads) |-> g(i)]
      BY <1>4 DEF Receive
    <3>2. \A i \in 1..Len(transfer.reads) : g(i) \in SUBSET Bits
      BY <1>0, FieldTyped, GetSignalTyped
    <3>3. Len(transfer.reads) \in Nat
      BY <1>0, FieldTyped
    <3> HIDE DEF g
    <3>4. got' \in [1..Len(transfer.reads) -> SUBSET Bits]
      BY <3>1, <3>2
    <3> QED BY <3>3, <3>4, SeqDef
  <2>2. stage' = "received" /\ UNCHANGED <<transfer, node, buf, values, frame>>
    BY <1>4 DEF Receive
  <2> QED BY <2>1, <2>2 DEF TypeOK
<1>5. CASE UNCHANGED vars
  BY <1>5 DEF TypeOK, vars
<1> QED BY <1>1, <1>2, <1>3, <1>4, <1>5 DEF Next

\* The numbers of a field.
LEMMA SignalTyped ==
  ASSUME NEW s \in SignalType
  PROVE  /\ s.start \in Int /\ s.start >= 0 /\ s.length \in Int /\ s.length >= 1
         /\ s.width \in Int
  BY DEF SignalType, Bits

LEMMA SpanTyped ==
  ASSUME NEW s \in SignalType, NEW b \in Span(s)
  PROVE  b \in Int /\ b >= s.start /\ b < End(s) /\ s.start \in Int /\ End(s) \in Int
  BY SignalTyped DEF Span, End

\* What can_set_signal_raw makes of a value that fits and of the bits that
\* come with it: the field has the value, the bits below are as they were,
\* and without such bits nothing else is set.
LEMMA SignalSet ==
  ASSUME NEW data \in SUBSET Bits, NEW s \in SignalType, End(s) <= 64,
         NEW val \in SUBSET (0..s.length-1), NEW new \in SUBSET Bits,
         val \subseteq new, \A b \in new : b \in val \/ b >= s.length
  PROVE  /\ \A b \in Span(s) : b \in SetSignal(data, new, s) <=> b - s.start \in val
         /\ \A b \in Int : b < s.start => (b \in SetSignal(data, new, s) <=> b \in data)
         /\ new = val => \A b \in SetSignal(data, new, s) : b \in data \/ b \in Span(s)
<1>1. s.start \in Int /\ s.start >= 0 /\ s.length \in Int
  BY SignalTyped
<1>2. ASSUME NEW b \in Span(s)
      PROVE  b \in SetSignal(data, new, s) <=> b - s.start \in val
  <2>1. b \in Int /\ b >= s.start /\ b < s.start + s.length /\ b < 64
    BY <1>1, <1>2 DEF Span, End
  <2>2. b \in Bits
    BY <1>1, <2>1 DEF Bits
  <2>3. b \in SetSignal(data, new, s) <=> b - s.start \in new
    BY <1>2, <2>1, <2>2 DEF SetSignal, Span
  <2>4. b - s.start \in new => b - s.start \in val
    BY <1>1, <2>1
  <2> QED BY <2>3, <2>4
<1>3. ASSUME NEW b \in Int, b < s.start
      PROVE  b \in SetSignal(data, new, s) <=> b \in data
  BY <1>1, <1>3 DEF SetSignal, Bits
<1>4. ASSUME new = val, NEW b \in SetSignal(data, new, s)
      PROVE  b \in data \/ b \in Span(s)
  <2>1. b \in Bits /\ (b \in data \/ (b >= s.start /\ b - s.start \in val))
    BY <1>4 DEF SetSignal
  <2>2. ASSUME b >= s.start, b - s.start \in 0..s.length-1
        PROVE  b \in Span(s)
    BY <1>1, <2>1, <2>2 DEF Span, End, Bits
  <2> QED BY <2>1, <2>2
<1> QED BY <1>2, <1>3, <1>4

\* A field is written: the earlier ones keep their values, it has its own.
LEMMA FieldKept ==
  ASSUME IInv, Agree(transfer),
         NEW p \in Patterns, NEW junk \in Junk, WriteField(p, junk)
  PROVE  Values' /\ Written' /\ Clean'
<1> DEFINE n   == Len(values) + 1
           s   == transfer.writes[n]
           val == p \cap 0..s.length-1
           new == IF transfer.strays THEN WithStrays(val, junk, s) ELSE val
<1>0. transfer \in TransferType
  BY TransferTyped DEF IInv
<1>1. /\ stage = "writing" /\ Len(values) < Len(transfer.writes)
      /\ buf' = SetSignal(buf, new, s)
      /\ values' = Append(values, val)
      /\ UNCHANGED <<stage, transfer, node, frame, got>>
  BY DEF WriteField
<1>2. /\ values \in Seq(SUBSET Bits) /\ Len(values) \in Nat /\ buf \in SUBSET Bits
      /\ Len(transfer.writes) \in Nat
  BY <1>0, FieldTyped DEF IInv, TypeOK
<1>3. n \in 1..Len(transfer.writes) /\ n \in Nat
  BY <1>1, <1>2
<1>4. /\ s \in SignalType
      /\ \A i \in 1..Len(values) : transfer.writes[i] \in SignalType
  BY <1>0, <1>1, <1>2, <1>3, FieldTyped
<1>5. /\ s.length <= s.width /\ End(s) <= 64
      /\ \A i \in 1..Len(values) : End(transfer.writes[i]) <= s.start
  <2>1. s.length <= s.width /\ End(s) <= 8 * transfer.dlc
    BY <1>3 DEF Agree
  <2>2. transfer.dlc \in 0..8
    BY <1>0 DEF TransferType
  <2>3. End(s) \in Int
    BY <1>4, SignalTyped DEF End
  <2>4. ASSUME NEW i \in 1..Len(values)
        PROVE  End(transfer.writes[i]) <= s.start
    <3>1. i \in 1..Len(transfer.writes) /\ n \in i+1..Len(transfer.writes)
      BY <1>2, <1>3
    <3> QED BY <3>1 DEF Agree
  <2> HIDE DEF s
  <2> QED BY <2>1, <2>2, <2>3, <2>4
<1>6. /\ val \in SUBSET (0..s.length-1) /\ val \in SUBSET Bits
      /\ new \in SUBSET Bits /\ val \subseteq new
      /\ \A b \in new : b \in val \/ b >= s.length
      /\ ~transfer.strays => new = val
  <2>1. p \in SUBSET Bits /\ junk \in SUBSET Bits
    BY FramesAssumption
  <2>2. s.length \in Int /\ s.width \in Int
    BY <1>4, SignalTyped
  <2> HIDE DEF s
  <2>3. val \in SUBSET (0..s.length-1) /\ val \in SUBSET Bits
    BY <2>1
  <2> HIDE DEF val
  <2>4. new \in SUBSET Bits
    BY <2>1, <2>3 DEF WithStrays
  <2>5. ASSUME NEW b \in new
        PROVE  b \in val \/ b >= s.length
    <3>1. b \in val \/ (b \in junk /\ b >= s.width)
      BY <2>5 DEF WithStrays
    <3>2. b \in Int
      BY <2>4, <2>5 DEF Bits
    <3> QED BY <1>5, <2>2, <3>1, <3>2
  <2>6. val \subseteq new /\ (~transfer.strays => new = val)
    BY DEF WithStrays
  <2> QED BY <2>3, <2>4, <2>5, <2>6
<1>7. /\ Len(values') = n
      /\ \A i \in 1..Len(values) : values'[i] = values[i]
      /\ values'[n] = val
  <2> HIDE DEF val
  <2> QED BY <1>1, <1>2, <1>6, AppendProperties
<1>8. \A i \in 1..n : i \in 1..Len(values) \/ i = n
  BY <1>2
<1> HIDE DEF val, new
<1>9. /\ \A b \in Span(s) : b \in buf' <=> b - s.start \in val
      /\ \A b \in Int : b < s.start => (b \in buf' <=> b \in buf)
      /\ new = val => \A b \in buf' : b \in buf \/ b \in Span(s)
  <2> HIDE DEF s
  <2> QED BY <1>1, <1>2, <1>4, <1>5, <1>6, SignalSet
<1>10. ASSUME NEW i \in 1..Len(values), NEW b \in Span(transfer.writes[i])
       PROVE  b \in buf' <=> b \in buf
  <2>1. b \in Int /\ b < End(transfer.writes[i])
    BY <1>4, <1>10, SignalTyped DEF Span, End
  <2>2. End(transfer.writes[i]) <= s.start
    BY <1>5, <1>10
  <2>3. s.start \in Int /\ End(transfer.writes[i]) \in Int
    BY <1>4, <1>10, SignalTyped DEF End
  <2> HIDE DEF s
  <2>4. b < s.start
    BY <2>1, <2>2, <2>3
  <2> QED BY <2>1, <2>4, <1>9
<1>11. Values'
  <2>1. stage' = "writing" /\ Len(values') <= Len(transfer'.writes)
    BY <1>1, <1>3, <1>7
  <2>2. \A i \in 1..n : values'[i] \subseteq 0..transfer.writes[i].length-1
    BY <1>6, <1>7, <1>8 DEF IInv, Values
  <2>3. Len(values') = n /\ transfer' = transfer
    BY <1>1, <1>7
  <2> HIDE DEF n, s
  <2> QED BY <2>1, <2>2, <2>3 DEF Values
<1>12. Written'
  <2>1. stage # "idle" /\ Written
    BY <1>1 DEF IInv
  <2>2. \A i \in 1..n : \A b \in Span(transfer.writes[i]) :
          b \in buf' <=> b - transfer.writes[i].start \in values'[i]
    BY <1>7, <1>8, <1>9, <1>10, <2>1 DEF Written
  <2> QED BY <1>1, <1>7, <2>2 DEF Written
<1>13. Clean'
  <2> SUFFICES ASSUME ~transfer.dirty, ~transfer.strays, NEW b \in buf'
               PROVE  \E i \in 1..n : b \in Span(transfer.writes[i])
    BY <1>1, <1>7 DEF Clean
  <2>1. CASE b \in buf
    <3>1. PICK i \in 1..Len(values) : b \in Span(transfer.writes[i])
      BY <2>1, <1>1 DEF IInv, Clean
    <3> QED BY <3>1, <1>2
  <2>2. CASE b \in Span(s)
    BY <2>2, <1>2
  <2> QED BY <2>1, <2>2, <1>6, <1>9
<1> QED BY <1>11, <1>12, <1>13

\* What can_get_signal_raw finds where a value was written, if it looks no
\* further than that or there is nothing further.
LEMMA SignalGet ==
  ASSUME NEW data, NEW w \in SignalType, NEW r \in SignalType,
         r.start = w.start, r.length >= w.length,
         NEW val \in SUBSET (0..w.length-1),
         \A b \in Span(w) : b \in data <=> b - w.start \in val,
         \A b \in Span(r) : b \in data => b \in Span(w)
  PROVE  GetSignal(data, r) = val
<1>1. /\ w.start \in Int /\ w.length \in Int /\ r.length \in Int
  BY SignalTyped
<1>2. ASSUME NEW b \in GetSignal(data, r)
      PROVE  b \in val
  <2>1. b \in Int /\ b >= 0 /\ b < r.length /\ b + w.start \in data
    BY <1>1, <1>2 DEF GetSignal
  <2>2. b + w.start \in Span(r)
    BY <1>1, <2>1 DEF Span, End
  <2>3. b + w.start \in Span(w)
    BY <2>1, <2>2
  <2>4. (b + w.start) - w.start = b
    BY <1>1, <2>1
  <2> QED BY <2>1, <2>3, <2>4
<1>3. ASSUME NEW b \in val
      PROVE  b \in GetSignal(data, r)
  <2>1. b \in Int /\ b >= 0 /\ b < w.length
    BY <1>1
  <2>2. b + w.start \in Span(w) /\ (b + w.start) - w.start = b
    BY <1>1, <2>1 DEF Span, End
  <2>3. b + w.start \in data
    BY <2>2
  <2>4. b \in 0..r.length-1
    BY <1>1, <2>1
  <2> QED BY <2>3, <2>4 DEF GetSignal
<1> QED BY <1>2, <1>3

\* A frame that was received: each field is read where it was written, and
\* where the reader looks further there is nothing.
LEMMA FieldRead ==
  ASSUME IInv, Agree(transfer), NEW n \in Readers(transfer), NEW junk \in Junk, Receive(n, junk)
  PROVE  got' = values
<1> DEFINE data == frame.data \cup {b \in junk : b >= 8 * transfer.dlc}
<1>0. transfer \in TransferType
  BY TransferTyped DEF IInv
<1>1. /\ stage = "sent"
      /\ got' = [i \in 1..Len(transfer.reads) |-> GetSignal(data, transfer.reads[i])]
  BY DEF Receive
<1>2. /\ values \in Seq(SUBSET Bits) /\ buf \in SUBSET Bits
      /\ Len(values) \in Nat /\ transfer.dlc \in 0..8
      /\ transfer.dirty \in BOOLEAN /\ transfer.strays \in BOOLEAN
  BY <1>0 DEF IInv, TypeOK, TransferType
<1>3. Len(values) = Len(transfer.writes) /\ Len(transfer.reads) = Len(transfer.writes)
  BY <1>1 DEF IInv, Values, Agree
<1>4. Written /\ Clean /\ Values
  BY <1>1 DEF IInv
<1>5. \A b \in Int : b < 8 * transfer.dlc => (b \in data <=> b \in buf)
  <2>1. frame.data = {b \in buf : b < 8 * transfer.dlc}
    BY <1>1 DEF IInv, FrameSent
  <2> QED BY <1>2, <2>1
<1> HIDE DEF data
<1>6. ASSUME NEW i \in 1..Len(values)
      PROVE  GetSignal(data, transfer.reads[i]) = values[i]
  <2> DEFINE w == transfer.writes[i]
             r == transfer.reads[i]
  <2>1. /\ w \in SignalType /\ r \in SignalType
        /\ \A j \in 1..Len(values) : transfer.writes[j] \in SignalType
    BY <1>0, <1>3, <1>6, FieldTyped
  <2>2. /\ End(w) <= 8 * transfer.dlc /\ End(r) <= 8 * transfer.dlc
        /\ r.start = w.start /\ r.length >= w.length
        /\ transfer.dirty \/ transfer.strays => r.length = w.length
    BY <1>3, <1>6 DEF Agree
  <2>3. ASSUME NEW j \in 1..Len(values), j # i
        PROVE  End(transfer.writes[j]) <= w.start \/ End(r) <= transfer.writes[j].start
    <3>1. j \in i+1..Len(transfer.writes) \/ i \in j+1..Len(transfer.writes)
      BY <1>2, <1>3, <1>6, <2>3
    <3> QED BY <1>3, <1>6, <2>3, <3>1 DEF Agree
  <2>4. values[i] \in SUBSET (0..w.length-1)
    BY <1>4, <1>6 DEF Values
  <2>5. ASSUME NEW b \in Span(w)
        PROVE  b \in data <=> b - w.start \in values[i]
    <3>1. /\ b \in Int /\ b < End(w) /\ End(w) \in Int
          /\ End(w) <= 8 * transfer.dlc /\ 8 * transfer.dlc \in Int
      BY <1>2, <2>1, <2>2, <2>5, SpanTyped
    <3>2. b < 8 * transfer.dlc
      <4> HIDE DEF w
      <4> QED BY <3>1
    <3>3. b \in buf <=> b - w.start \in values[i]
      BY <1>4, <1>6, <2>5 DEF Written
    <3> QED BY <1>5, <3>1, <3>2, <3>3
  <2>6. ASSUME NEW b \in Span(r), b \in data
        PROVE  b \in Span(w)
    <3>1. CASE transfer.dirty \/ transfer.strays
      BY <3>1, <2>2, <2>6 DEF Span, End
    <3>2. CASE ~transfer.dirty /\ ~transfer.strays
      <4>0. /\ b \in Int /\ b >= w.start /\ b < End(r) /\ End(r) \in Int
            /\ End(r) <= 8 * transfer.dlc /\ 8 * transfer.dlc \in Int
        BY <1>2, <2>1, <2>2, <2>6, SpanTyped
      <4>1. b < 8 * transfer.dlc
        <5> HIDE DEF w, r
        <5> QED BY <4>0
      <4>2. PICK j \in 1..Len(values) : b \in Span(transfer.writes[j])
        <5>1. b \in buf
          BY <1>5, <2>6, <4>0, <4>1
        <5> QED BY <1>4, <3>2, <5>1 DEF Clean
      <4>3. /\ b >= transfer.writes[j].start /\ b < End(transfer.writes[j])
            /\ transfer.writes[j].start \in Int /\ End(transfer.writes[j]) \in Int
        BY <2>1, <4>2, SpanTyped
      <4>4. w.start \in Int /\ End(r) \in Int
        BY <2>1, SignalTyped DEF End
      <4> HIDE DEF w, r
      <4>5. j = i
        BY <2>3, <4>0, <4>3, <4>4
      <4> QED BY <4>2, <4>5 DEF w
    <3> QED BY <1>2, <3>1, <3>2
  <2> HIDE DEF w, r
  <2>7. GetSignal(data, r) = values[i]
    BY <2>1, <2>2, <2>4, <2>5, <2>6, SignalGet
  <2> QED BY <2>7 DEF r
<1>7. values \in [1..Len(values) -> SUBSET Bits]
  BY <1>2, LenProperties
<1>8. got' = [i \in 1..Len(values) |-> GetSignal(data, transfer.reads[i])]
  BY <1>1, <1>3 DEF data
<1> QED BY <1>6, <1>7, <1>8

LEMMA InitInv == ASSUME Init PROVE IInv
<1>1. TypeOK
  BY DEF Init, TypeOK, NoFrame
<1>2. Len(values) = 0 /\ Len(transfer.writes) = 0 /\ stage = "idle"
  BY DEF Init, NoTransfer
<1> QED BY <1>1, <1>2 DEF IInv, Values, FrameSent, FieldsArrive

LEMMA StepInv == ASSUME IInv, [Next]_vars PROVE IInv'
<1>0. TypeOK'
  BY TypeInductive DEF IInv
<1>1. ASSUME NEW t \in Transfers, NEW n \in Senders(t), Start(t, n)
      PROVE  IInv'
  <2>1. /\ stage' = "writing" /\ transfer' = t /\ values' = <<>> /\ Len(values') = 0
        /\ ~t.dirty => buf' = {}
    BY <1>1 DEF Start
  <2>2. Len(t.writes) \in Nat
    BY FramesAssumption, FieldTyped
  <2> QED BY <1>0, <2>1, <2>2 DEF IInv, Values, FrameSent, FieldsArrive, Written, Clean
<1>2. ASSUME NEW p \in Patterns, NEW junk \in Junk, WriteField(p, junk)
      PROVE  IInv'
  <2>1. /\ stage = "writing" /\ stage' = "writing" /\ transfer' = transfer
        /\ Len(values) < Len(transfer.writes)
    BY <1>2 DEF WriteField
  <2>2. Agree(transfer) => Written' /\ Clean'
    BY <1>2, FieldKept
  <2>3. Values'
    <3> DEFINE val == p \cap 0..transfer.writes[Len(values) + 1].length-1
    <3>1. values' = Append(values, val) /\ val \in SUBSET Bits
      BY <1>2, FramesAssumption DEF WriteField
    <3>2. values \in Seq(SUBSET Bits) /\ Len(values) \in Nat
      BY DEF IInv, TypeOK
    <3>3. Len(transfer.writes) \in Nat
      BY TransferTyped, FieldTyped DEF IInv
    <3>4. val \subseteq 0..transfer.writes[Len(values) + 1].length-1
      OBVIOUS
    <3> HIDE DEF val
    <3>5. /\ Len(values') = Len(values) + 1 /\ values'[Len(values) + 1] = val
          /\ \A i \in 1..Len(values) : values'[i] = values[i]
      BY <3>1, <3>2, AppendProperties
    <3>6. \A i \in 1..Len(values') : values'[i] \subseteq 0..transfer.writes[i].length-1
      <4> SUFFICES ASSUME NEW i \in 1..Len(values')
                   PROVE  values'[i] \subseteq 0..transfer.writes[i].length-1
        OBVIOUS
      <4>1. CASE i = Len(values) + 1
        BY <3>4, <3>5, <4>1
      <4>2. CASE i # Len(values) + 1
        <5>1. i \in 1..Len(values)
          BY <3>2, <3>5, <4>2
        <5>2. values'[i] = values[i]
          BY <3>5, <5>1
        <5> QED BY <5>1, <5>2 DEF IInv, Values
      <4> QED BY <4>1, <4>2
    <3>7. Len(values') <= Len(transfer.writes)
      BY <2>1, <3>2, <3>3, <3>5
    <3> QED BY <2>1, <3>6, <3>7 DEF Values
  <2> QED BY <1>0, <2>1, <2>2, <2>3 DEF IInv, FrameSent, FieldsArrive
<1>3. ASSUME Transmit
      PROVE  IInv'
  <2>1. /\ stage = "writing" /\ stage' = "sent" /\ Len(values) = Len(transfer.writes)
        /\ UNCHANGED <<transfer, node, buf, values, got>>
        /\ frame' = [can_id |-> ArbitrationId(node, transfer.cmd),
                     data |-> {b \in buf : b < 8 * transfer.dlc}]
    BY <1>3 DEF Transmit
  <2> QED BY <1>0, <2>1 DEF IInv, Values, FrameSent, FieldsArrive, Written, Clean
<1>4. ASSUME NEW n \in Readers(transfer), NEW junk \in Junk, Receive(n, junk)
      PROVE  IInv'
  <2>1. /\ stage = "sent" /\ stage' = "received"
        /\ UNCHANGED <<transfer, node, buf, values, frame>>
    BY <1>4 DEF Receive
  <2>2. Agree(transfer) => got' = values
    BY <1>4, FieldRead
  <2> QED BY <1>0, <2>1, <2>2 DEF IInv, Values, FrameSent, FieldsArrive, Written, Clean
<1>5. CASE UNCHANGED vars
  BY <1>0, <1>5 DEF vars, IInv, Values, FrameSent, FieldsArrive, Written, Clean
<1> QED BY <1>1, <1>2, <1>3, <1>4, <1>5 DEF Next

LEMMA Invariance == Spec => []IInv
  BY InitInv, StepInv, PTL DEF Spec

-----------------------------------------------------------------------------
\* Every variable has its type, whatever is sent.
THEOREM Typed == Spec => []TypeOK
<1>1. IInv => TypeOK
  BY DEF IInv
<1> QED BY <1>1, Invariance, PTL

\* A message whose writer and reader agree on its layout arrives with the
\* fields the writer meant, whatever memory nobody wrote holds.
THEOREM MessagesArrive == Spec => [](Agree(transfer) => FieldsArrive)
<1>1. IInv => (Agree(transfer) => FieldsArrive)
  BY DEF IInv
<1> QED BY <1>1, Invariance, PTL

LEMMA PayloadSent == ASSUME IInv, Agree(transfer) PROVE NoStrayBits
<1> SUFFICES ASSUME stage \in {"sent", "received"}, ~transfer.strays
             PROVE  frame.data = Payload(transfer, values)
  BY DEF NoStrayBits
<1>0. transfer \in TransferType
  BY TransferTyped DEF IInv
<1>1. /\ values \in Seq(SUBSET Bits) /\ DOMAIN values = 1..Len(values)
      /\ buf \in SUBSET Bits /\ Len(values) = Len(transfer.writes)
      /\ frame.data = {b \in buf : b < 8 * transfer.dlc}
      /\ Written /\ Clean /\ Values /\ 8 * transfer.dlc \in Int
  BY <1>0, LenProperties DEF IInv, TypeOK, Values, FrameSent, TransferType
<1>2. \A i \in 1..Len(values) : /\ transfer.writes[i] \in SignalType
                                /\ End(transfer.writes[i]) <= 8 * transfer.dlc
  BY <1>0, <1>1, FieldTyped DEF Agree
<1>3. ASSUME NEW b \in frame.data
      PROVE  b \in Payload(transfer, values)
  <2>1. b \in buf /\ b \in Bits /\ b < 8 * transfer.dlc
    BY <1>1, <1>3
  <2>2. PICK i \in 1..Len(values) : b \in Span(transfer.writes[i])
    <3>1. CASE ~transfer.dirty
      BY <1>1, <2>1, <3>1 DEF Clean
    <3>2. CASE transfer.dirty
      <4>1. b \in 0..8*transfer.dlc-1
        BY <1>1, <2>1 DEF Bits
      <4> QED BY <1>1, <3>2, <4>1 DEF Agree, Span
    <3> QED BY <3>1, <3>2
  <2>3. b >= transfer.writes[i].start
    BY <1>2, <2>2, SpanTyped
  <2>4. b - transfer.writes[i].start \in values[i]
    BY <1>1, <2>1, <2>2 DEF Written
  <2> QED BY <1>1, <2>1, <2>2, <2>3, <2>4 DEF Payload
<1>4. ASSUME NEW b \in Payload(transfer, values)
      PROVE  b \in frame.data
  <2>1. PICK i \in 1..Len(values) : b >= transfer.writes[i].start /\ b - transfer.writes[i].start \in values[i]
    BY <1>1, <1>4 DEF Payload
  <2> DEFINE w == transfer.writes[i]
  <2>2. b \in Bits /\ b - w.start \in 0..w.length-1
    BY <1>1, <1>4, <2>1 DEF Payload, Values
  <2>3. w \in SignalType /\ End(w) <= 8 * transfer.dlc
    BY <1>2, <2>1
  <2>4. w.start \in Int /\ w.length \in Int
    BY <2>3, SignalTyped
  <2>5. b \in Span(w) /\ b < 8 * transfer.dlc
    <3>1. b \in Int /\ End(w) \in Int
      <4> HIDE DEF w
      <4> QED BY <2>2, <2>4 DEF Bits, End
    <3>2. b >= w.start /\ b < End(w)
      <4> HIDE DEF w
      <4> QED BY <2>2, <2>4, <3>1 DEF End
    <3>3. b < 8 * transfer.dlc
      <4> HIDE DEF w
      <4> QED BY <1>1, <2>3, <3>1, <3>2
    <3>4. w.start \in Int
      BY <2>4
    <3>5. b \in Span(w)
      <4> HIDE DEF w
      <4> QED BY <3>1, <3>2, <3>4 DEF Span
    <3> QED BY <3>3, <3>5
  <2> QED BY <1>1, <2>1, <2>5 DEF Written
<1> QED BY <1>3, <1>4

\* Neither what is left in a can_frame that was not cleared nor anything
\* else but its fields is sent, if its can_dlc ends where its fields do.
THEOREM OnlyPayloadSent == Spec => [](Agree(transfer) => NoStrayBits)
<1>1. IInv => (Agree(transfer) => NoStrayBits)
  BY PayloadSent
<1> QED BY <1>1, Invariance, PTL

\* Whatever node_ids the processes are given, a frame is for the one id that
\* its sender's last six bits are, and for the command it was sent as.
THEOREM Addressed == Spec => []OnlyAddressee
<1>1. ASSUME IInv PROVE OnlyAddressee
  <2> SUFFICES ASSUME stage \in {"sent", "received"}
               PROVE  /\ \A n \in NodeIds \cup Drives : Accepts(frame.can_id, n) <=> n = node % 64
                      /\ CommandOf(frame.can_id) = transfer.cmd
    BY DEF OnlyAddressee
  <2>1. frame.can_id = ArbitrationId(node, transfer.cmd)
    BY <1>1 DEF IInv, FrameSent
  <2>2. node \in Nat /\ NodeIds \cup Drives \subseteq Nat
    BY <1>1, IdsTyped DEF IInv, TypeOK
  <2>3. transfer.cmd \in 0..31
    BY <1>1, TransferTyped DEF IInv, TransferType
  <2>4. \A n \in Nat, cmd \in 0..31 :
          /\ \A m \in Nat : Accepts(ArbitrationId(n, cmd), m) <=> m = n % 64
          /\ CommandOf(ArbitrationId(n, cmd)) = cmd
    BY AddressRoundTrip, Zenon
  <2>5. /\ \A m \in Nat : Accepts(frame.can_id, m) <=> m = node % 64
        /\ CommandOf(frame.can_id) = transfer.cmd
    <3> DEFINE cmd == transfer.cmd
    <3>1. cmd \in 0..31
      BY <2>3
    <3>2. /\ \A m \in Nat : Accepts(ArbitrationId(node, cmd), m) <=> m = node % 64
          /\ CommandOf(ArbitrationId(node, cmd)) = cmd
      <4> HIDE DEF cmd
      <4> QED BY <2>2, <3>1, <2>4, Zenon
    <3> QED BY <2>1, <3>2, Zenon
  <2> QED BY <2>2, <2>5
<1> QED BY <1>1, Invariance, PTL

\* decode_odrive_error accounts for every bit of every error word.
LEMMA NothingLost ==
  ASSUME NEW error
  PROVE  LET answer == DecodeError(error)
         IN /\ answer.names \cup answer.unknown = error
            /\ answer.names \cap answer.unknown = {}
            /\ answer.names \subseteq KnownErrors
  BY DEF DecodeError

\* What get_errors reports is what the drive raised, for every error word.
THEOREM AllErrorsReported == Spec => [](Agree(transfer) => ErrorsReported)
<1>1. ASSUME IInv, Agree(transfer) PROVE ErrorsReported
  BY <1>1, NothingLost DEF IInv, FieldsArrive, ErrorsReported
<1> QED BY <1>1, Invariance, PTL
=============================================================================
