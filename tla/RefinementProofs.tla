-------------------------- MODULE RefinementProofs --------------------------
(***************************************************************************)
(* A reliable transfer ends with the whole file, and every transfer        *)
(* implements FileDelivery: of all steps of the two programs only the      *)
(* receiver's write and its end-of-file change what FileDelivery sees, and *)
(* they are its two actions.                                               *)
(***************************************************************************)
EXTENDS WindowProofs

\* The receiver's table is as long as the part of the sender's that is used.
LEMMA SlotsStored == Slots \subseteq SndSlots
BY WindowAssumption DEF WindowAssumption, Slots, SndSlots

(***************************************************************************)
(* Queues that hold segments and ACKs in order.                            *)
(***************************************************************************)
\* A network without faults only queues datagrams.
LEMMA NothingFails ==
  ASSUME Faults = {}, NEW ch, NEW ch1, NEW d, Transmit(ch, ch1, d)
  PROVE  ch1 = Push(ch, d)
<1>1. Altered(d) = {}
  BY DEF Altered
<1>2. Misdelivered(ch, d) = {}
  BY <1>1 DEF Misdelivered
<1> QED
  BY <1>2 DEF Transmit

\* What a queue with room becomes.
LEMMA PushLast ==
  ASSUME NEW S, NEW ch \in Seq(S), NEW d \in S, Len(ch) < Capacity
  PROVE  /\ Push(ch, d) \in Seq(S) /\ Len(Push(ch, d)) = Len(ch) + 1
         /\ Push(ch, d)[Len(ch) + 1] = d
         /\ \A i \in 1 .. Len(ch) : Push(ch, d)[i] = ch[i]
         /\ \A i \in 1 .. Len(Push(ch, d)) : i \in 1 .. Len(ch) \/ i = Len(ch) + 1
<1>1. Push(ch, d) = Append(ch, d) /\ Len(ch) \in Nat
  BY DEF Push
<1>2. /\ Append(ch, d) \in Seq(S) /\ Len(Append(ch, d)) = Len(ch) + 1
      /\ Append(ch, d)[Len(ch) + 1] = d
      /\ \A i \in 1 .. Len(ch) : Append(ch, d)[i] = ch[i]
  BY <1>1
<1> QED
  BY <1>1, <1>2

\* What a queue becomes when its first datagram is taken.
LEMMA TailShifts ==
  ASSUME NEW S, NEW ch \in Seq(S), ch # <<>>
  PROVE  /\ Len(ch) \in Nat /\ Len(ch) >= 1 /\ Head(ch) = ch[1] /\ Head(ch) \in S
         /\ Tail(ch) \in Seq(S) /\ Len(Tail(ch)) = Len(ch) - 1
         /\ \A i \in 1 .. Len(Tail(ch)) : i + 1 \in 1 .. Len(ch) /\ Tail(ch)[i] = ch[i + 1]
OBVIOUS

\* What is written after the end of the file was read comes last.
LEMMA InOrderAfter ==
  ASSUME NEW S, NEW ch \in Seq(S), NEW d \in S, NEW r \in Nat, NEW s \in Nat, NEW end,
         SegmentsInOrder(ch, r, s, end), end = 1, d \in Superfluous(s)
  PROVE  SegmentsInOrder(Push(ch, d), r, s, end)
<1>1. CASE Len(ch) < Capacity
  <2> DEFINE q == Push(ch, d)
  <2>1. /\ Len(q) = Len(ch) + 1 /\ Len(ch) \in Nat
        /\ q[Len(ch) + 1] = d /\ \A i \in 1 .. Len(ch) : q[i] = ch[i]
        /\ \A i \in 1 .. Len(q) : i \in 1 .. Len(ch) \/ i = Len(ch) + 1
    BY <1>1, PushLast
  <2> HIDE DEF q
  <2>2. ASSUME NEW i \in 1 .. Len(ch)
        PROVE  IF i <= s - r THEN q[i] = NthDatagram(r + i)
                             ELSE end = 1 /\ q[i] \in Superfluous(s)
    BY <2>1, <2>2 DEF SegmentsInOrder
  <2>3. s - r <= Len(ch)
    BY DEF SegmentsInOrder
  <2>4. ~(Len(ch) + 1 <= s - r)
    BY <2>1, <2>3
  <2> QED
    BY <2>1, <2>2, <2>3, <2>4 DEF SegmentsInOrder, q
<1>2. CASE ~(Len(ch) < Capacity)
  BY <1>2 DEF Push
<1> QED
  BY <1>1, <1>2

\* The next segment is written behind the others.
LEMMA InOrderNext ==
  ASSUME NEW S, NEW ch \in Seq(S), NEW r \in Nat, NEW s \in Nat, r <= s,
         NthDatagram(s + 1) \in S, SegmentsInOrder(ch, r, s, 0), Len(ch) < Capacity
  PROVE  SegmentsInOrder(Push(ch, NthDatagram(s + 1)), r, s + 1, 0)
<1> DEFINE q == Push(ch, NthDatagram(s + 1))
<1>1. /\ Len(q) = Len(ch) + 1 /\ Len(ch) \in Nat
      /\ q[Len(ch) + 1] = NthDatagram(s + 1)
      /\ \A i \in 1 .. Len(ch) : q[i] = ch[i]
      /\ \A i \in 1 .. Len(q) : i \in 1 .. Len(ch) \/ i = Len(ch) + 1
  BY PushLast
<1>2. Len(ch) = s - r
  <2>1. ASSUME Len(ch) > s - r PROVE FALSE
    <3>1. Len(ch) \in 1 .. Len(ch)
      BY <1>1, <2>1
    <3> QED
      BY <1>1, <2>1, <3>1 DEF SegmentsInOrder
  <2>2. s - r <= Len(ch)
    BY DEF SegmentsInOrder
  <2> QED
    BY <1>1, <2>1, <2>2
<1> HIDE DEF q
<1>3. \A i \in 1 .. Len(q) : i <= s + 1 - r /\ q[i] = NthDatagram(r + i)
  <2>1. ASSUME NEW i \in 1 .. Len(ch) PROVE i <= s - r /\ q[i] = NthDatagram(r + i)
    BY <1>1, <1>2, <2>1 DEF SegmentsInOrder
  <2>2. r + (Len(ch) + 1) = s + 1
    BY <1>1, <1>2
  <2> QED
    BY <1>1, <1>2, <2>1, <2>2
<1> QED
  BY <1>1, <1>2, <1>3 DEF SegmentsInOrder, q

\* The first datagram is the next segment, or there is none left.
LEMMA InOrderHead ==
  ASSUME NEW S, NEW ch \in Seq(S), ch # <<>>, NEW r \in Nat, NEW s \in Nat, r <= s,
         NEW end, SegmentsInOrder(ch, r, s, end)
  PROVE  \/ /\ r < s /\ Head(ch) = NthDatagram(r + 1)
            /\ SegmentsInOrder(Tail(ch), r + 1, s, end)
         \/ /\ r = s /\ end = 1 /\ Head(ch) \in Superfluous(s)
            /\ SegmentsInOrder(Tail(ch), r, s, end)
<1> DEFINE q == Tail(ch)
<1>1. /\ Len(ch) \in Nat /\ Len(ch) >= 1 /\ Head(ch) = ch[1]
      /\ Len(q) = Len(ch) - 1
      /\ \A i \in 1 .. Len(q) : i + 1 \in 1 .. Len(ch) /\ q[i] = ch[i + 1]
  BY TailShifts
<1> HIDE DEF q
<1>2. CASE r < s
  <2>1. Head(ch) = NthDatagram(r + 1)
    BY <1>1, <1>2 DEF SegmentsInOrder
  <2>2. ASSUME NEW i \in 1 .. Len(q)
        PROVE  IF i <= s - (r + 1) THEN q[i] = NthDatagram(r + 1 + i)
                                   ELSE end = 1 /\ q[i] \in Superfluous(s)
    <3>1. IF i + 1 <= s - r THEN q[i] = NthDatagram(r + (i + 1))
                            ELSE end = 1 /\ q[i] \in Superfluous(s)
      BY <1>1, <2>2 DEF SegmentsInOrder
    <3>2. r + (i + 1) = r + 1 + i /\ (i + 1 <= s - r <=> i <= s - (r + 1))
      BY <1>1, <2>2
    <3> QED
      BY <3>1, <3>2
  <2>3. s - (r + 1) <= Len(q)
    BY <1>1 DEF SegmentsInOrder
  <2> QED
    BY <1>2, <2>1, <2>2, <2>3 DEF SegmentsInOrder, q
<1>3. CASE r = s
  <2>1. \A i \in 1 .. Len(ch) : end = 1 /\ ch[i] \in Superfluous(s)
    BY <1>1, <1>3 DEF SegmentsInOrder
  <2>2. 1 \in 1 .. Len(ch)
    BY <1>1
  <2>3. \A i \in 1 .. Len(q) : ~(i <= s - r) /\ q[i] \in Superfluous(s)
    BY <1>1, <1>3, <2>1
  <2>4. s - r <= Len(q)
    BY <1>1, <1>3
  <2> QED
    BY <1>1, <1>3, <2>1, <2>2, <2>3, <2>4 DEF SegmentsInOrder, q
<1> QED
  BY <1>2, <1>3

\* The first ACK is for the oldest segment.
LEMMA AcksHead ==
  ASSUME NEW S, NEW ch \in Seq(S), ch # <<>>, NEW low \in Int, NEW high \in Int,
         AcksInOrder(ch, low, high)
  PROVE  /\ Head(ch).SEQNUM = (low + 1) % SEQ_MOD
         /\ AcksInOrder(Tail(ch), low + 1, high)
<1> DEFINE q == Tail(ch)
<1>1. /\ Len(ch) \in Nat /\ Len(ch) >= 1 /\ Head(ch) = ch[1]
      /\ Len(q) = Len(ch) - 1
      /\ \A i \in 1 .. Len(q) : i + 1 \in 1 .. Len(ch) /\ q[i] = ch[i + 1]
  BY TailShifts
<1> HIDE DEF q
<1>2. Len(ch) = high - low /\ ch[1].SEQNUM = (low + 1) % SEQ_MOD
  BY <1>1 DEF AcksInOrder
<1>3. ASSUME NEW i \in 1 .. Len(q) PROVE q[i].SEQNUM = (low + 1 + i) % SEQ_MOD
  <2>1. q[i].SEQNUM = (low + (i + 1)) % SEQ_MOD
    BY <1>1, <1>3 DEF AcksInOrder
  <2>2. low + (i + 1) = low + 1 + i
    BY <1>1, <1>3
  <2> QED
    BY <2>1, <2>2
<1>4. Len(q) = high - (low + 1)
  BY <1>1, <1>2
<1> QED
  BY <1>1, <1>2, <1>3, <1>4 DEF AcksInOrder, q

\* The next ACK is written behind the others.
LEMMA AcksPush ==
  ASSUME NEW S, NEW ch \in Seq(S), NEW low \in Int, NEW high \in Int, NEW d \in S,
         AcksInOrder(ch, low, high), d.SEQNUM = (high + 1) % SEQ_MOD,
         Len(ch) < Capacity
  PROVE  AcksInOrder(Push(ch, d), low, high + 1)
<1> DEFINE q == Push(ch, d)
<1>1. /\ Len(q) = Len(ch) + 1 /\ Len(ch) \in Nat /\ q[Len(ch) + 1] = d
      /\ \A i \in 1 .. Len(ch) : q[i] = ch[i]
      /\ \A i \in 1 .. Len(q) : i \in 1 .. Len(ch) \/ i = Len(ch) + 1
  BY PushLast
<1> HIDE DEF q
<1>2. Len(ch) = high - low /\ \A i \in 1 .. Len(ch) : ch[i].SEQNUM = (low + i) % SEQ_MOD
  BY DEF AcksInOrder
<1>3. low + (Len(ch) + 1) = high + 1 /\ Len(q) = high + 1 - low
  BY <1>1, <1>2
<1>4. \A i \in 1 .. Len(q) : q[i].SEQNUM = (low + i) % SEQ_MOD
  BY <1>1, <1>2, <1>3
<1> QED
  BY <1>3, <1>4 DEF AcksInOrder, q

-----------------------------------------------------------------------------
(***************************************************************************)
(* The steps of the sender.                                                *)
(***************************************************************************)
\* All that is known of a state of a reliable transfer.
ReliableState ==
  /\ ReliableTransfer /\ FillsTable
  /\ TypeOK /\ TableInvariant /\ ReliableSound

\* Its parts, to be cited.
LEMMA ReliableFacts ==
  ASSUME ReliableState
  PROVE  /\ Faults = {} /\ Timely /\ TypeOK /\ TableInvariant /\ AcksOnly /\ TableFilled
         /\ ReliableSound /\ ReliableReceiver /\ ReliableSender /\ ~s_err /\ ~r_err
         /\ toRcv \in Seq(DatagramSet) /\ toSnd \in Seq(DatagramSet)
         /\ toSnd \in Seq(IntactAcks) /\ endFile \in {0, 1}
         /\ s_window \in {1, RCV_WINDOW} /\ NoStaleDamage
<1>1. TableInvariant /\ ReliableSound /\ TypeOK /\ Faults = {} /\ Timely
  BY DEF ReliableState, ReliableTransfer
<1>2. AcksOnly /\ TableFilled
  BY <1>1 DEF TableInvariant
<1>3. ReliableReceiver /\ ReliableSender /\ ~s_err /\ ~r_err /\ toSnd \in Seq(IntactAcks)
  BY <1>1 DEF ReliableSound
<1>4. toRcv \in Seq(DatagramSet) /\ toSnd \in Seq(DatagramSet) /\ endFile \in {0, 1}
  BY <1>1 DEF TypeOK, NetworkTypeOK, SenderTypeOK
<1>5. s_window \in {1, RCV_WINDOW} /\ NoStaleDamage
  BY <1>1, <1>3 DEF ReliableSender, NoStaleDamage
<1> QED
  BY <1>1, <1>2, <1>3, <1>4, <1>5

\* How far each side is: segments sent, received, written and acknowledged.
LEMMA ReliableNumbers ==
  ASSUME ReliableState
  PROVE  /\ SEQ_MOD \in Nat \ {0} /\ RCV_WINDOW \in 1 .. 7 /\ 2 * RCV_WINDOW <= SEQ_MOD
         /\ RCV_WINDOW \in Nat \ {0}
         /\ Capacity \in Nat \ {0} /\ InFlight \in Nat /\ InFlight <= Capacity
         /\ NSegments \in Nat /\ seq_ind \in Nat /\ seq_ind <= NSegments
         /\ s_window \in {1, RCV_WINDOW} /\ index \in Slots
         /\ Len(written) \in Nat /\ Len(toSnd) \in Nat /\ Len(toRcv) \in Nat
         /\ Received \in Nat /\ Received <= seq_ind /\ Len(written) <= Received
         /\ Acked \in Int /\ Acked <= Len(written)
         /\ Confirmed \in Int /\ Confirmed <= Acked
         /\ IF buffer_payload[index] = NoData THEN Received = Len(written)
            ELSE /\ Received = Len(written) + 1 /\ Acked = Len(written)
                 /\ buffer_payload[index] = Len(written) + 1
         /\ r_pc # "flush" => Received = Len(written) /\ Acked = Len(written)
<1>1. TypeOK /\ ReliableSound /\ ReliableReceiver /\ ReliableTransfer
  BY ReliableFacts DEF ReliableState
<1>2. /\ seq_ind \in Nat /\ NSegments \in Nat /\ SEQ_MOD \in Nat \ {0}
      /\ RCV_WINDOW \in 1 .. 7 /\ seq_ind <= NSegments /\ s_window \in {1, RCV_WINDOW}
      /\ RCV_WINDOW \in Nat \ {0}
  <2>1. RCV_WINDOW \in 1 .. 7 => RCV_WINDOW \in Nat \ {0}
    OBVIOUS
  <2> QED
    BY <1>1, <2>1, OldestNumbers, ReliableFacts
<1>3. Capacity \in Nat \ {0} /\ InFlight \in Nat /\ InFlight <= Capacity
      /\ 2 * RCV_WINDOW <= SEQ_MOD
  BY <1>1, <1>2, NetworkAssumption DEF NetworkAssumption, ReliableTransfer, InFlight
<1>4. index \in Slots /\ Len(written) \in Nat /\ Len(toSnd) \in Nat /\ Len(toRcv) \in Nat
  <2>1. index \in Slots /\ written \in Seq(Payloads \ {NoData})
    BY <1>1 DEF TypeOK, ReceiverTypeOK
  <2> QED
    BY <2>1, ReliableFacts
<1>5. Received <= seq_ind
  BY <1>1 DEF ReliableSound
<1>6. Acked \in Int /\ Acked <= Len(written)
  BY <1>4 DEF Acked
<1>7. Confirmed \in Int /\ Confirmed <= Acked
  BY <1>4, <1>6 DEF Confirmed
<1>8. CASE buffer_payload[index] = NoData
  <2>1. Received = Len(written)
    BY <1>4, <1>8 DEF Received
  <2>2. r_pc # "flush" => Acked = Len(written)
    BY DEF Acked
  <2> QED
    BY <1>2, <1>3, <1>4, <1>5, <1>6, <1>7, <1>8, <2>1, <2>2
<1>9. CASE buffer_payload[index] # NoData
  <2>1. buffer_payload[index] = Len(written) + 1 /\ r_pc = "flush"
    BY <1>1, <1>4, <1>9 DEF ReliableReceiver
  <2>2. Received = Len(written) + 1 /\ Acked = Len(written)
    BY <1>4, <1>9 DEF Received, Acked
  <2>3. Len(written) <= Received /\ Received \in Nat
    BY <1>4, <2>2
  <2> QED
    BY <1>2, <1>3, <1>4, <1>5, <1>6, <1>7, <1>9, <2>1, <2>2, <2>3
<1> QED
  BY <1>8, <1>9

\* Until the end of the file is read the sender knows how far its ACKs are.
LEMMA ReliableAcks ==
  ASSUME ReliableState, endFile = 0
  PROVE  /\ AcksInOrder(toSnd, Confirmed, Acked) /\ Confirmed \in Nat
         /\ small_seq = Confirmed % SEQ_MOD /\ seq_ind - Confirmed <= InFlight
<1>1. /\ AcksInOrder(toSnd, Confirmed, Acked) /\ 0 <= Confirmed
      /\ small_seq = Confirmed % SEQ_MOD /\ seq_ind - Confirmed <= InFlight
  BY ReliableFacts DEF ReliableSound
<1> QED
  BY <1>1, ReliableNumbers

\* Every segment has a number.
LEMMA NthType ==
  ASSUME NEW n \in 1 .. NSegments
  PROVE  NthDatagram(n) \in DatagramSet
<1>1. n - 1 \in Int /\ n \in Payloads /\ SEQ_MOD \in Nat \ {0}
  BY SenderAssumption, SeqModAssumption DEF SenderAssumption, SeqModAssumption, Payloads
<1>2. (n - 1) % SEQ_MOD \in SeqNums
  BY <1>1, ModRange DEF SeqNums
<1> QED
  BY <1>1, <1>2, DataDatagramType DEF NthDatagram, NthSegment

\* Steps of the sender do not change what the receiver has.
LEMMA ReceiverKept ==
  ASSUME ReliableReceiver, UNCHANGED rcvVars, toSnd = <<>> => toSnd' = <<>>,
         endFile = 1 => endFile' = 1
  PROVE  /\ ReliableReceiver' /\ Received' = Received /\ Acked' = Acked
         /\ UNCHANGED <<r_pc, index, written, buffer_payload>>
<1>1. UNCHANGED <<r_pc, r_seq_exp, index, written, buffer_payload>>
  BY DEF rcvVars
<1>2. Received' = Received /\ Acked' = Acked
  BY <1>1 DEF Received, Acked
<1>3. ReliableReceiver'
  BY <1>1 DEF ReliableReceiver
<1> QED
  BY <1>1, <1>2, <1>3

\* A step of the sender that neither stores a segment nor reads an answer.
LEMMA ReliableFrame ==
  ASSUME ReliableSound, UNCHANGED <<rcvVars, protocolVars, toSnd, s_err, r_err>>,
         packet_encoded'.PAYLOAD = NoData,
         \/ FirstLost /\ UNCHANGED toRcv
         \/ SegmentsInOrder(toRcv', Received, seq_ind, endFile),
         s_pc' = "end_encode" \/ s_pc' \in EndPhase => endFile = 1,
         s_pc' = "timer" /\ endFile = 0 => FirstLost /\ UNCHANGED toRcv
  PROVE  ReliableSound'
<1>1. /\ UNCHANGED <<seq_ind, s_seq_exp, small_seq, endFile, s_window, buffer>>
      /\ ReliableReceiver /\ ReliableSender
  BY DEF protocolVars, ReliableSound
<1>2. /\ ReliableReceiver' /\ Received' = Received /\ Acked' = Acked
      /\ UNCHANGED <<r_pc, index, written, buffer_payload>>
  BY <1>1, ReceiverKept
<1>3. FirstLost /\ UNCHANGED toRcv => FirstLost'
  BY <1>1, <1>2 DEF FirstLost
<1>4. (FirstLost \/ SegmentsInOrder(toRcv, Received, seq_ind, endFile))'
  BY <1>1, <1>2, <1>3
<1>5. Confirmed' = Confirmed
  BY <1>2 DEF Confirmed
<1>6. ReliableSender'
  BY <1>1, <1>2, <1>3 DEF ReliableSender
<1> QED
  BY <1>1, <1>2, <1>4, <1>5, <1>6 DEF ReliableSound

\* The first segment has to be acknowledged before the second one is read, or
\* the end of the file; and the window test keeps room for one more.
LEMMA FirstAcknowledged ==
  ASSUME ReliableState, s_pc = "file"
  PROVE  /\ endFile = 0 /\ ~FirstLost
         /\ s_window = RCV_WINDOW \/ seq_ind = 0
         /\ seq_ind > 0 => written # <<>>
         /\ seq_ind < NSegments => seq_ind + 1 - Confirmed <= InFlight
<1>1. endFile = 0 /\ FileSelected
  BY ReliableFacts DEF TableFilled
<1>2. seq_ind > 0 => s_seq_exp - small_seq < s_window
  BY <1>1, ReliableFacts, ReliableNumbers DEF TableFilled, FileSelected, isNotFull
<1>3. Confirmed \in Nat /\ small_seq = Confirmed % SEQ_MOD /\ s_seq_exp = seq_ind % SEQ_MOD
  BY <1>1, ReliableAcks, ReliableFacts DEF ReliableSender
<1>4. s_window = RCV_WINDOW \/ seq_ind = 0
  <2> SUFFICES ASSUME s_window # RCV_WINDOW, seq_ind # 0 PROVE FALSE
    OBVIOUS
  <2>1. s_window = 1 /\ small_seq = 0 /\ seq_ind <= 1 /\ s_seq_exp = seq_ind
    BY ReliableFacts, ReliableNumbers DEF TableFilled
  <2> QED
    BY <1>2, <2>1, ReliableNumbers
<1>5. seq_ind > 0 => written # <<>>
  <2> SUFFICES ASSUME seq_ind > 0 PROVE written # <<>>
    OBVIOUS
  <2>1. s_window > 1 \/ seq_ind > 1 => written # <<>>
    BY <1>1, ReliableFacts DEF ReliableSender
  <2>2. CASE s_window = 1 /\ seq_ind = 1
    <3>1. s_seq_exp = 1
      BY <1>3, <2>2, ModSmall, ReliableNumbers
    <3>2. small_seq >= 1
      <4>1. small_seq \in Nat
        BY ReliableFacts, OldestNumbers
      <4> QED
        BY <1>2, <2>2, <3>1, <4>1
    <3>3. Confirmed >= 1
      <4>1. small_seq <= Confirmed
        BY <1>3, ModAtMost, ReliableNumbers
      <4>2. small_seq \in Nat
        BY ReliableFacts, OldestNumbers
      <4> QED
        BY <1>3, <3>2, <4>1, <4>2
    <3>4. Len(written) >= 1
      BY <1>3, <3>3, ReliableNumbers
    <3> QED
      BY <3>4
  <2> QED
    BY <2>1, <2>2, ReliableNumbers
<1>6. ~FirstLost
  BY <1>5, ReliableNumbers DEF FirstLost
<1>7. seq_ind < NSegments => seq_ind + 1 - Confirmed <= InFlight
  <2> SUFFICES ASSUME seq_ind < NSegments PROVE seq_ind + 1 - Confirmed <= InFlight
    OBVIOUS
  <2>1. CASE NoWrap
    <3>1. InFlight = RCV_WINDOW
      BY <2>1 DEF InFlight
    <3>2. seq_ind \in 0 .. SEQ_MOD - 1 /\ Confirmed \in 0 .. SEQ_MOD - 1
      <4>1. /\ seq_ind \in Nat /\ seq_ind <= NSegments /\ NSegments \in Nat
            /\ SEQ_MOD \in Nat /\ Confirmed <= Acked /\ Acked <= Len(written)
            /\ Len(written) <= Received /\ Received <= seq_ind
            /\ Acked \in Int /\ Len(written) \in Nat /\ Received \in Nat
        BY ReliableNumbers
      <4>2. NSegments <= SEQ_MOD - 1
        BY <2>1, <4>1 DEF NoWrap
      <4> QED
        BY <1>3, <4>1, <4>2
    <3>3. s_seq_exp = seq_ind /\ small_seq = Confirmed
      BY <1>3, <3>2, ModSmall, ReliableNumbers
    <3>4. CASE seq_ind > 0
      <4>1. seq_ind - Confirmed < s_window
        BY <1>2, <3>3, <3>4
      <4>2. seq_ind \in Nat /\ RCV_WINDOW \in Nat
        BY ReliableNumbers
      <4> QED
        BY <1>3, <1>4, <3>1, <3>4, <4>1, <4>2
    <3>5. CASE seq_ind = 0
      BY <1>3, <3>1, <3>5, ReliableNumbers
    <3> QED
      BY <3>4, <3>5, ReliableNumbers
  <2>2. CASE ~NoWrap
    <3>1. InFlight = NSegments
      BY <2>2 DEF InFlight
    <3> QED
      BY <1>3, <3>1, ReliableNumbers
  <2> QED
    BY <2>1, <2>2
<1> QED
  BY <1>1, <1>4, <1>5, <1>6, <1>7

\* Until the end of the file is read no more is on the way than the window, or
\* the file, allows.
LEMMA RoomToSend ==
  ASSUME ReliableState, s_pc = "file", seq_ind < NSegments
  PROVE  Len(toRcv) < InFlight
<1>1. endFile = 0 /\ ~FirstLost /\ seq_ind + 1 - Confirmed <= InFlight
  BY FirstAcknowledged
<1>2. SegmentsInOrder(toRcv, Received, seq_ind, 0)
  BY <1>1, ReliableFacts DEF ReliableSound
<1>3. Len(toRcv) <= seq_ind - Received
  <2> SUFFICES ASSUME Len(toRcv) > seq_ind - Received PROVE FALSE
    BY ReliableNumbers
  <2>1. Len(toRcv) \in 1 .. Len(toRcv) /\ ~(Len(toRcv) <= seq_ind - Received)
    BY ReliableNumbers
  <2> QED
    BY <1>2, <2>1 DEF SegmentsInOrder
<1>4. Confirmed <= Received
  BY ReliableNumbers
<1> QED
  BY <1>1, <1>3, <1>4, ReliableNumbers

\* A new segment takes the slot of the one a window before it.
LEMMA StoreRecent ==
  ASSUME ReliableState, ReadSegment
  PROVE  \A i \in SndSlots : buffer'[i] # Uninit =>
           \E k \in Recent(seq_ind + 1) :
             (k - 1) % RCV_WINDOW = i /\ buffer'[i] = NthSegment(k)
<1> DEFINE j == seq_ind % RCV_WINDOW
           n == seq_ind + 1
<1>1. seq_ind \in Nat /\ n - 1 = seq_ind /\ RCV_WINDOW \in Nat \ {0} /\ n \in Nat
  <2>1. seq_ind \in Nat /\ RCV_WINDOW \in Nat \ {0}
    BY ReliableNumbers
  <2> QED
    BY <2>1
<1>2. seq_ind % s_window = j
  <2>1. s_window = RCV_WINDOW \/ seq_ind = 0
    BY FirstAcknowledged DEF ReadSegment
  <2>2. 0 % s_window = 0 /\ 0 % RCV_WINDOW = 0
    BY ModSmall, ReliableNumbers
  <2> QED
    BY <2>1, <2>2
<1>3. DOMAIN buffer = SndSlots /\ j \in SndSlots
  <2>1. j \in Slots
    BY <1>1, ModRange DEF Slots
  <2> QED
    BY <2>1, SlotsStored, ReliableFacts DEF TypeOK, SenderTypeOK
<1>4. buffer' = [buffer EXCEPT ![j] = NthSegment(n)]
  <2>1. s_seq_exp = (n - 1) % SEQ_MOD
    BY <1>1, ReliableFacts DEF ReliableSender
  <2> QED
    BY <1>2, <2>1 DEF ReadSegment, NthSegment
<1>5. n \in Recent(n) /\ (n - 1) % RCV_WINDOW = j
  BY <1>1 DEF Recent
<1>6. ASSUME NEW i \in SndSlots, i # j, buffer[i] # Uninit
      PROVE  \E k \in Recent(n) : (k - 1) % RCV_WINDOW = i /\ buffer[i] = NthSegment(k)
  <2>1. PICK k \in Recent(seq_ind) : (k - 1) % RCV_WINDOW = i /\ buffer[i] = NthSegment(k)
    BY <1>6, ReliableFacts DEF ReliableSender
  <2>2. k \in 1 .. seq_ind /\ seq_ind < k + RCV_WINDOW
    BY <2>1 DEF Recent
  <2>3. n # k + RCV_WINDOW
    <3>1. SUFFICES ASSUME n = k + RCV_WINDOW PROVE FALSE
      OBVIOUS
    <3> DEFINE m == k - 1
    <3>2. seq_ind = RCV_WINDOW * 1 + m /\ m \in Int /\ seq_ind \in Int /\ 1 \in Int
      BY <1>1, <2>2, <3>1
    <3> HIDE DEF m
    <3>3. seq_ind % RCV_WINDOW = m % RCV_WINDOW
      BY <1>1, <3>2, ModMultiple
    <3> QED
      BY <1>6, <2>1, <3>3 DEF m
  <2>4. k \in Recent(n)
    BY <1>1, <2>2, <2>3 DEF Recent
  <2> QED
    BY <2>1, <2>4
<1> HIDE DEF j, n
<1>7. ASSUME NEW i \in SndSlots, buffer'[i] # Uninit
      PROVE  \E k \in Recent(n) : (k - 1) % RCV_WINDOW = i /\ buffer'[i] = NthSegment(k)
  <2>1. CASE i = j
    <3>1. buffer'[i] = NthSegment(n)
      BY <1>3, <1>4, <2>1
    <3> QED
      BY <1>5, <2>1, <3>1
  <2>2. CASE i # j
    <3>1. buffer'[i] = buffer[i]
      BY <1>3, <1>4, <2>2
    <3> QED
      BY <1>6, <1>7, <2>2, <3>1
  <2> QED
    BY <2>1, <2>2
<1> QED
  BY <1>7 DEF n

\* A new segment goes behind the others on the way, for which the queue has room.
LEMMA ReliableReadSegment ==
  ASSUME ReliableState, ReadSegment, UNCHANGED rcvVars
  PROVE  ReliableSound'
<1>1. /\ s_pc = "file" /\ seq_ind < NSegments /\ seq_ind' = seq_ind + 1
      /\ s_seq_exp' = (s_seq_exp + 1) % SEQ_MOD
      /\ UNCHANGED <<toSnd, s_err, r_err, endFile, small_seq, s_window, packet_encoded>>
      /\ s_pc' \in {"socket", "select", "end_encode"} /\ (s_pc' = "end_encode" => endFile = 1)
  BY ReliableFacts DEF ReadSegment, Go, AfterFile, AfterSocket, LoopHead
<1>2. /\ endFile = 0 /\ ~FirstLost /\ (seq_ind > 0 => written # <<>>)
      /\ seq_ind + 1 - Confirmed <= InFlight
  BY <1>1, FirstAcknowledged
<1>3. /\ ReliableReceiver' /\ Received' = Received /\ Acked' = Acked
      /\ UNCHANGED <<r_pc, index, written, buffer_payload>>
  BY <1>1, ReceiverKept, ReliableFacts
<1>4. Confirmed' = Confirmed
  BY <1>1, <1>3 DEF Confirmed
<1>5. toRcv' = Push(toRcv, NthDatagram(seq_ind + 1))
  <2>1. Transmit(toRcv, toRcv', DataDatagram(Segment(s_seq_exp, seq_ind + 1)))
    BY DEF ReadSegment, Write
  <2>2. toRcv' = Push(toRcv, DataDatagram(Segment(s_seq_exp, seq_ind + 1)))
    BY <2>1, ReliableFacts, NothingFails
  <2>3. s_seq_exp = ((seq_ind + 1) - 1) % SEQ_MOD
    <3>1. (seq_ind + 1) - 1 = seq_ind
      BY ReliableNumbers
    <3> QED
      BY <3>1, ReliableFacts DEF ReliableSender
  <2> QED
    BY <2>2, <2>3 DEF NthDatagram, NthSegment
<1>6. SegmentsInOrder(toRcv, Received, seq_ind, 0)
  BY <1>2, ReliableFacts DEF ReliableSound
<1>7. Len(toRcv) < Capacity
  BY <1>1, RoomToSend, ReliableNumbers
<1>8. SegmentsInOrder(toRcv', Received, seq_ind + 1, 0)
  <2>1. NthDatagram(seq_ind + 1) \in DatagramSet
    BY <1>1, NthType, ReliableNumbers
  <2> QED
    BY <1>5, <1>6, <1>7, <2>1, InOrderNext, ReliableFacts, ReliableNumbers
<1>9. s_seq_exp' = seq_ind' % SEQ_MOD
  <2>1. s_seq_exp = seq_ind % SEQ_MOD
    BY ReliableFacts DEF ReliableSender
  <2>2. seq_ind \in Int /\ 1 \in Int /\ SEQ_MOD \in Nat \ {0}
    BY ReliableNumbers
  <2>3. ((seq_ind % SEQ_MOD) + 1) % SEQ_MOD = (seq_ind + 1) % SEQ_MOD
    BY <2>2, ModAdd
  <2> QED
    BY <1>1, <2>1, <2>3
<1>10. s_window > 1 \/ seq_ind' > 1 => written # <<>>
  BY <1>1, <1>2, ReliableFacts, ReliableNumbers DEF ReliableSender
<1>11. ReliableSender'
  BY <1>1, <1>2, <1>3, <1>9, <1>10, StoreRecent, ReliableFacts
  DEF ReliableSender, EndPhase, Done
<1>12. (endFile = 0 => /\ AcksInOrder(toSnd, Confirmed, Acked) /\ 0 <= Confirmed
                       /\ small_seq = Confirmed % SEQ_MOD
                       /\ seq_ind - Confirmed <= InFlight)'
  <2>1. /\ AcksInOrder(toSnd, Confirmed, Acked) /\ 0 <= Confirmed
        /\ small_seq = Confirmed % SEQ_MOD
    BY <1>2, ReliableAcks
  <2>2. seq_ind' - Confirmed <= InFlight
    <3>1. seq_ind' - Confirmed = seq_ind + 1 - Confirmed
      BY <1>1, ReliableNumbers
    <3> QED
      BY <1>2, <3>1
  <2> QED
    BY <1>1, <1>3, <1>4, <2>1, <2>2
<1>13. Received' <= seq_ind'
  BY <1>1, <1>3, ReliableNumbers
<1> QED
  BY <1>1, <1>2, <1>3, <1>8, <1>11, <1>12, <1>13, ReliableFacts DEF ReliableSound

\* At the end of the file all segments were sent.
LEMMA ReliableReadEnd ==
  ASSUME ReliableState, ReadEndOfFile, UNCHANGED rcvVars
  PROVE  ReliableSound'
<1>1. /\ s_pc = "file" /\ seq_ind = NSegments /\ endFile' = 1
      /\ UNCHANGED <<toRcv, toSnd, s_err, r_err, small_seq, seq_ind, s_seq_exp, s_window,
                     buffer, packet_encoded>>
  BY DEF ReadEndOfFile, AtEndOfFile, netVars
<1>2. endFile = 0 /\ ~FirstLost /\ (seq_ind > 0 => written # <<>>)
  BY <1>1, FirstAcknowledged
<1>3. /\ ReliableReceiver' /\ Received' = Received /\ Acked' = Acked
      /\ UNCHANGED <<r_pc, index, written, buffer_payload>>
  BY <1>1, ReceiverKept, ReliableFacts
<1>4. SegmentsInOrder(toRcv, Received, seq_ind, 1)
  BY <1>2, ReliableFacts DEF ReliableSound, SegmentsInOrder
<1>5. ReliableSender'
  BY <1>1, <1>2, <1>3, ReliableFacts DEF ReliableSender
<1> QED
  BY <1>1, <1>3, <1>4, <1>5, ReliableFacts DEF ReliableSound

\* ACKs move small_seq one by one.
LEMMA ReliableHandleAck ==
  ASSUME ReliableState, HandleAck, UNCHANGED rcvVars
  PROVE  ReliableSound'
<1>1. /\ s_pc = "socket" /\ toSnd # <<>> /\ toSnd' = Tail(toSnd)
      /\ small_seq' = Head(toSnd).SEQNUM /\ s_err' = FALSE
      /\ UNCHANGED <<toRcv, r_err, endFile, seq_ind, s_seq_exp, buffer, packet_encoded>>
      /\ s_pc' \in {"select", "end_encode"} /\ (s_pc' = "end_encode" => endFile = 1)
      /\ s_window' = RCV_WINDOW
  <2>1. s_window' = RCV_WINDOW
    BY ReliableFacts, AckAtHand, ReplyWindow DEF HandleAck
  <2> QED
    BY <2>1, ReliableFacts
    DEF HandleAck, ReadReply, Reply, Header, Go, AfterReply, LoopHead
<1>2. /\ ReliableReceiver' /\ Received' = Received /\ Acked' = Acked
      /\ UNCHANGED <<r_pc, index, written, buffer_payload>>
  BY <1>1, ReceiverKept, ReliableFacts
<1>3. r_pc \notin {"unbound", "wait"} /\ ~FirstLost
  BY <1>1, ReliableFacts DEF ReliableReceiver, FirstLost
<1>4. SegmentsInOrder(toRcv, Received, seq_ind, endFile)'
  BY <1>1, <1>2, <1>3, ReliableFacts DEF ReliableSound
<1>5. /\ toSnd' \in Seq(IntactAcks) /\ Len(toSnd) >= 1 /\ Len(toSnd') = Len(toSnd) - 1
  BY <1>1, TailShifts, ReliableFacts
<1>6. Confirmed' = Confirmed + 1
  BY <1>2, <1>5, ReliableNumbers DEF Confirmed
<1>7. ASSUME endFile = 0
      PROVE  /\ AcksInOrder(toSnd', Confirmed + 1, Acked) /\ 0 <= Confirmed + 1
             /\ small_seq' = (Confirmed + 1) % SEQ_MOD
             /\ seq_ind - (Confirmed + 1) <= InFlight /\ written # <<>>
  <2>1. /\ AcksInOrder(toSnd, Confirmed, Acked) /\ Confirmed \in Nat
        /\ seq_ind - Confirmed <= InFlight
    BY <1>7, ReliableAcks
  <2>2. /\ Head(toSnd).SEQNUM = (Confirmed + 1) % SEQ_MOD
        /\ AcksInOrder(Tail(toSnd), Confirmed + 1, Acked)
    BY <1>1, <2>1, AcksHead, ReliableFacts, ReliableNumbers
  <2>3. Len(written) >= 1
    <3>1. Len(toSnd) = Acked - Confirmed
      BY <2>1 DEF AcksInOrder
    <3>2. Acked \in Int /\ Len(written) \in Nat /\ Acked <= Len(written)
      BY ReliableNumbers
    <3> QED
      BY <1>5, <2>1, <3>1, <3>2
  <2>4. written # <<>>
    BY <2>3
  <2> QED
    BY <1>1, <2>1, <2>2, <2>4, ReliableNumbers
<1>8. ReliableSender'
  <2>1. ((IF endFile = 0 THEN s_window > 1 \/ seq_ind > 1 ELSE seq_ind > 0)
            => written # <<>>)'
    BY <1>1, <1>2, <1>7, ReliableFacts DEF ReliableSender
  <2> QED
    BY <1>1, <1>2, <2>1, ReliableFacts DEF ReliableSender, EndPhase, Done
<1>9. (endFile = 0 => /\ AcksInOrder(toSnd, Confirmed, Acked) /\ 0 <= Confirmed
                      /\ small_seq = Confirmed % SEQ_MOD
                      /\ seq_ind - Confirmed <= InFlight)'
  BY <1>1, <1>2, <1>6, <1>7
<1>10. Received' <= seq_ind'
  BY <1>1, <1>2, ReliableNumbers
<1> QED
  BY <1>1, <1>2, <1>4, <1>5, <1>8, <1>9, <1>10, ReliableFacts DEF ReliableSound

\* Before the end of the file the timer only expires when the first segment was
\* lost.
LEMMA ReliableTimeout ==
  ASSUME ReliableState, SenderTimeout
  PROVE  ReliableSound'
<1>1. /\ s_pc = "select" /\ (FileSelected => ~FromFile) /\ s_pc' = AfterSocket(endFile, 0)
      /\ toRcv = <<>> /\ toSnd = <<>> /\ r_pc # "flush"
      /\ UNCHANGED <<rcvVars, protocolVars, toRcv, toSnd, s_err, r_err, packet_encoded>>
  BY ReliableFacts DEF SenderTimeout, Quiet, SelectTimeout, netVars
<1>2. endFile = 0
  BY <1>1, ReliableFacts DEF TableFilled
<1>3. s_pc' = IF FromFile THEN "timer" ELSE "select"
  BY <1>1, <1>2 DEF AfterSocket, LoopHead
<1>4. ASSUME FromFile PROVE FirstLost
  <2>1. SUFFICES ASSUME ~FirstLost PROVE FALSE
    OBVIOUS
  <2>2. SegmentsInOrder(toRcv, Received, seq_ind, endFile)
    BY <2>1, ReliableFacts DEF ReliableSound
  <2>3. /\ AcksInOrder(toSnd, Confirmed, Acked) /\ small_seq = Confirmed % SEQ_MOD
        /\ s_seq_exp = seq_ind % SEQ_MOD
    BY <1>2, ReliableAcks, ReliableFacts DEF ReliableSender
  <2>4. Len(toRcv) = 0 /\ Len(toSnd) = 0
    BY <1>1
  <2>5. seq_ind - Received <= 0 /\ 0 = Acked - Confirmed
    BY <2>2, <2>3, <2>4 DEF SegmentsInOrder, AcksInOrder
  <2>6. seq_ind = Confirmed
    BY <1>1, <2>5, ReliableNumbers
  <2>7. s_seq_exp = small_seq
    BY <2>3, <2>6
  <2>8. isNotFull
    BY <2>7, ReliableFacts, OldestNumbers DEF isNotFull
  <2> QED
    BY <1>1, <1>2, <1>4, <2>8 DEF FileSelected
<1>5. \/ FirstLost /\ UNCHANGED toRcv
      \/ SegmentsInOrder(toRcv', Received, seq_ind, endFile)
  BY <1>1, ReliableFacts DEF ReliableSound
<1>6. packet_encoded'.PAYLOAD = NoData
  BY <1>1, ReliableFacts DEF ReliableSender
<1> QED
  BY <1>1, <1>3, <1>4, <1>5, <1>6, ReliableFrame, ReliableFacts DEF EndPhase, Done

\* The timer sends the first segment again when it was lost; after the end of
\* the file it adds one of the last window, which the receiver has or will get.
LEMMA ReliableResend ==
  ASSUME ReliableState, RetransmissionTimer, UNCHANGED rcvVars
  PROVE  ReliableSound'
<1>1. PICK seg : seg = buffer[small_ind % s_window]
  OBVIOUS
<1>2. /\ s_pc = "timer" /\ s_pc' = LoopHead(endFile)
      /\ UNCHANGED <<protocolVars, toSnd, s_err, r_err, packet_encoded>>
      /\ Transmit(toRcv, toRcv', DataDatagram(seg)) /\ seg # Uninit
  BY <1>1 DEF RetransmissionTimer, Write, Go, LoopHead
<1>3. toRcv' = Push(toRcv, DataDatagram(seg))
  BY <1>2, NothingFails, ReliableFacts
<1>4. small_ind % s_window \in SndSlots
  <2>1. small_ind \in Int
    BY ReliableFacts, OldestNumbers DEF SndSlots
  <2> QED
    BY <2>1, ReliableFacts, OldestNumbers, SenderSlot
<1>5. DataDatagram(seg) \in DatagramSet
  <2>1. seg \in Segments
    BY <1>1, <1>2, <1>4, ReliableFacts DEF TypeOK, SenderTypeOK
  <2> QED
    BY <2>1, SegmentType
<1>6. PICK k \in Recent(seq_ind) : seg = NthSegment(k)
  BY <1>1, <1>2, <1>4, ReliableFacts DEF ReliableSender
<1>7. DataDatagram(seg) = NthDatagram(k)
  BY <1>6 DEF NthDatagram
<1>8. packet_encoded'.PAYLOAD = NoData
  BY <1>2, ReliableFacts DEF ReliableSender
<1>9. CASE endFile = 1
  <2>1. SegmentsInOrder(toRcv, Received, seq_ind, endFile)
    BY <1>9, ReliableFacts DEF ReliableSound, FirstLost
  <2>2. DataDatagram(seg) \in Superfluous(seq_ind)
    BY <1>5, <1>6, <1>7 DEF Superfluous
  <2>3. SegmentsInOrder(toRcv', Received, seq_ind, endFile)
    BY <1>3, <1>5, <1>9, <2>1, <2>2, InOrderAfter, ReliableFacts, ReliableNumbers
  <2> QED
    BY <1>2, <1>8, <1>9, <2>3, ReliableFrame, ReliableFacts DEF LoopHead
<1>10. CASE endFile = 0
  <2>1. FirstLost
    BY <1>2, <1>10, ReliableFacts DEF ReliableSender
  <2>2. seq_ind = 1 /\ toRcv = <<>> /\ written = <<>> /\ r_pc # "flush"
    BY <2>1 DEF FirstLost
  <2>3. Received = 0
    BY <2>2, ReliableNumbers
  <2>4. k = 1
    BY <1>6, <2>2 DEF Recent
  <2>5. toRcv' = <<NthDatagram(1)>>
    <3>1. 0 < Capacity /\ Len(<<>>) = 0
      BY ReliableNumbers
    <3>2. Push(<<>>, NthDatagram(1)) = Append(<<>>, NthDatagram(1))
      BY <3>1 DEF Push
    <3> QED
      BY <1>3, <1>7, <2>2, <2>4, <3>2
  <2>6. SegmentsInOrder(toRcv', 0, 1, 0)
    BY <2>5 DEF SegmentsInOrder
  <2> QED
    BY <1>2, <1>8, <1>10, <2>2, <2>3, <2>6, ReliableFrame, ReliableFacts
    DEF LoopHead, EndPhase, Done
<1> QED
  BY <1>9, <1>10, ReliableFacts

\* The second loop.
LEMMA ReliableEndWrite ==
  ASSUME ReliableState, EndWrite, UNCHANGED rcvVars
  PROVE  ReliableSound'
<1>1. /\ s_pc = "end_write" /\ s_pc' \in {"end_read", "end_select"}
      /\ UNCHANGED <<protocolVars, toSnd, s_err, r_err, packet_encoded>>
      /\ Transmit(toRcv, toRcv', packet_encoded)
  BY DEF EndWrite, Write
<1>2. /\ endFile = 1 /\ packet_encoded \in DatagramSet /\ packet_encoded.PAYLOAD = NoData
  BY <1>1, ReliableFacts DEF ReliableSender, EndPhase, TypeOK, SenderTypeOK
<1>3. toRcv' = Push(toRcv, packet_encoded)
  BY <1>1, NothingFails, ReliableFacts
<1>4. SegmentsInOrder(toRcv, Received, seq_ind, endFile)
  BY <1>2, ReliableFacts DEF ReliableSound, FirstLost
<1>5. packet_encoded \in Superfluous(seq_ind)
  BY <1>2 DEF Superfluous
<1>6. SegmentsInOrder(toRcv', Received, seq_ind, endFile)
  BY <1>2, <1>3, <1>4, <1>5, InOrderAfter, ReliableFacts, ReliableNumbers
<1> QED
  BY <1>1, <1>2, <1>6, ReliableFrame, ReliableFacts

LEMMA ReliableEndRead ==
  ASSUME ReliableState, EndRead, UNCHANGED rcvVars
  PROVE  ReliableSound'
<1>1. /\ s_pc = "end_read" /\ s_pc' \in {"done", "end_select"} /\ s_err' = FALSE
      /\ toSnd # <<>> /\ toSnd' = Tail(toSnd) /\ packet_encoded' = Head(toSnd)
      /\ UNCHANGED <<toRcv, r_err, small_seq, seq_ind, s_seq_exp, endFile, s_window,
                     buffer>>
  BY ReliableFacts DEF EndRead, protocolVars
<1>2. endFile = 1 /\ r_pc \notin {"unbound", "wait"} /\ ~FirstLost
  BY <1>1, ReliableFacts DEF ReliableSender, ReliableReceiver, EndPhase, FirstLost
<1>3. /\ ReliableReceiver' /\ Received' = Received /\ Acked' = Acked
      /\ UNCHANGED <<r_pc, index, written, buffer_payload>>
  BY <1>1, ReceiverKept, ReliableFacts
<1>4. SegmentsInOrder(toRcv, Received, seq_ind, endFile)'
  BY <1>1, <1>2, <1>3, ReliableFacts DEF ReliableSound
<1>5. toSnd' \in Seq(IntactAcks) /\ packet_encoded'.PAYLOAD = NoData
  <2>1. toSnd' \in Seq(IntactAcks) /\ Head(toSnd) \in IntactAcks
    BY <1>1, TailShifts, ReliableFacts
  <2> QED
    BY <1>1, <2>1 DEF IntactAcks
<1>6. ReliableSender'
  BY <1>1, <1>2, <1>3, <1>5, ReliableFacts DEF ReliableSender
<1>7. Received' <= seq_ind'
  BY <1>1, <1>3, ReliableNumbers
<1> QED
  BY <1>1, <1>2, <1>3, <1>4, <1>5, <1>6, <1>7, ReliableFacts DEF ReliableSound

\* What needs a fault, or a datagram the receiver does not send.
LEMMA ReliableNever ==
  ASSUME ReliableState
  PROVE  /\ ~ReadFileError /\ ~WriteRefused /\ ~ReadBadReply /\ ~HandleNack
         /\ ~WriteRawStruct /\ ~HandleOther /\ ~RetransmitUninitialised
         /\ ~NackUninitialised
<1>1. ~ReadFileError
  BY ReliableFacts DEF ReadFileError, MayFail
<1>2. ~WriteRefused
  BY ReliableFacts DEF WriteRefused
<1>3. ~HandleNack /\ ~NackUninitialised /\ ~RetransmitUninitialised
  BY ReliableFacts, AckAtHand, UseStored DEF HandleNack
<1>4. ~WriteRawStruct
  BY ReliableFacts DEF WriteRawStruct, AcksOnly
<1>5. toSnd # <<>> => Head(toSnd) \in IntactAcks
  BY ReliableFacts, TailShifts
<1>6. ~ReadBadReply
  BY <1>5 DEF ReadBadReply, DecodesOK, DecodeStatus, IntactAcks
<1>7. ~HandleOther
  <2> SUFFICES ASSUME HandleOther PROVE FALSE
    OBVIOUS
  <2>1. toSnd # <<>> /\ Head(toSnd).TYPE # PTYPE_ACK
    BY ReliableFacts DEF HandleOther, ReadReply, Reply, Header
  <2> QED
    BY <1>5, <2>1 DEF IntactAcks, Acks
<1> QED
  BY <1>1, <1>2, <1>3, <1>4, <1>6, <1>7

\* Calls of select(), and the encoding of the end-of-file datagram.
LEMMA ReliableControl ==
  ASSUME ReliableState, UNCHANGED rcvVars,
         (\E sfd \in BOOLEAN : Select(sfd) \/ EndSelect(sfd)) \/ EncodeEndOfFile
  PROVE  ReliableSound'
<1>1. /\ UNCHANGED <<protocolVars, toRcv, toSnd, s_err, r_err>>
      /\ \/ s_pc' \in {"file", "socket"}
         \/ s_pc' \in {"end_select", "end_write"} /\ s_pc \in {"end_encode", "end_select"}
      /\ UNCHANGED packet_encoded
           \/ packet_encoded' = DataDatagram(Segment(s_seq_exp, NoData))
  BY DEF Select, EndSelect, EncodeEndOfFile, netVars
<1>2. s_pc' \in {"end_encode"} \cup EndPhase => endFile = 1
  BY <1>1, ReliableFacts DEF ReliableSender, EndPhase, Done
<1>3. \/ FirstLost /\ UNCHANGED toRcv
      \/ SegmentsInOrder(toRcv', Received, seq_ind, endFile)
  BY <1>1, ReliableFacts DEF ReliableSound
<1>4. packet_encoded'.PAYLOAD = NoData
  BY <1>1, ReliableFacts DEF ReliableSender, DataDatagram, Segment
<1> QED
  BY <1>1, <1>2, <1>3, <1>4, ReliableFrame, ReliableFacts

LEMMA ReliableSenderStep ==
  ASSUME ReliableState,
         SenderSelect \/ SenderTimeout \/ SenderEndSelect \/ SenderProceeds
  PROVE  ReliableSound'
<1>1. CASE SenderSelect \/ SenderEndSelect
  BY <1>1, ReliableControl DEF SenderSelect, SenderEndSelect
<1>2. CASE SenderTimeout
  BY <1>2, ReliableTimeout
<1>3. CASE SenderProceeds
  BY <1>3, ReliableReadSegment, ReliableReadEnd, ReliableHandleAck, ReliableResend,
     ReliableEndWrite, ReliableEndRead, ReliableNever, ReliableControl
  DEF SenderProceeds, SenderStep
<1> QED
  BY <1>1, <1>2, <1>3

-----------------------------------------------------------------------------
(***************************************************************************)
(* The steps of the receiver, and datagrams nobody is there for.           *)
(***************************************************************************)
\* Steps of the receiver do not change what the sender has.
LEMMA SenderKept ==
  ASSUME ReliableSender, UNCHANGED sndVars, written # <<>> => written' # <<>>,
         s_pc = "timer" /\ endFile = 0 /\ FirstLost => FirstLost'
  PROVE  /\ ReliableSender'
         /\ UNCHANGED <<s_pc, seq_ind, endFile, small_seq, s_window>>
<1>1. UNCHANGED <<s_pc, seq_ind, s_seq_exp, endFile, small_seq, s_window, buffer,
                  packet_encoded>>
  BY DEF sndVars, protocolVars
<1>2. (s_pc = "timer" /\ endFile = 0 => FirstLost)'
  BY <1>1 DEF ReliableSender
<1>3. ((IF endFile = 0 THEN s_window > 1 \/ seq_ind > 1 ELSE seq_ind > 0)
          => written # <<>>)'
  BY <1>1 DEF ReliableSender
<1> QED
  BY <1>1, <1>2, <1>3 DEF ReliableSender

\* The datagram at hand is the next segment, or all segments were received.
LEMMA NextOrLast ==
  ASSUME ReliableState, Receive
  PROVE  /\ ~FirstLost /\ r_pc = "select" /\ toRcv' = Tail(toRcv)
         /\ Received = Len(written) /\ \A i \in Slots : buffer_payload[i] = NoData
         /\ \/ /\ Len(written) < seq_ind /\ Incoming = NthDatagram(Len(written) + 1)
               /\ SegmentsInOrder(toRcv', Len(written) + 1, seq_ind, endFile)
            \/ /\ Len(written) = seq_ind /\ endFile = 1 /\ Incoming \in Superfluous(seq_ind)
               /\ SegmentsInOrder(toRcv', Len(written), seq_ind, endFile)
<1>1. r_pc = "select" /\ toRcv # <<>> /\ toRcv' = Tail(toRcv)
  BY DEF Receive
<1>2. /\ ~FirstLost /\ Received = Len(written)
      /\ \A i \in Slots : buffer_payload[i] = NoData
  BY <1>1, ReliableFacts, ReliableNumbers DEF FirstLost, ReliableReceiver
<1>3. SegmentsInOrder(toRcv, Len(written), seq_ind, endFile)
  BY <1>2, ReliableFacts DEF ReliableSound
<1>4. \/ /\ Len(written) < seq_ind /\ Incoming = NthDatagram(Len(written) + 1)
         /\ SegmentsInOrder(toRcv', Len(written) + 1, seq_ind, endFile)
      \/ /\ Len(written) = seq_ind /\ endFile = 1 /\ Incoming \in Superfluous(seq_ind)
         /\ SegmentsInOrder(toRcv', Len(written), seq_ind, endFile)
  <2>1. Len(written) <= seq_ind
    BY ReliableNumbers
  <2> QED
    BY <1>1, <1>3, <2>1, InOrderHead, ReliableFacts, ReliableNumbers DEF Incoming
<1> QED
  BY <1>1, <1>2, <1>4

\* A segment is taken for what it is.
LEMMA NthIsData ==
  ASSUME NEW n \in Nat, n > 0
  PROVE  /\ IsData(NthDatagram(n)) /\ Length(NthDatagram(n)) = 1
         /\ NthDatagram(n).SEQNUM = (n - 1) % SEQ_MOD /\ NthDatagram(n).PAYLOAD = n
BY DEF NthDatagram, NthSegment, DataDatagram, Segment, IsData, DecodesOK, DecodeStatus,
       Length, NoData, PTYPE_DATA

\* A segment of the last window the receiver has written is not in its next one:
\* there are numbers for two windows.
LEMMA RecentNotInWindow ==
  ASSUME ReliableState, NEW k \in Recent(Len(written))
  PROVE  ~InWindow((k - 1) % SEQ_MOD)
<1> DEFINE n == Len(written)
           m == k - 1
<1>1. /\ SEQ_MOD \in Nat \ {0} /\ RCV_WINDOW \in 1 .. 7 /\ 2 * RCV_WINDOW <= SEQ_MOD
      /\ n \in Nat /\ m \in Nat /\ m < n /\ n <= m + RCV_WINDOW
  <2>1. k \in 1 .. n /\ n < k + RCV_WINDOW
    BY DEF Recent
  <2>2. /\ SEQ_MOD \in Nat \ {0} /\ RCV_WINDOW \in 1 .. 7 /\ 2 * RCV_WINDOW <= SEQ_MOD
        /\ n \in Nat
    BY ReliableNumbers
  <2> HIDE DEF n
  <2> QED
    BY <2>1, <2>2
<1> HIDE DEF n, m
<1>2. SUFFICES ASSUME InWindow(m % SEQ_MOD) PROVE FALSE
  BY DEF m
<1>3. m % SEQ_MOD \in SeqNums
  BY <1>1, ModRange DEF SeqNums
<1>4. PICK t \in 0 .. RCV_WINDOW - 1 : (r_seq_exp + t) % SEQ_MOD = m % SEQ_MOD
  <2>1. PICK seq \in SeqNums : seq = m % SEQ_MOD
    BY <1>3
  <2>2. /\ r_seq_exp \in Int /\ TypeOK
        /\ seq \in 0 .. SEQ_MOD - 1 /\ seq - r_seq_exp \in Int
    BY <2>1, ReliableFacts DEF TypeOK, ReceiverTypeOK, SeqNums
  <2>3. PICK t \in 0 .. SEQ_MOD - 1 : t = (seq - r_seq_exp) % SEQ_MOD
    BY <1>1, <2>2, ModRange
  <2>4. t < RCV_WINDOW
    BY <1>2, <2>1, <2>2, <2>3, InWindowAhead
  <2>5. (t + r_seq_exp) % SEQ_MOD = (seq - r_seq_exp + r_seq_exp) % SEQ_MOD
    BY <1>1, <2>2, <2>3, ModAdd
  <2>6. seq - r_seq_exp + r_seq_exp = seq /\ seq % SEQ_MOD = seq
    BY <1>1, <2>2, ModSmall
  <2>7. t \in 0 .. RCV_WINDOW - 1 /\ t + r_seq_exp = r_seq_exp + t
    BY <1>1, <2>2, <2>3, <2>4
  <2> QED
    BY <2>1, <2>5, <2>6, <2>7
<1>5. (n + t) % SEQ_MOD = m % SEQ_MOD
  <2>1. r_seq_exp = n % SEQ_MOD
    BY ReliableFacts DEF ReliableReceiver, n
  <2>2. n \in Int /\ t \in Int /\ SEQ_MOD \in Nat \ {0}
    BY <1>1
  <2>3. ((n % SEQ_MOD) + t) % SEQ_MOD = (n + t) % SEQ_MOD
    BY <2>2, ModAdd
  <2> QED
    BY <1>4, <2>1, <2>3
<1>6. n + t \in Int /\ m \in Int /\ m <= n + t /\ n + t < m + SEQ_MOD
  BY <1>1
<1>7. n + t = m
  BY <1>1, <1>5, <1>6, ModClose
<1> QED
  BY <1>1, <1>7

\* The next segment goes to the slot at index; one the receiver has is not in its
\* window.
LEMMA ReliableReceiveSegment ==
  ASSUME ReliableState, ReceiveSegment, UNCHANGED sndVars
  PROVE  ReliableSound'
<1>1. /\ Receive /\ IsData(Incoming) /\ Length(Incoming) > 0 /\ r_pc' = "flush"
      /\ UNCHANGED <<toSnd, s_err, r_err, r_seq_exp, index, written>>
  BY DEF ReceiveSegment
<1>2. /\ ~FirstLost /\ r_pc = "select" /\ Received = Len(written)
      /\ \A i \in Slots : buffer_payload[i] = NoData
  BY <1>1, NextOrLast
<1>3. ReliableSender' /\ UNCHANGED <<s_pc, seq_ind, endFile, small_seq, s_window>>
  BY <1>1, <1>2, SenderKept, ReliableFacts
<1>4. DOMAIN buffer_payload = Slots /\ index \in Slots
  BY ReliableFacts DEF TypeOK, ReceiverTypeOK
<1>5. CASE /\ Len(written) < seq_ind /\ Incoming = NthDatagram(Len(written) + 1)
           /\ SegmentsInOrder(toRcv', Len(written) + 1, seq_ind, endFile)
  <2>1. Incoming.SEQNUM = r_seq_exp /\ Incoming.PAYLOAD = Len(written) + 1
    <3>1. Len(written) + 1 \in Nat /\ Len(written) + 1 > 0
          /\ (Len(written) + 1) - 1 = Len(written)
      BY ReliableNumbers
    <3> QED
      BY <1>5, <3>1, NthIsData, ReliableFacts DEF ReliableReceiver
  <2>2. r_seq_exp \in Nat
    BY ReliableFacts, OldestNumbers
  <2>3. InWindow(r_seq_exp)
    <3>1. RCV_WINDOW \in 1 .. 7
      BY ReliableNumbers
    <3>2. r_seq_exp <= r_seq_exp /\ r_seq_exp <= r_seq_exp + RCV_WINDOW - 1
      BY <2>2, <3>1
    <3> QED
      BY <3>2 DEF InWindow
  <2>4. SlotOf(r_seq_exp) = index
    <3>1. SlotOf(r_seq_exp) = index % RCV_WINDOW
      <4>1. index + (r_seq_exp - r_seq_exp) = index
        BY <1>4, <2>2 DEF Slots
      <4> QED
        BY <2>2, <4>1 DEF SlotOf
    <3>2. index \in 0 .. RCV_WINDOW - 1 /\ RCV_WINDOW \in Nat \ {0}
      BY <1>4, ReliableNumbers DEF Slots
    <3> QED
      BY <3>1, <3>2, ModSmall
  <2>5. buffer_payload' = [buffer_payload EXCEPT ![index] = Len(written) + 1]
    BY <2>1, <2>3, <2>4 DEF ReceiveSegment
  <2>6. /\ buffer_payload'[index] = Len(written) + 1 /\ Len(written) + 1 # NoData
        /\ \A i \in Slots : i # index => buffer_payload'[i] = NoData
    BY <1>2, <1>4, <2>5, ReliableNumbers DEF NoData
  <2>7. Received' = Len(written) + 1 /\ Acked' = Len(written) /\ Acked = Len(written)
    BY <1>1, <1>2, <2>6, ReliableNumbers DEF Received, Acked
  <2>8. Confirmed' = Confirmed
    BY <1>1, <2>7 DEF Confirmed
  <2>9. SegmentsInOrder(toRcv, Received, seq_ind, endFile)'
    BY <1>3, <1>5, <2>7
  <2>10. ReliableReceiver'
    BY <1>1, <1>3, <2>6, ReliableFacts DEF ReliableReceiver, Ended
  <2>11. Received' <= seq_ind'
    BY <1>3, <1>5, <2>7, ReliableNumbers
  <2>12. (endFile = 0 => /\ AcksInOrder(toSnd, Confirmed, Acked) /\ 0 <= Confirmed
                         /\ small_seq = Confirmed % SEQ_MOD
                         /\ seq_ind - Confirmed <= InFlight)'
    BY <1>1, <1>3, <2>7, <2>8, ReliableFacts DEF ReliableSound
  <2> QED
    BY <1>1, <1>3, <2>9, <2>10, <2>11, <2>12, ReliableFacts DEF ReliableSound
<1>6. CASE /\ Len(written) = seq_ind /\ endFile = 1 /\ Incoming \in Superfluous(seq_ind)
           /\ SegmentsInOrder(toRcv', Len(written), seq_ind, endFile)
  <2>1. PICK k \in Recent(seq_ind) : Incoming = NthDatagram(k)
    BY <1>1, <1>6 DEF Superfluous, Length
  <2>2. ~InWindow(Incoming.SEQNUM)
    <3>1. k \in Nat /\ k > 0
      BY <2>1, ReliableNumbers DEF Recent
    <3> QED
      BY <1>6, <2>1, <3>1, NthIsData, RecentNotInWindow
  <2>3. UNCHANGED buffer_payload
    BY <2>2 DEF ReceiveSegment
  <2>4. Received' = Len(written)
    BY <1>1, <1>2, <2>3 DEF Received
  <2>5. SegmentsInOrder(toRcv, Received, seq_ind, endFile)'
    BY <1>3, <1>6, <2>4
  <2>6. ReliableReceiver'
    BY <1>1, <1>2, <1>3, <2>3, ReliableFacts DEF ReliableReceiver, Ended
  <2>7. Received' <= seq_ind'
    BY <1>3, <1>6, <2>4, ReliableNumbers
  <2> QED
    BY <1>1, <1>3, <1>6, <2>5, <2>6, <2>7, ReliableFacts DEF ReliableSound
<1> QED
  BY <1>1, <1>5, <1>6, NextOrLast

\* What is not a segment comes when all segments have been received.
LEMMA NoSegmentLeft ==
  ASSUME ReliableState, ReceiveInvalid \/ ReceiveEndOfFile
  PROVE  /\ Len(written) = seq_ind /\ seq_ind = NSegments /\ endFile = 1
         /\ SegmentsInOrder(toRcv', Len(written), seq_ind, endFile)
<1>1. Receive /\ ~(IsData(Incoming) /\ Length(Incoming) = 1)
  BY DEF ReceiveInvalid, ReceiveEndOfFile
<1>2. Incoming # NthDatagram(Len(written) + 1)
  <2>1. Len(written) + 1 \in Nat /\ Len(written) + 1 > 0
    BY ReliableNumbers
  <2> QED
    BY <1>1, <2>1, NthIsData
<1>3. /\ Len(written) = seq_ind /\ endFile = 1
      /\ SegmentsInOrder(toRcv', Len(written), seq_ind, endFile)
  BY <1>1, <1>2, NextOrLast
<1> QED
  BY <1>3, ReliableFacts DEF ReliableSender

LEMMA ReliableReceiveOther ==
  ASSUME ReliableState, ReceiveInvalid \/ ReceiveEndOfFile, UNCHANGED sndVars
  PROVE  ReliableSound'
<1>1. /\ Receive /\ r_pc' \in {"select", "final"}
      /\ UNCHANGED <<toSnd, s_err, r_err, r_seq_exp, index, buffer_payload, written>>
  BY DEF ReceiveInvalid, ReceiveEndOfFile, Receive
<1>2. /\ ~FirstLost /\ r_pc = "select" /\ Received = Len(written)
      /\ \A i \in Slots : buffer_payload[i] = NoData
  BY <1>1, NextOrLast
<1>3. ReliableSender' /\ UNCHANGED <<s_pc, seq_ind, endFile, small_seq, s_window>>
  BY <1>1, <1>2, SenderKept, ReliableFacts
<1>4. Received' = Len(written)
  BY <1>1, <1>2 DEF Received
<1>5. SegmentsInOrder(toRcv, Received, seq_ind, endFile)'
  BY <1>3, <1>4, NoSegmentLeft
<1>6. ReliableReceiver'
  BY <1>1, <1>2, <1>3, NoSegmentLeft, ReliableFacts DEF ReliableReceiver, Ended
<1>7. Received' <= seq_ind' /\ endFile' = 1
  BY <1>3, <1>4, NoSegmentLeft, ReliableNumbers
<1> QED
  BY <1>1, <1>5, <1>3, <1>6, <1>7, ReliableFacts DEF ReliableSound

\* A segment received is in the file.
LEMMA ReliableWriteSlot ==
  ASSUME ReliableState, WriteSlot, UNCHANGED sndVars
  PROVE  ReliableSound'
<1> DEFINE n == Len(written)
<1>1. /\ r_pc = "flush" /\ buffer_payload[index] # NoData
      /\ buffer_payload' = [buffer_payload EXCEPT ![index] = NoData]
      /\ r_seq_exp' = (r_seq_exp + 1) % SEQ_MOD /\ index' = (index + 1) % RCV_WINDOW
      /\ UNCHANGED <<toRcv, toSnd, s_err, r_err, r_pc>>
  BY DEF WriteSlot
<1>2. /\ Received = n + 1 /\ Acked = n /\ buffer_payload[index] = n + 1 /\ n \in Nat
      /\ SEQ_MOD \in Nat \ {0} /\ RCV_WINDOW \in Nat \ {0}
  <2>1. Received = n + 1 /\ Acked = n /\ buffer_payload[index] = n + 1
    BY <1>1, ReliableNumbers
  <2>2. n \in Nat /\ SEQ_MOD \in Nat \ {0} /\ RCV_WINDOW \in Nat \ {0}
    BY ReliableNumbers
  <2> QED
    BY <2>1, <2>2
<1>3. /\ written' = Append(written, n + 1) /\ Len(written') = n + 1 /\ written' # <<>>
      /\ \A i \in 1 .. n + 1 : written'[i] = i
  <2>1. written' = Append(written, n + 1)
    <3>1. ~MayFail("io")
      BY ReliableFacts DEF MayFail
    <3> QED
      BY <1>2, <3>1 DEF WriteSlot
  <2>2. written \in Seq(Payloads \ {NoData}) /\ \A i \in 1 .. n : written[i] = i
    BY ReliableFacts DEF TypeOK, ReceiverTypeOK, ReliableReceiver
  <2>3. /\ Len(written') = n + 1 /\ written'[n + 1] = n + 1
        /\ \A i \in 1 .. n : written'[i] = written[i]
    BY <2>1, <2>2
  <2>4. \A i \in 1 .. n + 1 : i \in 1 .. n \/ i = n + 1
    BY <1>2
  <2> QED
    BY <1>2, <2>1, <2>2, <2>3, <2>4
<1>4. ~FirstLost
  BY <1>1 DEF FirstLost
<1>5. ReliableSender' /\ UNCHANGED <<s_pc, seq_ind, endFile, small_seq, s_window>>
  BY <1>3, <1>4, SenderKept, ReliableFacts
<1>6. r_seq_exp' = (n + 1) % SEQ_MOD /\ index' = (n + 1) % RCV_WINDOW
  <2>1. r_seq_exp = n % SEQ_MOD /\ index = n % RCV_WINDOW
    BY ReliableFacts DEF ReliableReceiver
  <2> HIDE DEF n
  <2>2. n \in Int /\ 1 \in Int /\ SEQ_MOD \in Nat \ {0} /\ RCV_WINDOW \in Nat \ {0}
    BY <1>2
  <2>3. /\ ((n % SEQ_MOD) + 1) % SEQ_MOD = (n + 1) % SEQ_MOD
        /\ ((n % RCV_WINDOW) + 1) % RCV_WINDOW = (n + 1) % RCV_WINDOW
    BY <2>2, ModAdd
  <2> QED
    BY <1>1, <2>1, <2>3
<1>7. index \in Slots /\ index' \in Slots /\ DOMAIN buffer_payload = Slots
  <2>1. (n + 1) % RCV_WINDOW \in Slots
    <3> HIDE DEF n
    <3>1. n + 1 \in Int /\ RCV_WINDOW \in Nat \ {0}
      BY <1>2
    <3> QED
      BY <3>1, ModRange DEF Slots
  <2> QED
    BY <1>6, <2>1, ReliableFacts DEF TypeOK, ReceiverTypeOK
<1>8. \A i \in Slots : buffer_payload'[i] = NoData
  BY <1>1, <1>7, ReliableFacts DEF ReliableReceiver
<1>9. Received' = n + 1 /\ Acked' = n
  <2>1. buffer_payload'[index'] = NoData
    BY <1>7, <1>8
  <2>2. Received' = n + 1
    BY <1>2, <1>3, <2>1 DEF Received
  <2>3. Acked' = (n + 1) - 1
    BY <1>1, <1>3, <2>1 DEF Acked
  <2> QED
    BY <1>2, <2>2, <2>3
<1>10. Confirmed' = Confirmed
  BY <1>1, <1>2, <1>9 DEF Confirmed
<1>11. ReliableReceiver'
  BY <1>1, <1>3, <1>6, <1>8 DEF ReliableReceiver, Ended
<1>12. SegmentsInOrder(toRcv, Received, seq_ind, endFile)'
  BY <1>1, <1>2, <1>4, <1>5, <1>9, ReliableFacts DEF ReliableSound
<1>13. (endFile = 0 => /\ AcksInOrder(toSnd, Confirmed, Acked) /\ 0 <= Confirmed
                       /\ small_seq = Confirmed % SEQ_MOD
                       /\ seq_ind - Confirmed <= InFlight)'
  BY <1>1, <1>2, <1>5, <1>9, <1>10, ReliableFacts DEF ReliableSound
<1>14. Received' <= seq_ind'
  BY <1>2, <1>5, <1>9, ReliableNumbers
<1> QED
  BY <1>1, <1>5, <1>11, <1>12, <1>13, <1>14, ReliableFacts DEF ReliableSound

\* What the receiver sends is an ACK that decodes.
LEMMA AckIntact ==
  ASSUME ReliableState, SendAck(PTYPE_ACK, r_seq_exp)
  PROVE  /\ AckDatagram(PTYPE_ACK, r_seq_exp) \in IntactAcks
         /\ toSnd' = Push(toSnd, AckDatagram(PTYPE_ACK, r_seq_exp))
         /\ toSnd' \in Seq(IntactAcks) /\ UNCHANGED r_err
<1> DEFINE d == AckDatagram(PTYPE_ACK, r_seq_exp)
<1>1. d \in DatagramSet
  <2>1. r_seq_exp \in SeqNums
    BY ReliableFacts DEF TypeOK, ReceiverTypeOK
  <2> QED
    BY <2>1, AckDatagramType
<1>2. d \in IntactAcks
  BY <1>1 DEF AckDatagram, IntactAcks, Acks, Replies, PTYPE_ACK, PTYPE_DATA
<1> HIDE DEF d
<1>3. toSnd' = Push(toSnd, d) /\ UNCHANGED r_err
  BY ReliableFacts, NothingFails DEF SendAck, d
<1>4. toSnd' \in Seq(IntactAcks)
  BY <1>2, <1>3, PushIn, ReliableFacts
<1> QED
  BY <1>2, <1>3, <1>4 DEF d

\* Each segment has its ACK, for which the queue has room.
LEMMA ReliableAcknowledge ==
  ASSUME ReliableState, AcknowledgeSegment, UNCHANGED sndVars
  PROVE  ReliableSound'
<1> DEFINE d == AckDatagram(PTYPE_ACK, r_seq_exp)
<1>1. /\ r_pc = "flush" /\ buffer_payload[index] = NoData /\ r_pc' = "select"
      /\ UNCHANGED <<toRcv, s_err, r_seq_exp, index, buffer_payload, written>>
      /\ SendAck(PTYPE_ACK, r_seq_exp)
  BY DEF AcknowledgeSegment
<1>2. /\ d \in IntactAcks /\ toSnd' = Push(toSnd, d) /\ toSnd' \in Seq(IntactAcks)
      /\ UNCHANGED r_err
  BY <1>1, AckIntact
<1>3. ~FirstLost
  BY <1>1 DEF FirstLost
<1>4. ReliableSender' /\ UNCHANGED <<s_pc, seq_ind, endFile, small_seq, s_window>>
  BY <1>1, <1>3, SenderKept, ReliableFacts
<1>5. d.SEQNUM = Len(written) % SEQ_MOD
  BY ReliableFacts DEF AckDatagram, ReliableReceiver
<1> HIDE DEF d
<1>6. Received' = Received /\ Acked = Len(written) - 1 /\ Acked' = Len(written)
  BY <1>1 DEF Received, Acked
<1>7. SegmentsInOrder(toRcv, Received, seq_ind, endFile)'
  BY <1>1, <1>3, <1>4, <1>6, ReliableFacts DEF ReliableSound
<1>8. (endFile = 0 => /\ AcksInOrder(toSnd, Confirmed, Acked) /\ 0 <= Confirmed
                      /\ small_seq = Confirmed % SEQ_MOD
                      /\ seq_ind - Confirmed <= InFlight)'
  <2> SUFFICES ASSUME endFile = 0
               PROVE  /\ AcksInOrder(toSnd', Confirmed', Len(written)) /\ 0 <= Confirmed'
                      /\ small_seq = Confirmed' % SEQ_MOD
                      /\ seq_ind - Confirmed' <= InFlight
    BY <1>4, <1>6
  <2>1. /\ AcksInOrder(toSnd, Confirmed, Acked) /\ Confirmed \in Nat
        /\ small_seq = Confirmed % SEQ_MOD /\ seq_ind - Confirmed <= InFlight
    BY ReliableAcks
  <2>2. Acked + 1 = Len(written)
    BY <1>6, ReliableNumbers
  <2>3. Len(toSnd) < Capacity
    <3>1. Len(toSnd) = Len(written) - 1 - Confirmed
      BY <1>6, <2>1 DEF AcksInOrder
    <3>2. /\ Len(written) \in Nat /\ seq_ind \in Nat /\ InFlight \in Nat
          /\ Capacity \in Nat /\ Len(written) <= Received /\ Received <= seq_ind
          /\ Received \in Nat /\ InFlight <= Capacity
      BY ReliableNumbers
    <3> QED
      BY <2>1, <3>1, <3>2
  <2>4. AcksInOrder(toSnd', Confirmed, Len(written))
    <3>1. AcksInOrder(Push(toSnd, d), Confirmed, Acked + 1)
      BY <1>2, <1>5, <2>1, <2>2, <2>3, AcksPush, ReliableFacts, ReliableNumbers
    <3> QED
      BY <1>2, <2>2, <3>1
  <2>5. Confirmed' = Confirmed
    <3>1. Len(toSnd') = Len(written) - Confirmed /\ Len(toSnd') \in Nat
      BY <1>2, <2>4 DEF AcksInOrder
    <3>2. Confirmed' = Len(written) - Len(toSnd')
      BY <1>6 DEF Confirmed
    <3> QED
      BY <3>1, <3>2, ReliableNumbers
  <2> QED
    BY <2>1, <2>4, <2>5
<1>9. ReliableReceiver'
  BY <1>1, <1>4, ReliableFacts DEF ReliableReceiver, Ended
<1>10. Received' <= seq_ind'
  BY <1>4, <1>6, ReliableNumbers
<1> QED
  BY <1>1, <1>2, <1>4, <1>7, <1>8, <1>9, <1>10, ReliableFacts DEF ReliableSound

\* The start and the end of the receiver.
LEMMA ReliableReceiverControl ==
  ASSUME ReliableState, Bind \/ WaitForClient \/ AcknowledgeEndOfFile \/ Close,
         UNCHANGED sndVars
  PROVE  ReliableSound'
<1>1. /\ UNCHANGED <<toRcv, s_err, r_seq_exp, index, buffer_payload, written>>
      /\ r_pc # "flush" /\ r_pc' # "flush"
  BY DEF Bind, WaitForClient, AcknowledgeEndOfFile, Close, netVars
<1>2. Received' = Received /\ Acked' = Acked
  BY <1>1 DEF Received, Acked
<1>3. /\ UNCHANGED r_err /\ toSnd' \in Seq(IntactAcks)
      /\ UNCHANGED toSnd \/ (r_pc = "final" /\ r_pc' = "final")
  <2>1. CASE AcknowledgeEndOfFile
    BY <2>1, AckIntact DEF AcknowledgeEndOfFile
  <2>2. CASE Bind \/ WaitForClient \/ Close
    BY <2>2, ReliableFacts DEF Bind, WaitForClient, Close, netVars
  <2> QED
    BY <2>1, <2>2
<1>4. /\ r_pc' \in {"unbound", "wait"} => r_pc = "unbound"
      /\ r_pc' \in {"final"} \cup Ended => r_pc = "final"
      /\ r_pc \in {"unbound", "wait"} => ~AcknowledgeEndOfFile /\ ~Close
      /\ toRcv = <<>> => ~WaitForClient
  BY DEF Bind, WaitForClient, AcknowledgeEndOfFile, Close, Ended
<1>5. ASSUME FirstLost
      PROVE  r_pc' \in {"unbound", "wait"}
  BY <1>4, <1>5 DEF FirstLost, Bind
<1>6. ReliableSender' /\ UNCHANGED <<s_pc, seq_ind, endFile, small_seq, s_window>>
  <2>1. FirstLost => FirstLost'
    BY <1>1, <1>5 DEF FirstLost, sndVars, protocolVars
  <2> QED
    BY <1>1, <2>1, SenderKept, ReliableFacts
<1>7. FirstLost => FirstLost'
  BY <1>1, <1>5, <1>6 DEF FirstLost
<1>8. (FirstLost \/ SegmentsInOrder(toRcv, Received, seq_ind, endFile))'
  BY <1>1, <1>2, <1>6, <1>7, ReliableFacts DEF ReliableSound
<1>9. (endFile = 0 => /\ AcksInOrder(toSnd, Confirmed, Acked) /\ 0 <= Confirmed
                      /\ small_seq = Confirmed % SEQ_MOD
                      /\ seq_ind - Confirmed <= InFlight)'
  <2> SUFFICES ASSUME endFile = 0
               PROVE  /\ AcksInOrder(toSnd', Confirmed', Acked') /\ 0 <= Confirmed'
                      /\ small_seq = Confirmed' % SEQ_MOD
                      /\ seq_ind - Confirmed' <= InFlight
    BY <1>6
  <2>1. UNCHANGED toSnd
    BY <1>3, ReliableFacts DEF ReliableReceiver
  <2>2. Confirmed' = Confirmed
    BY <1>2, <2>1 DEF Confirmed
  <2> QED
    BY <1>2, <2>1, <2>2, ReliableAcks
<1>10. ReliableReceiver'
  <2>1. r_pc' \in {"unbound", "wait"} => written' = <<>> /\ toSnd' = <<>>
    BY <1>1, <1>3, <1>4, ReliableFacts DEF ReliableReceiver
  <2>2. r_pc' \in {"final"} \cup Ended => endFile' = 1 /\ Len(written') = NSegments
    BY <1>1, <1>4, <1>6, ReliableFacts DEF ReliableReceiver
  <2> QED
    BY <1>1, <2>1, <2>2, ReliableFacts DEF ReliableReceiver
<1>11. Received' <= seq_ind'
  BY <1>2, <1>6, ReliableNumbers
<1> QED
  BY <1>1, <1>3, <1>6, <1>8, <1>9, <1>10, <1>11, ReliableFacts DEF ReliableSound

LEMMA ReliableReceiverStep ==
  ASSUME ReliableState, ReceiverProceeds
  PROVE  ReliableSound'
<1>1. ~ReceiveError
  BY ReliableFacts DEF ReceiveError
<1>2. ~ReceiveTruncated
  BY ReliableFacts, NoTruncated
<1> QED
  BY <1>1, <1>2, ReliableReceiveSegment, ReliableReceiveOther, ReliableWriteSlot,
     ReliableAcknowledge, ReliableReceiverControl
  DEF ReceiverProceeds, ReceiverStep

\* A datagram nobody reads is the first segment, before the receiver is up, or
\* one it no longer needs.
LEMMA ReliableLost ==
  ASSUME ReliableState, ReceiverUnreachable, UNCHANGED sndVars
  PROVE  ReliableSound'
<1>1. /\ UNCHANGED <<toSnd, r_err, rcvVars>> /\ ~s_err' /\ toRcv # <<>>
      /\ toRcv' = Tail(toRcv) /\ r_pc \in Ended \cup {"unbound"}
  BY ReliableFacts DEF ReceiverUnreachable
<1>2. UNCHANGED <<r_pc, r_seq_exp, index, buffer_payload, written>>
  BY <1>1 DEF rcvVars
<1>3. /\ Received' = Received /\ Acked' = Acked /\ Confirmed' = Confirmed
      /\ Received = Len(written)
  <2>1. Received' = Received /\ Acked' = Acked
    BY <1>2 DEF Received, Acked
  <2>2. r_pc # "flush"
    BY <1>1 DEF Ended
  <2> QED
    BY <1>1, <2>1, <2>2, ReliableNumbers DEF Confirmed
<1>4. ~FirstLost
  BY <1>1 DEF FirstLost
<1>5. ReliableSender' /\ UNCHANGED <<s_pc, seq_ind, endFile, small_seq, s_window>>
  BY <1>2, <1>4, SenderKept, ReliableFacts
<1>6. SegmentsInOrder(toRcv, Len(written), seq_ind, endFile)
  BY <1>3, <1>4, ReliableFacts DEF ReliableSound
<1>7. (FirstLost \/ SegmentsInOrder(toRcv, Received, seq_ind, endFile))'
  <2>1. CASE Len(written) = seq_ind
    <3>1. SegmentsInOrder(Tail(toRcv), Len(written), seq_ind, endFile)
      BY <1>1, <1>6, <2>1, InOrderHead, ReliableFacts, ReliableNumbers
    <3> QED
      BY <1>1, <1>3, <1>5, <3>1
  <2>2. CASE Len(written) # seq_ind
    <3>1. Len(written) < seq_ind
      BY <2>2, ReliableNumbers
    <3>2. r_pc = "unbound" /\ written = <<>>
      <4>1. r_pc \notin Ended
        BY <3>1, ReliableFacts, ReliableNumbers DEF ReliableReceiver
      <4> QED
        BY <1>1, <4>1, ReliableFacts DEF ReliableReceiver
    <3>3. endFile = 0 /\ seq_ind = 1
      BY <3>1, <3>2, ReliableFacts, ReliableNumbers DEF ReliableSender
    <3>4. Len(written) = 0
      BY <3>2
    <3>5. ~(Len(toRcv) > 1)
      <4> SUFFICES ASSUME Len(toRcv) > 1 PROVE FALSE
        OBVIOUS
      <4>1. 2 \in 1 .. Len(toRcv)
        BY ReliableNumbers
      <4> QED
        BY <1>6, <3>3, <3>4, <4>1 DEF SegmentsInOrder
    <3>6. Tail(toRcv) = <<>>
      <4>1. Len(toRcv) \in Nat /\ Len(toRcv) >= 1 /\ Len(Tail(toRcv)) = Len(toRcv) - 1
            /\ Tail(toRcv) \in Seq(DatagramSet)
        BY <1>1, ReliableFacts, TailShifts
      <4>2. Len(Tail(toRcv)) = 0
        BY <3>5, <4>1
      <4>3. \A q \in Seq(DatagramSet) : Len(q) = 0 => q = <<>>
        OBVIOUS
      <4> QED
        BY <4>1, <4>2, <4>3
    <3> QED
      BY <1>1, <1>2, <1>5, <3>2, <3>3, <3>6 DEF FirstLost
  <2> QED
    BY <2>1, <2>2
<1>8. ReliableReceiver'
  BY <1>1, <1>2, <1>5, ReliableFacts DEF ReliableReceiver
<1>9. (endFile = 0 => /\ AcksInOrder(toSnd, Confirmed, Acked) /\ 0 <= Confirmed
                      /\ small_seq = Confirmed % SEQ_MOD
                      /\ seq_ind - Confirmed <= InFlight)'
  BY <1>1, <1>3, <1>5, ReliableFacts DEF ReliableSound
<1>10. Received' <= seq_ind'
  BY <1>3, <1>5, ReliableNumbers
<1> QED
  BY <1>1, <1>5, <1>7, <1>8, <1>9, <1>10, ReliableFacts DEF ReliableSound

\* What reaches a port nobody listens on, any more or yet.
LEMMA ReliableUnreachable ==
  ASSUME ReliableState, Unreachable
  PROVE  ReliableSound'
<1>1. CASE SenderUnreachable /\ UNCHANGED rcvVars
  <2>1. /\ UNCHANGED <<toRcv, s_err>> /\ ~r_err' /\ toSnd # <<>> /\ toSnd' = Tail(toSnd)
        /\ s_pc \in Done /\ UNCHANGED <<sndVars, rcvVars>>
    BY <1>1, ReliableFacts DEF SenderUnreachable
  <2>2. endFile = 1 /\ r_pc \notin {"unbound", "wait"} /\ ~FirstLost
    BY <2>1, ReliableFacts DEF ReliableSender, ReliableReceiver, EndPhase, FirstLost
  <2>3. ReliableSender' /\ UNCHANGED <<s_pc, seq_ind, endFile, small_seq, s_window>>
    BY <2>1, <2>2, SenderKept, ReliableFacts DEF rcvVars
  <2>4. ReliableReceiver' /\ Received' = Received
    BY <2>1, <2>3, ReceiverKept, ReliableFacts
  <2>5. toSnd' \in Seq(IntactAcks)
    BY <2>1, TailShifts, ReliableFacts
  <2>6. SegmentsInOrder(toRcv, Received, seq_ind, endFile)'
    BY <2>1, <2>2, <2>3, <2>4, ReliableFacts DEF ReliableSound
  <2>7. Received' <= seq_ind'
    BY <2>3, <2>4, ReliableNumbers
  <2> QED
    BY <2>1, <2>2, <2>3, <2>4, <2>5, <2>6, <2>7, ReliableFacts DEF ReliableSound
<1> QED
  BY <1>1, ReliableLost DEF Unreachable

-----------------------------------------------------------------------------
(***************************************************************************)
(* The invariant, and what the receiver has at the end.                    *)
(***************************************************************************)
LEMMA ReliableInit == Init => ReliableSound
<1> SUFFICES ASSUME Init PROVE ReliableSound
  OBVIOUS
<1>1. /\ toRcv = <<>> /\ toSnd = <<>> /\ ~s_err /\ ~r_err /\ s_pc = "select"
      /\ endFile = 0 /\ seq_ind = 0 /\ small_seq = 0 /\ s_seq_exp = 0 /\ s_window = 1
      /\ buffer = [i \in SndSlots |-> Uninit] /\ packet_encoded = DataDatagram(Uninit)
      /\ r_seq_exp = 0 /\ index = 0 /\ written = <<>> /\ r_pc \in {"wait", "unbound"}
      /\ buffer_payload = [i \in Slots |-> NoData]
  BY DEF Init, NetworkInit, SenderInit, ReceiverInit
<1>2. /\ \A i \in Slots : buffer_payload[i] = NoData
      /\ \A i \in SndSlots : buffer[i] = Uninit
      /\ packet_encoded.PAYLOAD = NoData
  BY <1>1 DEF DataDatagram, Uninit, Segment
<1>3. 0 % SEQ_MOD = 0 /\ 0 % RCV_WINDOW = 0 /\ InFlight \in Nat
  <2>1. SEQ_MOD \in Nat \ {0} /\ RCV_WINDOW \in Nat \ {0} /\ NSegments \in Nat
    BY SeqModAssumption, WindowAssumption, SenderAssumption
    DEF SeqModAssumption, WindowAssumption, SenderAssumption
  <2> QED
    BY <2>1, ModSmall DEF InFlight
<1>4. Received = 0 /\ Acked = 0 /\ Confirmed = 0
  <2>1. index \in Slots
    BY TypeInit DEF TypeOK, ReceiverTypeOK
  <2> QED
    BY <1>1, <1>2, <2>1 DEF Received, Acked, Confirmed
<1>5. SegmentsInOrder(toRcv, 0, 0, 0) /\ AcksInOrder(toSnd, 0, 0)
  BY <1>1 DEF SegmentsInOrder, AcksInOrder
<1>6. ReliableReceiver
  BY <1>1, <1>2, <1>3 DEF ReliableReceiver, Ended
<1>7. ReliableSender
  BY <1>1, <1>2, <1>3 DEF ReliableSender, EndPhase, Done
<1>8. toSnd \in Seq(IntactAcks)
  BY <1>1
<1> QED
  BY <1>1, <1>3, <1>4, <1>5, <1>6, <1>7, <1>8 DEF ReliableSound

LEMMA ReliableNext ==
  ReliableTransfer /\ FillsTable /\ TypeOK /\ TableInvariant /\ ReliableSound /\ [Next]_vars
  => ReliableSound'
<1> SUFFICES ASSUME ReliableState, [Next]_vars
             PROVE  ReliableSound'
  BY DEF ReliableState
<1>1. CASE SenderSelect \/ SenderTimeout \/ SenderEndSelect \/ SenderProceeds
  BY <1>1, ReliableSenderStep
<1>2. CASE ReceiverProceeds
  BY <1>2, ReliableReceiverStep
<1>3. CASE Unreachable
  BY <1>3, ReliableUnreachable
<1>4. CASE ReceiverDies
  BY <1>4, ReliableFacts DEF ReceiverDies, ReceiverKilled, MayFail
<1>5. CASE UNCHANGED vars
  <2>1. UNCHANGED <<rcvVars, protocolVars, toRcv, toSnd, s_err, r_err, s_pc, packet_encoded>>
    BY <1>5 DEF vars, netVars, sndVars
  <2>2. ReliableSound /\ ReliableSender
    BY ReliableFacts
  <2>3. \/ FirstLost /\ UNCHANGED toRcv
        \/ SegmentsInOrder(toRcv', Received, seq_ind, endFile)
    BY <2>1, <2>2 DEF ReliableSound
  <2> QED
    BY <2>1, <2>2, <2>3, ReliableFrame DEF ReliableSender
<1> QED
  BY <1>1, <1>2, <1>3, <1>4, <1>5 DEF Next, Terminated

\* In a reliable transfer segments and ACKs are in order and complete, however
\* long the file: until it is read to its end the timer expires for the first
\* segment only (client.c:131-179, server.c:195-213).
THEOREM ReliableCorrect ==
  ASSUME ReliableTransfer, FillsTable
  PROVE  Spec => []ReliableState
<1>1. "recrc" \notin Faults /\ NoStaleDamage
  BY DEF ReliableTransfer, NoStaleDamage
<1>2. Spec => []TableInvariant
  BY <1>1, TableInit, TableNext, TypeCorrect, PTL DEF Spec
<1>3. Spec => []ReliableSound
  BY <1>2, ReliableInit, ReliableNext, TypeCorrect, PTL DEF Spec
<1> QED
  BY <1>2, <1>3, TypeCorrect, PTL DEF ReliableState

\* At its end the receiver has the whole file.
LEMMA AllWritten ==
  ASSUME ReliableState, r_pc \in {"final"} \cup Ended
  PROVE  Len(written) = NSegments /\ \A i \in 1 .. NSegments : written[i] = i
BY ReliableFacts DEF ReliableReceiver

\* A reliable transfer is only taken for finished when the file is complete
\* (client.c:127, server.c:132-136).
THEOREM EofComplete ==
  ASSUME ReliableTransfer, FillsTable
  PROVE  Spec => []EofMeansComplete
<1>1. ReliableState => EofMeansComplete
  BY AllWritten DEF EofMeansComplete, Ended
<1> QED
  BY <1>1, ReliableCorrect, PTL

\* What test.c:223 and server.h:15 say holds when nothing goes wrong: the two
\* files are the same, and no payload stays in the table.
THEOREM ReliableFiles ==
  ASSUME ReliableTransfer, FillsTable
  PROVE  Spec => [](SameFiles /\ ReceivedIsWritten)
<1>1. ASSUME ReliableState PROVE SameFiles
  <2> SUFFICES ASSUME r_pc \in Ended PROVE written = [i \in 1 .. NSegments |-> i]
    BY DEF SameFiles
  <2>1. Len(written) = NSegments /\ \A i \in 1 .. NSegments : written[i] = i
    BY <1>1, AllWritten
  <2>2. written \in Seq(Payloads \ {NoData})
    BY <1>1, ReliableFacts DEF TypeOK, ReceiverTypeOK
  <2> QED
    BY <2>1, <2>2
<1>2. ASSUME ReliableState PROVE ReceivedIsWritten
  BY <1>2, ReliableFacts DEF ReliableReceiver, ReceivedIsWritten
<1> QED
  BY <1>1, <1>2, ReliableCorrect, PTL

-----------------------------------------------------------------------------
(***************************************************************************)
(* The end of the file.                                                    *)
(***************************************************************************)
\* After the segments there is room for one more and for the end.
RoomForTheEnd == Capacity >= InFlight + 2

\* A queue grows by at most one datagram.
LEMMA PushLength ==
  ASSUME NEW S, NEW ch \in Seq(S), NEW d \in S
  PROVE  Len(Push(ch, d)) \in Nat /\ Len(Push(ch, d)) <= Len(ch) + 1
BY DEF Push

\* The end-of-file datagram is written before any answer is read.
LEMMA EndSender ==
  ASSUME ReliableState, RoomForTheEnd, EndSound,
         SenderSelect \/ SenderTimeout \/ SenderEndSelect \/ SenderProceeds
  PROVE  EndSound'
<1>0. /\ Len(toRcv) \in Nat /\ InFlight \in Nat /\ UNCHANGED rcvVars
      /\ UNCHANGED r_pc
  BY ReliableFacts, ReliableNumbers
  DEF SenderSelect, SenderTimeout, SenderEndSelect, SenderProceeds, rcvVars
<1>1. CASE SenderSelect \/ SenderTimeout \/ ReadEndOfFile \/ HandleAck
  <2>1. /\ s_pc \in {"select", "file", "socket"} /\ UNCHANGED toRcv
        /\ s_pc' \in {"select", "file", "socket", "timer", "end_encode"}
    BY <1>1, ReliableFacts
    DEF SenderSelect, Select, SenderTimeout, SelectTimeout, ReadEndOfFile, HandleAck,
        ReadReply, Go, AfterFile, AfterSocket, AfterReply, LoopHead, netVars
  <2> QED
    BY <1>0, <2>1 DEF EndSound, Done
<1>2. CASE ReadSegment
  <2>1. /\ s_pc = "file" /\ seq_ind < NSegments /\ s_pc' \in {"select", "socket", "end_encode"}
        /\ Transmit(toRcv, toRcv', DataDatagram(Segment(s_seq_exp, seq_ind + 1)))
    BY <1>2 DEF ReadSegment, Write, Go, AfterFile, AfterSocket, LoopHead
  <2>2. toRcv' = Push(toRcv, DataDatagram(Segment(s_seq_exp, seq_ind + 1)))
    BY <2>1, NothingFails, ReliableFacts
  <2>3. Len(toRcv') <= Len(toRcv) + 1 /\ Len(toRcv') \in Nat
    <3> DEFINE d == DataDatagram(Segment(s_seq_exp, seq_ind + 1))
    <3> HIDE DEF d
    <3>1. toRcv \in Seq(DatagramSet \cup {d}) /\ d \in DatagramSet \cup {d}
      BY ReliableFacts, SeqMonotone
    <3> QED
      BY <2>2, <3>1, PushLength DEF d
  <2>4. Len(toRcv) < InFlight
    BY <2>1, RoomToSend
  <2>5. Len(toRcv') <= InFlight
    BY <1>0, <2>3, <2>4
  <2> QED
    BY <1>0, <2>1, <2>3, <2>5 DEF EndSound, Done
<1>3. CASE RetransmissionTimer
  <2>1. PICK d \in DatagramSet : toRcv' = Push(toRcv, d)
    <3>1. PICK seg : seg = buffer[small_ind % s_window]
      OBVIOUS
    <3>2. small_ind % s_window \in SndSlots
      <4>1. small_ind \in Int
        BY ReliableFacts, OldestNumbers DEF SndSlots
      <4> QED
        BY <4>1, ReliableFacts, OldestNumbers, SenderSlot
    <3>3. seg \in Segments /\ Transmit(toRcv, toRcv', DataDatagram(seg))
      BY <1>3, <3>1, <3>2, ReliableFacts
      DEF RetransmissionTimer, Write, TypeOK, SenderTypeOK
    <3> QED
      BY <3>3, SegmentType, NothingFails, ReliableFacts
  <2>2. Len(toRcv') <= Len(toRcv) + 1 /\ Len(toRcv') \in Nat
    BY <2>1, PushLength, ReliableFacts
  <2>3. s_pc = "timer" /\ s_pc' = LoopHead(endFile)
    BY <1>3 DEF RetransmissionTimer, Go, LoopHead
  <2>4. endFile = 0 => Len(toRcv) = 0 /\ 1 <= InFlight
    <3>1. endFile = 0 => toRcv = <<>> /\ seq_ind = 1
      BY <2>3, ReliableFacts DEF ReliableSender, FirstLost
    <3> QED
      BY <3>1, ReliableNumbers DEF InFlight
  <2>5. Len(toRcv) <= InFlight
    BY <2>3 DEF EndSound
  <2>6. \/ s_pc' = "select" /\ Len(toRcv') <= InFlight
        \/ s_pc' = "end_encode" /\ Len(toRcv') <= InFlight + 1
    BY <1>0, <2>2, <2>3, <2>4, <2>5, ReliableFacts DEF LoopHead
  <2> QED
    BY <1>0, <2>6 DEF EndSound, Done
<1>4. CASE EncodeEndOfFile
  <2>1. /\ s_pc = "end_encode" /\ s_pc' = "end_select" /\ UNCHANGED <<toRcv, s_seq_exp>>
        /\ packet_encoded' = DataDatagram(Segment(s_seq_exp, NoData))
    BY <1>4 DEF EncodeEndOfFile, netVars, protocolVars
  <2> QED
    BY <1>0, <2>1 DEF EndSound, Done
<1>5. CASE SenderEndSelect
  <2>1. PICK sfd \in BOOLEAN : /\ IF sfd THEN Readable ELSE Quiet
                               /\ EndSelect(sfd)
    BY <1>5, ReliableFacts DEF SenderEndSelect
  <2>2. /\ s_pc = "end_select" /\ s_pc' = "end_write" /\ s_sfd' = sfd
        /\ UNCHANGED <<toRcv, s_seq_exp, packet_encoded>>
    BY <2>1 DEF EndSelect, netVars, protocolVars
  <2>3. IF s_sfd' THEN r_pc \notin {"unbound", "wait"} ELSE toRcv = <<>>
    BY <2>1, <2>2, ReliableFacts DEF Readable, Quiet, ReliableReceiver
  <2> QED
    BY <1>0, <2>2, <2>3 DEF EndSound, Done
<1>6. CASE EndWrite
  <2>1. /\ s_pc = "end_write" /\ s_pc' = IF s_sfd THEN "end_read" ELSE "end_select"
        /\ UNCHANGED <<s_seq_exp, packet_encoded>>
        /\ Transmit(toRcv, toRcv', packet_encoded)
    BY <1>6 DEF EndWrite, Write, protocolVars
  <2>2. toRcv' = Push(toRcv, packet_encoded) /\ packet_encoded \in DatagramSet
    BY <2>1, NothingFails, ReliableFacts DEF TypeOK, SenderTypeOK
  <2>3. packet_encoded = DataDatagram(Segment(s_seq_exp, NoData))
    BY <2>1 DEF EndSound
  <2>4. CASE s_sfd
    <3>1. Len(toRcv) < Capacity
      BY <1>0, <2>1, ReliableNumbers DEF EndSound, RoomForTheEnd
    <3>2. toRcv'[Len(toRcv) + 1] = packet_encoded /\ Len(toRcv') = Len(toRcv) + 1
      BY <2>2, <3>1, PushLast, ReliableFacts
    <3>3. IsData(packet_encoded) /\ Length(packet_encoded) = 0
      BY <2>3
      DEF DataDatagram, Segment, IsData, DecodesOK, DecodeStatus, Length, PTYPE_DATA
    <3>4. EndSent'
      <4>1. Len(toRcv) + 1 \in 1 .. Len(toRcv')
        BY <1>0, <3>2
      <4> QED
        BY <3>2, <3>3, <4>1 DEF EndSent
    <3>5. r_pc \notin {"unbound", "wait"}
      BY <2>1, <2>4 DEF EndSound
    <3> QED
      BY <1>0, <2>1, <2>4, <3>4, <3>5 DEF EndSound
  <2>5. CASE ~s_sfd
    <3>1. Len(toRcv) = 0
      BY <2>1, <2>5 DEF EndSound
    <3>2. Len(toRcv') <= 1 /\ Len(toRcv') \in Nat
      <4>1. Len(toRcv') \in Nat /\ Len(toRcv') <= Len(toRcv) + 1
        BY <2>2, PushLength, ReliableFacts
      <4> QED
        BY <3>1, <4>1
    <3>3. Len(toRcv') <= InFlight + 1 /\ s_pc' = "end_select"
      BY <1>0, <2>1, <2>5, <3>2
    <3>4. (packet_encoded = DataDatagram(Segment(s_seq_exp, NoData)))'
      BY <2>1, <2>3
    <3> QED
      BY <1>0, <3>3, <3>4 DEF EndSound, Done
  <2> QED
    BY <2>4, <2>5
<1>7. CASE EndRead
  <2>1. s_pc = "end_read" /\ UNCHANGED toRcv /\ toSnd # <<>> /\ packet_encoded' = Head(toSnd)
    BY <1>7, ReliableFacts DEF EndRead
  <2>2. DecodesOK(packet_encoded')
    <3>1. Head(toSnd) \in IntactAcks
      BY <2>1, ReliableFacts, TailShifts
    <3> QED
      BY <2>1, <3>1 DEF IntactAcks, DecodesOK, DecodeStatus
  <2>3. s_pc' = "done"
    BY <1>7, <2>2 DEF EndRead, EndsTransfer
  <2>4. EndSent' <=> EndSent
    BY <1>0, <2>1 DEF EndSent
  <2> QED
    BY <1>0, <2>1, <2>3, <2>4 DEF EndSound
<1> QED
  BY <1>1, <1>2, <1>3, <1>4, <1>5, <1>6, <1>7, ReliableNever DEF SenderProceeds, SenderStep

\* What the receiver or the network does with what is on the way.
LEMMA EndFrame ==
  ASSUME ReliableState, EndSound,
         UNCHANGED <<s_pc, s_sfd, s_seq_exp, packet_encoded>>, r_pc' # "aborted",
         UNCHANGED toRcv \/ (toRcv # <<>> /\ toRcv' = Tail(toRcv)),
         r_pc' \in {"unbound", "wait"} => r_pc \in {"unbound", "wait"},
         r_pc \notin {"unbound", "wait"} /\ EndSent => EndSent'
  PROVE  EndSound'
<1>1. Len(toRcv) \in Nat /\ Len(toRcv') \in Nat /\ Len(toRcv') <= Len(toRcv)
      /\ InFlight \in Nat
  BY ReliableFacts, ReliableNumbers, TailShifts
<1>2. toRcv = <<>> => toRcv' = <<>>
  OBVIOUS
<1> QED
  BY <1>1, <1>2 DEF EndSound

\* It is not lost: the receiver is up.
LEMMA EndReceiver ==
  ASSUME ReliableState, EndSound, ReceiverProceeds \/ Unreachable
  PROVE  EndSound'
<1>1. UNCHANGED <<s_pc, s_sfd, s_seq_exp, packet_encoded>>
  BY DEF ReceiverProceeds, Unreachable, SenderUnreachable, sndVars, protocolVars
<1>2. ~ReceiveError /\ ~ReceiveTruncated
  BY ReliableFacts, NoTruncated DEF ReceiveError
<1>3. CASE Bind \/ WaitForClient \/ WriteSlot \/ AcknowledgeSegment
           \/ AcknowledgeEndOfFile \/ Close \/ (SenderUnreachable /\ UNCHANGED rcvVars)
  <2>1. UNCHANGED toRcv /\ (r_pc \in {"final", "closed"} => r_pc' \in {"final", "closed"})
        /\ (r_pc' \in {"unbound", "wait"} => r_pc \in {"unbound", "wait"})
        /\ (r_pc # "aborted" => r_pc' # "aborted")
    BY <1>3
    DEF Bind, WaitForClient, WriteSlot, AcknowledgeSegment, AcknowledgeEndOfFile, Close,
        SenderUnreachable, netVars, rcvVars
  <2>2. EndSent => EndSent'
    BY <2>1 DEF EndSent
  <2> QED
    BY <1>1, <2>1, <2>2, EndFrame DEF EndSound
<1>4. CASE ReceiveInvalid \/ ReceiveSegment \/ ReceiveEndOfFile
  <2>1. /\ toRcv # <<>> /\ toRcv' = Tail(toRcv) /\ r_pc = "select"
        /\ r_pc' \in {"select", "flush", "final"}
        /\ r_pc' = "final" \/ ~(IsData(Head(toRcv)) /\ Length(Head(toRcv)) = 0)
    BY <1>4 DEF ReceiveInvalid, ReceiveSegment, ReceiveEndOfFile, Receive, Incoming
  <2>2. EndSent => EndSent'
    <3> SUFFICES ASSUME EndSent, r_pc' # "final" PROVE EndSent'
      BY DEF EndSent
    <3>1. PICK i \in 1 .. Len(toRcv) : IsData(toRcv[i]) /\ Length(toRcv[i]) = 0
      BY <2>1 DEF EndSent
    <3>2. /\ Head(toRcv) = toRcv[1] /\ Len(toRcv) \in Nat /\ Len(toRcv') = Len(toRcv) - 1
          /\ \A k \in 1 .. Len(toRcv') : toRcv'[k] = toRcv[k + 1]
      BY <2>1, ReliableFacts, TailShifts
    <3>3. i # 1
      BY <2>1, <3>1, <3>2
    <3>4. i - 1 \in 1 .. Len(toRcv') /\ (i - 1) + 1 = i
      BY <3>2, <3>3
    <3>5. toRcv'[i - 1] = toRcv[i]
      BY <3>2, <3>4
    <3> QED
      BY <3>1, <3>4, <3>5 DEF EndSent
  <2> QED
    BY <1>1, <2>1, <2>2, EndFrame
<1>5. CASE ReceiverUnreachable
  <2>1. toRcv # <<>> /\ toRcv' = Tail(toRcv) /\ UNCHANGED r_pc /\ r_pc # "aborted"
        /\ r_pc \in Ended \cup {"unbound"}
    BY <1>5 DEF ReceiverUnreachable, rcvVars, EndSound
  <2>2. r_pc \notin {"unbound", "wait"} => EndSent'
    BY <2>1 DEF EndSent, Ended
  <2> QED
    BY <1>1, <2>1, <2>2, EndFrame
<1> QED
  BY <1>2, <1>3, <1>4, <1>5 DEF ReceiverProceeds, ReceiverStep, Unreachable

LEMMA EndInit == Init => EndSound
<1> SUFFICES ASSUME Init PROVE EndSound
  OBVIOUS
<1>1. toRcv = <<>> /\ s_pc = "select" /\ r_pc \in {"wait", "unbound"}
  BY DEF Init, NetworkInit, SenderInit, ReceiverInit
<1>2. Len(toRcv) = 0 /\ InFlight \in Nat
  BY <1>1, WindowAssumption, SenderAssumption
  DEF WindowAssumption, SenderAssumption, InFlight
<1> QED
  BY <1>1, <1>2 DEF EndSound, Done

LEMMA EndNext ==
  ReliableState /\ RoomForTheEnd /\ EndSound /\ [Next]_vars => EndSound'
<1> SUFFICES ASSUME ReliableState, RoomForTheEnd, EndSound, [Next]_vars
             PROVE  EndSound'
  OBVIOUS
<1>1. CASE SenderSelect \/ SenderTimeout \/ SenderEndSelect \/ SenderProceeds
  BY <1>1, EndSender
<1>2. CASE ReceiverProceeds \/ Unreachable
  BY <1>2, EndReceiver
<1>3. CASE ReceiverDies
  BY <1>3, ReliableFacts DEF ReceiverDies, ReceiverKilled, MayFail
<1>4. CASE UNCHANGED vars
  <2>1. UNCHANGED <<s_pc, s_sfd, s_seq_exp, packet_encoded, r_pc, toRcv>>
    BY <1>4 DEF vars, netVars, sndVars, protocolVars, rcvVars
  <2>2. EndSent => EndSent'
    BY <2>1 DEF EndSent
  <2> QED
    BY <2>1, <2>2, EndFrame DEF EndSound
<1> QED
  BY <1>1, <1>2, <1>3, <1>4 DEF Next, Terminated

\* When the sender of a reliable transfer returns, the receiver got the end of
\* the file or will; and what the second loop sends is the end of the file
\* (client.c:382-404).
THEOREM EndCorrect ==
  ASSUME ReliableTransfer, FillsTable, RoomForTheEnd
  PROVE  Spec => [](DoneMeansEnded /\ EndLoopSendsEndOfFile)
<1>1. EndSound => DoneMeansEnded /\ EndLoopSendsEndOfFile
  BY DEF EndSound, EndSent, DoneMeansEnded, EndLoopSendsEndOfFile, Done
<1> QED
  BY <1>1, EndInit, EndNext, ReliableCorrect, PTL DEF Spec

-----------------------------------------------------------------------------
(***************************************************************************)
(* The refinement.                                                         *)
(***************************************************************************)
abstractVars == <<written, r_pc \in {"final", "closed"}>>

LEMMA RefinesInit == Init => Delivery!Init
BY DEF Init, ReceiverInit, Delivery!Init

\* A write appends the next segment of the file.
LEMMA WriteDelivers ==
  ASSUME SafeReceiver, TypeOK, ReceiverSound \/ ReliableState, WriteSlot
  PROVE  Delivery!Deliver
<1>1. r_pc = "flush" /\ r_pc' = "flush"
  BY DEF WriteSlot
<1>2. buffer_payload[index] = Len(written) + 1 /\ Len(written) + 1 \in 1 .. NSegments
  <2>1. CASE ReceiverSound
    BY <2>1, NextSlot DEF WriteSlot
  <2>2. CASE ReliableState
    BY <2>2, ReliableNumbers DEF WriteSlot
  <2> QED
    BY <2>1, <2>2
<1>3. written' = Append(written, Len(written) + 1)
  <2>1. ~MayFail("io")
    BY DEF SafeReceiver, MayFail
  <2> QED
    BY <1>2, <2>1 DEF WriteSlot
<1>4. Len(written) < NSegments
  <2>1. NSegments \in Nat /\ Len(written) \in Int
    BY SenderAssumption DEF SenderAssumption, TypeOK, ReceiverTypeOK
  <2> QED
    BY <1>2, <2>1
<1> QED
  BY <1>1, <1>3, <1>4 DEF Delivery!Deliver

\* The end-of-file datagram finishes it, of a reliable transfer with the whole
\* file.
LEMMA EndFinishes ==
  ASSUME Faults # {} \/ ReliableState, ReceiveEndOfFile
  PROVE  Delivery!Finish
<1>1. r_pc = "select" /\ r_pc' = "final" /\ UNCHANGED written
  BY DEF ReceiveEndOfFile, Receive
<1>2. Faults = {} => Len(written) = NSegments
  <2> SUFFICES ASSUME ReliableState PROVE Len(written) = NSegments
    OBVIOUS
  <2> QED
    BY NoSegmentLeft
<1> QED
  BY <1>1, <1>2 DEF Delivery!Finish

LEMMA ReceiverStepRefines ==
  ASSUME SafeReceiver, TypeOK, (Faults # {} /\ ReceiverSound) \/ ReliableState,
         ReceiverStep
  PROVE  Delivery!Next \/ UNCHANGED abstractVars
<1>1. CASE WriteSlot
  BY <1>1, WriteDelivers DEF Delivery!Next
<1>2. CASE ReceiveEndOfFile
  BY <1>2, EndFinishes DEF Delivery!Next
<1>3. CASE Bind \/ WaitForClient \/ ReceiveError \/ ReceiveSegment \/ AcknowledgeSegment
  BY <1>3
  DEF Bind, WaitForClient, ReceiveError, ReceiveSegment, Receive, AcknowledgeSegment,
      abstractVars
<1>4. CASE ReceiveInvalid \/ ReceiveTruncated \/ AcknowledgeEndOfFile
  BY <1>4 DEF ReceiveInvalid, ReceiveTruncated, AcknowledgeEndOfFile, abstractVars
<1>5. CASE Close
  BY <1>5 DEF Close, abstractVars
<1> QED
  BY <1>1, <1>2, <1>3, <1>4, <1>5 DEF ReceiverStep

LEMMA RefinesNext ==
  /\ SafeReceiver /\ TypeOK
  /\ (Faults # {} /\ DeliveryInvariant /\ NoUninitialisedRead) \/ ReliableState
  /\ [Next]_vars
  => [Delivery!Next]_abstractVars
<1> SUFFICES ASSUME SafeReceiver, TypeOK, [Next]_vars,
                    (Faults # {} /\ DeliveryInvariant /\ NoUninitialisedRead)
                      \/ ReliableState
             PROVE  Delivery!Next \/ UNCHANGED abstractVars
  OBVIOUS
<1>1. (Faults # {} /\ ReceiverSound) \/ ReliableState
  BY DEF DeliveryInvariant, NoUninitialisedRead
<1>2. CASE ReceiverProceeds
  BY <1>1, <1>2, ReceiverStepRefines DEF ReceiverProceeds
<1>3. CASE UNCHANGED rcvVars
  BY <1>3 DEF rcvVars, abstractVars
<1>4. UNCHANGED vars => UNCHANGED rcvVars
  BY DEF vars
<1>5. CASE ReceiverDies
  BY <1>5 DEF ReceiverDies, ReceiverKilled, abstractVars
<1> QED
  BY <1>2, <1>3, <1>4, <1>5
  DEF Next, SenderSelect, SenderTimeout, SenderEndSelect, SenderProceeds, Unreachable,
      SenderUnreachable, ReceiverUnreachable, Terminated

\* Every step of the transfer is one of a file that grows by its next segment
\* and then ends, as long as the sender sends nothing it did not store
\* (server.c:132-158, client.c:345).
THEOREM TransferRefines ==
  ASSUME NoWrap, SafeReceiver, Faults # {}
  PROVE  Spec /\ []NoUninitialisedRead => ImplementsDelivery
<1>1. Delivery!Spec <=> Delivery!Init /\ [][Delivery!Next]_abstractVars
  BY DEF Delivery!Spec, abstractVars
<1> QED
  BY <1>1, RefinesInit, RefinesNext, TypeCorrect, DeliverySound, PTL
  DEF Spec, ImplementsDelivery

\* The same without the proviso, of a file that fills the sender's table, unless
\* answers are damaged and reads of the socket fail: every behaviour of the
\* programs is one of FileDelivery (client.c:124-179, 221, server.c:132-158).
THEOREM FullTransferRefines ==
  ASSUME NoWrap, SafeReceiver, NoStaleDamage, Faults # {}, FillsTable
  PROVE  Spec => ImplementsDelivery
<1>1. "recrc" \notin Faults
  BY DEF SafeReceiver
<1> QED
  BY <1>1, NothingUninitialised, TransferRefines, PTL

\* When nothing goes wrong, FileDelivery is a reliable one, however long the
\* file: it only ends complete (client.c:124-179, 382-404, server.c:132-158).
THEOREM ReliableTransferRefines ==
  ASSUME ReliableTransfer, FillsTable
  PROVE  Spec => ImplementsDelivery
<1>1. SafeReceiver
  BY DEF ReliableTransfer, SafeReceiver
<1>2. Delivery!Spec <=> Delivery!Init /\ [][Delivery!Next]_abstractVars
  BY DEF Delivery!Spec, abstractVars
<1> QED
  BY <1>1, <1>2, RefinesInit, RefinesNext, ReliableCorrect, TypeCorrect, PTL
  DEF Spec, ImplementsDelivery

-----------------------------------------------------------------------------
(***************************************************************************)
(* SlidingWindow, under every fault that leaves the receiver's file a      *)
(* prefix and the ACKs sound.                                              *)
(***************************************************************************)
windowVars ==
  <<seq_ind, Len(written), [i \in Slots |-> buffer[i].PAYLOAD], buffer_payload>>

\* A segment that is read is sent, and the table only has what was sent.
LEMMA ReadSegmentSent ==
  ASSUME TypeOK, SentSound, ReadSegment
  PROVE  SentSound'
<1> DEFINE seg == Segment(s_seq_exp, seq_ind + 1)
<1>1. /\ Write(DataDatagram(seg)) /\ seq_ind' = seq_ind + 1 /\ seq_ind < NSegments
      /\ buffer' = [buffer EXCEPT ![seq_ind % s_window] = seg]
      /\ UNCHANGED packet_encoded
  BY DEF ReadSegment
<1>2. seq_ind \in Nat /\ seq_ind + 1 \in 1 .. NSegments
  BY <1>1, OldestNumbers
<1>3. seg \in Segments /\ seg.PAYLOAD = seq_ind + 1
  BY <1>2 DEF TypeOK, SenderTypeOK, Segment, Segments
<1> HIDE DEF seg
<1>4. SentUpTo(seq_ind) \subseteq SentUpTo(seq_ind + 1)
  BY <1>2 DEF SentUpTo
<1>5. DataDatagram(seg) \in SentUpTo(seq_ind + 1)
  BY <1>2, <1>3, SegmentType DEF SentUpTo, DataDatagram
<1>6. toRcv \in Seq(SentUpTo(seq_ind + 1))
  BY <1>4, SeqMonotone DEF SentSound
<1>7. toRcv' \in Seq(SentUpTo(seq_ind + 1))
  BY <1>1, <1>5, <1>6, SentWrite
<1>8. \A i \in SndSlots : buffer'[i].PAYLOAD \in 0 .. seq_ind + 1
  <2>1. DOMAIN buffer = SndSlots
    BY DEF TypeOK, SenderTypeOK
  <2>2. \A i \in SndSlots : buffer'[i] = buffer[i] \/ buffer'[i] = seg
    BY <1>1, <2>1
  <2>3. \A i \in SndSlots : buffer[i].PAYLOAD \in 0 .. seq_ind + 1
    BY <1>2 DEF SentSound
  <2> QED
    BY <1>2, <1>3, <2>2, <2>3
<1> QED
  BY <1>1, <1>4, <1>7, <1>8 DEF SentSound

LEMMA SenderStepSent ==
  ASSUME NoStaleDamage, TypeOK, TableInvariant, AckInvariant, SentSound,
         \/ \E sfd \in BOOLEAN : Select(sfd) \/ EndSelect(sfd)
         \/ SelectTimeout \/ SenderStep
  PROVE  SentSound'
<1>1. CASE UNCHANGED <<toRcv, packet_encoded, seq_ind, buffer>>
  BY <1>1 DEF SentSound
<1>2. CASE \/ \E sfd \in BOOLEAN : Select(sfd) \/ EndSelect(sfd)
           \/ SelectTimeout \/ ReadEndOfFile \/ ReadFileError \/ WriteRefused
  BY <1>1, <1>2
  DEF Select, EndSelect, SelectTimeout, ReadEndOfFile, ReadFileError, WriteRefused,
      netVars, protocolVars
<1>3. CASE ReadBadReply \/ HandleAck \/ HandleOther
  BY <1>1, <1>3 DEF ReadBadReply, HandleAck, HandleOther, protocolVars
<1>4. CASE ReadSegment
  BY <1>4, ReadSegmentSent
<1>5. CASE HandleNack \/ WriteRawStruct
  <2>1. AcksOnly /\ s_pc # "nack_raw"
    BY DEF TableInvariant, AcksOnly
  <2> QED
    BY <1>5, <2>1, AckAtHand DEF HandleNack, WriteRawStruct
<1>6. CASE RetransmissionTimer
  <2>1. PICK seg : seg = buffer[small_ind % s_window]
    OBVIOUS
  <2>2. small_ind % s_window \in SndSlots
    <3>1. small_ind \in Int
      BY OldestNumbers DEF SndSlots
    <3> QED
      BY <3>1, OldestNumbers, SenderSlot
  <2>3. seg \in Segments /\ seg.PAYLOAD \in 0 .. seq_ind
    BY <1>6, <2>1, <2>2 DEF RetransmissionTimer, TypeOK, SenderTypeOK, SentSound
  <2>4. DataDatagram(seg) \in SentUpTo(seq_ind)
    BY <2>3, SegmentType DEF SentUpTo, DataDatagram
  <2>5. toRcv' \in Seq(SentUpTo(seq_ind))
    BY <1>6, <2>1, <2>4, SentWrite DEF RetransmissionTimer, SentSound
  <2> QED
    BY <1>6, <2>5 DEF RetransmissionTimer, SentSound, protocolVars
<1>7. CASE EncodeEndOfFile
  <2>1. packet_encoded' \in DatagramSet
    BY <1>7, DataDatagramType DEF EncodeEndOfFile, TypeOK, SenderTypeOK, Payloads
  <2>2. packet_encoded'.PAYLOAD = 0
    BY <1>7 DEF EncodeEndOfFile, DataDatagram, Segment, NoData
  <2>3. packet_encoded' \in SentUpTo(seq_ind)
    BY <2>1, <2>2, OldestNumbers DEF SentUpTo
  <2> QED
    BY <1>7, <2>3 DEF EncodeEndOfFile, SentSound, netVars, protocolVars
<1>8. CASE EndWrite
  <2>1. toRcv' \in Seq(SentUpTo(seq_ind))
    BY <1>8, SentWrite DEF EndWrite, SentSound
  <2> QED
    BY <1>8, <2>1 DEF EndWrite, SentSound, protocolVars
<1>9. CASE EndRead
  <2>1. packet_encoded' \in SentUpTo(seq_ind)
    <3>1. CASE UNCHANGED packet_encoded
      BY <3>1 DEF SentSound
    <3>2. CASE toSnd # <<>> /\ packet_encoded' = Head(toSnd)
      <4>1. Head(toSnd) \in SoundReplies(Len(written))
        BY <3>2, HeadTailIn DEF AckInvariant
      <4>2. Head(toSnd) \in DatagramSet /\ Head(toSnd).PAYLOAD = 0
        BY <4>1 DEF SoundReplies, Replies, NoData
      <4> QED
        BY <3>2, <4>2, OldestNumbers DEF SentUpTo
    <3> QED
      BY <1>9, <3>1, <3>2 DEF EndRead
  <2> QED
    BY <1>9, <2>1 DEF EndRead, SentSound, protocolVars
<1>10. CASE RetransmitUninitialised \/ NackUninitialised
  BY <1>10, UseStored
<1> QED
  BY <1>2, <1>3, <1>4, <1>5, <1>6, <1>7, <1>8, <1>9, <1>10 DEF SenderStep

LEMMA SentInit == Init => SentSound
<1> SUFFICES ASSUME Init PROVE SentSound
  OBVIOUS
<1>1. /\ toRcv = <<>> /\ seq_ind = 0 /\ buffer = [i \in SndSlots |-> Uninit]
      /\ packet_encoded = DataDatagram(Uninit)
  BY DEF Init, NetworkInit, SenderInit
<1>2. Uninit.PAYLOAD = 0 /\ DataDatagram(Uninit).PAYLOAD = 0
  BY DEF Uninit, Segment, DataDatagram, NoData
<1>3. packet_encoded \in DatagramSet
  BY TypeInit DEF TypeOK, SenderTypeOK
<1> QED
  BY <1>1, <1>2, <1>3 DEF SentSound, SentUpTo

LEMMA SentNext ==
  NoStaleDamage /\ TypeOK /\ TableInvariant /\ AckInvariant /\ SentSound /\ [Next]_vars
  => SentSound'
<1> SUFFICES ASSUME NoStaleDamage, TypeOK, TableInvariant, AckInvariant, SentSound, [Next]_vars
             PROVE  SentSound'
  OBVIOUS
<1>1. CASE SenderSelect \/ SenderTimeout \/ SenderEndSelect \/ SenderProceeds
  BY <1>1, SenderStepSent
  DEF SenderSelect, SenderTimeout, SenderEndSelect, SenderProceeds
<1>2. ASSUME UNCHANGED <<packet_encoded, seq_ind, buffer>>,
             UNCHANGED toRcv \/ (toRcv # <<>> /\ toRcv' = Tail(toRcv))
      PROVE  SentSound'
  <2>1. toRcv' \in Seq(SentUpTo(seq_ind))
    BY <1>2, HeadTailIn DEF SentSound
  <2> QED
    BY <1>2, <2>1 DEF SentSound
<1>3. CASE ReceiverProceeds
  <2>1. UNCHANGED toRcv \/ (toRcv # <<>> /\ toRcv' = Tail(toRcv))
    BY <1>3
    DEF ReceiverProceeds, ReceiverStep, Bind, WaitForClient, ReceiveError,
        ReceiveInvalid, ReceiveTruncated, ReceiveEndOfFile, ReceiveSegment, Receive,
        WriteSlot, AcknowledgeSegment, AcknowledgeEndOfFile, Close, netVars
  <2> QED
    BY <1>2, <1>3, <2>1 DEF ReceiverProceeds, sndVars, protocolVars
<1>4. CASE ReceiverDies \/ Unreachable \/ Terminated \/ UNCHANGED vars
  BY <1>2, <1>4
  DEF ReceiverDies, ReceiverKilled, Unreachable, SenderUnreachable,
      ReceiverUnreachable, Terminated, vars, netVars, sndVars, protocolVars
<1> QED
  BY <1>1, <1>3, <1>4 DEF Next

\* A segment is sent within a window of the receiver's file, and stored in the
\* slot of its number.
LEMMA ReadSegmentSends ==
  ASSUME TypeOK, AckInvariant, WindowSound, s_seq_exp = seq_ind,
         ReadSegment, UNCHANGED rcvVars
  PROVE  Windows!Send
<1>1. /\ seq_ind + 1 <= Len(written) + RCV_WINDOW
      /\ s_window = RCV_WINDOW \/ seq_ind = 0
  BY WindowHolds
<1>2. /\ seq_ind \in Nat /\ NSegments \in Nat /\ Len(written) \in Nat
      /\ RCV_WINDOW \in Nat \ {0} /\ s_window \in Nat \ {0}
  BY OldestNumbers DEF TypeOK, ReceiverTypeOK, WindowSizes
<1>3. /\ seq_ind' = seq_ind + 1 /\ seq_ind < NSegments
      /\ buffer' = [buffer EXCEPT ![seq_ind % s_window] = Segment(s_seq_exp, seq_ind + 1)]
      /\ UNCHANGED <<written, buffer_payload>>
  BY DEF ReadSegment, rcvVars
<1>4. PICK s \in Slots : s = seq_ind % RCV_WINDOW
  <2>1. seq_ind \in Int
    BY <1>2
  <2>2. seq_ind % RCV_WINDOW \in 0 .. RCV_WINDOW - 1
    BY <1>2, <2>1, ModRange
  <2> QED
    BY <2>2 DEF Slots
<1>5. seq_ind % s_window = s
  <2>1. CASE seq_ind = 0
    <3>1. 0 % s_window = 0 /\ 0 % RCV_WINDOW = 0
      BY <1>2, ModSmall
    <3> QED
      BY <1>4, <2>1, <3>1
  <2> QED
    BY <1>1, <1>4, <2>1
<1>6. Windows!SlotFor(seq_ind') = s
  <2>1. seq_ind' - 1 = seq_ind
    BY <1>2, <1>3
  <2> QED
    BY <1>4, <2>1 DEF Windows!SlotFor
<1>7. [i \in Slots |-> buffer'[i].PAYLOAD]
        = [[i \in Slots |-> buffer[i].PAYLOAD] EXCEPT ![s] = seq_ind']
  <2>1. /\ DOMAIN buffer = SndSlots /\ Slots \subseteq SndSlots
        /\ Segment(s_seq_exp, seq_ind + 1).PAYLOAD = seq_ind + 1
    BY SlotsStored DEF TypeOK, SenderTypeOK, Segment
  <2>2. \A i \in Slots : buffer'[i].PAYLOAD =
                           IF i = s THEN seq_ind' ELSE buffer[i].PAYLOAD
    BY <1>3, <1>4, <1>5, <2>1
  <2> QED
    BY <1>4, <2>2
<1>8. seq_ind < NSegments /\ seq_ind < Len(written) + RCV_WINDOW
  BY <1>1, <1>2, <1>3
<1> QED
  BY <1>3, <1>6, <1>7, <1>8 DEF Windows!Send

\* Nothing else the sender does changes its table.
LEMMA SenderStepWindows ==
  ASSUME NoStaleDamage, TypeOK, TableInvariant, AckInvariant, WindowSound, s_seq_exp = seq_ind,
         UNCHANGED rcvVars,
         \/ \E sfd \in BOOLEAN : Select(sfd) \/ EndSelect(sfd)
         \/ SelectTimeout \/ SenderStep
  PROVE  Windows!Next \/ UNCHANGED windowVars
<1>1. CASE UNCHANGED <<seq_ind, buffer>>
  BY <1>1 DEF windowVars, rcvVars
<1>2. CASE ReadSegment
  BY <1>2, ReadSegmentSends DEF Windows!Next
<1>3. CASE \/ \E sfd \in BOOLEAN : Select(sfd) \/ EndSelect(sfd)
           \/ SelectTimeout \/ ReadEndOfFile \/ ReadFileError \/ WriteRefused
  BY <1>1, <1>3
  DEF Select, EndSelect, SelectTimeout, ReadEndOfFile, ReadFileError, WriteRefused,
      protocolVars
<1>4. CASE ReadBadReply \/ HandleAck \/ HandleNack \/ HandleOther \/ WriteRawStruct
           \/ RetransmissionTimer
  BY <1>1, <1>4
  DEF ReadBadReply, HandleAck, HandleNack, HandleOther, WriteRawStruct,
      RetransmissionTimer, protocolVars
<1>5. CASE EncodeEndOfFile \/ EndWrite \/ EndRead
  BY <1>1, <1>5 DEF EncodeEndOfFile, EndWrite, EndRead, protocolVars
<1>6. CASE RetransmitUninitialised \/ NackUninitialised
  BY <1>6, UseStored
<1> QED
  BY <1>2, <1>3, <1>4, <1>5, <1>6 DEF SenderStep

\* A segment in the window was sent and is not in the file; the slot it goes to
\* is empty, or holds that segment already.
LEMMA ReceiveSegmentAccepts ==
  ASSUME NoWrap, TypeOK, SentSound, SenderSound, ReceiverSound, ReceiveSegment,
         UNCHANGED sndVars
  PROVE  Windows!Accept \/ UNCHANGED windowVars
<1>1. UNCHANGED <<seq_ind, buffer, written>> /\ toRcv # <<>>
  BY DEF ReceiveSegment, Receive, sndVars, protocolVars
<1>2. CASE UNCHANGED buffer_payload
  BY <1>1, <1>2 DEF windowVars
<1>3. CASE /\ InWindow(Incoming.SEQNUM)
           /\ buffer_payload' =
                [buffer_payload EXCEPT ![SlotOf(Incoming.SEQNUM)] = Incoming.PAYLOAD]
  <2>1. PICK seq \in SeqNums : seq = Incoming.SEQNUM /\ Incoming.PAYLOAD = seq + 1
    BY IncomingSound DEF ReceiveSegment, Receive, SenderSound
  <2>2. /\ Len(written) <= seq /\ seq <= Len(written) + RCV_WINDOW - 1
        /\ SlotOf(seq) = seq % RCV_WINDOW
    BY <1>3, <2>1, WindowNoWrap
  <2>3. seq + 1 \in 0 .. seq_ind
    <3>1. Incoming \in SentUpTo(seq_ind)
      BY <1>1, HeadTailIn DEF Incoming, SentSound
    <3> QED
      BY <2>1, <3>1 DEF SentUpTo
  <2>4. /\ Len(written) \in Nat /\ seq \in Nat /\ RCV_WINDOW \in Nat \ {0}
        /\ (seq + 1) - 1 = seq
    <3>1. Len(written) \in Nat
      BY DEF TypeOK, ReceiverTypeOK
    <3>2. SEQ_MOD \in Nat \ {0} /\ RCV_WINDOW \in Nat \ {0}
      BY OldestNumbers
    <3>3. seq \in Nat
      BY <2>1, <3>2 DEF SeqNums
    <3> QED
      BY <3>1, <3>2, <3>3
  <2>5. seq + 1 \in Len(written) + 1 .. seq_ind
    <3>1. Len(written) <= seq
      BY <2>2
    <3> QED
      BY <2>3, <2>4, <3>1
  <2>6. PICK s \in Slots : s = seq % RCV_WINDOW /\ s = Windows!SlotFor(seq + 1)
    <3>1. seq \in Int
      BY <2>4
    <3>2. seq % RCV_WINDOW \in 0 .. RCV_WINDOW - 1
      BY <2>4, <3>1, ModRange
    <3>3. Windows!SlotFor(seq + 1) = seq % RCV_WINDOW
      BY <2>4 DEF Windows!SlotFor
    <3> QED
      BY <3>2, <3>3 DEF Slots
  <2>7. buffer_payload' = [buffer_payload EXCEPT ![s] = seq + 1]
    BY <1>3, <2>1, <2>2, <2>6
  <2>8. CASE buffer_payload[s] = NoData
    <3>1. buffer_payload[Windows!SlotFor(seq + 1)] = 0
      BY <2>6, <2>8 DEF NoData
    <3> QED
      BY <1>1, <2>5, <2>6, <2>7, <3>1 DEF Windows!Accept
  <2>9. CASE buffer_payload[s] # NoData
    <3>1. PICK p : p = buffer_payload[s]
      OBVIOUS
    <3>2. p \in Int
      BY <3>1 DEF TypeOK, ReceiverTypeOK, Payloads, Junk, NoData
    <3>3. /\ (p - 1) % RCV_WINDOW = s
          /\ Len(written) < p /\ p <= Len(written) + RCV_WINDOW
      BY <2>9, <3>1 DEF ReceiverSound
    <3>4. PICK q \in Int : q = p - 1
      BY <3>2
    <3>5. /\ q % RCV_WINDOW = seq % RCV_WINDOW
          /\ Len(written) <= q /\ q < Len(written) + RCV_WINDOW
      BY <2>4, <2>6, <3>2, <3>3, <3>4
    <3>6. q = seq
      <4>1. \A a, b \in Int : a % RCV_WINDOW = b % RCV_WINDOW /\ b <= a
                             /\ a < b + RCV_WINDOW => a = b
        BY <2>4, ModClose
      <4>2. /\ seq \in Int /\ seq < q + RCV_WINDOW /\ q < seq + RCV_WINDOW
            /\ q <= seq \/ seq <= q
        BY <2>2, <2>4, <3>4, <3>5
      <4> QED
        BY <3>4, <3>5, <4>1, <4>2, Zenon
    <3>7. buffer_payload[s] = seq + 1
      BY <2>4, <3>1, <3>2, <3>4, <3>6
    <3>8. UNCHANGED buffer_payload
      BY <2>7, <3>7 DEF TypeOK, ReceiverTypeOK
    <3> QED
      BY <1>1, <3>8 DEF windowVars
  <2> QED
    BY <2>8, <2>9
<1> QED
  BY <1>2, <1>3 DEF ReceiveSegment

\* What is written is the segment the file lacks, from the slot of its number.
LEMMA WriteSlotStores ==
  ASSUME SafeReceiver, TypeOK, ReceiverSound, WriteSlot, UNCHANGED sndVars
  PROVE  Windows!Store
<1>1. buffer_payload[index] = Len(written) + 1
  BY NextSlot DEF WriteSlot
<1>2. /\ written' = Append(written, buffer_payload[index])
      /\ buffer_payload' = [buffer_payload EXCEPT ![index] = NoData]
      /\ UNCHANGED <<seq_ind, buffer>>
  BY DEF WriteSlot, SafeReceiver, MayFail, sndVars, protocolVars
<1>3. Len(written') = Len(written) + 1 /\ Len(written) \in Nat
  BY <1>2 DEF TypeOK, ReceiverTypeOK
<1>4. Windows!SlotFor(Len(written) + 1) = index
  <2>1. (Len(written) + 1) - 1 = Len(written)
    BY <1>3
  <2> QED
    BY <2>1 DEF Windows!SlotFor, ReceiverSound
<1> QED
  BY <1>1, <1>2, <1>3, <1>4 DEF Windows!Store, NoData

LEMMA WindowsInit == Init => Windows!Init
<1> SUFFICES ASSUME Init PROVE Windows!Init
  OBVIOUS
<1>1. /\ seq_ind = 0 /\ written = <<>> /\ buffer = [i \in SndSlots |-> Uninit]
      /\ buffer_payload = [i \in Slots |-> NoData]
  BY DEF Init, SenderInit, ReceiverInit
<1>2. [i \in Slots |-> buffer[i].PAYLOAD] = [i \in Slots |-> 0]
  BY <1>1, SlotsStored DEF Uninit, Segment, NoData
<1> QED
  BY <1>1, <1>2 DEF Windows!Init, Windows!Empty, Slots, NoData

LEMMA WindowsNext ==
  /\ NoWrap /\ SafeReceiver /\ NoStaleDamage /\ TypeOK /\ TableInvariant /\ DeliveryInvariant
  /\ AckInvariant /\ WindowInvariant /\ SentSound /\ [Next]_vars
  => [Windows!Next]_windowVars
<1> SUFFICES ASSUME NoWrap, SafeReceiver, NoStaleDamage, TypeOK, TableInvariant,
                    DeliveryInvariant, AckInvariant, WindowInvariant, SentSound, [Next]_vars
             PROVE  Windows!Next \/ UNCHANGED windowVars
  OBVIOUS
<1>1. SenderSound /\ ReceiverSound /\ WindowSound /\ AcksOnly
  BY DEF TableInvariant, DeliveryInvariant, WindowInvariant
<1>2. s_seq_exp = seq_ind
  BY <1>1 DEF SenderSound
<1>3. CASE SenderSelect \/ SenderTimeout \/ SenderEndSelect \/ SenderProceeds
  BY <1>1, <1>2, <1>3, SenderStepWindows
  DEF SenderSelect, SenderTimeout, SenderEndSelect, SenderProceeds
<1>4. ASSUME UNCHANGED <<seq_ind, buffer, written, buffer_payload>>
      PROVE  UNCHANGED windowVars
  BY <1>4 DEF windowVars
<1>5. CASE ReceiverProceeds
  <2>1. CASE ReceiveSegment
    BY <1>1, <1>5, <2>1, ReceiveSegmentAccepts DEF ReceiverProceeds, Windows!Next
  <2>2. CASE WriteSlot
    BY <1>1, <1>5, <2>2, WriteSlotStores DEF ReceiverProceeds, Windows!Next
  <2>3. CASE ReceiveTruncated
    BY <1>1, <2>3, NoTruncated
  <2>4. CASE UNCHANGED <<written, buffer_payload>>
    BY <1>4, <1>5, <2>4 DEF ReceiverProceeds, sndVars, protocolVars
  <2> QED
    BY <1>5, <2>1, <2>2, <2>3, <2>4
    DEF ReceiverProceeds, ReceiverStep, Bind, WaitForClient, ReceiveError,
        ReceiveInvalid, ReceiveEndOfFile, AcknowledgeSegment, AcknowledgeEndOfFile, Close
<1>6. CASE ReceiverDies \/ Unreachable \/ Terminated \/ UNCHANGED vars
  BY <1>4, <1>6
  DEF ReceiverDies, ReceiverKilled, Unreachable, SenderUnreachable,
      ReceiverUnreachable, Terminated, vars, sndVars, protocolVars, rcvVars
<1> QED
  BY <1>3, <1>5, <1>6 DEF Next

\* Whatever is lost, repeated, late or damaged, the two programs are a sliding
\* window: every behaviour of theirs is one of SlidingWindow (client.c:124-179,
\* 338-345, server.c:142-158, 195-213).
THEOREM WindowsRefined ==
  ASSUME NoWrap, SafeReceiver, SoundAnswers, FillsTable
  PROVE  Spec => ImplementsWindows
<1>1. "recrc" \notin Faults /\ NoStaleDamage
  BY DEF SafeReceiver, SoundAnswers
<1>2. Spec => []TableInvariant
  BY <1>1, TableInit, TableNext, TypeCorrect, PTL DEF Spec
<1>3. Spec => [](TypeOK /\ TableInvariant /\ DeliveryInvariant /\ AckInvariant
                 /\ WindowInvariant)
  BY <1>2, TypeCorrect, DeliverySound, AckSound, WindowCorrect, PTL
<1>4. Spec => []SentSound
  BY <1>1, <1>3, SentInit, SentNext, PTL DEF Spec
<1>5. Windows!Spec <=> Windows!Init /\ [][Windows!Next]_windowVars
  BY DEF Windows!Spec, windowVars
<1> QED
  BY <1>1, <1>3, <1>4, <1>5, WindowsInit, WindowsNext, PTL DEF Spec, ImplementsWindows
=============================================================================
