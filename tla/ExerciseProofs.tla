--------------------------- MODULE ExerciseProofs ----------------------------
(***************************************************************************)
(* Proofs about the records and about the stream server, for every number  *)
(* of clients and addresses, every backlog and every width of the fields.  *)
(***************************************************************************)
EXTENDS Record, TcpServer, ModularArithmetic, TLAPS

-----------------------------------------------------------------------------
(***************************************************************************)
(* The server.  What is added to its properties: no connection is open but *)
(* between accept and close, and what the handler has saved while it       *)
(* interrupts the parent before perror is what perror will print.          *)
(***************************************************************************)
ServerInvariant ==
  /\ ServerTypeOK
  /\ OneDescriptor /\ (s_pc \notin {"fork", "close"} => s_fds = {})
  /\ ErrnoKept /\ (s_pc = "perror" /\ handler # "idle" => saved_errno = failure)
  /\ NoForgottenZombie

LEMMA ServerInitially == ServerInit => ServerInvariant
<1> SUFFICES ASSUME ServerInit PROVE ServerInvariant
  OBVIOUS
<1> USE DEF ServerInit, ServerAt
<1>1. ServerTypeOK
  <2>1. queue \in Seq(Clients) /\ Len(queue) <= BACKLOG
    BY ServerAssumption DEF ServerAssumption
  <2>2. /\ child \in [Clients -> {"none", "forked", "sent", "closed", "zombie", "reaped"}]
        /\ c_fds \in [Clients -> SUBSET Clients] /\ sent \in [Clients -> BOOLEAN]
        /\ client \in [Clients -> {"idle", "refused", "waiting", "greeted", "empty"}]
    OBVIOUS
  <2>3. s_address \in 0 .. ADDRESSES /\ failures \in 0 .. MAX_FAILURES
    BY ServerAssumption DEF ServerAssumption
  <2> QED
    BY <2>1, <2>2, <2>3 DEF ServerTypeOK
<1>2. OneDescriptor /\ (s_pc \notin {"fork", "close"} => s_fds = {})
  BY DEF OneDescriptor
<1>3. ErrnoKept /\ NoForgottenZombie
  BY DEF ErrnoKept, NoForgottenZombie
<1> QED
  BY <1>1, <1>2, <1>3 DEF ServerInvariant

\* Every step keeps the types.
LEMMA ServerTypeNext ==
  ASSUME ServerTypeOK, [ServerNext]_serverVars
  PROVE  ServerTypeOK'
<1> USE ServerAssumption DEF ServerAssumption, ServerTypeOK
<1>1. CASE TryNext \/ Listen
  BY <1>1
  DEF TryNext, Listen, HasAddress, Parent, signalVars, childVars, clientVars
<1>2. CASE Accept
  <2>1. Head(queue) \in Clients /\ Tail(queue) \in Seq(Clients) /\ Len(Tail(queue)) <= BACKLOG
    BY <1>2 DEF Accept
  <2> QED
    BY <1>2, <2>1 DEF Accept, Parent, signalVars, childVars
<1>3. CASE AcceptFails \/ PrintError
  BY <1>3 DEF AcceptFails, PrintError, Parent, May, signalVars, childVars, clientVars
<1>4. CASE Fork \/ ForkFails \/ CloseConnection
  BY <1>4
  DEF Fork, ForkFails, CloseConnection, Closed, Parent, May, signalVars, childVars, clientVars
<1>5. CASE HandlerStep
  BY <1>5
  DEF HandlerStep, HandlerStarts, Reap, AfterReaping, NoneToReap, HandlerReturns, Restored,
      parentVars, childVars, clientVars
<1>6. CASE \E c \in Clients : ChildStep(c)
  <2>1. PICK c \in Clients : ChildStep(c)
    BY <1>6
  <2>2. CASE Send(c)
    <3>1. sent' \in [Clients -> BOOLEAN]
      BY <2>2 DEF Send
    <3>2. failures' \in 0 .. MAX_FAILURES
      BY <2>2 DEF Send, May
    <3> QED
      BY <2>2, <3>1, <3>2 DEF Send, parentVars, signalVars, clientVars
  <2>3. CASE CloseCopy(c)
    BY <2>3 DEF CloseCopy, parentVars, signalVars, clientVars
  <2>4. CASE Exit(c)
    BY <2>4 DEF Exit, parentVars, clientVars
  <2> QED
    BY <2>1, <2>2, <2>3, <2>4 DEF ChildStep
<1>7. CASE \E c \in Clients : Connect(c) \/ Receive(c)
  <2>1. PICK c \in Clients : Connect(c) \/ Receive(c)
    BY <1>7
  <2>2. queue' \in Seq(Clients) /\ Len(queue') <= BACKLOG
    BY <2>1 DEF Connect, Receive
  <2>3. client' \in [Clients -> {"idle", "refused", "waiting", "greeted", "empty"}]
    BY <2>1 DEF Connect, Receive
  <2> QED
    BY <2>1, <2>2, <2>3
    DEF Connect, Receive, parentVars, signalVars, childVars
<1>8. CASE UNCHANGED serverVars
  BY <1>8 DEF serverVars
<1> HIDE DEF ServerTypeOK
<1> QED
  BY <1>1, <1>2, <1>3, <1>4, <1>5, <1>6, <1>7, <1>8 DEF ServerNext, ParentStep

\* Every step keeps the rest: only the parent opens and closes connections,
\* only the handler takes errno for itself.
LEMMA ServerStep ==
  ASSUME ServerInvariant, [ServerNext]_serverVars
  PROVE  ServerInvariant'
<1> USE DEF ServerInvariant
<1>1. ServerTypeOK'
  BY ServerTypeNext
<1>2. /\ OneDescriptor' /\ (s_pc \notin {"fork", "close"} => s_fds = {})'
  <2> USE DEF OneDescriptor
  <2>1. CASE UNCHANGED <<parentVars, c_fds>>
    BY <2>1 DEF parentVars
  <2>2. CASE TryNext \/ Listen \/ AcceptFails \/ PrintError \/ ForkFails
    BY <2>2
    DEF TryNext, Listen, AcceptFails, PrintError, ForkFails, Parent, childVars
  <2>3. CASE Accept
    BY <2>3 DEF Accept, Parent, childVars
  <2>4. CASE Fork
    BY <2>4 DEF Fork, Parent, ServerTypeOK
  <2>5. CASE CloseConnection
    BY <2>5 DEF CloseConnection, Closed, Parent, childVars
  <2>6. CASE \E c \in Clients : CloseCopy(c) \/ Exit(c)
    BY <2>6 DEF CloseCopy, Exit, parentVars, ServerTypeOK
  <2> QED
    BY <2>1, <2>2, <2>3, <2>4, <2>5, <2>6
    DEF ServerNext, ParentStep, HandlerStep, HandlerStarts, Reap, NoneToReap,
        HandlerReturns, ChildStep, Send, Connect, Receive, serverVars, parentVars, childVars
<1>3. ErrnoKept' /\ (s_pc = "perror" /\ handler # "idle" => saved_errno = failure)'
  <2> USE DEF ErrnoKept
  <2>1. CASE UNCHANGED <<s_pc, errno, failure, handler, saved_errno>>
    BY <2>1
  <2>2. CASE ParentStep \/ AcceptFails \/ ForkFails
    BY <2>2
    DEF ParentStep, TryNext, Listen, Accept, AcceptFails, PrintError, Fork, ForkFails,
        CloseConnection, Parent, signalVars
  <2>3. CASE HandlerStep
    BY <2>3
    DEF HandlerStep, HandlerStarts, Reap, AfterReaping, NoneToReap, HandlerReturns, Restored,
        parentVars
  <2> QED
    BY <2>1, <2>2, <2>3
    DEF ServerNext, ChildStep, Send, CloseCopy, Exit, Connect, Receive, serverVars,
        parentVars, signalVars
<1>4. NoForgottenZombie'
  <2> USE DEF NoForgottenZombie
  <2>1. CASE UNCHANGED <<child, pending, handler>>
    BY <2>1
  <2>2. CASE Fork
    BY <2>2 DEF Fork, signalVars, ServerTypeOK
  <2>3. CASE HandlerStep
    BY <2>3
    DEF HandlerStep, HandlerStarts, Reap, AfterReaping, NoneToReap, HandlerReturns, childVars
  <2>4. CASE \E c \in Clients : Send(c) \/ CloseCopy(c)
    BY <2>4 DEF Send, CloseCopy, signalVars, ServerTypeOK
  <2>5. CASE \E c \in Clients : Exit(c)
    BY <2>5 DEF Exit
  <2> QED
    BY <2>1, <2>2, <2>3, <2>4, <2>5
    DEF ServerNext, ParentStep, TryNext, Listen, Accept, AcceptFails, PrintError, ForkFails,
        CloseConnection, ChildStep, Connect, Receive, serverVars, signalVars, childVars
<1> QED
  BY <1>1, <1>2, <1>3, <1>4

LEMMA ServerSound == ServerSpec => []ServerInvariant
BY ServerInitially, ServerStep, PTL DEF ServerSpec

\* Every variable of the server keeps its type, the addresses tried and the
\* pending connections their bounds (server.c:65, 94 of TCP).
THEOREM ServerTypeCorrect == ServerSpec => []ServerTypeOK
BY ServerSound, PTL DEF ServerInvariant

\* perror prints why accept failed, whatever the handler did to errno between
\* the two (server.c:24-29, 111-113 of TCP).
THEOREM HandlerKeepsErrno == ServerSpec => []ErrnoKept
BY ServerSound, PTL DEF ServerInvariant

\* No process has a connection that is not its own (server.c:122-129 of TCP).
THEOREM ConnectionsClosed == ServerSpec => []OneDescriptor
BY ServerSound, PTL DEF ServerInvariant

\* While a child that exited has not been waited for, the handler runs or is
\* about to, however exits and signals fall together (server.c:27 of TCP).
THEOREM ZombiesRemembered == ServerSpec => []NoForgottenZombie
BY ServerSound, PTL DEF ServerInvariant

-----------------------------------------------------------------------------
(***************************************************************************)
(* The records.  What is added to their properties: what is in the file is *)
(* what Written makes of some record, and no record has more bytes there   *)
(* than its size.                                                          *)
(***************************************************************************)
RecordForm ==
  [TYPE : 0 .. TYPE_MOD - 1, F : {0, 1}, LENGTH : 0 .. LEN_MOD - 1,
   bytes : [data : Int, len : Nat], UUID : Uuids]

Records ==
  [TYPE : 0 .. TYPE_MOD - 1, F : {0, 1}, LENGTH : 0 .. LEN_MOD - 1,
   PAYLOAD : [data : Int, len : Nat], UUID : Uuids]

WellFormed(w) ==
  /\ w \in RecordForm
  /\ w.bytes.len = w.LENGTH /\ (w.LENGTH = 0 => w.bytes.data = 0)
  /\ w.F = 0 => w.UUID = 0

Stored(w) == WellFormed(w.record) /\ w.size <= Size(w.record)

FileOK ==
  /\ file \in Seq([record : RecordForm, size : Nat])
  /\ \A i \in 1 .. Len(file) : Stored(file[i])

RecordInvariant == RecordTypeOK /\ FileOK /\ LengthBacked /\ ReadBack

\* What is written of a record is well formed, and as long as the record.
LEMMA WrittenSound ==
  ASSUME RecordTypeOK
  PROVE  WellFormed(Written(rec)) /\ Size(Written(rec)) = Size(rec) /\ Size(rec) \in Nat
BY RecordAssumption
DEF RecordAssumption, RecordTypeOK, Written, WellFormed, RecordForm, Block, Size, HEAD, FOOT

LEMMA RecordInitially == RecordInit => RecordInvariant
<1> SUFFICES ASSUME RecordInit PROVE RecordInvariant
  OBVIOUS
<1>1. RecordTypeOK /\ LengthBacked
  BY RecordAssumption
  DEF RecordAssumption, RecordInit, RecordTypeOK, LengthBacked, NoBlock, Block
<1>2. FileOK /\ ReadBack
  BY DEF RecordInit, FileOK, ReadBack, HEAD
<1> QED
  BY <1>1, <1>2 DEF RecordInvariant

\* The setters keep LENGTH within the block, and their results are not sizes.
LEMMA SetterStep ==
  ASSUME RecordInvariant,
         \/ \E type \in 0 .. TYPE_MOD : SetRecordType(type)
         \/ \E d \in Contents, n \in Sizes : SetRecordPayload(d, n)
         \/ SetRecordPayloadFails
         \/ \E u \in Uuids : SetUuid(u)
         \/ DeleteFooter
  PROVE  RecordInvariant'
<1>0. RecordTypeOK /\ FileOK /\ LengthBacked
  BY DEF RecordInvariant
<1>1. UNCHANGED <<file, pos>> /\ ret' \in {0, -1}
  BY DEF SetRecordType, SetRecordPayload, SetRecordPayloadFails, SetUuid, DeleteFooter, Setter
<1>2. rec \in Records /\ intact \in BOOLEAN /\ (intact => rec.LENGTH <= rec.PAYLOAD.len)
  BY <1>0 DEF RecordTypeOK, Records, LengthBacked
<1>3. /\ rec' \in Records /\ intact' \in BOOLEAN
      /\ intact' => rec'.LENGTH <= rec'.PAYLOAD.len
  <2>1. CASE \E type \in 0 .. TYPE_MOD : SetRecordType(type)
    <3>1. PICK type \in 0 .. TYPE_MOD : SetRecordType(type)
      BY <2>1
    <3>2. type % TYPE_MOD \in 0 .. TYPE_MOD - 1
      <4>1. type \in Int /\ TYPE_MOD \in Nat \ {0}
        BY RecordAssumption DEF RecordAssumption
      <4> QED
        BY <4>1, ModRange
    <3> QED
      BY <3>1, <3>2, <1>2 DEF SetRecordType, Setter, Typed, Records
  <2>2. CASE \E d \in Contents, n \in Sizes : SetRecordPayload(d, n)
    <3>1. PICK d \in Contents, n \in Sizes : SetRecordPayload(d, n)
      BY <2>2
    <3>2. d \in Int /\ n \in Nat /\ n \in Int /\ LEN_MOD \in Nat \ {0}
      BY RecordAssumption DEF RecordAssumption
    <3>3. n % LEN_MOD \in 0 .. LEN_MOD - 1 /\ n % LEN_MOD <= n
      <4>1. n % LEN_MOD \in 0 .. LEN_MOD - 1
        BY <3>2, ModRange
      <4>2. n % LEN_MOD <= n
        BY <3>2, ModAtMost
      <4> QED
        BY <4>1, <4>2
    <3>4. CASE n = 0
      <4>1. rec' = Freed(rec) /\ intact' = TRUE
        BY <3>1, <3>4 DEF SetRecordPayload, Setter
      <4>2. NoBlock \in [data : Int, len : Nat] /\ NoBlock.len = 0 /\ 0 \in 0 .. LEN_MOD - 1
        BY <3>2 DEF NoBlock, Block
      <4>3. CASE rec.LENGTH = 0
        BY <4>1, <4>3, <1>2 DEF Freed, Records
      <4>4. CASE rec.LENGTH # 0
        <5>1. PICK z \in 0 .. LEN_MOD - 1 :
                z = 0 /\ rec' = [rec EXCEPT !.LENGTH = z, !.PAYLOAD = NoBlock]
          BY <4>1, <4>2, <4>4, Zenon DEF Freed
        <5>2. rec' \in Records
          BY <4>2, <5>1, <1>2 DEF Records
        <5>3. rec'.LENGTH = 0 /\ rec'.PAYLOAD = NoBlock
          BY <5>1, <1>2 DEF Records
        <5>4. rec'.LENGTH <= rec'.PAYLOAD.len
          BY <4>2, <5>3
        <5> QED
          BY <4>1, <5>2, <5>4
      <4> QED
        BY <4>3, <4>4
    <3>5. CASE n # 0
      <4>1. rec' = [rec EXCEPT !.PAYLOAD = Block(d, n), !.LENGTH = n % LEN_MOD]
        BY <3>1, <3>5 DEF SetRecordPayload, Setter, Filled, Block
      <4>2. Block(d, n) \in [data : Int, len : Nat] /\ Block(d, n).len = n
        BY <3>2 DEF Block
      <4> QED
        BY <3>1, <3>3, <4>1, <4>2, <1>2 DEF SetRecordPayload, Records
    <3> QED
      BY <3>4, <3>5
  <2>3. CASE SetRecordPayloadFails
    <3>1. rec' = [rec EXCEPT !.PAYLOAD = NoBlock]
      BY <2>3 DEF SetRecordPayloadFails
    <3>2. NoBlock \in [data : Int, len : Nat]
      BY DEF NoBlock, Block
    <3>3. rec' \in Records
      BY <3>1, <3>2, <1>2 DEF Records
    <3>4. intact' \in BOOLEAN /\ ~intact'
      BY <2>3, Zenon DEF SetRecordPayloadFails
    <3> QED
      BY <3>3, <3>4
  <2>4. CASE \E u \in Uuids : SetUuid(u)
    <3>1. PICK u \in Uuids : rec' = [rec EXCEPT !.F = 1, !.UUID = u] /\ intact' = intact
      BY <2>4 DEF SetUuid, Setter
    <3> QED
      BY <3>1, <1>2 DEF Records
  <2>5. CASE DeleteFooter
    <3>1. 0 \in Uuids
      BY RecordAssumption DEF RecordAssumption
    <3>2. intact' = intact /\ rec' \in {rec, [rec EXCEPT !.F = 0, !.UUID = 0]}
      BY <2>5 DEF DeleteFooter, Setter
    <3>3. CASE rec' = [rec EXCEPT !.F = 0, !.UUID = 0]
      <4>1. PICK f \in {0, 1}, u \in Uuids : rec' = [rec EXCEPT !.F = f, !.UUID = u]
        BY <3>1, <3>3
      <4> QED
        BY <3>2, <4>1, <1>2 DEF Records
    <3> QED
      BY <3>2, <3>3, <1>2
  <2> QED
    BY <2>1, <2>2, <2>3, <2>4, <2>5
<1>4. RecordTypeOK' /\ LengthBacked'
  BY <1>0, <1>1, <1>3 DEF RecordTypeOK, LengthBacked, Records
<1>5. FileOK' /\ ReadBack'
  BY <1>0, <1>1 DEF FileOK, ReadBack, HEAD
<1> QED
  BY <1>4, <1>5 DEF RecordInvariant

\* A record is appended, and its size is returned only if all of it was.
LEMMA WriteStep ==
  ASSUME RecordInvariant, \E n \in CutAt(rec) : WriteRecord(n)
  PROVE  RecordInvariant'
<1> USE DEF RecordInvariant
<1>1. PICK n \in CutAt(rec) : WriteRecord(n)
  OBVIOUS
<1>2. n \in Nat /\ n <= Size(rec)
  BY DEF CutAt, Size, HEAD, FOOT, RecordTypeOK
<1>3. /\ WellFormed(Written(rec)) /\ Size(Written(rec)) = Size(rec)
      /\ Size(rec) \in Nat
  BY WrittenSound
<1> DEFINE w == [record |-> Written(rec), size |-> n]
<1>4. w \in [record : RecordForm, size : Nat] /\ Stored(w)
  BY <1>2, <1>3 DEF WellFormed, Stored
<1> HIDE DEF w
<1>5. file' = Append(file, w) /\ pos' = Len(file) + 1 /\ UNCHANGED <<rec, intact>>
  BY <1>1 DEF WriteRecord, Writable, w
<1>6. /\ file' \in Seq([record : RecordForm, size : Nat]) /\ Len(file') = Len(file) + 1
      /\ \A i \in 1 .. Len(file) : file'[i] = file[i]
      /\ file'[Len(file) + 1] = w
  BY <1>4, <1>5 DEF FileOK
<1>7. FileOK'
  BY <1>4, <1>6 DEF FileOK
<1>8. RecordTypeOK' /\ LengthBacked'
  <2>1. ret' \in Int
    BY <1>1, <1>2 DEF WriteRecord
  <2> QED
    BY <2>1, <1>5, <1>6 DEF RecordTypeOK, LengthBacked, FileOK
<1>9. ReadBack'
  <2>1. ret' >= HEAD => n = Size(rec) /\ ret' = n
    BY <1>1 DEF WriteRecord, HEAD
  <2>2. w.record = Written(rec) /\ w.size = n /\ Written(rec)' = Written(rec)
    BY <1>5 DEF w, Written
  <2> QED
    BY <2>1, <2>2, <1>3, <1>5, <1>6 DEF ReadBack, Complete
<1> QED
  BY <1>7, <1>8, <1>9

\* What record_read leaves: LENGTH is backed, and a size of 4 or more means
\* that it read all the bytes of the record that is there.
LEMMA ReadBytesSound ==
  ASSUME RecordTypeOK, NEW stored, WellFormed(stored),
         NEW size \in Nat, size <= Size(stored), ReadBytes(stored, size)
  PROVE  /\ rec' \in Records
         /\ ret' \in Int /\ intact' \in BOOLEAN
         /\ LengthBacked'
         /\ ret' >= HEAD /\ intact' =>
              size = Size(stored) /\ ret' = size /\ Written(rec') = stored
<1>0. PICK head \in (IF size >= 2 THEN {<<stored.TYPE, stored.F>>} ELSE Heads),
           n \in (IF size >= HEAD THEN {stored.LENGTH} ELSE 0 .. LEN_MOD - 1),
           allocated \in BOOLEAN : ReadRest(stored, size, head, n, allocated)
  BY DEF ReadBytes
<1> DEFINE left   == IF size >= HEAD THEN size - HEAD ELSE 0
           header == [rec EXCEPT !.TYPE = head[1], !.F = head[2], !.LENGTH = n]
           whole  == IF n = 0 THEN header
                     ELSE [header EXCEPT !.PAYLOAD = IF allocated THEN stored.bytes ELSE NoBlock]
           read   == (IF size >= 2 THEN 2 ELSE 0) + (IF size >= HEAD THEN 2 ELSE 0) + n
<1>1. /\ head[1] \in 0 .. TYPE_MOD - 1 /\ head[2] \in {0, 1}
      /\ n \in 0 .. LEN_MOD - 1 /\ n \in Nat
      /\ stored.bytes \in [data : Int, len : Nat] /\ stored.bytes.len = stored.LENGTH
      /\ stored.UUID \in Uuids
  BY RecordAssumption DEF RecordAssumption, WellFormed, RecordForm, Heads, HEAD
<1>2. /\ header \in Records /\ header.TYPE = head[1] /\ header.F = head[2]
      /\ header.LENGTH = n
  BY <1>1 DEF RecordTypeOK, Records
<1>3. /\ whole \in Records /\ whole.TYPE = head[1] /\ whole.F = head[2] /\ whole.LENGTH = n
      /\ n # 0 /\ allocated => whole.PAYLOAD = stored.bytes
  <2> HIDE DEF header
  <2> QED
    BY <1>1, <1>2 DEF NoBlock, Block, Records
<1>4. size >= HEAD => head = <<stored.TYPE, stored.F>> /\ n = stored.LENGTH
  BY DEF HEAD
<1>5. left \in Nat /\ read \in Nat /\ (size >= HEAD => read = HEAD + n)
      /\ (size < HEAD => left = 0 /\ read <= 2 + n)
  BY <1>1 DEF HEAD
<1>6. /\ ~HasPayload(left, n) => rec' = header /\ ret' = -1 /\ intact' = FALSE
      /\ HasPayload(left, n) =>
           /\ intact' = (n = 0 \/ allocated)
           /\ \/ head[2] = 0 /\ rec' = whole /\ ret' = read
              \/ /\ head[2] = 1 /\ left - n >= FOOT
                 /\ rec' = [whole EXCEPT !.UUID = stored.UUID] /\ ret' = read + FOOT
              \/ /\ head[2] = 1 /\ \E u \in Uuids : rec' = [whole EXCEPT !.UUID = u]
                 /\ ret' = -1
  BY <1>0, Zenon DEF ReadRest
<1> HIDE DEF header, whole, read
<1>7. CASE ~HasPayload(left, n)
  <2>1. rec' \in Records /\ ret' \in Int /\ ~(ret' >= HEAD)
    BY <1>6, <1>7, <1>2 DEF HEAD
  <2>2. intact' \in BOOLEAN /\ ~intact'
    BY <1>6, <1>7, Zenon
  <2> QED
    BY <2>1, <2>2 DEF LengthBacked
<1>8. CASE HasPayload(left, n) /\ head[2] = 0 /\ rec' = whole /\ ret' = read
  <2>1. LengthBacked'
    <3>1. ASSUME intact' PROVE n <= whole.PAYLOAD.len
      <4>1. CASE n = 0
        BY <4>1, <1>3 DEF Records
      <4>2. CASE n # 0 /\ allocated
        <5>1. size >= HEAD \/ size < HEAD
          BY DEF HEAD
        <5>2. size >= HEAD
          BY <4>2, <5>1, <1>1, <1>5, <1>8 DEF HasPayload
        <5> QED
          BY <4>2, <5>2, <1>1, <1>3, <1>4
      <4> QED
        BY <4>1, <4>2, <3>1, <1>6, <1>8
    <3>2. rec'.LENGTH = n /\ rec'.PAYLOAD = whole.PAYLOAD
      BY <1>3, <1>8
    <3> QED
      BY <3>1, <3>2 DEF LengthBacked
  <2>2. ASSUME ret' >= HEAD, intact'
        PROVE  size = Size(stored) /\ ret' = size /\ Written(rec') = stored
    <3>1. size >= HEAD /\ read = HEAD + n
      <4>1. CASE size < HEAD
        BY <4>1, <2>2, <1>1, <1>5, <1>8 DEF HasPayload, HEAD
      <4> QED
        BY <4>1, <1>5 DEF HEAD
    <3>2. stored.F = 0 /\ n = stored.LENGTH /\ head[1] = stored.TYPE
      BY <3>1, <1>4, <1>8
    <3>3. size = Size(stored) /\ ret' = size
      BY <3>1, <3>2, <1>1, <1>8 DEF Size, HEAD, HasPayload, left
    <3>4. n # 0 => whole.PAYLOAD = stored.bytes
      BY <2>2, <1>3, <1>6, <1>8
    <3>5. Written(whole) = stored
      <4>1. stored = [TYPE |-> stored.TYPE, F |-> stored.F, LENGTH |-> stored.LENGTH,
                      bytes |-> stored.bytes, UUID |-> stored.UUID]
        BY DEF WellFormed, RecordForm
      <4>2. stored.bytes = Block(stored.bytes.data, n)
        BY <3>2, <1>1 DEF Block
      <4>3. Block(IF n = 0 THEN 0 ELSE whole.PAYLOAD.data, n) = stored.bytes
        BY <3>2, <3>4, <4>2 DEF WellFormed
      <4>4. stored.UUID = 0
        BY <3>2 DEF WellFormed
      <4> QED
        BY <3>2, <4>1, <4>3, <4>4, <1>3, <1>8 DEF Written
    <3> QED
      BY <3>3, <3>5, <1>8
  <2>3. rec' \in Records /\ ret' \in Int /\ intact' \in BOOLEAN
    BY <1>3, <1>5, <1>6, <1>8
  <2> QED
    BY <2>1, <2>2, <2>3
<1>9. CASE HasPayload(left, n) /\ head[2] = 1
  <2>1. PICK u \in Uuids :
          \/ rec' = [whole EXCEPT !.UUID = u] /\ ret' = -1
          \/ /\ u = stored.UUID /\ left - n >= FOOT
             /\ rec' = [whole EXCEPT !.UUID = u] /\ ret' = read + FOOT
    BY <1>1, <1>6, <1>9
  <2>2. /\ rec' \in Records /\ rec'.UUID = u
        /\ rec'.TYPE = head[1] /\ rec'.F = 1 /\ rec'.LENGTH = n
        /\ rec'.PAYLOAD = whole.PAYLOAD
    <3>1. rec' = [whole EXCEPT !.UUID = u]
      BY <2>1
    <3> QED
      BY <3>1, <1>3, <1>9 DEF Records
  <2>3. ret' \in Int /\ intact' \in BOOLEAN
    BY <2>1, <1>5, <1>6, <1>9 DEF FOOT
  <2>4. LengthBacked'
    <3>1. ASSUME intact' PROVE n <= whole.PAYLOAD.len
      <4>1. CASE n = 0
        BY <4>1, <1>3 DEF Records
      <4>2. CASE n # 0 /\ allocated
        <5>1. size >= HEAD \/ size < HEAD
          BY DEF HEAD
        <5>2. size >= HEAD
          BY <4>2, <5>1, <1>1, <1>5, <1>9 DEF HasPayload
        <5> QED
          BY <4>2, <5>2, <1>1, <1>3, <1>4
      <4> QED
        BY <4>1, <4>2, <3>1, <1>6, <1>9
    <3> QED
      BY <3>1, <2>2 DEF LengthBacked
  <2>5. ASSUME ret' >= HEAD, intact'
        PROVE  size = Size(stored) /\ ret' = size /\ Written(rec') = stored
    <3>1. u = stored.UUID /\ left - n >= FOOT /\ ret' = read + FOOT
      BY <2>1, <2>5 DEF HEAD
    <3>2. size >= HEAD /\ read = HEAD + n
      <4>1. CASE size < HEAD
        BY <4>1, <3>1, <1>1, <1>5 DEF FOOT
      <4> QED
        BY <4>1, <1>5 DEF HEAD
    <3>3. stored.F = 1 /\ n = stored.LENGTH /\ head[1] = stored.TYPE
      BY <3>2, <1>4, <1>9
    <3>4. size = Size(stored) /\ ret' = size
      BY <3>1, <3>2, <3>3, <1>1 DEF Size, HEAD, FOOT, left
    <3>5. n # 0 => whole.PAYLOAD = stored.bytes
      BY <2>5, <1>3, <1>6, <1>9
    <3>6. Written(rec') = stored
      <4>1. stored = [TYPE |-> stored.TYPE, F |-> stored.F, LENGTH |-> stored.LENGTH,
                      bytes |-> stored.bytes, UUID |-> stored.UUID]
        BY DEF WellFormed, RecordForm
      <4>2. stored.bytes = Block(stored.bytes.data, n)
        BY <3>3, <1>1 DEF Block
      <4>3. Block(IF n = 0 THEN 0 ELSE whole.PAYLOAD.data, n) = stored.bytes
        BY <3>3, <3>5, <4>2 DEF WellFormed
      <4> QED
        BY <3>1, <3>3, <4>1, <4>3, <2>2 DEF Written
    <3> QED
      BY <3>4, <3>6
  <2> QED
    BY <2>2, <2>3, <2>4, <2>5
<1> QED
  BY <1>1, <1>6, <1>7, <1>8, <1>9

LEMMA ReadStep ==
  ASSUME RecordInvariant, ReadRecord
  PROVE  RecordInvariant'
<1> USE DEF RecordInvariant
<1>1. CASE pos < Len(file)
  <2> DEFINE w == file[pos + 1]
  <2>1. w \in [record : RecordForm, size : Nat] /\ Stored(w)
    <3>1. pos + 1 \in 1 .. Len(file)
      BY <1>1 DEF FileOK, RecordTypeOK
    <3>2. Stored(file[pos + 1])
      BY <3>1, Zenon DEF FileOK
    <3>3. file[pos + 1] \in [record : RecordForm, size : Nat]
      <4>1. file \in Seq([record : RecordForm, size : Nat])
        BY DEF FileOK
      <4>2. ASSUME NEW S, NEW q \in Seq(S), NEW i \in 1 .. Len(q)
            PROVE  q[i] \in S
        OBVIOUS
      <4> QED
        BY <3>1, <4>1, <4>2, Zenon
    <3> QED
      BY <3>2, <3>3
  <2>2. /\ ReadBytes(w.record, w.size) /\ pos' = pos + 1 /\ file' = file
    BY <1>1 DEF ReadRecord
  <2> HIDE DEF w
  <2>3. /\ rec' \in Records
        /\ ret' \in Int /\ intact' \in BOOLEAN /\ LengthBacked'
        /\ ret' >= HEAD /\ intact' =>
             w.size = Size(w.record) /\ ret' = w.size /\ Written(rec') = w.record
    BY <2>1, <2>2, ReadBytesSound DEF Stored
  <2>4. RecordTypeOK' /\ FileOK'
    BY <1>1, <2>2, <2>3 DEF RecordTypeOK, FileOK, Records
  <2>5. ReadBack'
    BY <2>2, <2>3 DEF ReadBack, Complete, w, Written
  <2> QED
    BY <2>3, <2>4, <2>5
<1>2. CASE ~(pos < Len(file))
  <2> DEFINE w == Written(rec)
  <2>1. WellFormed(w) /\ Size(w) \in Nat /\ Size(w) >= HEAD
    BY WrittenSound DEF Size, HEAD, FOOT, RecordTypeOK
  <2>2. ReadBytes(w, 0) /\ pos' = pos /\ file' = file
    BY <1>2 DEF ReadRecord
  <2> HIDE DEF w
  <2>3. /\ rec' \in Records
        /\ ret' \in Int /\ intact' \in BOOLEAN /\ LengthBacked'
        /\ ~(ret' >= HEAD /\ intact')
    BY <2>1, <2>2, ReadBytesSound DEF HEAD
  <2>4. RecordTypeOK' /\ FileOK' /\ ReadBack'
    BY <2>2, <2>3 DEF RecordTypeOK, FileOK, ReadBack, Records
  <2> QED
    BY <2>3, <2>4
<1> QED
  BY <1>1, <1>2

LEMMA RecordStep ==
  ASSUME RecordInvariant, [RecordNext]_recordVars
  PROVE  RecordInvariant'
<1>1. CASE Rewind
  BY <1>1
  DEF Rewind, RecordInvariant, RecordTypeOK, FileOK, LengthBacked, ReadBack
<1>2. CASE UNCHANGED recordVars
  BY <1>2
  DEF recordVars, RecordInvariant, RecordTypeOK, FileOK, LengthBacked, ReadBack
<1> QED
  BY <1>1, <1>2, SetterStep, WriteStep, ReadStep DEF RecordNext

LEMMA RecordSound == RecordSpec => []RecordInvariant
BY RecordInitially, RecordStep, PTL DEF RecordSpec

\* The fields keep to their bits, whatever is set or read (record.h:9-18,
\* record.c:26-28, 42, 117-134).
THEOREM RecordTypeCorrect == RecordSpec => []RecordTypeOK
BY RecordSound, PTL DEF RecordInvariant

\* record_write never writes more than its block has, unless an allocation
\* failed or a payload was cut (record.c:13-19, 34-46, 99, 134-142).
THEOREM LengthStaysBacked == RecordSpec => []LengthBacked
BY RecordSound, PTL DEF RecordInvariant

\* What is read back is what was written, whole, wherever the file is cut
\* (record.h:106-125, record.c:85-156).
THEOREM RecordsReadBack == RecordSpec => []ReadBack
BY RecordSound, PTL DEF RecordInvariant
=============================================================================
