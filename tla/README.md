# A verification of the reliable file transfer

The repository holds a student project in C: a program that sends a file and a
program that receives it, over UDP and IPv6, with a selective-repeat protocol of
their own (`src/Projet1`). Beside it are the exercises the project grew from
(`src/Inginious`, `src/client-server`). This directory models the transfer, the
packets it is made of and the exercises that keep a state, in TLA+; TLC checks the
models on small instances and TLAPS proves their safety properties for all.

## 1. The system

| component | source | state | operations |
|---|---|---|---|
| sender | `client.c` `send_data`, `adapt_buffer`, `adapt_rtt` | the position in two loops; `seq_exp`, `small_seq`, `small_ind`, `seq_ind`, `window`, `buffer_empty`, `endFile`, a table of segments kept for retransmission, the last datagram decoded (`pkt_ack`) | wait with `select` (100 ms), read a segment and send it, handle an ACK, a NACK or anything else, retransmit; then send an empty packet until something answers |
| receiver | `server.c` `receive_data`, `add_buffer`, `send_ack` | `seq_exp`, `index`, a table of payloads and lengths, `pkt_rcv` | wait for a first datagram and connect; read a datagram; drop it, answer it with a NACK, or put it in the table; write what is in order; acknowledge; acknowledge the end 11 times; close |
| packet codec | `packet_implem.c`, `packet_interface.h` | a packet: type, TR, window, sequence number, length, timestamp, two checksums, a pointer to its payload, which it mostly owns | setters and getters, encode, decode, copy, delete |
| sockets | `socket.c` | a bound or connected UDP socket | resolve, create, wait for a client |
| command lines | `sender.c`, `receiver.c` | none | `getopt`, then one call |
| tests | `test.c` | none | the codec's tests; two transfers between local processes |
| first packet format | `Format_des_segments…` of `src/Inginious` | the same packet, one payload of its own | an older codec: setters that refuse, `realloc`, one byte of time stamp |
| record | `Encoder et décoder…` of `src/Inginious` | a struct with a 15-bit type, a flag, a 16-bit length, a payload, a UUID; a file | setters, `record_write`, `record_read` |
| TCP example | `src/client-server/TCP` | the parent's descriptors and `errno`, its children, a signal handler that interrupts it | accept, fork, greet; wait for the children |
| chat, calculator | `src/Inginious` | a socket relayed to the terminal; none | no program of the project uses them |
| UDP example | `src/client-server` | none | a tutorial echo server |

The two programs share nothing but datagrams: the sender writes data packets to
a connected UDP socket, the receiver answers each valid one with an ACK that
names the *next* number it expects (so an ACK is cumulative) and the window 3. A
datagram for a port nobody listens on comes back as an ICMP message, which the
socket of the program that wrote it reports as `ECONNREFUSED` in its next `read`
or `write`.

### What is hard in it

* The sender's window is 1 until the first ACK and 3 from then on, and it is the
  modulus of its table: the slot in which a segment was stored and the slot where
  it is looked for are computed with different moduli.
* Sequence numbers are taken modulo 256; the window test of the sender is not,
  and the receiver's has its own boundary case.
* The timer may expire at any time: when a segment is lost, when its ACK is only
  late, and when nothing is unacknowledged.
* `read()` and `write()` report errors of earlier calls, and the sender goes on
  with what its structures held before.
* The first loop ends with the file and not with its last acknowledgement; the
  second is ended by any datagram that decodes, and reads answers over the
  datagram it sends.
* Either program may be up first and may be gone before the other.
* A packet's payload is shared: by the copies the sender keeps of one packet it fills
  again and again, and by the receiver's table, which points into a packet that is
  decoded over. `pkt_set_payload` frees the previous payload in some cases only.
* `pkt_decode` works on a buffer in which a short datagram leaves parts of an older
  one, and stores the header's fields before it checks them.
* The TCP server's handler runs between any two instructions of the parent, and
  several exits may be one signal.
* A record's length wraps, its allocations are not checked everywhere, and a file
  may end anywhere in a record.

`PROJECT.json` lists each hazard at its line with the properties that watch it.

### What makes each component correct

* sender: it only overwrites a segment the receiver has written
  (`UnackedRetained`), resends the oldest (`RetransmitsOldest`), uses no memory it
  did not store (`NoUninitialisedRead`), returns (`SenderReturns`), and does not
  take the transfer for acknowledged before its end was sent (`DoneMeansEnded`).
* receiver: what it writes is a prefix of the file (`DeliveredPrefix`), in order
  even if writes fail (`DeliveredInOrder`), its table is aligned on the file
  (`ReceiverAligned`), it takes the numbers of its window and puts them in their slots
  wherever the numbers wrap, but for one at the edge (`WindowExtent`), it acknowledges
  nothing that is not written (`AcksAreWritten`), and takes the transfer for finished when it is
  (`EofMeansComplete`).
* packets: what is sent again is what was sent first (`BufferIntact`), what is written
  is what was decoded (`TableIntact`), nothing is freed twice (`DeletesOnce`) nor
  encoded past a buffer (`EncodeFits`), decoding inverts encoding and refuses damage
  (`RoundTrip`), and the transfer's view of a packet is right (`DecodesAsDatagram`).
* record: `record_write` has the bytes it writes (`LengthBacked`), and what is read
  back whole is what was written (`ReadBack`).
* TCP server: `perror` says why `accept` failed (`ErrnoKept`), no process keeps a
  connection that is not its own (`OneDescriptor`), no child stays a zombie
  (`NoForgottenZombie`, `EveryChildReaped`), every client is answered
  (`EveryClientAnswered`).
* together: the transfer completes (`Completes`), and is an implementation of a
  file that grows by its own segments in order (`FileDelivery`), and of the two tables
  of selective repeat without messages (`SlidingWindow`).

## 2. The modules

```
Datagram <- Network <- Sender, Receiver <- Transfer <- TransferInvariants <- MCTransfer
Datagram <- PacketCodec <- PacketUse <- MCPacketUse
Record, TcpServer <- MCExercises
Transfer has an INSTANCE of FileDelivery and one of SlidingWindow

ModularArithmetic, Transfer          <- TransferProofs
TransferProofs, TransferInvariants   <- DeliveryProofs <- AckProofs <- WindowProofs
                                                          <- RefinementProofs
PacketUse                            <- PacketProofs
Record, TcpServer, ModularArithmetic <- ExerciseProofs
```

An arrow points to the module that is extended.

**Datagram** is what the transfer tells apart in a packet. A payload is the number
of the segment it carries, `NoData` if there is none and `Junk` if it is memory
nobody wrote. The two checksums are one field that says which of them fails, and
`DecodeStatus` is the order in which `pkt_decode` looks at them: the header's
first, the payload's only if the packet is not marked truncated. `Header` is what
`pkt_decode` stores before it looks at any.

**Network** is external: the queues of two UDP sockets and their pending errors. A
datagram is lost, duplicated, put before others, damaged or truncated when it is
written; `Faults` says which of these may happen and `MaxFaults` how often. Damage to a
header gives the datagram any `TYPE`, `SEQNUM` and `WINDOW` (`Headers`) if it is an
answer: `pkt_decode` stores them before it compares the checksum, and the sender may act
on what is stored. Of a data packet only `SEQNUM` is damaged: the
receiver uses nothing of one that does not decode. A write
to a full queue is a loss that costs nothing. `"recrc"` is a router that truncates
and recomputes the header's checksum, which is the only way a TR bit passes
`pkt_decode`: the decoder leaves the bit in what it sums (`packet_interface.h:50`
describes the contrary). `"icmp"` lets refusals be reported, `"io"` lets reads and
writes of the files fail, `"kill"` lets the receiver die (`ReceiverKilled`). Without
`"icmp"`, so with `Faults = {}` too, refusals are filtered on the way: `loopback_wrap`
shows what they do to a transfer in which nothing else goes wrong.

**Sender** is `send_data`. `s_pc` is the place in an iteration: `select`, the file,
the socket, the second half of a NACK, the timer, then the second loop. One action
stands for one stretch of code between two calls another process can interleave
with:

| action | code |
|---|---|
| `Select`, `SelectTimeout` | `client.c:119-142`: the sets, `select`, its time out |
| `ReadSegment`, `ReadEndOfFile`, `ReadFileError` | `client.c:142-215` |
| `ReadBadReply`, `HandleAck`, `HandleNack`, `WriteRawStruct`, `HandleOther` | `client.c:217-336`, with `adapt_buffer` in `AckedInd` |
| `RetransmissionTimer`, `RetransmitUninitialised` | `client.c:338-362` |
| `NackUninitialised` | `client.c:299-332` with an index no one stored |
| `WriteRefused` | every `write() < 0` and its return |
| `EncodeEndOfFile`, `EndSelect`, `EndWrite`, `EndRead` | `client.c:369-408` |

When `read()` fails on the socket, the code skips `pkt_decode` and handles
`pkt_ack` as it was, be it an answer that was handled before or the header of one that
was refused; so does `Reply`. `buffer` has `MAX_WINDOW_SIZE` slots (31), `client.c:109`,
for whatever window an answer asks for; the receiver uses `RCV_WINDOW` of its own (3). Reading a slot of `buffer` that was never
stored is undefined behaviour: `UseOfUninitialised` lets the program crash, fail,
or write any datagram, and `undef` remembers it.

`adapt_rtt` changes a copy of the timeout and is left out with the timestamps it
reads; so is the branch on `fail == 1`, which nothing sets.

**Receiver** is `receive_data`. The loop that writes what is in order is one action
per turn (`WriteSlot`) so that a write may fail at any of them. `r_held` is the slot
that points to the payload `pkt_rcv` still owns: a truncated packet makes
`pkt_set_payload` free that payload (`packet_implem.c:304`), after which the slot
points to `Junk`. `memset(buffer_len, -1, MAX_WINDOW_SIZE)` sets 31 *bytes*, which
is why the window is assumed to be at most 7.

**Transfer** composes them. `Timely` means that answers come well within the
100 ms: a timer expires only if nothing is under way (`Quiet`), and `select`
reports what was sent. Without it a timer may expire and `select` may miss a
datagram at any moment. It states all properties.

**FileDelivery** is what a transfer promises, without a protocol: `delivered` grows
by the next segment, until `finished`, which a reliable transfer only becomes with
the whole file. `Transfer` maps `delivered` to `written` and `finished` to the
receiver having got the end-of-file packet.

**SlidingWindow** is the protocol without its messages: how many segments were sent and
how many are in the file, and which segment each slot of the two tables holds. `Send`
takes the slot of a segment that is in the file; `Accept` puts any segment that was sent
and is missing into its own slot, which is empty; `Store` empties the slot of the next
segment. `Transfer` maps `nsent` to `seq_ind`, `nwritten` to the length of `written`,
`kept` and `held` to the payloads in `buffer` and `buffer_payload`.

**PacketCodec** is a packet as a C program sees it, in both versions (the operators of
the first begin with `First`): the struct, its setters with their limits,
`pkt_encode` and `pkt_decode`. Payload bytes are what they repeat and how many they
are; a checksum is the data it was computed from. `pkt_set_payload` is in two parts,
what it frees (`FreedBy`: the previous payload, only if the packet has none by now,
its LENGTH being set first) and the packet it leaves. `AsDatagram` is the step from
here to `Datagram`: what the transfer calls a datagram that was sent, whole or damaged.
It is read off the datagram alone, not off the buffer it is read into.

**PacketUse** is how the programs use packets, memory included. `user` is the program:
the sender, the receiver, or the unit tests of either version.

| state | code |
|---|---|
| `pkt1`, `pkt2` | `pkt_send` and `pkt_ack`, or `pkt_rcv` and the packet of `send_ack`, or a test's two packets |
| `live`, `mem` | the blocks `malloc` has handed out and what is in them |
| `buffer`, `table` | the sender's copies, `client.c:172-179`; the receiver's payloads, `server.c:212` |
| `buf`, `status` | `packet_encoded`, and what `pkt_decode` last said of it |

Which segment is sent and which slot is used are free here; `Sender` and `Receiver`
say which. `Received` is a `read()` into a buffer that keeps what was there behind a
short datagram; `Reads` are the datagrams of the other program, whole, damaged, marked
as truncated, or cut. A block that nothing points to any more is a leak: the model
forgets it at the next allocation, and may hand it out again.

**Record** is `record.c` as `database.c` uses it: one record, and a file of records of
which the last may be cut after any `fwrite` (`WriteRecord(n)`). `ReadRest` reads what
is there: since `fread` is tested against -1, the words of a header that are missing are
any value. `intact` remembers that the payload's last allocation succeeded and was read
whole.

**TcpServer** is `server.c` and `client.c` of `src/client-server/TCP`. The parent's
actions need `handler = "idle"`; the handler's (`HandlerStarts`, `Reap`, `NoneToReap`,
`HandlerReturns`) fall between any two of them. A `SIGCHLD` that comes while the handler
runs stays pending, and two are one. `ForkFails` takes the parent's branch, as the code
does.

**TransferInvariants** holds the inductive invariants of the transfer, **MCTransfer**,
**MCPacketUse** and **MCExercises** the values of the constants TLC needs. The two
exercises have nothing in common; `MCExercises` chooses one of them at the start.
The names that begin with `Bug` are variants of the
definition next to them, one for each property: the mutation `PROJECT.json` pairs
with the property puts the variant in place and TLC then finds it violated.

## 3. What is checked

The runs of the transfer have window 3, as in the program, and 7 sequence numbers in
place of 256.
Both numbers are 1 modulo 3, so that a wrap shifts the numbers against the slots in
the same way, and 7 is more than twice the window, as 256 is.

| run | environment | what it shows |
|---|---|---|
| `reliable` | 9 segments, no fault, the receiver late or not, timely | A file longer than the sequence numbers arrives whole, with a wrap and a change of window on the way; both programs end and know it; deadlock is checked; the transfer implements `FileDelivery` with fairness; `WindowExtent`, at each position of the receiver, before and after the wrap |
| `lossy` | 4 segments, one fault of four kinds, premature time outs | `DeliveredPrefix`, `UnackedRetained`, `AcksAreWritten`, `ReceiverAligned`; every step implements a step of `SlidingWindow` |
| `refused` | 5 segments, two losses, the receiver late, gone or killed, ICMP, fair | `EndLoopSendsEndOfFile`, `RetransmitsOldest`, `NoUninitialisedRead`, `AcksAreWritten`; the sender returns unless the receiver was killed; every step implements a step of `FileDelivery` |
| `failures` | 4 segments, one fault of any kind, refusals and a dying receiver besides | `TypeOK` and `DeliveredInOrder`, also where a failing read makes the sender handle an answer whose header was damaged. States after a use of uninitialised memory are not explored (`Defined`), since `DeliveredInOrder` sets them aside; `TypeCorrect` covers them |
| `codec` | 4 blocks, 2 slots, payloads of up to 2 bytes, windows up to 3, every `user` | Memory and codec: `BufferIntact`, `TableIntact`, `DeletesOnce`, `FirstOwnsOne`, `DecodesAsDatagram`, `RoundTrip`, `EncodeFits` |
| `exercises` | a file of 2 records, payloads of 0, 2 and 3 bytes, lengths modulo 2; 3 clients, a backlog of 1, 2 addresses, one failing call | `LengthBacked`, `ReadBack`; `ErrnoKept`, `OneDescriptor`, `NoForgottenZombie`, and that every child is reaped and every client answered |

Six more runs look for a sentence of the repository that the code does not keep, and
find a behaviour that refutes it:

| run | sentence | behaviour |
|---|---|---|
| `damaged_ack` | `client.c:389`: the message is sent until the ACK comes | The end of the file is written, the answer to it is damaged and read into the buffer the loop sends from; what the loop writes from then on is that answer. (In this run the receiver has the end of the file from the first turn.) |
| `lost_eof` | `client.c:397`: once the ACK was received we can close | The end-of-file packet is lost while an ACK of an earlier segment is under way; the sender ends, the receiver never does |
| `early_eof` | `server.h:15`: all data received is written | A segment is lost and the end-of-file packet comes before its retransmission; later segments stay in the table |
| `one_segment` | `client.c:98`: `small_ind` is the index of the smallest packet in the buffer | A file of one segment: its ACK makes the window 3 and `small_ind` 1, and the code after the select, which sends again whenever an iteration neither sent nor received, encodes `buffer[1]`; reading the end of the file is such an iteration, no time need pass |
| `window_edge` | `server.c:199-200`: a wrapped number inside the window is correct | `seq_exp + window - 1 > 256` leaves out the case of exactly 256, so that number 0 is dropped |
| `loopback_wrap` | `test.c:257`: the two files are equal | Eight segments, nothing lost: after a wrap the sender's window test holds nothing back, an early ACK ends it, and the receiver's next ACK is refused, which makes it return with segments unread |

### Bounds

* `NSegments`: 4 is a full window and one segment past it, so that a slot is reused;
  5 reuses two; 8 and 9 wrap; 1 is the smallest file that is not empty.
* `Capacity` bounds a queue. 3 holds a window. Where a property needs that nothing be
  dropped for want of room it is larger: 9 holds the file of `loopback_wrap`, 11 that of
  `reliable` and two datagrams more, as the theorems about reliable transfers ask.
* `MaxFaults` counts losses and other mishaps. One suffices to lose, double,
  overtake or damage at every point of a transfer; a premature time out and a full
  queue cost nothing, so that behaviours with many duplicates and losses are in
  `lossy` too. Two are needed to lose an answer and then the next (`refused`). In `failures` one
  is enough to damage an answer before the receiver is killed and the refusal reported,
  both of which are free, or to truncate a packet after one that is held, since a full
  queue makes the gap.
* `MAX_WINDOW_SIZE` is one more than the receiver's window, so that a damaged answer may
  ask for a wider one; in `lossy`, where no read fails and a damaged answer is never
  handled, it is that window.
* `Cells`: 4 blocks are one for each of two slots, one for the packet that is decoded
  over them and one to be allocated; blocks are interchangeable, hence the symmetry.
  Payloads of 0, 1 and 2 bytes are none, shorter than the buffer and full; sequence
  numbers, times and windows are as few as still tell fields apart. A byte of a time
  stamp has 2 values, so that two bytes do not fit in one.
* `exercises`: lengths modulo 2 make a payload of 2 bytes wrap to length 0 and one of 3
  to length 1; two records leave a cut one behind a whole one. Three clients and a
  backlog of 1 let one be refused, one wait and one be served, and two children exit at
  once; one failing call may be any of `accept`, `fork` and `send`.
* `FinalAcks` is 1 to 3 where the program has 11. `SenderReturns` needs more final
  acknowledgements than losses, as the program has if fewer than 11 datagrams are
  lost at the end; `refused` has 3 for two losses.

### Fairness

`FairSpec` asks of the programs only that they run: weak fairness of each one's
steps, of the timers (a `select` with a time limit returns) and of refused
datagrams being reported or dropped. That the receiver is killed is never required.
Strong fairness of `SelectReady` and
`EndSelectReady` says that `select` does not for ever return without a datagram
that is in the queue each time: a model may let it be "still in transit" at each
call, a network does not. Nothing is asked of the network itself: a datagram may be
lost every time, up to `MaxFaults`.

`ServerFairness` asks that the server, its handler and its children run if they can,
and that a client reads what comes; that a client connects, or that a call fails, is
never required. The parent's `accept` and the failing ones are apart (`AcceptFails`,
`ForkFails`) for that reason.

CHECK_DEADLOCK is off in the runs with faults: there the receiver really may wait
for ever (see `lost_eof`). It is off in `codec`, where a program ends by deleting its
packets, and in `exercises`, where a server without clients has nothing to do.

## 4. What is proved

`tlapm` checks every proof; no parameter is bounded in them.

| theorem | statement | assuming |
|---|---|---|
| `TransferProofs!TypeCorrect` | `Spec => []TypeOK` | nothing |
| `DeliveryProofs!WindowExact` | `Spec => []WindowExtent` | nothing |
| `DeliveryProofs!DeliverySound` | `Spec => []DeliveryInvariant` | `NoWrap`, `SafeReceiver` |
| `DeliveryProofs!DeliveryCorrect` | `Spec => []DeliveredPrefix` | the same |
| `DeliveryProofs!TableAligned` | `Spec => []ReceiverAligned` | the same |
| `AckProofs!AckSound` | `Spec => []AckInvariant` | `SoundAnswers` |
| `AckProofs!AcksCorrect` | `Spec => []AcksAreWritten` | `NoWrap`, `SoundAnswers` |
| `AckProofs!EndLoopCorrect` | `Spec => []EndLoopSendsEndOfFile` | no `"corrupt"` |
| `WindowProofs!WindowCorrect` | `Spec => []WindowInvariant` | all three |
| `WindowProofs!Retained` | `Spec => []UnackedRetained` | all three |
| `DeliveryProofs!OrderCorrect` | `Spec => []DeliveredInOrder` | `NoWrap` |
| `WindowProofs!NothingUninitialised` | `Spec => []NoUninitialisedRead` | `FillsTable`, `NoStaleDamage`, no `"recrc"` |
| `WindowProofs!OldestCorrect` | `Spec => []RetransmitsOldest` | `NoWrap`, `KeepsOrder`, `FillsTable` |
| `RefinementProofs!TransferRefines` | `Spec /\ []NoUninitialisedRead => ImplementsDelivery` | `NoWrap`, `SafeReceiver`, `Faults # {}` |
| `RefinementProofs!FullTransferRefines` | `Spec => ImplementsDelivery` | the same, `NoStaleDamage` and `FillsTable` |
| `RefinementProofs!ReliableTransferRefines` | `Spec => ImplementsDelivery` | `ReliableTransfer`, `FillsTable` |
| `RefinementProofs!ReliableCorrect` | `Spec => []ReliableState` | as the line above |
| `RefinementProofs!EofComplete` | `Spec => []EofMeansComplete` | the same |
| `RefinementProofs!ReliableFiles` | `Spec => [](SameFiles /\ ReceivedIsWritten)` | the same |
| `RefinementProofs!EndCorrect` | `Spec => [](DoneMeansEnded /\ EndLoopSendsEndOfFile)` | the same and `RoomForTheEnd` |
| `RefinementProofs!WindowsRefined` | `Spec => ImplementsWindows` | `NoWrap`, `SafeReceiver`, `SoundAnswers`, `FillsTable` |
| `PacketProofs!PacketTypeCorrect`, `RetransmissionsIntact`, `PayloadsIntact`, `NoDoubleFree`, `FirstLeaksNothing`, `EncodesWithinBuffers`, `CodecIsDatagram`, `RoundTripCorrect` | `Spec => []` of each invariant of `codec` | nothing |
| `ExerciseProofs!RecordTypeCorrect`, `LengthStaysBacked`, `RecordsReadBack` | `RecordSpec => []` of the record's invariants | nothing |
| `ExerciseProofs!ServerTypeCorrect`, `HandlerKeepsErrno`, `ConnectionsClosed`, `ZombiesRemembered` | `ServerSpec => []` of the server's invariants | nothing |

`NoWrap` is a file of at most 254 segments of 512 bytes (`NSegments + 2 <= 256`);
`loopback_wrap` shows that longer ones are not safe on every network. `SafeReceiver` excludes failing
writes of the receiver's file and routers that recompute checksums; loss,
duplication, reordering, damage, truncation and refusals are all allowed.
`NoStaleDamage` excludes damage together with ICMP: an answer that was refused is not
handled after a read that fails. `SoundAnswers` is that and no failing read or write of
a file; both allow files of any length. `FillsTable` is a file of at least a window of segments,
or stdin; `one_segment` shows what a shorter one leads to. `KeepsOrder` is a network
that neither reorders, damages nor recomputes checksums; it may lose, duplicate,
truncate, refuse, and the files may fail. `ReliableTransfer` is no fault, `Timely`, numbers
for two windows (256 for a window of 3), and queues that hold `InFlight` datagrams; the
receiver may start late, the input may be stdin, and the file may be of any length.
`InFlight` is a window for a file too short to wrap. For a longer one it is the file: once
`seq_exp` has wrapped, `seq_exp < small_seq + window` (`client.c:125`) is true until
`small_seq` has wrapped too, and the sender reads on as long as the disk is faster than
the answers. `RoomForTheEnd` is room for two datagrams more: a segment the timer sends
once more and the end of the file.

**TypeCorrect** says more than the declarations: every index stays inside its array
(`seq_ind % window`, `small_ind`, `real_ind`, `index`), the sender's at most
`MAX_WINDOW_SIZE`. It assumes nothing of the environment: an answer whose `WINDOW` was
damaged and that is handled all the same, after a `read()` that fails, may make the window
any its 5 bits hold, and the table has a slot for each. That the window is 1 or
`RCV_WINDOW` otherwise is part of `AckInvariant` and `TableInvariant`, under
`NoStaleDamage`.

**WindowExact.** `add_buffer` compares numbers in two cases and computes a slot in two
(`server.c:195-213`). `WindowExtent` says what that comes to: with `ahead` the distance
from `seq_exp` modulo 256, a number is taken if and only if `ahead` is less than the
window, except number 0 when it is the last of the window, and its slot is
`(index + ahead) % window`. The exception is what `window_edge` runs into; the theorem says
that it is the only one, for all parameters and every reachable state. It rests on
`ModularArithmetic!ModAcross`, the residue of a difference on the other side of a wrap.

**DeliverySound.** `DeliveredPrefix` is not inductive: what is written is what the
table holds, that is what came in, what the sender kept, and what it will send at
the end. `SenderSound` adds that each datagram that decodes carries the segment its
number says, that each kept segment does, and that `seq_exp` counts the segments
(here `NoWrap` is needed). `ReceiverSound` adds that the receiver's numbers count
what it has written and that a slot holds only a segment of its own residue, above
what is written and at most a window above. The step that matters is `WriteSlot`:
the payload in slot `index` is congruent to the next segment and less than a window
away from it, so it is the next segment (`ModularArithmetic!ModClose`). The
second loop sends back answers it could not decode, so the invariant also says that
no answer is a data packet.

**OrderCorrect** needs less: when writes fail the receiver's file has holes and its
table is aligned on `seq_exp` alone, and a payload that was freed too early is memory
nobody knows. `OrderSound` says of each slot in use that there *is* a segment of its
residue it stands for, still ahead of `seq_exp`, and that it holds that segment or
`Junk`; what is in the file is behind.

**AckSound.** `AcksAreWritten` is not inductive for one reason: `pkt_ack` may be
handled a second time, after a `read()` that failed. The invariant adds that the
reply it holds is sound until the second loop starts, and that errors are only
reported if ICMP is. With both damage and ICMP it would not hold: a damaged ACK
that was rejected is still in `pkt_ack`, and a later `ECONNREFUSED` makes the sender
handle it (`client.c:221`); this is what `NoStaleDamage` sets aside. Numbers are only
compared with lengths where the file does not wrap, hence `NoWrap` in `AcksCorrect`; of a
longer file `AckSound` says that `seq_exp` is the length of what is written modulo
`SEQ_MOD`, and that the window is 1 or `RCV_WINDOW`, and no more.

**EndLoopCorrect.** The second loop reads answers over the datagram it sends, which is safe
only because whatever decodes ends it. `EndLoopSound` says that every answer under way
decodes; damage is the one thing that undoes it, whatever is lost, truncated or refused
and whatever an uninitialised slot made the sender write. The mutation paired with this
property is the natural repair of `lost_eof` (only the answer to the end of the file ends the loop): it
breaks the property without any damage, since a late ACK would then be what is sent.

**Retained.** `WindowInvariant` adds why a slot is never taken too early: the sender
is at most a window ahead of what is written (`AckInvariant` bounds `small_seq`, and
`client.c:125` bounds `seq_exp` by it), and while its own window is still 1 it has
sent at most one segment, so that the change of modulus from 1 to 3 moves nothing.
The test of `client.c:126` is made before `select` and used after it, hence
`s_pc = "file" => FileSelected`. That `buffer_empty = 0` lets the test be skipped is
harmless because it is 0 only before the first segment or after the end of the file.

**NothingUninitialised.** The table is filled from slot 0 on (`TableFilled`), so that a
slot is stored once `seq_ind` has passed it. The timer only expires when the file was
not selected, that is when the window is full or the file has ended (`TimerReady`); in
both cases, with a file that fills the table, all slots it may read are stored. Nothing
here depends on sequence numbers, so that wraps are allowed. A NACK would read a slot
that need not exist; it takes a packet marked as truncated that decodes, hence a router
that recomputes checksums, or an ACK damaged into a NACK and handled after a `read()` that
fails (`AcksOnly`, under `NoStaleDamage`). A damaged window would be as bad: the slots of a
wider one were never stored.

**OldestCorrect.** `small_ind` goes along with `small_seq` only if no ACK is older than
one already handled. `OldestSound` says that the ACKs under way are in order
(`OrderedAcks`), between the sender's `small_seq` and the receiver's `seq_exp`; then
`small_ind = small_seq % window`, and the slot is that of the oldest segment, which is
still there (`RetainedFrom`).

**PacketProofs.** `MemoryInvariant` makes the four memory properties inductive
together: the second packet's payload is in neither table, and `pkt_send` is never
marked as truncated, which would make `pkt_set_payload` free a payload its copies share.
`Kept` and `Stored` say what an allocation and a `pkt_decode` leave as it was; then there
is one lemma per action. `CodecIsDatagram` ties the two views of a packet together: of
any datagram that comes whole, intact, damaged or marked as truncated, and whatever older
ones left in the buffer and in the packet, `pkt_decode` accepts, and stores, what the
transfer says of *that datagram*. The body behind the header is the datagram's own because
a whole datagram is as long as its `LENGTH` says (`WholeBody`); for a marked one, and one
whose `LENGTH` was damaged, the header's checksum fails before the body is looked at.
`PayloadsIntact` is about the slots that point to a block: those whose payload a truncated
packet freed are set aside, as their contents are any. `RoundTripCorrect` adds what
a buffer holds between encoding and decoding (`Intact`), or after it was damaged
(`Refused`).

**ExerciseProofs.** `ServerInvariant` adds to the server's properties that no connection
is open but between `accept` and `close`, and that what the handler saved while it
interrupts the parent before `perror` is what `perror` will print. `RecordInvariant`
adds that every record in the file is well formed and no longer than its size.

**ReliableCorrect.** That the receiver has the whole file when it stops needs the whole
state of the network. `ReliableSound` says that what was sent and not received is at the
front of the sender's queue, in order, each segment once (`SegmentsInOrder`); that the
ACKs of what was received are in the other, in order (`AcksInOrder`); and that the table
holds at most the segment that is about to be written. All of it is counted in segments
(`Len(written)`, `seq_ind`, `Confirmed`), never in sequence numbers, which are only
residues of these counts: so it holds through any number of wraps. Numbers are compared in
two places. In the sender's window test, what is not confirmed stays within `InFlight`.
In `add_buffer`, a segment that is sent again is one of the last window (`Recent`), since
the table holds no other; the receiver drops it because there are numbers for two
windows (`2 * RCV_WINDOW <= SEQ_MOD`), and takes the next one.

What makes the invariant inductive is where the timer can expire: `Timely` lets it only
when nothing is on the way, and then either
the sender has read the whole file, and what it sends again no longer matters
(`Superfluous`), or the
first segment was lost because the receiver was not bound yet (`FirstLost`). With a
window of 1 until the first ACK this is the only segment that can be lost so.
`EndSound` then follows the end of the file: how full the queue is at each step of the
sender, that what it writes in the second loop is the end-of-file datagram, and that an
answer it reads there was sent by a receiver that has that datagram or will read it.
`ReliableTransfer` is also what the statements of `lost_eof`, `early_eof`,
`damaged_ack` and `loopback_wrap` lack: the same formulas that those runs refute with a
fault (`DoneMeansEnded`, `ReceivedIsWritten`, `EndLoopSendsEndOfFile`) or with a refused
ACK (`SameFiles`) are theorems without, for a file that wraps as for one that does not.

So each sentence that a violating run refutes has a theorem that says when it does hold:
`EndLoopCorrect` without damage (`damaged_ack`), `EndCorrect` and `ReliableFiles` without
faults (`lost_eof`, `early_eof`, `loopback_wrap`), `NothingUninitialised` for a file of at
least a window (`one_segment`), `WindowExact` for every number but one (`window_edge`).

**The refinement.** `WriteSlot` is `Deliver` because the slot it writes holds the next
segment, `ReceiveEndOfFile` is `Finish`, and nothing else changes what `FileDelivery`
sees. `TransferRefines` assumes that the sender uses no memory it did not store, which
`one_segment` shows it may do; `FullTransferRefines` has that from
`NothingUninitialised`, and with it `NoStaleDamage`. With `Faults = {}` the abstract file may only finish complete;
`ReliableTransferRefines` has that from `ReliableCorrect`.

**WindowsRefined.** Under loss, duplication, reordering, damage, truncation, refusals and
timers that expire too early, each `ReadSegment` is a `Send`, each accepted datagram an
`Accept`, each `WriteSlot` a `Store`, and all else is invisible. A slot's old segment is in
the file when the slot is taken because of `WindowInvariant`. That a segment is accepted
into an *empty* slot, and never one that was not sent, needs two more facts: a slot in use
already holds the segment of that number (`DeliveryInvariant`; a second copy is a stutter),
and nothing under way, kept or encoded is ahead of `seq_ind` (`SentSound`, whose invariance
`SentNext` proves). `SoundAnswers` and `FillsTable` come in through `WindowInvariant` and
`TableInvariant`.

**Only model-checked:** what needs fairness (`Completes`, `SenderReturns`,
`ImplementsFairDelivery`, `EveryChildReaped`, `EveryClientAnswered`): liveness is out of
the prover's reach. For every other property of a passing run there is a theorem. Files
whose numbers wrap, on a network that loses, are covered by `TypeCorrect`, `NothingUninitialised`,
`WindowExact`, `EndLoopCorrect` and the part of `AckSound` that counts modulo `SEQ_MOD`: there `UnackedRetained`,
`RetransmitsOldest` and `DeliveredPrefix` are false (section 5). That the checksum of a
damaged packet differs is an assumption of the models, not a result.

## 5. What is not modelled

* The start of the programs: name resolution, the error returns of `socket`, `bind`
  and `connect`, an unreadable file. Nothing has happened yet when they fail, and each
  ends in one `return`.
* Memory running out: `pkt_new` and `malloc` of packets are assumed to succeed, as most
  of the code does; only `record_set_payload` and `record_read` meet a failing `realloc`.
  Leaks are not counted: `send_data` frees no segment it replaces and `record_read`
  neither of its buffers.
* The copies of both checksums in the struct, which only tests read, and fields on
  which nothing depends (`pkt_new` leaves SEQNUM as it finds it).
* Several clients of the receiver: it connects to the first address it hears from.
* The command lines, in which options are copied into two calls.
* The chat (a relay of two descriptors without a state of its own), the calculator
  (floating-point arithmetic in one pass) and the UDP example (one `sendto` and one
  `recvfrom` per turn).

Behaviours seen while modelling and not made a run of their own:

* Damage together with ICMP. An ACK that does not decode leaves its `TYPE`, `SEQNUM` and
  `WINDOW` in `pkt_ack` (`packet_implem.c:72-92`); if the next `read()` fails, because the
  receiver is gone, the sender handles them as an answer (`client.c:221-258`). A damaged
  `TYPE` is then a NACK, and `WriteRawStruct` or an uninitialised slot is sent; a damaged
  `WINDOW` makes the window up to 31. With `{"corrupt", "icmp", "kill"}` TLC finds
  `NoUninitialisedRead` and `AcksAreWritten` violated. This is what `NoStaleDamage`
  excludes; what holds without it is `TypeOK`, `WindowExtent` and `DeliveredInOrder`.
* A receiver that dies leaves the sender sending for ever: each refusal is reported by
  `read()`, whose error is ignored (`client.c:219`), before `write()` can see it.
  `SenderReturns` sets that aside (`r_pc = "aborted"`); without the exception it is false.
* `pkt_decode` is not what `packet_interface.h:49-55` describes. TR is not taken as 0 when
  the header's checksum is computed, so that a packet a router marks only decodes if the
  checksum was recomputed; the type is not checked; and `LENGTH` is not compared with the
  number of bytes received, so that a datagram cut after its header decodes with a body
  an older one left in the buffer, if that one has the length the header says.
* An ACK overtaken by a later one makes `small_seq` go round and takes `small_ind` out
  of step with it (256 is not a multiple of 3), so that the timer then resends another
  segment than the oldest; this is why `OldestCorrect` assumes `KeepsOrder`.
* A file whose numbers wrap twice may arrive wrong although no datagram was damaged. In
  `lossy` with 16 segments and no fault but full queues and early timers, the sender, held
  back by nothing after the wrap, sends up to segment 12 while the receiver waits for
  segment 5, whose number modulo 7 is the same; 5 no longer finds room, 12 does, and is
  written in its place. In the program these are segments 256 apart. It is why `NoWrap` is
  assumed of networks that lose, and the whole file of the queues of `ReliableTransfer`.
* Nothing retransmits when the input is stdin (`client.c:338`); the slot computed for a
  NACK (`client.c:299`) adds a sequence number to an index and mostly lies outside the
  table.
* `pkt_set_payload` with more than 512 bytes, on a packet without a payload, frees the
  pointer and returns `E_LENGTH` without replacing it (`packet_implem.c:304`). No program
  calls it so: `pkt_decode` checks the length first.
* `pkt_encode` sets the time stamp itself, so that the one `send_ack` copies from the
  segment is overwritten; it no longer returns `E_NOMEM`.
* The first version decodes no ACK and no NACK, clearing TR by a setter that only data
  passes (`E_TR`), and takes one signed byte of the time stamp; `RoundTrip` sets both
  aside.
* `record_read` returns 0 or 2 for a header that is not there, where `record.h` has -1;
  `ReadBack` asks its caller to take fewer than 4 bytes for none.

## 6. Plan

1. Done: the transfer (`Datagram`, `Network`, `Sender`, `Receiver`, `Transfer`,
   `FileDelivery`, `SlidingWindow`), the packets and their memory (`PacketCodec`,
   `PacketUse`), the exercises with a state (`Record`, `TcpServer`), their runs and proofs.
2. `Startup`: resolution, `bind`, `connect`, `wait_for_client`, and the error returns
   of the two programs before their loops.
3. `WindowsRefined` for files shorter than a window, given `[]NoUninitialisedRead` as in
   `TransferRefines`; a file that wraps does not implement `SlidingWindow`, since the
   sender then reads on past the window.
