------------------------------- MODULE Record -------------------------------
(***************************************************************************)
(* The records of src/Inginious/Encoder et décoder des structures: their   *)
(* setters, the memory of their payload, and how they are written to a     *)
(* file and read from it (record.c), as database.c uses them, with one     *)
(* record that is written, changed and read again.                         *)
(*                                                                         *)
(* Data abstraction.  A block of memory is what it repeats and how many    *)
(* bytes it has, 0 for none.  A file is the sequence of the records        *)
(* written, the last one maybe cut: size is how many bytes of it there are.*)
(* The blocks that record.c forgets are not represented.                   *)
(***************************************************************************)
EXTENDS Integers, Sequences

CONSTANTS
  TYPE_MOD,     \* number of types: 2^15, a bit field
  LEN_MOD,      \* number of lengths: 65536, LENGTH being a uint16_t
  Sizes,        \* arguments n of record_set_payload
  Contents,     \* what a payload may repeat
  Uuids,        \* values of a UUID, 0 among them
  MAX_RECORDS   \* bound on the records of the file

ASSUME RecordAssumption ==
  /\ TYPE_MOD \in Nat \ {0} /\ LEN_MOD \in Nat \ {0}
  /\ Sizes \subseteq Nat /\ Contents \subseteq Int
  /\ Uuids \subseteq Nat /\ 0 \in Uuids

VARIABLES
  rec,      \* the struct record; PAYLOAD is the block it points to
  file,     \* the records in the file
  pos,      \* how many of them are before the position of the file
  ret,      \* what the last call returned
  intact    \* since the payload was set, no allocation of one failed and none
            \* was read in part

recordVars == <<rec, file, pos, ret, intact>>

Block(d, n) == [data |-> d, len |-> n]
NoBlock == Block(0, 0)

HEAD == 4   \* bytes of the header, in two words of 2
FOOT == 4   \* bytes of the UUID

Size(r) == HEAD + r.LENGTH + (IF r.F = 1 THEN FOOT ELSE 0)

\* What a record is in a file.
Written(r) ==
  [TYPE |-> r.TYPE, F |-> r.F, LENGTH |-> r.LENGTH,
   bytes |-> Block(IF r.LENGTH = 0 THEN 0 ELSE r.PAYLOAD.data, r.LENGTH),
   UUID |-> IF r.F = 1 THEN r.UUID ELSE 0]

-----------------------------------------------------------------------------
(***************************************************************************)
(* The setters.                                                            *)
(***************************************************************************)
\* Variant: the type is kept whole.
BugTyped(r, type) == [r EXCEPT !.TYPE = type]

Typed(r, type) == [r EXCEPT !.TYPE = type % TYPE_MOD]

\* Variant: the length of the payload that was freed is kept.
BugFreed(r) == [r EXCEPT !.PAYLOAD = NoBlock]

\* record_free: a payload whose LENGTH wrapped to 0 is not freed.
Freed(r) == IF r.LENGTH # 0 THEN [r EXCEPT !.LENGTH = 0, !.PAYLOAD = NoBlock] ELSE r

Filled(r, block) == [r EXCEPT !.PAYLOAD = block, !.LENGTH = block.len % LEN_MOD]

Setter(next) ==
  /\ rec' = next
  /\ ret' = 0
  /\ UNCHANGED <<file, pos>>

SetRecordType(type) == Setter(Typed(rec, type)) /\ UNCHANGED intact

SetRecordPayload(d, n) ==
  /\ Setter(IF n = 0 THEN Freed(rec) ELSE Filled(rec, Block(d, n)))
  /\ intact' = TRUE

\* realloc fails: the pointer is lost, the LENGTH stays.
SetRecordPayloadFails ==
  /\ rec' = [rec EXCEPT !.PAYLOAD = NoBlock]
  /\ ret' = -1
  /\ intact' = FALSE
  /\ UNCHANGED <<file, pos>>

SetUuid(u) == Setter([rec EXCEPT !.F = 1, !.UUID = u]) /\ UNCHANGED intact

DeleteFooter ==
  /\ Setter(IF rec.F # 0 THEN [rec EXCEPT !.F = 0, !.UUID = 0] ELSE rec)
  /\ UNCHANGED intact

-----------------------------------------------------------------------------
(***************************************************************************)
(* The file.                                                               *)
(***************************************************************************)
Complete(w) == w.size = Size(w.record)

\* The position is that of the end, as after another record_write.
Writable ==
  /\ Len(file) < MAX_RECORDS /\ pos = Len(file)
  /\ \A i \in 1 .. Len(file) : Complete(file[i])
  /\ rec.LENGTH <= rec.PAYLOAD.len

\* How many bytes the calls of fwrite that succeed may write: those of a call
\* that fails are no use to any fread.
CutAt(r) == {0, 2, HEAD, HEAD + r.LENGTH, Size(r)}

WriteRecord(n) ==
  /\ Writable
  /\ file' = Append(file, [record |-> Written(rec), size |-> n])
  /\ pos' = pos + 1
  /\ ret' = IF n = Size(rec) THEN n ELSE -1
  /\ UNCHANGED <<rec, intact>>

Rewind == pos > 0 /\ pos' = 0 /\ UNCHANGED <<rec, file, ret, intact>>

\* Variant: the number of bytes of the payload read is not compared.
BugHasPayload(left, n) == TRUE

\* Whether the n bytes of the payload are among the bytes that are left.
HasPayload(left, n) == n = 0 \/ left >= n

Heads == (0 .. TYPE_MOD - 1) \X {0, 1}

\* The rest of record_read, once the header is head and n; allocated says whether
\* realloc succeeds, which is not looked at.
ReadRest(stored, size, head, n, allocated) ==
  LET left   == IF size >= HEAD THEN size - HEAD ELSE 0
      header == [rec EXCEPT !.TYPE = head[1], !.F = head[2], !.LENGTH = n]
      whole  == IF n = 0 THEN header
                ELSE [header EXCEPT !.PAYLOAD = IF allocated THEN stored.bytes ELSE NoBlock]
      read   == (IF size >= 2 THEN 2 ELSE 0) + (IF size >= HEAD THEN 2 ELSE 0) + n
  IN  \/ /\ ~HasPayload(left, n)
         /\ rec' = header /\ ret' = -1 /\ intact' = FALSE
      \/ /\ HasPayload(left, n)
         /\ intact' = (n = 0 \/ allocated)
         /\ \/ head[2] = 0 /\ rec' = whole /\ ret' = read
            \/ /\ head[2] = 1 /\ left - n >= FOOT
               /\ rec' = [whole EXCEPT !.UUID = stored.UUID] /\ ret' = read + FOOT
            \/ /\ head[2] = 1 /\ left - n < FOOT
               /\ \E u \in Uuids : rec' = [whole EXCEPT !.UUID = u]
               /\ ret' = -1

\* record_read of a record of which size bytes are there.  The words of the
\* header that are not are any value, fread not being found to fail.
ReadBytes(stored, size) ==
  \E head \in (IF size >= 2 THEN {<<stored.TYPE, stored.F>>} ELSE Heads),
     n \in (IF size >= HEAD THEN {stored.LENGTH} ELSE 0 .. LEN_MOD - 1),
     allocated \in BOOLEAN : ReadRest(stored, size, head, n, allocated)

ReadRecord ==
  /\ IF pos < Len(file) THEN ReadBytes(file[pos + 1].record, file[pos + 1].size)
                        ELSE ReadBytes(Written(rec), 0)
  /\ pos' = IF pos < Len(file) THEN pos + 1 ELSE pos
  /\ UNCHANGED file

-----------------------------------------------------------------------------
RecordInit ==
  /\ \E u \in Uuids :
       rec = [TYPE |-> 0, F |-> 0, LENGTH |-> 0, PAYLOAD |-> NoBlock, UUID |-> u]
  /\ file = <<>> /\ pos = 0 /\ ret = 0 /\ intact = TRUE

RecordNext ==
  \/ \E type \in 0 .. TYPE_MOD : SetRecordType(type)
  \/ \E d \in Contents, n \in Sizes : SetRecordPayload(d, n)
  \/ SetRecordPayloadFails
  \/ \E u \in Uuids : SetUuid(u)
  \/ DeleteFooter
  \/ \E n \in CutAt(rec) : WriteRecord(n)
  \/ Rewind
  \/ ReadRecord

RecordSpec == RecordInit /\ [][RecordNext]_recordVars

-----------------------------------------------------------------------------
(***************************************************************************)
(* Properties.                                                             *)
(***************************************************************************)
\* The fields keep to their bits, whatever is set or read (record.h:9-18,
\* record.c:26-28, 42, 117-134).
RecordTypeOK ==
  /\ rec \in [TYPE : 0 .. TYPE_MOD - 1, F : {0, 1}, LENGTH : 0 .. LEN_MOD - 1,
              PAYLOAD : [data : Int, len : Nat], UUID : Uuids]
  /\ pos \in 0 .. Len(file) /\ ret \in Int /\ intact \in BOOLEAN

\* The LENGTH bytes that record_write writes are in the block it writes them
\* from, though LENGTH wraps and the setters, record_free and record_read each
\* change one of the two first (record.c:13-19, 34-46, 99, 134-142).
LengthBacked == intact => rec.LENGTH <= rec.PAYLOAD.len

\* A record that was written and is read again is the same record, and is said
\* to have the same size; one that was cut is never taken for a whole one, if
\* only the caller takes fewer than 4 bytes for none (record.h:106-125).
ReadBack ==
  ret >= HEAD /\ pos > 0 /\ intact =>
    /\ Complete(file[pos]) /\ ret = file[pos].size
    /\ Written(rec) = file[pos].record
=============================================================================
