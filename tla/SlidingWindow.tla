---------------------------- MODULE SlidingWindow ----------------------------
(***************************************************************************)
(* The protocol without its messages: selective repeat.  Each side has a   *)
(* table of as many slots as the window, in which segment n has the slot   *)
(* of its number.  The sending side reuses a slot only when its segment is *)
(* in the file, the receiving side only holds segments that were sent and  *)
(* are missing from the file, and a slot it filled only changes when its   *)
(* segment goes to the file.                                               *)
(***************************************************************************)
EXTENDS Integers

CONSTANTS
  NSegments,    \* segments of the file
  Window        \* slots of each table

VARIABLES
  nsent,        \* segments sent so far
  nwritten,     \* segments in the file
  kept,         \* the segment in each slot of the sending side, 0 if none
  held          \* the same, of the receiving side

Empty == [i \in 0 .. Window - 1 |-> 0]
SlotFor(n) == (n - 1) % Window

Init == nsent = 0 /\ nwritten = 0 /\ kept = Empty /\ held = Empty

\* The next segment is sent, and takes the slot of one that is in the file.
Send ==
  /\ nsent < NSegments /\ nsent < nwritten + Window
  /\ nsent' = nsent + 1
  /\ kept' = [kept EXCEPT ![SlotFor(nsent')] = nsent']
  /\ UNCHANGED <<nwritten, held>>

\* A segment that is missing arrives for the first time, in any order.
Accept ==
  \E n \in nwritten + 1 .. nsent :
    /\ held[SlotFor(n)] = 0
    /\ held' = [held EXCEPT ![SlotFor(n)] = n]
    /\ UNCHANGED <<nsent, nwritten, kept>>

\* The segment that comes next is there, and goes to the file.
Store ==
  /\ held[SlotFor(nwritten + 1)] = nwritten + 1
  /\ held' = [held EXCEPT ![SlotFor(nwritten + 1)] = 0]
  /\ nwritten' = nwritten + 1
  /\ UNCHANGED <<nsent, kept>>

Next == Send \/ Accept \/ Store

Spec == Init /\ [][Next]_<<nsent, nwritten, kept, held>>
=============================================================================
