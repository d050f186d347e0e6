---------------------------- MODULE FileDelivery ----------------------------
(***************************************************************************)
(* What the transfer promises, without the protocol: a file that grows by  *)
(* its own segments in order until the transfer is declared finished,      *)
(* which a reliable one only does when the file is complete.               *)
(***************************************************************************)
EXTENDS Integers, Sequences

CONSTANTS
  NSegments,    \* segments of the file
  Reliable      \* nothing is lost between the two programs

VARIABLES
  delivered,    \* what the receiving side has
  finished      \* the receiving side takes the transfer for finished

Init == delivered = <<>> /\ finished = FALSE

Deliver ==
  /\ ~finished /\ Len(delivered) < NSegments
  /\ delivered' = Append(delivered, Len(delivered) + 1)
  /\ UNCHANGED finished

Finish ==
  /\ ~finished
  /\ Reliable => Len(delivered) = NSegments
  /\ finished' = TRUE
  /\ UNCHANGED delivered

Next == Deliver \/ Finish

Spec == Init /\ [][Next]_<<delivered, finished>>

FairSpec == Spec /\ WF_<<delivered, finished>>(Next)
=============================================================================
