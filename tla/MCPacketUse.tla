---------------------------- MODULE MCPacketUse -----------------------------
(***************************************************************************)
(* An instance of PacketUse for TLC.                                       *)
(***************************************************************************)
EXTENDS PacketUse, TLC

CONSTANTS c1, c2, c3, c4

FourCells == {c1, c2, c3, c4}
FullSegments == {2}
OneTime == {0}

\* Nothing distinguishes one block from another.
CellSymmetry == Permutations(FourCells)
=============================================================================
