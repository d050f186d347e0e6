----------------------------- MODULE MCTransfer -----------------------------
(***************************************************************************)
(* Instances of Transfer for TLC: the environments the configurations use. *)
(* Sequence numbers are 0..6 and the window 3, as in the program.  7, like *)
(* 256, is 1 modulo 3, so that wrapping shifts numbers against slots as it *)
(* does there.                                                             *)
(***************************************************************************)
EXTENDS TransferInvariants

NoFaults          == {}
LossOnly          == {"lose"}
DamageOnly        == {"corrupt"}
AnyDelivery       == {"lose", "dup", "reorder", "corrupt"}
LossAndRefusal    == {"lose", "icmp", "kill"}
Loopback          == {"icmp"}

\* A constraint for runs whose invariants set aside what follows the use of
\* memory that was never initialised.
Defined == ~undef
=============================================================================
