---------------------------- MODULE MCExercises -----------------------------
(***************************************************************************)
(* The two exercises, which have nothing in common: one of them is run.    *)
(***************************************************************************)
EXTENDS Record, TcpServer

CONSTANTS c1, c2, c3

VARIABLE program

ThreeClients == {c1, c2, c3}

Init ==
  /\ RecordInit
  /\ \/ program = "record" /\ ServerAt("exit")
     \/ program = "server" /\ ServerAt("bind") /\ rec.UUID = 0

Next ==
  /\ UNCHANGED program
  /\ \/ program = "record" /\ RecordNext /\ UNCHANGED serverVars
     \/ program = "server" /\ ServerNext /\ UNCHANGED recordVars

Spec == Init /\ [][Next]_<<program, recordVars, serverVars>> /\ ServerFairness
=============================================================================
