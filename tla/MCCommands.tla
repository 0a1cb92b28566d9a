------------------------------ MODULE MCCommands ------------------------------
(* What commands do, in one run: either connections send commands          *)
(* (Sessions), or one walk, store or input is looked at and no connection  *)
(* does anything.                                                          *)
EXTENDS MCContainers, MCSessions

MCInit ==
  /\ Init
  /\ \/ InputInit /\ mode = "open"
     \/ ScanInit /\ VectorInit /\ live = {} /\ count = 1 /\ input = [about |-> "sessions"]

MCNext ==
  \/ input.about = "sessions" /\ Next /\ UNCHANGED inputVars
  \/ InputNext /\ UNCHANGED vars

MCSpec == MCInit /\ [][MCNext]_<<vars, inputVars>>
=============================================================================
