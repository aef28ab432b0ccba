---------------------------- MODULE MCEngineReload ----------------------------
(***************************************************************************)
(* A small instance of EngineReload.                                       *)
(***************************************************************************)
EXTENDS EngineReload

Docked ==
  [normalized |-> "DOCKED", status |-> "none", inCleaning |-> "none", resource |-> FALSE,
   hardError |-> FALSE, wash |-> FALSE, dust |-> FALSE, cleanEnd |-> "none"]

StillDocked == {Docked}
==============================================================================
