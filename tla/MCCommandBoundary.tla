--------------------------- MODULE MCCommandBoundary ---------------------------
(***************************************************************************)
(* Small instances of CommandBoundary.                                     *)
(***************************************************************************)
EXTENDS CommandBoundary

Plain(state) ==
  [normalized |-> state, status |-> "none", inCleaning |-> "none", resource |-> FALSE,
   hardError |-> FALSE, wash |-> FALSE, dust |-> FALSE, cleanEnd |-> "none"]

FewReports == {Plain("DOCKED"), Plain("CLEANING"), Plain("UNAVAILABLE")}
==============================================================================
