-------------------------- MODULE MCExecutionBackend --------------------------
(***************************************************************************)
(* A small instance of ExecutionBackend: the reports of a Roborock with a  *)
(* wash-and-empty dock.                                                    *)
(***************************************************************************)
EXTENDS ExecutionBackend

Plain(state) ==
  [normalized |-> state, status |-> "none", inCleaning |-> "none", resource |-> FALSE,
   hardError |-> FALSE, wash |-> FALSE, dust |-> FALSE, cleanEnd |-> "none"]

Docked == [Plain("DOCKED") EXCEPT !.inCleaning = "zero"]
DockedEarlyEnd == [Docked EXCEPT !.cleanEnd = "beforeService"]
DockedEarlyEmpty == [Docked EXCEPT !.cleanEnd = "beforeEmptying"]
Segment == [Plain("CLEANING") EXCEPT !.status = "segment", !.inCleaning = "active"]
Emptying == [Docked EXCEPT !.status = "emptying", !.cleanEnd = "afterService"]
Washing == [Docked EXCEPT !.status = "washing"]
ThirstyWash == [Washing EXCEPT !.resource = TRUE, !.inCleaning = "active"]
Faulty == [Plain("ERROR") EXCEPT !.hardError = TRUE]
Returning == [Plain("RETURNING") EXCEPT !.inCleaning = "zero"]
Gone == Plain("UNAVAILABLE")

RoborockReports ==
  {Docked, DockedEarlyEnd, DockedEarlyEmpty, Segment, Emptying, Washing, ThirstyWash, Faulty,
   Returning, Gone}
RoborockQuiet == {Docked, DockedEarlyEnd, DockedEarlyEmpty}
==============================================================================
