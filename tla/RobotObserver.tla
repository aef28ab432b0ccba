---------------------------- MODULE RobotObserver ----------------------------
(***************************************************************************)
(* How execution_observer.py turns what Home Assistant reports about the   *)
(* robot into one observation: a physical phase, whether a session is      *)
(* active, and which task it is.  Everything here is a pure operator.      *)
(*                                                                         *)
(* A raw report is a record                                                *)
(*   normalized  the normalized vacuum state                               *)
(*   status      the class of the vendor status word ("none" when there is *)
(*               no word or one the observer has no table for)             *)
(*   inCleaning  the in_cleaning counter: "none", "zero" or "active"       *)
(*   resource    an error word was recognised as a water/detergent blocker *)
(*   hardError   an error word is left that is not such a blocker          *)
(*   wash, dust  a wash or dust-collection diagnostic is active            *)
(*   cleanEnd    where the last_clean_end diagnostic lies: "none" when it  *)
(*               is absent or older than the session under observation,    *)
(*               else before the latest emptying seen in it, between that  *)
(*               and the latest dock service of any kind, or after both    *)
(***************************************************************************)
EXTENDS Naturals, Sequences

NormalizedStates ==
  {"DOCKED", "IDLE", "CLEANING", "PAUSED", "RETURNING", "ERROR", "UNAVAILABLE", "UNKNOWN"}

StatusClasses == {"none", "segment", "zone", "other", "washing", "emptying"}

RawReports ==
  [normalized : NormalizedStates, status : StatusClasses,
   inCleaning : {"none", "zero", "active"}, resource : BOOLEAN, hardError : BOOLEAN,
   wash : BOOLEAN, dust : BOOLEAN,
   cleanEnd : {"none", "beforeEmptying", "beforeService", "afterService"}]

Phases ==
  {"IDLE", "CLEANING", "PAUSED", "SERVICE", "SERVICE_BLOCKED", "RETURNING",
   "ERROR", "UNAVAILABLE", "UNKNOWN"}

SessionPhases == {"CLEANING", "PAUSED", "SERVICE", "SERVICE_BLOCKED"}

AutoEmptyActive(r) == r.status = "emptying" \/ r.dust

ServiceActive(r) == r.status \in {"washing", "emptying"} \/ AutoEmptyActive(r) \/ r.wash

\* The counter says a job is suspended rather than over.
CounterActive(r) == r.inCleaning = "active"

TaskKind(r) == IF r.status \in {"segment", "zone", "other"} THEN r.status ELSE "none"

\* The classification is a table read from the top: the first condition that
\* holds decides.
PhaseTable(r) ==
  << <<r.normalized = "UNAVAILABLE", "UNAVAILABLE">>,
     <<r.resource /\ (ServiceActive(r) \/ CounterActive(r)), "SERVICE_BLOCKED">>,
     <<r.hardError \/ (r.normalized = "ERROR" /\ ~r.resource), "ERROR">>,
     <<ServiceActive(r), "SERVICE">>,
     <<TaskKind(r) # "none", "CLEANING">>,
     <<r.normalized = "PAUSED", "PAUSED">>,
     <<r.normalized \in {"RETURNING", "DOCKED", "IDLE"} /\ CounterActive(r), "SERVICE">>,
     <<r.normalized = "RETURNING", "RETURNING">>,
     <<r.normalized \in {"DOCKED", "IDLE"}, "IDLE">>,
     <<r.normalized = "CLEANING", "CLEANING">>,
     <<TRUE, "UNKNOWN">> >>

Phase(r) ==
  LET holds == {i \in DOMAIN PhaseTable(r) : PhaseTable(r)[i][1]}
      first == CHOOSE i \in holds : \A j \in holds : i <= j
  IN  PhaseTable(r)[first][2]

Observe(r) ==
  [phase     |-> Phase(r),
   active    |-> Phase(r) \in SessionPhases \/ CounterActive(r),
   service   |-> ServiceActive(r),
   autoEmpty |-> AutoEmptyActive(r),
   resource  |-> r.resource,
   hardError |-> r.hardError,
   task      |-> TaskKind(r),
   counter   |-> r.inCleaning,
   cleanEnd  |-> r.cleanEnd]
==============================================================================
