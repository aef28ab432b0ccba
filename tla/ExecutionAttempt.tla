--------------------------- MODULE ExecutionAttempt ---------------------------
(***************************************************************************)
(* One ExecutionAttempt - the persisted life of one physical start command *)
(* - and what RealExecutionBackend.async_progress makes of it each time    *)
(* the robot is observed.  The operators are pure: an attempt and an       *)
(* observation give the next attempt.                                      *)
(*                                                                         *)
(* The instants kept by the code (command intent, cancel request, runtime  *)
(* error, completion candidate) appear as ages: NoTimer when the instant   *)
(* is not set, else the ticks since then, counted up to Horizon.           *)
(***************************************************************************)
EXTENDS RobotObserver

CONSTANTS
  TargetType,       \* what the attempt asked for: "segment" or "zone"
  Roborock,         \* vendor = "roborock": the in_cleaning counter is trusted
  StartLimit,       \* ticks before an unconfirmed start times out
  CancelLimit,      \* ticks before an emergency cancel is given up
  ErrorLimit,       \* ticks a robot error may last
  GenericSettle, RoborockSettle, PostEmptySettle,  \* ticks of quiet
  Horizon           \* ages are not told apart beyond this one

ASSUME TargetTypeAssumption == TargetType \in {"segment", "zone"}
ASSUME VendorAssumption == Roborock \in BOOLEAN
ASSUME LimitAssumption ==
  /\ Horizon \in Nat \ {0}
  /\ {StartLimit, CancelLimit, ErrorLimit, GenericSettle, RoborockSettle, PostEmptySettle}
       \subseteq 1..Horizon

NoTimer == Horizon + 1
Ages == 0..Horizon + 1

\* Mutant: ages that are never capped.
OlderUncapped(age) == age + 1

Older(age) == IF age < Horizon THEN age + 1 ELSE age

\* A timer that is set and has run for at least the limit.
Due(age, limit) == age # NoTimer /\ age >= limit

Prestart == {"COMMAND_INTENT", "START_REQUESTED"}
Owned == {"RUNNING", "PAUSED", "ROBOT_SERVICE", "ROBOT_SERVICE_BLOCKED",
          "ROBOT_ERROR_BLOCKED", "COMPLETION_PENDING"}
TerminalAttemptStates == {"COMPLETED", "FAILED", "CANCELLED"}
AttemptStates ==
  {"PREPARING", "RECONCILING", "CANCEL_REQUESTED"}
    \cup Prestart \cup Owned \cup TerminalAttemptStates

AttemptReasons ==
  {"none", "vacuum_unavailable", "vacuum_busy", "resource", "vacuum_error",
   "power_supply_unavailable", "power_supply_lost", "user_cancelled",
   "execution_preparation_failed", "execution_failed", "execution_start_timeout",
   "execution_preempted_external", "robot_error_recovery_timeout",
   "resource_blocked_until_deadline", "deadline_expired"}

Attempts ==
  [state : AttemptStates, reason : AttemptReasons, final : BOOLEAN,
   intent : BOOLEAN, confirmed : BOOLEAN, powerCut : BOOLEAN,
   startAge : Ages, cancelAge : Ages, errorAge : Ages, quietAge : Ages,
   cleaningSeen : BOOLEAN, serviceSeen : BOOLEAN, emptySeen : BOOLEAN,
   floorDone : BOOLEAN, postService : BOOLEAN, postEmpty : BOOLEAN,
   blockedBefore : BOOLEAN]

\* build_attempt followed by the first statement of async_start.
NewAttempt(final) ==
  [state |-> "PREPARING", reason |-> "none", final |-> final,
   intent |-> FALSE, confirmed |-> FALSE, powerCut |-> FALSE,
   startAge |-> NoTimer, cancelAge |-> NoTimer, errorAge |-> NoTimer, quietAge |-> NoTimer,
   cleaningSeen |-> FALSE, serviceSeen |-> FALSE, emptySeen |-> FALSE,
   floorDone |-> FALSE, postService |-> FALSE, postEmpty |-> FALSE,
   blockedBefore |-> FALSE]

Terminal(a) == a.state \in TerminalAttemptStates

Aged(a) ==
  [a EXCEPT !.startAge = Older(@), !.cancelAge = Older(@),
            !.errorAge = Older(@), !.quietAge = Older(@)]

\* _finish: the result is recorded and an open error incident is closed.
Finish(a, state, reason) ==
  [a EXCEPT !.state = state, !.reason = reason, !.errorAge = NoTimer]

(***************************************************************************)
(* Evidence, gathered before any decision.                                 *)
(***************************************************************************)

ObservationState(o) ==
  CASE o.phase = "PAUSED" -> "PAUSED"
    [] o.phase = "SERVICE_BLOCKED" -> "ROBOT_SERVICE_BLOCKED"
    [] o.phase = "SERVICE" -> "ROBOT_SERVICE"
    [] OTHER -> "RUNNING"

LastCleanFinished(a, o) == a.confirmed /\ o.cleanEnd # "none"

PhysicallyFinished(a, o) ==
  \/ LastCleanFinished(a, o)
  \/ a.confirmed /\ Roborock /\ o.counter = "zero" /\ a.cleaningSeen

CleaningMarked(a, o) ==
  a.cleaningSeen \/ o.phase = "CLEANING" \/ o.task \in {"segment", "zone"}

FloorMarked(a, o) == a.floorDone \/ LastCleanFinished(a, o)

\* A dock service seen earlier counts as post-clean only if the reported end
\* of cleaning is not later than it.
Promoted(a, o) == a.confirmed /\ o.cleanEnd \in {"beforeEmptying", "beforeService"}

\* An emptying is dated apart from the service it is part of.
EmptyPromoted(a, o) == a.confirmed /\ o.cleanEnd = "beforeEmptying"

Serving(a, o) ==
  CleaningMarked(a, o) /\ (o.service \/ o.phase \in {"SERVICE", "SERVICE_BLOCKED"})

Marked(a, o) ==
  [a EXCEPT
     !.cleaningSeen = CleaningMarked(a, o),
     !.floorDone = FloorMarked(a, o),
     !.serviceSeen = @ \/ Serving(a, o),
     !.emptySeen = @ \/ (Serving(a, o) /\ o.autoEmpty),
     !.postService = @ \/ (Promoted(a, o) /\ a.serviceSeen)
                       \/ (FloorMarked(a, o) /\ Serving(a, o)),
     !.postEmpty = @ \/ (EmptyPromoted(a, o) /\ a.emptySeen)
                     \/ (FloorMarked(a, o) /\ Serving(a, o) /\ o.autoEmpty)]

Settle(a, o) ==
  IF a.postEmpty THEN PostEmptySettle
  ELSE IF Roborock /\ (o.counter = "zero" \/ a.floorDone) THEN RoborockSettle
  ELSE GenericSettle

StrongTerminal(a, o) ==
  a.floorDone /\ a.postService /\ o.phase = "IDLE" /\ ~o.active /\ ~o.service

\* sensor: a tank or consumable sensor configured for pre-flight reads False.
ResourceBlocked(o, sensor) ==
  /\ o.resource \/ sensor
  /\ \/ o.phase \in {"SERVICE", "SERVICE_BLOCKED"}
     \/ o.service
     \/ o.phase = "ERROR" /\ ~o.hardError

(***************************************************************************)
(* Decisions, one operator per situation.                                  *)
(***************************************************************************)

\* Mutant: an emergency cancel without a time limit.
CancellingUnlimited(a, o) ==
  IF o.phase = "UNAVAILABLE" \/ o.active THEN a
  ELSE Finish(a, IF a.powerCut THEN "FAILED" ELSE "CANCELLED", "user_cancelled")

Cancelling(a, o) ==
  LET overdue == a.powerCut /\ Due(a.cancelAge, CancelLimit)
      stopped == o.phase # "UNAVAILABLE" /\ ~o.active
  IN  IF ~overdue /\ ~stopped THEN a
      ELSE IF a.powerCut THEN Finish(a, "FAILED", "power_supply_lost")
      ELSE Finish(a, "CANCELLED", "user_cancelled")

\* Mutant: the error is noted, its recovery deadline is not set.
IncidentWithoutDeadline(a) ==
  [a EXCEPT !.state = "ROBOT_ERROR_BLOCKED", !.quietAge = NoTimer]

IncidentOpened(a) ==
  [a EXCEPT !.state = "ROBOT_ERROR_BLOCKED", !.quietAge = NoTimer,
            !.errorAge = IF @ = NoTimer THEN 0 ELSE @]

Erring(a) ==
  IF ~a.confirmed THEN Finish(a, "FAILED", "execution_failed")
  ELSE IF Due(a.errorAge, ErrorLimit) THEN Finish(IncidentOpened(a), "FAILED", "robot_error_recovery_timeout")
  ELSE IncidentOpened(a)

\* A dock that needs water or detergent holds a confirmed session, but cannot
\* undo a floor that is already cleaned.
Blocking(a, o) ==
  LET held == [a EXCEPT !.quietAge = NoTimer, !.errorAge = NoTimer]
  IN  IF PhysicallyFinished(a, o) /\ a.final
      THEN Finish([held EXCEPT !.floorDone = TRUE], "COMPLETED", "none")
      ELSE [held EXCEPT !.state = "ROBOT_SERVICE_BLOCKED",
                        !.blockedBefore = @ \/ a.state # "ROBOT_SERVICE_BLOCKED"]

Confirm(a, state) ==
  [a EXCEPT !.state = state, !.confirmed = TRUE, !.startAge = NoTimer]

Confirming(a, o, blocked) ==
  IF blocked /\ (o.active \/ o.service)
  THEN [Confirm(a, "ROBOT_SERVICE_BLOCKED") EXCEPT !.blockedBefore = TRUE]
  ELSE IF o.active /\ o.task \in {"none", TargetType} THEN Confirm(a, ObservationState(o))
  ELSE IF o.active THEN Finish(a, "FAILED", "execution_preempted_external")
  ELSE IF o.phase = "UNAVAILABLE" THEN [a EXCEPT !.state = "RECONCILING"]
  ELSE IF Due(a.startAge, StartLimit) THEN Finish(a, "FAILED", "execution_start_timeout")
  ELSE a

CandidateArmed(a) == [a EXCEPT !.state = "COMPLETION_PENDING", !.quietAge = 0]

Settled(a, o) == Due(a.quietAge, Settle(a, o))

\* Mutant: a candidate time left over from an earlier quiet spell counts.
StaleCandidate(a) == a.quietAge # NoTimer

\* Mutant: every quiet observation is the first one.
FreshCandidate(a) == a.state = "COMPLETION_PENDING" /\ a.quietAge = 0

CandidateRunning(a) == a.state = "COMPLETION_PENDING" /\ a.quietAge # NoTimer

Settling(a, o) ==
  LET completed == Finish([a EXCEPT !.blockedBefore = FALSE], "COMPLETED", "none")
      held == ~StrongTerminal(a, o) /\ a.blockedBefore
  IN  IF held /\ PhysicallyFinished(a, o)
      THEN CandidateArmed([a EXCEPT !.blockedBefore = FALSE])
      ELSE IF held THEN [a EXCEPT !.state = "ROBOT_SERVICE_BLOCKED"]
      ELSE IF ~CandidateRunning(a) THEN CandidateArmed(a)
      ELSE IF Settled(a, o) THEN completed
      ELSE a

Following(a, o) ==
  CASE o.phase = "UNAVAILABLE" -> [a EXCEPT !.state = "RECONCILING"]
    [] o.phase # "UNAVAILABLE" /\ o.active ->
         IF a.state = ObservationState(o) THEN a
         ELSE [a EXCEPT !.state = ObservationState(o), !.quietAge = NoTimer,
                        !.blockedBefore = @ /\ o.phase = "SERVICE_BLOCKED"]
    [] ~o.active /\ o.phase = "RETURNING" -> [a EXCEPT !.state = "ROBOT_SERVICE"]
    [] ~o.active /\ o.phase \in {"IDLE", "UNKNOWN"} -> Settling(a, o)
    [] OTHER -> a

Recovering(a, o) ==
  IF Due(a.errorAge, ErrorLimit) THEN Finish(a, "FAILED", "robot_error_recovery_timeout")
  ELSE IF o.active
  THEN [a EXCEPT !.state = ObservationState(o), !.errorAge = NoTimer, !.quietAge = NoTimer]
  ELSE IF a.floorDone THEN Following([a EXCEPT !.state = "RUNNING", !.errorAge = NoTimer], o)
  ELSE a

\* The decisions in the order async_progress takes them.
Decided(a, o, blocked) ==
  IF a.state = "CANCEL_REQUESTED" THEN Cancelling(a, o)
  ELSE IF o.phase = "ERROR" /\ ~blocked THEN Erring(a)
  ELSE IF blocked /\ a.confirmed THEN Blocking(a, o)
  ELSE IF a.state = "ROBOT_ERROR_BLOCKED" THEN Recovering(a, o)
  ELSE IF ~a.confirmed THEN Confirming(a, o, blocked)
  ELSE Following(a, o)

Progressed(a, o, sensor) ==
  IF Terminal(a) THEN a ELSE Decided(Marked(a, o), o, ResourceBlocked(o, sensor))

\* async_progress_job: a session still held by its dock at the deadline fails.
ProgressedByDeadline(a, o, sensor, expired) ==
  LET next == Progressed(a, o, sensor)
  IN  IF ~Terminal(a) /\ next.state = "ROBOT_SERVICE_BLOCKED" /\ expired
      THEN Finish(next, "FAILED", "resource_blocked_until_deadline")
      ELSE next
==============================================================================
