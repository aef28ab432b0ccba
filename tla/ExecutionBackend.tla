--------------------------- MODULE ExecutionBackend ---------------------------
(***************************************************************************)
(* One REAL attempt after its start command was issued: the robot reports  *)
(* what it likes, the scheduler observes it from time to time, time        *)
(* passes, the user may cancel and mains power may fail.  Observation,     *)
(* and nothing else, decides when the attempt ends.                        *)
(***************************************************************************)
EXTENDS ExecutionAttempt

CONSTANTS
  Reports,          \* the raw reports the robot may make
  QuietReports      \* those of a robot that has stopped and stays so

ASSUME ReportsAssumption == Reports \subseteq RawReports
ASSUME QuietAssumption ==
  /\ QuietReports \subseteq Reports
  /\ \A r \in QuietReports :
       Observe(r).phase \in {"IDLE", "UNKNOWN"} /\ ~Observe(r).active /\ ~Observe(r).service

VARIABLES
  attempt,
  robot,      \* the robot's current report
  sensor,     \* a configured tank or consumable sensor reads False
  expired,    \* the deadline of the job has passed
  quietFor,   \* history: age of the current unbroken run of quiet observations
  heldDry     \* history: the dock held the session before any cleaning was seen

history == <<quietFor, heldDry>>
vars == <<attempt, robot, sensor, expired, quietFor, heldDry>>

\* What the observer makes of each report.
Observation == [r \in Reports |-> Observe(r)]

o == Observation[robot]

TypeOK ==
  /\ attempt \in Attempts
  /\ robot \in Reports
  /\ sensor \in BOOLEAN
  /\ expired \in BOOLEAN
  /\ quietFor \in Ages
  /\ heldDry \in BOOLEAN

\* async_start has returned: the command was answered, or its answer was lost.
Init ==
  /\ \E state \in {"START_REQUESTED", "RECONCILING"}, final \in BOOLEAN :
       attempt = [NewAttempt(final) EXCEPT !.state = state, !.intent = TRUE, !.startAge = 0]
  /\ robot \in Reports
  /\ sensor = FALSE
  /\ expired = FALSE
  /\ quietFor = NoTimer
  /\ heldDry = FALSE

Quiet == o.phase \in {"IDLE", "UNKNOWN"} /\ ~o.active /\ ~ResourceBlocked(o, sensor)

Progress ==
  /\ ~Terminal(attempt)
  /\ attempt' = ProgressedByDeadline(attempt, o, sensor, expired)
  /\ quietFor' = IF ~Quiet THEN NoTimer ELSE IF quietFor = NoTimer THEN 0 ELSE quietFor
  /\ heldDry' = (heldDry \/ (attempt'.state = "ROBOT_SERVICE_BLOCKED" /\ ~attempt'.cleaningSeen))
  /\ UNCHANGED <<robot, sensor, expired>>

\* async_cancel; the stop command it sends may fail without any effect here.
UserCancel ==
  /\ ~Terminal(attempt) /\ attempt.state # "CANCEL_REQUESTED"
  /\ attempt' = [attempt EXCEPT !.state = "CANCEL_REQUESTED", !.cancelAge = 0]
  /\ UNCHANGED <<robot, sensor, expired, history>>

\* The marks _async_emergency_power_loss puts on the attempts in flight.
PowerMarked(a) ==
  [a EXCEPT !.state = "CANCEL_REQUESTED", !.powerCut = TRUE,
            !.cancelAge = IF @ = NoTimer THEN 0 ELSE @]

PowerLoss ==
  /\ ~Terminal(attempt)
  /\ attempt' = PowerMarked(attempt)
  /\ UNCHANGED <<robot, sensor, expired, history>>

RobotReports(r) ==
  /\ robot' = r
  /\ UNCHANGED <<attempt, sensor, expired, history>>

SensorReads(blocked) ==
  /\ sensor' = blocked
  /\ UNCHANGED <<attempt, robot, expired, history>>

DeadlinePasses ==
  /\ ~expired
  /\ expired' = TRUE
  /\ UNCHANGED <<attempt, robot, sensor, history>>

Tick ==
  /\ attempt' = Aged(attempt)
  /\ quietFor' = Older(quietFor)
  /\ UNCHANGED <<robot, sensor, expired, heldDry>>

Next ==
  \/ Progress
  \/ UserCancel
  \/ PowerLoss
  \/ \E r \in Reports : RobotReports(r)
  \/ \E blocked \in BOOLEAN : SensorReads(blocked)
  \/ DeadlinePasses
  \/ Tick

Spec == Init /\ [][Next]_vars

\* The periodic timer observes the attempt, the clock runs and the deadline
\* comes; the robot, the user and the mains owe nothing.
Fairness == WF_vars(Progress) /\ WF_vars(Tick) /\ WF_vars(DeadlinePasses)

FairSpec == Spec /\ Fairness

-----------------------------------------------------------------------------
\* Every waiting state that only a timer can end has that timer running: an
\* attempt that waits for a start, for an error to clear or for the dock to
\* settle cannot be stranded by a clock that was never set or was cleared by
\* another branch of async_progress.
TimersArmed ==
  /\ attempt.state \in Prestart => attempt.startAge # NoTimer
  /\ attempt.state = "RECONCILING" => (attempt.confirmed \/ attempt.startAge # NoTimer)
  /\ attempt.state = "ROBOT_ERROR_BLOCKED" <=>
       (attempt.errorAge # NoTimer /\ attempt.state # "CANCEL_REQUESTED")
  /\ attempt.state = "COMPLETION_PENDING" => attempt.quietAge # NoTimer
  /\ attempt.state = "CANCEL_REQUESTED" => attempt.cancelAge # NoTimer

\* Ownership is never assumed: only an attempt whose session was observed is
\* followed, completed, error-blocked or service-blocked.
OwnedOnlyIfConfirmed ==
  attempt.state \in Owned \cup {"COMPLETED"} => attempt.confirmed

Completes == attempt.state # "COMPLETED" /\ attempt'.state = "COMPLETED"

\* An attempt completes either because its last floor is known to be clean and
\* the dock waits for water, or after the whole settle time during which every
\* single observation was quiet: no session, wash, emptying, return, outage of
\* the report or error in between may leave an old candidate time in force.
CompletesOnlyAfterQuiet ==
  [][Completes =>
       \/ ResourceBlocked(o, sensor) /\ attempt'.final /\ attempt'.floorDone
       \/ Quiet /\ Due(quietFor, Settle(attempt', o))]_vars

\* What the comments of _physical_cleaning_finished and of the service-blocked
\* branch say: a dock that blocked the session before it cleaned anything is
\* not mistaken for success, the attempt is kept until cleaning resumes.
PreCleanBlockIsNotSuccess ==
  [][Completes /\ heldDry => attempt'.cleaningSeen \/ attempt'.floorDone]_vars

\* Once cancelled, an attempt only waits or ends, and never as a success.
CancelIsFinal ==
  [][attempt.state = "CANCEL_REQUESTED" =>
       attempt'.state \in {"CANCEL_REQUESTED", "CANCELLED", "FAILED"}]_vars

\* A power emergency ends within its time limit whatever the robot reports,
\* even if it is never heard of again, and no robot error holds the attempt
\* (and the scheduler's lease) for ever.
IncidentsResolve ==
  /\ attempt.powerCut ~> Terminal(attempt)
  /\ attempt.state = "ROBOT_ERROR_BLOCKED" ~> attempt.state # "ROBOT_ERROR_BLOCKED"

\* Once the robot has stopped for good the attempt ends.
QuietResolves == <>[](robot \in QuietReports) => <>Terminal(attempt)
==============================================================================
