--------------------------- MODULE CommandBoundary ---------------------------
(***************************************************************************)
(* How one occurrence (a job with one cleaning zone and one pass) gets its *)
(* one physical start command, and what survives a crash.                  *)
(*                                                                         *)
(* Three activities share the job record in memory:                        *)
(*   the engine, under its lock: starting, observing, cancelling, saving;  *)
(*   the power emergency, a task that takes no lock;                       *)
(*   the store, which writes snapshots to disk in the order of the saves.  *)
(* Every await of the engine is a control point (pc): between two of them  *)
(* the emergency may change the job and the process may die.               *)
(***************************************************************************)
EXTENDS ExecutionAttempt

CONSTANTS
  Reports,      \* the raw reports the robot may make
  MaxCrashes    \* bound on the crashes of Home Assistant

ASSUME ReportsAssumption == Reports \subseteq RawReports
ASSUME CrashAssumption == MaxCrashes \in Nat

VARIABLES
  job,          \* the job in memory
  disk,         \* the job as the store last wrote it
  saves,        \* snapshots handed to the store and not yet written
  pc,           \* where the engine waits
  recovering,   \* startup recovery is not over
  emergency,    \* where the power emergency task waits
  latched,      \* the outage has already been answered
  power,        \* the live reading of the mains sensor
  expired,      \* the deadline of the occurrence has passed
  sent,         \* start commands handed to the robot for this occurrence
  crashes

memory == <<job, pc, recovering, emergency, latched>>
world == <<power, expired, crashes>>
vars == <<job, disk, saves, pc, recovering, emergency, latched, power, expired, sent, crashes>>

NoAttempt == [NewAttempt(TRUE) EXCEPT !.state = "NONE"]

ZoneStates == {"WAIT", "STARTING", "RUNNING", "FINISHED"}
ZoneReasons == AttemptReasons \cup {"execution_success", "user_skipped"}

Jobs ==
  [attempt : Attempts \cup {NoAttempt}, zone : ZoneStates, reason : ZoneReasons,
   interrupted : BOOLEAN]

Savers == {"engine", "emergency"}
Stations ==
  {"idle", "prepare", "muting", "barrier", "command", "finish", "unmuting", "save", "down"}

TypeOK ==
  /\ job \in Jobs
  /\ disk \in Jobs
  /\ saves \in Seq([by : Savers, image : Jobs])
  /\ pc \in Stations
  /\ recovering \in BOOLEAN
  /\ emergency \in {"idle", "commands", "saving"}
  /\ latched \in BOOLEAN
  /\ power \in {"on", "off", "unknown"}
  /\ expired \in BOOLEAN
  /\ sent \in Nat
  /\ crashes \in 0..MaxCrashes

Observation == [r \in Reports |-> Observe(r)]

Init ==
  /\ job = [attempt |-> NoAttempt, zone |-> "WAIT", reason |-> "none", interrupted |-> FALSE]
  /\ disk = job
  /\ saves = <<>>
  /\ pc = "idle"
  /\ recovering = FALSE
  /\ emergency = "idle"
  /\ latched = FALSE
  /\ power \in {"on", "unknown"}
  /\ expired = FALSE
  /\ sent = 0
  /\ crashes = 0

-----------------------------------------------------------------------------
(* The job record *)

Active(a) == a.state # "NONE" /\ ~Terminal(a)

ZoneFinished(j, reason) ==
  IF j.zone = "FINISHED" THEN j ELSE [j EXCEPT !.zone = "FINISHED", !.reason = reason]

\* _sync_attempt_to_zones: the zone follows the attempt.
Synced(j) ==
  CASE j.zone = "FINISHED" -> j
    [] j.zone # "FINISHED" /\ j.attempt.state = "COMPLETED" -> ZoneFinished(j, "execution_success")
    [] j.zone # "FINISHED" /\ j.attempt.state \in {"FAILED", "CANCELLED"} ->
         ZoneFinished(j, j.attempt.reason)
    [] j.zone # "FINISHED" /\ j.attempt.state \in {"PREPARING"} \cup Prestart ->
         [j EXCEPT !.zone = "STARTING"]
    [] j.zone # "FINISHED" /\ j.attempt.confirmed /\ j.attempt.state \in Owned \cup {"RECONCILING", "CANCEL_REQUESTED"} ->
         [j EXCEPT !.zone = "RUNNING"]
    [] OTHER -> j

\* Reasons for which preflight would have let the job wait.
RetryableReasons == {"vacuum_busy", "vacuum_unavailable", "power_supply_unavailable", "resource"}

RetryablePrecommandWait(a) ==
  a.state = "FAILED" /\ ~a.intent /\ a.reason \in RetryableReasons

Deferred(j) ==
  [j EXCEPT !.attempt = NoAttempt, !.zone = IF @ = "FINISHED" THEN @ ELSE "WAIT"]

\* Does async_progress report a change that the reconcile has to save?
Reported(a, b) ==
  /\ [b EXCEPT !.cleaningSeen = a.cleaningSeen] # a
  /\ ~(a.state = b.state /\ a.state \in Prestart \cup {"RECONCILING", "CANCEL_REQUESTED"})

-----------------------------------------------------------------------------
(* The store *)

Save(by, image) == saves' = Append(saves, [by |-> by, image |-> image])
Saved(by) == \A i \in DOMAIN saves : saves[i].by # by

Flush ==
  /\ saves # <<>>
  /\ disk' = Head(saves).image
  /\ saves' = Tail(saves)
  /\ UNCHANGED <<memory, world, sent>>

\* The engine is about to leave its lock: memory is saved.
SaveAndRelease(j) ==
  /\ job' = j
  /\ Save("engine", j)
  /\ pc' = "save"

SaveDone ==
  /\ pc = "save" /\ Saved("engine")
  /\ pc' = "idle"
  /\ recovering' = FALSE
  /\ UNCHANGED <<job, disk, saves, emergency, latched, world, sent>>

-----------------------------------------------------------------------------
(* Starting: async_start, from the arbiter's choice to the answer *)

BeginStart ==
  /\ pc = "idle" /\ job.zone = "WAIT" /\ ~job.interrupted /\ ~expired
  /\ power = "on"
  /\ job' = [job EXCEPT !.attempt = NewAttempt(TRUE), !.zone = "STARTING"]
  /\ pc' = "prepare"
  /\ UNCHANGED <<disk, saves, recovering, emergency, latched, world, sent>>

FinalGuard(o) ==
  IF o.phase = "UNAVAILABLE" THEN "vacuum_unavailable"
  ELSE IF o.resource THEN "resource"
  ELSE IF o.phase = "ERROR" THEN "vacuum_error"
  ELSE IF o.active \/ o.phase = "RETURNING" THEN "vacuum_busy"
  ELSE "none"

\* The speaker is muted while parameters are written; its volume is saved first.
MuteForPrepare ==
  /\ pc = "prepare"
  /\ Save("engine", job)
  /\ pc' = "muting"
  /\ UNCHANGED <<job, disk, recovering, emergency, latched, world, sent>>

Preparing == pc = "prepare" \/ (pc = "muting" /\ Saved("engine"))

FailBeforeCommand(a, reason) ==
  /\ job' = [job EXCEPT !.attempt = Finish(a, "FAILED", reason)]
  /\ pc' = "finish"
  /\ UNCHANGED <<disk, saves, recovering, emergency, latched, world, sent>>

\* A final guard, or the validation or preparation it surrounds, refuses.
PrepareFails(r) ==
  /\ Preparing
  /\ \E reason \in {FinalGuard(Observation[r]), "execution_preparation_failed"} \ {"none"} :
       FailBeforeCommand(job.attempt, reason)

PowerRefusesIntent ==
  /\ Preparing /\ power # "on"
  /\ FailBeforeCommand(job.attempt, "power_supply_unavailable")

\* Mutant: the intent is stamped, the state stays PREPARING.
WithIntentUnmarked(a) == [a EXCEPT !.intent = TRUE, !.startAge = 0]

WithIntent(a) == [a EXCEPT !.state = "COMMAND_INTENT", !.intent = TRUE, !.startAge = 0]

WriteIntent(r) ==
  /\ Preparing /\ power = "on" /\ FinalGuard(Observation[r]) = "none"
  /\ job' = [job EXCEPT !.attempt = WithIntent(@)]
  /\ Save("engine", job')
  /\ pc' = "barrier"
  /\ UNCHANGED <<disk, recovering, emergency, latched, world, sent>>

\* Mutant: the start does not wait for the intent to be written.
BarrierSkipped == pc = "barrier"

BarrierPassed == pc = "barrier" /\ Saved("engine")

PowerRefusesCommand ==
  /\ BarrierPassed /\ power # "on"
  /\ FailBeforeCommand([job.attempt EXCEPT !.intent = FALSE], "power_supply_unavailable")

SendStart ==
  /\ BarrierPassed /\ power = "on"
  /\ sent' = sent + 1
  /\ pc' = "command"
  /\ UNCHANGED <<job, disk, saves, recovering, emergency, latched, world>>

\* The answer, or an exception that may hide an accepted command.
CommandAnswered(state) ==
  /\ pc = "command"
  /\ SaveAndRelease(Synced([job EXCEPT !.attempt.state = state]))
  /\ UNCHANGED <<disk, recovering, emergency, latched, world, sent>>

\* _finish: parameters and volume are restored under their own save.
MuteForRestore ==
  /\ pc = "finish"
  /\ Save("engine", job)
  /\ pc' = "unmuting"
  /\ UNCHANGED <<job, disk, recovering, emergency, latched, world, sent>>

FinishDone ==
  /\ pc = "finish" \/ (pc = "unmuting" /\ Saved("engine"))
  /\ SaveAndRelease(IF RetryablePrecommandWait(job.attempt) /\ ~recovering
                    THEN Deferred(job) ELSE Synced(job))
  /\ UNCHANGED <<disk, recovering, emergency, latched, world, sent>>

-----------------------------------------------------------------------------
(* The rest of the engine's work on the job *)

Observed(next) ==
  LET j == [job EXCEPT !.attempt = next]
  IN  IF Terminal(next)
      THEN job' = j /\ pc' = "finish" /\ UNCHANGED saves
      ELSE IF Reported(job.attempt, next) \/ Synced(j).zone # job.zone
      THEN SaveAndRelease(Synced(j))
      ELSE job' = j /\ UNCHANGED <<saves, pc>>

Progress(r, sensor) ==
  /\ pc = "idle" /\ Active(job.attempt)
  /\ Observed(ProgressedByDeadline(job.attempt, Observation[r], sensor, expired))
  /\ UNCHANGED <<disk, recovering, emergency, latched, world, sent>>

UserCancel ==
  /\ pc = "idle" /\ job.zone \in {"STARTING", "RUNNING"}
  /\ Active(job.attempt) /\ job.attempt.state # "CANCEL_REQUESTED"
  /\ SaveAndRelease([job EXCEPT !.attempt.state = "CANCEL_REQUESTED", !.attempt.cancelAge = 0])
  /\ UNCHANGED <<disk, recovering, emergency, latched, world, sent>>

\* What ends an occurrence that waits: the user, its deadline, or an outage
\* that met it while it was being started.
CloseWaiting ==
  /\ pc = "idle" /\ job.zone = "WAIT"
  /\ \/ SaveAndRelease(ZoneFinished(job, "user_skipped"))
     \/ job.interrupted /\ SaveAndRelease(ZoneFinished(job, "power_supply_lost"))
     \/ expired /\ ~job.interrupted /\ SaveAndRelease(ZoneFinished(job, "deadline_expired"))
  /\ UNCHANGED <<disk, recovering, emergency, latched, world, sent>>

-----------------------------------------------------------------------------
(* The power emergency *)

PowerMarked(j) ==
  [j EXCEPT !.interrupted = TRUE,
            !.attempt.state = "CANCEL_REQUESTED",
            !.attempt.powerCut = TRUE,
            !.attempt.cancelAge = IF @ = NoTimer THEN 0 ELSE @]

\* _request_power_emergency and the synchronous start of the task it creates.
\* An answered outage is answered again only if the robot is seen moving.
PowerEmergency(r) ==
  /\ pc # "down" /\ ~recovering /\ emergency = "idle" /\ power = "off"
  /\ Active(job.attempt)
  /\ latched => Observation[r].phase \notin {"RETURNING", "SERVICE", "SERVICE_BLOCKED", "IDLE"}
  /\ job' = PowerMarked(job)
  /\ emergency' = "commands"
  /\ latched' = TRUE
  /\ UNCHANGED <<disk, saves, pc, recovering, world, sent>>

EmergencyCommandsDone ==
  /\ emergency = "commands"
  /\ Save("emergency", job)
  /\ emergency' = "saving"
  /\ UNCHANGED <<job, disk, pc, recovering, latched, world, sent>>

EmergencyOver ==
  /\ emergency = "saving" /\ Saved("emergency")
  /\ emergency' = "idle"
  /\ UNCHANGED <<job, disk, saves, pc, recovering, latched, world, sent>>

PowerReads(reading) ==
  /\ power' = reading
  /\ latched' = (latched /\ reading # "on")
  /\ UNCHANGED <<job, disk, saves, pc, recovering, emergency, expired, sent, crashes>>

-----------------------------------------------------------------------------
(* Time, crash and restart *)

AgedJob(j) == [j EXCEPT !.attempt = Aged(@)]

Tick ==
  /\ job' = AgedJob(job)
  /\ disk' = AgedJob(disk)
  /\ saves' = [i \in DOMAIN saves |-> [saves[i] EXCEPT !.image = AgedJob(@)]]
  /\ UNCHANGED <<pc, recovering, emergency, latched, world, sent>>

DeadlinePasses ==
  /\ ~expired
  /\ expired' = TRUE
  /\ UNCHANGED <<memory, disk, saves, power, sent, crashes>>

Crash ==
  /\ pc # "down" /\ crashes < MaxCrashes
  /\ job' = disk
  /\ saves' = <<>>
  /\ pc' = "down"
  /\ recovering' = FALSE
  /\ emergency' = "idle"
  /\ latched' = FALSE
  /\ crashes' = crashes + 1
  /\ UNCHANGED <<disk, power, expired, sent>>

\* async_recover_job.  Only an attempt that provably never reached the command
\* boundary is started again; any other is observed.
Recover(r, sensor) ==
  /\ pc = "down"
  /\ recovering' = TRUE
  /\ LET a == job.attempt
         j(next) == [job EXCEPT !.attempt = next]
         next == Progressed(a, Observation[r], sensor)
     IN  CASE a.state = "NONE" -> SaveAndRelease(job)
           [] a.state = "PREPARING" /\ ~expired -> pc' = "prepare" /\ UNCHANGED <<job, saves>>
           [] a.state = "PREPARING" /\ expired ->
                /\ job' = j(Finish(a, "FAILED", "deadline_expired"))
                /\ pc' = "finish"
                /\ UNCHANGED saves
           [] Terminal(a) -> pc' = "finish" /\ UNCHANGED <<job, saves>>
           [] Active(a) /\ a.state # "PREPARING" ->
                IF Terminal(next) THEN job' = j(next) /\ pc' = "finish" /\ UNCHANGED saves
                ELSE SaveAndRelease(Synced(j(next)))
  /\ UNCHANGED <<disk, emergency, latched, world, sent>>

-----------------------------------------------------------------------------
Engine ==
  \/ BeginStart
  \/ MuteForPrepare
  \/ \E r \in Reports : PrepareFails(r)
  \/ PowerRefusesIntent
  \/ \E r \in Reports : WriteIntent(r)
  \/ PowerRefusesCommand
  \/ SendStart
  \/ \E state \in {"START_REQUESTED", "RECONCILING"} : CommandAnswered(state)
  \/ MuteForRestore
  \/ FinishDone
  \/ SaveDone
  \/ \E r \in Reports, sensor \in BOOLEAN : Progress(r, sensor)
  \/ UserCancel
  \/ CloseWaiting

Emergency ==
  \/ \E r \in Reports : PowerEmergency(r)
  \/ EmergencyCommandsDone
  \/ EmergencyOver

Environment ==
  \/ \E reading \in {"on", "off", "unknown"} : PowerReads(reading)
  \/ Tick
  \/ DeadlinePasses
  \/ Crash
  \/ \E r \in Reports, sensor \in BOOLEAN : Recover(r, sensor)

Next == Engine \/ Emergency \/ Flush \/ Environment

Spec == Init /\ [][Next]_vars

-----------------------------------------------------------------------------
\* The promise of the command-intent barrier: however crashes, outages and
\* deferrals interleave with a start, the occurrence gets one start command.
AtMostOneStart == sent <= 1

\* A command that may have reached the robot is on disk as an intent, in a
\* state from which startup recovery only observes.
Committed(j) == j.attempt.intent /\ j.attempt.state \notin {"PREPARING", "NONE"}

StartedIsDurable == sent > 0 => Committed(disk)

\* An occurrence that was put back to wait, by a late blocker or a lost crash
\* window, was never started: waiting is the licence to start it later.
WaitingWasNotStarted == job.zone = "WAIT" => sent = 0

\* A result once written is never overwritten by an older snapshot, by the
\* emergency's save or by what recovery makes of it.
DurableOutcome ==
  [][disk.zone = "FINISHED" => disk'.zone = "FINISHED" /\ disk'.reason = disk.reason]_vars

\* What the abstract start protocol sees of the disk.
Promise ==
  INSTANCE StartOnce WITH
    status <- IF disk.zone = "FINISHED" THEN "closed"
              ELSE IF disk.attempt.intent THEN "committed" ELSE "open",
    sent <- sent

\* The boundary implements the abstract protocol: a start is sent only while
\* its commitment is on disk, and a sent start is never taken back.
KeepsPromise == Promise!Spec

\* docs/en/POWER_MONITORING.md: no further passes or zones start for the
\* interrupted job.
NoStartAfterInterruption == [][sent' > sent => ~job.interrupted]_vars

\* docs/en/POWER_MONITORING.md: the event is recorded as power_supply_lost for
\* scheduler-owned sessions.
InterruptionIsRecorded ==
  job.zone = "FINISHED" /\ job.interrupted /\ sent = 1 => job.reason = "power_supply_lost"

\* execution_manager.py: a late state change before the command intent must
\* defer the job, never consume it as a failed execution.
LateBlockerDefers ==
  job.zone = "FINISHED" /\ ~job.attempt.intent => job.reason \notin RetryableReasons

\* docs/en/README.md: recoverable blockers do not consume an occurrence before
\* the command-intent boundary; an outage met while preparing is one of them.
OutageWhilePreparingDefers ==
  job.zone = "FINISHED" /\ job.attempt.state = "NONE" => job.reason # "power_supply_lost"

-----------------------------------------------------------------------------
\* Whatever the robot reports and a sensor reads, it changes the attempt: only
\* then is the watchdog's observation bound to, for the robot may go on
\* reporting what changes nothing.
Unavoidable ==
  \A r \in Reports, sensor \in BOOLEAN :
    ProgressedByDeadline(job.attempt, Observation[r], sensor, expired) # job.attempt

\* External calls return, the store writes, the watchdog observes, the clock
\* runs and a dead process is restarted; robot, user and mains owe nothing.
Fairness ==
  /\ WF_vars(Flush)
  /\ WF_vars(Unavoidable /\ \E r \in Reports, sensor \in BOOLEAN : Progress(r, sensor))
  /\ WF_vars(FinishDone)
  /\ WF_vars(SaveDone)
  /\ WF_vars(\E r \in Reports, sensor \in BOOLEAN : Recover(r, sensor))
  /\ WF_vars(Tick)

FairSpec == Spec /\ Fairness

PowerCancelPending ==
  /\ pc = "idle" /\ saves = <<>>
  /\ \A j \in {job, disk} : j.attempt.state = "CANCEL_REQUESTED" /\ j.attempt.powerCut

\* Once an emergency cancel is durable and the engine is out of the start
\* protocol, the occurrence is closed on disk, through crashes and whatever
\* the robot reports.
PowerCancelResolves == PowerCancelPending ~> (disk.zone = "FINISHED")
==============================================================================
