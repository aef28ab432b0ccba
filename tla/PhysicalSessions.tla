-------------------------- MODULE PhysicalSessions --------------------------
(***************************************************************************)
(* What the integration writes down about the robot without having asked   *)
(* for it: cleanings somebody else started (external_execution.py) and the *)
(* charging of its battery (charging_statistics.py).  Both keep a session  *)
(* in memory, save it now and then, and turn it into a row when it ends,   *)
(* while the robot goes on, the Scheduler starts cleanings of its own, and *)
(* Home Assistant stops, dies and comes back.                              *)
(*                                                                         *)
(* An observation is the robot's status; its metrics are left out.  The    *)
(* physical truth (which run, whose) is known to the model only.           *)
(***************************************************************************)
EXTENDS Integers, Sequences, FiniteSets, Functions

CONSTANTS
  Floor,        \* statuses that tell of floor work: of "mopping", "sweeping", "cleaning"
  Grace,        \* observed silence that completes a session (_COMPLETION_GRACE)
  Full,         \* battery at 100 %
  MaxRuns, MaxMishaps, MaxDrops     \* bounds; a mishap: robot hidden or failing, mains lost, stop, crash

ASSUME SessionsAssumption ==
  /\ Floor \subseteq {"mopping", "sweeping", "cleaning"} /\ Floor # {}
  /\ {Grace, Full, MaxRuns, MaxMishaps, MaxDrops} \subseteq Nat

VARIABLES
  up,         \* Home Assistant runs; boots so far
  boots,
  robot,      \* status, in a run or not, seen by Home Assistant, has reported an end of a cleaning
  runs,       \* who started each physical run
  owned,      \* a REAL attempt of the Scheduler is not terminal
  tracker,    \* ExternalExecutionTracker: session and prebuffer, in memory
  jobs,       \* external jobs archived, in memory
  pc,         \* the reconcile that holds the lock
  alarm,      \* an emergency marked the session and has still to save it
  battery,    \* level, on the dock or not, seen
  charging,   \* ChargingStatistics: active segment and completed sessions, in memory
  stored,       \* the three files
  truth       \* history: runs excused, interrupted, noticed and lost; bounds

sessionVars == <<up, boots, robot, runs, owned, tracker, jobs, pc, alarm, battery, charging, stored, truth>>
cleaning == <<robot, runs, owned, tracker, jobs, pc, alarm>>
charge == <<battery, charging>>

NoSession == <<>>
NoReconcile == [step |-> "idle", job |-> <<>>]

SessionsInit ==
  /\ up = TRUE /\ boots = 1
  /\ robot = [status |-> "idle", inRun |-> FALSE, seen |-> TRUE, ended |-> FALSE]
  /\ runs = <<>> /\ owned = FALSE
  /\ tracker = [session |-> NoSession, before |-> {}]
  /\ jobs = <<>> /\ pc = NoReconcile /\ alarm = FALSE
  /\ battery = [level |-> Full - 2, docked |-> TRUE, seen |-> TRUE]
  /\ charging = [active |-> <<>>, sessions |-> {}]
  /\ stored = [session |-> NoSession, jobs |-> <<>>, charging |-> charging]
  /\ truth = [excused |-> {}, interrupted |-> {}, noticed |-> {}, lost |-> {},
              mishaps |-> 0, drops |-> 0]

-----------------------------------------------------------------------------
\* The robot

ThisRun == Len(runs)

RobotMoves(r) ==
  /\ robot' = r
  /\ UNCHANGED <<up, boots, owned, tracker, jobs, pc, alarm, charge, stored>>

OutsideStarts ==
  /\ ~robot.inRun /\ Len(runs) < MaxRuns
  /\ \E s \in Floor : RobotMoves([robot EXCEPT !.status = s, !.inRun = TRUE])
  /\ runs' = Append(runs, "outside")
  /\ UNCHANGED truth

RunGoesOn ==
  /\ robot.inRun
  /\ \E s \in (Floor \cup {"paused", "washing", "error"}) \ {robot.status} :
       /\ RobotMoves([robot EXCEPT !.status = s])
       /\ IF s # "error" THEN UNCHANGED truth
          ELSE /\ truth.mishaps < MaxMishaps
               /\ truth' = [truth EXCEPT !.mishaps = @ + 1, !.interrupted = @ \cup {ThisRun}]
  /\ UNCHANGED runs

RunEnds ==
  /\ robot.inRun /\ robot.status # "error"
  /\ \E s \in {"returning", "washing", "idle"} :
       RobotMoves([robot EXCEPT !.status = s, !.inRun = FALSE, !.ended = TRUE])
  /\ UNCHANGED <<runs, truth>>

\* Between runs: it reaches the dock, washes its mop there, maps the floor.
BetweenRuns ==
  /\ ~robot.inRun
  /\ \E s \in IF robot.status = "idle" THEN {"washing", "mapping"} ELSE {"idle"} :
       RobotMoves([robot EXCEPT !.status = s])
  /\ UNCHANGED <<runs, truth>>

HidesOrShows ==
  /\ robot.seen => truth.mishaps < MaxMishaps
  /\ RobotMoves([robot EXCEPT !.seen = ~@])
  /\ truth' = IF robot.seen
              THEN [truth EXCEPT !.mishaps = @ + 1,
                                 !.interrupted = IF robot.inRun THEN @ \cup {ThisRun} ELSE @]
              ELSE truth
  /\ UNCHANGED runs

-----------------------------------------------------------------------------
\* The Scheduler's own cleanings

\* The command is sent while the reconcile that observed the robot goes on
\* (async_final_guard looks at the robot once more).
SchedulerStarts ==
  /\ pc.step = "arbitrate" /\ ~owned /\ Len(runs) < MaxRuns
  /\ robot.seen /\ robot.status = "idle" /\ ~robot.inRun
  /\ owned' = TRUE
  /\ runs' = Append(runs, "scheduler")
  /\ \E s \in Floor : robot' = [robot EXCEPT !.status = s, !.inRun = TRUE]
  /\ truth' = IF tracker.session # NoSession /\ tracker.session[1].silent < 0
              THEN [truth EXCEPT !.excused = @ \cup {ThisRun + 1}] ELSE truth
  /\ UNCHANGED <<up, boots, tracker, jobs, pc, alarm, charge, stored>>

\* The attempt ends with its run, or is given up before.
AttemptEnds ==
  /\ up /\ owned /\ pc.step = "idle" /\ owned' = FALSE
  /\ truth' = IF robot.inRun THEN [truth EXCEPT !.excused = @ \cup {ThisRun}] ELSE truth
  /\ UNCHANGED <<up, boots, robot, runs, tracker, jobs, pc, alarm, charge, stored>>

-----------------------------------------------------------------------------
\* Observation of a cleaning

Status == IF robot.seen THEN robot.status ELSE "unavailable"

\* _cleaning_evidence: mapping is a cleaning phase and no cleaning.
Cleans == Status \in Floor

\* The vendor calls a run a session until it fails.
SessionActive == robot.seen /\ robot.inRun /\ robot.status # "error"

\* Mutant: a robot that cannot be seen is taken to go on.
ActiveOrHidden == SessionActive \/ Status \in Floor \cup {"mapping", "paused", "washing", "unavailable"}

Active == SessionActive \/ Status \in Floor \cup {"mapping", "paused", "washing"}

\* The rows that tell of floor work or of washing; the others add nothing to a job.
Rows == IF Status \in Floor \cup {"washing"} THEN {[run |-> ThisRun, status |-> Status]} ELSE {}

Started(rows) ==
  <<[rows |-> rows \cup Rows, span |-> {}, silent |-> -1, error |-> FALSE, power |-> FALSE]>>

\* _start_session: what was washed in the last ten minutes belongs to it.
StartSession(t) ==
  \E before \in {{}, {r \in t.before : r.status = "washing"}} :
    tracker' = [session |-> Started(before), before |-> {}]

Buffered == [tracker EXCEPT !.before = @ \cup Rows]

Appended(s) ==
  [s EXCEPT !.rows = @ \cup Rows, !.error = @ \/ Status = "error"]

\* _wet_classification and _wash_evidence of the rows.
Wet(rows) ==
  LET seen == {r.status : r \in rows}
  IN IF seen \cap {"mopping", "washing"} # {} THEN "wet"
     ELSE IF "sweeping" \in seen /\ "cleaning" \notin seen THEN "dry" ELSE "unknown"

FloorRuns(rows) == {r.run : r \in {q \in rows : q.status \in Floor}}

\* The runs a session knows, and those of the jobs of a list.
Seen(q) == IF q = NoSession THEN {} ELSE FloorRuns(q[1].rows)
Spans(list) == UNION {list[i].span : i \in DOMAIN list}

\* _build_job
Job(s) ==
  [rows |-> s.rows, span |-> s.span, water |-> Wet(s.rows),
   result |-> IF s.power \/ (s.error /\ ~robot.ended) THEN "failed" ELSE "success"]

Saves(job) == pc' = [step |-> "save", job |-> job]
Closes(s) == tracker' = [tracker EXCEPT !.session = NoSession] /\ Saves(<<Job(s)>>)
Keeps(s) == tracker' = [tracker EXCEPT !.session = <<s>>]

SchedulerOwned == owned

\* The completion candidate: the first observation of silence.
Silent(s) == IF s.silent < 0 THEN [s EXCEPT !.silent = 0, !.span = FloorRuns(s.rows)] ELSE s

\* async_observe, up to its save.
Observe ==
  /\ up /\ pc.step = "idle"
  /\ IF tracker.session = NoSession THEN
       IF SchedulerOwned THEN
         /\ tracker' = [tracker EXCEPT !.before = {}] /\ pc' = [pc EXCEPT !.step = "arbitrate"]
       ELSE IF ~Cleans THEN tracker' = Buffered /\ pc' = [pc EXCEPT !.step = "arbitrate"]
       ELSE StartSession(Buffered) /\ Saves(<<>>)
     ELSE LET s == Appended(tracker.session[1])
          IN IF SchedulerOwned /\ s.silent >= 0 THEN Closes(s)
             ELSE IF Active THEN Keeps([s EXCEPT !.silent = -1]) /\ Saves(<<>>)
             ELSE IF s.silent < Grace THEN Keeps(Silent(s)) /\ Saves(<<>>)
             ELSE Closes(s)
  /\ UNCHANGED <<up, boots, robot, runs, owned, jobs, alarm, charge, stored, truth>>

\* Mutant: the job goes to the archive while the file keeps the session.
SessionNotSaved ==
  /\ pc.step = "save"
  /\ stored' = IF pc.job = <<>> THEN [stored EXCEPT !.session = tracker.session] ELSE stored
  /\ truth' = [truth EXCEPT !.noticed = @ \cup Seen(tracker.session)]
  /\ jobs' = jobs \o pc.job
  /\ pc' = [step |-> "arbitrate", job |-> <<>>]
  /\ UNCHANGED <<up, boots, robot, runs, owned, tracker, alarm, charge>>

\* The tracker's file, and then the job goes to the archive in memory.
SessionSaved ==
  /\ pc.step = "save"
  /\ stored' = [stored EXCEPT !.session = tracker.session]
  /\ truth' = [truth EXCEPT !.noticed = @ \cup Seen(tracker.session)]
  /\ jobs' = jobs \o pc.job
  /\ pc' = [step |-> "arbitrate", job |-> <<>>]
  /\ UNCHANGED <<up, boots, robot, runs, owned, tracker, alarm, charge>>

JobsSaved ==
  /\ pc.step = "arbitrate"
  /\ stored' = [stored EXCEPT !.jobs = jobs]
  /\ pc' = NoReconcile
  /\ UNCHANGED <<up, boots, robot, runs, owned, tracker, jobs, alarm, charge, truth>>

\* mark_power_interruption, beside whatever reconcile is under way.
PowerLost ==
  /\ up /\ ~owned /\ ~alarm /\ truth.mishaps < MaxMishaps
  /\ truth' = [truth EXCEPT !.mishaps = @ + 1]
  /\ \/ /\ tracker.session # NoSession
        /\ Keeps([tracker.session[1] EXCEPT !.power = TRUE])
     \/ /\ tracker.session = NoSession /\ (Cleans \/ (SessionActive /\ Status \in {"paused", "washing"}))
        /\ tracker' = [session |-> <<[Started({})[1] EXCEPT !.power = TRUE]>>, before |-> {}]
  /\ alarm' = TRUE
  /\ UNCHANGED <<up, boots, robot, runs, owned, jobs, pc, charge, stored>>

\* The robot was told to stop, and may have; the mark is saved, and then the
\* jobs there are.
AlarmSaved ==
  /\ up /\ alarm /\ alarm' = FALSE
  /\ \E list \in {stored.jobs, jobs} : stored' = [stored EXCEPT !.session = tracker.session, !.jobs = list]
  /\ truth' = [truth EXCEPT !.noticed = @ \cup Seen(tracker.session)]
  /\ robot' \in {robot, IF robot.inRun THEN [robot EXCEPT !.status = "returning", !.inRun = FALSE] ELSE robot}
  /\ UNCHANGED <<up, boots, runs, owned, tracker, jobs, pc, charge>>

SilenceGrows ==
  /\ \E s \in {tracker.session, stored.session} : s # NoSession /\ s[1].silent \in 0..Grace - 1
  /\ LET older(q) == IF q # NoSession /\ q[1].silent \in 0..Grace - 1
                     THEN <<[q[1] EXCEPT !.silent = @ + 1]>> ELSE q
     IN tracker' = [tracker EXCEPT !.session = older(@)] /\ stored' = [stored EXCEPT !.session = older(@)]
  /\ UNCHANGED <<up, boots, robot, runs, owned, jobs, pc, alarm, charge, truth>>

-----------------------------------------------------------------------------
\* Charging

Segment(b) == [start |-> battery.level, end |-> battery.level, age |-> 0, at |-> 0,
               dropped |-> FALSE, boots |-> {b}]

\* _append_sample
Sampled(a, b) ==
  [a EXCEPT !.end = battery.level, !.at = a.age, !.dropped = @ \/ battery.level < a.end,
            !.boots = @ \cup {b}]

\* _async_finalize_active: too short or too little to tell a rate is dropped.
Finalized(c, reason) ==
  IF c.active = <<>> THEN c
  ELSE LET a == c.active[1]
       IN [active |-> <<>>,
           sessions |-> IF a.end > a.start /\ a.at > 0
                        THEN c.sessions \cup {[a |-> a, reason |-> reason]} ELSE c.sessions]

Dropped(a) == battery.level < a.end

Opened(c, b) == IF battery.level < Full THEN [c EXCEPT !.active = <<Segment(b)>>] ELSE c

\* _async_observe
Observed(c, b) ==
  IF ~battery.seen THEN c
  ELSE IF ~battery.docked THEN
    IF c.active = <<>> THEN c
    ELSE Finalized([c EXCEPT !.active = <<Sampled(@[1], b)>>], "left_dock")
  ELSE IF c.active = <<>> THEN Opened(c, b)
  ELSE IF Dropped(c.active[1]) THEN Opened(Finalized(c, "battery_drop"), b)
  ELSE LET d == [c EXCEPT !.active = <<Sampled(@[1], b)>>]
       IN IF battery.level = Full THEN Finalized(d, "battery_full") ELSE d

BatteryMoves ==
  /\ \/ battery.docked /\ battery.level < Full /\ battery' = [battery EXCEPT !.level = @ + 1] /\ UNCHANGED truth
     \/ /\ truth.drops < MaxDrops /\ battery.level > 0
        /\ battery' = [battery EXCEPT !.level = @ - 1]
        /\ truth' = [truth EXCEPT !.drops = @ + 1]
     \/ battery' = [battery EXCEPT !.docked = ~@] /\ UNCHANGED truth
     \/ battery' = [battery EXCEPT !.seen = ~@] /\ UNCHANGED truth
  /\ UNCHANGED <<up, boots, cleaning, charging, stored>>

\* Nobody looks at the ledger between a change and its save.
ChargingIs(c) ==
  /\ charging' = c /\ stored' = [stored EXCEPT !.charging = c]
  /\ UNCHANGED <<up, boots, cleaning, battery, truth>>

ObserveCharge ==
  /\ up /\ ChargingIs(Observed(charging, boots))

\* async_clear_history leaves the segment under way alone.
ClearCharges ==
  /\ up /\ charging.sessions # {} /\ ChargingIs([charging EXCEPT !.sessions = {}])

SegmentAges ==
  /\ up /\ charging.active # <<>> /\ charging.active[1].age = 0
  /\ charging' = [charging EXCEPT !.active[1].age = 1]
  /\ UNCHANGED <<up, boots, cleaning, battery, stored, truth>>

-----------------------------------------------------------------------------
\* Home Assistant

\* Runs whose session has left its file for a job that is in no file yet.
Unsaved == (Spans(jobs) \cup Spans(pc.job)) \ (Spans(stored.jobs) \cup Seen(stored.session))

\* async_stop does not wait for the reconcile that holds the lock: it goes on
\* while the integration is unloaded, until it starts again at the latest (what
\* it would write after that is left out).  An emergency is cancelled.
Stop ==
  /\ up /\ up' = FALSE /\ truth.mishaps < MaxMishaps
  /\ truth' = [truth EXCEPT !.mishaps = @ + 1, !.noticed = @ \cup Seen(tracker.session)]
  /\ charging' = Finalized(Observed(charging, boots), "integration_stop")
  /\ stored' = [session |-> tracker.session, jobs |-> jobs, charging |-> charging']
  /\ alarm' = FALSE
  /\ UNCHANGED <<boots, robot, runs, owned, tracker, jobs, pc, battery>>

\* A session that left its file before its job was saved is in no file then.
HostDies ==
  /\ up /\ up' = FALSE /\ truth.mishaps < MaxMishaps
  /\ truth' = [truth EXCEPT !.mishaps = @ + 1, !.lost = @ \cup Unsaved]
  /\ pc' = NoReconcile /\ alarm' = FALSE
  /\ UNCHANGED <<boots, robot, runs, owned, tracker, jobs, battery, charging, stored>>

\* Mutant: the segment of before the restart goes on.
FinalizedNot(c) == c

\* async_start: the hours of downtime are not charging time.
Resumed(c) == Finalized(c, "restart_boundary")

Boot ==
  /\ ~up /\ up' = TRUE /\ boots' = boots + 1
  /\ tracker' = [session |-> stored.session, before |-> {}]
  /\ jobs' = stored.jobs /\ pc' = NoReconcile
  /\ charging' = Observed(Resumed(stored.charging), boots')
  /\ stored' = [stored EXCEPT !.charging = charging']
  /\ truth' = [truth EXCEPT !.lost = @ \cup Unsaved]
  /\ UNCHANGED <<robot, runs, owned, alarm, battery>>

Cleaning ==
  \/ OutsideStarts \/ RunGoesOn \/ RunEnds \/ BetweenRuns \/ HidesOrShows
  \/ SchedulerStarts \/ AttemptEnds
  \/ Observe \/ SessionSaved \/ JobsSaved \/ PowerLost \/ AlarmSaved \/ SilenceGrows

Charging == BatteryMoves \/ ObserveCharge \/ ClearCharges \/ SegmentAges

Lifetime == Stop \/ HostDies \/ Boot

\* The watchdog reconciles, awaits return, the clock goes on, and somebody
\* starts Home Assistant again.
Fairness ==
  /\ WF_sessionVars(Observe) /\ WF_sessionVars(SessionSaved) /\ WF_sessionVars(JobsSaved)
  /\ WF_sessionVars(SilenceGrows) /\ WF_sessionVars(Boot)

SessionsNext == Cleaning \/ Charging \/ Lifetime

SessionsSpec == SessionsInit /\ [][SessionsNext]_sessionVars /\ Fairness

-----------------------------------------------------------------------------
RowType == [run : 0..MaxRuns, status : Floor \cup {"washing"}]

SessionOK(q) ==
  q # NoSession => q[1].rows \subseteq RowType /\ q[1].silent \in -1..Grace /\ q[1].span \subseteq 1..MaxRuns

SessionsTypeOK ==
  /\ Len(runs) <= MaxRuns /\ Range(runs) \subseteq {"outside", "scheduler"}
  /\ robot.inRun => Len(runs) > 0
  /\ SessionOK(tracker.session) /\ SessionOK(stored.session)
  /\ tracker.before \subseteq RowType
  /\ pc.step \in {"idle", "save", "arbitrate"} /\ Len(pc.job) <= 1
  /\ \A c \in {charging, stored.charging} :
       /\ c.active # <<>> => c.active[1].end \in 0..Full /\ c.active[1].start < Full
       /\ \A x \in c.sessions : x.a.end > x.a.start /\ x.a.at > 0

\* One cleaning somebody else started is one row of the history and of the
\* statistics, over restarts and crashes anywhere.  Not two, unless the robot
\* failed or hid in it.  Not none once it is in the tracker's file: whenever no
\* reconcile is under way it still is, or it is a row on disk.  The code breaks
\* this in one place, and only the runs hit there are left out (lost): the host
\* dies, or the integration is unloaded and started again, between the save of
\* the ended session (external_execution.py:386) and that of its job
\* (scheduler_engine.py:2497).  A cleaning of the Scheduler is no row
\* (external_execution.py:322), unless the Scheduler gave it up, or started it
\* before the tracker saw the outside run end.
RowsAreOutsideRuns ==
  /\ \A i, k \in DOMAIN jobs :
       i # k => (jobs[i].span \cap jobs[k].span) \subseteq truth.interrupted
  /\ up /\ pc.step = "idle" =>
       truth.noticed \subseteq Seen(stored.session) \cup Spans(stored.jobs) \cup truth.lost
  /\ \A i \in DOMAIN jobs : \A r \in jobs[i].span : runs[r] = "scheduler" => r \in truth.excused

\* "must never be merged into the old external observation set"
\* (external_execution.py:348): not even one observation of a cleaning of the
\* Scheduler is among the rows of an outside run that had ended.
NeverMerged ==
  \A i \in DOMAIN jobs : \A r \in jobs[i].rows :
    r.status \in Floor /\ runs[r.run] = "scheduler" => r.run \in truth.excused

RobotQuiet == ~robot.seen \/ (~robot.inRun /\ robot.status \in {"idle", "returning", "error"})

\* A session is not tracked for ever: while the robot is quiet or out of sight
\* it ends, over restarts (_COMPLETION_GRACE), and every cleaning it had on
\* record becomes a row on disk, but for those a crash or an unload lost between
\* the save of the ended session and that of its job (RowsAreOutsideRuns).
SessionCloses ==
  /\ (tracker.session # NoSession /\ RobotQuiet) ~> (tracker.session = NoSession \/ ~RobotQuiet)
  /\ \A r \in 1..MaxRuns :
       (r \in truth.noticed /\ RobotQuiet) ~>
         (r \in Spans(stored.jobs) \cup truth.lost \/ ~RobotQuiet)

\* A completed charging segment was watched by one run of Home Assistant, and
\* the level never fell in it before the robot left the dock.
SegmentsUnbroken ==
  \A x \in charging.sessions \cup stored.charging.sessions :
    /\ Cardinality(x.a.boots) = 1
    /\ x.a.dropped => x.reason = "left_dock"
=============================================================================
