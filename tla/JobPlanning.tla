---------------------------- MODULE JobPlanning ----------------------------
(***************************************************************************)
(* How the jobs of scheduler_engine.py come from the calendar: one future  *)
(* placeholder per schedule, replaced when the schedule is edited, rebuilt *)
(* on demand, reconstructed after downtime, carried from one execution     *)
(* mode to the other, and never run twice.  Every operation ends with the  *)
(* reconcile the code ends it with, as one step.  A job is one piece of    *)
(* work here; JobScheduler has its zones, attempts and pre-flight.         *)
(***************************************************************************)
EXTENDS CalendarPlanner

CONSTANTS
  Schedules,
  Gaps,                        \* lengths of a downtime and of a jump of the test clock
  Horizon, MaxEdits, MaxStops  \* bounds: instants, operations, downtimes

ASSUME PlanningAssumption ==
  /\ Schedules \subseteq Nat /\ Schedules # {}
  /\ ({Horizon, MaxEdits, MaxStops} \cup Gaps) \subseteq Nat

VARIABLES
  real, offset,   \* real time, and what the test clock adds to it
  zone,
  schedules,      \* the schedules that exist: rule, revision, enabled, paused
  mode, gen,      \* execution mode, and the generation of the dry-run timeline
  jobs,           \* active and terminal jobs
  since,          \* history: from when on the slots of a schedule are owed
  edits, stops    \* bounds

vars == <<real, offset, zone, schedules, mode, gen, jobs, since, edits, stops>>

Modes == {"REAL", "DRY_RUN"}
Results == {"none", "RUN", "SKIPPED", "MISSED", "FAILED", "SUPPRESSED"}

\* What a step sees: the time, the calendar, the mode.
World(now, scheds, m, g) == [now |-> now, schedules |-> scheds, mode |-> m, gen |-> g]
Now == real + offset
Today == World(Now, schedules, mode, gen)

\* The dry-run generation belongs to the key of dry-run jobs only.
Generation(w, m) == IF m = "DRY_RUN" THEN w.gen ELSE 0

Unstarted(j) == j.state \in {"PLANNED", "WAIT"}
Running(j) == j.state = "RUNNING"
Terminal(j) == j.state = "FINISHED"
Scheduled(j) == j.origin = "SCHEDULED"
End == (LastDate + 1) * DayHours + 1

NewJob(w, s, x, m, g, rearm) ==
  [s |-> s, rev |-> w.schedules[s].rev, start |-> x,
   deadline |-> DeadlineAt(zone, w.schedules[s].rule, x),
   mode |-> m, gen |-> g, rearm |-> rearm, origin |-> "SCHEDULED", state |-> "PLANNED",
   result |-> "none", forced |-> FALSE, loaded |-> FALSE, regenerated |-> FALSE]

Ended(j, result) == [j EXCEPT !.state = "FINISHED", !.result = result]

\* The job of a manual run: nothing of the calendar is consumed by it, and
\* its record is not kept here.
Kept(J) == {j \in J : ~(j.origin = "MANUAL" /\ Terminal(j))}

-----------------------------------------------------------------------------
\* Who owns a slot

InNamespace(j, m, g) == j.mode = m /\ j.gen = g

\* Two datetimes of an hour that is read twice are never equal to Python if
\* one has the zone and the other the offset it was stored with.
SameStart(j, x, loaded) == j.start = x /\ (j.loaded = loaded \/ ~Ambiguous(zone, x))

\* by_occurrence_id: the revision is part of the identity.
ByOccurrence(J, s, rev, x, m, g) ==
  {j \in J : j.s = s /\ Scheduled(j) /\ j.rev = rev /\ j.start = x /\ InNamespace(j, m, g)}

\* by_schedule_slot: it is not.
BySlot(J, s, x, loaded, m, g) ==
  {j \in J : j.s = s /\ Scheduled(j) /\ SameStart(j, x, loaded) /\ InNamespace(j, m, g)}

\* Mutant: an edit makes every slot new.
OwnersOfRevision(w, J, s, x) ==
  ByOccurrence(J, s, w.schedules[s].rev, x, w.mode, Generation(w, w.mode))

Owners(w, J, s, x) ==
  LET same == ByOccurrence(J, s, w.schedules[s].rev, x, w.mode, Generation(w, w.mode))
  IN  IF same # {} THEN same ELSE BySlot(J, s, x, FALSE, w.mode, Generation(w, w.mode))

-----------------------------------------------------------------------------
\* The parts of a reconcile

\* Mutant: an edited schedule keeps its jobs.
CurrentAnyRevision(w, j) == j.s \in DOMAIN w.schedules /\ w.schedules[j.s].enabled

Current(w, j) ==
  /\ j.s \in DOMAIN w.schedules
  /\ w.schedules[j.s].enabled /\ w.schedules[j.s].rev = j.rev

\* _dematerialize_stale_future_jobs: before its warning a stale placeholder
\* vanishes, after it the occurrence has failed.
Dematerialized(w, J) ==
  LET stale(j) == Unstarted(j) /\ Scheduled(j) /\ ~Current(w, j)
      unseen(j) == j.state = "PLANNED" /\ w.now < WarningAt(j.start)
  IN  {IF stale(j) THEN Ended(j, "FAILED") ELSE j : j \in {k \in J : ~(stale(k) /\ unseen(k))}}

\* _dematerialize_shadowed_schedule_slots, but for what an operator re-armed.
Shadowed(w, J) ==
  {j \in J : ~ /\ Unstarted(j) /\ Scheduled(j) /\ j.rearm = 0
               /\ \E k \in BySlot(J, j.s, j.start, j.loaded, j.mode, j.gen) \ {j} : ~Unstarted(k)}

\* _next_unconsumed_occurrence from "now" on.
NextFree(w, J, s) ==
  LET free == {x \in Between(zone, w.schedules[s].rule, w.now, End) : Owners(w, J, s, x) = {}}
  IN  IF free = {} THEN {} ELSE {Min(free)}

Placeholders(w, J, s) ==
  {j \in J : /\ j.s = s /\ Scheduled(j) /\ ~Terminal(j) /\ j.mode = w.mode
             /\ Current(w, j) /\ j.start > w.now}

\* _materialize_missing
Materialized(w, J) ==
  LET enabled == {s \in DOMAIN w.schedules : w.schedules[s].enabled}
  IN  J \cup UNION {{NewJob(w, s, x, w.mode, Generation(w, w.mode), 0) : x \in NextFree(w, J, s)}
                      : s \in {t \in enabled : Placeholders(w, J, t) = {}}}

\* The committed early release or the planned start.
Due(w, j) == j.forced \/ w.now >= j.start

\* _schedule_pause_suppression_reason: a paused schedule consumes its occurrence.
Suppressed(w, j) ==
  /\ Due(w, j) /\ Scheduled(j) /\ j.s \in DOMAIN w.schedules
  /\ w.schedules[j.s].enabled /\ w.schedules[j.s].paused

\* _prepare_job of an unstarted job: suppressed first, then ended by its
\* deadline, or it waits.
Prepared(w, j) ==
  CASE ~Unstarted(j) -> j
    [] Unstarted(j) /\ Suppressed(w, j) -> Ended(j, "SUPPRESSED")
    [] Unstarted(j) /\ ~Suppressed(w, j) /\ w.now >= j.deadline -> Ended(j, "FAILED")
    [] OTHER -> IF Due(w, j) THEN [j EXCEPT !.state = "WAIT"] ELSE j

\* One job that waits may get the robot if nobody has it.
Arbitrated(J) ==
  {J} \cup {(J \ {j}) \cup {[j EXCEPT !.state = "RUNNING"]} :
              j \in {k \in J : k.state = "WAIT" /\ \A h \in J : ~Running(h)}}

\* async_reconcile
Reconciled(w, J) ==
  LET planned == Materialized(w, Shadowed(w, Dematerialized(w, J)))
      prepared == Kept({Prepared(w, j) : j \in planned})
  IN  {Materialized(w, Shadowed(w, K)) : K \in Arbitrated(prepared)}

-----------------------------------------------------------------------------
\* Downtime

\* The earliest active job of a schedule, whatever its mode.
Anchors(J, s) ==
  LET own == {j \in J : j.s = s /\ Scheduled(j) /\ ~Terminal(j)}
  IN  {j \in own : \A k \in own : j.start <= k.start}

\* Mutant: the slots of the downtime are not reconstructed.
BackfilledNot(w, J, anchors) == J

\* _backfill_offline_occurrences: every slot after the anchor that nobody has
\* is restored while its window is open, and written down as missed after it.
Backfilled(w, J, anchors) ==
  LET slots(a) == {x \in Between(zone, w.schedules[a.s].rule, a.start, w.now) :
                     x > a.start /\ ByOccurrence(J, a.s, a.rev, x, a.mode, a.gen) = {}}
      recovered(a, x) ==
        LET j == NewJob(w, a.s, x, a.mode, a.gen, 0)
        IN  IF j.deadline > w.now THEN j ELSE Ended(j, "MISSED")
  IN  J \cup UNION {{recovered(a, x) : x \in slots(a)} : a \in {b \in anchors : Current(w, b)}}

\* async_start: the jobs come from the disk, unstarted ones may have expired.
Recovered(w, J) ==
  LET loaded == {[j EXCEPT !.loaded = TRUE] : j \in J}
      anchors == UNION {Anchors(loaded, s) : s \in Schedules}
      closed == {IF Unstarted(j) /\ Scheduled(j) /\ w.now >= j.deadline THEN Ended(j, "FAILED") ELSE j
                   : j \in loaded}
  IN  Reconciled(w, Backfilled(w, closed, anchors))

-----------------------------------------------------------------------------
\* Steps

\* The outcome of an operation that leaves J to the reconcile of world w.
Then(w, J) ==
  /\ schedules' = w.schedules /\ mode' = w.mode /\ gen' = w.gen
  /\ jobs' \in Reconciled(w, J)

NewRule(rule) == [rule |-> rule, rev |-> 1, enabled |-> TRUE, paused |-> FALSE]

Init ==
  /\ real = 0 /\ offset = 0
  /\ zone \in Zones
  /\ \E r \in [Schedules -> Rules] : schedules = [s \in Schedules |-> NewRule(r[s])]
  /\ mode = "REAL" /\ gen = 0
  /\ jobs \in Reconciled(World(0, schedules, "REAL", 0), {})
  /\ since = [s \in Schedules |-> 0]
  /\ edits = 0 /\ stops = 0

\* A timer is due at every instant something changes.
Tick ==
  /\ Now < Horizon
  /\ real' = real + 1
  /\ Then([Today EXCEPT !.now = @ + 1], jobs)
  /\ UNCHANGED <<offset, zone, since, edits, stops>>

Finish(j) ==
  /\ j \in jobs /\ Running(j)
  /\ Then(Today, Kept((jobs \ {j}) \cup {Ended(j, "RUN")}))
  /\ UNCHANGED <<real, offset, zone, since, edits, stops>>

\* History: with a job of another revision or mode as its earliest, a run that
\* an edit or a switch left alone, the slots of the downtime stay unknown.
Unanchored(s) == \E j \in Anchors(jobs, s) : ~Current(Today, j) \/ j.mode # mode

\* Home Assistant is down for n hours.
Restart(n) ==
  /\ stops < MaxStops /\ Now + n <= Horizon
  /\ real' = real + n /\ stops' = stops + 1
  /\ jobs' \in Recovered([Today EXCEPT !.now = @ + n], jobs)
  /\ since' = [s \in Schedules |-> IF Unanchored(s) THEN Max({since[s], Now + n}) ELSE since[s]]
  /\ UNCHANGED <<offset, zone, schedules, mode, gen, edits>>

Edit == edits < MaxEdits /\ edits' = edits + 1

\* From now on the slots of the schedules of S are owed anew.
Owed(S) == since' = [s \in Schedules |-> IF s \in S THEN Max({since[s], Now}) ELSE since[s]]

-----------------------------------------------------------------------------
\* Schedules

\* revised: what changes an execution is a new revision.
Revised(old, rule, enabled) ==
  [old EXCEPT !.rule = rule, !.enabled = enabled,
              !.rev = IF rule = old.rule /\ enabled = old.enabled THEN @ ELSE @ + 1]

\* websocket_save_schedule: the entry is reloaded.
SaveSchedule(s, rule) ==
  /\ Edit /\ s \in DOMAIN schedules /\ rule # schedules[s].rule
  /\ schedules' = [schedules EXCEPT ![s] = Revised(@, rule, @.enabled)]
  /\ jobs' \in Recovered([Today EXCEPT !.schedules = schedules'], jobs)
  /\ Owed({s})
  /\ UNCHANGED <<real, offset, zone, mode, gen, stops>>

\* websocket_delete_schedule
DeleteSchedule(s) ==
  /\ Edit /\ s \in DOMAIN schedules
  /\ schedules' = [t \in DOMAIN schedules \ {s} |-> schedules[t]]
  /\ jobs' \in Recovered([Today EXCEPT !.schedules = schedules'], jobs)
  /\ UNCHANGED <<real, offset, zone, mode, gen, since, stops>>

SetEnabled(s) ==
  /\ Edit /\ s \in DOMAIN schedules
  /\ Then([Today EXCEPT !.schedules[s] = Revised(@, @.rule, ~@.enabled)], jobs)
  /\ Owed({s})
  /\ UNCHANGED <<real, offset, zone, stops>>

\* A pause is no revision; a disabled schedule cannot be paused.
SetPaused(s) ==
  /\ Edit /\ s \in DOMAIN schedules /\ schedules[s].enabled
  /\ Then([Today EXCEPT !.schedules[s].paused = ~@], jobs)
  /\ UNCHANGED <<real, offset, zone, since, stops>>

-----------------------------------------------------------------------------
\* Jobs

Skip(j) ==
  /\ Edit /\ j \in jobs /\ Unstarted(j)
  /\ Then(Today, Kept((jobs \ {j}) \cup {Ended(j, "SKIPPED")}))
  /\ UNCHANGED <<real, offset, zone, since, stops>>

Startable(j) ==
  /\ j \in jobs /\ Unstarted(j) /\ Now < j.deadline
  /\ j.s \in DOMAIN schedules /\ ~schedules[j.s].paused

\* async_start_job_now of a future occurrence commits it to run early.
StartEarly(j) ==
  /\ Edit /\ Startable(j) /\ Scheduled(j) /\ Now < j.start
  /\ Then(Today, (jobs \ {j}) \cup {[j EXCEPT !.forced = TRUE]})
  /\ UNCHANGED <<real, offset, zone, since, stops>>

\* The nearest job of today that has not started.
PendingToday(s) ==
  LET own == {j \in jobs : /\ j.s = s /\ Scheduled(j) /\ Unstarted(j) /\ Now < j.deadline
                           /\ DateOf(zone, j.start) = DateOf(zone, Now)}
  IN  {j \in own : \A k \in own : j.start <= k.start}

Manual(s) ==
  [NewJob(Today, s, Now, mode, Generation(Today, mode), 0) EXCEPT
     !.deadline = Now + Window, !.origin = "MANUAL"]

\* async_run_schedule_now, at most one at a time in the model.
RunNow(s) ==
  /\ Edit /\ s \in DOMAIN schedules /\ ~schedules[s].paused
  /\ \A j \in jobs : Scheduled(j)
  /\ Then(Today, jobs \cup {Manual(s)})
  /\ UNCHANGED <<real, offset, zone, since, stops>>

\* async_smart_run_schedule: today's occurrence is brought forward if there is
\* one, and otherwise a separate run is added.
SmartRun(s) ==
  /\ \/ \E j \in PendingToday(s) : StartEarly(j)
     \/ PendingToday(s) = {} /\ RunNow(s)

-----------------------------------------------------------------------------
\* Rebuilding the projection

\* The terminal owner that speaks for the slot: the last one.
Latest(O) == CHOOSE j \in O : \A k \in O : k.rev < j.rev \/ (k.rev = j.rev /\ k.rearm <= j.rearm)

\* decide_schedule_refresh_consumption
Refreshable(w, J, s, x, restore) ==
  LET owners == Owners(w, J, s, x)
  IN  \/ owners = {}
      \/ /\ \A j \in owners : Terminal(j)
         /\ Latest(owners).forced /\ x > w.now => restore

RearmGeneration(w, J, s, x) ==
  Max({0} \cup {j.rearm : j \in ByOccurrence(J, s, w.schedules[s].rev, x, w.mode, Generation(w, w.mode))}) + 1

\* async_rebuild_schedule_projection
Rebuilt(w, J, restore) ==
  LET kept == {j \in J : ~(Unstarted(j) /\ Scheduled(j))}
      slots(s) == {x \in Between(zone, w.schedules[s].rule, w.now, End) : Refreshable(w, kept, s, x, restore)}
      job(s, x) == NewJob(w, s, x, w.mode, Generation(w, w.mode),
                          IF Owners(w, kept, s, x) = {} THEN 0 ELSE RearmGeneration(w, kept, s, x))
      enabled == {s \in DOMAIN w.schedules : w.schedules[s].enabled}
  IN  kept \cup {job(s, Min(slots(s))) : s \in {t \in enabled : slots(t) # {}}}

Rebuild(restore) ==
  /\ Edit
  /\ Then(Today, Rebuilt(Today, jobs, restore))
  /\ Owed(Schedules)
  /\ UNCHANGED <<real, offset, zone, stops>>

\* async_reconcile_current_timeline: what belongs to another mode or another
\* dry-run timeline goes; with a reset, simulated runs under way go too.
OnTimeline(w, J, reset) ==
  LET valid(j) == Current(w, j) /\ j.mode = w.mode /\ j.gen = Generation(w, w.mode)
      simulated(j) == reset /\ j.mode = "DRY_RUN"
  IN  {j \in J : \/ Terminal(j)
                 \/ Running(j) /\ ~simulated(j)
                 \/ ~Scheduled(j) /\ ~simulated(j)
                 \/ Scheduled(j) /\ valid(j)}

ReconcileTimeline ==
  /\ Edit
  /\ LET w == [Today EXCEPT !.gen = IF mode = "DRY_RUN" THEN @ + 1 ELSE @]
     IN  Then(w, OnTimeline(w, jobs, FALSE))
  /\ UNCHANGED <<real, offset, zone, since, stops>>

-----------------------------------------------------------------------------
\* The test clock and the execution mode

AdvanceTime(n) ==
  /\ Edit /\ mode = "DRY_RUN" /\ Now + n <= Horizon
  /\ offset' = offset + n
  /\ Then([Today EXCEPT !.now = @ + n], jobs)
  /\ UNCHANGED <<real, zone, since, stops>>

ResetTime ==
  /\ Edit /\ mode = "DRY_RUN"
  /\ offset' = 0
  /\ LET w == [Today EXCEPT !.now = real, !.gen = @ + 1]
     IN  Then(w, OnTimeline(w, jobs, TRUE))
  /\ UNCHANGED <<real, zone, since, stops>>

ResetDryRun ==
  /\ Edit /\ mode = "DRY_RUN"
  /\ offset' = 0
  /\ Then([Today EXCEPT !.now = real], {j \in jobs : j.mode # "DRY_RUN"})
  /\ UNCHANGED <<real, zone, since, stops>>

\* _regenerated_job_for_mode: read back from its stored form.
Regenerated(w, j) ==
  [j EXCEPT !.mode = w.mode, !.gen = Generation(w, w.mode), !.state = "PLANNED",
            !.loaded = TRUE, !.regenerated = TRUE]

\* _apply_execution_mode_change: untouched jobs change their mode unless the
\* occurrence has a job there.
Switched(w, J) ==
  LET kept == {j \in J : ~Unstarted(j)}
      fresh(j) == ByOccurrence(kept, j.s, j.rev, j.start, w.mode, Generation(w, w.mode)) = {}
  IN  kept \cup {Regenerated(w, j) : j \in {k \in J \ kept : ~Scheduled(k) \/ fresh(k)}}

SetMode ==
  /\ Edit
  /\ offset' = IF mode = "DRY_RUN" THEN 0 ELSE offset
  /\ LET w == World(real + offset', schedules, CHOOSE m \in Modes : m # mode,
                    IF mode = "REAL" THEN gen + 1 ELSE gen)
         taken(s) == {j.start : j \in {k \in Switched(w, jobs) : k.s = s /\ k.regenerated /\ Unstarted(k)}}
     IN  /\ Then(w, Switched(w, jobs))
         /\ since' = [s \in Schedules |-> Max({w.now} \cup taken(s))]
  /\ UNCHANGED <<real, zone, stops>>

-----------------------------------------------------------------------------
Planning ==
  \/ \E s \in Schedules, r \in Rules : SaveSchedule(s, r)
  \/ \E s \in Schedules : DeleteSchedule(s) \/ SetEnabled(s) \/ SetPaused(s)
  \/ \E j \in jobs : Skip(j) \/ StartEarly(j)
  \/ \E s \in Schedules : RunNow(s) \/ SmartRun(s)
  \/ \E restore \in BOOLEAN : Rebuild(restore)

Simulating ==
  \/ ReconcileTimeline \/ ResetTime \/ ResetDryRun \/ SetMode
  \/ \E n \in Gaps : AdvanceTime(n)

Passing == Tick \/ (\E j \in jobs : Finish(j)) \/ \E n \in Gaps : Restart(n)

Next == Passing \/ Planning \/ Simulating
Spec == Init /\ [][Next]_vars

-----------------------------------------------------------------------------
\* Properties

Job(j) ==
  /\ j.s \in Schedules /\ j.rev \in 1..MaxEdits + 1 /\ j.start \in 0..End /\ j.deadline \in 0..End + Window
  /\ j.mode \in Modes /\ j.gen \in 0..gen /\ j.rearm \in 0..MaxEdits
  /\ j.origin \in {"SCHEDULED", "MANUAL"}
  /\ j.state \in {"PLANNED", "WAIT", "RUNNING", "FINISHED"} /\ j.result \in Results
  /\ Terminal(j) <=> j.result # "none"
  /\ {j.forced, j.loaded, j.regenerated} \subseteq BOOLEAN

\* Types; one job has the robot, and a REAL schedule runs on real time.
TypeOK ==
  /\ {real, offset} \subseteq Nat /\ Now <= Horizon
  /\ DOMAIN schedules \subseteq Schedules
  /\ \A s \in DOMAIN schedules :
       /\ schedules[s].rule \in Rules /\ schedules[s].rev \in 1..MaxEdits + 1
       /\ {schedules[s].enabled, schedules[s].paused} \subseteq BOOLEAN
  /\ mode \in Modes /\ gen \in 0..MaxEdits
  /\ \A j \in jobs : Job(j)
  /\ Cardinality({j \in jobs : Running(j)}) <= 1
  /\ mode = "REAL" => offset = 0

Decided(j) == Running(j) \/ j.result \in {"RUN", "SKIPPED", "SUPPRESSED"}
Ran(j) == Running(j) \/ j.result = "RUN"

\* A slot that was run, skipped or suppressed is not run again by itself: not
\* after an edit, a restart, a rebuild or a change of mode, only when the
\* operator re-arms it.  (by_schedule_slot, job_store.py:254.)
RunTwice(j, k) ==
  /\ j # k /\ Scheduled(j) /\ Scheduled(k) /\ j.s = k.s /\ j.start = k.start
  /\ j.mode = "REAL" /\ k.mode = "REAL" /\ Decided(j) /\ Ran(k)
  /\ j.rearm = 0 /\ k.rearm = 0
SlotRunsOnceStrict == \A j, k \in jobs : ~RunTwice(j, k)

\* The same but for an hour that is read twice, which is not recognised once
\* one of the two jobs has been read from the disk.
SlotRunsOnce == \A j, k \in jobs : RunTwice(j, k) => Ambiguous(zone, j.start) /\ (j.loaded \/ k.loaded)

\* Every slot of an enabled schedule that has passed since the schedule was
\* last changed has a job, downtime or not.
Slots(s) == Between(zone, schedules[s].rule, since[s], Now)
SlotsAccounted ==
  mode = "REAL" =>
    \A s \in DOMAIN schedules : schedules[s].enabled =>
      \A x \in Slots(s) : \E j \in jobs : j.s = s /\ Scheduled(j) /\ j.start = x /\ j.mode = "REAL"

\* The placeholder of a schedule is its next slot that nobody has.
Placeholder(j) == j.mode = "REAL" /\ Scheduled(j) /\ Unstarted(j) /\ Current(Today, j)
Hidden(j) == {x \in NextFree(Today, jobs, j.s) : x < j.start}
PlaceholderIsNextStrict == mode = "REAL" => \A j \in jobs : Placeholder(j) => Hidden(j) = {}

\* The same but for a placeholder taken over from a dry run, and for the hour
\* that is read twice.
PlaceholderIsNext ==
  mode = "REAL" =>
    \A j \in jobs : Placeholder(j) => \A x \in Hidden(j) : j.regenerated \/ Ambiguous(zone, x)

\* A job that runs is left alone by every edit, rebuild, switch and restart:
\* it goes on or is written down as run.  Only a reset of the dry run takes a
\* simulated one away.
SameJob(j, k) == [j EXCEPT !.state = "RUNNING", !.result = "none", !.loaded = FALSE]
                   = [k EXCEPT !.state = "RUNNING", !.result = "none", !.loaded = FALSE]
RunningStays ==
  [][\A j \in jobs : Running(j) /\ Scheduled(j) /\ j.mode = "REAL"
       => \E k \in jobs' : SameJob(j, k) /\ Ran(k)]_vars

\* The planner, from every instant on: the walk from start to start gives each
\* date of the rule exactly one start, at its wall time or the gap later, with
\* windows that do not overlap, the open one recognised, and the merged list of
\* next_n is the same walk.
PlannerAgrees ==
  \A r \in {schedules[s].rule : s \in DOMAIN schedules} :
    LET walk == Between(zone, r, Now, End)
        wanted(d) == d * DayHours + TimeOn(r, d)
        dates == {d \in DateOf(zone, Now)..LastDate : Matches(r, d) /\ StartOn(zone, r, d) >= Now}
        merged == NextN(zone, 1 :> r, Now, Cardinality(walk))
    IN  /\ {DateOf(zone, x) : x \in walk} = dates /\ Cardinality(walk) = Cardinality(dates)
        /\ \A x \in walk :
             LET wall == wanted(DateOf(zone, x))
             IN  /\ Local(zone, x) = wall \/ (Local(zone, x) = wall + 1 /\ Readings(zone, wall) = {})
                 /\ \A y \in walk : x < y => DeadlineAt(zone, r, x) <= y
        /\ Now \in walk => Now \in CurrentStart(zone, r, Now)
        /\ {merged[n][1] : n \in DOMAIN merged} = walk \ {Now}
=============================================================================
