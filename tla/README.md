# TLA+ model of Vacuum Schedule

A verification project for the Home Assistant integration in
`src/custom_components/vacuum_schedule`: TLA+ modules for the parts that decide
whether, when and how often a robot is sent out, TLC configurations that check
them on small instances, and machine-checked proofs for every instance.

## 1. The system

Vacuum Schedule turns recurring schedules into *occurrences* (jobs), waits for
each to become runnable, lets one of them use each robot at a time, starts it,
follows the robot until the cleaning is over and accounts for the result. All of
it runs on Home Assistant's single event loop: concurrency is between coroutines,
at their `await`s, and with the death of the process.

| Part | State it keeps | Operations | Talks to |
|---|---|---|---|
| Robot observer (`execution_observer.py`) | none | `observe`: entity states to one observation | reads Home Assistant |
| Real backend (`execution_backend.py`) | the attempt it is given | `async_start`, `async_progress`, `async_cancel`, `_finish` | adapter, observer, `persist` callback |
| Execution manager (`execution_manager.py`) | the attempts of a job | build, start, defer, sync to zones, progress, recover, cancel; multi-pass successors | backends |
| Execution adapter (`execution_adapter.py`) | parameter snapshot and saved volume, in the attempt | final guard, prepare, restore, start command | Home Assistant services, `persist` |
| Engine (`scheduler_engine.py`) | jobs, leases, latches, timers | reconcile (watchdog, events), force, skip, cancel, power emergency, recovery, stop | everything |
| Arbiter (`scheduler_arbiter.py`) | none | order and select the candidates for the robot | called by the engine |
| Job store (`job_store.py`) | two files, active and history | load, save, archive, log | Home Assistant `Store` |
| Planner, schedules | schedule file | next dates, materialization | engine |
| Pre-flight, inputs, zones, bindings | none | is this zone runnable now | engine |
| Force conditions, protection | hold timers | when may a job start early | engine |
| External tracker (`external_execution.py`) | the foreign session | observe, close | engine, statistics |
| Notifications | outbox, dedupe marks | event, deliver, retry, clear | Home Assistant services |
| Statistics, water, charging | ledgers | ingest terminal jobs and sessions | job store |
| Migrations, setup, reload (`__init__.py`) | schema versions | set up, unload, reload | engine |
| Panel, sensors, calendar, config flow | none | projections and forms | engine |

### How they interact

`async_reconcile` holds the engine's lock, and under it calls the manager, which
calls a backend, which calls the adapter. Whenever something must not be lost the
inner layers `await` the `persist` callback, which saves all active jobs. Two
things do not take the lock: the **power emergency** task, started synchronously
by a state-change callback, and **`async_stop`**, called by a reload. They share
the job objects with whatever coroutine is suspended inside the lock.

### What is hard here

- A start command is not idempotent and its answer may be lost. The code writes
  `COMMAND_INTENT` to disk before it and never repeats a start whose intent is on
  disk; what lies between the write, the command, the answer and the next save
  can be cut by a crash at every `await`.
- The emergency rewrites attempts that a suspended `async_start` still believes
  to be its own.
- An attempt ends only by observation. The robot may go silent, err, be carried
  away, wash, empty, recharge and return, in any order; each branch of
  `async_progress` sets or clears timers on which other branches depend.
- Snapshots of the same jobs are saved from several places.
- The arbiter's three priority classes interact: scheduled work admits preemption.
- A schedule is edited, switched off, rebuilt or carried into another mode while its
  occurrence is planned, runs or was missed; in the hour a clock reads twice two
  equal instants are not equal to Python.
- A hold delay ("free for ten minutes") is one timer that every snapshot reads and
  writes: reconciles, the panel, dry-run overrides. Whether a zone is released when it may
  be depends on a chain of timers, listeners and debounced tasks none of which may
  lose the last event.
- What has ended is written to up to six files, one await after the other, while the user may
  clear or restore them without the lock.
- Notifications are made outside the lock from jobs that move on, and a provider may take a
  message and seem to refuse it.

The list of these hazards, each at its line, is `hazards` in `PROJECT.json`; those
without a property say why.

### What makes each part correct

- *Backend*: every waiting state has the timer that ends it; success only after an
  unbroken quiet time; errors and emergencies end.
- *Start boundary (manager, adapter, engine, store)*: one start command per
  occurrence, durable before it is sent; a result once written stays; an
  occurrence that waits was not started; an emergency ends the job.
- *Arbiter*: the chosen candidate yields to nobody, nobody is lost.
- *Jobs (engine, manager)*: one lease per robot; no zone is sent out twice for the
  same pass; a zone in hand is always followed by somebody; zones that belong together
  start together; nothing starts after a cancel or an outage.
- *Parameter transaction*: what was changed is put back, also after a failure or
  crash in the middle; somebody else's choice is left alone; a muted speaker is
  always on record.
- *Planning*: a slot that was run, skipped or suppressed is not run again; every slot that
  passed has a job; the placeholder is the next slot nobody has; the walk of the planner
  gives each date one start.
- *Inputs*: an occurrence starts as soon as it may, never before its inputs have held for the
  configured time, within the slice it was promised, and is given up only when no later
  instant could start it.
- *Stores and ledgers*: no job is lost, revived or booked twice, every one is booked, and index and rows agree;
  the code keeps the last two but for crashes between a chunk and its index (section 5).
- *External sessions, charging*: one outside cleaning is one row, the Scheduler's own is
  none, and a session once saved becomes a row, which the code keeps but for a crash or unload between
  two saves (section 5); a charging segment bridges no downtime.
- *Notifications*: one push per event and endpoint; forecasts keep their distance; good news
  follow a problem.

## 2. The modules

| Module | What it is | Code |
|---|---|---|
| `RobotObserver` | pure: a raw report to an observation | `execution_observer.py` `observe` |
| `ExecutionAttempt` | pure: an attempt and an observation to the next attempt | `execution_backend.py` `async_progress` and helpers |
| `ExecutionBackend` | state machine: one attempt after its start | backend and `async_progress_job` |
| `CommandBoundary` | state machine: one occurrence from waiting to its result, with store, emergency, crash | manager, adapter, engine, store |
| `StartOnce` | abstract protocol that `CommandBoundary` implements | - |
| `EngineReload` | `CommandBoundary` with a second engine started by a reload | `__init__.py`, `async_stop` |
| `ParameterTransaction` | state machine: settings and volume around the passes of one occurrence | adapter `async_prepare`, restore, volume; manager passes and recovery |
| `JobScheduler` | state machine: the reconcile over several jobs and zones | engine `_prepare_job`, `_arbitrate_jobs`, user actions; manager lease, passes, shared targets |
| `SchedulerArbiter` | pure: order of the candidates | `scheduler_arbiter.py` |
| `ArbiterPool` | state machine: candidates come and go | engine `_arbitrate_jobs` |
| `CalendarPlanner` | pure: the starts and windows of a rule in a zone whose clock jumps | `planner.py`, `schedule.py` |
| `JobPlanning` | state machine: jobs from schedules, through edits, downtime, test clock and modes | engine materialization, backfill, mode switch, schedule handlers; `job_store.py` lookups |
| `Preflight` | pure: inputs to blockers, verdict, cut-off and next re-check | `preflight.py`, `force_conditions.py`, `force_protection.py`, hold of `input_provider.py` |
| `Readiness` | state machine: when one occurrence is looked at, and with which inputs | engine timers, listeners, drain, gate; `input_provider.py`, `input_overrides.py`, `dependency_index.py` |
| `StatisticsLedger` | state machine: archive, ledger, index, water and training files of ended jobs | `job_store.py`, `statistics_manager.py`, `statistics_store.py`, handlers of `frontend.py` |
| `PhysicalSessions` | state machine: outside cleanings and charging segments | `external_execution.py`, `charging_statistics.py` |
| `NotificationDelivery` | state machine: events, policies, routes and the outbox of one occurrence | `notification_manager.py`, `notification_store.py`, `start_forecast.py` |
| `MC*` | instances for TLC | - |
| `ExecutionBackend_proofs`, `CommandBoundary_proofs` | proofs: the branches of an observation, each for what the machine around it keeps | - |
| `JobScheduler_proofs` | proofs: the sort, its winner and its rest (the theorems of `ArbiterPool`), and the jobs it is used on | - |
| `JobPlanning_proofs` | proofs: what a reconcile makes of the jobs any operation leaves to it | - |
| `Readiness_proofs` | proofs: what is released, what is given up, whether it had waited, and that nothing is overlooked (with the facts about `Preflight` they rest on) | - |
| `Statistics_proofs` | proofs: what the ledger books (`StatisticsLedger`) and what is recorded of others (`PhysicalSessions`) | - |
| `ParameterTransaction_proofs`, `NotificationDelivery_proofs` | proofs: what is put back, and what is said to whom | - |

`RobotObserver` <- `ExecutionAttempt` <- {`ExecutionBackend`, `CommandBoundary` <-
`EngineReload`}: the same decision table is explored in depth by `ExecutionBackend`
(rich reports, long timers) and in context by `CommandBoundary` (few reports, the
start protocol around it). `SchedulerArbiter` <- {`ArbiterPool`, `JobScheduler`}: the order
itself over every set of candidates, and its use over the life of the jobs.
`CalendarPlanner` <- `JobPlanning`, and `Preflight` <- `Readiness`: the pure part and the
machine that uses it. Three modules look at one occurrence from three sides: `JobPlanning` at
why it exists, `Readiness` at when it is released, `JobScheduler` at what it then does.

### State and actions against the code

*Attempts.* A record with the fields of `ExecutionAttempt` (`execution_models.py`)
on which control depends, plus the marks kept in `metadata`. Instants are ages in
ticks, capped at `Horizon`; `NoTimer` is `None`. Each operator of
`ExecutionAttempt` is one branch of `async_progress`, `Decided` is their order, and
`Progressed` the whole call, evidence marks first. Vendor words and entity ids are
reduced to the classes the observer sorts them into.

*`ExecutionBackend`.* `Progress` is one call of `async_progress_job` (the sync and
save that follow do not feed back). `RobotReports`, `SensorReads`, `DeadlinePasses`,
`PowerLoss`, `UserCancel` may come between any two. `quietFor` and `heldDry` are
history variables that no guard reads.

*`CommandBoundary`.* One job, one zone, one pass. `pc` is the `await` at which the
engine's coroutine is suspended while it holds the lock:

| `pc` | suspended in |
|---|---|
| `idle` | not in the lock |
| `prepare` | target validation or a parameter write |
| `muting`, `unmuting` | the save of the volume around a muted preparation or restore |
| `barrier` | the save of the intent (`_persist_barrier`) |
| `command` | the start service call |
| `finish` | restoring parameters in `_finish` |
| `save` | the save at the end of the reconcile or of recovery |
| `down` | the process is dead |

Between two of them the code runs without suspension, so it is one action. `job` is
the record in memory, `disk` what the store last wrote, `saves` the snapshots taken
and not yet written. Home Assistant's `Store.async_save` (external) takes its
snapshot when called and writes under its own lock: first in, first out, which is
what `Save`, `Flush` and `Saved` say. A `Crash` keeps `disk` only.
`Recover` is `async_recover_job`; `FinishDone` decides between defer and sync, and
on the recovery path only syncs, as the code does.

*`ParameterTransaction`.* One occurrence of `Passes` emulated passes over `Params`
settings. `setting` and `audible` are the robot, which no crash resets; `mem` and
`disk` are the attempts' metadata in memory and as last saved; `at` is the await at
which the coroutine stands: `revive`, `guard`, `mute`, `muting`, `write`, `unmute`,
`recheck`, `intent` and `send` are the steps of `async_start`, `settle` the end of
`_finish`, `return`, `next` and `save` the manager and the engine after it, `boot` the
loop of `async_recover_job`. The same `mute`/`write`/`unmute` steps serve the preparation and
the restore (`at.op`), because both run inside `_async_with_parameter_sound_suppressed`.
The three tries to set the volume back are one. `original`, `touched`, `loud`, `torn` and `dropped`
are history variables: what the properties compare with and why a promise may not be kept.
The user never picks the scheduler's own value: the code compares values, and
cannot tell that choice from its own write.

*`JobScheduler`.* A reconcile is `BeginReconcile`, one `Prepare` (or `PassOver`) per job in
the order of the planned starts, and `Arbitrate`. One `Prepare` is a whole `_prepare_job`:
`Progress` is `async_progress_job` (observe, sync to zones, start the next pass), and the
disjuncts `PrepareFinished` ... `PrepareAuthoritative` are its early returns in their order.
`EarlySets` is what `_evaluate_force_candidates` may offer, `Started` a start with its
three outcomes. `PowerLoss`, `SetGate` and `DisableZone` may come between any two steps, as those
handlers do not take the lock or are read anew by each job; `StartNow`, `Skip` and `Cancel`
wait for the lock, so they come between reconciles. What is abstracted:
- an attempt is `STARTING`, `RUNNING`, `CANCEL_REQUESTED`, `COMPLETED` or `FAILED`: what
  happens inside each is `ExecutionBackend`'s, and an emergency inside a start is
  `CommandBoundary`'s. There is one command per start and no crash here;
- pre-flight is a free choice of PASS, WAIT or FAIL per unstarted zone; an early start's
  window, conditions and plan protection are a free choice of zones;
- time does not pass within a reconcile (the code takes `now` once);
- a finished job keeps of its attempts only those still running, which are the ones
  that matter to the robot. Nobody follows them in the code either;
- left out: schedule pause, mixed robot target types, zones removed from the configuration,
  the text of blockers, re-check and occupancy overrides. A next-pass link
  without successor is cleared at the start of `async_progress_job`, before anything
  reads it, so it is never set.

*`JobPlanning`.* An action is a handler with the reconcile it ends in: `Then` is materialize,
arbitrate and save, of one piece of work per job (zones, attempts and pre-flight are
`JobScheduler`'s; every ready job may start). `SaveSchedule` and `DeleteSchedule` include the reload
of the entry they request, so every job comes back from the disk (`loaded`), as it does in
`Restart`, which also reconstructs the slots of the downtime from one anchor per schedule.
`mode`, `gen` and `offset` are the execution mode, the generation of the dry-run timeline and the
test clock. `since` is a history variable: from when on the slots of a schedule are owed.

*`Readiness`.* A reconcile is a task that queues for the lock (`queue`), holds it (`holder`: `Enter`
evaluates, `Release` leaves) and arms its timers afterwards (`tails`: `Arm`), because notifications are
awaited in between. `Sense` is an event of a sensor: what listens to it (`watched`, the index)
and which task it wakes. `Look` is a snapshot by the panel. `held` are `_zone_stable_since` and
`_true_since`. The verdict of every evaluation is `Preflight`'s over the real blockers. `goodSince` is the physical
truth; `blind`, `lent` and `missed` note the three gaps of the code that the properties excuse.

*`StatisticsLedger`.* `mem` and `disk` are the same record of stores; `engine.step` and `user.step` are the
awaits of the reconcile (or of the start) and of a clear or restore. A crash keeps `disk`.

*`PhysicalSessions`.* `Observe`, `SessionSaved` and `JobsSaved` are `async_observe` with its saves;
`PowerLost` and `AlarmSaved` the emergency; `runs` and `truth` the physical truth the rows are compared with. The
instance explores cleanings and charging separately, as they share nothing but the process.

*`NotificationDelivery`.* A task is one reconcile's notifications: `Queue`, `Acquire` the job's lock,
`NextItem` (the event, or the forecast, that is due now), `ClaimRoute` (the pending claim is on
disk), `Send`, `End`. `routes` are the positions of the routes the event has still to go, the first of
them being tried (`Turn`). `told` is what the providers accepted, in order.

*`EngineReload`.* `stray` is the coroutine the old engine leaves behind. It shares
neither the job nor the store with the new one.

*`ArbiterPool`.* The pool is the list the engine builds for one reconcile; times
are small ordinals.

## 3. The runs

| Run | Question | Result |
|---|---|---|
| `backend` | Can any sequence of reports strand an attempt or complete it early? Do emergencies, errors and quiet robots always end? | no; yes |
| `boundary` | One start, durable; an occurrence that waits was not started; implements `StartOnce`; a durable emergency is closed on disk, across a crash | yes |
| `engine_reload` | One start, also if the integration is reloaded? | **no** |
| `parameters` | Over two passes, blockers, a failing write and two restarts, do settings and speaker come back, if they were on disk, once, and at the end? | yes |
| `jobs` | One lease, no zone sent twice or forgotten, groups together, nothing after a stop? | yes |
| `jobs_lease` | One lease also if a later pass meets a late blocker? | **no** |
| `arbiter` | Do the sorted lists agree with the documented priorities? | yes |
| `planning` | Over clock jumps, edits, downtime and switches of mode, is a slot run once, accounted for, and the next one planned? | yes, but for the cases the properties name |
| `inputs` | Does an occurrence start as soon as it may, never too early, and is it given up only when it could not start any more? | yes, but for the cases the properties name |
| `ledger` | Through crashes, clears and restores and crashes inside those, is every ended job booked once in all files? | yes, but for jobs a crash caught between a chunk and its index, and requests that overlap a synchronisation |
| `sessions` | One row per outside cleaning, not two and not none once it was saved, none for the Scheduler's own, no session tracked for ever? | yes, but for a crash or unload between two saves and the cases the properties name |
| `notifications` | No push twice, forecasts an interval apart, recoveries after problems? | yes |

A property with an excuse (`~seen.overlap`, `seen.emptied`, `seen.split`, `truth.excused`, `truth.lost`, `blind`, `Ambiguous` ...) names in it a case in which
the code does not keep the promise; section 5 says what happens there. Each module also has a
`TypeOK`. It is checked in `boundary`, and proved for `ExecutionBackend`, `CommandBoundary`, `JobScheduler` and
`ParameterTransaction` (for `StatisticsLedger` as `Types`, which does not bound the counts); in the
others it states what the variables are, and is checked by adding it to the `INVARIANTS` of the configuration.
So are some smaller properties that hold beside the listed ones: `OwnedOnlyIfConfirmed` and `CancelIsFinal`
(`backend`), `DurableOutcome` (`boundary`), `DeadlineEnds` (`jobs`), `LosersDoNotDecide` (`arbiter`),
`RunningStays` (`planning`) and `WaitToldOnce` (`notifications`).

### Bounds, and why they are enough

- *Ages.* Every limit is at least one tick; `Horizon` is the largest of them, so two
  ages beyond it are never told apart by the code. In `backend` the settle time of a
  Roborock differs from the other two and the start, cancel and error limits are 2, so a timer can be
  started, interrupted and be short by one tick. In the boundary runs all limits are
  1: the order of expiry and observation is still free.
- *Reports.* `RoborockReports` has one report for each row of the observer's phase table
  a Roborock with a wash-and-empty dock reaches (idle, session, service, post-clean
  emptying, blocked service, error, return, silence) and the two early `last_clean_end` (before the emptying, before
  the service).
  The boundary runs need only "free", "moving" and "silent": every other phase
  changes the attempt, not the protocol.
- *`MaxCrashes` = 1* in the boundary runs: a second crash meets a state that
  differs from the first only by ages. (The proofs have no bound.) `MaxReloads` = 1.
- *Parameters*: two settings (one write can fail between, before or after another), two
  passes (a first, which remembers, and a last, which restores), three values: the schedule's, the
  user's and somebody else's. `MaxCrashes` = 2, so that recovery itself can be cut;
  `MaxGlitches` = 1 failing service call.
- *Jobs*: two jobs, because every rule of the lease is about an owner and one other. Job 1 has two
  zones, one pass and may start early, preempting; job 2 has one zone and two passes. So
  every kind of start (due, early, early by hand, next pass, retry) competes with
  another job's. `Plans` runs each policy that concerns the two zones: independent,
  on one robot target, combined. `MaxAttempts` = 3 is never reached in `jobs`.
  `LateBlockers` = {1} there, and `MayDisable` has one zone: what goes wrong with a
  blocker before the second pass is `jobs_lease`, with a disabled zone section 5.
- *Arbiter*: three jobs, each offered under every class. The comparisons are pairwise and
  the admission of preemption depends on one scheduled candidate; three
  candidates make a winner, a loser and one that comes or goes.
- *Planning*: one schedule (schedules meet only in the arbiter), days of four hours and weeks of two
  days, so that a week passes twice within `Horizon` = 8; a clock that goes forward, back or not
  at all, on the second day, over the hour of a planned start; a weekly rule with two days and one with a date of its own;
  windows of three hours, shorter than a day as the validation demands, longer than the gap of the jump;
  two operations in any order, one downtime or jump of the test clock of 0, 2 or 5 hours. `MCNext` explores the operations
  of the calendar where the clock jumps, those of the test clock and the modes where it
  does not. `PlannerAgrees` is checked from every instant.
- *Inputs*: nine settings (`MCConfigs`), each for one thing that can go wrong: both holds; holds under overrides; an
  early run; an early run in a zone with a busy sensor; a pause within the window, also when it cannot be read; a pause over midnight with a
  gate "until"; two ways into the zone; a target that is lost; too little room for the dirty water. Two flips of a sensor are the least that interrupt a hold and begin it again; one instant may pass while a
  reconcile is under way. Days have five instants, `Horizon` = 7 lets a pause over midnight end.
- *Ledger*: two jobs and an operational history of one, so that the second job drives the first out of it; one crash, one
  request of the user beside a backup; each layer alone and all together. That two different crashes, or a crash inside a second
  request, part the files no further is the theorems' part, which have no bound: with one request, for instance, a restore that
  a crash split is always caught up with by the start (`seen.split` only tells from two requests on).
- *Sessions*: two physical runs, each outside or the Scheduler's, one mishap (hidden or failing robot, lost mains, stop or crash), `Grace` = 1;
  for charging two drops of the level.
- *Notifications*: two routes to one chat, one of them for problems only; under the lifecycle policy two overlapping
  reconciles and one crash or refused answer, under the forecast policy one reconcile, three instants and one
  change of the blockers, so that a problem, its end and a second forecast within the interval all happen.
  The theorems of section 4 have no bound.
- *One zone, one pass, one target* in the boundary: the attempt is the unit of the
  protocol. Passes are in `ParameterTransaction` and `JobScheduler`, shared targets in the latter.

### Fairness, and why the code justifies it

- `Progress`: the engine's watchdog runs `async_reconcile` periodically
  (`scheduler_engine.py` `async_start`) whatever else happens. A reconcile always
  observes every active attempt, so weak fairness is enough. `CommandBoundary` has no
  variable for the robot: there an observation is owed only when every possible
  report would change the attempt (`Unavoidable`), so no helpful report is assumed.
- `Tick`, `DeadlinePasses`: time goes on.
- `Flush`, `SaveDone`, `FinishDone`: file writes and service calls return.
- `Recover`: a dead Home Assistant is started again. It may crash at most
  `MaxCrashes` times; with unbounded crashes nothing ever ends.
- Nothing is assumed of the robot, the user and the mains. `QuietResolves` has the
  robot's part, that it stays quiet from some time on, as its premise.

- `ledger`: the steps of the engine (reconcile, saves, start) and of a handler under way. A crash may
  come between any two, at most `MaxCrashes` times.
- `sessions`: the watchdog reconciles, its awaits return, the clock goes on and Home Assistant is
  started again; nothing is assumed of the robot, whose quiet is the premise.

`PowerCancelResolves` begins when the cancel is durable and the engine is out of
the start protocol, because inside it the cancel may be overwritten (section 5):
the property says what holds after that window.
`ParameterTransaction`, `JobScheduler`, `JobPlanning`, `Readiness` and `NotificationDelivery` state safety
only and assume no fairness. `Punctual` says as a safety property what liveness would: when no
task is under way or due, a reconcile would change nothing.

## 4. What is proved

Proofs are checked by TLAPS for every value of the constants: any set of reports, any limits, any number of
jobs, zones, passes, settings, requests and crashes. The assumptions are the named `ASSUME`s of the
modules (limits between 1 and `Horizon`, `Reports` within `RawReports`, at least one pass ...), and for
the jobs and for `RecoveryIsRelevant` a hypothesis that is part of the theorem, see below.
Each state machine has an inductive invariant `IInv`; `Invariant` is `Spec => []IInv`, and the theorems
that state a property of a run follow from it. Before a proof the parts of `IInv` were
checked by TLC on the instances of the runs.

| Module | Theorems that state a checked property | Beyond the runs |
|---|---|---|
| `ExecutionBackend_proofs` | `WaitsAreTimed`, `CompletionIsEarned` | `TypeCorrect`, `OwnershipIsConfirmed`, `CancelIsHonoured` |
| `CommandBoundary_proofs` | `TypeCorrect`, `StartsAtMostOnce`, `StartsAreDurable`, `WaitingIsUnstarted`, `Refinement` | `OutcomesAreDurable` |
| `JobScheduler_proofs`, of the arbiter | `WinnerIsRightful`, `ListIsSuccession` | `LosersAreFree` |
| `JobScheduler_proofs`, of the jobs | `LeaseIsExclusive`, `PassesAreSentOnce`, `NoAttemptIsOrphaned`, `NoZoneIsForgotten`, `ZonesStartTogether`, `NothingIsStartedAfterStop` | `TypeCorrect`, `DeadlinesEnd` |
| `JobPlanning_proofs` | `SlotsRunOnce` | `RunningIsLeftAlone` |
| `ParameterTransaction_proofs` | `SettingsComeBack`, `SpeakerComesBack`, `UserChoiceIsKept`, `NothingIsPutBackUnderAPass` | `TypeCorrect` |
| `Statistics_proofs`, of the ledger | `RowsAreCountedOnce`, `AccountsSettle`, `NoJobIsLostNorRevived` | |
| `Statistics_proofs`, of the sessions | `RowsComeFromOutsideRuns`, `SegmentsAreUnbroken` | `RunsAreKept` |
| `Readiness_proofs` | `StartsFit`, `GivenUpForGood`, `StartsAreSettled`, `NothingIsOverlooked` | `WakeInvariant` |
| `NotificationDelivery_proofs` | `PushedAtMostOnce`, `ForecastsKeepTheirDistance`, `RecoveryIsRelevant` | |

**One observation** (`Keeps` in `CommandBoundary_proofs`). Whatever is observed, `Progressed` and `ProgressedByDeadline` return
a well-formed attempt, leave the record of the intent alone and never lead back to `PREPARING`. One lemma per branch.

**The backend.** `TimersArmed` is not inductive: a branch may rely on a timer another one set. `Healthy` says for one attempt
which timer each phase has (with the error phase exactly as long as its timer), that only confirmed
sessions are owned and that a cancel is never left but for an end. `QuietTracked` relates the candidate time of a completion to the
history variable `quietFor`: it is never older than the current run of quiet observations, which
is what `CompletesOnlyAfterQuiet` needs at the step that completes.

**The start.** `AtMostOneStart` says nothing about the disk and is not inductive: after a crash the count alone cannot
forbid a second start. `IInv` adds

- `GoodCopies`: in memory, on disk and in every queued snapshot, an intent
  excludes the states `PREPARING` and `NONE`, and a zone that waits has no attempt;
- `SentIsCommitted`: once a start was sent, *every* copy has the intent. So
  whichever copy survives a crash, recovery observes instead of starting;
- `Station`: what each `pc` may rely on. At the barrier: from the engine's own
  snapshot on, all queued snapshots carry the intent, and once that snapshot is
  written so does the disk. This is where the order of the store's writes and the
  emergency's unlocked save enter the argument.

Each action has a lemma that it preserves `IInv`; the actions that end in "save and release", "go to finish" or "mute" share
one each. A second invariant, `OutcomeInv`, orders the copies by age (`Lineage`: disk, queue, memory) and says that none later than
one with the job's result reopens it. From both, every step of `CommandBoundary` is a step of
`StartOnce` or a stutter: `Refinement`.

**The arbiter.** `WinnerYieldsToNobody` holds of `sorted()` over an arbitrary finite set, so the proof needs that such a set has a least
element. The library's induction theorems take an operator and cannot be used; that finite subsets are well founded under
inclusion takes none, and gives the least natural and then the least candidate.
`OrderIsSuccession` needs no induction over the list either: the sort of a set is the only sequence that has each candidate once and
in order, so without its first element it is the sort of the rest. What remains is that the admission of
preempting candidates, which looks at the whole set, comes out the same for the rest as long as it keeps scheduled work or had none.

**The jobs.** All theorems about the jobs assume `LateBlockersFirst`, that a late blocker takes
back first passes only. The run `jobs` satisfies it, and `jobs_lease` shows that without it the lease is
not exclusive: the hypothesis is the boundary between what the code keeps and the finding in section 5. `IInv` says of each
job that its zones and attempts fit (an attempt in hand belongs to a zone in hand, passes are
numbered without gaps and never repeated), that a terminal job keeps nothing but what is still running, and of the reconcile what
the jobs already prepared may rely on. Each early return of `_prepare_job` is a case of its own.

**The slots.** `SlotRunsOnce` is not inductive: two unstarted jobs of one slot violate nothing, and one of them then runs. Nor does the
code exclude them: between the operation and the end of its reconcile a slot may have several jobs. The argument is therefore about
one reconcile, from whatever an operation leaves to it (`Sound`). Its first passes take away the unstarted jobs of a slot
that has a started one (`Settled`), so a job that is then released or consumed is not one of those. What remains are two
unstarted jobs of one slot, of which a pause consumes one and the arbiter lets the other run. In REAL mode a job waits
only when it is due (`Punctual`), so the pause consumes both; in a dry run, where the clock may have been set back, there is at most one
(`Single`). Stages that only remove jobs, mark them or add jobs to free slots have one lemma each, and every operation is
one of them before its reconcile. The search of the planner (`Between`) enters with no more than that its starts lie in the range
asked for, so the theorem holds for any rule and any zone. `RunningIsLeftAlone` follows a single running job through the same
stages. The proof found that the guards of `Prepared` overlapped in the model (a paused schedule and a passed deadline), where the
code decides by order; they are disjoint now.

**The parameters.** `Shape` comes first: `Chain` (a pass begins after its predecessor completed), `Place` and `Line` (where the coroutine stands
and what it has done so far) and `Behind` (by how much the disk is older than memory). On it rest `Settings` (no
restore is skipped, and a setting that is not back is known to an attempt that will put it back, unless the
values were torn or dropped) and, while every call is confirmed, `Speaker` (a silenced speaker is owed its volume by the
disk and by a step still to come). Most steps only mark an attempt, break it or close its
restore, and are treated as these three kinds.

**The ledger.** `CountedOnce` is about the rows in memory, and a crash replaces them by those on disk. As long as nothing
overlapped, one party is at work (`Exclusive`), memory is one entry ahead of the disk at most (`RowFiles`, `IndexFiles`, `ResetFiles`), every row belongs to the
index, to the entry being made, to a job whose index a crash prevented and which the start still has to
do, or to one a crash split from its entry in a restore, and every entry of the index has a row unless a crash inside a clear took it
(`Entries`), and the derived files follow the index unless a start or restore is about to make them anew
(`Derived`). `Store` carries the two files of `JobStore`: a job that only the first one has is among the latest of the bounded
history, because fewer than `HistoryLimit` jobs end between two saves; so the history never drops it before
the second file has it. This is a counting argument (an injection into a smaller set). A request that overlaps a synchronisation sets
`seen.overlap` for good, so nothing is claimed from there on, as in the properties themselves. A crash inside a clear or a
restore does not: it is excused only for the jobs whose row or entry it parted (`seen.emptied`, `seen.split`), and only for that.
Looking for this invariant showed that the model had marked one overlap too late: a reconcile that begins while a clear is
under way has already taken its list of jobs when it appends the first row. `Reconcile` now marks it; only runs with
two requests can tell the difference.

**The sessions.** A row of the history names the runs whose floor work the session had seen when its silence began, and
whether that is right depends on runs the code does not know. A session, in memory or in the file, *knows* a run when it has seen floor
work of it (`Seen`). `Records` says that a record knows the Scheduler's runs only where they are excused, and that a session whose
silence is timed knows only runs that are `Over`: ended, or on record as interrupted. So nothing that is archived is ever seen again,
which makes `Apart` inductive: no two of the archived jobs, the job on its way, and the session in memory know the same
run. The file is the exception: until the job is saved it may still hold the session that became it, and a crash at that
moment brings back one of the two, never both (`Filed`: the archive in the file is a beginning of the one in memory). That is why
there are not two rows. That there is not none is a second invariant, `Kept` (`RunsAreKept`): a run that was ever in the tracker's file
(`truth.noticed`) is still in it, or in a job on disk or on its way there, or it was on its way when the process died, or was unloaded and
started again (`truth.lost`); and a session whose silence is timed has told all its runs to the job it becomes (`Remembers`). `Closed`
says why a run of the Scheduler is shut out: while it lasts, the attempt is open, or the run is excused, and every session in
memory and in the file is silent or none; `Synced`, that the file is silent when memory is, carries this to a start. A robot out of
sight has no phase to observe: `Hidden` remembers that the run it may still be in was not seen, or is interrupted.
`Charged` is about the battery: the segment in memory was begun by this run of Home Assistant, and no segment, open or
closed, in memory or in the file, was watched by two. The invariant speaks of the physical run and is about
`SessionsSpec`; the instance's runs are a part of its behaviours. The invariant is called `SessionInv` and its theorem
`SessionInvariant`, because both halves of the statistics are proved in one module; `PhysicalSessions` names its
`Init`, `Next` and `Spec` in the same way for that reason.

**The notifications.** What a message is worth depends on messages already sent, of which the code knows only what
the outbox says. `IInv` therefore relates what arrived (`told`) to the outbox, which is saved wherever it is
changed. `Claimed`: whatever arrived has a delivery that is not suppressed, because the claim is saved before the provider is
called, and so it is there after a crash too. `Underway`: while one reconcile sends, its delivery is the last of the outbox,
and nothing of its event has arrived at that endpoint. So entries stand in the order of arrival (`InOrder`, `SentArrived`), and the
search of the code for the latest sent delivery answers for the user's last message. `Keyed` and `Served` say that an event has one
delivery per route and what is left to be served. `Numbered`, `Spacing` and `Spaced` are about forecasts: until the start the state
remembers the number and the instant of the last one, and one that is being sent is an interval later than all that arrived, whatever
the clock of its reconcile. `Archived`, `Wanted` and `Recovery` are about what was said and what is on record of it. Here the proof found
that a prewarning that is sent whatever the readiness may, after a crash, be said in other words than recorded: hence the
hypothesis `policy.prewarning # "always"` of `RecoveryIsRelevant`; section 5 says what
happens without it. Assumed of the constants is that limits and intervals are natural numbers, that routes have distinct
names (they are `recipient:channel`), and that `Nobody` is no task.

**The inputs.** `StartFitsWindow` and `FailIsFinal` are about the arithmetic of `Preflight`, and every day has any number of instants. `SameDay`
and `NextDay` say what the time of day of a later instant is; from them follow that nothing is quiet before the next
do-not-disturb and that one lasts until its release (`NextDndFacts`, `DndReleaseFacts`), so the cut-off is the earliest of deadline and next
do-not-disturb and nothing before it is quiet (`CutoffFacts`). A verdict is then decided by the blockers alone: without any the
time that is asked for is there (`PassFits`), and a blocker that fails an occurrence is there at every instant
left to it, or another one is (`FailStays`: too little time for which nothing will ever be enough stays too little). A do-not-disturb
that cannot be read, or a target that is lost, blocks by itself (`UnreadBlocks`), so the arithmetic is needed only where both are known.
`SettledIsContinuous` compares what the code holds (`_zone_stable_since`, `_true_since`) with the physical truth. A hold may begin with what
the sensors say of their own age, so `Dated` relates that to the truth: an input that has been good since an instant is
made good by sensors that are not all older (`Young`: every way that is open was opened, or some detector went quiet, no earlier, or too few people
were away before). `HoldSound` says that a hold is never older than its input's good state, unless a change was missed (`blind`) or an
override lent it. Every snapshot, of a reconcile or of the panel, and every change of a sensor keeps both (`SenseDates`, `Snaps`,
`Dwells`).
`Punctual` needs more: what each look leaves behind (`WakeInvariant`). `Armed` says that once no task is left every later instant
of the occurrence has its timer, `Tasks` that an event that was noted has its drain, and `Seen` that, unless something has been heard of since,
the occurrence waits at every instant before the next timer: because of a blocker (`Blocked`), a condition that has not matured (`Unmatched`) or
the plan after it. That a blocker lasts until the next look or is followed by another is a fact about `Preflight`: `OutsideStays` for the robot, the gate and
the time (too little time before a do-not-disturb stays too little, and the do-not-disturb itself blocks until its release, `TooShortWaits`), `ZoneStays` for the zone,
`LooksAgain` for the instant itself. A panel that looks in between may begin a hold with an override the engine does not see, or drop
one that an override calls busy: `LookedAt` shows that it delays the release and never brings it forward, which needs to know where such a hold came from
(`Seeded`). The attempt to prove it showed the third gap of section 5, which no setting of the run reached: one was added.
Assumed is what the forms of the integration let through (`ConfigAssumption`: times of day within the day, durations that are not
negative, a deadline after the planned start, conditions that ask for at least one person), that there are finitely many sensors, and that no condition is called
like an input of a zone, since the module keeps both maps of holds in one (`InputsAssumption`).

**Only model-checked:**
- liveness, since fairness and `ENABLED` are beyond the prover: `IncidentsResolve`, `QuietResolves`, `PowerCancelResolves`,
  `EventuallyBooked`, `SessionCloses`;
- of `planning`, `SlotsAccounted`, `PlaceholderIsNext` and `PlannerAgrees`: they say which starts the walk of the planner finds, which
  is an induction over that walk;
- the two violations.

## 5. Where code and documentation disagree

Two are runs with `expect` "violation"; `findings` in `PROJECT.json` quotes the lines.

1. **A reload during a start** (`engine_reload`). Both engines send it.
2. **A later pass without the lease** (`jobs_lease`). A late blocker takes the second pass back, the
   arbiter gives the robot to another job, and the next reconcile starts the second
   pass beside it: starts of later passes do not ask for the lease.
The others are stated by a definition without a run of its own. Each is reproduced by
putting the definition named in place of the properties of the run in brackets, with the constants
given, if any.

*The start and the attempt*

- `NoStartAfterInterruption` (`boundary`, `MaxCrashes = 0`): mains drops while a parameter is
  written, the emergency marks the attempt, mains returns, both guards pass, and
  `COMMAND_INTENT` overwrites the cancel. `docs/en/POWER_MONITORING.md:7`: "no further passes or
  zones start for the interrupted job".
- `LateBlockerDefers` (`boundary`): startup recovery does not defer, so a robot that is
  still offline after the restart fails the occurrence. Comment at `execution_manager.py:38`.
- `InterruptionIsRecorded` (`boundary`, `MaxCrashes = 0`): an outage while the start command
  is awaited is overwritten by its answer, and the result is not `power_supply_lost`.
- `OutageWhilePreparingDefers` (`boundary`, `MaxCrashes = 0`): the attempt is deferred, then
  the mark on the job ends it, with no command ever sent.
- `PreCleanBlockIsNotSuccess` (`backend`): a session the dock
  blocked before the first square metre, refilled, washed and quiet, is a success.

*Parameters and jobs*

- `RestoredAtEnd` (`parameters`): a restart between a parameter write and the save makes the resumed
  preparation take the changed setting for the user's; and a rollback after a failed
  restore takes the only record of the user's values with it. `en.json:1460`.
- `NotRestoredWhileRunning` (`parameters`): a restart during the second
  pass restores the first pass's settings while the robot cleans.
- `MuteIsRemembered` (`parameters`): a mute taken but not
  confirmed is forgotten, and the speaker stays silent.
- `RobotExclusive` (`jobs`, `MayDisable = {z1, z3}`): a zone disabled while it is cleaned is skipped, its job is archived with
  the attempt still running, the lease is free and another job is started over it.

*Notifications*

- `RecoveryFollowsProblem` (`notifications`, `Tasks = {t1}`, `Policies <- PrewarnedPolicies`, `Limits <- RecoveryLimits`,
  `Planned = 2`, `Deadline = 4`): `put_event` keeps the first record of an event. If the process dies between that save and the
  claim of the routes, and the blockers go meanwhile, a prewarning that is sent whatever the readiness is delivered without them, its
  record still has them, and the forecast's "started" or "ready" follows a message that was not a warning.
  `notification_manager.py:1487`: "Never announce recovery to somebody who did not see the problem".

*Planning*

- `SlotRunsOnceStrict` (`planning`): in the hour a clock reads twice, a slot that ran under one
  revision of its schedule is planned and cleaned again under the next. `by_schedule_slot` compares
  a start with a fixed offset, from the disk, with one in a time zone; Python never holds
  those equal in that hour (`job_store.py:258` promises otherwise).
- `PlaceholderIsNextStrict` (`planning`): a dry-run placeholder is regenerated into REAL at its own
  slot and hides nearer REAL slots.
- A RUNNING job of an older revision or of another mode is the only anchor of its schedule, and the slots
  of the downtime are not reconstructed (`scheduler_engine.py:292`); `since` excuses what a rebuild or switch skips.

*Inputs*

- `OverrideNeverReal` (`inputs`): after a switch to REAL with an occupancy override still set, the first snapshot of
  `_subscribe_zone_inputs` (overrides allowed by default) begins the shared hold while the zone is
  occupied; once it is left the robot starts at once. `scheduler_engine.py:3697`: "never effective in REAL mode".
- The excuses of `SettledIsContinuous` and `Punctual`: a sensor that flips twice while the lock is held is not noticed (`blind`); a
  target that passes before the timers are armed is left to the watchdog, and so is an event of a renamed entity that only the
  dependency index heard while it was calling back; and one of a renamed entity of the zone before the first preview of an occurrence
  that may run early is heard by nobody, since only a preview enters it in the index (`missed`).

*History and notifications*

- `NeverMerged` (`sessions`): the first observation of a cleaning of the Scheduler is appended to the outside session
  that had ended before it (`external_execution.py:345`, against the comment at 348).
- A crash inside a clear, between the removal of the chunks and the save of the index (`statistics_store.py:180-192`),
  leaves an index that names jobs without a row, and no synchronisation books them again: `contains_job` asks the index. A crash inside a
  restore, between a row and its index (`statistics_store.py:131`), leaves a row without an entry, or doubles it when it is booked or
  restored again. `SettledAccounts` and `CountedOnce` except the jobs hit (`seen.emptied`, `seen.split`) and no others. Requests that overlap a
  synchronisation are excepted altogether (`seen.overlap`).
- An outside cleaning loses its row when the process dies, or the integration is unloaded and started again, between the tracker's save of "no session"
  (`external_execution.py:386`) and the save of the jobs (`scheduler_engine.py:2497`). `RowsAreOutsideRuns` and `SessionCloses` except
  the runs hit (`truth.lost`) and no others.
- A cleaning the Scheduler starts while the outside session is not yet silent joins that session (`truth.excused`), and one that
  the robot fails or hides in may be two rows (`truth.interrupted`).
- `CountedOnceStrict` (`ledger`): a crash between the save of the chunk and of the index books the job twice after the
  restart; requests that overlap a synchronisation run without the lock and may undo it.
- Seen while reading, not stated: `async_restore_execution_history` uses `as_utc`, which `job_store.py` does not
  import; of four jobs that end in one reconcile only the last three are told of; switching start forecasts off and on
  restarts their numbering, and later ones collide with those delivered.

## 6. Not modelled, and why

- Wording and layout: notification texts, panel, sensors, calendar, localisation.
- Floating-point estimates: durations, live progress, charging and water regressions. What of them decides
  anything (a forecast's length, a level) is a given number of the instance.
- The tank cycles of `water_statistics.py` (interpretation of levels, thresholds and maintenance). They
  reach the execution only as one predicted level, which `Preflight` takes as given.
- The aggregates and queries of `statistics_models.py`: arithmetic over the rows.
- Forms and capability detection (`config_flow.py`, `capabilities.py`): no state
  beyond one request.
- The one-shot migrations of schemas and domain.
- Pause and resume of an attempt forward a service call and change no state. The dry-run backend is a
  clock in place of a robot.
- Vendor word tables and entity-id matching of the observer and of the input provider.
- Several schedules at once in `JobPlanning`, several jobs in `Readiness`: their competition is
  `JobScheduler`'s. An execution gate is in `Readiness` and `JobScheduler`, not in `JobPlanning`.
- In `PhysicalSessions`: a reconcile that outlives the unload of the integration is followed until the next start and no further
  (a start in flight at that moment is `EngineReload`'s); what else it would write then is left out. So are outside runs while an attempt of the Scheduler is open, which
  the tracker does not look for.
- In `Preflight`: the target of the zone and the water the ledger knows of are settings of the occurrence. The code reads both
  anew at each look and nothing announces a change, so what is left out is that one may change between two looks.
- In `NotificationDelivery`: actions and tokens, presence, dry-run suppression, channel discovery and
  the silent refresh of cards.

## 7. What is left

The modules planned are written, and the machines that decide whether a robot is sent and when, what is put back and
what is booked, recorded and said are proved about. `CalendarPlanner` computes over data by
search and recursion; what of it needs induction stays with TLC, and with it the properties of `planning` that say
which starts the search finds.
