----------------------------- MODULE Readiness -----------------------------
(***************************************************************************)
(* When an occurrence is looked at, and with which inputs: the tasks that  *)
(* queue for the engine's lock (timers, the watchdog, the drain of zone    *)
(* events, the debounced dependency index, operations), the hold timers    *)
(* that every snapshot shares, the test overrides of dry-run, and the      *)
(* timers that are armed after the lock is gone.  One occurrence of one    *)
(* zone; the verdicts are Preflight's, what follows a start is not here.   *)
(***************************************************************************)
EXTENDS Preflight

CONSTANTS
  Configs,      \* settings and schedules to choose from, with the first execution modes,
                \* the states of sensors, the readings of the robot and its dock, and the
                \* bounds of each: flips of a sensor, changes of the device, instants that
                \* pass while a reconcile is under way, operations
  Horizon       \* bound of time

ASSUME ReadinessAssumption ==
  \A c \in Configs : {Horizon, c.max.flips, c.max.changes, c.max.slow, c.max.user} \subseteq Nat

\* What the forms let through: times of day, durations that are not negative,
\* a window to start in, inputs that exist, conditions that ask for somebody.
ASSUME ConfigAssumption ==
  \A c \in Configs :
    /\ c.dnd \in [on : BOOLEAN, from : 0..DayLength - 1, to : 0..DayLength - 1]
    /\ {c.warning, c.planned, c.deadline} \subseteq Int /\ c.planned < c.deadline
    /\ {c.until, c.advance, c.next} \subseteq Int
    /\ {c.window, c.clear, c.settle} \subseteq Nat /\ c.time \in Nat \cup {Never}
    /\ c.busy \subseteq Sensors /\ c.paths \subseteq SUBSET Sensors
    /\ c.groups \subseteq SUBSET Conditions
    /\ \A k \in Conditions :
         /\ c.conds[k].people \subseteq Sensors
         /\ c.conds[k].minimum \in Nat \ {0} /\ c.conds[k].dwell \in Nat

ASSUME InputsAssumption == IsFiniteSet(Sensors) /\ Conditions \cap ZoneKinds = {}

VARIABLES
  now,
  config, gate, mode, override,  \* options of the entry
  sensor, device,                \* states of Home Assistant
  held,     \* _zone_stable_since and _true_since, by input
  job,      \* the occurrence
  recheck, forceAt,              \* the instants to look again
  timers,   \* instants armed
  watched,  \* sensors with a listener of _subscribe_zone_inputs or _subscribe_force_inputs
  queue, holder, tails,          \* reconciles: waiting for the lock, in it, past it
  drain, requested,              \* _zone_reconcile_task, _zone_reconcile_requested
  index, pending,                \* _debounce_task, _pending_jobs
  goodSince, blind, lent, evaluated, missed,  \* history
  flips, changes, slow, user     \* bounds

options == <<config, gate, mode, override>>
hass == <<sensor, device>>
tasks == <<queue, holder, tails, drain, requested, index, pending>>
bounds == <<flips, changes, slow, user>>
vars == <<now, options, hass, held, job, recheck, forceAt, timers, watched, tasks,
          goodSince, blind, lent, evaluated, missed, bounds>>

Nobody == "nobody"
Active == job.state \in {"PLANNED", "WAIT"}
InMode(allow) == IF allow THEN override ELSE "none"
OwnMode == InMode(mode = "DRY_RUN")
ForceSensors(c) == IF c.advance = 0 THEN {} ELSE UNION {c.conds[k].people : k \in UNION c.groups}
ZoneSensors(c) == c.busy \cup UNION c.paths

-----------------------------------------------------------------------------
\* Snapshots

NowGood(k) == Good(config, k, sensor)

\* The hold timers after a snapshot at "now" that sees the override o.
Snapped(o) ==
  [k \in Kinds |-> IF k \in ZoneKinds THEN Stabilize(config, k, sensor, o, held[k], now) ELSE held[k]]

\* A hold is blind if its input went bad and no snapshot has seen that; it is
\* lent if an override began it.
Observed(o, h) ==
  /\ blind' = [k \in Kinds |-> blind[k] /\ (k \notin ZoneKinds \/ IsGood(config, k, sensor, o))]
  /\ lent' = (h["occupancy"] # Never /\ (lent \/ (held["occupancy"] = Never /\ o = "free")))

Snapshot(o) == LET h == Snapped(o) IN held' = h /\ Observed(o, h)

Forgotten == [k \in Kinds |-> IF k \in ZoneKinds THEN Never ELSE held[k]]

\* reset_zone_stability, then the snapshot of _subscribe_zone_inputs.
ResetAndSubscribe ==
  LET h == [k \in Kinds |-> IF k \in ZoneKinds THEN Stabilize(config, k, sensor, override, Never, now)
                            ELSE held[k]]
  IN  /\ held' = h
      /\ blind' = [k \in Kinds |-> k \in Conditions /\ blind[k]]
      /\ lent' = (h["occupancy"] # Never /\ override = "free")
      /\ watched' = Sensors

-----------------------------------------------------------------------------
\* Events and tasks

\* _request_zone_reconcile
Request ==
  /\ requested' = (drain = "on")
  /\ drain' = "on"
  /\ queue' = IF drain = "on" THEN queue ELSE queue \cup {"drain"}

\* An occurrence that started or ended is not followed; a task that finds the
\* lock free has it before anything else happens.
Open == Active /\ (queue = {} \/ holder # Nobody)

\* An event for the listeners of the zone and of the force conditions.
Heard(known) == IF known THEN Request ELSE UNCHANGED <<drain, requested, queue>>

\* An event for the dependency index.  It hears of every input of an indexed
\* job; where the zone's listener does as well the drain looks earlier, and the
\* index is left out.
Indexed(alone) ==
  IF alone /\ job.indexed
  THEN pending' = TRUE /\ index' = IF index = "idle" THEN "sleeping" ELSE index
  ELSE UNCHANGED <<pending, index>>

Due == \E t \in timers : t <= now

Tick ==
  /\ Active /\ now < Horizon
  /\ ~Due /\ index # "sleeping"
  /\ \/ queue = {} /\ holder = Nobody /\ tails = {} /\ slow' = slow
     \/ (holder # Nobody \/ tails # {}) /\ slow < config.max.slow /\ slow' = slow + 1
  /\ (queue # {} => holder # Nobody)
  /\ now' = now + 1
  /\ UNCHANGED <<options, hass, held, job, recheck, forceAt, timers, watched, tasks,
                 goodSince, blind, lent, evaluated, missed, flips, changes, user>>

Sense(s, st) ==
  /\ Open /\ flips < config.max.flips /\ flips' = flips + 1
  /\ sensor[s].st # st
  /\ sensor' = [sensor EXCEPT ![s] = [st |-> st, since |-> now]]
  /\ goodSince' = [k \in Kinds |-> IF ~Good(config, k, sensor') THEN Never
                                   ELSE IF goodSince[k] = Never THEN now ELSE goodSince[k]]
  /\ blind' = [k \in Kinds |-> blind[k] \/ (held[k] # Never /\ ~Good(config, k, sensor'))]
  /\ LET heard == s \in watched \cup ForceSensors(config)
     IN  /\ Heard(heard)
         /\ Indexed(~heard /\ s \in ZoneSensors(config))
         /\ missed' = \/ missed
                      \/ /\ ~heard /\ s \in ZoneSensors(config)
                         /\ index = "calling" \/ (~job.indexed /\ config.advance > 0)
  /\ UNCHANGED <<now, options, device, held, job, recheck, forceAt, timers, watched, holder, tails,
                 lent, evaluated, changes, slow, user>>

DeviceChanges(d) ==
  /\ Open /\ changes < config.max.changes /\ changes' = changes + 1
  /\ d # device /\ device' = d
  /\ Request
  /\ UNCHANGED <<now, options, sensor, held, job, recheck, forceAt, timers, watched, holder, tails,
                 index, pending, goodSince, blind, lent, evaluated, missed, flips, slow, user>>

\* _debounced_recheck after its sleep.
Debounced ==
  /\ Active /\ index = "sleeping"
  /\ pending' = FALSE
  /\ IF pending THEN index' = "calling" /\ queue' = queue \cup {"index"}
     ELSE index' = "idle" /\ queue' = queue
  /\ UNCHANGED <<now, options, hass, held, job, recheck, forceAt, timers, watched, holder, tails,
                 drain, requested, goodSince, blind, lent, evaluated, missed, bounds>>

TimerDue(t) ==
  /\ Active /\ t <= now
  /\ timers' = timers \ {t}
  /\ queue' = queue \cup {"timer"}
  /\ UNCHANGED <<now, options, hass, held, job, recheck, forceAt, watched, holder, tails, drain,
                 requested, index, pending, goodSince, blind, lent, evaluated, missed, bounds>>

-----------------------------------------------------------------------------
\* One reconcile

Report(h) == Blockers(config, gate, device, sensor, OwnMode, h, now)
LookAgain(B) == NextRecheck(config, device, gate, B, now)

Finish(state) ==
  /\ job' = [job EXCEPT !.state = state]
  /\ recheck' = Never /\ forceAt' = Never
  /\ UNCHANGED <<held, blind, lent>>

Suppressed == now >= config.planned /\ GateClosed(config, gate, now)

Suppress == Active /\ Suppressed /\ Finish("SUPPRESSED")

Expire == Active /\ ~Suppressed /\ now >= config.deadline /\ Finish("FAILED")

\* The conditions of the early run, evaluated in its window only.
Dwelt(h) ==
  [k \in Kinds |->
     IF k \in ZoneKinds THEN h[k]
     ELSE IF config.advance > 0 /\ now >= ForceOpens(config) /\ job.state = "PLANNED"
          THEN IF Good(config, k, sensor)
               THEN IF held[k] # Never THEN held[k] ELSE Seed(config, k, sensor)
               ELSE Never
          ELSE Never]

EarlyRun(h) ==
  /\ config.advance > 0 /\ now >= ForceOpens(config) /\ job.state = "PLANNED"
  /\ ConditionsMatched(config, h, now)

\* Before the planned start: the preview of an announced job, and the early run.
Preview ==
  /\ Active /\ now < config.planned
  /\ LET announced == job.announced \/ (job.state = "PLANNED" /\ now >= config.warning)
         previewed == announced /\ job.state = "PLANNED"
         dwelt == Dwelt(held)
         snap == previewed \/ EarlyRun(dwelt)
         h == IF snap THEN Dwelt(Snapped(OwnMode)) ELSE dwelt
         B == Report(h)
         again == LookAgain(B)
         early == EarlyRun(h) /\ Verdict(B) = "PASS" /\ ProtectionAllows(config, now)
     IN  /\ held' = h
         /\ lent' = (h["occupancy"] # Never
                       /\ (lent \/ (held["occupancy"] = Never /\ OwnMode = "free")))
         /\ blind' = [k \in Kinds |-> blind[k] /\
                        (IF k \in ZoneKinds THEN snap => IsGood(config, k, sensor, OwnMode)
                         ELSE h[k] # Never)]
         /\ job' = [job EXCEPT !.announced = announced,
                               !.indexed = @ \/ previewed,
                               !.state = IF early THEN "STARTED" ELSE @,
                               !.early = early]
         /\ recheck' = IF early THEN Never ELSE IF previewed THEN again ELSE recheck
         /\ forceAt' = IF early \/ job.state # "PLANNED" THEN Never
                       ELSE Earliest(ForceTransitions(config, B, h, again, now))

\* From the planned start on the verdict counts.
Authorise ==
  /\ Active /\ ~Suppressed /\ config.planned <= now /\ now < config.deadline
  /\ LET h == [k \in Kinds |-> IF k \in ZoneKinds THEN Snapped(OwnMode)[k] ELSE Never]
         B == Report(h)
     IN  /\ held' = h /\ Observed(OwnMode, h)
         /\ job' = [job EXCEPT !.indexed = TRUE,
                               !.state = CASE Verdict(B) = "PASS" -> "STARTED"
                                           [] Verdict(B) = "FAIL" -> "FAILED"
                                           [] Verdict(B) = "WAIT" -> "WAIT"]
         /\ recheck' = IF Verdict(B) = "WAIT" THEN LookAgain(B) ELSE Never
         /\ forceAt' = Never

\* async_reconcile gets the lock.
Enter(t) ==
  /\ holder = Nobody
  /\ queue' = queue \ {t} /\ holder' = t
  /\ evaluated' = now /\ missed' = FALSE
  /\ Suppress \/ Expire \/ Preview \/ Authorise
  /\ UNCHANGED <<now, options, hass, timers, watched, tails, drain, requested, index, pending,
                 goodSince, bounds>>

\* It lets it go; its notifications follow.
Release ==
  /\ Active /\ holder # Nobody
  /\ holder' = Nobody /\ tails' = tails \cup {holder}
  /\ UNCHANGED <<now, options, hass, held, job, recheck, forceAt, timers, watched, queue, drain,
                 requested, index, pending, goodSince, blind, lent, evaluated, missed, bounds>>

Targets ==
  {config.deadline, recheck, forceAt}
    \cup (IF job.state = "PLANNED" THEN {config.warning, config.planned} ELSE {})

\* Mutant: the drain ends although an event came in meanwhile.
AfterDrain(t) ==
  IF t = "drain" THEN drain' = "idle" /\ requested' = FALSE /\ queue' = queue
  ELSE UNCHANGED <<drain, requested, queue>>

\* _drain goes round again if an event came in meanwhile.
After(t) ==
  IF t = "drain"
  THEN IF requested THEN queue' = queue \cup {"drain"} /\ requested' = FALSE /\ drain' = drain
       ELSE drain' = "idle" /\ UNCHANGED <<requested, queue>>
  ELSE UNCHANGED <<drain, requested, queue>>

\* _arm_job_timers with the instants of now, and the end of the task.
Arm(t) ==
  /\ Active
  /\ tails' = tails \ {t}
  /\ timers' = {x \in Targets : x > now}
  /\ missed' = (missed \/ \E x \in Targets : evaluated < x /\ x <= now)
  /\ After(t)
  /\ index' = IF t = "index" THEN "idle" ELSE index
  /\ UNCHANGED <<now, options, hass, held, job, recheck, forceAt, watched, holder, pending,
                 goodSince, blind, lent, evaluated, bounds>>

-----------------------------------------------------------------------------
\* The rest of the program and its operators

\* A snapshot of somebody else: the panel's status sees the overrides in any
\* mode, the water and charging observers never do.
Look(allow) ==
  /\ Open
  /\ held # Snapped(InMode(allow))
  /\ Snapshot(InMode(allow))
  /\ UNCHANGED <<now, options, hass, job, recheck, forceAt, timers, watched, tasks,
                 goodSince, evaluated, missed, bounds>>

Operate == Open /\ user < config.max.user /\ user' = user + 1

Watchdog ==
  /\ Operate
  /\ queue' = queue \cup {"timer"}
  /\ UNCHANGED <<now, options, hass, held, job, recheck, forceAt, timers, watched, holder, tails,
                 drain, requested, index, pending, goodSince, blind, lent, evaluated, missed,
                 flips, changes, slow>>

\* async_set_override, async_clear_overrides and the presets: dry-run only.
SetOverride(o) ==
  /\ Operate
  /\ mode = "DRY_RUN" /\ o # override /\ override' = o
  /\ queue' = queue \cup {"timer"}
  /\ UNCHANGED <<now, config, gate, mode, hass, held, job, recheck, forceAt, timers, watched,
                 holder, tails, drain, requested, index, pending, goodSince, blind, lent,
                 evaluated, missed, flips, changes, slow>>

\* async_settings_changed after an edit of the policy.
SetGate(g) ==
  /\ Operate
  /\ g # gate /\ gate' = g
  /\ ResetAndSubscribe
  /\ queue' = queue \cup {"timer"}
  /\ UNCHANGED <<now, config, mode, override, hass, job, recheck, forceAt, timers, holder, tails,
                 drain, requested, index, pending, goodSince, evaluated, missed,
                 flips, changes, slow>>

\* _apply_execution_mode_change: the untouched occurrence begins anew.
GoReal ==
  /\ Operate
  /\ mode = "DRY_RUN" /\ mode' = "REAL" /\ holder = Nobody
  /\ job' = [job EXCEPT !.state = "PLANNED", !.indexed = FALSE]
  /\ recheck' = Never
  /\ ResetAndSubscribe
  /\ queue' = queue \cup {"timer"}
  /\ pending' = FALSE
  /\ UNCHANGED <<now, config, gate, override, hass, forceAt, timers, holder, tails, drain,
                 requested, index, goodSince, evaluated, missed, flips, changes, slow>>

\* A reload of the entry: a new engine with the stored job and the overrides.
Reload ==
  /\ Operate
  /\ holder = Nobody
  /\ LET h == [k \in Kinds |-> IF k \in ZoneKinds THEN Stabilize(config, k, sensor, override, Never, now)
                               ELSE Never]
     IN  held' = h /\ lent' = (h["occupancy"] # Never /\ override = "free")
  /\ blind' = [k \in Kinds |-> FALSE]
  /\ watched' = Sensors
  /\ job' = [job EXCEPT !.indexed = FALSE]
  /\ timers' = {} /\ tails' = {} /\ forceAt' = Never
  /\ queue' = {"timer"} /\ drain' = "idle" /\ requested' = FALSE /\ index' = "idle" /\ pending' = FALSE
  /\ UNCHANGED <<now, options, hass, recheck, holder, goodSince, evaluated, missed,
                 flips, changes, slow>>

-----------------------------------------------------------------------------
\* What a reconcile now would do.
Releasable ==
  LET h == Dwelt(Snapped(OwnMode))
  IN  /\ Active /\ Verdict(Report(h)) = "PASS"
      /\ IF now < config.planned THEN EarlyRun(h) /\ ProtectionAllows(config, now)
         ELSE ~Suppressed /\ now < config.deadline
Overdue == Active /\ (Suppressed \/ now >= config.deadline)

Quiet == queue = {} /\ holder = Nobody /\ tails = {} /\ ~Due /\ index # "sleeping"
Starts == job.state # "STARTED" /\ job'.state = "STARTED"
GivenUp == job.state # "FAILED" /\ job'.state = "FAILED" /\ now < config.deadline
Settled(k) == goodSince[k] # Never /\ now - goodSince[k] >= Delay(config, k)

\* Instants are where they belong: what is held began in the past, what is to
\* be looked at again lies after the last look.
TypeOK ==
  /\ now \in 0..Horizon
  /\ gate \in {"enabled", "disabled", "until"} /\ mode \in {"REAL", "DRY_RUN"}
  /\ override \in {"none", "free", "busy"}
  /\ \A k \in Kinds : held[k] \in Never..now /\ goodSince[k] \in Never..now
  /\ job.state \in {"PLANNED", "WAIT", "STARTED", "FAILED", "SUPPRESSED"}
  /\ \A t \in {recheck, forceAt} : t = Never \/ t > evaluated
  /\ queue \cup tails \cup {holder} \subseteq {"timer", "drain", "index", Nobody}
  /\ drain \in {"idle", "on"} /\ index \in {"idle", "sleeping", "calling"}

\* No wake-up is missing: while no reconcile is under way or due, a reconcile
\* would neither start the occurrence nor end it.  So a zone is released at
\* the configured second and not by the watchdog (preflight.py:516-518), and
\* the last of a burst of events counts (_drain).  Three gaps are in the code
\* and excused: an instant that passed before the timers were armed; an event
\* only the dependency index heard while it was calling back; and an event of a
\* renamed input before the first preview of an occurrence that may run early.
Punctual == Quiet /\ ~missed => ~Releasable /\ ~Overdue

\* An occurrence starts only when its zone has been free and reachable for as
\* long as configured, and early only when the conditions have been true for
\* as long as configured, whatever the sensors did in between - unless nobody
\* looked while they were bad, or an override of dry-run began the hold.
SettledIsContinuous ==
  [][Starts =>
       /\ Settled("access") \/ blind["access"]
       /\ Settled("occupancy") \/ blind["occupancy"] \/ lent \/ OwnMode = "free" \/ config.accepted
       /\ job'.early => \E g \in config.groups : g # {} /\ \A k \in g : Settled(k) \/ blind[k]]_vars

\* Test overrides are "never effective in REAL mode" (async_set_override): a
\* REAL start waits for the occupancy delay whatever was overridden before.
OverrideNeverReal ==
  [][Starts /\ mode = "REAL" /\ ~blind["occupancy"] /\ ~config.accepted => Settled("occupancy")]_vars

\* An occurrence is given up only if it could not start any more: with the
\* inputs as they are it passes at no later instant before its deadline.
FailIsFinal ==
  [][GivenUp /\ ~GateClosed(config, gate, now) =>
       \A t \in now..(config.deadline - 1) :
          Verdict(Blockers(config, gate, device, sensor, OwnMode, held', t)) # "PASS"]_vars

\* What starts has the time it was promised: for its minimum window and its
\* forecast there is no do-not-disturb, and the deadline is not reached.
StartFitsWindow ==
  [][Starts => \A t \in now..(now + Max({config.window, config.time}) - 1) :
                  ~InDnd(config, t) /\ t < config.deadline]_vars

-----------------------------------------------------------------------------
Init ==
  /\ now = 0
  /\ config \in Configs /\ gate \in config.gates /\ mode \in config.modes /\ override = "none"
  /\ sensor \in [Sensors -> [st : {"good", "bad"}, since : {0}]]
  /\ device \in config.devices
  /\ held = [k \in Kinds |-> Never]
  /\ job = [state |-> "PLANNED", announced |-> FALSE, indexed |-> FALSE, early |-> FALSE]
  /\ recheck = Never /\ forceAt = Never /\ timers = {}
  /\ watched \in {Sensors, {}}
  /\ queue = {"timer"} /\ holder = Nobody /\ tails = {}
  /\ drain = "idle" /\ requested = FALSE /\ index = "idle" /\ pending = FALSE
  /\ goodSince = [k \in Kinds |-> IF Good(config, k, sensor) THEN 0 ELSE Never]
  /\ blind = [k \in Kinds |-> FALSE] /\ lent = FALSE /\ evaluated = Never /\ missed = FALSE
  /\ flips = 0 /\ changes = 0 /\ slow = 0 /\ user = 0

Inputs ==
  \/ \E s \in Sensors, st \in config.states : Sense(s, st)
  \/ \E d \in config.devices : DeviceChanges(d)

Reconciling ==
  \/ Debounced
  \/ \E t \in timers : TimerDue(t)
  \/ \E t \in queue : Enter(t)
  \/ Release
  \/ \E t \in tails : Arm(t)

Operating ==
  \/ \E allow \in BOOLEAN : Look(allow)
  \/ Watchdog \/ GoReal \/ Reload
  \/ \E o \in {"none", "free", "busy"} : SetOverride(o)
  \/ \E g \in config.gates : SetGate(g)

Next == Tick \/ Inputs \/ Reconciling \/ Operating
Spec == Init /\ [][Next]_vars
=============================================================================
