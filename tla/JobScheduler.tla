----------------------------- MODULE JobScheduler -----------------------------
(***************************************************************************)
(* The engine's reconcile over several occurrences and the one robot.      *)
(* Under its lock it prepares every job (follows its attempts, ends what   *)
(* is due to end, asks pre-flight about each unstarted zone) and then lets *)
(* the arbiter start at most one of the runnable ones.  Between the steps  *)
(* the emergency, the user and the configuration may move.                 *)
(***************************************************************************)
EXTENDS SchedulerArbiter

CONSTANTS
  N,            \* jobs are numbered 1..N in the order of their planned start
  Zones,        \* cleaning zones, each of one job
  ZonesOf,      \* the zones of each job
  Passes,       \* emulated passes of each job (pass_total)
  ByHand,       \* jobs created by the user, released at once
  MayForce,     \* jobs whose schedule allows an early start
  Preempting,   \* those of them that preempt scheduled work
  Plans,        \* zone policies and robot targets that occur
  MayDisable,   \* zones the user may disable
  LateBlockers, \* passes before which a blocker may still turn up
  MaxAttempts   \* attempts of one job

Jobs == 1..N

ASSUME JobsAssumption ==
  /\ N \in Nat /\ MaxAttempts \in Nat
  /\ ZonesOf \in [Jobs -> SUBSET Zones] /\ \A j \in Jobs : ZonesOf[j] # {}
  /\ Passes \in [Jobs -> Nat \ {0}]
  /\ ByHand \subseteq Jobs /\ MayForce \subseteq Jobs \ ByHand /\ Preempting \subseteq MayForce
  /\ MayDisable \subseteq Zones
ASSUME PlansAssumption ==
  \A plan \in Plans : plan.combined \subseteq Jobs /\ DOMAIN plan.target = Zones

ZoneStates == {"PLANNED", "WAIT", "STARTING", "RUNNING", "SUCCESS", "FAILED", "SKIPPED"}
JobStates == {"PLANNED", "WAIT", "STARTING", "RUNNING", "FINISHED"}
AttemptStates == {"STARTING", "RUNNING", "CANCEL_REQUESTED", "COMPLETED", "FAILED"}
Results == {"none", "SUCCESS", "PARTIAL_SUCCESS", "FAILED", "SUPPRESSED"}

\* confirmed: the robot was seen to start; linked: next_pass_attempt_id names an
\* attempt of the job.
Attempts(j) ==
  [zones : SUBSET ZonesOf[j], pass : 1..Passes[j], state : AttemptStates,
   confirmed : BOOLEAN, linked : BOOLEAN]

VARIABLES
  job,       \* the jobs, zones and attempts in memory
  plan,      \* policy snapshot and robot targets
  released,  \* jobs whose planned start has come
  expired,   \* jobs whose deadline has passed
  gate,      \* the global execution gate is closed
  disabled,  \* zones disabled in the configuration
  at,        \* where the reconcile stands
  stopped    \* history: jobs cancelled by the user or interrupted by an outage

world == <<plan, released, expired, gate, disabled>>
vars == <<job, world, at, stopped>>

TypeOK ==
  /\ DOMAIN job = Jobs
  /\ \A j \in Jobs :
       /\ DOMAIN job[j] = {"zones", "attempts", "state", "result", "forced", "interrupted"}
       /\ job[j].zones \in [ZonesOf[j] -> ZoneStates]
       /\ \A k \in DOMAIN job[j].attempts : job[j].attempts[k] \in Attempts(j)
       /\ job[j].state \in JobStates
       /\ job[j].result \in Results
       /\ job[j].state = "FINISHED" <=> job[j].result # "none"
       /\ job[j].forced \in BOOLEAN /\ job[j].interrupted \in BOOLEAN
  /\ plan \in Plans
  /\ released \subseteq Jobs /\ expired \subseteq released
  /\ gate \in BOOLEAN
  /\ disabled \subseteq MayDisable
  /\ at.step \in {"idle", "prepare"} /\ at.next \in 1..N + 1
  /\ at.ready \in [Jobs -> SUBSET Zones]
  /\ stopped \subseteq Jobs

Idle == [step |-> "idle", next |-> 1, ready |-> [j \in Jobs |-> {}]]

Init ==
  /\ job = [j \in Jobs |->
              [zones |-> [z \in ZonesOf[j] |-> "PLANNED"], attempts |-> <<>>, state |-> "PLANNED",
               result |-> "none", forced |-> FALSE, interrupted |-> FALSE]]
  /\ plan \in Plans
  /\ released = ByHand
  /\ expired = {}
  /\ gate = FALSE
  /\ disabled = {}
  /\ at = Idle
  /\ stopped = {}

-----------------------------------------------------------------------------
\* Zones and attempts

Done == {"SUCCESS", "FAILED", "SKIPPED"}
Unstarted == {"PLANNED", "WAIT"}

Open(b) == {z \in DOMAIN b.zones : b.zones[z] \notin Done}
Pending(b) == {z \in DOMAIN b.zones : b.zones[z] \in Unstarted}

ActiveAttempt(a) == a.state \in {"STARTING", "RUNNING", "CANCEL_REQUESTED"}
Active(b) == {k \in DOMAIN b.attempts : ActiveAttempt(b.attempts[k])}

\* Zones of S that are not finished take the state s.
Put(b, S, s) ==
  [b EXCEPT !.zones = [z \in DOMAIN @ |-> IF z \in S /\ @[z] \notin Done THEN s ELSE @[z]]]

\* _sync_job_state_from_zones
Synced(b) ==
  IF b.result # "none" \/ Open(b) = {} THEN b
  ELSE [b EXCEPT !.state =
          CHOOSE s \in JobStates :
            /\ \E z \in Open(b) : b.zones[z] = s
            /\ \A z \in Open(b) :
                 /\ b.zones[z] = "RUNNING" => s = "RUNNING"
                 /\ b.zones[z] = "STARTING" => s \in {"RUNNING", "STARTING"}
                 /\ b.zones[z] = "WAIT" => s # "PLANNED"]

\* The job leaves the store; the attempts of the archived record matter here
\* only while one of them is still running.
Finished(b, result) ==
  [b EXCEPT !.state = "FINISHED", !.result = result, !.forced = FALSE, !.interrupted = FALSE,
            !.attempts = IF Active(b) = {} THEN <<>> ELSE @]

\* _aggregate_job_if_complete
Aggregated(b) ==
  LET clean == {z \in DOMAIN b.zones : b.zones[z] = "SUCCESS"}
  IN  IF b.result # "none" \/ Open(b) # {} THEN b
      ELSE Finished(b, IF clean = DOMAIN b.zones THEN "SUCCESS"
                       ELSE IF clean # {} THEN "PARTIAL_SUCCESS" ELSE "FAILED")

\* Mutant: attempts that have ended are not synchronised any more.
ZonesSyncedLive(j, b, a) ==
  CASE a.state = "STARTING" -> Put(b, a.zones, "STARTING")
    [] a.state \in {"RUNNING", "CANCEL_REQUESTED"} ->
         IF a.confirmed THEN Put(b, a.zones, "RUNNING") ELSE b
    [] a.state \in {"COMPLETED", "FAILED"} -> b

\* What an attempt makes of its zones (_sync_attempt_to_zones).
ZonesSynced(j, b, a) ==
  CASE a.state = "STARTING" -> Put(b, a.zones, "STARTING")
    [] a.state \in {"RUNNING", "CANCEL_REQUESTED"} ->
         IF a.confirmed THEN Put(b, a.zones, "RUNNING") ELSE b
    [] a.state = "COMPLETED" ->
         Put(b, a.zones, IF a.pass = Passes[j] THEN "SUCCESS" ELSE "RUNNING")
    [] a.state = "FAILED" -> Put(b, a.zones, "FAILED")

\* _start_attempt: the command goes out; a late blocker takes the attempt back
\* and lets the job wait; or the start fails for good.
Started(j, b, zones, pass, outcome) ==
  LET a == [zones |-> zones, pass |-> pass, confirmed |-> FALSE, linked |-> FALSE,
            state |-> IF outcome = "sent" THEN "STARTING" ELSE "FAILED"]
  IN  IF outcome = "deferred"
      THEN [Put(b, zones, "WAIT") EXCEPT !.state = "WAIT"]
      ELSE ZonesSynced(j, [b EXCEPT !.attempts = Append(@, a)], a)

\* What may come of a start of this pass.
Outcomes(pass) ==
  IF pass \in LateBlockers THEN {"sent", "deferred", "failed"} ELSE {"sent", "failed"}

-----------------------------------------------------------------------------
\* async_progress_job

\* What observation may make of an attempt.
Observed(a) ==
  CASE a.state = "STARTING" -> {"STARTING", "RUNNING", "FAILED"}
    [] a.state = "RUNNING" -> {"RUNNING", "COMPLETED", "FAILED"}
    [] a.state = "CANCEL_REQUESTED" -> {"CANCEL_REQUESTED", "FAILED"}
    [] a.state \in {"COMPLETED", "FAILED"} -> {a.state}

\* Mutant: the link to the successor is not read.
HasSuccessorUnlinked(j, b, a) ==
  /\ a.state = "COMPLETED" /\ a.pass < Passes[j]
  /\ ~b.interrupted
  /\ a.zones \cap Open(b) # {}

\* A completed pass is succeeded once, by the zones that are still open, and
\* not after an outage.  A link to an attempt that a late blocker took back is
\* cleared before it is read again, so it is never set here.
HasSuccessor(j, b, a) ==
  /\ a.state = "COMPLETED" /\ a.pass < Passes[j] /\ ~a.linked
  /\ ~b.interrupted
  /\ a.zones \cap Open(b) # {}

\* Attempt k of b is observed, synchronised and succeeded, in every way.
Advanced(j, b, k) ==
  LET a(state) == [b.attempts[k] EXCEPT !.state = state, !.confirmed = @ \/ state = "RUNNING"]
      c(state) == ZonesSynced(j, [b EXCEPT !.attempts[k] = a(state)], a(state))
      succeeded(d, outcome) ==
        Started(j, [d EXCEPT !.attempts[k].linked = outcome # "deferred"],
                d.attempts[k].zones \cap Open(d), d.attempts[k].pass + 1, outcome)
  IN  UNION {IF HasSuccessor(j, c(state), a(state))
             THEN {succeeded(c(state), outcome) : outcome \in Outcomes(b.attempts[k].pass + 1)}
             ELSE {c(state)} : state \in Observed(b.attempts[k])}

\* The attempts b had, one after the other, within the bound.
Progress(j, b) ==
  LET after[k \in 0..Len(b.attempts)] ==
        IF k = 0 THEN {b} ELSE UNION {Advanced(j, c, k) : c \in after[k - 1]}
  IN  {c \in after[Len(b.attempts)] : Len(c.attempts) <= MaxAttempts}

-----------------------------------------------------------------------------
\* _prepare_job

Prepared(j, b, ready) ==
  /\ job' = [job EXCEPT ![j] = b]
  /\ at' = [at EXCEPT !.next = j + 1, !.ready[j] = IF b.result = "none" THEN ready ELSE {}]

\* The job ends with its attempts.
PrepareFinished(j, p) ==
  /\ Aggregated(p).result # "none"
  /\ Prepared(j, Aggregated(p), {})

\* After an outage nothing more is started.
PrepareInterrupted(j, p) ==
  /\ Open(p) # {} /\ p.interrupted
  /\ Prepared(j, IF Active(p) # {} THEN p ELSE Aggregated(Put(p, Open(p), "FAILED")), {})

\* The earliest start: an early execution that was committed is its own release.
Due(j, p) == j \in released \/ p.forced

Suppressed(j, p) == gate /\ Due(j, p) /\ j \notin ByHand

\* A closed gate consumes the occurrence, but not what is being cleaned.
\* Attempts that never reached their command are not in the job.
PrepareSuppressed(j, p) ==
  /\ Open(p) # {} /\ ~p.interrupted /\ Suppressed(j, p)
  /\ LET q == Put(p, Pending(p), "SKIPPED")
     IN  Prepared(j, IF p.attempts = <<>> THEN Finished(q, "SUPPRESSED")
                     ELSE Synced(Aggregated(q)), {})

\* Mutant: the deadline closes all zones, started or not.
PrepareExpiredAll(j, p) ==
  /\ Open(p) # {} /\ ~p.interrupted /\ ~Suppressed(j, p) /\ j \in expired
  /\ Prepared(j, Synced(Aggregated(Put(p, Open(p), "FAILED"))), {})

\* The deadline limits the permission to start; what is started may finish.
PrepareExpired(j, p) ==
  /\ Open(p) # {} /\ ~p.interrupted /\ ~Suppressed(j, p) /\ j \in expired
  /\ Prepared(j, Synced(Aggregated(Put(p, Pending(p), "FAILED"))), {})

PrepareEarly(j, p) ==
  /\ Open(p) # {} /\ ~p.interrupted /\ ~Due(j, p)
  /\ Prepared(j, p, {})

\* Zones whose target also belongs to a zone that is open and not ready.
SharedBlocked(b, ready) ==
  {z \in ready : \E y \in Open(b) \ ready : plan.target[y] = plan.target[z]}

\* Mutant: a combined job starts with the zones that are ready.
CombinedProgressively(j, b, ready) == ready

\* A combined job starts with all its unstarted zones or not at all.
PolicyReady(j, b, ready) ==
  IF j \in plan.combined /\ ~(Pending(b) \subseteq ready) THEN {} ELSE ready

\* A combined job that has not begun falls with the first of its zones.
PolicyFailed(j, b) ==
  IF j \in plan.combined /\ b.attempts = <<>> /\ \E z \in DOMAIN b.zones : b.zones[z] = "FAILED"
  THEN Put(b, Open(b), "FAILED") ELSE b

Disabled(b) == disabled \cap Open(b)

\* Pre-flight answers for every unstarted zone; a closed gate fails them all.
Verdicts(S) == [S -> IF gate THEN {"FAIL"} ELSE {"PASS", "WAIT", "FAIL"}]

PrepareAuthoritative(j, p, verdict) ==
  LET on(answer) == {z \in DOMAIN verdict : verdict[z] = answer}
      skip == Put(p, Disabled(p), "SKIPPED")
      told == PolicyFailed(j, Put(Put(skip, on("FAIL"), "FAILED"), on("WAIT"), "WAIT"))
      ready == PolicyReady(j, told, on("PASS") \cap Open(told))
      held == SharedBlocked(told, ready)
  IN
  /\ Open(p) # {} /\ ~p.interrupted /\ ~Suppressed(j, p) /\ j \notin expired /\ Due(j, p)
  /\ Prepared(j, Synced(Aggregated(Put(told, held, "WAIT"))), ready \ held)

Prepare(j) ==
  /\ at.step = "prepare" /\ at.next = j /\ job[j].result = "none"
  /\ \E p \in Progress(j, job[j]) :
       \/ PrepareFinished(j, p)
       \/ PrepareInterrupted(j, p)
       \/ PrepareSuppressed(j, p)
       \/ PrepareExpired(j, p)
       \/ PrepareEarly(j, p)
       \/ \E verdict \in Verdicts(Pending(p) \ disabled) : PrepareAuthoritative(j, p, verdict)
  /\ UNCHANGED <<world, stopped>>

\* Terminal jobs are no longer in the store.
PassOver(j) ==
  /\ at.step = "prepare" /\ at.next = j /\ job[j].result # "none"
  /\ at' = [at EXCEPT !.next = j + 1]
  /\ UNCHANGED <<job, world, stopped>>

BeginReconcile ==
  /\ at.step = "idle"
  /\ at' = [Idle EXCEPT !.step = "prepare"]
  /\ UNCHANGED <<job, world, stopped>>

-----------------------------------------------------------------------------
\* _arbitrate_jobs

\* Mutant: an attempt holds the lease once it runs.
LeaseOfRunning ==
  \A j \in Jobs : \A k \in DOMAIN job[j].attempts : job[j].attempts[k].state # "RUNNING"

LeaseFree == \A j \in Jobs : job[j].result = "none" => Active(job[j]) = {}

\* Early starts that the probe admits; their window, conditions and the
\* protection of the plan may say anything.
Forceable(j) ==
  /\ j \in MayForce \ released /\ job[j].state = "PLANNED" /\ job[j].attempts = <<>>
  /\ ~job[j].forced /\ ~gate /\ LeaseFree

EarlySets(j) ==
  LET considered == Open(job[j]) \ disabled
      free(S) == S \ SharedBlocked(job[j], S)
  IN  IF ~Forceable(j) THEN {{}}
      ELSE IF j \in plan.combined THEN {{}, free(considered)} \cap {{}, considered}
      ELSE {free(S) : S \in SUBSET considered}

Candidate(j, class) ==
  [id |-> j, class |-> class, origin |-> IF j \in ByHand THEN "manual" ELSE "scheduled",
   triggered |-> IF j \in ByHand THEN j ELSE Never, released |-> Never,
   planned |-> j, priority |-> 0, preempts |-> j \in Preempting]

DueClass(j) ==
  IF j \in ByHand THEN "manual"
  ELSE IF job[j].forced /\ j \notin released THEN "forced" ELSE "scheduled"

DueCandidates == {Candidate(j, DueClass(j)) : j \in {i \in Jobs : at.ready[i] # {}}}

EarlyCandidates(early) == {Candidate(j, "forced") : j \in {i \in Jobs : early[i] # {}}}

\* _set_execution_lease_wait; early starts never wait.
LeaseWaits(jobs) ==
  [j \in Jobs |->
     IF \E c \in DueCandidates : c.id = j /\ c.class # "forced" /\ j \in jobs
     THEN Synced(Put(job[j], at.ready[j], "WAIT")) ELSE job[j]]

ArbitrateNobody(early) ==
  /\ Selected(DueCandidates \cup EarlyCandidates(early), LeaseFree) = {}
  /\ job' = LeaseWaits(IF LeaseFree THEN {} ELSE Jobs)

\* An early start is marked before it is tried and unmarked when no attempt
\* came of it.
ArbitrateStart(early, outcome) ==
  \E c \in Selected(DueCandidates \cup EarlyCandidates(early), LeaseFree) :
    LET j == c.id
        b == Synced(Started(j, job[j], at.ready[j] \cup early[j], 1, outcome))
    IN  /\ Len(b.attempts) <= MaxAttempts
        /\ job' = [LeaseWaits(Jobs \ {j}) EXCEPT
                     ![j] = IF c.class = "forced" THEN [b EXCEPT !.forced = outcome # "deferred"]
                            ELSE b]

Arbitrate ==
  /\ at.step = "prepare" /\ at.next = N + 1
  /\ \E early \in [Jobs -> SUBSET Zones] :
       /\ \A j \in Jobs : early[j] \in EarlySets(j)
       /\ ArbitrateNobody(early) \/ \E outcome \in Outcomes(1) : ArbitrateStart(early, outcome)
  /\ at' = Idle
  /\ UNCHANGED <<world, stopped>>

-----------------------------------------------------------------------------
\* What the emergency and the user do; the user waits for the lock.

Cancelled(b) ==
  [b EXCEPT !.attempts = [k \in DOMAIN @ |->
     IF ActiveAttempt(@[k]) THEN [@[k] EXCEPT !.state = "CANCEL_REQUESTED"] ELSE @[k]]]

PowerLoss ==
  LET hit == {j \in Jobs : job[j].result = "none" /\ Active(job[j]) # {}}
  IN  /\ hit # {}
      /\ job' = [j \in Jobs |-> IF j \in hit THEN [Cancelled(job[j]) EXCEPT !.interrupted = TRUE]
                                ELSE job[j]]
      /\ stopped' = stopped \cup hit
      /\ UNCHANGED <<world, at>>

\* async_start_job_now before the planned start: an early execution by hand.
StartNow(j) ==
  /\ at.step = "idle" /\ j \notin released /\ job[j].state \in Unstarted
  /\ job' = [job EXCEPT ![j].forced = TRUE]
  /\ UNCHANGED <<world, at, stopped>>

Skip(j) ==
  /\ at.step = "idle" /\ job[j].state \in Unstarted
  /\ job' = [job EXCEPT ![j] = Aggregated(Put(@, Open(@), "FAILED"))]
  /\ UNCHANGED <<world, at, stopped>>

\* Mutant: the cancel stops the robot only.
CancelRunning(j) ==
  /\ at.step = "idle" /\ job[j].state \in {"STARTING", "RUNNING"}
  /\ job' = [job EXCEPT ![j] = Cancelled(@)]
  /\ stopped' = stopped \cup {j}
  /\ UNCHANGED <<world, at>>

Cancel(j) ==
  /\ at.step = "idle" /\ job[j].state \in {"STARTING", "RUNNING"}
  /\ job' = [job EXCEPT ![j] = Aggregated(Put(Cancelled(@), Pending(@), "FAILED"))]
  /\ stopped' = stopped \cup {j}
  /\ UNCHANGED <<world, at>>

-----------------------------------------------------------------------------
\* Time, which stands still within a reconcile, and the configuration.

Release(j) ==
  /\ at.step = "idle" /\ job[j].result = "none"
  /\ j \notin released /\ released' = released \cup {j}
  /\ UNCHANGED <<job, plan, expired, gate, disabled, at, stopped>>

Expire(j) ==
  /\ at.step = "idle" /\ job[j].result = "none"
  /\ j \in released \ expired /\ expired' = expired \cup {j}
  /\ UNCHANGED <<job, plan, released, gate, disabled, at, stopped>>

SetGate ==
  /\ gate' = ~gate
  /\ UNCHANGED <<job, plan, released, expired, disabled, at, stopped>>

DisableZone(z) ==
  /\ z \in MayDisable \ disabled /\ disabled' = disabled \cup {z}
  /\ UNCHANGED <<job, plan, released, expired, gate, at, stopped>>

Next ==
  \/ BeginReconcile
  \/ \E j \in Jobs : Prepare(j) \/ PassOver(j)
  \/ Arbitrate
  \/ PowerLoss
  \/ \E j \in Jobs : StartNow(j) \/ Skip(j) \/ Cancel(j) \/ Release(j) \/ Expire(j)
  \/ SetGate
  \/ \E z \in Zones : DisableZone(z)

Spec == Init /\ [][Next]_vars

-----------------------------------------------------------------------------
\* docs/en/ARCHITECTURE.md: only one physical execution lease may exist per
\* robot, whichever of arbiter, next pass and retry started the attempt.
LeaseExclusive ==
  \A i, j \in Jobs : \A k \in Active(job[i]), l \in Active(job[j]) :
    job[i].result = "none" /\ job[j].result = "none" => i = j /\ k = l

\* The same over all attempts, whether or not their job is still in the store.
RobotExclusive ==
  \A i, j \in Jobs : \A k \in Active(job[i]), l \in Active(job[j]) : i = j /\ k = l

\* docs/en/ARCHITECTURE.md: an early execution is never silently duplicated at
\* the original planned time.  No zone is sent out twice for the same pass of
\* an occurrence, whichever of early start, schedule, next pass and retry
\* does it.
NoRepeat ==
  \A j \in Jobs : \A k, l \in DOMAIN job[j].attempts :
    LET a == job[j].attempts[k]
        b == job[j].attempts[l]
    IN  k # l /\ a.pass = b.pass => a.zones \cap b.zones = {}

\* An occurrence that has ended does not leave the robot cleaning for it,
\* unless the user disabled the zone that was being cleaned.
NoOrphanUnlessDisabled ==
  \A j \in Jobs : job[j].result # "none" =>
    \A k \in Active(job[j]) : job[j].attempts[k].zones \cap disabled # {}

\* A zone in hand is followed by an attempt, or its next pass is about to be
\* tried: neither pre-flight nor the deadline ever looks at it again.
InHandIsFollowed ==
  at.step = "idle" =>
    \A j \in Jobs : \A z \in Open(job[j]) :
      job[j].zones[z] \in {"STARTING", "RUNNING"} =>
        \E k \in DOMAIN job[j].attempts :
          LET a == job[j].attempts[k]
          IN  z \in a.zones /\ (ActiveAttempt(a) \/ HasSuccessor(j, job[j], a))

\* Zones of one robot target are cleaned together, and a combined job is
\* started as a whole: no such zone waits while another is in hand.
StartedTogether ==
  \A j \in Jobs : \A y, z \in Open(job[j]) :
    /\ plan.target[y] = plan.target[z] \/ j \in plan.combined
    /\ job[j].zones[y] \in {"STARTING", "RUNNING"}
    => job[j].zones[z] \notin Unstarted \/ z \in disabled

\* docs/en/POWER_MONITORING.md and the comment of async_cancel_job: no further
\* passes or zones start for a job that was interrupted or cancelled.
NothingAfterStop ==
  [][\A j \in stopped : Len(job'[j].attempts) <= Len(job[j].attempts)]_vars

\* A reconcile after the deadline ends the occurrence or leaves it to a
\* running attempt: no early return keeps it waiting.
DeadlineEnds ==
  [][\A j \in expired :
       at.step = "prepare" /\ at.next = j /\ at'.next # j =>
         job'[j].result # "none" \/ Active(job'[j]) # {}]_vars
=============================================================================
