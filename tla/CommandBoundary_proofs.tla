------------------------- MODULE CommandBoundary_proofs -------------------------
(***************************************************************************)
(* The start protocol of CommandBoundary is correct for every set of       *)
(* reports, every limit and every number of crashes.                       *)
(*                                                                         *)
(* The argument: a job has an intent only in states that startup recovery  *)
(* observes, and waits only without an attempt (GoodJobs).  Once a start   *)
(* was sent every copy of the job - in memory, on disk, and in snapshots   *)
(* still to be written - carries the intent (CommittedJobs), so whichever  *)
(* of them a crash or a late write brings back, no second start follows.   *)
(* The barrier is what makes the step from "no start sent" to "all copies  *)
(* committed": Station says what has been saved where the engine waits.    *)
(* For results, and so for StartOnce, the copies are ordered by age: none  *)
(* that is later than one with the job's result reopens it (OutcomeInv).   *)
(***************************************************************************)
EXTENDS CommandBoundary, SequenceTheorems, TLAPS

Sound(j) ==
  /\ j.attempt.intent => j.attempt.state \notin {"PREPARING", "NONE"}
  /\ j.zone = "WAIT" => j.attempt = NoAttempt

GoodJobs == {j \in Jobs : Sound(j)}
CommittedJobs == {j \in GoodJobs : j.attempt.intent}
Snapshots(jobs) == [by : Savers, image : jobs]

Clocks ==
  /\ recovering \in BOOLEAN /\ emergency \in {"idle", "commands", "saving"}
  /\ latched \in BOOLEAN /\ power \in {"on", "off", "unknown"} /\ expired \in BOOLEAN
  /\ crashes \in 0..MaxCrashes

GoodCopies == job \in GoodJobs /\ disk \in GoodJobs /\ saves \in Seq(Snapshots(GoodJobs))

SentIsCommitted ==
  sent > 0 => job \in CommittedJobs /\ disk \in CommittedJobs
              /\ saves \in Seq(Snapshots(CommittedJobs))

\* From the engine's own snapshot on, every snapshot carries the intent; once
\* it has been written, so do the disk and all that is still to be written.
IntentIsSaved ==
  /\ \A i \in DOMAIN saves : saves[i].by = "engine" =>
       \A k \in DOMAIN saves : k >= i => saves[k].image \in CommittedJobs
  /\ Saved("engine") => disk \in CommittedJobs /\ saves \in Seq(Snapshots(CommittedJobs))

Station ==
  /\ pc \in Stations
  /\ pc \in {"prepare", "muting"} => sent = 0 /\ job.attempt \in Attempts
  /\ pc = "barrier" => sent = 0 /\ job \in CommittedJobs /\ IntentIsSaved
  /\ pc = "command" => sent > 0
  /\ pc \in {"idle", "prepare"} => Saved("engine")
  /\ pc = "down" => saves = <<>> /\ emergency = "idle"

IInv == Clocks /\ GoodCopies /\ sent \in {0, 1} /\ SentIsCommitted /\ Station

-----------------------------------------------------------------------------
(* What an observation may do to an attempt, for every report and every       *)
(* limit: the result is an attempt, the record of the command intent is not   *)
(* touched, and no attempt falls back to PREPARING, the one state from which  *)
(* startup recovery sends a start command.                                    *)

Keeps(a, b) ==
  /\ b \in Attempts
  /\ b.intent = a.intent
  /\ a.state # "PREPARING" => b.state # "PREPARING"

LEMMA OlderType ==
  ASSUME NEW age \in Ages
  PROVE  Older(age) \in Ages
BY LimitAssumption DEF Ages, Older

LEMMA TimerType == NoTimer \in Ages /\ 0 \in Ages
BY LimitAssumption DEF Ages, NoTimer

LEMMA NewAttemptType ==
  ASSUME NEW final \in BOOLEAN
  PROVE  /\ NewAttempt(final) \in Attempts
         /\ NewAttempt(final).intent = FALSE
         /\ NewAttempt(final).state = "PREPARING"
BY TimerType DEF NewAttempt, Attempts, AttemptStates, AttemptReasons

\* Time passing changes no state and no intent.
LEMMA AgedKeeps ==
  ASSUME NEW a \in Attempts
  PROVE  Keeps(a, Aged(a)) /\ Aged(a).state = a.state
<1>1. \A age \in Ages : Older(age) \in Ages
  BY OlderType
<1> QED
  BY <1>1 DEF Attempts, Aged, Keeps

LEMMA FinishKeeps ==
  ASSUME NEW a \in Attempts, NEW state \in TerminalAttemptStates, NEW reason \in AttemptReasons
  PROVE  Keeps(a, Finish(a, state, reason)) /\ Finish(a, state, reason).state = state
<1>1. state \in AttemptStates /\ state # "PREPARING"
  BY DEF AttemptStates, TerminalAttemptStates
<1> QED
  BY <1>1, TimerType DEF Attempts, Finish, Keeps

LEMMA KeepsTransitive ==
  ASSUME NEW a, NEW b, NEW c, Keeps(a, b), Keeps(b, c)
  PROVE  Keeps(a, c)
BY DEF Keeps

LEMMA ProgressSeen ==
  ASSUME NEW a \in Attempts,
         NEW cleaning \in BOOLEAN, NEW floor \in BOOLEAN, NEW service \in BOOLEAN
  PROVE  LET b == [a EXCEPT !.cleaningSeen = cleaning, !.floorDone = floor,
                            !.serviceSeen = service]
         IN  b \in Attempts /\ b.state = a.state /\ b.intent = a.intent
BY DEF Attempts

LEMMA DockSeen ==
  ASSUME NEW a \in Attempts,
         NEW empty \in BOOLEAN, NEW postService \in BOOLEAN, NEW postEmpty \in BOOLEAN
  PROVE  LET b == [a EXCEPT !.emptySeen = empty, !.postService = postService,
                            !.postEmpty = postEmpty]
         IN  b \in Attempts /\ b.state = a.state /\ b.intent = a.intent
BY DEF Attempts

\* Evidence is noted without a decision.
LEMMA MarkedKeeps ==
  ASSUME NEW a \in Attempts, NEW o
  PROVE  Keeps(a, Marked(a, o)) /\ Marked(a, o).state = a.state
<1>1. PICK cleaning \in BOOLEAN : cleaning = CleaningMarked(a, o)
  BY Zenon DEF CleaningMarked
<1>2. PICK floor \in BOOLEAN : floor = FloorMarked(a, o)
  BY Zenon DEF FloorMarked
<1>3. PICK service \in BOOLEAN : service = (a.serviceSeen \/ Serving(a, o))
  OBVIOUS
<1>4. PICK empty \in BOOLEAN : empty = (a.emptySeen \/ (Serving(a, o) /\ o.autoEmpty))
  OBVIOUS
<1>5. PICK postService \in BOOLEAN :
        postService = (a.postService \/ (Promoted(a, o) /\ a.serviceSeen)
                                     \/ (FloorMarked(a, o) /\ Serving(a, o)))
  OBVIOUS
<1>6. PICK postEmpty \in BOOLEAN :
        postEmpty = (a.postEmpty \/ (EmptyPromoted(a, o) /\ a.emptySeen)
                                 \/ (FloorMarked(a, o) /\ Serving(a, o) /\ o.autoEmpty))
  OBVIOUS
<1> DEFINE seen == [a EXCEPT !.cleaningSeen = cleaning, !.floorDone = floor,
                             !.serviceSeen = service]
           docked == [seen EXCEPT !.emptySeen = empty, !.postService = postService,
                                  !.postEmpty = postEmpty]
<1>7. Marked(a, o) = [a EXCEPT !.cleaningSeen = cleaning, !.floorDone = floor,
                               !.serviceSeen = service, !.emptySeen = empty,
                               !.postService = postService, !.postEmpty = postEmpty]
  BY <1>1, <1>2, <1>3, <1>4, <1>5, <1>6, Zenon DEF Marked
<1>8. seen \in Attempts /\ seen.state = a.state /\ seen.intent = a.intent
  BY ProgressSeen, Zenon
<1>9. docked \in Attempts /\ docked.state = seen.state /\ docked.intent = seen.intent
  <2> HIDE DEF seen
  <2> QED
    BY <1>8, DockSeen, Zenon
<1>10. docked = Marked(a, o)
  BY <1>7 DEF Attempts
<1> HIDE DEF seen, docked
<1> QED
  BY <1>8, <1>9, <1>10 DEF Keeps

LEMMA CancellingKeeps ==
  ASSUME NEW a \in Attempts, NEW o
  PROVE  Keeps(a, Cancelling(a, o))
<1>1. /\ Keeps(a, Finish(a, "FAILED", "power_supply_lost"))
      /\ Keeps(a, Finish(a, "CANCELLED", "user_cancelled"))
  BY FinishKeeps DEF TerminalAttemptStates, AttemptReasons
<1>2. Keeps(a, a)
  BY DEF Keeps
<1> QED
  BY <1>1, <1>2 DEF Cancelling

LEMMA IncidentOpenedKeeps ==
  ASSUME NEW a \in Attempts
  PROVE  Keeps(a, IncidentOpened(a))
<1>1. "ROBOT_ERROR_BLOCKED" \in AttemptStates
  BY DEF AttemptStates, Owned
<1> QED
  BY <1>1, TimerType DEF Attempts, IncidentOpened, Keeps

LEMMA ErringKeeps ==
  ASSUME NEW a \in Attempts
  PROVE  Keeps(a, Erring(a))
<1> DEFINE opened == IncidentOpened(a)
<1>1. Keeps(a, opened) /\ opened \in Attempts
  BY IncidentOpenedKeeps DEF Keeps
<1>2. Keeps(a, Finish(a, "FAILED", "execution_failed"))
  BY FinishKeeps DEF TerminalAttemptStates, AttemptReasons
<1>3. Keeps(opened, Finish(opened, "FAILED", "robot_error_recovery_timeout"))
  <2> HIDE DEF opened
  <2> QED
    BY <1>1, FinishKeeps DEF TerminalAttemptStates, AttemptReasons
<1>4. Keeps(a, Finish(opened, "FAILED", "robot_error_recovery_timeout"))
  <2> HIDE DEF opened
  <2> QED
    BY <1>1, <1>3, KeepsTransitive
<1> QED
  BY <1>1, <1>2, <1>4 DEF Erring

LEMMA BlockingKeeps ==
  ASSUME NEW a \in Attempts, NEW o
  PROVE  Keeps(a, Blocking(a, o))
<1> DEFINE held == [a EXCEPT !.quietAge = NoTimer, !.errorAge = NoTimer]
           floor == [held EXCEPT !.floorDone = TRUE]
           blocked == [held EXCEPT !.state = "ROBOT_SERVICE_BLOCKED",
                                   !.blockedBefore = @ \/ a.state # "ROBOT_SERVICE_BLOCKED"]
<1>1. Keeps(a, held)
  BY TimerType DEF Attempts, Keeps
<1>2. Keeps(held, floor)
  BY <1>1 DEF Attempts, Keeps
<1>3. Keeps(floor, Finish(floor, "COMPLETED", "none"))
  <2>1. floor \in Attempts
    BY <1>2 DEF Keeps
  <2> HIDE DEF floor
  <2> QED
    BY <2>1, FinishKeeps DEF TerminalAttemptStates, AttemptReasons
<1>4. Keeps(a, blocked)
  <2>1. "ROBOT_SERVICE_BLOCKED" \in AttemptStates
    BY DEF AttemptStates, Owned
  <2> QED
    BY <2>1, <1>1 DEF Attempts, Keeps
<1>5. Keeps(a, Finish(floor, "COMPLETED", "none"))
  <2> HIDE DEF held, floor
  <2> QED
    BY <1>1, <1>2, <1>3, KeepsTransitive
<1> QED
  BY <1>4, <1>5 DEF Blocking

LEMMA ObservationStateType ==
  ASSUME NEW o
  PROVE  /\ ObservationState(o) \in Owned /\ ObservationState(o) \in AttemptStates
         /\ ObservationState(o) # "PREPARING"
BY DEF ObservationState, Owned, AttemptStates

LEMMA ConfirmKeeps ==
  ASSUME NEW a \in Attempts, NEW state \in AttemptStates, state # "PREPARING"
  PROVE  Keeps(a, Confirm(a, state))
BY TimerType DEF Attempts, Confirm, Keeps

LEMMA StateKeeps ==
  ASSUME NEW a \in Attempts, NEW state \in AttemptStates, state # "PREPARING"
  PROVE  Keeps(a, [a EXCEPT !.state = state])
BY DEF Attempts, Keeps

LEMMA ConfirmingKeeps ==
  ASSUME NEW a \in Attempts, NEW o, NEW blocked
  PROVE  Keeps(a, Confirming(a, o, blocked))
<1> DEFINE held == Confirm(a, "ROBOT_SERVICE_BLOCKED")
<1>1. /\ "ROBOT_SERVICE_BLOCKED" \in AttemptStates /\ "ROBOT_SERVICE_BLOCKED" # "PREPARING"
      /\ "RECONCILING" \in AttemptStates /\ "RECONCILING" # "PREPARING"
  BY DEF AttemptStates, Owned
<1>2. Keeps(a, held)
  BY <1>1, ConfirmKeeps
<1>3. Keeps(a, [held EXCEPT !.blockedBefore = TRUE])
  <2> HIDE DEF held
  <2> QED
    BY <1>2 DEF Attempts, Keeps
<1>4. Keeps(a, Confirm(a, ObservationState(o)))
  BY ObservationStateType, ConfirmKeeps
<1>5. /\ Keeps(a, Finish(a, "FAILED", "execution_preempted_external"))
      /\ Keeps(a, Finish(a, "FAILED", "execution_start_timeout"))
  BY FinishKeeps DEF TerminalAttemptStates, AttemptReasons
<1>6. Keeps(a, [a EXCEPT !.state = "RECONCILING"])
  BY <1>1, StateKeeps
<1>7. Keeps(a, a)
  BY DEF Keeps
<1> QED
  BY <1>3, <1>4, <1>5, <1>6, <1>7 DEF Confirming

LEMMA CandidateArmedKeeps ==
  ASSUME NEW a \in Attempts
  PROVE  Keeps(a, CandidateArmed(a))
<1>1. "COMPLETION_PENDING" \in AttemptStates
  BY DEF AttemptStates, Owned
<1> QED
  BY <1>1, TimerType DEF Attempts, CandidateArmed, Keeps

LEMMA SettlingKeeps ==
  ASSUME NEW a \in Attempts, NEW o
  PROVE  Keeps(a, Settling(a, o))
<1> DEFINE released == [a EXCEPT !.blockedBefore = FALSE]
<1>1. Keeps(a, released) /\ released \in Attempts
  BY DEF Attempts, Keeps
<1> HIDE DEF released
<1>2. Keeps(released, CandidateArmed(released)) /\ Keeps(a, CandidateArmed(a))
  BY <1>1, CandidateArmedKeeps
<1>3. Keeps(released, Finish(released, "COMPLETED", "none"))
  BY <1>1, FinishKeeps DEF TerminalAttemptStates, AttemptReasons
<1>4. Keeps(a, CandidateArmed(released)) /\ Keeps(a, Finish(released, "COMPLETED", "none"))
  BY <1>1, <1>2, <1>3, KeepsTransitive
<1>5. Keeps(a, [a EXCEPT !.state = "ROBOT_SERVICE_BLOCKED"])
  BY StateKeeps DEF AttemptStates, Owned
<1>6. Keeps(a, a)
  BY DEF Keeps
<1> QED
  BY <1>2, <1>4, <1>5, <1>6 DEF Settling, released

LEMMA FollowingKeeps ==
  ASSUME NEW a \in Attempts, NEW o
  PROVE  Keeps(a, Following(a, o))
<1>1. /\ Keeps(a, [a EXCEPT !.state = "RECONCILING"])
      /\ Keeps(a, [a EXCEPT !.state = "ROBOT_SERVICE"])
  BY StateKeeps DEF AttemptStates, Owned
<1>2. PICK blocked \in BOOLEAN :
        blocked = (a.blockedBefore /\ o.phase = "SERVICE_BLOCKED")
  OBVIOUS
<1>3. PICK seen \in AttemptStates : seen = ObservationState(o) /\ seen # "PREPARING"
  BY ObservationStateType
<1>4. Keeps(a, [a EXCEPT !.state = seen, !.quietAge = NoTimer, !.blockedBefore = blocked])
  BY <1>3, TimerType DEF Attempts, Keeps
<1>5. Keeps(a, [a EXCEPT !.state = ObservationState(o), !.quietAge = NoTimer,
                         !.blockedBefore = @ /\ o.phase = "SERVICE_BLOCKED"])
  BY <1>2, <1>3, <1>4, Zenon
<1>6. Keeps(a, Settling(a, o)) /\ Keeps(a, a)
  BY SettlingKeeps DEF Keeps
<1> QED
  BY <1>1, <1>5, <1>6 DEF Following

LEMMA RecoveringKeeps ==
  ASSUME NEW a \in Attempts, NEW o
  PROVE  Keeps(a, Recovering(a, o))
<1> DEFINE running == [a EXCEPT !.state = "RUNNING", !.errorAge = NoTimer]
           seen == ObservationState(o)
<1>1. Keeps(a, Finish(a, "FAILED", "robot_error_recovery_timeout"))
  BY FinishKeeps DEF TerminalAttemptStates, AttemptReasons
<1>2. Keeps(a, [a EXCEPT !.state = seen, !.errorAge = NoTimer, !.quietAge = NoTimer])
  <2>1. seen \in AttemptStates /\ seen # "PREPARING"
    BY ObservationStateType
  <2> HIDE DEF seen
  <2> QED
    BY <2>1, TimerType DEF Attempts, Keeps
<1>3. Keeps(a, running) /\ running \in Attempts
  <2>1. "RUNNING" \in AttemptStates
    BY DEF AttemptStates, Owned
  <2> QED
    BY <2>1, TimerType DEF Attempts, Keeps
<1>4. Keeps(a, Following(running, o))
  <2> HIDE DEF running
  <2> QED
    BY <1>3, FollowingKeeps, KeepsTransitive
<1>5. Keeps(a, a)
  BY DEF Keeps
<1> QED
  BY <1>1, <1>2, <1>4, <1>5 DEF Recovering

LEMMA ProgressedKeeps ==
  ASSUME NEW a \in Attempts, NEW o, NEW sensor
  PROVE  Keeps(a, Progressed(a, o, sensor))
<1> DEFINE marked == Marked(a, o)
<1>1. Keeps(a, marked) /\ marked \in Attempts
  BY MarkedKeeps DEF Keeps
<1> HIDE DEF marked
<1>2. Keeps(marked, Decided(marked, o, ResourceBlocked(o, sensor)))
  BY <1>1, CancellingKeeps, ErringKeeps, BlockingKeeps, RecoveringKeeps, ConfirmingKeeps,
     FollowingKeeps
     DEF Decided
<1>3. Keeps(a, Decided(marked, o, ResourceBlocked(o, sensor)))
  BY <1>1, <1>2, KeepsTransitive
<1>4. Keeps(a, a)
  BY DEF Keeps
<1> QED
  BY <1>3, <1>4 DEF Progressed, marked

LEMMA ProgressedByDeadlineKeeps ==
  ASSUME NEW a \in Attempts, NEW o, NEW sensor, NEW late
  PROVE  Keeps(a, ProgressedByDeadline(a, o, sensor, late))
<1> DEFINE next == Progressed(a, o, sensor)
<1>1. Keeps(a, next) /\ next \in Attempts
  BY ProgressedKeeps DEF Keeps
<1> HIDE DEF next
<1>2. Keeps(next, Finish(next, "FAILED", "resource_blocked_until_deadline"))
  BY <1>1, FinishKeeps DEF TerminalAttemptStates, AttemptReasons
<1>3. Keeps(a, Finish(next, "FAILED", "resource_blocked_until_deadline"))
  BY <1>1, <1>2, KeepsTransitive
<1> QED
  BY <1>1, <1>3 DEF ProgressedByDeadline, next

-----------------------------------------------------------------------------
(* What the operations do to one job *)

LEMMA NoAttemptFacts ==
  /\ NoAttempt.state = "NONE" /\ NoAttempt.intent = FALSE /\ NoAttempt.reason = "none"
  /\ NoAttempt \notin Attempts /\ "NONE" \notin AttemptStates
<1>1. "NONE" \notin AttemptStates
  BY DEF AttemptStates, Prestart, Owned, TerminalAttemptStates
<1>2. NoAttempt.state = "NONE" /\ NoAttempt.intent = FALSE /\ NoAttempt.reason = "none"
  BY DEF NoAttempt, NewAttempt
<1> QED
  BY <1>1, <1>2 DEF Attempts

\* A job whose attempt is active or started has one and does not wait.
LEMMA HasAttempt ==
  ASSUME NEW j \in GoodJobs
  PROVE  /\ Active(j.attempt) => j.attempt \in Attempts /\ j.zone # "WAIT"
         /\ j.attempt.intent => j.attempt \in Attempts /\ j.zone # "WAIT"
         /\ j.attempt.state # "NONE" => j.attempt \in Attempts /\ j.zone # "WAIT"
BY NoAttemptFacts DEF GoodJobs, Jobs, Sound, Active

\* An attempt may be put in the place of another one that was not waiting.
LEMMA AttemptReplaced ==
  ASSUME NEW j \in GoodJobs, j.zone # "WAIT", NEW b \in Attempts,
         b.intent => b.state # "PREPARING"
  PROVE  LET k == [j EXCEPT !.attempt = b]
         IN  k \in GoodJobs /\ k.attempt = b /\ k.zone = j.zone
<1> DEFINE k == [j EXCEPT !.attempt = b]
<1>1. k \in Jobs /\ k.attempt = b /\ k.zone = j.zone
  BY DEF GoodJobs, Jobs
<1>2. b.state # "NONE"
  BY NoAttemptFacts DEF Attempts
<1> QED
  BY <1>1, <1>2 DEF GoodJobs, Sound

LEMMA ZoneFinishedGood ==
  ASSUME NEW j \in GoodJobs, NEW reason \in ZoneReasons
  PROVE  LET k == ZoneFinished(j, reason)
         IN  k \in GoodJobs /\ k.attempt = j.attempt
BY DEF GoodJobs, Jobs, Sound, ZoneFinished, ZoneStates

LEMMA ReasonType ==
  ASSUME NEW j \in GoodJobs
  PROVE  j.attempt.reason \in ZoneReasons
BY NoAttemptFacts DEF GoodJobs, Jobs, ZoneReasons, Attempts, AttemptReasons

LEMMA SyncedGood ==
  ASSUME NEW j \in GoodJobs
  PROVE  Synced(j) \in GoodJobs /\ Synced(j).attempt = j.attempt
<1>1. /\ ZoneFinished(j, "execution_success") \in GoodJobs
      /\ ZoneFinished(j, "execution_success").attempt = j.attempt
  BY ZoneFinishedGood DEF ZoneReasons
<1>2. /\ ZoneFinished(j, j.attempt.reason) \in GoodJobs
      /\ ZoneFinished(j, j.attempt.reason).attempt = j.attempt
  BY ZoneFinishedGood, ReasonType
<1>3. ASSUME NEW zone \in {"STARTING", "RUNNING"}
      PROVE  /\ [j EXCEPT !.zone = zone] \in GoodJobs
             /\ [j EXCEPT !.zone = zone].attempt = j.attempt
  BY DEF GoodJobs, Jobs, Sound, ZoneStates
<1> QED
  BY <1>1, <1>2, <1>3 DEF Synced

LEMMA DeferredGood ==
  ASSUME NEW j \in GoodJobs
  PROVE  Deferred(j) \in GoodJobs
BY NoAttemptFacts DEF GoodJobs, Jobs, Sound, Deferred, ZoneStates

LEMMA AgedJobGood ==
  ASSUME NEW j \in GoodJobs
  PROVE  /\ AgedJob(j) \in GoodJobs
         /\ AgedJob(j).zone = j.zone
         /\ AgedJob(j).attempt.intent = j.attempt.intent
         /\ j.attempt \in Attempts => AgedJob(j).attempt \in Attempts
<1>1. CASE j.attempt \in Attempts
  <2>1. Aged(j.attempt) \in Attempts /\ Aged(j.attempt).intent = j.attempt.intent
        /\ Aged(j.attempt).state = j.attempt.state
    BY <1>1, AgedKeeps DEF Keeps
  <2>2. j.zone # "WAIT" /\ (j.attempt.intent => j.attempt.state # "PREPARING")
    BY <1>1, NoAttemptFacts DEF GoodJobs, Sound
  <2> QED
    BY <2>1, <2>2, AttemptReplaced DEF AgedJob
<1>2. CASE j.attempt = NoAttempt
  <2>1. Older(NoTimer) = NoTimer
    BY LimitAssumption DEF Older, NoTimer
  <2>2. /\ NoAttempt.startAge = NoTimer /\ NoAttempt.cancelAge = NoTimer
        /\ NoAttempt.errorAge = NoTimer /\ NoAttempt.quietAge = NoTimer
        /\ NoAttempt = [field \in DOMAIN NoAttempt |-> NoAttempt[field]]
    BY DEF NoAttempt, NewAttempt
  <2>3. Aged(NoAttempt) = NoAttempt
    BY <2>1, <2>2 DEF Aged
  <2>4. AgedJob(j) = j
    BY <1>2, <2>3 DEF AgedJob, GoodJobs, Jobs
  <2> QED
    BY <2>4
<1> QED
  BY <1>1, <1>2 DEF GoodJobs, Jobs

LEMMA PowerMarkedGood ==
  ASSUME NEW j \in GoodJobs, Active(j.attempt)
  PROVE  /\ PowerMarked(j) \in GoodJobs
         /\ PowerMarked(j).attempt \in Attempts
         /\ PowerMarked(j).attempt.intent = j.attempt.intent
<1> DEFINE age == IF j.attempt.cancelAge = NoTimer THEN 0 ELSE j.attempt.cancelAge
           cut == [j.attempt EXCEPT !.state = "CANCEL_REQUESTED", !.powerCut = TRUE,
                                    !.cancelAge = age]
           k == [j EXCEPT !.attempt = cut]
<1>1. j.attempt \in Attempts /\ j.zone # "WAIT"
  BY HasAttempt
<1>2. cut \in Attempts /\ cut.intent = j.attempt.intent /\ cut.state = "CANCEL_REQUESTED"
  <2>1. "CANCEL_REQUESTED" \in AttemptStates
    BY DEF AttemptStates
  <2>2. age \in Ages
    BY <1>1, TimerType DEF Attempts
  <2> HIDE DEF age
  <2> QED
    BY <1>1, <2>1, <2>2 DEF Attempts
<1>3. k \in GoodJobs /\ k.attempt = cut /\ k.zone = j.zone
  <2> HIDE DEF cut
  <2> QED
    BY <1>1, <1>2, AttemptReplaced
<1>4. PowerMarked(j) = [k EXCEPT !.interrupted = TRUE]
  BY DEF PowerMarked, GoodJobs, Jobs
<1> HIDE DEF k
<1>5. /\ PowerMarked(j) \in GoodJobs
      /\ PowerMarked(j).attempt = k.attempt /\ PowerMarked(j).zone = k.zone
  BY <1>3, <1>4 DEF GoodJobs, Jobs, Sound
<1> HIDE DEF cut
<1> QED
  BY <1>2, <1>3, <1>5

-----------------------------------------------------------------------------
(* What the saves do to the snapshots *)

LEMMA CommittedIsGood ==
  /\ CommittedJobs \subseteq GoodJobs
  /\ Snapshots(CommittedJobs) \subseteq Snapshots(GoodJobs)
BY DEF CommittedJobs, Snapshots

LEMMA SaveGood ==
  ASSUME saves \in Seq(Snapshots(GoodJobs)), NEW by \in Savers, NEW j \in GoodJobs,
         Save(by, j)
  PROVE  /\ saves' \in Seq(Snapshots(GoodJobs))
         /\ saves \in Seq(Snapshots(CommittedJobs)) /\ j \in CommittedJobs
              => saves' \in Seq(Snapshots(CommittedJobs))
BY DEF Save, Snapshots

LEMMA EmergencySaveKeepsSaved ==
  ASSUME NEW S, saves \in Seq(S), NEW j, Save("emergency", j)
  PROVE  Saved("engine")' <=> Saved("engine")
BY DEF Save, Saved

\* The emergency's own save cannot undo the commitment at the barrier.
LEMMA EmergencySaveKeepsIntent ==
  ASSUME saves \in Seq(Snapshots(GoodJobs)), NEW j \in CommittedJobs, Save("emergency", j),
         IntentIsSaved, UNCHANGED disk
  PROVE  IntentIsSaved'
<1>1. /\ Len(saves') = Len(saves) + 1 /\ DOMAIN saves' = 1..Len(saves')
      /\ DOMAIN saves = 1..Len(saves) /\ Len(saves) \in Nat
      /\ \A i \in DOMAIN saves : saves'[i] = saves[i]
      /\ saves'[Len(saves')].by = "emergency" /\ saves'[Len(saves')].image = j
  BY DEF Save
<1>2. \A i \in DOMAIN saves' : saves'[i].by = "engine" =>
        \A k \in DOMAIN saves' : k >= i => saves'[k].image \in CommittedJobs
  BY <1>1 DEF IntentIsSaved
<1>3. Saved("engine")' => Saved("engine")
  BY <1>1 DEF Saved
<1>4. Saved("engine")' => disk' \in CommittedJobs /\ saves' \in Seq(Snapshots(CommittedJobs))
  BY <1>3, SaveGood, CommittedIsGood DEF IntentIsSaved, Savers
<1> QED
  BY <1>2, <1>4 DEF IntentIsSaved

-----------------------------------------------------------------------------
(* Steps that occur in several actions *)

LEMMA ClocksKept ==
  ASSUME Clocks, recovering' \in BOOLEAN, UNCHANGED <<emergency, latched, world>>
  PROVE  Clocks'
BY DEF Clocks, world

LEMMA SaveAndReleaseKeeps ==
  ASSUME IInv, NEW j \in GoodJobs, sent > 0 => j.attempt.intent, SaveAndRelease(j),
         recovering' \in BOOLEAN, UNCHANGED <<disk, emergency, latched, world, sent>>
  PROVE  IInv'
<1>1. Clocks'
  BY ClocksKept DEF IInv
<1>2. GoodCopies'
  BY SaveGood DEF IInv, GoodCopies, SaveAndRelease, Savers
<1>3. SentIsCommitted'
  <2> SUFFICES ASSUME sent > 0
               PROVE  /\ job' \in CommittedJobs /\ disk' \in CommittedJobs
                      /\ saves' \in Seq(Snapshots(CommittedJobs))
    BY DEF SentIsCommitted
  <2>1. j \in CommittedJobs
    BY DEF CommittedJobs
  <2> QED
    BY <2>1, SaveGood DEF IInv, GoodCopies, SentIsCommitted, SaveAndRelease, Savers
<1>4. Station'
  BY DEF Station, SaveAndRelease, Stations
<1> QED
  BY <1>1, <1>2, <1>3, <1>4 DEF IInv

LEMMA EndingKeeps ==
  ASSUME IInv, job' \in GoodJobs, sent > 0 => job'.attempt.intent, pc' = "finish",
         recovering' \in BOOLEAN, UNCHANGED <<disk, saves, emergency, latched, world, sent>>
  PROVE  IInv'
<1>1. Clocks'
  BY ClocksKept DEF IInv
<1>2. GoodCopies' /\ SentIsCommitted'
  BY DEF IInv, GoodCopies, SentIsCommitted, CommittedJobs
<1>3. Station'
  BY DEF Station, Stations
<1> QED
  BY <1>1, <1>2, <1>3 DEF IInv

\* A save after which the engine waits where nothing is promised, or where a
\* start may still follow.
LEMMA MuteKeeps ==
  ASSUME IInv, Save("engine", job), pc' \in {"muting", "unmuting"},
         pc' = "muting" => pc = "prepare",
         UNCHANGED <<job, disk, recovering, emergency, latched, world, sent>>
  PROVE  IInv'
<1>1. Clocks'
  BY ClocksKept DEF IInv, Clocks
<1>2. GoodCopies'
  BY SaveGood DEF IInv, GoodCopies, Savers
<1>3. SentIsCommitted'
  BY SaveGood DEF IInv, GoodCopies, SentIsCommitted, Savers
<1>4. Station'
  BY DEF IInv, Station, Stations
<1> QED
  BY <1>1, <1>2, <1>3, <1>4 DEF IInv

\* While the engine is in the start protocol the job has an attempt.
LEMMA StartedJob ==
  ASSUME IInv, pc \in {"prepare", "muting", "barrier"}
  PROVE  /\ job \in GoodJobs /\ job.attempt \in Attempts /\ job.zone # "WAIT" /\ sent = 0
         /\ job.attempt.intent => job.attempt.state # "PREPARING"
<1>1. job \in GoodJobs /\ sent = 0 /\ job.attempt \in Attempts
  BY HasAttempt DEF IInv, GoodCopies, Station, CommittedJobs
<1> QED
  BY <1>1, NoAttemptFacts DEF GoodJobs, Sound

\* An occurrence that waits, or whose attempt is PREPARING, was never started.
LEMMA NotStarted ==
  ASSUME IInv, job.zone = "WAIT" \/ job.attempt.state \in {"PREPARING", "NONE"}
  PROVE  sent = 0
BY NoAttemptFacts DEF IInv, GoodCopies, SentIsCommitted, CommittedJobs, GoodJobs, Sound

-----------------------------------------------------------------------------
(* The engine's actions *)

LEMMA BeginStartKeeps ==
  ASSUME IInv, BeginStart
  PROVE  IInv'
<1>1. sent = 0
  BY NotStarted DEF BeginStart
<1>2. job' \in GoodJobs /\ job'.attempt \in Attempts
  <2>1. NewAttempt(TRUE) \in Attempts /\ NewAttempt(TRUE).intent = FALSE
    BY NewAttemptType
  <2>2. job \in Jobs
    BY DEF IInv, GoodCopies, GoodJobs
  <2> QED
    BY <2>1, <2>2 DEF BeginStart, GoodJobs, Jobs, Sound, ZoneStates
<1>3. Clocks' /\ GoodCopies'
  BY <1>2, ClocksKept DEF IInv, Clocks, GoodCopies, BeginStart
<1>4. Station'
  BY <1>1, <1>2 DEF IInv, Station, Stations, BeginStart, Saved
<1> QED
  BY <1>1, <1>3, <1>4 DEF IInv, SentIsCommitted, BeginStart

LEMMA FailBeforeCommandKeeps ==
  ASSUME IInv, sent = 0, job.zone # "WAIT", NEW a \in Attempts, NEW reason \in AttemptReasons,
         FailBeforeCommand(a, reason)
  PROVE  IInv'
<1> DEFINE failed == Finish(a, "FAILED", reason)
<1>1. failed \in Attempts /\ failed.state = "FAILED"
  BY FinishKeeps DEF Keeps, TerminalAttemptStates
<1>2. job' \in GoodJobs
  <2>1. job' = [job EXCEPT !.attempt = failed]
    BY DEF FailBeforeCommand
  <2> HIDE DEF failed
  <2> QED
    BY <1>1, <2>1, AttemptReplaced DEF IInv, GoodCopies
<1> QED
  BY <1>2, EndingKeeps DEF FailBeforeCommand, IInv, Clocks

LEMMA PreparingFacts ==
  ASSUME IInv, Preparing
  PROVE  pc \in {"prepare", "muting"} /\ Saved("engine")
BY DEF Preparing, IInv, Station

LEMMA PrepareFailsKeeps ==
  ASSUME IInv, NEW r \in Reports, PrepareFails(r)
  PROVE  IInv'
<1>1. PICK reason \in AttemptReasons : FailBeforeCommand(job.attempt, reason)
  BY DEF PrepareFails, FinalGuard, AttemptReasons
<1> QED
  BY <1>1, PreparingFacts, StartedJob, FailBeforeCommandKeeps DEF PrepareFails

LEMMA PowerRefusesIntentKeeps ==
  ASSUME IInv, PowerRefusesIntent
  PROVE  IInv'
BY PreparingFacts, StartedJob, FailBeforeCommandKeeps DEF PowerRefusesIntent, AttemptReasons

LEMMA WriteIntentKeeps ==
  ASSUME IInv, NEW r \in Reports, WriteIntent(r)
  PROVE  IInv'
<1> DEFINE intent == WithIntent(job.attempt)
<1>1. job \in GoodJobs /\ job.attempt \in Attempts /\ job.zone # "WAIT" /\ sent = 0
      /\ Saved("engine")
  BY PreparingFacts, StartedJob DEF WriteIntent
<1>2. intent \in Attempts /\ intent.intent /\ intent.state = "COMMAND_INTENT"
  <2>1. "COMMAND_INTENT" \in AttemptStates
    BY DEF AttemptStates, Prestart
  <2> QED
    BY <1>1, <2>1, TimerType DEF Attempts, WithIntent
<1>3. job' \in CommittedJobs /\ job' \in GoodJobs
  <2>1. job' = [job EXCEPT !.attempt = intent]
    BY DEF WriteIntent
  <2> HIDE DEF intent
  <2> QED
    BY <1>1, <1>2, <2>1, AttemptReplaced DEF CommittedJobs
<1>4. Clocks' /\ GoodCopies' /\ SentIsCommitted'
  BY <1>1, <1>3, ClocksKept, SaveGood
     DEF IInv, Clocks, GoodCopies, SentIsCommitted, WriteIntent, Savers
<1>5. IntentIsSaved'
  <2>1. /\ Len(saves') = Len(saves) + 1 /\ DOMAIN saves' = 1..Len(saves')
        /\ DOMAIN saves = 1..Len(saves) /\ Len(saves) \in Nat
        /\ \A i \in DOMAIN saves : saves'[i] = saves[i]
        /\ saves'[Len(saves')].by = "engine" /\ saves'[Len(saves')].image = job'
    BY DEF WriteIntent, Save, IInv, GoodCopies
  <2> QED
    BY <1>1, <1>3, <2>1 DEF IntentIsSaved, Saved
<1>6. Station'
  BY <1>1, <1>3, <1>5 DEF Station, Stations, WriteIntent
<1> QED
  BY <1>1, <1>4, <1>6 DEF IInv, WriteIntent

LEMMA PowerRefusesCommandKeeps ==
  ASSUME IInv, PowerRefusesCommand
  PROVE  IInv'
<1>1. job.attempt \in Attempts /\ job.zone # "WAIT" /\ sent = 0
  BY StartedJob DEF PowerRefusesCommand, BarrierPassed
<1>2. [job.attempt EXCEPT !.intent = FALSE] \in Attempts
  BY <1>1 DEF Attempts
<1> QED
  BY <1>1, <1>2, FailBeforeCommandKeeps DEF PowerRefusesCommand, AttemptReasons

\* The barrier: what has been saved by now carries the intent everywhere.
LEMMA SendStartKeeps ==
  ASSUME IInv, SendStart
  PROVE  IInv'
<1>1. /\ job \in CommittedJobs /\ disk \in CommittedJobs
      /\ saves \in Seq(Snapshots(CommittedJobs)) /\ sent = 0
  BY DEF IInv, Station, IntentIsSaved, SendStart, BarrierPassed
<1>2. Clocks' /\ GoodCopies'
  BY ClocksKept DEF IInv, Clocks, GoodCopies, SendStart
<1>3. SentIsCommitted'
  BY <1>1 DEF SentIsCommitted, SendStart
<1>4. Station'
  BY <1>1 DEF Station, Stations, SendStart
<1> QED
  BY <1>1, <1>2, <1>3, <1>4 DEF IInv, SendStart

LEMMA CommandAnsweredKeeps ==
  ASSUME IInv, NEW state \in {"START_REQUESTED", "RECONCILING"}, CommandAnswered(state)
  PROVE  IInv'
<1> DEFINE answered == [job.attempt EXCEPT !.state = state]
           j == [job EXCEPT !.attempt = answered]
<1>1. /\ job \in GoodJobs /\ job.attempt.intent
      /\ job.attempt \in Attempts /\ job.zone # "WAIT"
  <2>1. job \in GoodJobs /\ job.attempt.intent
    BY DEF IInv, GoodCopies, Station, SentIsCommitted, CommittedJobs, CommandAnswered
  <2> QED
    BY <2>1, HasAttempt
<1>2. answered \in Attempts /\ answered.intent /\ answered.state # "PREPARING"
  <2>1. state \in AttemptStates
    BY DEF AttemptStates, Prestart
  <2> QED
    BY <1>1, <2>1 DEF Attempts
<1>3. j \in GoodJobs /\ j.attempt.intent
  <2> HIDE DEF answered
  <2> QED
    BY <1>1, <1>2, AttemptReplaced
<1>4. SaveAndRelease(Synced(j))
  BY DEF CommandAnswered
<1> HIDE DEF j
<1>5. Synced(j) \in GoodJobs /\ Synced(j).attempt.intent
  BY <1>3, SyncedGood
<1> QED
  BY <1>4, <1>5, SaveAndReleaseKeeps DEF CommandAnswered, IInv, Clocks

LEMMA FinishDoneKeeps ==
  ASSUME IInv, FinishDone
  PROVE  IInv'
<1> DEFINE released == IF RetryablePrecommandWait(job.attempt) /\ ~recovering
                       THEN Deferred(job) ELSE Synced(job)
<1>1. job \in GoodJobs /\ (sent > 0 => job.attempt.intent)
  BY DEF IInv, GoodCopies, SentIsCommitted, CommittedJobs
<1>2. released \in GoodJobs /\ (sent > 0 => released.attempt.intent)
  BY <1>1, DeferredGood, SyncedGood DEF RetryablePrecommandWait
<1>3. SaveAndRelease(released)
  BY DEF FinishDone
<1> HIDE DEF released
<1> QED
  BY <1>2, <1>3, SaveAndReleaseKeeps DEF FinishDone, IInv, Clocks

LEMMA SaveDoneKeeps ==
  ASSUME IInv, SaveDone
  PROVE  IInv'
<1>1. Clocks' /\ GoodCopies' /\ SentIsCommitted'
  BY ClocksKept DEF IInv, GoodCopies, SentIsCommitted, SaveDone
<1>2. Station'
  BY DEF Station, Stations, SaveDone, Saved
<1> QED
  BY <1>1, <1>2 DEF IInv, SaveDone

\* What an observation makes of an attempt may take its place in the job.
LEMMA ObservedJob ==
  ASSUME IInv, job.attempt \in Attempts, NEW b, Keeps(job.attempt, b)
  PROVE  LET j == [job EXCEPT !.attempt = b]
         IN  j \in GoodJobs /\ (sent > 0 => j.attempt.intent)
<1>1. job \in GoodJobs /\ (sent > 0 => job.attempt.intent)
  BY DEF IInv, GoodCopies, SentIsCommitted, CommittedJobs
<1>2. job.zone # "WAIT" /\ (job.attempt.intent => job.attempt.state # "PREPARING")
  BY <1>1, NoAttemptFacts DEF GoodJobs, Sound
<1>3. b \in Attempts /\ b.intent = job.attempt.intent /\ (b.intent => b.state # "PREPARING")
  BY <1>2 DEF Keeps
<1> QED
  BY <1>1, <1>2, <1>3, AttemptReplaced

LEMMA ProgressKeeps ==
  ASSUME IInv, NEW r \in Reports, NEW sensor \in BOOLEAN, Progress(r, sensor)
  PROVE  IInv'
<1> DEFINE next == ProgressedByDeadline(job.attempt, Observation[r], sensor, expired)
           j == [job EXCEPT !.attempt = next]
<1>1. job.attempt \in Attempts
  BY HasAttempt DEF IInv, GoodCopies, Progress
<1>2. Keeps(job.attempt, next)
  BY <1>1, ProgressedByDeadlineKeeps
<1>3. j \in GoodJobs /\ (sent > 0 => j.attempt.intent)
  <2> HIDE DEF next
  <2> QED
    BY <1>1, <1>2, ObservedJob
<1>4. Synced(j) \in GoodJobs /\ (sent > 0 => Synced(j).attempt.intent)
  <2> HIDE DEF j
  <2> QED
    BY <1>3, SyncedGood
<1>5. \/ job' = j /\ pc' = "finish" /\ UNCHANGED saves
      \/ SaveAndRelease(Synced(j))
      \/ job' = j /\ UNCHANGED <<saves, pc>>
  BY DEF Progress, Observed
<1>6. /\ pc = "idle" /\ recovering' \in BOOLEAN
      /\ UNCHANGED <<disk, recovering, emergency, latched, world, sent>>
  BY DEF Progress, IInv, Clocks
<1> HIDE DEF j
<1>7. CASE job' = j /\ pc' = "finish" /\ UNCHANGED saves
  BY <1>3, <1>6, <1>7, EndingKeeps
<1>8. CASE SaveAndRelease(Synced(j))
  BY <1>4, <1>6, <1>8, SaveAndReleaseKeeps
<1>9. CASE job' = j /\ UNCHANGED <<saves, pc>>
  <2>1. Clocks' /\ GoodCopies' /\ SentIsCommitted'
    BY <1>3, <1>6, <1>9, ClocksKept DEF IInv, GoodCopies, SentIsCommitted, CommittedJobs
  <2>2. Station'
    BY <1>6, <1>9 DEF IInv, Station, Saved
  <2> QED
    BY <1>6, <2>1, <2>2 DEF IInv
<1> QED
  BY <1>5, <1>7, <1>8, <1>9

LEMMA UserCancelKeeps ==
  ASSUME IInv, UserCancel
  PROVE  IInv'
<1> DEFINE cancelled == [job.attempt EXCEPT !.state = "CANCEL_REQUESTED", !.cancelAge = 0]
           j == [job EXCEPT !.attempt = cancelled]
<1>1. job.attempt \in Attempts
  BY HasAttempt DEF IInv, GoodCopies, UserCancel
<1>2. Keeps(job.attempt, cancelled)
  <2>1. "CANCEL_REQUESTED" \in AttemptStates
    BY DEF AttemptStates
  <2> QED
    BY <1>1, <2>1, TimerType DEF Attempts, Keeps
<1>3. j \in GoodJobs /\ (sent > 0 => j.attempt.intent)
  <2> HIDE DEF cancelled
  <2> QED
    BY <1>1, <1>2, ObservedJob
<1>4. SaveAndRelease(j)
  <2>1. j = [job EXCEPT !.attempt.state = "CANCEL_REQUESTED", !.attempt.cancelAge = 0]
    BY <1>1 DEF Attempts, IInv, GoodCopies, GoodJobs, Jobs
  <2> QED
    BY <2>1 DEF UserCancel
<1> HIDE DEF j
<1> QED
  BY <1>3, <1>4, SaveAndReleaseKeeps DEF UserCancel, IInv, Clocks

LEMMA CloseWaitingKeeps ==
  ASSUME IInv, CloseWaiting
  PROVE  IInv'
<1>1. PICK reason \in {"user_skipped", "power_supply_lost", "deadline_expired"} :
        SaveAndRelease(ZoneFinished(job, reason))
  BY DEF CloseWaiting
<1>2. sent = 0
  BY NotStarted DEF CloseWaiting
<1>3. ZoneFinished(job, reason) \in GoodJobs
  <2>1. reason \in ZoneReasons
    BY DEF ZoneReasons, AttemptReasons
  <2> QED
    BY <2>1, ZoneFinishedGood DEF IInv, GoodCopies
<1> QED
  BY <1>1, <1>2, <1>3, SaveAndReleaseKeeps DEF CloseWaiting, IInv, Clocks

-----------------------------------------------------------------------------
(* The store, the emergency and the environment *)

LEMMA FlushGood ==
  ASSUME NEW S, saves \in Seq(S), saves # <<>>, saves' = Tail(saves)
  PROVE  /\ saves' \in Seq(S) /\ Head(saves) \in S
         /\ DOMAIN saves = 1..Len(saves) /\ Len(saves) \in Nat \ {0}
         /\ DOMAIN saves' = 1..(Len(saves) - 1)
         /\ \A i \in DOMAIN saves' : saves'[i] = saves[i + 1] /\ i + 1 \in DOMAIN saves
         /\ \A i \in DOMAIN saves : i = 1 \/ (i - 1 \in DOMAIN saves' /\ saves[i] = saves'[i - 1])
         /\ Head(saves) = saves[1]
OBVIOUS

LEMMA FlushKeepsIntent ==
  ASSUME IntentIsSaved, Flush, saves \in Seq(Snapshots(GoodJobs))
  PROVE  IntentIsSaved'
<1>1. /\ DOMAIN saves = 1..Len(saves) /\ Len(saves) \in Nat \ {0}
      /\ DOMAIN saves' = 1..(Len(saves) - 1)
      /\ \A i \in DOMAIN saves' : saves'[i] = saves[i + 1] /\ i + 1 \in DOMAIN saves
      /\ \A i \in DOMAIN saves : i = 1 \/ (i - 1 \in DOMAIN saves' /\ saves[i] = saves'[i - 1])
      /\ Head(saves) = saves[1] /\ disk' = saves[1].image
      /\ saves' \in Seq(Snapshots(GoodJobs))
  BY FlushGood DEF Flush
<1>2. \A i \in DOMAIN saves' : saves'[i].by = "engine" =>
        \A k \in DOMAIN saves' : k >= i => saves'[k].image \in CommittedJobs
  BY <1>1 DEF IntentIsSaved
<1>3. ASSUME Saved("engine")'
      PROVE  disk' \in CommittedJobs /\ saves' \in Seq(Snapshots(CommittedJobs))
  <2>1. CASE saves[1].by = "engine"
    <3>1. \A k \in DOMAIN saves : saves[k].image \in CommittedJobs
      BY <1>1, <2>1 DEF IntentIsSaved
    <3>2. \A k \in DOMAIN saves' : saves'[k] \in Snapshots(CommittedJobs)
      <4> TAKE k \in DOMAIN saves'
      <4>1. saves'[k] \in Snapshots(GoodJobs) /\ saves'[k].image \in CommittedJobs
        BY <1>1, <3>1
      <4> HIDE DEF CommittedJobs
      <4> QED
        BY <4>1 DEF Snapshots
    <3>3. saves' \in Seq(Snapshots(CommittedJobs))
      BY <1>1, <3>2, SeqMonotonic
    <3> QED
      BY <1>1, <3>1, <3>3
  <2>2. CASE saves[1].by # "engine"
    <3>1. Saved("engine")
      BY <1>1, <1>3, <2>2 DEF Saved
    <3>2. saves \in Seq(Snapshots(CommittedJobs))
      BY <3>1 DEF IntentIsSaved
    <3>3. saves' \in Seq(Snapshots(CommittedJobs)) /\ Head(saves) \in Snapshots(CommittedJobs)
      BY <3>2, FlushGood DEF Flush
    <3> QED
      BY <1>1, <3>3 DEF Snapshots
  <2> QED
    BY <2>1, <2>2
<1> QED
  BY <1>2, <1>3 DEF IntentIsSaved

LEMMA FlushKeeps ==
  ASSUME IInv, Flush
  PROVE  IInv'
<1>1. Clocks'
  BY ClocksKept DEF IInv, Clocks, Flush, memory
<1>2. ASSUME NEW jobs, saves \in Seq(Snapshots(jobs))
      PROVE  saves' \in Seq(Snapshots(jobs)) /\ disk' \in jobs
  <2>1. Head(saves) \in Snapshots(jobs) /\ saves' \in Seq(Snapshots(jobs))
    BY <1>2, FlushGood DEF Flush
  <2> QED
    BY <2>1 DEF Flush, Snapshots
<1>3. GoodCopies' /\ SentIsCommitted'
  BY <1>2 DEF IInv, GoodCopies, SentIsCommitted, Flush, memory
<1>4. Station'
  <2>1. Saved("engine") => Saved("engine")'
    BY FlushGood DEF IInv, GoodCopies, Flush, Saved
  <2>2. IntentIsSaved => IntentIsSaved'
    BY FlushKeepsIntent DEF IInv, GoodCopies
  <2> QED
    BY <2>1, <2>2 DEF IInv, Station, Flush, memory
<1> QED
  BY <1>1, <1>2, <1>3, <1>4 DEF IInv, Flush

LEMMA PowerEmergencyKeeps ==
  ASSUME IInv, NEW r \in Reports, PowerEmergency(r)
  PROVE  IInv'
<1>1. job' \in GoodJobs /\ job'.attempt \in Attempts /\ job'.attempt.intent = job.attempt.intent
  BY PowerMarkedGood DEF IInv, GoodCopies, PowerEmergency
<1>2. Clocks'
  BY DEF IInv, Clocks, PowerEmergency, world
<1>3. GoodCopies' /\ SentIsCommitted'
  BY <1>1 DEF IInv, GoodCopies, SentIsCommitted, CommittedJobs, PowerEmergency
<1>4. Station'
  BY <1>1 DEF IInv, Station, CommittedJobs, IntentIsSaved, Saved, PowerEmergency
<1> QED
  BY <1>2, <1>3, <1>4 DEF IInv, PowerEmergency

LEMMA EmergencyCommandsDoneKeeps ==
  ASSUME IInv, EmergencyCommandsDone
  PROVE  IInv'
<1>1. Clocks' /\ GoodCopies' /\ SentIsCommitted'
  BY SaveGood
     DEF IInv, Clocks, GoodCopies, SentIsCommitted, EmergencyCommandsDone, Savers, world
<1>2. Station'
  <2>1. Saved("engine") => Saved("engine")'
    BY EmergencySaveKeepsSaved DEF IInv, GoodCopies, EmergencyCommandsDone
  <2>2. job \in CommittedJobs /\ IntentIsSaved => IntentIsSaved'
    BY EmergencySaveKeepsIntent DEF IInv, GoodCopies, EmergencyCommandsDone
  <2>3. pc # "down"
    BY DEF IInv, Station, EmergencyCommandsDone
  <2> QED
    BY <2>1, <2>2, <2>3 DEF IInv, Station, EmergencyCommandsDone
<1> QED
  BY <1>1, <1>2 DEF IInv, EmergencyCommandsDone

LEMMA EmergencyOverKeeps ==
  ASSUME IInv, EmergencyOver
  PROVE  IInv'
<1>1. Clocks' /\ GoodCopies' /\ SentIsCommitted'
  BY DEF IInv, Clocks, GoodCopies, SentIsCommitted, EmergencyOver, world
<1>2. Station'
  BY DEF IInv, Station, IntentIsSaved, Saved, EmergencyOver
<1> QED
  BY <1>1, <1>2 DEF IInv, EmergencyOver

\* Readings and deadlines change neither the job nor its copies.
LEMMA WorldKeeps ==
  ASSUME IInv, Clocks', UNCHANGED <<job, disk, saves, pc, emergency, sent>>
  PROVE  IInv'
<1>1. GoodCopies' /\ SentIsCommitted' /\ Station'
  BY DEF IInv, GoodCopies, SentIsCommitted, Station, IntentIsSaved, Saved
<1> QED
  BY <1>1 DEF IInv

LEMMA PowerReadsKeeps ==
  ASSUME IInv, NEW reading \in {"on", "off", "unknown"}, PowerReads(reading)
  PROVE  IInv'
<1>1. latched' \in BOOLEAN
  BY DEF PowerReads
<1>2. Clocks'
  BY <1>1 DEF IInv, Clocks, PowerReads
<1> QED
  BY <1>2, WorldKeeps DEF PowerReads

LEMMA DeadlinePassesKeeps ==
  ASSUME IInv, DeadlinePasses
  PROVE  IInv'
<1>1. Clocks'
  BY DEF IInv, Clocks, DeadlinePasses, memory
<1> QED
  BY <1>1, WorldKeeps DEF DeadlinePasses, memory

LEMMA AgedCommitted ==
  ASSUME NEW j \in CommittedJobs
  PROVE  AgedJob(j) \in CommittedJobs
BY AgedJobGood DEF CommittedJobs

LEMMA AgedSnapshots ==
  ASSUME NEW jobs \in {GoodJobs, CommittedJobs}, saves \in Seq(Snapshots(jobs)), Tick
  PROVE  saves' \in Seq(Snapshots(jobs))
<1>1. \A j \in jobs : AgedJob(j) \in jobs
  BY AgedJobGood, AgedCommitted
<1>2. ASSUME NEW i \in DOMAIN saves
      PROVE  [saves[i] EXCEPT !.image = AgedJob(@)] \in Snapshots(jobs)
  <2>1. saves[i] \in Snapshots(jobs)
    OBVIOUS
  <2> QED
    BY <1>1, <2>1 DEF Snapshots
<1>3. DOMAIN saves = 1..Len(saves) /\ Len(saves) \in Nat
  OBVIOUS
<1> DEFINE n == Len(saves)
           aged(i) == [saves[i] EXCEPT !.image = AgedJob(@)]
<1>4. [i \in 1..n |-> aged(i)] \in Seq(Snapshots(jobs))
  <2>1. \A i \in 1..n : aged(i) \in Snapshots(jobs)
    BY <1>2, <1>3
  <2> HIDE DEF aged
  <2> QED
    BY <1>3, <2>1
<1> QED
  BY <1>3, <1>4 DEF Tick

LEMMA TickKeeps ==
  ASSUME IInv, Tick
  PROVE  IInv'
<1>1. Clocks'
  BY DEF IInv, Clocks, Tick, world
<1>2. GoodCopies' /\ SentIsCommitted'
  BY AgedJobGood, AgedCommitted, AgedSnapshots
     DEF IInv, GoodCopies, SentIsCommitted, Tick
<1>3. /\ DOMAIN saves' = DOMAIN saves
      /\ \A i \in DOMAIN saves : saves'[i].by = saves[i].by
      /\ \A i \in DOMAIN saves : saves'[i].image = AgedJob(saves[i].image)
  <2>1. \A i \in DOMAIN saves : saves[i] \in Snapshots(GoodJobs)
    BY DEF IInv, GoodCopies
  <2> QED
    BY <2>1 DEF Tick, Snapshots
<1>4. Saved("engine")' <=> Saved("engine")
  BY <1>3 DEF Saved
<1>5. IntentIsSaved => IntentIsSaved'
  BY <1>3, <1>4, AgedCommitted, AgedSnapshots DEF IntentIsSaved, Tick
<1>6. job.attempt \in Attempts => job'.attempt \in Attempts
  BY AgedJobGood DEF IInv, GoodCopies, Tick
<1>7. saves = <<>> => saves' = <<>>
  BY DEF Tick
<1>8. Station'
  BY <1>4, <1>5, <1>6, <1>7, AgedCommitted DEF IInv, Station, Tick
<1> QED
  BY <1>1, <1>2, <1>8 DEF IInv, Tick

LEMMA CrashKeeps ==
  ASSUME IInv, Crash
  PROVE  IInv'
<1>1. Clocks'
  <2>1. crashes' \in 0..MaxCrashes
    BY CrashAssumption DEF IInv, Clocks, Crash
  <2> QED
    BY <2>1 DEF IInv, Clocks, Crash
<1>2. GoodCopies' /\ SentIsCommitted'
  BY EmptySeq DEF IInv, GoodCopies, SentIsCommitted, Crash
<1>3. Station'
  BY DEF Station, Stations, Crash
<1> QED
  BY <1>1, <1>2, <1>3 DEF IInv, Crash

LEMMA RecoverKeeps ==
  ASSUME IInv, NEW r \in Reports, NEW sensor \in BOOLEAN, Recover(r, sensor)
  PROVE  IInv'
<1> DEFINE next == Progressed(job.attempt, Observation[r], sensor)
           expiredNow == Finish(job.attempt, "FAILED", "deadline_expired")
           j(b) == [job EXCEPT !.attempt = b]
<1>1. /\ job \in GoodJobs /\ (sent > 0 => job.attempt.intent)
      /\ saves = <<>> /\ recovering' = TRUE
      /\ UNCHANGED <<disk, emergency, latched, world, sent>>
  BY DEF IInv, GoodCopies, SentIsCommitted, CommittedJobs, Station, Recover
<1>2. job.attempt.state # "NONE" => job.attempt \in Attempts
  BY <1>1, HasAttempt
<1>3. ASSUME job.attempt.state # "NONE"
      PROVE  /\ j(next) \in GoodJobs /\ (sent > 0 => j(next).attempt.intent)
             /\ j(expiredNow) \in GoodJobs /\ (sent > 0 => j(expiredNow).attempt.intent)
             /\ Synced(j(next)) \in GoodJobs /\ (sent > 0 => Synced(j(next)).attempt.intent)
  <2>1. Keeps(job.attempt, next)
    BY <1>2, <1>3, ProgressedKeeps
  <2>2. Keeps(job.attempt, expiredNow)
    BY <1>2, <1>3, FinishKeeps DEF TerminalAttemptStates, AttemptReasons
  <2> HIDE DEF next, expiredNow
  <2>3. /\ j(next) \in GoodJobs /\ (sent > 0 => j(next).attempt.intent)
        /\ j(expiredNow) \in GoodJobs /\ (sent > 0 => j(expiredNow).attempt.intent)
    BY <1>2, <1>3, <2>1, <2>2, ObservedJob
  <2> HIDE DEF j
  <2> QED
    BY <2>3, SyncedGood
<1>4. \/ SaveAndRelease(job)
      \/ job.attempt.state = "PREPARING" /\ pc' = "prepare" /\ UNCHANGED <<job, saves>>
      \/ job.attempt.state = "PREPARING" /\ job' = j(expiredNow) /\ pc' = "finish" /\ UNCHANGED saves
      \/ pc' = "finish" /\ UNCHANGED <<job, saves>>
      \/ job.attempt.state # "NONE" /\ job' = j(next) /\ pc' = "finish" /\ UNCHANGED saves
      \/ job.attempt.state # "NONE" /\ SaveAndRelease(Synced(j(next)))
  BY DEF Recover, Active, Terminal, TerminalAttemptStates
<1> HIDE DEF next, expiredNow, j
<1>5. CASE SaveAndRelease(job)
  BY <1>1, <1>5, SaveAndReleaseKeeps
<1>6. CASE job.attempt.state = "PREPARING" /\ pc' = "prepare" /\ UNCHANGED <<job, saves>>
  <2>1. sent = 0 /\ job.attempt \in Attempts
    BY <1>2, <1>6, NotStarted
  <2>2. Clocks' /\ GoodCopies' /\ SentIsCommitted'
    BY <1>1, <1>6, ClocksKept DEF IInv, GoodCopies, SentIsCommitted
  <2>3. Station'
    BY <1>1, <1>6, <2>1 DEF Station, Stations, Saved
  <2> QED
    BY <1>1, <2>2, <2>3 DEF IInv
<1>7. CASE job.attempt.state = "PREPARING" /\ job' = j(expiredNow) /\ pc' = "finish" /\ UNCHANGED saves
  BY <1>1, <1>3, <1>7, EndingKeeps
<1>8. CASE pc' = "finish" /\ UNCHANGED <<job, saves>>
  BY <1>1, <1>8, EndingKeeps
<1>9. CASE job.attempt.state # "NONE" /\ job' = j(next) /\ pc' = "finish" /\ UNCHANGED saves
  BY <1>1, <1>3, <1>9, EndingKeeps
<1>10. CASE job.attempt.state # "NONE" /\ SaveAndRelease(Synced(j(next)))
  BY <1>1, <1>3, <1>10, SaveAndReleaseKeeps
<1> QED
  BY <1>4, <1>5, <1>6, <1>7, <1>8, <1>9, <1>10

-----------------------------------------------------------------------------
(* The theorems *)

LEMMA InitHolds ==
  ASSUME Init
  PROVE  IInv
<1>1. job \in GoodJobs
  <2>1. /\ job.attempt = NoAttempt /\ job.zone = "WAIT"
        /\ job \in [attempt : {NoAttempt}, zone : {"WAIT"}, reason : {"none"}, interrupted : BOOLEAN]
    BY DEF Init
  <2>2. "WAIT" \in ZoneStates /\ "none" \in ZoneReasons
    BY DEF ZoneStates, ZoneReasons, AttemptReasons
  <2> QED
    BY <2>1, <2>2, NoAttemptFacts DEF GoodJobs, Jobs, Sound
<1>2. saves = <<>> /\ saves \in Seq(Snapshots(GoodJobs))
  BY EmptySeq DEF Init
<1>3. Clocks
  <2>1. 0 \in 0..MaxCrashes
    BY CrashAssumption
  <2> QED
    BY <2>1 DEF Init, Clocks
<1> QED
  BY <1>1, <1>2, <1>3 DEF Init, IInv, GoodCopies, SentIsCommitted, Station, Stations, Saved

LEMMA StutterKeeps ==
  ASSUME IInv, UNCHANGED vars
  PROVE  IInv'
<1>1. Clocks'
  BY DEF IInv, Clocks, vars
<1> QED
  BY <1>1, WorldKeeps DEF vars

\* Every step of the start protocol, of the emergency, of the store and of the
\* environment keeps the inductive invariant.
THEOREM Inductive == IInv /\ [Next]_vars => IInv'
<1> SUFFICES ASSUME IInv, [Next]_vars
             PROVE  IInv'
  OBVIOUS
<1>1. CASE Engine
  BY <1>1, BeginStartKeeps, PrepareFailsKeeps, PowerRefusesIntentKeeps,
     WriteIntentKeeps, PowerRefusesCommandKeeps, SendStartKeeps, CommandAnsweredKeeps,
     FinishDoneKeeps, SaveDoneKeeps, ProgressKeeps, UserCancelKeeps, CloseWaitingKeeps,
     MuteKeeps
     DEF Engine, MuteForPrepare, MuteForRestore
<1>2. CASE Emergency
  BY <1>2, PowerEmergencyKeeps, EmergencyCommandsDoneKeeps, EmergencyOverKeeps DEF Emergency
<1>3. CASE Flush
  BY <1>3, FlushKeeps
<1>4. CASE Environment
  BY <1>4, PowerReadsKeeps, TickKeeps, DeadlinePassesKeeps, CrashKeeps, RecoverKeeps
     DEF Environment
<1>5. CASE UNCHANGED vars
  BY <1>5, StutterKeeps
<1> QED
  BY <1>1, <1>2, <1>3, <1>4, <1>5 DEF Next

\* The inductive invariant holds in every reachable state: each copy of the job
\* is sound, and the engine's place in the protocol tells what is on disk.
THEOREM Invariant == Spec => []IInv
<1>1. Init => IInv
  BY InitHolds
<1> QED
  BY <1>1, Inductive, PTL DEF Spec

LEMMA GoodIsTyped ==
  ASSUME IInv
  PROVE  TypeOK
<1>1. Snapshots(GoodJobs) \subseteq [by : Savers, image : Jobs]
  BY DEF Snapshots, GoodJobs
<1>2. saves \in Seq([by : Savers, image : Jobs])
  BY <1>1, SeqMonotonic DEF IInv, GoodCopies
<1> QED
  BY <1>2 DEF TypeOK, IInv, GoodCopies, GoodJobs, Clocks, Station

\* Type correctness: in every copy the job stays a job, so that no step leaves
\* an attempt, a zone or a timer outside what storage.py can persist.
THEOREM TypeCorrect == Spec => []TypeOK
<1>1. IInv => TypeOK
  BY GoodIsTyped
<1> QED
  BY <1>1, Invariant, PTL

\* The promise of the command-intent barrier (execution_backend.py async_start):
\* whatever crashes, outages, deferrals and late writes do, one occurrence gets
\* at most one start command.
THEOREM StartsAtMostOnce == Spec => []AtMostOneStart
<1>1. IInv => AtMostOneStart
  BY DEF IInv, AtMostOneStart
<1> QED
  BY <1>1, Invariant, PTL

\* A start that may have reached the robot is on disk, in a state that
\* async_recover_job observes and never starts again.
THEOREM StartsAreDurable == Spec => []StartedIsDurable
<1>1. IInv => StartedIsDurable
  BY DEF IInv, StartedIsDurable, SentIsCommitted, CommittedJobs, GoodJobs, Sound, Committed
<1> QED
  BY <1>1, Invariant, PTL

\* An occurrence put back to wait by a late blocker was never started: the
\* licence to start it later is never given for a robot already cleaning.
THEOREM WaitingIsUnstarted == Spec => []WaitingWasNotStarted
<1>1. IInv => WaitingWasNotStarted
  BY NotStarted DEF IInv, WaitingWasNotStarted
<1> QED
  BY <1>1, Invariant, PTL

-----------------------------------------------------------------------------
(* The outcome of the occurrence, and the protocol the disk follows *)

Kept(x, y) == x.zone = "FINISHED" => y.zone = "FINISHED" /\ y.reason = x.reason

\* Nothing is left to observe, cancel or cut off in a finished job.
Closed(j) == j.zone = "FINISHED" => ~Active(j.attempt)

\* From the disk through the snapshots to the memory, no copy lacks a result
\* that an older copy has.
Lineage ==
  /\ Kept(disk, job)
  /\ \A i \in DOMAIN saves : Kept(disk, saves[i].image) /\ Kept(saves[i].image, job)
  /\ \A i, k \in DOMAIN saves : i <= k => Kept(saves[i].image, saves[k].image)

NothingReopens ==
  Closed(job) /\ Closed(disk) /\ \A i \in DOMAIN saves : Closed(saves[i].image)

InStart == pc \in {"prepare", "muting", "barrier", "command"}

OutcomeInv == Lineage /\ NothingReopens /\ (InStart => job.zone # "FINISHED")

\* What every step but a write, a tick and a crash does: it may change the job
\* in memory, without losing a result, and may hand a snapshot of it to the store.
JobStep ==
  /\ Kept(job, job') /\ Closed(job')
  /\ InStart' => job'.zone # "FINISHED"
  /\ UNCHANGED disk
  /\ UNCHANGED saves \/ \E by \in Savers : saves' = Append(saves, [by |-> by, image |-> job'])

LEMMA JobStepKeepsOutcome ==
  ASSUME IInv, OutcomeInv, JobStep
  PROVE  OutcomeInv'
<1>1. CASE UNCHANGED saves
  BY <1>1 DEF OutcomeInv, Lineage, NothingReopens, JobStep, Kept
<1>2. CASE \E by \in Savers : saves' = Append(saves, [by |-> by, image |-> job'])
  <2>1. PICK by \in Savers : saves' = Append(saves, [by |-> by, image |-> job'])
    BY <1>2
  <2>2. /\ Len(saves') = Len(saves) + 1 /\ DOMAIN saves' = 1..Len(saves')
        /\ DOMAIN saves = 1..Len(saves) /\ Len(saves) \in Nat
        /\ \A i \in DOMAIN saves : saves'[i] = saves[i]
        /\ saves'[Len(saves')].image = job'
    BY <2>1 DEF IInv, GoodCopies
  <2>3. Kept(disk', job')
    BY DEF OutcomeInv, Lineage, JobStep, Kept
  <2>4. ASSUME NEW i \in DOMAIN saves'
        PROVE  /\ Kept(disk', saves'[i].image) /\ Kept(saves'[i].image, job')
               /\ Closed(saves'[i].image)
    BY <2>2, <2>3 DEF OutcomeInv, Lineage, NothingReopens, JobStep, Kept
  <2>5. ASSUME NEW i \in DOMAIN saves', NEW k \in DOMAIN saves', i <= k
        PROVE  Kept(saves'[i].image, saves'[k].image)
    <3>1. CASE k = Len(saves')
      BY <2>2, <2>4, <3>1
    <3>2. CASE k # Len(saves')
      <4>1. i \in DOMAIN saves /\ k \in DOMAIN saves
        BY <2>2, <2>5, <3>2
      <4> QED
        BY <2>2, <2>5, <4>1 DEF OutcomeInv, Lineage
    <3> QED
      BY <3>1, <3>2
  <2> QED
    BY <2>3, <2>4, <2>5 DEF OutcomeInv, Lineage, NothingReopens, JobStep
<1> QED
  BY <1>1, <1>2 DEF JobStep

LEMMA FlushKeepsOutcome ==
  ASSUME IInv, OutcomeInv, Flush
  PROVE  OutcomeInv' /\ Kept(disk, disk')
<1>1. /\ DOMAIN saves = 1..Len(saves) /\ Len(saves) \in Nat \ {0}
      /\ \A i \in DOMAIN saves' : i \in Nat /\ i >= 1 /\ saves'[i] = saves[i + 1]
                                  /\ i + 1 \in DOMAIN saves
      /\ disk' = saves[1].image
  BY FlushGood DEF IInv, GoodCopies, Flush
<1>2. job' = job /\ pc' = pc
  BY DEF Flush, memory
<1>3. 1 \in DOMAIN saves
  BY <1>1
<1>4. Kept(disk, disk') /\ Kept(disk', job') /\ Closed(disk')
  BY <1>1, <1>2, <1>3 DEF OutcomeInv, Lineage, NothingReopens
<1>5. ASSUME NEW i \in DOMAIN saves'
      PROVE  /\ Kept(disk', saves'[i].image) /\ Kept(saves'[i].image, job')
             /\ Closed(saves'[i].image)
  BY <1>1, <1>2, <1>3 DEF OutcomeInv, Lineage, NothingReopens
<1>6. ASSUME NEW i \in DOMAIN saves', NEW k \in DOMAIN saves', i <= k
      PROVE  Kept(saves'[i].image, saves'[k].image)
  BY <1>1, <1>6 DEF OutcomeInv, Lineage
<1> QED
  BY <1>2, <1>4, <1>5, <1>6 DEF OutcomeInv, Lineage, NothingReopens, InStart

\* Time passing changes no zone, no reason and no attempt's state.
LEMMA AgedOutcome ==
  ASSUME NEW j \in GoodJobs
  PROVE  /\ AgedJob(j).zone = j.zone /\ AgedJob(j).reason = j.reason
         /\ AgedJob(j).attempt.state = j.attempt.state
<1>1. AgedJob(j).attempt = Aged(j.attempt) /\ AgedJob(j).zone = j.zone
      /\ AgedJob(j).reason = j.reason
  BY DEF AgedJob, GoodJobs, Jobs
<1>2. CASE j.attempt \in Attempts
  BY <1>1, <1>2, AgedKeeps
<1>3. CASE j.attempt = NoAttempt
  BY <1>1, <1>3 DEF Aged, NoAttempt, NewAttempt
<1> QED
  BY <1>1, <1>2, <1>3 DEF GoodJobs, Jobs

LEMMA TickKeepsOutcome ==
  ASSUME IInv, OutcomeInv, Tick
  PROVE  OutcomeInv' /\ Kept(disk, disk')
<1>1. ASSUME NEW j \in GoodJobs, NEW k \in GoodJobs
      PROVE  /\ Kept(j, k) => Kept(AgedJob(j), AgedJob(k))
             /\ Closed(j) => Closed(AgedJob(j))
             /\ Kept(j, AgedJob(j))
             /\ AgedJob(j).zone = j.zone
  BY AgedOutcome DEF Kept, Closed, Active, Terminal
<1>2. /\ DOMAIN saves' = DOMAIN saves
      /\ \A i \in DOMAIN saves : saves'[i].image = AgedJob(saves[i].image)
      /\ \A i \in DOMAIN saves : saves[i].image \in GoodJobs
  <2>1. \A i \in DOMAIN saves : saves[i] \in Snapshots(GoodJobs)
    BY DEF IInv, GoodCopies
  <2> QED
    BY <2>1 DEF Tick, Snapshots
<1>3. job \in GoodJobs /\ disk \in GoodJobs /\ job' = AgedJob(job) /\ disk' = AgedJob(disk)
      /\ pc' = pc
  BY DEF IInv, GoodCopies, Tick
<1>4. Lineage'
  BY <1>1, <1>2, <1>3 DEF OutcomeInv, Lineage
<1>5. NothingReopens' /\ (InStart' => job'.zone # "FINISHED")
  BY <1>1, <1>2, <1>3 DEF OutcomeInv, NothingReopens, InStart
<1> QED
  BY <1>1, <1>3, <1>4, <1>5 DEF OutcomeInv

LEMMA CrashKeepsOutcome ==
  ASSUME IInv, OutcomeInv, Crash
  PROVE  OutcomeInv'
<1>1. DOMAIN saves' = {} /\ job' = disk /\ disk' = disk /\ pc' = "down"
  BY DEF Crash
<1> QED
  BY <1>1 DEF OutcomeInv, Lineage, NothingReopens, InStart, Kept

LEMMA SyncedOutcome ==
  ASSUME NEW j \in GoodJobs, Closed(j)
  PROVE  Kept(j, Synced(j)) /\ Closed(Synced(j))
<1>1. Synced(j).attempt = j.attempt
  BY SyncedGood
<1>2. CASE j.zone = "FINISHED"
  BY <1>2 DEF Synced, Kept
<1>3. CASE j.zone # "FINISHED"
  <2>1. j.attempt.state \notin {"COMPLETED", "FAILED", "CANCELLED"} => Synced(j).zone # "FINISHED"
    BY <1>3 DEF Synced, GoodJobs, Jobs
  <2> QED
    BY <1>1, <1>3, <2>1 DEF Kept, Closed, Active, Terminal, TerminalAttemptStates
<1> QED
  BY <1>2, <1>3

\* Memory is saved as it is, or left alone, and no start begins or goes on.
LEMMA QuietJobStep ==
  ASSUME OutcomeInv, UNCHANGED <<job, disk>>,
         InStart' => InStart \/ job.zone # "FINISHED",
         UNCHANGED saves \/ \E by \in Savers : Save(by, job)
  PROVE  JobStep
BY DEF OutcomeInv, NothingReopens, JobStep, Kept, Save, InStart

\* The engine leaves its lock with a job that has lost no result.
LEMMA ReleaseJobStep ==
  ASSUME NEW j, Kept(job, j), Closed(j), SaveAndRelease(j), UNCHANGED disk
  PROVE  JobStep
BY DEF SaveAndRelease, Save, Savers, JobStep, InStart

LEMMA FailBeforeCommandOutcome ==
  ASSUME IInv, OutcomeInv, job.zone # "FINISHED", NEW a, NEW reason, FailBeforeCommand(a, reason)
  PROVE  JobStep
<1>1. job \in Jobs
  BY DEF IInv, GoodCopies, GoodJobs
<1>2. job'.zone = job.zone
  BY <1>1 DEF FailBeforeCommand, Jobs
<1> QED
  BY <1>2 DEF FailBeforeCommand, JobStep, Kept, Closed, InStart

LEMMA StartOutcome ==
  ASSUME IInv, OutcomeInv,
         \/ BeginStart \/ MuteForPrepare \/ \E r \in Reports : PrepareFails(r)
         \/ PowerRefusesIntent \/ \E r \in Reports : WriteIntent(r)
         \/ PowerRefusesCommand \/ SendStart
  PROVE  JobStep
<1>1. job \in Jobs
  BY DEF IInv, GoodCopies, GoodJobs
<1>2. CASE BeginStart
  <2>1. job'.zone = "STARTING" /\ job.zone = "WAIT"
    BY <1>1, <1>2 DEF BeginStart, Jobs
  <2> QED
    BY <1>2, <2>1 DEF BeginStart, JobStep, Kept, Closed
<1>3. CASE MuteForPrepare
  BY <1>3, QuietJobStep DEF MuteForPrepare, InStart, Savers
<1>4. ASSUME Preparing
      PROVE  job.zone # "FINISHED"
  BY <1>4 DEF OutcomeInv, InStart, Preparing
<1>5. CASE \E r \in Reports : PrepareFails(r)
  BY <1>4, <1>5, FailBeforeCommandOutcome DEF PrepareFails
<1>6. CASE PowerRefusesIntent
  BY <1>4, <1>6, FailBeforeCommandOutcome DEF PowerRefusesIntent
<1>7. CASE \E r \in Reports : WriteIntent(r)
  <2>1. PICK r \in Reports : WriteIntent(r)
    BY <1>7
  <2>2. job'.zone = job.zone /\ job.zone # "FINISHED"
    BY <1>1, <1>4, <2>1 DEF WriteIntent, Jobs
  <2>3. \E by \in Savers : saves' = Append(saves, [by |-> by, image |-> job'])
    BY <2>1 DEF WriteIntent, Save, Savers
  <2> QED
    BY <2>1, <2>2, <2>3 DEF WriteIntent, JobStep, Kept, Closed
<1>8. CASE PowerRefusesCommand
  BY <1>8, FailBeforeCommandOutcome DEF PowerRefusesCommand, BarrierPassed, OutcomeInv, InStart
<1>9. CASE SendStart
  BY <1>9, QuietJobStep DEF SendStart, BarrierPassed, InStart
<1> QED
  BY <1>2, <1>3, <1>5, <1>6, <1>7, <1>8, <1>9

LEMMA CommandAnsweredOutcome ==
  ASSUME IInv, OutcomeInv, NEW state \in {"START_REQUESTED", "RECONCILING"}, CommandAnswered(state)
  PROVE  JobStep
<1> DEFINE answered == [job.attempt EXCEPT !.state = state]
           j == [job EXCEPT !.attempt = answered]
<1>1. /\ job \in GoodJobs /\ job.attempt \in Attempts /\ job.zone # "WAIT"
      /\ job.attempt.intent /\ job.zone # "FINISHED"
  <2>1. job \in GoodJobs /\ job.attempt.intent
    BY DEF IInv, GoodCopies, Station, SentIsCommitted, CommittedJobs, CommandAnswered
  <2> QED
    BY <2>1, HasAttempt DEF OutcomeInv, InStart, CommandAnswered
<1>2. answered \in Attempts /\ answered.state # "PREPARING"
  BY <1>1 DEF Attempts, AttemptStates, Prestart
<1>3. j \in GoodJobs /\ j.zone = job.zone
  <2> HIDE DEF answered
  <2> QED
    BY <1>1, <1>2, AttemptReplaced
<1>4. SaveAndRelease(Synced(j)) /\ UNCHANGED disk
  BY DEF CommandAnswered
<1> HIDE DEF j
<1>5. Kept(job, Synced(j)) /\ Closed(Synced(j))
  BY <1>1, <1>3, SyncedOutcome DEF Kept, Closed
<1> QED
  BY <1>4, <1>5, ReleaseJobStep

LEMMA FinishOutcome ==
  ASSUME IInv, OutcomeInv, MuteForRestore \/ FinishDone \/ SaveDone
  PROVE  JobStep
<1>1. job \in GoodJobs /\ Closed(job)
  BY DEF IInv, GoodCopies, OutcomeInv, NothingReopens
<1>2. CASE MuteForRestore
  BY <1>2, QuietJobStep DEF MuteForRestore, InStart, Savers
<1>3. CASE SaveDone
  BY <1>3, QuietJobStep DEF SaveDone, InStart
<1>4. CASE FinishDone
  <2>1. Kept(job, Synced(job)) /\ Closed(Synced(job))
    BY <1>1, SyncedOutcome
  <2>2. Kept(job, Deferred(job)) /\ Closed(Deferred(job))
    BY <1>1, NoAttemptFacts DEF Kept, Closed, Active, Deferred, GoodJobs, Jobs
  <2> QED
    BY <1>4, <2>1, <2>2, ReleaseJobStep DEF FinishDone
<1> QED
  BY <1>2, <1>3, <1>4

\* What an observation makes of a job that is not finished.
LEMMA ObservedOutcome ==
  ASSUME IInv, job.attempt \in Attempts, job.zone # "FINISHED", NEW b, Keeps(job.attempt, b)
  PROVE  LET j == [job EXCEPT !.attempt = b]
         IN  /\ Kept(job, j) /\ Closed(j) /\ j.zone # "FINISHED"
             /\ Kept(job, Synced(j)) /\ Closed(Synced(j))
<1> DEFINE j == [job EXCEPT !.attempt = b]
<1>1. j \in GoodJobs
  BY ObservedJob
<1>2. j.zone = job.zone
  BY DEF IInv, GoodCopies, GoodJobs, Jobs
<1>3. Kept(job, j) /\ Closed(j)
  BY <1>2 DEF Kept, Closed
<1> HIDE DEF j
<1>4. Kept(job, Synced(j)) /\ Closed(Synced(j))
  BY <1>1, <1>3, SyncedOutcome DEF Kept
<1> QED
  BY <1>2, <1>3, <1>4 DEF j

LEMMA ActiveUnfinished ==
  ASSUME IInv, OutcomeInv, Active(job.attempt)
  PROVE  job.attempt \in Attempts /\ job.zone # "FINISHED" /\ job.zone # "WAIT"
BY HasAttempt DEF IInv, GoodCopies, OutcomeInv, NothingReopens, Closed

LEMMA ProgressOutcome ==
  ASSUME IInv, OutcomeInv, NEW r \in Reports, NEW sensor \in BOOLEAN, Progress(r, sensor)
  PROVE  JobStep
<1> DEFINE next == ProgressedByDeadline(job.attempt, Observation[r], sensor, expired)
           j == [job EXCEPT !.attempt = next]
<1>1. job.attempt \in Attempts /\ job.zone # "FINISHED" /\ pc = "idle" /\ UNCHANGED disk
  BY ActiveUnfinished DEF Progress
<1>2. Keeps(job.attempt, next)
  BY <1>1, ProgressedByDeadlineKeeps
<1>3. /\ Kept(job, j) /\ Closed(j) /\ j.zone # "FINISHED"
      /\ Kept(job, Synced(j)) /\ Closed(Synced(j))
  <2> HIDE DEF next
  <2> QED
    BY <1>1, <1>2, ObservedOutcome
<1>4. \/ job' = j /\ pc' = "finish" /\ UNCHANGED saves
      \/ SaveAndRelease(Synced(j))
      \/ job' = j /\ UNCHANGED <<saves, pc>>
  BY DEF Progress, Observed
<1> HIDE DEF j
<1>5. CASE SaveAndRelease(Synced(j))
  BY <1>1, <1>3, <1>5, ReleaseJobStep
<1> QED
  BY <1>1, <1>3, <1>4, <1>5 DEF JobStep

LEMMA UserOutcome ==
  ASSUME IInv, OutcomeInv, UserCancel \/ CloseWaiting
  PROVE  JobStep
<1>1. job \in Jobs /\ job \in GoodJobs
  BY DEF IInv, GoodCopies, GoodJobs
<1>2. CASE UserCancel
  <2> DEFINE j == [job EXCEPT !.attempt.state = "CANCEL_REQUESTED", !.attempt.cancelAge = 0]
  <2>1. j.zone = job.zone /\ job.zone # "FINISHED"
    BY <1>1, <1>2, ActiveUnfinished DEF UserCancel, Jobs
  <2>2. SaveAndRelease(j) /\ UNCHANGED disk
    BY <1>2 DEF UserCancel
  <2> HIDE DEF j
  <2>3. Kept(job, j) /\ Closed(j)
    BY <2>1 DEF Kept, Closed
  <2> QED
    BY <2>2, <2>3, ReleaseJobStep
<1>3. CASE CloseWaiting
  <2>1. PICK reason \in {"user_skipped", "power_supply_lost", "deadline_expired"} :
          SaveAndRelease(ZoneFinished(job, reason))
    BY <1>3 DEF CloseWaiting
  <2>2. job.zone = "WAIT" /\ job.attempt = NoAttempt
    BY <1>1, <1>3 DEF CloseWaiting, GoodJobs, Sound
  <2>3. ZoneFinished(job, reason).attempt = NoAttempt
    BY <1>1, <2>2 DEF ZoneFinished, Jobs
  <2>4. Kept(job, ZoneFinished(job, reason)) /\ Closed(ZoneFinished(job, reason))
    BY <2>2, <2>3, NoAttemptFacts DEF Kept, Closed, Active
  <2> QED
    BY <1>3, <2>1, <2>4, ReleaseJobStep DEF CloseWaiting
<1> QED
  BY <1>2, <1>3

LEMMA EmergencyOutcome ==
  ASSUME IInv, OutcomeInv, Emergency
  PROVE  JobStep
<1>1. CASE \E r \in Reports : PowerEmergency(r)
  <2>1. job' = PowerMarked(job) /\ job.zone # "FINISHED" /\ UNCHANGED <<disk, saves, pc>>
    BY <1>1, ActiveUnfinished DEF PowerEmergency
  <2>2. job'.zone = job.zone
    BY <2>1 DEF PowerMarked, IInv, GoodCopies, GoodJobs, Jobs
  <2> QED
    BY <2>1, <2>2 DEF JobStep, Kept, Closed
<1>2. CASE EmergencyCommandsDone
  BY <1>2, QuietJobStep DEF EmergencyCommandsDone, InStart, Savers
<1>3. CASE EmergencyOver
  BY <1>3, QuietJobStep DEF EmergencyOver, InStart
<1> QED
  BY <1>1, <1>2, <1>3 DEF Emergency

LEMMA RecoverOutcome ==
  ASSUME IInv, OutcomeInv, NEW r \in Reports, NEW sensor \in BOOLEAN, Recover(r, sensor)
  PROVE  JobStep
<1> DEFINE a == job.attempt
           next == Progressed(a, Observation[r], sensor)
           expiredNow == Finish(a, "FAILED", "deadline_expired")
           j(b) == [job EXCEPT !.attempt = b]
<1>1. job \in GoodJobs /\ UNCHANGED disk /\ Closed(job) /\ Kept(job, job)
  BY DEF IInv, GoodCopies, Recover, OutcomeInv, NothingReopens, Kept
<1>2. \/ SaveAndRelease(job)
      \/ Active(a) /\ pc' = "prepare" /\ UNCHANGED <<job, saves>>
      \/ Active(a) /\ job' = j(expiredNow) /\ pc' = "finish" /\ UNCHANGED saves
      \/ pc' = "finish" /\ UNCHANGED <<job, saves>>
      \/ Active(a) /\ job' = j(next) /\ pc' = "finish" /\ UNCHANGED saves
      \/ Active(a) /\ SaveAndRelease(Synced(j(next)))
  BY DEF Recover, Active, Terminal, TerminalAttemptStates
<1>3. ASSUME Active(a)
      PROVE  /\ Kept(job, j(next)) /\ Closed(j(next))
             /\ Kept(job, Synced(j(next))) /\ Closed(Synced(j(next)))
             /\ Kept(job, j(expiredNow)) /\ Closed(j(expiredNow))
             /\ job.zone # "FINISHED"
  <2>1. a \in Attempts /\ job.zone # "FINISHED"
    BY <1>3, ActiveUnfinished
  <2>2. Keeps(a, next) /\ Keeps(a, expiredNow)
    BY <2>1, ProgressedKeeps, FinishKeeps DEF TerminalAttemptStates, AttemptReasons
  <2> HIDE DEF next, expiredNow
  <2> QED
    BY <2>1, <2>2, ObservedOutcome
<1> HIDE DEF a, next, expiredNow, j
<1>4. CASE SaveAndRelease(job)
  BY <1>1, <1>4, ReleaseJobStep
<1>5. CASE Active(a) /\ SaveAndRelease(Synced(j(next)))
  BY <1>1, <1>3, <1>5, ReleaseJobStep
<1>6. CASE pc' \in {"finish", "prepare"} /\ UNCHANGED <<job, saves>>
           /\ (pc' = "prepare" => Active(a))
  BY <1>1, <1>3, <1>6 DEF JobStep, InStart
<1>7. CASE Active(a) /\ job' \in {j(expiredNow), j(next)} /\ pc' = "finish" /\ UNCHANGED saves
  BY <1>1, <1>3, <1>7 DEF JobStep, InStart
<1> QED
  BY <1>2, <1>4, <1>5, <1>6, <1>7

\* Readings, the deadline and idle steps leave the job and its copies alone.
LEMMA WorldOutcome ==
  ASSUME IInv, OutcomeInv,
         \/ \E reading \in {"on", "off", "unknown"} : PowerReads(reading)
         \/ DeadlinePasses
         \/ UNCHANGED vars
  PROVE  JobStep
<1>1. UNCHANGED <<job, disk, saves, pc>>
  BY DEF PowerReads, DeadlinePasses, memory, vars
<1> QED
  BY <1>1, QuietJobStep DEF InStart

\* Every step is one of four kinds.
LEMMA StepKinds ==
  ASSUME IInv, OutcomeInv, [Next]_vars
  PROVE  JobStep \/ Flush \/ Tick \/ Crash
<1>1. CASE Engine
  BY <1>1, StartOutcome, CommandAnsweredOutcome, FinishOutcome, ProgressOutcome, UserOutcome
     DEF Engine
<1>2. CASE Environment
  BY <1>2, WorldOutcome, RecoverOutcome DEF Environment
<1> QED
  BY <1>1, <1>2, EmergencyOutcome, WorldOutcome DEF Next

LEMMA OutcomeInductive == IInv /\ OutcomeInv /\ [Next]_vars => OutcomeInv'
BY StepKinds, JobStepKeepsOutcome, FlushKeepsOutcome, TickKeepsOutcome, CrashKeepsOutcome

LEMMA InitOutcome == Init => OutcomeInv
<1> SUFFICES ASSUME Init PROVE OutcomeInv
  OBVIOUS
<1>1. DOMAIN saves = {} /\ disk = job /\ job.zone = "WAIT" /\ pc = "idle"
  BY DEF Init
<1> QED
  BY <1>1 DEF OutcomeInv, Lineage, NothingReopens, Kept, Closed, InStart

\* From the disk to the memory no copy of the job lacks a result an older one has.
THEOREM OutcomeInvariant == Spec => []OutcomeInv
BY InitOutcome, OutcomeInductive, Invariant, PTL DEF Spec

\* A result once written is never overwritten: neither by a snapshot that was
\* taken before it, nor by the emergency's save, nor by startup recovery.
THEOREM OutcomesAreDurable == Spec => DurableOutcome
<1>1. IInv /\ OutcomeInv /\ [Next]_vars =>
        [disk.zone = "FINISHED" => disk'.zone = "FINISHED" /\ disk'.reason = disk.reason]_vars
  <2> SUFFICES ASSUME IInv, OutcomeInv, [Next]_vars
               PROVE  Kept(disk, disk')
    BY DEF Kept
  <2>1. Kept(disk, disk)
    BY DEF Kept
  <2> QED
    BY <2>1, StepKinds, FlushKeepsOutcome, TickKeepsOutcome DEF JobStep, Crash
<1> QED
  BY <1>1, Invariant, OutcomeInvariant, PTL DEF Spec, DurableOutcome

\* What the disk says while a start may be handed to the robot.
LEMMA SentWhileCommitted ==
  ASSUME IInv, OutcomeInv, SendStart
  PROVE  /\ sent = 0 /\ sent' = 1 /\ UNCHANGED disk
         /\ disk.zone # "FINISHED" /\ disk.attempt.intent
<1>1. job.zone # "FINISHED"
  BY DEF OutcomeInv, InStart, SendStart, BarrierPassed
<1>2. disk.zone # "FINISHED"
  BY <1>1 DEF OutcomeInv, Lineage, Kept
<1>3. sent = 0 /\ disk.attempt.intent
  BY DEF IInv, Station, IntentIsSaved, CommittedJobs, SendStart, BarrierPassed
<1> QED
  BY <1>2, <1>3 DEF SendStart

\* No other step counts a start.
LEMMA OnlySendStartSends ==
  ASSUME [Next]_vars, ~SendStart
  PROVE  UNCHANGED sent
BY DEF Next, Engine, Emergency, Environment, vars, world, BeginStart, MuteForPrepare,
       PrepareFails, FailBeforeCommand, PowerRefusesIntent, WriteIntent, PowerRefusesCommand,
       CommandAnswered, MuteForRestore, FinishDone, SaveDone, Progress, UserCancel,
       CloseWaiting, PowerEmergency, EmergencyCommandsDone, EmergencyOver, Flush, PowerReads,
       Tick, DeadlinePasses, Crash, Recover

\* Once a start was sent a write may close the occurrence, and nothing else.
LEMMA WritesFollowPromise ==
  ASSUME IInv, OutcomeInv, [Next]_vars, ~SendStart
  PROVE  /\ UNCHANGED sent /\ Kept(disk, disk')
         /\ ~(disk.attempt.intent <=> disk'.attempt.intent) => sent = 0
<1>1. UNCHANGED sent
  BY OnlySendStartSends
<1>2. Kept(disk, disk')
  <2>1. Kept(disk, disk)
    BY DEF Kept
  <2> QED
    BY <2>1, StepKinds, FlushKeepsOutcome, TickKeepsOutcome DEF JobStep, Crash
<1>3. sent > 0 => disk \in CommittedJobs /\ disk' \in CommittedJobs
  BY <1>1, Inductive DEF IInv, SentIsCommitted
<1>4. sent > 0 => disk.attempt.intent = TRUE /\ disk'.attempt.intent = TRUE
  <2> SUFFICES ASSUME NEW j \in CommittedJobs PROVE j.attempt.intent = TRUE
    BY <1>3
  <2>1. j.attempt \in Attempts /\ j.attempt.intent
    BY HasAttempt DEF CommittedJobs
  <2> QED
    BY <2>1 DEF Attempts
<1>5. sent # 0 => disk.attempt.intent /\ disk'.attempt.intent
  BY <1>4 DEF IInv
<1> QED
  BY <1>1, <1>2, <1>5, Zenon

\* The status of the abstract protocol that Promise reads off the disk.
DiskStatus ==
  IF disk.zone = "FINISHED" THEN "closed"
  ELSE IF disk.attempt.intent THEN "committed" ELSE "open"

LEMMA StepKeepsPromise ==
  ASSUME IInv, OutcomeInv, [Next]_vars
  PROVE  [Promise!Next]_<<DiskStatus, sent>>
<1>1. CASE SendStart
  BY <1>1, SentWhileCommitted DEF DiskStatus, Promise!Next, Promise!Send
<1>2. CASE ~SendStart
  <2>1. /\ UNCHANGED sent /\ Kept(disk, disk')
        /\ ~(disk.attempt.intent <=> disk'.attempt.intent) => sent = 0
    BY <1>2, WritesFollowPromise
  <2>2. CASE disk'.zone = "FINISHED"
    BY <2>1, <2>2 DEF DiskStatus, Promise!Next, Promise!Close
  <2>3. CASE disk'.zone # "FINISHED"
    <3>1. disk.zone # "FINISHED"
      BY <2>1, <2>3 DEF Kept
    <3>2. CASE disk.attempt.intent /\ ~disk'.attempt.intent
      BY <2>1, <2>3, <3>1, <3>2 DEF DiskStatus, Promise!Next, Promise!Withdraw
    <3>3. CASE ~disk.attempt.intent /\ disk'.attempt.intent
      BY <2>1, <2>3, <3>1, <3>3 DEF DiskStatus, Promise!Next, Promise!Commit
    <3>4. CASE disk.attempt.intent <=> disk'.attempt.intent
      BY <2>1, <2>3, <3>1, <3>4 DEF DiskStatus
    <3> QED
      BY <3>2, <3>3, <3>4
  <2> QED
    BY <2>2, <2>3
<1> QED
  BY <1>1, <1>2

\* The boundary implements the abstract start protocol: on disk a start is
\* committed before it is sent, it is sent once, and it is never taken back.
THEOREM Refinement == Spec => KeepsPromise
<1>1. Init => Promise!Init
  <2> SUFFICES ASSUME Init PROVE Promise!Init
    OBVIOUS
  <2>1. disk.zone = "WAIT" /\ disk.attempt = NoAttempt /\ sent = 0
    BY DEF Init
  <2> QED
    BY <2>1, NoAttemptFacts DEF Promise!Init
<1>2. IInv /\ OutcomeInv /\ [Next]_vars => [Promise!Next]_<<DiskStatus, sent>>
  BY StepKeepsPromise
<1> QED
  BY <1>1, <1>2, Invariant, OutcomeInvariant, PTL
     DEF Spec, KeepsPromise, Promise!Spec, DiskStatus
==============================================================================
