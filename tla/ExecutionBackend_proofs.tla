------------------------ MODULE ExecutionBackend_proofs ------------------------
(***************************************************************************)
(* What observation decides is right for every set of reports and every    *)
(* value of the limits: no waiting state is left without its timer, only a *)
(* confirmed session is owned, a cancel is final, and an attempt completes *)
(* only after an unbroken run of quiet observations as long as the settle  *)
(* time.                                                                   *)
(*                                                                         *)
(* The argument goes branch by branch through async_progress.  Healthy is  *)
(* what every branch keeps of one attempt; Justified is what it owes when  *)
(* it arms a completion or completes.  QuietTracked carries the candidate  *)
(* time from one observation to the next: it is never older than the       *)
(* current run of quiet observations.                                      *)
(***************************************************************************)
EXTENDS ExecutionBackend, TLAPS

Armed(a) ==
  /\ a.state \in Prestart => a.startAge # NoTimer
  /\ a.state = "RECONCILING" => (a.confirmed \/ a.startAge # NoTimer)
  /\ a.state = "ROBOT_ERROR_BLOCKED" <=> (a.errorAge # NoTimer /\ a.state # "CANCEL_REQUESTED")
  /\ a.state = "COMPLETION_PENDING" => a.quietAge # NoTimer
  /\ a.state = "CANCEL_REQUESTED" => a.cancelAge # NoTimer

OwnsConfirmed(a) == a.state \in Owned \cup {"COMPLETED"} => a.confirmed

Healthy(a) ==
  a \in Attempts /\ a.state # "PREPARING" /\ Armed(a) /\ OwnsConfirmed(a)

Calm(obs, blocked) == obs.phase \in {"IDLE", "UNKNOWN"} /\ ~obs.active /\ ~blocked

\* From a to b under one observation: a completion was earned, and a candidate
\* time is new or was already running.
Justified(a, b, obs, blocked) ==
  /\ b.state = "COMPLETED" =>
       \/ blocked /\ b.final /\ b.floorDone
       \/ /\ Calm(obs, blocked)
          /\ a.state = "COMPLETION_PENDING" /\ Due(a.quietAge, Settle(b, obs))
  /\ b.state = "COMPLETION_PENDING" =>
       /\ Calm(obs, blocked)
       /\ b.quietAge = 0 \/ (a.state = "COMPLETION_PENDING" /\ b.quietAge = a.quietAge)

QuietTracked ==
  attempt.state = "COMPLETION_PENDING" =>
    quietFor # NoTimer /\ attempt.quietAge <= quietFor

IInv == TypeOK /\ Healthy(attempt) /\ QuietTracked

-----------------------------------------------------------------------------
(* The observer *)

\* Every report is classified: a phase is one of Phases.
LEMMA PhaseType ==
  ASSUME NEW r
  PROVE  Phase(r) \in Phases
<1> DEFINE table == PhaseTable(r)
           holds == {i \in DOMAIN table : table[i][1]}
           first == CHOOSE i \in holds : \A j \in holds : i <= j
<1>1. DOMAIN table = 1..11 /\ table[11][1] = TRUE
  BY DEF PhaseTable
<1>2. holds \subseteq 1..11 /\ 11 \in holds
  BY <1>1
<1>3. \E i \in holds : \A j \in holds : i <= j
  <2> HIDE DEF holds
  <2>1. CASE 1 \in holds
    BY <1>2, <2>1
  <2>2. CASE 1 \notin holds /\ \E i \in 2..4 : i \in holds
    BY <1>2, <2>2
  <2>3. CASE (\A i \in 1..4 : i \notin holds) /\ \E i \in 5..8 : i \in holds
    BY <1>2, <2>3
  <2>4. CASE \A i \in 1..8 : i \notin holds
    BY <1>2, <2>4
  <2> QED
    BY <2>1, <2>2, <2>3, <2>4
<1>4. first \in holds
  BY <1>3, Zenon
<1>5. first \in 1..11
  <2> HIDE DEF holds, first
  <2> QED
    BY <1>2, <1>4
<1>6. \A i \in 1..11 : table[i][2] \in Phases
  BY DEF PhaseTable, Phases
<1>7. Phase(r) = table[first][2]
  BY Zenon DEF Phase
<1> HIDE DEF table, first
<1> QED
  BY <1>5, <1>6, <1>7

\* A robot that is not active is away, on its way home, in error or at rest.
LEMMA InactivePhase ==
  ASSUME NEW r, ~Observe(r).active
  PROVE  Observe(r).phase \in {"UNAVAILABLE", "RETURNING", "IDLE", "UNKNOWN", "ERROR"}
BY PhaseType DEF Observe, Phases, SessionPhases

-----------------------------------------------------------------------------
(* The result of a branch is an attempt *)

LEMMA TimerType == NoTimer \in Ages /\ 0 \in Ages
BY LimitAssumption DEF Ages, NoTimer

\* A timer that runs goes on running, and ages alike.
LEMMA OlderFacts ==
  ASSUME NEW x \in Ages, NEW y \in Ages
  PROVE  /\ Older(x) \in Ages
         /\ Older(x) = NoTimer <=> x = NoTimer
         /\ x <= y /\ y # NoTimer => Older(x) <= Older(y)
BY LimitAssumption DEF Ages, Older, NoTimer

LEMMA NewAttemptType ==
  ASSUME NEW final \in BOOLEAN
  PROVE  NewAttempt(final) \in Attempts
BY TimerType DEF NewAttempt, Attempts, AttemptStates, AttemptReasons

\* Evidence is noted field by field.
LEMMA ProgressSeen ==
  ASSUME NEW a \in Attempts,
         NEW cleaning \in BOOLEAN, NEW floor \in BOOLEAN, NEW service \in BOOLEAN
  PROVE  [a EXCEPT !.cleaningSeen = cleaning, !.floorDone = floor, !.serviceSeen = service]
           \in Attempts
BY DEF Attempts

LEMMA DockSeen ==
  ASSUME NEW a \in Attempts,
         NEW empty \in BOOLEAN, NEW postService \in BOOLEAN, NEW postEmpty \in BOOLEAN
  PROVE  [a EXCEPT !.emptySeen = empty, !.postService = postService, !.postEmpty = postEmpty]
           \in Attempts
BY DEF Attempts

LEMMA MarkedType ==
  ASSUME NEW a \in Attempts, NEW obs
  PROVE  Marked(a, obs) \in Attempts
<1>1. PICK cleaning \in BOOLEAN : cleaning = CleaningMarked(a, obs)
  BY Zenon DEF CleaningMarked
<1>2. PICK floor \in BOOLEAN : floor = FloorMarked(a, obs)
  BY Zenon DEF FloorMarked
<1>3. PICK service \in BOOLEAN : service = (a.serviceSeen \/ Serving(a, obs))
  OBVIOUS
<1>4. PICK empty \in BOOLEAN : empty = (a.emptySeen \/ (Serving(a, obs) /\ obs.autoEmpty))
  OBVIOUS
<1>5. PICK postService \in BOOLEAN :
        postService = (a.postService \/ (Promoted(a, obs) /\ a.serviceSeen)
                                     \/ (FloorMarked(a, obs) /\ Serving(a, obs)))
  OBVIOUS
<1>6. PICK postEmpty \in BOOLEAN :
        postEmpty = (a.postEmpty \/ (EmptyPromoted(a, obs) /\ a.emptySeen)
                                 \/ (FloorMarked(a, obs) /\ Serving(a, obs) /\ obs.autoEmpty))
  OBVIOUS
<1> DEFINE seen == [a EXCEPT !.cleaningSeen = cleaning, !.floorDone = floor,
                             !.serviceSeen = service]
           docked == [seen EXCEPT !.emptySeen = empty, !.postService = postService,
                                  !.postEmpty = postEmpty]
<1>7. Marked(a, obs) = [a EXCEPT !.cleaningSeen = cleaning, !.floorDone = floor,
                                 !.serviceSeen = service, !.emptySeen = empty,
                                 !.postService = postService, !.postEmpty = postEmpty]
  BY <1>1, <1>2, <1>3, <1>4, <1>5, <1>6, Zenon DEF Marked
<1>8. seen \in Attempts
  BY ProgressSeen, Zenon
<1>9. docked \in Attempts
  <2> HIDE DEF seen
  <2> QED
    BY <1>8, DockSeen, Zenon
<1>10. docked = Marked(a, obs)
  BY <1>7 DEF Attempts
<1> HIDE DEF docked
<1> QED
  BY <1>9, <1>10

LEMMA FinishType ==
  ASSUME NEW a \in Attempts, NEW state \in TerminalAttemptStates, NEW reason \in AttemptReasons
  PROVE  Finish(a, state, reason) \in Attempts /\ Finish(a, state, reason).state = state
<1>1. state \in AttemptStates
  BY DEF AttemptStates
<1> QED
  BY <1>1, TimerType DEF Attempts, Finish

LEMMA IncidentOpenedType ==
  ASSUME NEW a \in Attempts
  PROVE  IncidentOpened(a) \in Attempts
<1>1. "ROBOT_ERROR_BLOCKED" \in AttemptStates
  BY DEF AttemptStates, Owned
<1> QED
  BY <1>1, TimerType DEF Attempts, IncidentOpened

LEMMA ConfirmType ==
  ASSUME NEW a \in Attempts, NEW state \in AttemptStates
  PROVE  Confirm(a, state) \in Attempts
BY TimerType DEF Attempts, Confirm

LEMMA CandidateArmedType ==
  ASSUME NEW a \in Attempts
  PROVE  CandidateArmed(a) \in Attempts
<1>1. "COMPLETION_PENDING" \in AttemptStates
  BY DEF AttemptStates, Owned
<1> QED
  BY <1>1, TimerType DEF Attempts, CandidateArmed

LEMMA StateType ==
  ASSUME NEW a \in Attempts, NEW state \in AttemptStates
  PROVE  [a EXCEPT !.state = state] \in Attempts
BY DEF Attempts

LEMMA AgedType ==
  ASSUME NEW a \in Attempts
  PROVE  Aged(a) \in Attempts /\ Aged(a).state = a.state
<1>1. \A age \in Ages : Older(age) \in Ages
  BY OlderFacts
<1> QED
  BY <1>1 DEF Attempts, Aged

-----------------------------------------------------------------------------
(* One branch of async_progress after the other *)

\* Noting evidence touches neither a timer nor what decisions rest on.
LEMMA MarkedSame ==
  ASSUME NEW a \in Attempts, NEW obs
  PROVE  LET b == Marked(a, obs)
         IN  /\ b.state = a.state /\ b.confirmed = a.confirmed /\ b.final = a.final
             /\ b.startAge = a.startAge /\ b.cancelAge = a.cancelAge
             /\ b.errorAge = a.errorAge /\ b.quietAge = a.quietAge
BY DEF Marked, Attempts

LEMMA MarkedHealthy ==
  ASSUME NEW a, NEW obs, Healthy(a)
  PROVE  Healthy(Marked(a, obs))
<1> DEFINE b == Marked(a, obs)
<1>1. b \in Attempts
  BY MarkedType DEF Healthy
<1>2. /\ b.state = a.state /\ b.confirmed = a.confirmed
      /\ b.startAge = a.startAge /\ b.cancelAge = a.cancelAge
      /\ b.errorAge = a.errorAge /\ b.quietAge = a.quietAge
  BY MarkedSame DEF Healthy
<1> HIDE DEF b
<1> QED
  BY <1>1, <1>2 DEF Healthy, Armed, OwnsConfirmed, b

LEMMA FinishHealthy ==
  ASSUME NEW a \in Attempts, NEW state \in TerminalAttemptStates, NEW reason \in AttemptReasons,
         state = "COMPLETED" => a.confirmed
  PROVE  /\ Healthy(Finish(a, state, reason))
         /\ Finish(a, state, reason).state = state
         /\ Finish(a, state, reason).final = a.final
         /\ Finish(a, state, reason).floorDone = a.floorDone
         /\ Finish(a, state, reason).postEmpty = a.postEmpty
<1> DEFINE b == Finish(a, state, reason)
<1>1. b \in Attempts /\ b.state = state
  BY FinishType
<1>2. /\ b.errorAge = NoTimer /\ b.confirmed = a.confirmed /\ b.final = a.final
      /\ b.floorDone = a.floorDone /\ b.postEmpty = a.postEmpty
  BY DEF Finish, Attempts
<1>3. state \notin Prestart \cup Owned
        \cup {"PREPARING", "RECONCILING", "CANCEL_REQUESTED"}
  BY DEF TerminalAttemptStates, Prestart, Owned
<1>4. state \in Owned \cup {"COMPLETED"} => a.confirmed
  BY <1>3
<1> HIDE DEF b
<1> QED
  BY <1>1, <1>2, <1>3, <1>4 DEF Healthy, Armed, OwnsConfirmed, Owned, b

\* An attempt that failed or was cancelled owes no justification.
LEMMA EndedJustified ==
  ASSUME NEW a \in Attempts, NEW c, NEW obs, NEW blocked,
         NEW state \in {"FAILED", "CANCELLED"}, NEW reason \in AttemptReasons
  PROVE  LET b == Finish(a, state, reason)
         IN  Healthy(b) /\ b.state = state /\ Justified(c, b, obs, blocked)
<1>1. state \in TerminalAttemptStates /\ state # "COMPLETED" /\ state # "COMPLETION_PENDING"
  BY DEF TerminalAttemptStates
<1>2. Healthy(Finish(a, state, reason)) /\ Finish(a, state, reason).state = state
  BY <1>1, FinishHealthy
<1> QED
  BY <1>1, <1>2 DEF Justified

LEMMA CancellingHealthy ==
  ASSUME NEW a, NEW obs, NEW blocked, Healthy(a), a.state = "CANCEL_REQUESTED"
  PROVE  LET b == Cancelling(a, obs)
         IN  /\ Healthy(b) /\ Justified(a, b, obs, blocked)
             /\ b.state \in {"CANCEL_REQUESTED", "CANCELLED", "FAILED"}
<1>1. a \in Attempts
  BY DEF Healthy
<1>2. /\ "power_supply_lost" \in AttemptReasons /\ "user_cancelled" \in AttemptReasons
  BY DEF AttemptReasons
<1>3. LET b == Finish(a, "FAILED", "power_supply_lost")
      IN  Healthy(b) /\ b.state = "FAILED" /\ Justified(a, b, obs, blocked)
  BY <1>1, <1>2, EndedJustified
<1>4. LET b == Finish(a, "CANCELLED", "user_cancelled")
      IN  Healthy(b) /\ b.state = "CANCELLED" /\ Justified(a, b, obs, blocked)
  BY <1>1, <1>2, EndedJustified
<1>5. Justified(a, a, obs, blocked)
  BY DEF Justified
<1> QED
  BY <1>3, <1>4, <1>5 DEF Cancelling

LEMMA ErringHealthy ==
  ASSUME NEW a, NEW obs, NEW blocked, Healthy(a), a.state # "CANCEL_REQUESTED"
  PROVE  LET b == Erring(a)
         IN  Healthy(b) /\ Justified(a, b, obs, blocked)
<1> DEFINE opened == IncidentOpened(a)
<1>1. a \in Attempts
  BY DEF Healthy
<1>2. /\ "execution_failed" \in AttemptReasons
      /\ "robot_error_recovery_timeout" \in AttemptReasons
  BY DEF AttemptReasons
<1>3. opened \in Attempts /\ opened.state = "ROBOT_ERROR_BLOCKED"
      /\ opened.confirmed = a.confirmed /\ opened.errorAge # NoTimer
  <2>1. opened \in Attempts
    BY <1>1, IncidentOpenedType
  <2>2. 0 # NoTimer
    BY LimitAssumption DEF NoTimer
  <2> QED
    BY <1>1, <2>1, <2>2 DEF IncidentOpened, Attempts
<1>4. CASE ~a.confirmed
  BY <1>1, <1>2, <1>4, EndedJustified DEF Erring
<1>5. CASE a.confirmed /\ Due(a.errorAge, ErrorLimit)
  <2> HIDE DEF opened
  <2>1. Erring(a) = Finish(opened, "FAILED", "robot_error_recovery_timeout")
    BY <1>5 DEF Erring, opened
  <2> QED
    BY <1>2, <1>3, <2>1, EndedJustified
<1>6. CASE a.confirmed /\ ~Due(a.errorAge, ErrorLimit)
  <2>1. Erring(a) = opened
    BY <1>6 DEF Erring
  <2> HIDE DEF opened
  <2> QED
    BY <1>3, <1>6, <2>1 DEF Healthy, Armed, OwnsConfirmed, Justified, Prestart, Owned
<1> QED
  BY <1>4, <1>5, <1>6

LEMMA BlockingHealthy ==
  ASSUME NEW a, NEW obs, Healthy(a), a.confirmed, a.state # "CANCEL_REQUESTED"
  PROVE  LET b == Blocking(a, obs)
         IN  Healthy(b) /\ Justified(a, b, obs, TRUE)
<1> DEFINE held == [a EXCEPT !.quietAge = NoTimer, !.errorAge = NoTimer]
           floor == [held EXCEPT !.floorDone = TRUE]
           b == Blocking(a, obs)
<1>1. a \in Attempts
  BY DEF Healthy
<1>2. floor \in Attempts /\ floor.confirmed = a.confirmed /\ floor.final = a.final
      /\ floor.floorDone
  BY <1>1, TimerType DEF Attempts
<1>3. CASE PhysicallyFinished(a, obs) /\ a.final
  <2>1. b = Finish(floor, "COMPLETED", "none")
    BY <1>3 DEF Blocking
  <2>2. "COMPLETED" \in TerminalAttemptStates /\ "none" \in AttemptReasons
    BY DEF TerminalAttemptStates, AttemptReasons
  <2> HIDE DEF floor, b
  <2>3. /\ Healthy(b) /\ b.state = "COMPLETED" /\ b.final = floor.final
        /\ b.floorDone = floor.floorDone
    BY <1>2, <2>1, <2>2, FinishHealthy
  <2>4. b.final /\ b.floorDone
    BY <1>2, <1>3, <2>3
  <2> QED
    BY <2>3, <2>4 DEF Justified, b
<1>4. CASE ~(PhysicallyFinished(a, obs) /\ a.final)
  <2>1. PICK blocked \in BOOLEAN :
          blocked = (a.blockedBefore \/ a.state # "ROBOT_SERVICE_BLOCKED")
    OBVIOUS
  <2>2. b = [held EXCEPT !.state = "ROBOT_SERVICE_BLOCKED", !.blockedBefore = blocked]
    BY <1>1, <1>4, <2>1 DEF Blocking, Attempts
  <2>3. "ROBOT_SERVICE_BLOCKED" \in AttemptStates
    BY DEF AttemptStates, Owned
  <2>4. b \in Attempts
    BY <1>1, <2>2, <2>3, TimerType DEF Attempts
  <2>5. /\ b.state = "ROBOT_SERVICE_BLOCKED" /\ b.confirmed = a.confirmed
        /\ b.errorAge = NoTimer
    BY <1>1, <2>2 DEF Attempts
  <2> HIDE DEF b
  <2> QED
    BY <2>4, <2>5 DEF Healthy, Armed, OwnsConfirmed, Justified, Prestart, Owned, b
<1> QED
  BY <1>3, <1>4

\* An attempt that is confirmed by an observation of its session.
LEMMA ConfirmHealthy ==
  ASSUME NEW a \in Attempts, a.errorAge = NoTimer,
         NEW state \in {"RUNNING", "PAUSED", "ROBOT_SERVICE", "ROBOT_SERVICE_BLOCKED"}
  PROVE  Healthy(Confirm(a, state)) /\ Confirm(a, state).state = state
<1> DEFINE b == Confirm(a, state)
<1>1. state \in AttemptStates /\ state # "PREPARING"
  BY DEF AttemptStates, Owned
<1>2. b \in Attempts
  BY <1>1, ConfirmType
<1>3. b.state = state /\ b.confirmed = TRUE /\ b.errorAge = NoTimer
  BY DEF Confirm, Attempts
<1> HIDE DEF b
<1> QED
  BY <1>2, <1>3 DEF Healthy, Armed, OwnsConfirmed, Prestart, Owned, b

LEMMA SessionState ==
  ASSUME NEW obs
  PROVE  ObservationState(obs) \in {"RUNNING", "PAUSED", "ROBOT_SERVICE", "ROBOT_SERVICE_BLOCKED"}
BY DEF ObservationState

LEMMA ConfirmingHealthy ==
  ASSUME NEW a, NEW obs, NEW blocked, Healthy(a), ~a.confirmed,
         ~Terminal(a), a.state # "CANCEL_REQUESTED"
  PROVE  LET b == Confirming(a, obs, blocked)
         IN  Healthy(b) /\ Justified(a, b, obs, blocked)
<1> DEFINE held == Confirm(a, "ROBOT_SERVICE_BLOCKED")
           marked == [held EXCEPT !.blockedBefore = TRUE]
           lost == [a EXCEPT !.state = "RECONCILING"]
           b == Confirming(a, obs, blocked)
<1>1. a \in Attempts
  BY DEF Healthy
<1>2. a.state \in Prestart \cup {"RECONCILING"}
  BY <1>1 DEF Healthy, OwnsConfirmed, Terminal, Attempts, AttemptStates, TerminalAttemptStates
<1>3. a.errorAge = NoTimer /\ a.startAge # NoTimer
  BY <1>2 DEF Healthy, Armed, Prestart
<1>4. Healthy(held) /\ held.state = "ROBOT_SERVICE_BLOCKED"
  BY <1>1, <1>3, ConfirmHealthy
<1>5. Healthy(marked) /\ marked.state = "ROBOT_SERVICE_BLOCKED"
  <2> HIDE DEF held
  <2>1. /\ marked \in Attempts /\ marked.state = held.state /\ marked.confirmed = held.confirmed
        /\ marked.startAge = held.startAge /\ marked.errorAge = held.errorAge
        /\ marked.quietAge = held.quietAge /\ marked.cancelAge = held.cancelAge
    BY <1>4 DEF Healthy, Attempts
  <2> HIDE DEF marked
  <2> QED
    BY <1>4, <2>1 DEF Healthy, Armed, OwnsConfirmed
<1>6. Justified(a, marked, obs, blocked)
  BY <1>5 DEF Justified
<1>7. LET c == Confirm(a, ObservationState(obs))
      IN  Healthy(c) /\ Justified(a, c, obs, blocked)
  <2>1. PICK seen \in {"RUNNING", "PAUSED", "ROBOT_SERVICE", "ROBOT_SERVICE_BLOCKED"} :
          seen = ObservationState(obs)
    BY SessionState
  <2>2. Healthy(Confirm(a, seen)) /\ Confirm(a, seen).state = seen
    BY <1>1, <1>3, ConfirmHealthy
  <2>3. Justified(a, Confirm(a, seen), obs, blocked)
    BY <2>2 DEF Justified
  <2> QED
    BY <2>1, <2>2, <2>3
<1>8. /\ LET c == Finish(a, "FAILED", "execution_preempted_external")
         IN  Healthy(c) /\ Justified(a, c, obs, blocked)
      /\ LET c == Finish(a, "FAILED", "execution_start_timeout")
         IN  Healthy(c) /\ Justified(a, c, obs, blocked)
  BY <1>1, EndedJustified DEF AttemptReasons
<1>9. Healthy(lost) /\ Justified(a, lost, obs, blocked)
  <2>1. lost \in Attempts
    BY <1>1, StateType DEF AttemptStates
  <2>2. /\ lost.state = "RECONCILING" /\ lost.startAge = a.startAge
        /\ lost.errorAge = a.errorAge
    BY <1>1 DEF Attempts
  <2> HIDE DEF lost
  <2> QED
    BY <1>3, <2>1, <2>2 DEF Healthy, Armed, OwnsConfirmed, Justified, Prestart, Owned
<1>10. Justified(a, a, obs, blocked)
  BY <1>2 DEF Justified, Prestart
<1>11. b \in {marked, Confirm(a, ObservationState(obs)),
              Finish(a, "FAILED", "execution_preempted_external"), lost,
              Finish(a, "FAILED", "execution_start_timeout"), a}
  BY Zenon DEF Confirming
<1> HIDE DEF marked, lost, b
<1> QED
  BY <1>5, <1>6, <1>7, <1>8, <1>9, <1>10, <1>11 DEF b

\* An attempt under observation that is neither cancelled, nor ended, nor in error.
Followed(a) ==
  /\ Healthy(a) /\ a.confirmed /\ ~Terminal(a)
  /\ a.state \notin {"CANCEL_REQUESTED", "ROBOT_ERROR_BLOCKED"}

LEMMA FollowedFacts ==
  ASSUME NEW a, Followed(a)
  PROVE  a \in Attempts /\ a.errorAge = NoTimer /\ a.state # "COMPLETED"
BY DEF Followed, Healthy, Armed, Terminal, TerminalAttemptStates

LEMMA CandidateHealthy ==
  ASSUME NEW a, NEW obs, NEW c, Healthy(c), c.confirmed, c.errorAge = NoTimer, Calm(obs, FALSE)
  PROVE  Healthy(CandidateArmed(c)) /\ Justified(a, CandidateArmed(c), obs, FALSE)
<1> DEFINE b == CandidateArmed(c)
<1>1. b \in Attempts
  BY CandidateArmedType DEF Healthy
<1>2. /\ b.state = "COMPLETION_PENDING" /\ b.quietAge = 0 /\ b.confirmed = c.confirmed
      /\ b.errorAge = c.errorAge
  BY DEF CandidateArmed, Healthy, Attempts
<1>3. b.quietAge # NoTimer
  BY <1>2, LimitAssumption DEF NoTimer
<1> HIDE DEF b
<1> QED
  BY <1>1, <1>2, <1>3 DEF Healthy, Armed, OwnsConfirmed, Justified, Prestart, Owned, b

LEMMA SettlingHealthy ==
  ASSUME NEW a, NEW obs, Followed(a), Calm(obs, FALSE)
  PROVE  LET b == Settling(a, obs)
         IN  Healthy(b) /\ Justified(a, b, obs, FALSE)
<1> DEFINE released == [a EXCEPT !.blockedBefore = FALSE]
           completed == Finish(released, "COMPLETED", "none")
           blockedAgain == [a EXCEPT !.state = "ROBOT_SERVICE_BLOCKED"]
           b == Settling(a, obs)
<1>1. a \in Attempts /\ a.errorAge = NoTimer /\ a.state # "COMPLETED" /\ a.confirmed
      /\ Healthy(a)
  BY FollowedFacts DEF Followed
<1>2. /\ released \in Attempts /\ released.state = a.state /\ released.confirmed = a.confirmed
      /\ released.startAge = a.startAge /\ released.errorAge = a.errorAge
      /\ released.quietAge = a.quietAge /\ released.cancelAge = a.cancelAge
      /\ released.floorDone = a.floorDone /\ released.postEmpty = a.postEmpty
  BY <1>1 DEF Attempts
<1> HIDE DEF released
<1>3. Healthy(released)
  BY <1>1, <1>2 DEF Healthy, Armed, OwnsConfirmed
<1>4. /\ Healthy(CandidateArmed(released)) /\ Justified(a, CandidateArmed(released), obs, FALSE)
      /\ Healthy(CandidateArmed(a)) /\ Justified(a, CandidateArmed(a), obs, FALSE)
  BY <1>1, <1>2, <1>3, CandidateHealthy
<1>5. Healthy(blockedAgain) /\ Justified(a, blockedAgain, obs, FALSE)
  <2>1. blockedAgain \in Attempts
    BY <1>1, StateType DEF AttemptStates, Owned
  <2>2. /\ blockedAgain.state = "ROBOT_SERVICE_BLOCKED" /\ blockedAgain.confirmed = a.confirmed
        /\ blockedAgain.errorAge = a.errorAge
    BY <1>1 DEF Attempts
  <2> HIDE DEF blockedAgain
  <2> QED
    BY <1>1, <2>1, <2>2 DEF Healthy, Armed, OwnsConfirmed, Justified, Prestart, Owned
<1>6. ASSUME CandidateRunning(a), Settled(a, obs)
      PROVE  Healthy(completed) /\ Justified(a, completed, obs, FALSE)
  <2>1. /\ Healthy(completed) /\ completed.state = "COMPLETED"
        /\ completed.floorDone = a.floorDone /\ completed.postEmpty = a.postEmpty
    <3>1. released \in Attempts /\ released.confirmed
      BY <1>1, <1>2
    <3>2. "COMPLETED" \in TerminalAttemptStates /\ "none" \in AttemptReasons
      BY DEF TerminalAttemptStates, AttemptReasons
    <3>3. /\ Healthy(completed) /\ completed.state = "COMPLETED"
          /\ completed.floorDone = released.floorDone
          /\ completed.postEmpty = released.postEmpty
      BY <3>1, <3>2, FinishHealthy
    <3> HIDE DEF completed
    <3> QED
      BY <1>2, <3>3
  <2> HIDE DEF completed
  <2>2. Settle(completed, obs) = Settle(a, obs)
    BY <2>1, Zenon DEF Settle
  <2> QED
    BY <1>6, <2>1, <2>2 DEF Justified, Settled, CandidateRunning
<1>7. ASSUME CandidateRunning(a)
      PROVE  Justified(a, a, obs, FALSE)
  BY <1>1, <1>7 DEF Justified
<1>8. \/ b \in {CandidateArmed(released), CandidateArmed(a), blockedAgain}
      \/ b = completed /\ CandidateRunning(a) /\ Settled(a, obs)
      \/ b = a /\ CandidateRunning(a)
  BY Zenon DEF Settling, released
<1> HIDE DEF completed, blockedAgain, b
<1> QED
  BY <1>1, <1>4, <1>5, <1>6, <1>7, <1>8 DEF b

LEMMA FollowingHealthy ==
  ASSUME NEW a, NEW obs, Followed(a), obs.phase # "ERROR", obs.active \in BOOLEAN,
         ~obs.active => obs.phase \in {"UNAVAILABLE", "RETURNING", "IDLE", "UNKNOWN", "ERROR"}
  PROVE  LET b == Following(a, obs)
         IN  Healthy(b) /\ Justified(a, b, obs, FALSE)
<1> DEFINE b == Following(a, obs)
<1>1. a \in Attempts /\ a.errorAge = NoTimer /\ a.state # "COMPLETED" /\ a.confirmed
      /\ Healthy(a)
  BY FollowedFacts DEF Followed
<1>3. ASSUME NEW state \in {"RECONCILING", "ROBOT_SERVICE"}
      PROVE  LET c == [a EXCEPT !.state = state]
             IN  Healthy(c) /\ Justified(a, c, obs, FALSE)
  <2> DEFINE c == [a EXCEPT !.state = state]
  <2>1. c \in Attempts
    BY <1>1, StateType DEF AttemptStates, Owned
  <2>2. c.state = state /\ c.confirmed = a.confirmed /\ c.errorAge = a.errorAge
    BY <1>1 DEF Attempts
  <2> HIDE DEF c
  <2> QED
    BY <1>1, <2>1, <2>2 DEF Healthy, Armed, OwnsConfirmed, Justified, Prestart, Owned, c
<1>4. CASE obs.phase = "UNAVAILABLE"
  <2>1. b = [a EXCEPT !.state = "RECONCILING"]
    BY <1>4 DEF Following
  <2> QED
    BY <1>3, <2>1
<1>5. CASE obs.phase # "UNAVAILABLE" /\ obs.active
  <2>1. PICK seen \in {"RUNNING", "PAUSED", "ROBOT_SERVICE", "ROBOT_SERVICE_BLOCKED"} :
          seen = ObservationState(obs)
    BY SessionState
  <2>2. PICK blocked \in BOOLEAN :
          blocked = (a.blockedBefore /\ obs.phase = "SERVICE_BLOCKED")
    OBVIOUS
  <2>3. \/ b = a /\ a.state = seen
        \/ b = [a EXCEPT !.state = seen, !.quietAge = NoTimer, !.blockedBefore = blocked]
    BY <1>5, <2>1, <2>2, Zenon DEF Following
  <2>4. seen \in AttemptStates
    BY DEF AttemptStates, Owned
  <2>5. /\ b \in Attempts /\ b.state = seen /\ b.confirmed = a.confirmed
        /\ b.errorAge = a.errorAge
    BY <1>1, <2>3, <2>4, TimerType DEF Attempts
  <2> HIDE DEF b
  <2> QED
    BY <1>1, <2>5 DEF Healthy, Armed, OwnsConfirmed, Justified, Prestart, Owned, b
<1>6. CASE ~obs.active /\ obs.phase = "RETURNING"
  <2>1. b = [a EXCEPT !.state = "ROBOT_SERVICE"]
    BY <1>6 DEF Following
  <2> QED
    BY <1>3, <2>1
<1>7. CASE ~obs.active /\ obs.phase \in {"IDLE", "UNKNOWN"}
  <2>1. b = Settling(a, obs)
    BY <1>7 DEF Following
  <2>2. Calm(obs, FALSE)
    BY <1>7 DEF Calm
  <2> QED
    BY <2>1, <2>2, SettlingHealthy
<1> QED
  BY <1>4, <1>5, <1>6, <1>7

LEMMA RecoveringHealthy ==
  ASSUME NEW a, NEW obs, Healthy(a), a.state = "ROBOT_ERROR_BLOCKED",
         obs.phase # "ERROR", obs.active \in BOOLEAN,
         ~obs.active => obs.phase \in {"UNAVAILABLE", "RETURNING", "IDLE", "UNKNOWN", "ERROR"}
  PROVE  LET b == Recovering(a, obs)
         IN  Healthy(b) /\ Justified(a, b, obs, FALSE)
<1> DEFINE running == [a EXCEPT !.state = "RUNNING", !.errorAge = NoTimer]
           b == Recovering(a, obs)
<1>1. a \in Attempts /\ a.confirmed
  BY DEF Healthy, OwnsConfirmed, Owned
<1>2. /\ running \in Attempts /\ running.state = "RUNNING" /\ running.confirmed
      /\ running.errorAge = NoTimer
  BY <1>1, TimerType DEF Attempts, AttemptStates, Owned
<1>3. Followed(running)
  <2> HIDE DEF running
  <2> QED
    BY <1>2 DEF Followed, Healthy, Armed, OwnsConfirmed, Prestart, Owned, Terminal,
                TerminalAttemptStates
<1>4. CASE Due(a.errorAge, ErrorLimit)
  <2>1. b = Finish(a, "FAILED", "robot_error_recovery_timeout")
    BY <1>4 DEF Recovering
  <2> QED
    BY <1>1, <2>1, EndedJustified DEF AttemptReasons
<1>5. CASE ~Due(a.errorAge, ErrorLimit) /\ obs.active
  <2>1. PICK seen \in {"RUNNING", "PAUSED", "ROBOT_SERVICE", "ROBOT_SERVICE_BLOCKED"} :
          seen = ObservationState(obs)
    BY SessionState
  <2>2. b = [a EXCEPT !.state = seen, !.errorAge = NoTimer, !.quietAge = NoTimer]
    BY <1>5, <2>1 DEF Recovering
  <2>3. seen \in AttemptStates
    BY DEF AttemptStates, Owned
  <2>4. b \in Attempts /\ b.state = seen /\ b.confirmed /\ b.errorAge = NoTimer
    BY <1>1, <2>2, <2>3, TimerType DEF Attempts
  <2> HIDE DEF b
  <2> QED
    BY <2>4 DEF Healthy, Armed, OwnsConfirmed, Justified, Prestart, Owned, b
<1>6. CASE ~Due(a.errorAge, ErrorLimit) /\ ~obs.active /\ a.floorDone
  <2>1. b = Following(running, obs)
    BY <1>6 DEF Recovering
  <2> HIDE DEF running, b
  <2>2. Healthy(b) /\ Justified(running, b, obs, FALSE)
    BY <1>3, <2>1, FollowingHealthy
  <2> QED
    BY <1>2, <2>2 DEF Justified, b
<1>7. CASE ~Due(a.errorAge, ErrorLimit) /\ ~obs.active /\ ~a.floorDone
  <2>1. b = a
    BY <1>7 DEF Recovering
  <2> QED
    BY <2>1 DEF Justified
<1> QED
  BY <1>4, <1>5, <1>6, <1>7

\* All the decisions together, for one classified observation.
LEMMA DecidedHealthy ==
  ASSUME NEW a, NEW obs, NEW blocked \in BOOLEAN, Healthy(a), ~Terminal(a),
         obs.active \in BOOLEAN,
         ~obs.active => obs.phase \in {"UNAVAILABLE", "RETURNING", "IDLE", "UNKNOWN", "ERROR"}
  PROVE  LET b == Decided(a, obs, blocked)
         IN  /\ Healthy(b) /\ Justified(a, b, obs, blocked)
             /\ a.state = "CANCEL_REQUESTED" => b.state \in {"CANCEL_REQUESTED", "CANCELLED", "FAILED"}
<1> DEFINE b == Decided(a, obs, blocked)
<1>1. CASE a.state = "CANCEL_REQUESTED"
  <2>1. b = Cancelling(a, obs)
    BY <1>1 DEF Decided
  <2> QED
    BY <1>1, <2>1, CancellingHealthy
<1>2. CASE a.state # "CANCEL_REQUESTED" /\ obs.phase = "ERROR" /\ ~blocked
  <2>1. b = Erring(a)
    BY <1>2 DEF Decided
  <2> QED
    BY <1>2, <2>1, ErringHealthy
<1>3. CASE /\ a.state # "CANCEL_REQUESTED" /\ ~(obs.phase = "ERROR" /\ ~blocked)
           /\ blocked /\ a.confirmed
  <2>1. b = Blocking(a, obs)
    BY <1>3 DEF Decided
  <2>2. blocked = TRUE
    BY <1>3
  <2>3. Healthy(b) /\ Justified(a, b, obs, TRUE)
    BY <1>3, <2>1, BlockingHealthy
  <2> QED
    BY <1>3, <2>2, <2>3
<1>4. CASE /\ a.state # "CANCEL_REQUESTED" /\ ~(obs.phase = "ERROR" /\ ~blocked)
           /\ ~(blocked /\ a.confirmed) /\ a.confirmed
  <2>1. blocked = FALSE /\ obs.phase # "ERROR"
    BY <1>4
  <2>2. CASE a.state = "ROBOT_ERROR_BLOCKED"
    <3>1. b = Recovering(a, obs)
      BY <1>4, <2>2 DEF Decided
    <3> QED
      BY <1>4, <2>1, <2>2, <3>1, RecoveringHealthy
  <2>3. CASE a.state # "ROBOT_ERROR_BLOCKED"
    <3>1. b = Following(a, obs)
      BY <1>4, <2>3 DEF Decided
    <3>2. Followed(a)
      BY <1>4, <2>3 DEF Followed
    <3> QED
      BY <1>4, <2>1, <3>1, <3>2, FollowingHealthy
  <2> QED
    BY <2>2, <2>3
<1>5. CASE /\ a.state # "CANCEL_REQUESTED" /\ ~(obs.phase = "ERROR" /\ ~blocked)
           /\ ~a.confirmed
  <2>1. a.state # "ROBOT_ERROR_BLOCKED"
    BY <1>5 DEF Healthy, OwnsConfirmed, Owned
  <2>2. b = Confirming(a, obs, blocked)
    BY <1>5, <2>1 DEF Decided
  <2> QED
    BY <1>5, <2>2, ConfirmingHealthy
<1> QED
  BY <1>1, <1>2, <1>3, <1>4, <1>5

\* A whole observation, the evidence, the decision and the deadline.
LEMMA ObservedHealthy ==
  ASSUME NEW a, NEW r, NEW wet \in BOOLEAN, NEW late, Healthy(a), ~Terminal(a)
  PROVE  LET obs == Observe(r)
             b == ProgressedByDeadline(a, obs, wet, late)
         IN  /\ Healthy(b) /\ Justified(a, b, obs, ResourceBlocked(obs, wet))
             /\ a.state = "CANCEL_REQUESTED" => b.state \in {"CANCEL_REQUESTED", "CANCELLED", "FAILED"}
<1> DEFINE obs == Observe(r)
           blocked == ResourceBlocked(obs, wet)
           marked == Marked(a, obs)
           next == Decided(marked, obs, blocked)
           b == ProgressedByDeadline(a, obs, wet, late)
<1>1. obs.active \in BOOLEAN /\ blocked \in BOOLEAN
  BY Zenon DEF Observe, ResourceBlocked
<1>2. ~obs.active => obs.phase \in {"UNAVAILABLE", "RETURNING", "IDLE", "UNKNOWN", "ERROR"}
  BY InactivePhase
<1>3. Healthy(marked) /\ marked.state = a.state /\ marked.quietAge = a.quietAge
      /\ ~Terminal(marked)
  BY MarkedHealthy, MarkedSame DEF Healthy, Terminal
<1>4. Progressed(a, obs, wet) = next
  BY DEF Progressed
<1> HIDE DEF obs, blocked, marked
<1>5. /\ Healthy(next) /\ Justified(marked, next, obs, blocked)
      /\ a.state = "CANCEL_REQUESTED" => next.state \in {"CANCEL_REQUESTED", "CANCELLED", "FAILED"}
  BY <1>1, <1>2, <1>3, DecidedHealthy
<1> HIDE DEF next
<1>6. Justified(a, next, obs, blocked)
  BY <1>3, <1>5 DEF Justified
<1>7. LET c == Finish(next, "FAILED", "resource_blocked_until_deadline")
      IN  Healthy(c) /\ c.state = "FAILED" /\ Justified(a, c, obs, blocked)
  BY <1>5, EndedJustified DEF AttemptReasons, Healthy
<1>8. b \in {next, Finish(next, "FAILED", "resource_blocked_until_deadline")}
  BY <1>4 DEF ProgressedByDeadline
<1> HIDE DEF b
<1>9. /\ Healthy(b) /\ Justified(a, b, obs, blocked)
      /\ a.state = "CANCEL_REQUESTED" => b.state \in {"CANCEL_REQUESTED", "CANCELLED", "FAILED"}
  BY <1>5, <1>6, <1>7, <1>8
<1> QED
  BY <1>9 DEF b, obs, blocked

-----------------------------------------------------------------------------
(* The steps *)

\* The start command was answered or its answer lost: the start timer runs.
LEMMA InitInvariant == Init => IInv
<1> SUFFICES ASSUME Init PROVE IInv
  OBVIOUS
<1>1. PICK state \in {"START_REQUESTED", "RECONCILING"}, final \in BOOLEAN :
        attempt = [NewAttempt(final) EXCEPT !.state = state, !.intent = TRUE, !.startAge = 0]
  BY DEF Init
<1>2. state \in AttemptStates
  BY DEF AttemptStates, Prestart
<1>3. attempt \in Attempts
  <2> DEFINE fresh == NewAttempt(final)
  <2>1. fresh \in Attempts
    BY NewAttemptType
  <2>2. attempt = [fresh EXCEPT !.state = state, !.intent = TRUE, !.startAge = 0]
    BY <1>1
  <2> HIDE DEF fresh
  <2> QED
    BY <1>2, <2>1, <2>2, TimerType DEF Attempts
<1>4. /\ attempt.state = state /\ attempt.startAge = 0
      /\ attempt.errorAge = NoTimer
  BY <1>1 DEF NewAttempt
<1>5. 0 # NoTimer
  BY LimitAssumption DEF NoTimer
<1>6. Healthy(attempt)
  BY <1>3, <1>4, <1>5 DEF Healthy, Armed, OwnsConfirmed, Prestart, Owned
<1>7. QuietTracked
  BY <1>4 DEF QuietTracked
<1>8. TypeOK
  BY <1>3, TimerType DEF Init, TypeOK
<1> QED
  BY <1>6, <1>7, <1>8 DEF IInv

LEMMA RobotObserved ==
  ASSUME robot \in Reports
  PROVE  o = Observe(robot)
BY DEF o, Observation

\* What one observation does, seen from the attempt and the quiet history.
LEMMA ProgressStep ==
  ASSUME IInv, Progress
  PROVE  /\ Healthy(attempt')
         /\ Justified(attempt, attempt', o, ResourceBlocked(o, sensor))
         /\ attempt.state = "CANCEL_REQUESTED" =>
              attempt'.state \in {"CANCEL_REQUESTED", "CANCELLED", "FAILED"}
<1>1. Healthy(attempt) /\ ~Terminal(attempt) /\ robot \in Reports /\ sensor \in BOOLEAN
  BY DEF IInv, TypeOK, Progress
<1>2. attempt' = ProgressedByDeadline(attempt, Observe(robot), sensor, expired)
  BY <1>1, RobotObserved DEF Progress
<1> QED
  BY <1>1, <1>2, ObservedHealthy, RobotObserved

LEMMA ProgressInvariant ==
  ASSUME IInv, Progress
  PROVE  IInv'
<1>1. Healthy(attempt') /\ Justified(attempt, attempt', o, ResourceBlocked(o, sensor))
  BY ProgressStep
<1>2. attempt' \in Attempts
  BY <1>1 DEF Healthy
<1>3. quietFor' \in Ages
  BY TimerType DEF IInv, TypeOK, Progress
<1>4. heldDry' \in BOOLEAN
  BY Zenon DEF Progress
<1>5. TypeOK'
  BY <1>2, <1>3, <1>4 DEF IInv, TypeOK, Progress
<1>6. ASSUME attempt'.state = "COMPLETION_PENDING"
      PROVE  quietFor' # NoTimer /\ attempt'.quietAge <= quietFor'
  <2>1. Quiet
    BY <1>1, <1>6 DEF Justified, Calm, Quiet
  <2>2. quietFor' = IF quietFor = NoTimer THEN 0 ELSE quietFor
    BY <2>1 DEF Progress
  <2>3. quietFor' # NoTimer /\ quietFor' \in Nat
    BY <2>2, LimitAssumption DEF IInv, TypeOK, NoTimer, Ages
  <2>4. CASE attempt'.quietAge = 0
    BY <2>3, <2>4
  <2>5. CASE attempt.state = "COMPLETION_PENDING" /\ attempt'.quietAge = attempt.quietAge
    BY <2>2, <2>5 DEF IInv, QuietTracked
  <2> QED
    BY <1>1, <1>6, <2>3, <2>4, <2>5 DEF Justified
<1> QED
  BY <1>1, <1>5, <1>6 DEF IInv, QuietTracked

\* Cancelling, by the user or by the outage, always starts the cancel timer.
LEMMA CancelInvariant ==
  ASSUME IInv, UserCancel \/ PowerLoss
  PROVE  IInv' /\ attempt'.state = "CANCEL_REQUESTED"
<1>1. attempt \in Attempts /\ Healthy(attempt)
  BY DEF IInv, TypeOK
<1>2. "CANCEL_REQUESTED" \in AttemptStates /\ 0 # NoTimer
  BY LimitAssumption DEF AttemptStates, NoTimer
<1>3. /\ attempt' \in Attempts /\ attempt'.state = "CANCEL_REQUESTED"
      /\ attempt'.cancelAge # NoTimer
  <2>1. CASE UserCancel
    BY <1>1, <1>2, <2>1, TimerType DEF UserCancel, Attempts
  <2>2. CASE PowerLoss
    <3>1. PICK age \in Ages : age = (IF attempt.cancelAge = NoTimer THEN 0 ELSE attempt.cancelAge)
      BY <1>1, TimerType DEF Attempts
    <3>2. age # NoTimer
      BY <1>2, <3>1
    <3>3. attempt' = [attempt EXCEPT !.state = "CANCEL_REQUESTED", !.powerCut = TRUE,
                                     !.cancelAge = age]
      BY <2>2, <3>1 DEF PowerLoss, PowerMarked
    <3> QED
      BY <1>1, <1>2, <3>2, <3>3 DEF Attempts
  <2> QED
    BY <2>1, <2>2
<1>4. Healthy(attempt')
  BY <1>3 DEF Healthy, Armed, OwnsConfirmed, Prestart, Owned
<1>5. TypeOK' /\ QuietTracked'
  BY <1>3 DEF IInv, TypeOK, UserCancel, PowerLoss, history, QuietTracked
<1> QED
  BY <1>3, <1>4, <1>5 DEF IInv

LEMMA TickInvariant ==
  ASSUME IInv, Tick
  PROVE  IInv' /\ attempt'.state = attempt.state
<1>1. attempt \in Attempts /\ Healthy(attempt) /\ quietFor \in Ages
  BY DEF IInv, TypeOK
<1>2. attempt' \in Attempts /\ attempt'.state = attempt.state
  BY <1>1, AgedType DEF Tick
<1>3. /\ attempt'.confirmed = attempt.confirmed
      /\ attempt'.startAge = Older(attempt.startAge)
      /\ attempt'.cancelAge = Older(attempt.cancelAge)
      /\ attempt'.errorAge = Older(attempt.errorAge)
      /\ attempt'.quietAge = Older(attempt.quietAge)
  BY <1>1 DEF Tick, Aged, Attempts
<1>4. /\ attempt.startAge \in Ages /\ attempt.cancelAge \in Ages
      /\ attempt.errorAge \in Ages /\ attempt.quietAge \in Ages
  BY <1>1 DEF Attempts
<1>5. Healthy(attempt')
  BY <1>1, <1>2, <1>3, <1>4, OlderFacts DEF Healthy, Armed, OwnsConfirmed
<1>6. QuietTracked'
  BY <1>1, <1>2, <1>3, <1>4, OlderFacts DEF IInv, QuietTracked, Tick
<1>7. TypeOK'
  BY <1>1, <1>2, OlderFacts DEF IInv, TypeOK, Tick
<1> QED
  BY <1>2, <1>5, <1>6, <1>7 DEF IInv

\* What the world does alone leaves the attempt as it is.
LEMMA WorldInvariant ==
  ASSUME IInv,
         \/ \E r \in Reports : RobotReports(r)
         \/ \E wet \in BOOLEAN : SensorReads(wet)
         \/ DeadlinePasses
         \/ UNCHANGED vars
  PROVE  IInv' /\ attempt' = attempt
<1>1. UNCHANGED <<attempt, quietFor, heldDry>>
  BY DEF RobotReports, SensorReads, DeadlinePasses, vars, history
<1>2. robot' \in Reports /\ sensor' \in BOOLEAN /\ expired' \in BOOLEAN
  BY DEF IInv, TypeOK, RobotReports, SensorReads, DeadlinePasses, vars
<1> QED
  BY <1>1, <1>2 DEF IInv, TypeOK, QuietTracked

\* The three kinds of step.
LEMMA NextCases ==
  ASSUME IInv, [Next]_vars
  PROVE  \/ Progress
         \/ UserCancel \/ PowerLoss
         \/ Tick
         \/ \/ \E r \in Reports : RobotReports(r)
            \/ \E wet \in BOOLEAN : SensorReads(wet)
            \/ DeadlinePasses
            \/ UNCHANGED vars
BY DEF Next

LEMMA Inductive == IInv /\ [Next]_vars => IInv'
BY NextCases, ProgressInvariant, CancelInvariant, TickInvariant, WorldInvariant

THEOREM Invariant == Spec => []IInv
<1>1. Init => IInv
  BY InitInvariant
<1>2. IInv /\ [Next]_vars => IInv'
  BY Inductive
<1> QED
  BY <1>1, <1>2, PTL DEF Spec

-----------------------------------------------------------------------------
(* The properties *)

\* The attempt stays an attempt, and every age a capped one.
THEOREM TypeCorrect == Spec => []TypeOK
<1>1. IInv => TypeOK
  BY DEF IInv
<1> QED
  BY <1>1, Invariant, PTL

\* No waiting state of async_progress is left without the timer that ends it.
THEOREM WaitsAreTimed == Spec => []TimersArmed
<1>1. IInv => TimersArmed
  BY DEF IInv, Healthy, Armed, TimersArmed
<1> QED
  BY <1>1, Invariant, PTL

\* Only an attempt whose session was observed is followed or completed.
THEOREM OwnershipIsConfirmed == Spec => []OwnedOnlyIfConfirmed
<1>1. IInv => OwnedOnlyIfConfirmed
  BY DEF IInv, Healthy, OwnsConfirmed, OwnedOnlyIfConfirmed
<1> QED
  BY <1>1, Invariant, PTL

\* A completion is the end of an unbroken run of quiet observations as long as
\* the settle time, or of a floor known to be clean while the dock waits.
THEOREM CompletionIsEarned == Spec => CompletesOnlyAfterQuiet
<1> DEFINE Earned ==
      Completes =>
        \/ ResourceBlocked(o, sensor) /\ attempt'.final /\ attempt'.floorDone
        \/ Quiet /\ Due(quietFor, Settle(attempt', o))
<1>1. IInv /\ [Next]_vars => [Earned]_vars
  <2> SUFFICES ASSUME IInv, [Next]_vars, Completes
               PROVE  \/ ResourceBlocked(o, sensor) /\ attempt'.final /\ attempt'.floorDone
                      \/ Quiet /\ Due(quietFor, Settle(attempt', o))
    OBVIOUS
  <2>1. attempt.state # "COMPLETED" /\ attempt'.state = "COMPLETED"
    BY DEF Completes
  <2>2. Progress
    <3>1. ASSUME UserCancel \/ PowerLoss PROVE FALSE
      BY <2>1, <3>1, CancelInvariant
    <3>2. ASSUME Tick PROVE FALSE
      BY <2>1, <3>2, TickInvariant
    <3> QED
      BY <2>1, <3>1, <3>2, NextCases, WorldInvariant
  <2>3. Justified(attempt, attempt', o, ResourceBlocked(o, sensor))
    BY <2>2, ProgressStep
  <2>4. CASE ResourceBlocked(o, sensor) /\ attempt'.final /\ attempt'.floorDone
    BY <2>4
  <2>5. CASE /\ Calm(o, ResourceBlocked(o, sensor))
             /\ attempt.state = "COMPLETION_PENDING" /\ Due(attempt.quietAge, Settle(attempt', o))
    <3>1. quietFor # NoTimer /\ attempt.quietAge <= quietFor
      BY <2>5 DEF IInv, QuietTracked
    <3>2. Settle(attempt', o) \in Nat
      BY LimitAssumption DEF Settle
    <3>3. attempt.quietAge \in Nat /\ quietFor \in Nat
      BY LimitAssumption DEF IInv, TypeOK, Attempts, Ages
    <3>4. Due(quietFor, Settle(attempt', o))
      <4> DEFINE limit == Settle(attempt', o)
      <4>1. attempt.quietAge >= limit
        BY <2>5 DEF Due
      <4> HIDE DEF limit
      <4> QED
        BY <3>1, <3>2, <3>3, <4>1 DEF Due, limit
    <3> QED
      BY <2>5, <3>4 DEF Calm, Quiet
  <2> QED
    BY <2>1, <2>3, <2>4, <2>5 DEF Justified
<1> QED
  BY <1>1, Invariant, PTL DEF Spec, CompletesOnlyAfterQuiet

\* Once cancelled, an attempt waits or ends, and never as a success.
THEOREM CancelIsHonoured == Spec => CancelIsFinal
<1> DEFINE Final ==
      attempt.state = "CANCEL_REQUESTED" =>
        attempt'.state \in {"CANCEL_REQUESTED", "CANCELLED", "FAILED"}
<1>1. IInv /\ [Next]_vars => [Final]_vars
  BY NextCases, ProgressStep, CancelInvariant, TickInvariant, WorldInvariant
<1> QED
  BY <1>1, Invariant, PTL DEF Spec, CancelIsFinal
==============================================================================
