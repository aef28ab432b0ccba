------------------------ MODULE NotificationDelivery ------------------------
(***************************************************************************)
(* What the user is told about one occurrence.  Every reconcile ends by    *)
(* processing the job's notifications outside the scheduler's lock, so the *)
(* job goes on living while they are routed, claimed in the durable outbox *)
(* and sent; two reconciles overlap and are kept apart by a lock of the    *)
(* job's own.  Home Assistant may die at every await, and the provider of  *)
(* a route may accept, refuse, or accept and seem to refuse.               *)
(*                                                                         *)
(* A blocker code stands for its readiness class (start_forecast.py), and  *)
(* no text is rendered.  The job is durable before it is processed.        *)
(***************************************************************************)
EXTENDS Integers, Sequences, FiniteSets, FiniteSetsExt

CONSTANTS
  Tasks,        \* reconciles whose notifications may overlap
  Routes,       \* sequence of [name, endpoint, filter, telegram]
  Policies,     \* the resolved policies to check
  Readiness,    \* classes of blockers, among them "ready" for none
  Planned, Deadline,                         \* instants
  WaitDelay, ReminderEvery,                  \* of the lifecycle events
  Stability, Interval, Closing, Merge,       \* of the forecasts
  Limits        \* bounds of a policy's runs

Nobody == "nobody"

ASSUME NotificationAssumption ==
  /\ "ready" \in Readiness
  /\ {Planned, Deadline} \subseteq Nat /\ Planned < Deadline
  /\ {WaitDelay, ReminderEvery, Stability, Interval, Closing, Merge} \subseteq Nat
  /\ Limits \in [Policies -> [time : Nat, flips : Nat, waits : Nat, mishaps : Nat, tasks : Nat,
                           readiness : SUBSET Readiness]]
  /\ \A p \in Policies : p.reminders \in Nat

\* A route is a channel of a recipient, its name the key of its deliveries.
ASSUME RouteAssumption ==
  /\ Routes \in Seq({Routes[i] : i \in DOMAIN Routes})
  /\ \A i, k \in DOMAIN Routes : Routes[i].name = Routes[k].name => i = k

ASSUME TaskAssumption == Nobody \notin Tasks

VARIABLES
  now,
  job,       \* the occurrence, as the scheduler moves it
  policy,    \* its resolved policy
  mem,       \* NotificationStore in memory: events, deliveries, forecast
  disk,      \* its file
  lock,      \* holder of the job's notification lock
  task,      \* what each reconcile is doing
  told,      \* history: messages the providers accepted, in order
  bounds

vars == <<now, job, policy, mem, disk, lock, task, told, bounds>>

NoForecast == [candidate |-> <<>>, since |-> 0, announced |-> <<>>, last |-> -Interval,
               seq |-> 0, closing |-> FALSE, closed |-> FALSE]

Results == {"none", "success", "failed", "skipped"}

Init ==
  /\ now = 0
  /\ policy \in Policies
  /\ job \in {[begun |-> FALSE, over |-> FALSE, waiting |-> FALSE, waits |-> 0, since |-> 0,
              late |-> FALSE, result |-> "none", blockers |-> b] : b \in Limits[policy].readiness}
  /\ mem = [events |-> {}, history |-> <<>>, forecasts |-> <<>>]
  /\ disk = mem
  /\ lock = Nobody
  /\ task = [t \in Tasks |-> [step |-> "idle"]]
  /\ told = <<>>
  /\ bounds = [flips |-> 0, mishaps |-> 0]

-----------------------------------------------------------------------------
\* The job, moved by the scheduler while notifications are under way.  A route
\* is served from the event's snapshot: what moves meanwhile is as good as
\* having moved before or after.

Doing(t, step) == task[t].step = step

Between == \A t \in Tasks : ~Doing(t, "route") /\ ~Doing(t, "send")

JobMoves(j) ==
  /\ Between /\ ~job.over /\ job' = j
  /\ UNCHANGED <<now, policy, mem, disk, lock, task, told>>

BlockersChange ==
  /\ ~job.begun \/ job.waiting
  /\ bounds.flips < Limits[policy].flips
  /\ bounds' = [bounds EXCEPT !.flips = @ + 1]
  /\ \E b \in Limits[policy].readiness \ {job.blockers} :
       /\ job.waiting => b # "ready"
       /\ JobMoves([job EXCEPT !.blockers = b])

EnterWait ==
  /\ ~job.waiting /\ job.blockers # "ready" /\ now >= Planned /\ job.waits < Limits[policy].waits
  /\ JobMoves([job EXCEPT !.waiting = TRUE, !.waits = @ + 1, !.since = now])
  /\ UNCHANGED bounds

\* A zone starts; another one may go on waiting.
ZoneStarts ==
  /\ ~job.begun \/ job.waiting
  /\ now >= Planned /\ now < Deadline
  /\ \E partly \in {p \in BOOLEAN : p => job.waiting /\ ~job.begun} :
       JobMoves([job EXCEPT !.begun = TRUE, !.late = @ \/ (~job.begun /\ now # Planned),
                            !.waiting = partly, !.blockers = IF partly THEN @ ELSE "ready"])
  /\ UNCHANGED bounds

JobEnds ==
  /\ \E result \in Results \ {"none"} :
       /\ result = "success" => job.begun
       /\ JobMoves([job EXCEPT !.over = TRUE, !.waiting = FALSE, !.result = result])
  /\ UNCHANGED bounds

Tick ==
  /\ Between /\ now < Limits[policy].time /\ now' = now + 1
  /\ UNCHANGED <<job, policy, mem, disk, lock, task, told, bounds>>

-----------------------------------------------------------------------------
\* Events

Id(kind, n, i) == <<kind, n, i>>

\* The signature of the current wait, 0 when no zone waits.
Episode == IF job.waiting THEN job.waits ELSE 0

Deviates == job.waits > 0 \/ job.late

ClassOf(kind) ==
  CASE kind = "prewarning" -> IF job.blockers = "ready" THEN "info" ELSE "attention"
    [] kind \in {"wait", "reminder", "forecast"} -> "attention"
    [] kind = "started" -> IF Deviates THEN "attention" ELSE "info"
    [] kind = "finished" ->
         IF job.result = "success" THEN "info"
         ELSE IF job.result = "failed" THEN "error" ELSE "attention"

Forecast == IF mem.forecasts = <<>> THEN NoForecast ELSE mem.forecasts[1]

InClosing(at) == at >= Deadline - Closing

\* A lifecycle message may announce the end of the start window as well.
ClosingNote(kind, at) ==
  /\ kind \in {"prewarning", "wait", "reminder"}
  /\ policy.forecast # "off" /\ Closing > 0
  /\ ~job.begun /\ ~job.over /\ at < Deadline /\ InClosing(at)
  /\ ~Forecast.closing

\* The wait a started message tells of as well.
Coalesced(kind) == IF kind = "started" THEN Episode ELSE 0

\* _build_event: from the job as it is now and the reconcile's clock.
Event(kind, i, at) ==
  [id |-> Id(kind, IF kind \in {"wait", "reminder"} THEN Episode ELSE 0, i),
   kind |-> kind, class |-> ClassOf(kind), at |-> at,
   blockers |-> IF kind \in {"wait", "reminder"} /\ ~job.waiting THEN "ready" ELSE job.blockers,
   fkind |-> IF ClosingNote(kind, at) THEN "closing" ELSE "none",
   coalesced |-> Coalesced(kind)]

ForecastEvent(n, fkind, b, at) ==
  [id |-> Id("forecast", n, 0), kind |-> "forecast", class |-> "attention", at |-> at,
   blockers |-> b, fkind |-> fkind, coalesced |-> 0]

WaitBase == job.since + IF policy.wait = "delayed" THEN WaitDelay ELSE 0

\* _policy_event_due
EventDue(kind, at) ==
  CASE kind = "prewarning" ->
         /\ at < Planned
         /\ \/ policy.prewarning = "always"
            \/ policy.prewarning = "blockers" /\ job.blockers # "ready"
    [] kind = "wait" -> job.waiting /\ policy.wait # "off" /\ at >= WaitBase
    [] kind = "started" ->
         job.begun /\ (policy.start = "always" \/ (policy.start = "deviation" /\ Deviates))
    [] kind = "finished" ->
         /\ job.over
         /\ \/ policy.finish = "always"
            \/ policy.finish \in {"incomplete", "attention"} /\ job.result \notin {"success", "skipped"}
            \/ policy.finish = "failed" /\ job.result = "failed"

-----------------------------------------------------------------------------
\* Outbox

Known(id) == {e \in mem.events : e.id = id}

Held(id, r) == \E i \in DOMAIN mem.history : mem.history[i].id = id /\ mem.history[i].route = r.name

\* endpoint_claim: whatever was tried, confirmed or not.
Claim(id, r) ==
  \E i \in DOMAIN mem.history :
    /\ mem.history[i].id = id /\ mem.history[i].endpoint = r.endpoint
    /\ mem.history[i].status \in {"pending", "sent", "failed"}

Put(id, r, status, at) ==
  IF Held(id, r)
  THEN [i \in DOMAIN mem.history |->
          IF mem.history[i].id = id /\ mem.history[i].route = r.name
          THEN [mem.history[i] EXCEPT !.status = status] ELSE mem.history[i]]
  ELSE Append(mem.history, [id |-> id, route |-> r.name, endpoint |-> r.endpoint,
                            status |-> status, at |-> at])

\* latest_for_job_channel
Latest(r) == {i \in DOMAIN mem.history :
                mem.history[i].route = r.name /\ mem.history[i].status = "sent"}

StartSent(r) ==
  \E i \in DOMAIN mem.history :
    /\ mem.history[i].id = Id("started", 0, 0) /\ mem.history[i].endpoint = r.endpoint
    /\ mem.history[i].status = "sent"

ChannelSuppressed(e, r) ==
  \/ r.filter = "attention" /\ e.class = "info"
  \/ r.filter = "error" /\ e.class # "error"

\* A wait that a started message sent to the same endpoint told of.
StartCovers(e, r) ==
  /\ e.kind = "wait"
  /\ \E s \in Known(Id("started", 0, 0)) : s.coalesced = e.id[2]
  /\ StartSent(r)

GoodNews == {"ready", "started", "improved"}
Progress == {"prewarning", "wait", "reminder", "forecast"}

Unalarming(s) ==
  \/ s.blockers = "ready" /\ s.fkind \notin {"unknown", "risk"}
  \/ s.kind \in {"started", "finished"}

\* Mutant: good news go to every route.
ForecastUnasked(e, r) == FALSE

\* _forecast_route_suppression
ForecastSuppressed(e, r) ==
  /\ e.kind = "forecast" \/ mem.forecasts # <<>>
  /\ LET sent == Latest(r)
         last == IF sent = {} THEN {} ELSE {mem.history[Max(sent)]}
         of   == UNION {Known(d.id) : d \in last}
     IN \/ e.fkind \in GoodNews /\ \A s \in of : Unalarming(s)
        \/ \E d \in last, s \in of :
             \/ e.fkind = "closing" /\ s.fkind = "closing"
             \/ /\ e.at >= d.at /\ e.fkind # "closing" /\ {e.kind, s.kind} \subseteq Progress
                /\ s.blockers = e.blockers
                /\ \/ e.kind = "forecast"
                   \/ /\ e.at - d.at < Merge
                      /\ s.kind = "forecast" \/ (s.kind = "prewarning" /\ e.kind = "wait")

Suppressed(e, r) == ChannelSuppressed(e, r) \/ StartCovers(e, r) \/ ForecastSuppressed(e, r)

-----------------------------------------------------------------------------
\* Processing one job (async_process_job)

Goes(t, step) == task' = [task EXCEPT ![t].step = step]

\* A reconcile whose job is being processed waits, its clock going stale.
Queue(t) ==
  /\ Doing(t, "idle") /\ lock # Nobody
  /\ Cardinality({u \in Tasks : ~Doing(u, "idle")}) < Limits[policy].tasks
  /\ task' = [task EXCEPT ![t] = [step |-> "lock", at |-> now]]
  /\ UNCHANGED <<now, job, policy, mem, disk, lock, told, bounds>>

\* A started message goes before the wait it tells of.
Order ==
  IF job.begun /\ job.waiting
  THEN <<"prewarning", "started", "wait", "finished", "reminders">>
  ELSE <<"prewarning", "wait", "started", "finished", "reminders">>

Acquire(t) ==
  /\ task[t].step \in {"idle", "lock"} /\ lock = Nobody
  /\ lock' = t
  /\ task' = [task EXCEPT ![t] = [step |-> "next", at |-> IF Doing(t, "lock") THEN task[t].at ELSE now,
                                  todo |-> Order, left |-> <<>>, event |-> {}, routes |-> {}]]
  /\ mem' = IF policy.forecast = "off" THEN [mem EXCEPT !.forecasts = <<>>] ELSE mem
  /\ disk' = IF mem' # mem THEN mem' ELSE disk
  /\ UNCHANGED <<now, job, policy, told, bounds>>

Done == <<"end">>

\* Reminders are due from the wait as it was when their loop began.
Reminders(at) ==
  IF ~job.waiting THEN <<>>
  ELSE [i \in 1..Cardinality({i \in 1..policy.reminders : at >= WaitBase + ReminderEvery * i}) |-> i]

\* The message is recorded and saved before any route is tried; the first
\* snapshot of an event stays (put_event).
Announce(t, e, f, todo, left) ==
  /\ mem' = [mem EXCEPT !.events = IF Known(e.id) = {} THEN @ \cup {e} ELSE @, !.forecasts = f]
  /\ disk' = mem'
  /\ LET routes == {i \in DOMAIN Routes : ~Held(e.id, Routes[i])}
     IN task' = [task EXCEPT ![t].step = IF routes = {} THEN "next" ELSE "route", ![t].event = {e},
                             ![t].routes = routes, ![t].todo = todo, ![t].left = left]
  /\ UNCHANGED lock

\* The items not due are passed over without an await.
DueItems(todo, at) == {k \in DOMAIN todo \ {Len(todo)} : EventDue(todo[k], at)}

\* The routes are tried in their order.
Turn(t) == Min(task[t].routes)
Routed(t) == Routes[Turn(t)]
TheEvent(t) == CHOOSE e \in task[t].event : TRUE

NextRoute(t) == [task EXCEPT ![t].routes = @ \ {Turn(t)},
                             ![t].step = IF task[t].routes = {Turn(t)} THEN "next" ELSE "route"]

\* Mutant: the claim is saved with the outcome only.
ClaimUnsaved(t) ==
  /\ Doing(t, "route")
  /\ LET e == TheEvent(t)  r == Routed(t)  refused == Suppressed(e, r) \/ Claim(e.id, r)
     IN /\ mem' = [mem EXCEPT !.history = Put(e.id, r, IF refused THEN "suppressed" ELSE "pending", e.at)]
        /\ UNCHANGED disk
        /\ IF refused THEN task' = NextRoute(t) ELSE Goes(t, "send")
  /\ UNCHANGED <<now, job, policy, lock, told, bounds>>

\* The atomic claim: suppressed, or pending and saved before anything is sent.
ClaimRoute(t) ==
  /\ Doing(t, "route")
  /\ LET e == TheEvent(t)  r == Routed(t)  refused == Suppressed(e, r) \/ Claim(e.id, r)
     IN /\ mem' = [mem EXCEPT !.history = Put(e.id, r, IF refused THEN "suppressed" ELSE "pending", e.at)]
        /\ disk' = mem'
        /\ IF refused THEN task' = NextRoute(t) ELSE Goes(t, "send")
  /\ UNCHANGED <<now, job, policy, lock, told, bounds>>

\* Telegram edits the last message of the job unless the event must be heard.
Editable(e, r) == r.telegram /\ e.kind \notin {"wait", "reminder", "forecast"} /\ Latest(r) # {}

Sent(e, r, op) == [event |-> e, route |-> r.name, endpoint |-> r.endpoint, op |-> op]

\* Accepted and answered; refused, or accepted and the answer lost.  A failed
\* edit is made up by a new message.
Send(t) ==
  /\ Doing(t, "send")
  /\ LET e == TheEvent(t)  r == Routed(t)  op == IF Editable(e, r) THEN "edit" ELSE "push"
         settle(status) == /\ mem' = [mem EXCEPT !.history = Put(e.id, r, status, e.at)]
                           /\ disk' = mem'
     IN \/ settle("sent") /\ told' = Append(told, Sent(e, r, op)) /\ UNCHANGED bounds
        \/ /\ bounds.mishaps < Limits[policy].mishaps
           /\ bounds' = [bounds EXCEPT !.mishaps = @ + 1]
           /\ told' = told \/ told' = Append(told, Sent(e, r, "push"))
           /\ settle(IF op = "edit" /\ told' # told THEN "sent" ELSE "failed")
  /\ task' = NextRoute(t)
  /\ UNCHANGED <<now, job, policy, lock>>

-----------------------------------------------------------------------------
\* The forecast of the start (forecast_candidate)

Ready(at) == ~job.begun /\ ~job.over /\ at < Deadline

Improved(f) ==
  /\ job.blockers = "blocked"
  /\ f.announced # <<>> /\ f.announced[1] \in {"attention", "unknown", "risk"}

Kind(f, at) == IF Closing > 0 /\ InClosing(at) /\ ~f.closing THEN "closing" ELSE job.blockers

Important(f, kind) == kind # "blocked" \/ Improved(f)

\* Mutant: the interval since the last forecast is not kept.
DueAtOnce(f, kind, at) == IF kind = "closing" THEN at ELSE f.since + Stability

\* A known boundary needs no debounce; the interval is kept in any case.
ForecastDue(f, kind, at) ==
  Max({IF kind = "closing" THEN at ELSE f.since + Stability, f.last + Interval})

Candidate(f, at) ==
  LET c == <<Kind(f, at), job.blockers>>
  IN IF f.candidate = c THEN f ELSE [f EXCEPT !.candidate = c, !.since = at]

\* The candidate is announced now.
Announced(f, at) ==
  LET kind == Kind(f, at)  g == Candidate(f, at)
  IN /\ f.announced # <<kind, job.blockers>>
     /\ policy.forecast = "all" \/ Important(f, kind)
     /\ ForecastDue(g, kind, at) <= at

Ends(t) == lock' = Nobody /\ task' = [task EXCEPT ![t] = [step |-> "idle"]]

\* _async_process_start_forecast: the last thing, whether it tells or not.
ForecastItem(t, at) ==
  LET f == Forecast
      keep(g) == mem' = [mem EXCEPT !.forecasts = g] /\ disk' = mem' /\ Ends(t)
  IN IF policy.forecast = "off" \/ job.over THEN keep(<<>>)
     ELSE IF job.begun THEN
       IF f.closed THEN keep(<<f>>)
       ELSE Announce(t, ForecastEvent(0, "started", "ready", at), <<[f EXCEPT !.closed = TRUE]>>, Done, <<>>)
     ELSE IF ~Ready(at) THEN keep(<<[f EXCEPT !.candidate = <<>>]>>)
     ELSE IF ~Announced(f, at) THEN keep(<<Candidate(f, at)>>)
     ELSE LET kind == Kind(f, at)
              news == IF Improved(f) /\ kind # "closing" THEN "improved" ELSE kind
              said == IF kind = "closing" THEN job.blockers ELSE kind
          IN Announce(t, ForecastEvent(f.seq + 1, news, job.blockers, at),
                      <<[Candidate(f, at) EXCEPT !.announced = <<said, job.blockers>>, !.last = at,
                           !.seq = @ + 1, !.closing = @ \/ kind = "closing"]>>, Done, <<>>)

NextItem(t) ==
  /\ Doing(t, "next") /\ task[t].todo # Done
  /\ LET todo == task[t].todo  at == task[t].at
         due  == DueItems(todo, at)
         left == IF task[t].left # <<>> THEN task[t].left
                 ELSE IF due = {} /\ todo # <<>> THEN Reminders(at) ELSE <<>>
     IN IF due # {}
        THEN Announce(t, Event(todo[Min(due)], 0, at), mem.forecasts,
                      SubSeq(todo, Min(due) + 1, Len(todo)), <<>>)
        ELSE IF left # <<>> THEN Announce(t, Event("reminder", Head(left), at), mem.forecasts, <<>>, Tail(left))
        ELSE ForecastItem(t, at)
  /\ UNCHANGED <<now, job, policy, told, bounds>>

End(t) ==
  /\ Doing(t, "next") /\ task[t].todo = Done
  /\ Ends(t)
  /\ UNCHANGED <<now, job, policy, mem, disk, told, bounds>>

\* A message under way arrives, or does not.
Crash ==
  /\ bounds.mishaps < Limits[policy].mishaps
  /\ bounds' = [bounds EXCEPT !.mishaps = @ + 1]
  /\ \/ UNCHANGED told
     \/ \E t \in Tasks : Doing(t, "send") /\ told' = Append(told, Sent(TheEvent(t), Routed(t), "push"))
  /\ mem' = disk /\ lock' = Nobody
  /\ task' = [t \in Tasks |-> [step |-> "idle"]]
  /\ UNCHANGED <<now, job, policy, disk>>

Step(t) ==
  \/ Queue(t) \/ Acquire(t) \/ NextItem(t) \/ ClaimRoute(t) \/ Send(t) \/ End(t)

Next ==
  \/ \E t \in Tasks : Step(t)
  \/ BlockersChange \/ EnterWait \/ ZoneStarts \/ JobEnds \/ Tick \/ Crash

Spec == Init /\ [][Next]_vars

-----------------------------------------------------------------------------
Names == {Routes[i].name : i \in DOMAIN Routes}
Ids == {"prewarning", "wait", "reminder", "started", "finished", "forecast"}
         \X (Nat) \X Nat

TypeOK ==
  /\ now \in 0..Limits[policy].time /\ policy \in Policies
  /\ job.result \in Results /\ job.blockers \in Readiness /\ job.waits \in 0..Limits[policy].waits
  /\ lock \in Tasks \cup {Nobody}
  /\ \A t \in Tasks : lock = t <=> task[t].step \notin {"idle", "lock"}
  /\ \A s \in {mem, disk} :
       /\ \A e \in s.events : e.id \in Ids /\ e.blockers \in Readiness
       /\ \A i \in DOMAIN s.history :
            /\ s.history[i].id \in Ids /\ s.history[i].route \in Names
            /\ s.history[i].status \in {"pending", "sent", "failed", "suppressed"}
            /\ \A k \in 1..i - 1 : s.history[k].id # s.history[i].id \/ s.history[k].route # s.history[i].route
       /\ Len(s.forecasts) <= 1

\* The outbox knows that the message arrived.
Confirmed(m) ==
  \E i \in DOMAIN mem.history :
    /\ mem.history[i].id = m.event.id /\ mem.history[i].route = m.route
    /\ mem.history[i].status = "sent"

Pushes == {i \in DOMAIN told : told[i].op = "push"}

\* notification_manager.py:1196 ("at-most-once"): one event is pushed to one
\* physical endpoint once, through overlapping reconciles, several routes to
\* it, answers that get lost and a restart anywhere.
AtMostOnePush ==
  \A i, k \in Pushes :
    i # k => told[i].event.id # told[k].event.id \/ told[i].endpoint # told[k].endpoint

\* Two forecasts of a start on one route are an interval apart, over restarts
\* and reconciles that overtake each other (start_forecast.py).
ForecastsSpaced ==
  \A i, k \in Pushes :
    /\ i < k /\ told[i].route = told[k].route
    /\ {told[i].event.kind, told[k].event.kind} = {"forecast"}
    /\ told[k].event.fkind # "started"
    => told[k].event.at >= told[i].event.at + Interval

\* Good news are sent where the last message that arrived was a problem
\* (_forecast_route_suppression).
RecoveryFollowsProblem ==
  \A k \in DOMAIN told :
    told[k].event.fkind \in GoodNews =>
      LET before == {i \in 1..k - 1 : told[i].route = told[k].route /\ Confirmed(told[i])}
      IN before # {} /\ ~Unalarming(told[Max(before)].event)

\* A wait that a started message told an endpoint of is not pushed to it again.
WaitToldOnce ==
  \A i, k \in DOMAIN told :
    /\ i < k /\ told[i].endpoint = told[k].endpoint /\ Confirmed(told[i])
    /\ told[i].event.kind = "started" /\ told[k].event.kind = "wait"
    => told[i].event.coalesced # told[k].event.id[2]
=============================================================================
