---------------------- MODULE NotificationDelivery_proofs ----------------------
(***************************************************************************)
(* What a user is told, proved for any routes, policies, reconciles and    *)
(* delays, any number of crashes and of answers that get lost.             *)
(*                                                                         *)
(* The outbox is written before anything is sent, so each accepted message *)
(* has an entry there that keeps its endpoint from being tried again       *)
(* (Claimed), and while the job's lock is held the last entry is the one   *)
(* being sent (Underway).  Entries therefore stand in the order in which   *)
(* the messages arrived (InOrder, SentArrived), which is what makes the    *)
(* search for the latest sent entry answer for the user's last message.    *)
(* Numbered and Spacing say the same of the number and the instant of the  *)
(* last forecast, saved before it is delivered.                            *)
(***************************************************************************)
EXTENDS NotificationDelivery, FiniteSetTheorems, SequenceTheorems, WellFoundedInduction, TLAPS

Kinds == {"prewarning", "wait", "reminder", "started", "finished", "forecast"}
DueKinds == {"prewarning", "wait", "started", "finished"}
Items == DueKinds \cup {"reminders", "end"}

EventType ==
  [id : Kinds \X Nat \X Nat, kind : Kinds, class : {"info", "attention", "error"}, at : Nat,
   blockers : Readiness, fkind : {"none", "closing", "started", "improved"} \cup Readiness,
   coalesced : Nat]
DeliveryType ==
  [id : Kinds \X Nat \X Nat, route : Names, endpoint : {Routes[i].endpoint : i \in DOMAIN Routes},
   status : {"pending", "sent", "failed", "suppressed"}, at : Nat]
MessageType ==
  [event : EventType, route : Names, endpoint : {Routes[i].endpoint : i \in DOMAIN Routes},
   op : {"push", "edit"}]
Said == {<<>>} \cup ((Readiness \cup {"closing"}) \X Readiness)
ForecastType ==
  [candidate : Said, since : Nat, announced : Said, last : Int, seq : Nat,
   closing : BOOLEAN, closed : BOOLEAN]
JobType ==
  [begun : BOOLEAN, over : BOOLEAN, waiting : BOOLEAN, waits : Nat, since : Nat,
   late : BOOLEAN, result : Results, blockers : Readiness]
\* What is left of an order: its last item is never asked whether it is due.
Agenda == {s \in Seq(Items) : \A k \in DOMAIN s \ {Len(s)} : s[k] \in DueKinds}
BusyType ==
  [step : {"next", "route", "send"}, at : Nat, todo : Agenda, left : Seq(Nat),
   event : SUBSET EventType, routes : SUBSET DOMAIN Routes]
TaskType == [step : {"idle"}] \cup [step : {"lock"}, at : Nat] \cup BusyType

Typed ==
  /\ now \in Nat /\ policy \in Policies
  /\ job \in JobType
  /\ mem \in [events : SUBSET EventType, history : Seq(DeliveryType),
              forecasts : Seq(ForecastType)]
  /\ Len(mem.forecasts) <= 1
  /\ disk = mem
  /\ task \in [Tasks -> TaskType]
  /\ told \in Seq(MessageType)

Busy(t) == task[t].step \notin {"idle", "lock"}
Serving(t) == task[t].step \in {"route", "send"}

Locked == lock \in Tasks \cup {Nobody} /\ \A t \in Tasks : lock = t <=> Busy(t)

\* The routes still to be tried have no delivery of the event.
Served ==
  \A t \in Tasks : Serving(t) =>
    /\ task[t].event = {TheEvent(t)} /\ task[t].routes # {}
    /\ Known(TheEvent(t).id) # {}
    /\ \A i \in task[t].routes :
         task[t].step = "route" \/ i # Turn(t) => ~Held(TheEvent(t).id, Routes[i])

\* Deliveries are kept by event and route.
Keyed ==
  /\ \A a \in DOMAIN mem.history : \E i \in DOMAIN Routes :
       mem.history[a].route = Routes[i].name /\ mem.history[a].endpoint = Routes[i].endpoint
  /\ \A a, b \in DOMAIN mem.history :
       mem.history[a].id = mem.history[b].id /\ mem.history[a].route = mem.history[b].route => a = b

Matches(d, m) == d.id = m.event.id /\ d.route = m.route

\* Whatever arrived is claimed in the outbox.
Claimed ==
  \A k \in DOMAIN told : \E a \in DOMAIN mem.history :
    /\ Matches(mem.history[a], told[k]) /\ mem.history[a].endpoint = told[k].endpoint
    /\ mem.history[a].status # "suppressed"

\* The delivery being sent is the last of the outbox, and nothing of its
\* event has arrived at its endpoint.
Underway ==
  \A t \in Tasks : task[t].step = "send" =>
    /\ mem.history # <<>>
    /\ LET d == mem.history[Len(mem.history)]
       IN d.id = TheEvent(t).id /\ d.route = Routed(t).name /\ d.endpoint = Routed(t).endpoint
          /\ d.status = "pending"
    /\ \A k \in DOMAIN told :
         told[k].event.id = TheEvent(t).id => told[k].endpoint # Routed(t).endpoint

\* Nothing arrives twice, pushed or edited.
ArrivesOnce ==
  \A i, k \in DOMAIN told :
    i # k => told[i].event.id # told[k].event.id \/ told[i].endpoint # told[k].endpoint

InOrder ==
  \A i, k \in DOMAIN told : \A a, b \in DOMAIN mem.history :
    i < k /\ Matches(mem.history[a], told[i]) /\ Matches(mem.history[b], told[k]) => a < b

SentArrived ==
  \A a \in DOMAIN mem.history : mem.history[a].status = "sent" =>
    \E k \in DOMAIN told : Matches(mem.history[a], told[k])

\* The events that arrived or are being delivered.
Spoken == {told[k].event : k \in DOMAIN told} \cup {TheEvent(t) : t \in {u \in Tasks : Serving(u)}}

Awaited == policy.forecast # "off" /\ ~job.over /\ ~job.begun

\* Until the start the forecasts are numbered, and the state remembers the
\* number and the instant of the last one.
Numbered ==
  Awaited => \A e \in Spoken \cup mem.events :
    e.kind = "forecast" => e.at <= Forecast.last /\ e.id[2] \in 1..Forecast.seq

Apart(e, f) == e.id = f.id \/ e.at + Interval <= f.at

Spacing ==
  \A t \in Tasks : Serving(t) /\ TheEvent(t).kind = "forecast" /\ TheEvent(t).id[2] # 0 =>
    \A k \in DOMAIN told : told[k].event.kind = "forecast" => Apart(told[k].event, TheEvent(t))

Spaced ==
  \A i, k \in DOMAIN told :
    /\ i < k /\ told[i].event.kind = "forecast"
    /\ told[k].event.kind = "forecast" /\ told[k].event.id[2] # 0
    => Apart(told[i].event, told[k].event)

\* What the identity of an event says of its contents.
Regular(e) ==
  /\ e.id[1] = e.kind
  /\ e.kind # "forecast" => e.fkind \in {"none", "closing"}
  /\ e.kind = "forecast" /\ e.id[2] = 0 => e.fkind = "started" /\ e.blockers = "ready"
  /\ e.kind = "prewarning" /\ policy.prewarning # "always" => e.blockers # "ready"
  /\ e.kind \in {"wait", "reminder"} => (e.blockers = "ready" <=> e.id[2] = 0)

\* The stored snapshot of a numbered forecast is what was delivered.
Archived ==
  /\ \A e \in Spoken \cup mem.events : Regular(e)
  /\ \A e \in Spoken :
       /\ Known(e.id) # {}
       /\ e.kind = "forecast" /\ e.id[2] # 0 => Known(e.id) = {e}

WaitSane == job.waiting => job.blockers # "ready" /\ job.waits > 0

\* Good news on their way follow a problem in the outbox.
Wanted ==
  \A t \in Tasks : task[t].step = "send" /\ TheEvent(t).fkind \in GoodNews =>
    /\ Latest(Routed(t)) # {}
    /\ \E s \in Known(mem.history[Max(Latest(Routed(t)))].id) : ~Unalarming(s)

\* The messages before the k-th on its route that the outbox knows arrived.
Before(messages, history, k) ==
  {i \in 1..k - 1 :
     /\ messages[i].route = messages[k].route
     /\ \E a \in DOMAIN history : /\ Matches(history[a], messages[i])
                                 /\ history[a].status = "sent"}

Recovery ==
  policy.prewarning # "always" =>
    \A k \in DOMAIN told : told[k].event.fkind \in GoodNews =>
      /\ Before(told, mem.history, k) # {}
      /\ ~Unalarming(told[Max(Before(told, mem.history, k))].event)

IInv ==
  /\ Typed /\ Locked /\ Served /\ Keyed
  /\ Claimed /\ Underway /\ ArrivesOnce /\ InOrder /\ SentArrived
  /\ Numbered /\ Spacing /\ Spaced
  /\ Archived /\ WaitSane /\ Wanted /\ Recovery

-----------------------------------------------------------------------------
(* Numbers *)

LEMMA LeastOf ==
  ASSUME NEW S, S \subseteq Nat, S # {}
  PROVE  Min(S) \in S /\ \A x \in S : Min(S) <= x
<1>1. IsWellFoundedOn(OpToRel(<, Nat), Nat)
  BY NatLessThanWellFounded
<1>2. PICK x \in S : \A y \in S : <<y, x>> \notin OpToRel(<, Nat)
  BY <1>1, WFMin
<1>3. \A y \in S : x <= y
  <2> TAKE y \in S
  <2>1. ~(y < x)
    BY <1>2 DEF OpToRel
  <2> QED
    BY <2>1
<1> QED
  BY <1>3 DEF Min

LEMMA GreatestOf ==
  ASSUME NEW n \in Nat, NEW S, S \subseteq 1..n, S # {}
  PROVE  Max(S) \in S /\ \A x \in S : x <= Max(S)
<1> DEFINE R == {n - x : x \in S}
<1>1. R \subseteq Nat /\ R # {}
  <2>1. \A x \in S : n - x \in Nat
    OBVIOUS
  <2>2. PICK x \in S : TRUE
    OBVIOUS
  <2>3. n - x \in R
    OBVIOUS
  <2> QED
    BY <2>1, <2>3
<1> HIDE DEF R
<1>2. PICK r \in R : \A q \in R : r <= q
  BY <1>1, LeastOf
<1>3. PICK x \in S : r = n - x
  BY <1>2 DEF R
<1>4. \A y \in S : y <= x
  <2> TAKE y \in S
  <2>1. n - y \in R
    BY DEF R
  <2> QED
    BY <2>1, <1>2, <1>3
<1> QED
  BY <1>4 DEF Max

\* The route whose turn it is is one that is left.
LEMMA TurnIsLeft ==
  ASSUME Typed, NEW t \in Tasks, Serving(t), task[t].routes # {}
  PROVE  Turn(t) \in task[t].routes /\ Turn(t) \in DOMAIN Routes
<1>1. task[t].routes \subseteq DOMAIN Routes
  BY DEF Typed, TaskType, BusyType, Serving
<1>2. DOMAIN Routes \subseteq Nat
  BY RouteAssumption
<1> QED
  BY <1>1, <1>2, LeastOf DEF Turn

-----------------------------------------------------------------------------
(* Events *)

LEMMA JobFields ==
  ASSUME Typed
  PROVE  /\ job.begun \in BOOLEAN /\ job.over \in BOOLEAN /\ job.waiting \in BOOLEAN
         /\ job.waits \in Nat /\ job.since \in Nat /\ job.result \in Results
         /\ job.blockers \in Readiness
BY DEF Typed, JobType

\* A lifecycle event says what the job is, and its identity says it again.
LEMMA EventFits ==
  ASSUME Typed, WaitSane, NEW kind \in Kinds \ {"forecast"}, NEW i \in Nat, NEW at \in Nat,
         kind \in DueKinds => EventDue(kind, at)
  PROVE  Event(kind, i, at) \in EventType /\ Regular(Event(kind, i, at))
         /\ Event(kind, i, at).kind = kind
<1> DEFINE e == Event(kind, i, at)
           n == IF kind \in {"wait", "reminder"} THEN Episode ELSE 0
           b == IF kind \in {"wait", "reminder"} /\ ~job.waiting THEN "ready" ELSE job.blockers
           k == IF ClosingNote(kind, at) THEN "closing" ELSE "none"
<1>1. e = [id |-> <<kind, n, i>>, kind |-> kind, class |-> ClassOf(kind), at |-> at,
           blockers |-> b, fkind |-> k, coalesced |-> Coalesced(kind)]
  BY DEF Event, Id
<1>2. n \in Nat /\ b \in Readiness /\ k \in {"none", "closing"} /\ Coalesced(kind) \in Nat
  BY JobFields, NotificationAssumption DEF Episode, Coalesced
<1>3. ClassOf(kind) \in {"info", "attention", "error"}
  BY DEF ClassOf, Kinds
<1>4. /\ kind = "prewarning" /\ policy.prewarning # "always" => b # "ready"
      /\ kind \in {"wait", "reminder"} => (b = "ready" <=> n = 0)
  <2>1. CASE kind = "prewarning"
    BY <2>1 DEF EventDue, DueKinds
  <2>2. CASE kind \in {"wait", "reminder"}
    <3>1. job.waiting => job.blockers # "ready" /\ job.waits \in Nat /\ job.waits > 0
      BY JobFields DEF WaitSane
    <3>2. CASE job.waiting
      BY <2>2, <3>1, <3>2 DEF Episode
    <3>3. CASE ~job.waiting
      BY <2>2, <3>3 DEF Episode
    <3> QED
      BY <3>2, <3>3
  <2> QED
    BY <2>1, <2>2
<1> HIDE DEF n, b, k
<1>5. e \in EventType
  BY <1>1, <1>2, <1>3 DEF EventType
<1>6. Regular(e)
  BY <1>1, <1>2, <1>4 DEF Regular
<1> QED
  BY <1>1, <1>5, <1>6

\* So does a forecast, numbered from one but for the good news of the start.
LEMMA ForecastEventFits ==
  ASSUME NEW n \in Nat, NEW fkind \in {"closing", "started", "improved"} \cup Readiness,
         NEW b \in Readiness, NEW at \in Nat,
         n = 0 => fkind = "started" /\ b = "ready"
  PROVE  ForecastEvent(n, fkind, b, at) \in EventType /\ Regular(ForecastEvent(n, fkind, b, at))
<1> DEFINE e == ForecastEvent(n, fkind, b, at)
<1>1. e = [id |-> <<"forecast", n, 0>>, kind |-> "forecast", class |-> "attention", at |-> at,
           blockers |-> b, fkind |-> fkind, coalesced |-> 0]
  BY DEF ForecastEvent, Id
<1>2. e \in EventType
  BY <1>1 DEF EventType, Kinds
<1>3. Regular(e)
  BY <1>1 DEF Regular
<1> QED
  BY <1>2, <1>3

-----------------------------------------------------------------------------
(* What one item does *)

Of(g) == IF g = <<>> THEN NoForecast ELSE g[1]

LEMMA ForecastTyped ==
  ASSUME Typed
  PROVE  Forecast \in ForecastType /\ Forecast = Of(mem.forecasts)
<1>1. NoForecast \in ForecastType
  BY NotificationAssumption DEF NoForecast, ForecastType, Said
<1>2. mem.forecasts \in Seq(ForecastType)
  BY DEF Typed
<1>3. mem.forecasts # <<>> => mem.forecasts[1] \in ForecastType
  BY <1>2
<1> QED
  BY <1>1, <1>3 DEF Forecast, Of

\* A forecast that is announced takes the next number, an interval after the
\* last one; nothing else moves the number or the instant.
Fresh(e, f) ==
  /\ e.kind = "forecast" /\ e.id[2] # 0 => Awaited
  /\ Awaited => IF e.kind = "forecast"
                THEN /\ e.id[2] = Forecast.seq + 1 /\ Of(f).seq = Forecast.seq + 1
                     /\ Of(f).last = e.at /\ Forecast.last + Interval <= e.at
                ELSE Of(f).last = Forecast.last /\ Of(f).seq = Forecast.seq

Announces(t) ==
  \E e \in EventType, f \in Seq(ForecastType), todo \in Agenda, left \in Seq(Nat) :
    /\ Len(f) <= 1 /\ Regular(e) /\ Fresh(e, f)
    /\ Announce(t, e, f, todo, left)

KeepsQuiet(t) ==
  \E g \in Seq(ForecastType) :
    /\ Len(g) <= 1 /\ mem' = [mem EXCEPT !.forecasts = g] /\ disk' = mem' /\ Ends(t)
    /\ Awaited => Of(g).last = Forecast.last /\ Of(g).seq = Forecast.seq

LEMMA AgendaRest ==
  ASSUME NEW todo \in Agenda, NEW m \in DOMAIN todo
  PROVE  SubSeq(todo, m + 1, Len(todo)) \in Agenda
<1> DEFINE s == SubSeq(todo, m + 1, Len(todo))
<1>1. todo \in Seq(Items) /\ m \in 1..Len(todo) /\ Len(todo) \in Nat
      /\ \A k \in 1..Len(todo) \ {Len(todo)} : todo[k] \in DueKinds
  BY DEF Agenda
<1>2. s \in Seq(Items) /\ Len(s) = Len(todo) - m /\ \A k \in 1..Len(s) : s[k] = todo[m + k]
  BY <1>1
<1>3. \A k \in DOMAIN s \ {Len(s)} : s[k] \in DueKinds
  <2> TAKE k \in DOMAIN s \ {Len(s)}
  <2>1. k \in 1..Len(s) /\ k # Len(s)
    BY <1>2
  <2>2. m + k \in 1..Len(todo) \ {Len(todo)}
    BY <2>1, <1>1, <1>2
  <2> QED
    BY <2>1, <2>2, <1>1, <1>2
<1> HIDE DEF s
<1>4. s \in Agenda
  BY <1>2, <1>3 DEF Agenda
<1> QED
  BY <1>4 DEF s

LEMMA RemindersTyped ==
  ASSUME Typed, NEW at \in Nat
  PROVE  Reminders(at) \in Seq(Nat)
<1> DEFINE S == {i \in 1..policy.reminders : at >= WaitBase + ReminderEvery * i}
           n == Cardinality(S)
<1>1. policy.reminders \in Nat
  BY NotificationAssumption DEF Typed
<1>2. IsFiniteSet(1..policy.reminders)
  BY <1>1, FS_Interval
<1>3. n \in Nat
  BY <1>2, FS_Subset, FS_CardinalityType
<1> HIDE DEF S, n
<1>4. [i \in 1..n |-> i] \in Seq(Nat)
  BY <1>3
<1> QED
  BY <1>4 DEF Reminders, S, n

LEMMA CandidateKeeps ==
  ASSUME NEW f \in ForecastType, NEW at \in Nat, job.blockers \in Readiness
  PROVE  Candidate(f, at) \in ForecastType /\ Candidate(f, at).last = f.last
         /\ Candidate(f, at).seq = f.seq
<1> DEFINE c == <<Kind(f, at), job.blockers>>
<1>1. c \in Said
  BY DEF Said, Kind
<1> HIDE DEF c
<1>2. [f EXCEPT !.candidate = c, !.since = at] \in ForecastType
  BY <1>1 DEF ForecastType
<1> QED
  BY <1>2 DEF Candidate, c, ForecastType

LEMMA ForecastItemCases ==
  ASSUME Typed, WaitSane, NEW t \in Tasks, NEW at \in Nat, ForecastItem(t, at)
  PROVE  Announces(t) \/ KeepsQuiet(t)
<1> DEFINE f == Forecast
           kind == Kind(f, at)
           news == IF Improved(f) /\ kind # "closing" THEN "improved" ELSE kind
           said == IF kind = "closing" THEN job.blockers ELSE kind
           g == [Candidate(f, at) EXCEPT !.announced = <<said, job.blockers>>, !.last = at,
                                         !.seq = @ + 1, !.closing = @ \/ kind = "closing"]
<1>1. f \in ForecastType /\ f = Of(mem.forecasts) /\ job.blockers \in Readiness
      /\ job.begun \in BOOLEAN /\ job.over \in BOOLEAN
  BY ForecastTyped, JobFields
<1>2. \A h \in ForecastType : <<h>> \in Seq(ForecastType) /\ Len(<<h>>) <= 1 /\ Of(<<h>>) = h
  BY DEF Of
<1>3. Done \in Agenda /\ <<>> \in Seq(Nat)
  BY DEF Done, Agenda, Items
<1> HIDE DEF f
<1>4. CASE policy.forecast = "off" \/ job.over
  <2>1. <<>> \in Seq(ForecastType) /\ Len(<<>>) <= 1
    OBVIOUS
  <2>2. mem' = [mem EXCEPT !.forecasts = <<>>] /\ disk' = mem' /\ Ends(t)
    BY <1>4 DEF ForecastItem
  <2>3. ~Awaited
    BY <1>4, <1>1 DEF Awaited
  <2> QED
    BY <2>1, <2>2, <2>3 DEF KeepsQuiet
<1>5. CASE ~(policy.forecast = "off" \/ job.over) /\ job.begun
  <2>1. ~Awaited
    BY <1>5, <1>1 DEF Awaited
  <2>2. CASE f.closed
    <3>1. mem' = [mem EXCEPT !.forecasts = <<f>>] /\ disk' = mem' /\ Ends(t)
      BY <1>5, <2>2 DEF ForecastItem, f
    <3> QED
      BY <3>1, <2>1, <1>1, <1>2 DEF KeepsQuiet
  <2>3. CASE ~f.closed
    <3> DEFINE e == ForecastEvent(0, "started", "ready", at)
               h == [f EXCEPT !.closed = TRUE]
    <3>1. Announce(t, e, <<h>>, Done, <<>>)
      BY <1>5, <2>3 DEF ForecastItem, f
    <3>2. h \in ForecastType
      BY <1>1 DEF ForecastType
    <3>3. e \in EventType /\ Regular(e)
      BY ForecastEventFits, NotificationAssumption
    <3>4. e.kind = "forecast" /\ e.id[2] = 0
      BY DEF ForecastEvent, Id
    <3> HIDE DEF e, h
    <3>5. Fresh(e, <<h>>)
      BY <3>4, <2>1 DEF Fresh
    <3> QED
      BY <3>1, <3>2, <3>3, <3>5, <1>2, <1>3 DEF Announces
  <2> QED
    BY <2>2, <2>3
<1>6. CASE ~(policy.forecast = "off" \/ job.over) /\ ~job.begun /\ ~Ready(at)
  <2>1. mem' = [mem EXCEPT !.forecasts = <<[f EXCEPT !.candidate = <<>>]>>] /\ disk' = mem' /\ Ends(t)
    BY <1>6 DEF ForecastItem, f
  <2>2. [f EXCEPT !.candidate = <<>>] \in ForecastType
        /\ [f EXCEPT !.candidate = <<>>].last = f.last /\ [f EXCEPT !.candidate = <<>>].seq = f.seq
    BY <1>1 DEF ForecastType, Said
  <2> DEFINE h == [f EXCEPT !.candidate = <<>>]
  <2> HIDE DEF h
  <2>3. h \in ForecastType /\ h.last = f.last /\ h.seq = f.seq /\ mem' = [mem EXCEPT !.forecasts = <<h>>]
    BY <2>1, <2>2 DEF h
  <2> QED
    BY <2>1, <2>3, <1>2 DEF KeepsQuiet, f
<1>7. CASE ~(policy.forecast = "off" \/ job.over) /\ ~job.begun /\ Ready(at) /\ ~Announced(f, at)
  <2> DEFINE h == Candidate(f, at)
  <2>1. mem' = [mem EXCEPT !.forecasts = <<h>>] /\ disk' = mem' /\ Ends(t)
    BY <1>7 DEF ForecastItem, f
  <2>2. h \in ForecastType /\ h.last = f.last /\ h.seq = f.seq
    BY <1>1, CandidateKeeps
  <2> HIDE DEF h
  <2> QED
    BY <2>1, <2>2, <1>2 DEF KeepsQuiet, f
<1>8. CASE ~(policy.forecast = "off" \/ job.over) /\ ~job.begun /\ Ready(at) /\ Announced(f, at)
  <2> DEFINE e == ForecastEvent(f.seq + 1, news, job.blockers, at)
             c == Candidate(f, at)
  <2>1. Announce(t, e, <<g>>, Done, <<>>)
    BY <1>8 DEF ForecastItem, f
  <2>2. c \in ForecastType /\ c.last = f.last /\ c.seq = f.seq
    BY <1>1, CandidateKeeps
  <2>3. kind \in {"closing"} \cup Readiness
    BY <1>1 DEF Kind
  <2>4. f.seq \in Nat /\ f.last \in Int /\ f.since \in Nat
    BY <1>1 DEF ForecastType
  <2>5. e \in EventType /\ Regular(e)
    <3> HIDE DEF kind
    <3>1. news \in {"closing", "started", "improved"} \cup Readiness
      BY <2>3
    <3> HIDE DEF news
    <3> QED
      BY <3>1, <2>4, <1>1, ForecastEventFits
  <2>6. g \in ForecastType /\ g.last = at /\ g.seq = f.seq + 1
    <3> DEFINE k == kind = "closing"
               d == c.closing \/ k
               a == <<said, job.blockers>>
    <3>1. a \in Said /\ d \in BOOLEAN
      BY <2>2, <2>3, <1>1 DEF Said, ForecastType
    <3>2. g = [c EXCEPT !.announced = a, !.last = at, !.seq = @ + 1, !.closing = @ \/ k]
      OBVIOUS
    <3> HIDE DEF g, c, a, k
    <3>3. g = [candidate |-> c.candidate, since |-> c.since, announced |-> a, last |-> at,
               seq |-> c.seq + 1, closing |-> d, closed |-> c.closed]
      BY <3>2, <2>2 DEF ForecastType
    <3> HIDE DEF d
    <3> QED
      BY <3>1, <3>3, <2>2 DEF ForecastType
  <2>7. f.last + Interval <= at
    <3> DEFINE x == IF kind = "closing" THEN at ELSE c.since + Stability
               y == c.last + Interval
    <3>1. x \in Int /\ y \in Int
      BY <2>2, <2>4, NotificationAssumption DEF ForecastType
    <3>2. ForecastDue(c, kind, at) <= at
      BY <1>8 DEF Announced
    <3>3. ForecastDue(c, kind, at) = Max({x, y})
      BY DEF ForecastDue
    <3> HIDE DEF x, kind, c
    <3>4. \E m \in {x, y} : \A n \in {x, y} : n <= m
      BY <3>1
    <3>5. y <= Max({x, y}) /\ Max({x, y}) \in Int
      BY <3>1, <3>4 DEF Max
    <3> QED
      BY <3>1, <3>2, <3>3, <3>5, <2>2
  <2>8. e.kind = "forecast" /\ e.id[2] = f.seq + 1 /\ e.at = at
    BY DEF ForecastEvent, Id
  <2>9. Awaited
    BY <1>8 DEF Awaited
  <2> HIDE DEF e, g
  <2>10. Fresh(e, <<g>>)
    BY <2>6, <2>7, <2>8, <2>9, <1>2 DEF Fresh, f
  <2> QED
    BY <2>1, <2>5, <2>6, <2>10, <1>2, <1>3 DEF Announces
<1> QED
  BY <1>4, <1>5, <1>6, <1>7, <1>8

LEMMA BusyFields ==
  ASSUME Typed, NEW t \in Tasks, Busy(t)
  PROVE  /\ task[t] \in BusyType /\ task[t].step \in {"next", "route", "send"}
         /\ task[t].at \in Nat /\ task[t].todo \in Agenda /\ task[t].left \in Seq(Nat)
         /\ task[t].event \subseteq EventType /\ task[t].routes \subseteq DOMAIN Routes
<1>1. task[t] \in BusyType
  BY DEF Typed, TaskType, Busy
<1> QED
  BY <1>1 DEF BusyType

LEMMA NextItemCases ==
  ASSUME Typed, WaitSane, NEW t \in Tasks, NextItem(t)
  PROVE  Announces(t) \/ KeepsQuiet(t)
<1> DEFINE todo == task[t].todo
           at == task[t].at
           due == DueItems(todo, at)
           left == IF task[t].left # <<>> THEN task[t].left
                   ELSE IF due = {} /\ todo # <<>> THEN Reminders(at) ELSE <<>>
           m == Min(due)
<1>1. todo \in Agenda /\ at \in Nat /\ task[t].left \in Seq(Nat)
  BY BusyFields DEF NextItem, Doing, Busy
<1>2. left \in Seq(Nat)
  BY <1>1, RemindersTyped
<1>3. due \subseteq DOMAIN todo \ {Len(todo)} /\ DOMAIN todo \subseteq Nat
      /\ \A k \in due : todo[k] \in DueKinds /\ EventDue(todo[k], at)
  BY <1>1 DEF DueItems, Agenda
<1>4. mem.forecasts \in Seq(ForecastType) /\ Len(mem.forecasts) <= 1
  BY DEF Typed
<1>5. \A e : e.kind # "forecast" => Fresh(e, mem.forecasts)
  BY ForecastTyped DEF Fresh
<1> HIDE DEF left, due
<1>6. CASE due # {}
  <2> DEFINE e == Event(todo[m], 0, at)
             rest == SubSeq(todo, m + 1, Len(todo))
  <2>1. m \in due
    BY <1>3, <1>6, LeastOf
  <2>2. todo[m] \in DueKinds /\ EventDue(todo[m], at) /\ m \in DOMAIN todo
    BY <2>1, <1>3
  <2>3. Announce(t, e, mem.forecasts, rest, <<>>)
    BY <1>6 DEF NextItem, due
  <2>4. rest \in Agenda
    BY <1>1, <2>2, AgendaRest
  <2> DEFINE kind == todo[m]
  <2>5. kind \in Kinds \ {"forecast"} /\ EventDue(kind, at) /\ e = Event(kind, 0, at)
    BY <2>2 DEF DueKinds, Kinds
  <2> HIDE DEF kind, e, rest, m
  <2>6. e \in EventType /\ Regular(e) /\ e.kind = kind
    BY <1>1, <2>5, EventFits
  <2>7. Fresh(e, mem.forecasts) /\ <<>> \in Seq(Nat)
    BY <1>5, <2>5, <2>6
  <2> QED
    BY <2>3, <2>4, <2>6, <2>7, <1>4 DEF Announces
<1>7. CASE due = {} /\ left # <<>>
  <2> DEFINE i == Head(left)
             e == Event("reminder", i, at)
             rest == Tail(left)
  <2>1. Announce(t, e, mem.forecasts, <<>>, rest)
    BY <1>7 DEF NextItem, due, left
  <2>2. i \in Nat /\ rest \in Seq(Nat)
    BY <1>2, <1>7
  <2>3. "reminder" \in Kinds \ {"forecast"} /\ "reminder" \notin DueKinds
    BY DEF Kinds, DueKinds
  <2> HIDE DEF i
  <2>4. e \in EventType /\ Regular(e) /\ e.kind = "reminder"
    BY <1>1, <2>2, <2>3, EventFits
  <2>5. <<>> \in Agenda
    BY DEF Agenda
  <2> HIDE DEF e, rest
  <2>6. Fresh(e, mem.forecasts)
    BY <1>5, <2>4
  <2> QED
    BY <2>1, <2>2, <2>4, <2>5, <2>6, <1>4 DEF Announces
<1>8. CASE due = {} /\ left = <<>>
  <2>1. ForecastItem(t, at)
    BY <1>8 DEF NextItem, due, left
  <2> QED
    BY <2>1, <1>1, ForecastItemCases
<1> QED
  BY <1>6, <1>7, <1>8

-----------------------------------------------------------------------------
(* The shapes of the steps, field by field *)

LEMMA MemFields ==
  ASSUME Typed
  PROVE  /\ mem.events \subseteq EventType /\ mem.history \in Seq(DeliveryType)
         /\ mem.forecasts \in Seq(ForecastType) /\ Len(mem.forecasts) <= 1
         /\ mem = [events |-> mem.events, history |-> mem.history, forecasts |-> mem.forecasts]
BY DEF Typed

MemType == [events : SUBSET EventType, history : Seq(DeliveryType), forecasts : Seq(ForecastType)]

Adds(e) == IF Known(e.id) = {} THEN mem.events \cup {e} ELSE mem.events

LEMMA AnnounceShape ==
  ASSUME Typed, NEW t \in Tasks, task[t].step = "next",
         NEW e \in EventType, NEW f \in Seq(ForecastType), Len(f) <= 1,
         NEW todo \in Agenda, NEW left \in Seq(Nat), Announce(t, e, f, todo, left)
  PROVE  /\ mem' \in MemType /\ Len(mem'.forecasts) <= 1 /\ disk' = mem' /\ lock' = lock
         /\ mem'.events = Adds(e) /\ mem'.history = mem.history /\ mem'.forecasts = f
         /\ task' \in [Tasks -> TaskType]
         /\ \A u \in Tasks \ {t} : task'[u] = task[u]
         /\ task'[t].step \in {"next", "route"} /\ task'[t].event = {e}
         /\ task'[t].routes = {i \in DOMAIN Routes : ~Held(e.id, Routes[i])}
         /\ task'[t].step = "route" => task'[t].routes # {}
<1> DEFINE routes == {i \in DOMAIN Routes : ~Held(e.id, Routes[i])}
           step == IF routes = {} THEN "next" ELSE "route"
           b == [task[t] EXCEPT !.step = step, !.event = {e}, !.routes = routes, !.todo = todo,
                                !.left = left]
           ev == Adds(e)
<1>1. mem' = [mem EXCEPT !.events = ev, !.forecasts = f] /\ disk' = mem' /\ lock' = lock
  BY DEF Announce, Adds
<1>2. task' = [task EXCEPT ![t].step = step, ![t].event = {e}, ![t].routes = routes,
                           ![t].todo = todo, ![t].left = left]
  BY DEF Announce
<1>3. step \in {"next", "route"} /\ routes \subseteq DOMAIN Routes
      /\ (step = "route" => routes # {})
  OBVIOUS
<1>4. task \in [Tasks -> TaskType] /\ task[t] \in BusyType
  BY BusyFields DEF Typed, Busy
<1>5. ev \subseteq EventType
  BY MemFields DEF Adds
<1> HIDE DEF step, ev
<1>6. mem' = [events |-> ev, history |-> mem.history, forecasts |-> f]
  BY <1>1, MemFields
<1>7. mem' \in MemType
  BY <1>5, <1>6, MemFields DEF MemType
<1> HIDE DEF routes
<1>8. task' = [task EXCEPT ![t] = b]
  BY <1>2, <1>4
<1> DEFINE v == {e}
           c == [task[t] EXCEPT !.step = step, !.event = v]
<1>9. v \subseteq EventType
  OBVIOUS
<1> HIDE DEF v
<1>10. c \in BusyType /\ c.step = step /\ c.event = v
  BY <1>3, <1>4, <1>9 DEF BusyType
<1> HIDE DEF c
<1>11. [c EXCEPT !.routes = routes, !.todo = todo, !.left = left] \in BusyType
       /\ [c EXCEPT !.routes = routes, !.todo = todo, !.left = left].routes = routes
       /\ [c EXCEPT !.routes = routes, !.todo = todo, !.left = left].step = c.step
       /\ [c EXCEPT !.routes = routes, !.todo = todo, !.left = left].event = c.event
  BY <1>3, <1>10 DEF BusyType
<1>12. b = [c EXCEPT !.routes = routes, !.todo = todo, !.left = left]
  BY DEF c, v
<1>13. b \in BusyType /\ b.routes = routes /\ b.step = step /\ b.event = {e}
  <2> HIDE DEF b
  <2> QED
    BY <1>10, <1>11, <1>12 DEF v
<1> HIDE DEF b
<1>14. task' \in [Tasks -> TaskType] /\ task'[t] = b /\ \A u \in Tasks \ {t} : task'[u] = task[u]
  BY <1>4, <1>8, <1>13 DEF TaskType
<1> QED
  BY <1>1, <1>3, <1>6, <1>7, <1>13, <1>14 DEF routes, ev

\* Nobody serves but the task at hand, which goes on with the next route.
Advances(t) ==
  /\ task' \in [Tasks -> TaskType]
  /\ \A u \in Tasks \ {t} : task'[u] = task[u]
  /\ task'[t].step \in {"next", "route"} /\ task'[t].event = task[t].event
  /\ task'[t].routes = task[t].routes \ {Turn(t)}
  /\ task'[t].step = "route" => task'[t].routes # {}

LEMMA NextRouteShape ==
  ASSUME Typed, NEW t \in Tasks, Serving(t), task[t].routes # {}, task' = NextRoute(t)
  PROVE  Advances(t)
<1> DEFINE routes == task[t].routes \ {Turn(t)}
           step == IF task[t].routes = {Turn(t)} THEN "next" ELSE "route"
           b == [task[t] EXCEPT !.routes = routes, !.step = step]
<1>1. task' = [task EXCEPT ![t].routes = routes, ![t].step = step]
  BY DEF NextRoute
<1>2. task \in [Tasks -> TaskType] /\ task[t] \in BusyType
  BY BusyFields DEF Typed, Busy, Serving
<1>3. step \in {"next", "route"} /\ routes \subseteq DOMAIN Routes
  BY <1>2 DEF BusyType
<1>4. ASSUME step = "route", routes = {} PROVE FALSE
  <2>1. task[t].routes # {Turn(t)} /\ task[t].routes \subseteq {Turn(t)}
    BY <1>4
  <2>2. task[t].routes = {}
    BY <2>1
  <2> QED
    BY <2>2
<1> HIDE DEF routes, step
<1>5. task' = [task EXCEPT ![t] = b]
  BY <1>1, <1>2
<1>6. b \in BusyType /\ b.routes = routes /\ b.step = step /\ b.event = task[t].event
  BY <1>2, <1>3 DEF BusyType
<1> HIDE DEF b
<1>7. task' \in [Tasks -> TaskType] /\ task'[t] = b /\ \A u \in Tasks \ {t} : task'[u] = task[u]
  BY <1>2, <1>5, <1>6 DEF TaskType
<1> QED
  BY <1>3, <1>4, <1>6, <1>7 DEF Advances, routes

LEMMA ServedFacts ==
  ASSUME Typed, Served, NEW t \in Tasks, Serving(t)
  PROVE  /\ task[t].event = {TheEvent(t)} /\ TheEvent(t) \in EventType
         /\ task[t].routes # {} /\ Turn(t) \in task[t].routes /\ Turn(t) \in DOMAIN Routes
         /\ Known(TheEvent(t).id) # {}
         /\ Routed(t) = Routes[Turn(t)] /\ Routed(t).name \in Names
         /\ Routed(t).endpoint \in {Routes[i].endpoint : i \in DOMAIN Routes}
         /\ task[t].step = "route" => ~Held(TheEvent(t).id, Routed(t))
<1>1. /\ task[t].event = {TheEvent(t)} /\ task[t].routes # {} /\ Known(TheEvent(t).id) # {}
      /\ \A i \in task[t].routes :
           task[t].step = "route" \/ i # Turn(t) => ~Held(TheEvent(t).id, Routes[i])
  BY DEF Served
<1>2. task[t].event \subseteq EventType
  BY BusyFields DEF Busy, Serving
<1>3. Turn(t) \in task[t].routes /\ Turn(t) \in DOMAIN Routes
  BY <1>1, TurnIsLeft
<1>4. TheEvent(t) \in EventType
  <2> HIDE DEF TheEvent
  <2> QED
    BY <1>1, <1>2
<1> QED
  BY <1>1, <1>3, <1>4 DEF Routed, Names

\* What a claim adds to the outbox.
LEMMA ClaimShape ==
  ASSUME Typed, Served, NEW t \in Tasks, ClaimRoute(t)
  PROVE  \E st \in {"pending", "suppressed"}, d \in DeliveryType :
           /\ d = [id |-> TheEvent(t).id, route |-> Routed(t).name, endpoint |-> Routed(t).endpoint,
                   status |-> st, at |-> TheEvent(t).at]
           /\ mem' \in MemType /\ disk' = mem' /\ mem'.history = Append(mem.history, d)
           /\ mem'.events = mem.events /\ mem'.forecasts = mem.forecasts
           /\ ~Held(TheEvent(t).id, Routed(t))
           /\ st = "suppressed" => Advances(t)
           /\ st = "pending" =>
                /\ ~Suppressed(TheEvent(t), Routed(t)) /\ ~Claim(TheEvent(t).id, Routed(t))
                /\ task' = [task EXCEPT ![t].step = "send"]
<1> DEFINE e == TheEvent(t)
           r == Routed(t)
           refused == Suppressed(e, r) \/ Claim(e.id, r)
           st == IF refused THEN "suppressed" ELSE "pending"
           d == [id |-> e.id, route |-> r.name, endpoint |-> r.endpoint, status |-> st, at |-> e.at]
<1>1. Serving(t) /\ task[t].step = "route"
  BY DEF ClaimRoute, Doing, Serving
<1>2. /\ e \in EventType /\ task[t].routes # {} /\ r.name \in Names
      /\ r.endpoint \in {Routes[i].endpoint : i \in DOMAIN Routes} /\ ~Held(e.id, r)
  BY <1>1, ServedFacts
<1>3. mem' = [mem EXCEPT !.history = Put(e.id, r, st, e.at)] /\ disk' = mem'
      /\ (refused => task' = NextRoute(t)) /\ (~refused => task' = [task EXCEPT ![t].step = "send"])
  BY DEF ClaimRoute, Goes
<1> HIDE DEF refused, e, r
<1>4. st \in {"pending", "suppressed"} /\ (st = "suppressed" <=> refused)
  OBVIOUS
<1> HIDE DEF st
<1>5. Put(e.id, r, st, e.at) = Append(mem.history, d)
  BY <1>2 DEF Put
<1>6. d \in DeliveryType
  BY <1>2, <1>4 DEF DeliveryType, EventType
<1> HIDE DEF d
<1>7. Append(mem.history, d) \in Seq(DeliveryType)
  BY <1>6, MemFields
<1>8. mem' \in MemType /\ mem'.history = Append(mem.history, d) /\ mem'.events = mem.events
      /\ mem'.forecasts = mem.forecasts
  <2> DEFINE h == Append(mem.history, d)
  <2>1. mem' = [mem EXCEPT !.history = h] /\ h \in Seq(DeliveryType)
    BY <1>3, <1>5, <1>7
  <2> HIDE DEF h
  <2>2. mem \in MemType
    BY MemFields DEF MemType
  <2>3. mem' \in MemType /\ mem'.history = h /\ mem'.events = mem.events
        /\ mem'.forecasts = mem.forecasts
    BY <2>1, <2>2 DEF MemType
  <2> QED
    BY <2>3 DEF h
<1>9. refused => Advances(t)
  BY <1>1, <1>2, <1>3, NextRouteShape
<1>10. d = [id |-> e.id, route |-> r.name, endpoint |-> r.endpoint, status |-> st, at |-> e.at]
  BY DEF d
<1> QED
  BY <1>2, <1>3, <1>4, <1>6, <1>8, <1>9, <1>10 DEF e, r, refused

\* Settling changes the status of the last delivery of the outbox alone.
Settled(h, st) ==
  /\ h \in Seq(DeliveryType) /\ Len(h) = Len(mem.history)
  /\ \A a \in 1..Len(mem.history) - 1 : h[a] = mem.history[a]
  /\ h[Len(mem.history)] = [mem.history[Len(mem.history)] EXCEPT !.status = st]

LEMMA PutLast ==
  ASSUME Typed, Keyed, mem.history # <<>>, NEW e, NEW r,
         NEW st \in {"pending", "sent", "failed", "suppressed"},
         mem.history[Len(mem.history)].id = e.id, mem.history[Len(mem.history)].route = r.name
  PROVE  Settled(Put(e.id, r, st, e.at), st)
<1> DEFINE H == mem.history
           n == Len(H)
           id == e.id
           h == Put(id, r, st, e.at)
           hit(a) == H[a].id = id /\ H[a].route = r.name
<1>1. H \in Seq(DeliveryType) /\ n \in Nat /\ n > 0 /\ DOMAIN H = 1..n /\ n \in 1..n
  BY MemFields
<1>2. \A a \in 1..n : hit(a) => a = n
  BY <1>1 DEF Keyed
<1>3. Held(id, r)
  BY <1>1 DEF Held
<1>4. h = [a \in 1..n |-> IF hit(a) THEN [H[a] EXCEPT !.status = st] ELSE H[a]]
  BY <1>1, <1>3 DEF Put
<1>5. hit(n)
  OBVIOUS
<1> HIDE DEF hit, H, h, id
<1>6. \A a \in 1..n : H[a] \in DeliveryType
  BY <1>1
<1>7. \A a \in 1..n : [H[a] EXCEPT !.status = st] \in DeliveryType
  BY <1>6 DEF DeliveryType
<1>8. \A a \in 1..n : h[a] = (IF hit(a) THEN [H[a] EXCEPT !.status = st] ELSE H[a])
  BY <1>4
<1>9. \A a \in 1..n : h[a] \in DeliveryType
  BY <1>6, <1>7, <1>8
<1>10. \A a \in 1..n - 1 : h[a] = H[a]
  <2> HIDE DEF n
  <2> TAKE a \in 1..n - 1
  <2>1. a \in 1..n /\ a # n
    BY <1>1
  <2>2. ~hit(a)
    BY <2>1, <1>2
  <2> QED
    BY <2>1, <2>2, <1>8
<1>11. h[n] = [H[n] EXCEPT !.status = st]
  BY <1>1, <1>5, <1>8
<1>12. h = [a \in 1..n |-> h[a]]
  BY <1>4, <1>8
<1> HIDE DEF n
<1>13. h \in Seq(DeliveryType) /\ Len(h) = n
  BY <1>1, <1>9, <1>12
<1> QED
  BY <1>10, <1>11, <1>13 DEF h, H, n, id, Settled

\* A message of the delivery being sent.
Message(t, m) ==
  m \in MessageType /\ m.event = TheEvent(t) /\ m.route = Routed(t).name
  /\ m.endpoint = Routed(t).endpoint

LEMMA MessageSent ==
  ASSUME Typed, Served, NEW t \in Tasks, Serving(t), NEW op \in {"push", "edit"}
  PROVE  Message(t, Sent(TheEvent(t), Routed(t), op))
<1> DEFINE e == TheEvent(t)
           r == Routed(t)
<1>1. e \in EventType /\ r.name \in Names
      /\ r.endpoint \in {Routes[i].endpoint : i \in DOMAIN Routes}
  BY ServedFacts
<1> HIDE DEF e, r
<1>2. Sent(e, r, op) \in MessageType /\ Sent(e, r, op).event = e /\ Sent(e, r, op).route = r.name
      /\ Sent(e, r, op).endpoint = r.endpoint
  BY <1>1 DEF Sent, MessageType
<1> QED
  BY <1>2 DEF Message, e, r

\* The last delivery gets a status, and its message may arrive.
Settles(t, st) ==
  /\ Settled(mem'.history, st)
  /\ mem'.events = mem.events /\ mem'.forecasts = mem.forecasts
  /\ \/ told' = told /\ st # "sent"
     \/ \E m : Message(t, m) /\ told' = Append(told, m)

LEMMA SendShape ==
  ASSUME Typed, Served, Keyed, Underway, NEW t \in Tasks, Send(t)
  PROVE  /\ Advances(t) /\ mem' \in MemType /\ disk' = mem'
         /\ \E st \in {"sent", "failed"} : Settles(t, st)
<1> DEFINE e == TheEvent(t)
           r == Routed(t)
           op == IF Editable(e, r) THEN "edit" ELSE "push"
           h(st) == Put(e.id, r, st, e.at)
<1>1. Serving(t) /\ task[t].step = "send" /\ task' = NextRoute(t)
  BY DEF Send, Doing, Serving
<1>2. Advances(t)
  BY <1>1, ServedFacts, NextRouteShape
<1>3. /\ mem.history # <<>>
      /\ mem.history[Len(mem.history)].id = e.id /\ mem.history[Len(mem.history)].route = r.name
  BY <1>1 DEF Underway
<1>4. op \in {"push", "edit"}
  OBVIOUS
<1>5. PICK st \in {"sent", "failed"} :
        /\ mem' = [mem EXCEPT !.history = h(st)] /\ disk' = mem'
        /\ \/ told' = told /\ st # "sent"
           \/ \E o \in {"push", "edit"} : told' = Append(told, Sent(e, r, o))
  <2> HIDE DEF h, op, e, r
  <2>1. \/ /\ mem' = [mem EXCEPT !.history = h("sent")] /\ disk' = mem'
           /\ told' = Append(told, Sent(e, r, op))
        \/ \E st \in {"sent", "failed"} :
             /\ st = IF op = "edit" /\ told' # told THEN "sent" ELSE "failed"
             /\ told' = told \/ told' = Append(told, Sent(e, r, "push"))
             /\ mem' = [mem EXCEPT !.history = h(st)] /\ disk' = mem'
    BY DEF Send, h, op, e, r
  <2> QED
    BY <2>1, <1>4
<1> HIDE DEF op
<1>6. \E m : (told' = told /\ st # "sent") \/ (Message(t, m) /\ told' = Append(told, m))
  BY <1>1, <1>5, MessageSent
<1> DEFINE g == h(st)
<1>7. Settled(g, st)
  <2>1. st \in {"pending", "sent", "failed", "suppressed"}
    OBVIOUS
  <2> HIDE DEF e, r
  <2> QED
    BY <2>1, <1>3, PutLast
<1>8. mem' = [mem EXCEPT !.history = g]
  BY <1>5
<1> HIDE DEF g, h, e, r
<1>9. mem \in MemType
  BY MemFields DEF MemType
<1>10. mem' \in MemType /\ mem'.history = g /\ mem'.events = mem.events
       /\ mem'.forecasts = mem.forecasts
  BY <1>7, <1>8, <1>9 DEF MemType, Settled
<1>11. Settles(t, st)
  BY <1>6, <1>7, <1>10 DEF Settles
<1> QED
  BY <1>2, <1>5, <1>10, <1>11

-----------------------------------------------------------------------------
(* Steps at which the outbox and its messages stand still *)

Parts ==
  /\ Served /\ Keyed /\ Claimed /\ Underway /\ ArrivesOnce /\ InOrder /\ SentArrived
  /\ Numbered /\ Spacing /\ Spaced /\ Archived /\ Wanted /\ Recovery

\* A task that still serves serves what it served.
LEMMA SameService ==
  ASSUME NEW u \in Tasks, task'[u] = task[u]
  PROVE  /\ Serving(u)' <=> Serving(u)
         /\ TheEvent(u)' = TheEvent(u) /\ Turn(u)' = Turn(u) /\ Routed(u)' = Routed(u)
BY DEF Serving, TheEvent, Turn, Routed

LEMMA RecoveryStands ==
  ASSUME Recovery, told' = told, policy' = policy,
         \A k : Before(told, mem'.history, k) = Before(told, mem.history, k)
  PROVE  Recovery'
BY DEF Recovery

LEMMA Calm ==
  ASSUME Parts, mem'.history = mem.history, mem'.events = mem.events, told' = told,
         policy' = policy,
         \A u \in Tasks : task'[u].step \in {"route", "send"} => task'[u] = task[u],
         Awaited' => Awaited /\ Forecast'.last = Forecast.last /\ Forecast'.seq = Forecast.seq
  PROVE  Parts'
<1>1. \A u \in Tasks : Serving(u)' =>
        /\ task'[u] = task[u] /\ Serving(u)
        /\ TheEvent(u)' = TheEvent(u) /\ Turn(u)' = Turn(u) /\ Routed(u)' = Routed(u)
  <2> TAKE u \in Tasks
  <2> HAVE Serving(u)'
  <2>1. task'[u] = task[u]
    BY DEF Serving
  <2> QED
    BY <2>1, SameService
<1>2. \A u \in Tasks : task'[u].step = "send" => task[u].step = "send" /\ Serving(u)'
  BY DEF Serving
<1>3. (\A x : Known(x)' = Known(x)) /\ (\A x, r : Held(x, r)' <=> Held(x, r))
      /\ (\A r : Latest(r)' = Latest(r))
  BY DEF Known, Held, Latest
<1>4. Spoken' \subseteq Spoken
  <2>1. \A u \in Tasks : Serving(u)' => TheEvent(u)' = TheEvent(u) /\ Serving(u)
    BY <1>1
  <2> QED
    BY <2>1 DEF Spoken
<1>5. Served'
  BY <1>1, <1>3 DEF Parts, Served
<1>6. Keyed' /\ Claimed' /\ ArrivesOnce' /\ InOrder' /\ SentArrived' /\ Spaced'
  BY DEF Parts, Keyed, Claimed, ArrivesOnce, InOrder, SentArrived, Spaced
<1>7. Underway'
  BY <1>1, <1>2 DEF Parts, Underway
<1>8. Numbered'
  <2> SUFFICES ASSUME Awaited', NEW e \in Spoken' \cup mem.events, e.kind = "forecast"
               PROVE  e.at <= Forecast'.last /\ e.id[2] \in 1..Forecast'.seq
    BY DEF Numbered
  <2> QED
    BY <1>4 DEF Parts, Numbered
<1>9. Spacing'
  BY <1>1 DEF Parts, Spacing
<1>10. Archived'
  BY <1>3, <1>4 DEF Parts, Archived, Regular
<1>11. Wanted'
  BY <1>1, <1>2, <1>3 DEF Parts, Wanted
<1>12. Recovery'
  BY RecoveryStands DEF Parts
<1> QED
  BY <1>5, <1>6, <1>7, <1>8, <1>9, <1>10, <1>11, <1>12 DEF Parts

-----------------------------------------------------------------------------
(* An event is recorded *)

LEMMA OnlyHolderBusy ==
  ASSUME Locked, NEW t \in Tasks, Busy(t)
  PROVE  lock = t /\ \A u \in Tasks \ {t} : ~Busy(u)
BY DEF Locked

LEMMA ToldTyped ==
  ASSUME Typed
  PROVE  told \in Seq(MessageType)
         /\ \A k \in DOMAIN told : told[k] \in MessageType /\ told[k].event \in EventType
<1>1. told \in Seq(MessageType)
  BY DEF Typed
<1>2. \A k \in DOMAIN told : told[k] \in MessageType
  BY <1>1
<1>3. \A m \in MessageType : m.event \in EventType
  BY DEF MessageType
<1> QED
  BY <1>1, <1>2, <1>3

LEMMA SpokenTyped ==
  ASSUME Typed, Served
  PROVE  Spoken \cup mem.events \subseteq EventType
<1>1. mem.events \subseteq EventType
  BY MemFields
<1>2. \A u \in Tasks : Serving(u) => TheEvent(u) \in EventType
  BY ServedFacts
<1> QED
  BY <1>1, <1>2, ToldTyped DEF Spoken

LEMMA Telling ==
  ASSUME Typed, Locked, Parts, NEW t \in Tasks, task[t].step = "next",
         NEW e \in EventType, NEW f \in Seq(ForecastType), Len(f) <= 1,
         NEW todo \in Agenda, NEW left \in Seq(Nat), Announce(t, e, f, todo, left),
         Regular(e), Fresh(e, f), told' = told, job' = job, policy' = policy
  PROVE  Parts'
<1>1. /\ mem'.events = Adds(e) /\ mem'.history = mem.history /\ mem'.forecasts = f
      /\ \A u \in Tasks \ {t} : task'[u] = task[u]
      /\ task'[t].step \in {"next", "route"} /\ task'[t].event = {e}
      /\ task'[t].routes = {i \in DOMAIN Routes : ~Held(e.id, Routes[i])}
      /\ task'[t].step = "route" => task'[t].routes # {}
  BY AnnounceShape
<1>2. \A u \in Tasks \ {t} : ~Busy(u)
  BY OnlyHolderBusy DEF Busy
<1>3. \A u \in Tasks : Serving(u)' => u = t /\ task'[t].step = "route"
  BY <1>1, <1>2 DEF Serving, Busy
<1>4. \A u \in Tasks : task'[u].step # "send"
  BY <1>1, <1>2 DEF Busy
<1>5. TheEvent(t)' = e
  <2>1. \A x : x \in {e} <=> x = e
    OBVIOUS
  <2> QED
    BY <1>1, <2>1 DEF TheEvent
<1>6. (\A x : Known(x)' = {s \in Adds(e) : s.id = x}) /\ (\A x, r : Held(x, r)' <=> Held(x, r))
  BY <1>1 DEF Known, Held
<1>7. Adds(e) \subseteq mem.events \cup {e} /\ mem.events \subseteq Adds(e)
  BY DEF Adds
<1>8. Known(e.id)' # {}
  <2>1. CASE Known(e.id) = {}
    <3>1. e \in Adds(e)
      BY <2>1 DEF Adds
    <3> QED
      BY <3>1, <1>6
  <2>2. CASE Known(e.id) # {}
    <3>1. Adds(e) = mem.events
      BY <2>2 DEF Adds
    <3> QED
      BY <3>1, <2>2, <1>6 DEF Known
  <2> QED
    BY <2>1, <2>2
<1>9. Spoken' \subseteq Spoken \cup {e}
  <2>1. \A u \in Tasks : Serving(u)' => TheEvent(u)' = e
    BY <1>3, <1>5
  <2> QED
    BY <2>1 DEF Spoken
<1>10. Forecast' = Of(f)
  BY <1>1 DEF Forecast, Of
<1>11. Forecast.last \in Int /\ Forecast.seq \in Nat
  BY ForecastTyped DEF ForecastType
<1>12. e.at \in Nat /\ e.id[2] \in Nat /\ Interval \in Nat
  BY NotificationAssumption DEF EventType
<1>13. Served'
  BY <1>1, <1>3, <1>5, <1>6, <1>8 DEF Served
<1>14. Keyed' /\ Claimed' /\ ArrivesOnce' /\ InOrder' /\ SentArrived' /\ Spaced'
  BY <1>1 DEF Parts, Keyed, Claimed, ArrivesOnce, InOrder, SentArrived, Spaced
<1>15. Underway' /\ Wanted'
  BY <1>4 DEF Underway, Wanted
<1>16. Recovery'
  BY <1>1, RecoveryStands DEF Parts
<1>17. Awaited' <=> Awaited
  BY DEF Awaited
<1>18. Spoken \cup mem.events \subseteq EventType
  BY SpokenTyped DEF Parts
<1>19. Numbered'
  <2> SUFFICES ASSUME Awaited, NEW x \in Spoken' \cup mem'.events, x.kind = "forecast"
               PROVE  x.at <= Of(f).last /\ x.id[2] \in 1..Of(f).seq
    BY <1>10, <1>17 DEF Numbered
  <2>1. CASE x = e
    BY <2>1, <1>11, <1>12 DEF Fresh
  <2>2. CASE x # e
    <3>1. x \in Spoken \cup mem.events
      BY <2>2, <1>1, <1>7, <1>9
    <3>2. x.at <= Forecast.last /\ x.id[2] \in 1..Forecast.seq
      BY <3>1 DEF Parts, Numbered
    <3>3. x.at \in Nat /\ x.id[2] \in Nat
      BY <3>1, <1>18 DEF EventType
    <3>4. CASE e.kind = "forecast"
      <4>1. Of(f).seq = Forecast.seq + 1 /\ Of(f).last = e.at /\ Forecast.last + Interval <= e.at
        BY <3>4 DEF Fresh
      <4>2. x.at <= e.at
        BY <4>1, <3>2, <3>3, <1>11, <1>12
      <4>3. x.id[2] \in 1..Forecast.seq + 1
        BY <3>2, <3>3, <1>11
      <4> QED
        BY <4>1, <4>2, <4>3
    <3>5. CASE e.kind # "forecast"
      BY <3>5, <3>2 DEF Fresh
    <3> QED
      BY <3>4, <3>5
  <2> QED
    BY <2>1, <2>2
<1>20. Spacing'
  <2> SUFFICES ASSUME Serving(t)', e.kind = "forecast", e.id[2] # 0,
                      NEW k \in DOMAIN told, told[k].event.kind = "forecast"
               PROVE  Apart(told[k].event, e)
    BY <1>3, <1>5 DEF Spacing
  <2>1. Awaited /\ Forecast.last + Interval <= e.at
    BY DEF Fresh
  <2>2. told[k].event \in Spoken
    BY DEF Spoken
  <2>3. told[k].event.at <= Forecast.last
    BY <2>1, <2>2 DEF Parts, Numbered
  <2>4. told[k].event.at \in Nat
    BY <2>2, <1>18 DEF EventType
  <2> QED
    BY <2>1, <2>3, <2>4, <1>11, <1>12 DEF Apart
<1>21. Archived'
  <2>1. \A x \in Spoken' \cup mem'.events : Regular(x)'
    <3>1. \A x : Regular(x) => Regular(x)'
      BY DEF Regular
    <3> QED
      BY <3>1, <1>1, <1>7, <1>9 DEF Parts, Archived
  <2>2. ASSUME NEW x \in Spoken' PROVE Known(x.id)' # {}
    <3>1. CASE x = e
      BY <3>1, <1>8
    <3>2. CASE x # e
      <4>1. x \in Spoken /\ Known(x.id) # {}
        BY <3>2, <1>9 DEF Parts, Archived
      <4> QED
        BY <4>1, <1>6, <1>7 DEF Known
    <3> QED
      BY <3>1, <3>2
  <2>3. ASSUME NEW x \in Spoken', x.kind = "forecast", x.id[2] # 0
        PROVE  Known(x.id)' = {x}
    <3>1. CASE x \in Spoken
      <4>1. Known(x.id) = {x}
        BY <3>1, <2>3 DEF Parts, Archived
      <4>2. CASE Known(e.id) = {}
        <5>1. e.id # x.id
          BY <4>1, <4>2
        <5>2. Adds(e) = mem.events \cup {e}
          BY <4>2 DEF Adds
        <5>3. Known(x.id)' = {s \in mem.events \cup {e} : s.id = x.id}
          BY <5>2, <1>6
        <5>4. {s \in mem.events \cup {e} : s.id = x.id} = Known(x.id)
          BY <5>1 DEF Known
        <5> QED
          BY <5>3, <5>4, <4>1
      <4>3. CASE Known(e.id) # {}
        BY <4>3, <4>1, <1>6 DEF Known, Adds
      <4> QED
        BY <4>2, <4>3
    <3>2. CASE x \notin Spoken
      <4>1. x = e
        BY <3>2, <1>9
      <4>2. Awaited /\ e.id[2] = Forecast.seq + 1
        BY <4>1, <2>3 DEF Fresh
      <4>3. ASSUME NEW s \in Known(e.id) PROVE FALSE
        <5>1. s \in mem.events /\ s.id = e.id
          BY <4>3 DEF Known
        <5>2. s.kind = "forecast"
          BY <5>1, <4>1, <2>3 DEF Parts, Archived, Regular
        <5>3. s.id[2] \in 1..Forecast.seq
          BY <5>1, <5>2, <4>2 DEF Parts, Numbered
        <5> QED
          BY <5>1, <5>3, <4>2, <1>11
      <4>4. Known(e.id) = {}
        BY <4>3
      <4> QED
        BY <4>1, <4>4, <1>6 DEF Known, Adds
    <3> QED
      BY <3>1, <3>2
  <2> QED
    BY <2>1, <2>2, <2>3 DEF Archived
<1> QED
  BY <1>13, <1>14, <1>15, <1>16, <1>19, <1>20, <1>21 DEF Parts

-----------------------------------------------------------------------------
(* A route is claimed *)

LEMMA SuppressesUnwanted ==
  ASSUME NEW e, NEW r, e.kind = "forecast", e.fkind \in GoodNews, ~Suppressed(e, r)
  PROVE  /\ Latest(r) # {}
         /\ \E s \in Known(mem.history[Max(Latest(r))].id) : ~Unalarming(s)
<1> DEFINE sent == Latest(r)
           last == IF sent = {} THEN {} ELSE {mem.history[Max(sent)]}
           of == UNION {Known(d.id) : d \in last}
<1>1. ~(e.fkind \in GoodNews /\ \A s \in of : Unalarming(s))
  BY DEF Suppressed, ForecastSuppressed
<1>2. PICK s \in of : ~Unalarming(s)
  BY <1>1
<1>3. PICK d \in last : s \in Known(d.id)
  BY <1>2
<1> HIDE DEF sent
<1>4. sent # {} /\ d = mem.history[Max(sent)]
  BY <1>3
<1> QED
  BY <1>2, <1>3, <1>4 DEF sent

LEMMA Claiming ==
  ASSUME Typed, Locked, Parts, NEW t \in Tasks, ClaimRoute(t)
  PROVE  Parts'
<1>0. PICK e, r, H, n, routes :
        /\ e = TheEvent(t) /\ r = Routed(t) /\ routes = task[t].routes
        /\ H = mem.history /\ n = Len(mem.history)
  OBVIOUS
<1>1. Serving(t) /\ Busy(t) /\ task[t].step = "route"
      /\ told' = told /\ job' = job /\ policy' = policy
  BY DEF ClaimRoute, Doing, Serving, Busy
<1>2. /\ task[t].event = {e} /\ e \in EventType /\ Turn(t) \in routes /\ Turn(t) \in DOMAIN Routes
      /\ Known(e.id) # {} /\ r = Routes[Turn(t)] /\ ~Held(e.id, r) /\ routes \subseteq DOMAIN Routes
  BY <1>0, <1>1, ServedFacts, BusyFields DEF Parts
<1>3. PICK st \in {"pending", "suppressed"}, d \in DeliveryType :
        /\ d = [id |-> e.id, route |-> r.name, endpoint |-> r.endpoint, status |-> st, at |-> e.at]
        /\ mem'.history = Append(H, d)
        /\ mem'.events = mem.events /\ mem'.forecasts = mem.forecasts
        /\ st = "suppressed" => Advances(t)
        /\ st = "pending" =>
             /\ ~Suppressed(e, r) /\ ~Claim(e.id, r)
             /\ task' = [task EXCEPT ![t].step = "send"]
  BY <1>0, ClaimShape DEF Parts
<1>4. d.id = e.id /\ d.route = r.name /\ d.endpoint = r.endpoint /\ d.status = st
  BY <1>3
<1>5. /\ H \in Seq(DeliveryType) /\ n \in Nat /\ DOMAIN H = 1..n
      /\ DOMAIN mem'.history = 1..n + 1 /\ Len(mem'.history) = n + 1 /\ mem'.history # <<>>
      /\ \A a \in 1..n : mem'.history[a] = H[a]
      /\ mem'.history[n + 1] = d
  BY <1>0, <1>3, MemFields
<1>6. task \in [Tasks -> TaskType] /\ task[t] \in BusyType
  BY <1>1, BusyFields DEF Typed
<1>7. /\ \A u \in Tasks \ {t} : task'[u] = task[u]
      /\ task'[t].event = {e}
      /\ st = "suppressed" => task'[t].step # "send" /\ task'[t].routes = routes \ {Turn(t)}
                              /\ (task'[t].step = "route" => task'[t].routes # {})
      /\ st = "pending" => task'[t].step = "send" /\ task'[t].routes = routes
  <2>1. CASE st = "suppressed"
    BY <2>1, <1>0, <1>2, <1>3 DEF Advances
  <2>2. CASE st = "pending"
    <3>1. task' = [task EXCEPT ![t] = [task[t] EXCEPT !.step = "send"]]
      BY <2>2, <1>3
    <3> DEFINE b == [task[t] EXCEPT !.step = "send"]
    <3>2. b.step = "send" /\ b.routes = routes /\ b.event = task[t].event
      BY <1>0, <1>6 DEF BusyType
    <3> HIDE DEF b
    <3>3. task'[t] = b /\ \A u \in Tasks \ {t} : task'[u] = task[u]
      BY <3>1, <1>6 DEF b
    <3> QED
      BY <2>2, <3>2, <3>3, <1>2
  <2> QED
    BY <2>1, <2>2
<1>8. \A u \in Tasks : Serving(u)' => u = t
  BY <1>1, <1>7, OnlyHolderBusy DEF Serving, Busy
<1>9. TheEvent(t)' = e
  <2>1. \A x : x \in {e} <=> x = e
    OBVIOUS
  <2> QED
    BY <1>7, <2>1 DEF TheEvent
<1>10. st = "pending" => Turn(t)' = Turn(t) /\ Routed(t)' = r
  BY <1>7, <1>0 DEF Turn, Routed
<1>11. \A x : Known(x)' = Known(x)
  BY <1>3 DEF Known
<1>12. \A i \in routes \ {Turn(t)} : ~Held(e.id, Routes[i])'
  <2> TAKE i \in routes \ {Turn(t)}
  <2>1. ~Held(e.id, Routes[i])
    BY <1>1, <1>0 DEF Parts, Served
  <2>2. Routes[i].name # r.name
    BY <1>2, RouteAssumption
  <2> SUFFICES ASSUME NEW a \in 1..n + 1, mem'.history[a].id = e.id,
                      mem'.history[a].route = Routes[i].name
               PROVE  FALSE
    BY <1>5 DEF Held
  <2>3. a \in 1..n /\ mem'.history[a] = H[a]
    BY <2>2, <1>4, <1>5
  <2> QED
    BY <2>1, <2>3, <1>5, <1>0 DEF Held
<1>13. Served'
  <2> SUFFICES ASSUME Serving(t)'
               PROVE  /\ task'[t].event = {e} /\ task'[t].routes # {} /\ Known(e.id) # {}
                      /\ \A i \in task'[t].routes :
                           task'[t].step = "route" \/ i # Turn(t)' => ~Held(e.id, Routes[i])'
    BY <1>8, <1>9, <1>11 DEF Served
  <2>1. CASE st = "suppressed"
    <3>1. task'[t].step = "route"
      BY <2>1, <1>7 DEF Serving
    <3> QED
      BY <2>1, <3>1, <1>2, <1>7, <1>12
  <2>2. CASE st = "pending"
    BY <2>2, <1>2, <1>7, <1>10, <1>12
  <2> QED
    BY <2>1, <2>2
<1>14. Keyed'
  <2>1. \A a \in 1..n + 1 : \E i \in DOMAIN Routes :
          mem'.history[a].route = Routes[i].name /\ mem'.history[a].endpoint = Routes[i].endpoint
    <3> TAKE a \in 1..n + 1
    <3>1. CASE a = n + 1
      BY <3>1, <1>2, <1>4, <1>5
    <3>2. CASE a \in 1..n
      <4>1. mem'.history[a] = H[a] /\ a \in DOMAIN mem.history
        BY <3>2, <1>0, <1>5
      <4>2. PICK i \in DOMAIN Routes :
              mem.history[a].route = Routes[i].name /\ mem.history[a].endpoint = Routes[i].endpoint
        BY <4>1 DEF Parts, Keyed
      <4> QED
        BY <4>1, <4>2, <1>0
    <3> QED
      BY <3>1, <3>2, <1>5
  <2>2. \A a \in 1..n : ~(H[a].id = e.id /\ H[a].route = r.name)
    BY <1>2, <1>5, <1>0 DEF Held
  <2>3. ASSUME NEW a \in 1..n + 1, NEW b \in 1..n + 1,
               mem'.history[a].id = mem'.history[b].id, mem'.history[a].route = mem'.history[b].route
        PROVE  a = b
    <3>1. CASE a \in 1..n /\ b \in 1..n
      BY <3>1, <2>3, <1>5, <1>0 DEF Parts, Keyed
    <3>2. CASE a = n + 1 /\ b \in 1..n
      BY <3>2, <2>2, <2>3, <1>4, <1>5
    <3>3. CASE a \in 1..n /\ b = n + 1
      BY <3>3, <2>2, <2>3, <1>4, <1>5
    <3> QED
      BY <3>1, <3>2, <3>3, <1>5
  <2> QED
    BY <2>1, <2>3, <1>5 DEF Keyed
<1>15. Claimed'
  <2> SUFFICES ASSUME NEW k \in DOMAIN told
               PROVE  \E a \in 1..n + 1 :
                        /\ Matches(mem'.history[a], told[k])
                        /\ mem'.history[a].endpoint = told[k].endpoint
                        /\ mem'.history[a].status # "suppressed"
    BY <1>1, <1>5 DEF Claimed, Matches
  <2>1. PICK a \in 1..n : /\ Matches(H[a], told[k]) /\ H[a].endpoint = told[k].endpoint
                          /\ H[a].status # "suppressed"
    BY <1>5, <1>0 DEF Parts, Claimed
  <2>2. a \in 1..n + 1 /\ mem'.history[a] = H[a]
    BY <1>5
  <2> QED
    BY <2>1, <2>2
<1>16. \A k \in DOMAIN told : ~Matches(d, told[k])
  <2> SUFFICES ASSUME NEW k \in DOMAIN told, Matches(d, told[k]) PROVE FALSE
    OBVIOUS
  <2>1. PICK a \in DOMAIN H : Matches(H[a], told[k])
    BY <1>0 DEF Parts, Claimed
  <2>2. H[a].id = e.id /\ H[a].route = r.name
    BY <2>1, <1>4 DEF Matches
  <2> QED
    BY <2>2, <1>2, <1>0 DEF Held
<1>17. Underway'
  <2> SUFFICES ASSUME NEW u \in Tasks, task'[u].step = "send"
               PROVE  /\ u = t /\ st = "pending"
                      /\ \A k \in DOMAIN told :
                           told[k].event.id = e.id => told[k].endpoint # r.endpoint
    BY <1>1, <1>4, <1>5, <1>9, <1>10 DEF Underway
  <2>1. u = t
    BY <1>8 DEF Serving
  <2>2. st = "pending" /\ ~Claim(e.id, r)
    BY <2>1, <1>3, <1>7
  <2>3. ASSUME NEW k \in DOMAIN told, told[k].event.id = e.id, told[k].endpoint = r.endpoint
        PROVE  FALSE
    <3>1. PICK a \in DOMAIN H : /\ Matches(H[a], told[k]) /\ H[a].endpoint = told[k].endpoint
                                /\ H[a].status # "suppressed"
      BY <1>0 DEF Parts, Claimed
    <3>2. H[a].status \in {"pending", "sent", "failed"}
      <4>1. H[a] \in DeliveryType
        BY <1>5
      <4> QED
        BY <4>1, <3>1 DEF DeliveryType
    <3> QED
      BY <3>1, <3>2, <2>2, <2>3, <1>0 DEF Claim, Matches
  <2> QED
    BY <2>1, <2>2, <2>3
<1>18. ArrivesOnce' /\ Spaced'
  BY <1>1 DEF Parts, ArrivesOnce, Spaced
<1>19. InOrder'
  <2> SUFFICES ASSUME NEW i \in DOMAIN told, NEW k \in DOMAIN told,
                      NEW a \in 1..n + 1, NEW b \in 1..n + 1, i < k,
                      Matches(mem'.history[a], told[i]), Matches(mem'.history[b], told[k])
               PROVE  a < b
    BY <1>1, <1>5 DEF InOrder, Matches
  <2>1. a # n + 1 /\ b # n + 1
    BY <1>5, <1>16
  <2>2. a \in 1..n /\ b \in 1..n
    BY <2>1, <1>5
  <2> QED
    BY <2>2, <1>5, <1>0 DEF Parts, InOrder
<1>20. SentArrived'
  <2> SUFFICES ASSUME NEW a \in 1..n + 1, mem'.history[a].status = "sent"
               PROVE  \E k \in DOMAIN told : Matches(mem'.history[a], told[k])
    BY <1>1, <1>5 DEF SentArrived, Matches
  <2>1. a \in 1..n
    BY <1>4, <1>5
  <2> QED
    BY <2>1, <1>5, <1>0 DEF Parts, SentArrived
<1>21. Spoken' \subseteq Spoken
  <2>1. \A u \in Tasks : Serving(u)' => TheEvent(u)' = TheEvent(t)
    BY <1>8, <1>9, <1>0
  <2> QED
    BY <2>1, <1>1 DEF Spoken
<1>22. Numbered' /\ Archived'
  <2>1. Forecast' = Forecast /\ (Awaited' <=> Awaited)
    BY <1>1, <1>3 DEF Forecast, Awaited
  <2>2. Numbered'
    <3> SUFFICES ASSUME Awaited, NEW x \in Spoken' \cup mem.events, x.kind = "forecast"
                 PROVE  x.at <= Forecast.last /\ x.id[2] \in 1..Forecast.seq
      BY <2>1, <1>3 DEF Numbered
    <3> QED
      BY <1>21 DEF Parts, Numbered
  <2>3. Archived'
    BY <1>1, <1>3, <1>11, <1>21 DEF Parts, Archived, Regular
  <2> QED
    BY <2>2, <2>3
<1>23. Spacing'
  <2> SUFFICES ASSUME e.kind = "forecast", e.id[2] # 0,
                      NEW k \in DOMAIN told, told[k].event.kind = "forecast"
               PROVE  Apart(told[k].event, e)
    BY <1>1, <1>8, <1>9 DEF Spacing
  <2> QED
    BY <1>1, <1>0 DEF Parts, Spacing
<1>24. Wanted'
  <2> SUFFICES ASSUME st = "pending", e.fkind \in GoodNews
               PROVE  /\ Latest(r)' # {}
                      /\ \E s \in mem'.events :
                           s.id = mem'.history[Max(Latest(r)')].id /\ ~Unalarming(s)
    <3>1. ASSUME NEW u \in Tasks, task'[u].step = "send"
          PROVE  TheEvent(u)' = e /\ Routed(u)' = r /\ st = "pending"
      <4>1. u = t
        BY <3>1, <1>8 DEF Serving
      <4> QED
        BY <3>1, <4>1, <1>7, <1>9, <1>10
    <3> QED
      BY <3>1 DEF Wanted, Known
  <2>1. ~Suppressed(e, r)
    BY <1>3
  <2>2. e.kind = "forecast"
    <3>1. e \in Spoken
      BY <1>0, <1>1 DEF Spoken
    <3> QED
      BY <3>1 DEF Parts, Archived, Regular, GoodNews
  <2>3. Latest(r) # {} /\ \E s \in Known(H[Max(Latest(r))].id) : ~Unalarming(s)
    BY <2>1, <2>2, <1>0, SuppressesUnwanted
  <2>4. Latest(r)' = Latest(r) /\ Latest(r) \subseteq 1..n
    <3>1. \A a \in 1..n + 1 : mem'.history[a].status = "sent" => a \in 1..n /\ mem'.history[a] = H[a]
      BY <1>4, <1>5
    <3>2. Latest(r) = {a \in 1..n : H[a].route = r.name /\ H[a].status = "sent"}
      BY <1>0, <1>5 DEF Latest
    <3>3. Latest(r)' = {a \in 1..n + 1 : mem'.history[a].route = r.name /\ mem'.history[a].status = "sent"}
      BY <1>5 DEF Latest
    <3>4. \A a \in 1..n : a \in 1..n + 1 /\ mem'.history[a] = H[a]
      BY <1>5
    <3> QED
      BY <3>1, <3>2, <3>3, <3>4
  <2>5. Max(Latest(r)) \in 1..n
    BY <2>3, <2>4, <1>5, GreatestOf
  <2>6. mem'.history[Max(Latest(r))] = H[Max(Latest(r))]
    BY <2>5, <1>5
  <2> QED
    BY <2>3, <2>4, <2>6, <1>3 DEF Known
<1>25. Recovery'
  <2>1. \A m : (\E a \in DOMAIN mem'.history : Matches(mem'.history[a], m) /\ mem'.history[a].status = "sent")
             <=> (\E a \in DOMAIN H : Matches(H[a], m) /\ H[a].status = "sent")
    <3> TAKE m
    <3>1. \A a \in 1..n + 1 : mem'.history[a].status = "sent" => a \in 1..n
      BY <1>4, <1>5
    <3>2. \A a \in 1..n : a \in 1..n + 1 /\ mem'.history[a] = H[a]
      BY <1>5
    <3> QED
      BY <3>1, <3>2, <1>0, <1>5
  <2>2. \A k : Before(told, mem'.history, k) = Before(told, H, k)
    BY <2>1 DEF Before
  <2> QED
    BY <2>2, <1>0, <1>1, RecoveryStands DEF Parts
<1> QED
  BY <1>13, <1>14, <1>15, <1>17, <1>18, <1>19, <1>20, <1>22, <1>23, <1>24, <1>25 DEF Parts

-----------------------------------------------------------------------------
(* A delivery is settled, or dies with the process *)

\* The stored snapshot of an event alarms where the event does.
LEMMA SnapshotAgrees ==
  ASSUME Archived, policy.prewarning # "always", NEW x \in Spoken, x \in EventType,
         NEW s \in Known(x.id)
  PROVE  Unalarming(s) <=> Unalarming(x)
<1>1. CASE x.kind = "forecast" /\ x.id[2] # 0
  BY <1>1 DEF Archived
<1>2. CASE ~(x.kind = "forecast" /\ x.id[2] # 0)
  <2>1. Regular(x) /\ Regular(s) /\ s.id = x.id /\ s.kind = x.kind /\ x.kind \in Kinds
    BY DEF Archived, Known, Regular, EventType
  <2>2. CASE x.kind \in {"started", "finished"}
    BY <2>1, <2>2 DEF Unalarming
  <2>3. CASE x.kind = "prewarning"
    BY <2>1, <2>3 DEF Unalarming, Regular
  <2>4. CASE x.kind \in {"wait", "reminder"}
    BY <2>1, <2>4 DEF Unalarming, Regular
  <2>5. CASE x.kind = "forecast"
    BY <1>2, <2>1, <2>5 DEF Unalarming, Regular
  <2> QED
    BY <2>1, <2>2, <2>3, <2>4, <2>5 DEF Kinds
<1> QED
  BY <1>1, <1>2

\* Nobody sends any more, and only the task at hand may go on with a route.
Leaves(t) ==
  /\ \A u \in Tasks : task'[u].step # "send"
  /\ \A u \in Tasks : task'[u].step = "route" =>
       /\ u = t /\ task'[t].event = task[t].event /\ task'[t].routes # {}
       /\ task'[t].routes = task[t].routes \ {Turn(t)}

LEMMA Settling ==
  ASSUME Typed, Locked, Parts, NEW t \in Tasks, task[t].step = "send",
         NEW st \in {"pending", "sent", "failed"}, Settles(t, st), Leaves(t),
         job' = job, policy' = policy
  PROVE  Parts'
<1>0. PICK e, r, H, n, G, q :
        /\ e = TheEvent(t) /\ r = Routed(t) /\ H = mem.history /\ n = Len(mem.history)
        /\ G = mem'.history /\ q = Len(told)
  OBVIOUS
<1>1. Serving(t)
  BY DEF Serving
<1>2. /\ task[t].event = {e} /\ e \in EventType /\ Turn(t) \in DOMAIN Routes /\ r = Routes[Turn(t)]
      /\ Known(e.id) # {} /\ task[t].routes \subseteq DOMAIN Routes /\ e \in Spoken
  <2>1. e \in Spoken
    BY <1>0, <1>1 DEF Spoken
  <2> QED
    BY <2>1, <1>0, <1>1, ServedFacts, BusyFields DEF Parts, Serving, Busy
<1>3. /\ H \in Seq(DeliveryType) /\ n \in Nat /\ n > 0 /\ n \in 1..n /\ DOMAIN H = 1..n
      /\ H[n].id = e.id /\ H[n].route = r.name /\ H[n].endpoint = r.endpoint
      /\ H[n].status = "pending"
      /\ \A k \in DOMAIN told : told[k].event.id = e.id => told[k].endpoint # r.endpoint
  BY <1>0, MemFields DEF Parts, Underway
<1>4. /\ G \in Seq(DeliveryType) /\ Len(G) = n /\ DOMAIN G = 1..n
      /\ \A a \in 1..n : /\ G[a].id = H[a].id /\ G[a].route = H[a].route
                         /\ G[a].endpoint = H[a].endpoint
      /\ \A a \in 1..n : a # n => G[a].status = H[a].status
      /\ G[n].status = st
  <2>1. G \in Seq(DeliveryType) /\ Len(G) = n
    BY <1>0 DEF Settles, Settled
  <2>2. \A a \in 1..n - 1 : G[a] = H[a]
    BY <1>0 DEF Settles, Settled
  <2>3. G[n] = [H[n] EXCEPT !.status = st]
    BY <1>0 DEF Settles, Settled
  <2>4. H[n] \in DeliveryType
    BY <1>3
  <2>5. /\ G[n].id = H[n].id /\ G[n].route = H[n].route /\ G[n].endpoint = H[n].endpoint
        /\ G[n].status = st
    BY <2>3, <2>4 DEF DeliveryType
  <2>6. \A a \in 1..n : a = n \/ a \in 1..n - 1
    BY <1>3
  <2> QED
    BY <2>1, <2>2, <2>5, <2>6
<1>5. mem'.events = mem.events /\ mem'.forecasts = mem.forecasts
  BY DEF Settles
<1>6. PICK m : /\ Message(t, m)
               /\ (told' = told /\ st # "sent") \/ told' = Append(told, m)
  BY <1>1, MessageSent DEF Settles, Parts
<1>7. m.event = e /\ m.route = r.name /\ m.endpoint = r.endpoint
  BY <1>0, <1>6 DEF Message
<1>8. /\ told \in Seq(MessageType) /\ q \in Nat /\ DOMAIN told = 1..q
      /\ \A k \in 1..q : k \in DOMAIN told' /\ told'[k] = told[k]
      /\ \A k \in DOMAIN told' : k \in 1..q \/ (k = q + 1 /\ told'[k] = m)
      /\ st = "sent" => q + 1 \in DOMAIN told' /\ told'[q + 1] = m
      /\ DOMAIN told' \subseteq Nat
  <2>1. told \in Seq(MessageType) /\ q \in Nat /\ DOMAIN told = 1..q
    BY <1>0, ToldTyped
  <2>2. CASE told' = told /\ st # "sent"
    BY <2>1, <2>2
  <2>3. CASE told' = Append(told, m)
    <3>1. m \in MessageType
      BY <1>6 DEF Message
    <3>2. /\ DOMAIN told' = 1..q + 1 /\ told'[q + 1] = m
          /\ \A k \in 1..q : told'[k] = told[k]
      BY <1>0, <2>1, <2>3, <3>1, AppendProperties
    <3> QED
      BY <2>1, <3>2
  <2> QED
    BY <1>6, <2>1, <2>2, <2>3
<1>9. \A a, b \in 1..n : H[a].id = H[b].id /\ H[a].route = H[b].route => a = b
  BY <1>0, <1>3 DEF Parts, Keyed
<1>10. \A k \in 1..q : \E a \in 1..n :
         /\ Matches(H[a], told[k]) /\ H[a].endpoint = told[k].endpoint
         /\ H[a].status # "suppressed"
  BY <1>0, <1>3, <1>8 DEF Parts, Claimed
\* The message is new to its route as well.
<1>11. \A k \in 1..q : ~Matches(H[n], told[k])
  <2> SUFFICES ASSUME NEW k \in 1..q, Matches(H[n], told[k]) PROVE FALSE
    OBVIOUS
  <2>1. PICK a \in 1..n : Matches(H[a], told[k]) /\ H[a].endpoint = told[k].endpoint
    BY <1>10
  <2>2. a = n
    BY <2>1, <1>3, <1>9 DEF Matches
  <2>3. told[k].event.id = e.id /\ told[k].endpoint = r.endpoint
    BY <2>1, <2>2, <1>3 DEF Matches
  <2> QED
    BY <2>3, <1>3, <1>8
<1>12. \A a \in 1..n : \A x : Matches(G[a], x) <=> Matches(H[a], x)
  BY <1>4 DEF Matches
<1>13. \A u \in Tasks : Serving(u)' => u = t /\ task'[t].step = "route"
         /\ task'[t].event = {e} /\ task'[t].routes # {}
         /\ task'[t].routes = task[t].routes \ {Turn(t)}
  BY <1>2 DEF Leaves, Serving
<1>14. \A u \in Tasks : Serving(u)' => TheEvent(u)' = e
  <2>1. \A x : x \in {e} <=> x = e
    OBVIOUS
  <2> QED
    BY <1>13, <2>1 DEF TheEvent
<1>15. \A x : Known(x)' = Known(x)
  BY <1>5 DEF Known
<1>16. Served'
  <2>1. ASSUME Serving(t)', NEW i \in task'[t].routes
        PROVE  \A a \in 1..n : ~(G[a].id = e.id /\ G[a].route = Routes[i].name)
    <3>1. i \in task[t].routes /\ i # Turn(t)
      BY <2>1, <1>13
    <3>2. ~Held(e.id, Routes[i])
      BY <3>1, <1>0, <1>1 DEF Parts, Served
    <3> QED
      BY <3>2, <1>0, <1>3, <1>4 DEF Held
  <2>2. ASSUME Serving(t)', NEW i \in task'[t].routes
        PROVE  ~Held(e.id, Routes[i])'
    BY <2>1, <2>2, <1>0, <1>4 DEF Held
  <2> QED
    BY <2>2, <1>2, <1>13, <1>14, <1>15 DEF Served
<1>17. Keyed'
  <2>1. \A a \in 1..n : \E i \in DOMAIN Routes :
          G[a].route = Routes[i].name /\ G[a].endpoint = Routes[i].endpoint
    <3> TAKE a \in 1..n
    <3>1. PICK i \in DOMAIN Routes : H[a].route = Routes[i].name /\ H[a].endpoint = Routes[i].endpoint
      BY <1>0, <1>3 DEF Parts, Keyed
    <3> QED
      BY <3>1, <1>4
  <2>2. \A a, b \in 1..n : G[a].id = G[b].id /\ G[a].route = G[b].route => a = b
    BY <1>4, <1>9
  <2> QED
    BY <2>1, <2>2, <1>0, <1>4 DEF Keyed
<1>18. Claimed'
  <2> SUFFICES ASSUME NEW k \in DOMAIN told'
               PROVE  \E a \in 1..n :
                        /\ Matches(G[a], told'[k]) /\ G[a].endpoint = told'[k].endpoint
                        /\ G[a].status # "suppressed"
    BY <1>0, <1>4 DEF Claimed, Matches
  <2>1. CASE k \in 1..q
    <3>1. PICK a \in 1..n : /\ Matches(H[a], told[k]) /\ H[a].endpoint = told[k].endpoint
                            /\ H[a].status # "suppressed"
      BY <2>1, <1>10
    <3>2. G[a].status # "suppressed"
      BY <3>1, <1>4
    <3> QED
      BY <2>1, <3>1, <3>2, <1>4, <1>8, <1>12
  <2>2. CASE k = q + 1 /\ told'[k] = m
    <3>1. Matches(G[n], m) /\ G[n].endpoint = m.endpoint /\ G[n].status # "suppressed"
      BY <1>3, <1>4, <1>7 DEF Matches
    <3> QED
      BY <2>2, <3>1, <1>3
  <2> QED
    BY <2>1, <2>2, <1>8
<1>19. Underway' /\ Wanted'
  BY DEF Leaves, Underway, Wanted
<1>20. ArrivesOnce'
  <2> SUFFICES ASSUME NEW i \in DOMAIN told', NEW k \in DOMAIN told', i # k,
                      told'[i].event.id = told'[k].event.id, told'[i].endpoint = told'[k].endpoint
               PROVE  FALSE
    BY DEF ArrivesOnce
  <2>1. CASE i \in 1..q /\ k \in 1..q
    BY <2>1, <1>8 DEF Parts, ArrivesOnce
  <2>2. CASE i \in 1..q /\ told'[k] = m
    BY <2>2, <1>3, <1>7, <1>8
  <2>3. CASE told'[i] = m /\ k \in 1..q
    BY <2>3, <1>3, <1>7, <1>8
  <2> QED
    BY <2>1, <2>2, <2>3, <1>8
<1>21. InOrder'
  <2> SUFFICES ASSUME NEW i \in DOMAIN told', NEW k \in DOMAIN told', i < k,
                      NEW a \in 1..n, NEW b \in 1..n,
                      Matches(G[a], told'[i]), Matches(G[b], told'[k])
               PROVE  a < b
    BY <1>0, <1>4 DEF InOrder, Matches
  <2>1. i \in 1..q /\ told'[i] = told[i] /\ Matches(H[a], told[i])
    BY <1>8, <1>12
  <2>2. CASE k \in 1..q
    BY <2>1, <2>2, <1>0, <1>3, <1>8, <1>12 DEF Parts, InOrder
  <2>3. CASE told'[k] = m
    <3>1. b = n
      BY <2>3, <1>3, <1>7, <1>9, <1>12 DEF Matches
    <3>2. a # n
      BY <2>1, <1>11
    <3> QED
      BY <3>1, <3>2, <1>3
  <2> QED
    BY <2>2, <2>3, <1>8
<1>22. SentArrived'
  <2> SUFFICES ASSUME NEW a \in 1..n, G[a].status = "sent"
               PROVE  \E k \in DOMAIN told' : Matches(G[a], told'[k])
    BY <1>0, <1>4 DEF SentArrived, Matches
  <2>1. CASE a # n
    <3>1. PICK k \in 1..q : Matches(H[a], told[k])
      BY <2>1, <1>0, <1>3, <1>4, <1>8 DEF Parts, SentArrived
    <3> QED
      BY <3>1, <1>8, <1>12
  <2>2. CASE a = n
    <3>1. q + 1 \in DOMAIN told' /\ told'[q + 1] = m
      BY <2>2, <1>4, <1>8
    <3>2. Matches(G[n], m)
      BY <1>3, <1>4, <1>7 DEF Matches
    <3> QED
      BY <2>2, <3>1, <3>2
  <2> QED
    BY <2>1, <2>2
<1>23. Spoken' \subseteq Spoken
  <2>1. \A k \in DOMAIN told' : told'[k].event \in Spoken
    <3> TAKE k \in DOMAIN told'
    <3>1. CASE k \in 1..q
      BY <3>1, <1>8 DEF Spoken
    <3>2. CASE told'[k] = m
      BY <3>2, <1>2, <1>7
    <3> QED
      BY <3>1, <3>2, <1>8
  <2>2. \A u \in Tasks : Serving(u)' => TheEvent(u)' \in Spoken
    BY <1>2, <1>14
  <2> QED
    BY <2>1, <2>2 DEF Spoken
<1>24. Numbered'
  <2>1. Forecast' = Forecast /\ (Awaited' <=> Awaited)
    BY <1>5 DEF Forecast, Awaited
  <2> SUFFICES ASSUME Awaited, NEW x \in Spoken' \cup mem.events, x.kind = "forecast"
               PROVE  x.at <= Forecast.last /\ x.id[2] \in 1..Forecast.seq
    BY <2>1, <1>5 DEF Numbered
  <2> QED
    BY <1>23 DEF Parts, Numbered
<1>25. Archived'
  BY <1>5, <1>15, <1>23 DEF Parts, Archived, Regular
<1>26. Spacing'
  <2> SUFFICES ASSUME e.kind = "forecast", e.id[2] # 0,
                      NEW k \in DOMAIN told', told'[k].event.kind = "forecast"
               PROVE  Apart(told'[k].event, e)
    BY <1>14 DEF Spacing
  <2>1. CASE k \in 1..q
    BY <2>1, <1>0, <1>1, <1>8 DEF Parts, Spacing
  <2>2. CASE told'[k] = m
    BY <2>2, <1>7 DEF Apart
  <2> QED
    BY <2>1, <2>2, <1>8
<1>27. Spaced'
  <2> SUFFICES ASSUME NEW i \in DOMAIN told', NEW k \in DOMAIN told', i < k,
                      told'[i].event.kind = "forecast",
                      told'[k].event.kind = "forecast", told'[k].event.id[2] # 0
               PROVE  Apart(told'[i].event, told'[k].event)
    BY DEF Spaced
  <2>1. i \in 1..q /\ told'[i] = told[i]
    BY <1>8
  <2>2. CASE k \in 1..q
    BY <2>1, <2>2, <1>8 DEF Parts, Spaced
  <2>3. CASE told'[k] = m
    BY <2>1, <2>3, <1>0, <1>1, <1>7, <1>8 DEF Parts, Spacing
  <2> QED
    BY <2>2, <2>3, <1>8
<1>28. Recovery'
  <2> DEFINE sent(i) == \E a \in 1..n : Matches(H[a], told[i]) /\ H[a].status = "sent"
  <2> SUFFICES ASSUME policy.prewarning # "always", NEW k \in DOMAIN told',
                      told'[k].event.fkind \in GoodNews
               PROVE  /\ Before(told', G, k) # {}
                      /\ ~Unalarming(told'[Max(Before(told', G, k))].event)
    BY <1>0 DEF Recovery
  <2>1. \A i \in 1..q : (\E a \in DOMAIN G : Matches(G[a], told'[i]) /\ G[a].status = "sent") <=> sent(i)
    <3> TAKE i \in 1..q
    <3>1. told'[i] = told[i]
      BY <1>8
    <3>2. \A a \in 1..n : Matches(G[a], told[i]) => a # n /\ Matches(H[a], told[i])
                          /\ G[a].status = H[a].status
      BY <1>4, <1>11, <1>12
    <3>3. \A a \in 1..n : Matches(H[a], told[i]) =>
             Matches(G[a], told[i]) /\ G[a].status = H[a].status
      BY <1>4, <1>11, <1>12
    <3> QED
      BY <3>1, <3>2, <3>3, <1>4
  <2>2. \A i \in 1..q : (\E a \in DOMAIN H : Matches(H[a], told[i]) /\ H[a].status = "sent") <=> sent(i)
    BY <1>3
  <2> HIDE DEF sent
  <2>3. Before(told', G, k) = {i \in 1..k - 1 : told[i].route = told'[k].route /\ sent(i)}
    <3>1. \A i \in 1..k - 1 : i \in 1..q /\ told'[i] = told[i]
      BY <1>8
    <3> QED
      BY <3>1, <2>1 DEF Before
  <2>4. CASE k \in 1..q
    <3>1. Before(told, H, k) = {i \in 1..k - 1 : told[i].route = told[k].route /\ sent(i)}
      <4>1. \A i \in 1..k - 1 : i \in 1..q
        BY <2>4, <1>8
      <4> QED
        BY <4>1, <2>2 DEF Before
    <3>2. Before(told', G, k) = Before(told, H, k)
      BY <2>3, <2>4, <3>1, <1>8
    <3>3. Before(told, H, k) # {} /\ ~Unalarming(told[Max(Before(told, H, k))].event)
      BY <2>4, <1>0, <1>8 DEF Parts, Recovery
    <3>4. Max(Before(told, H, k)) \in 1..k - 1
      <4>1. Before(told, H, k) \subseteq 1..k - 1 /\ k - 1 \in Nat
        BY <3>1, <2>4, <1>8
      <4> QED
        BY <4>1, <3>3, GreatestOf
    <3>5. told'[Max(Before(told, H, k))] = told[Max(Before(told, H, k))]
      BY <3>4, <2>4, <1>8
    <3> QED
      BY <3>2, <3>3, <3>5
  <2>5. CASE k = q + 1 /\ told'[k] = m
    <3> DEFINE M == Max(Latest(r))
               before == {i \in 1..q : told[i].route = r.name /\ sent(i)}
    <3>1. Latest(r) # {} /\ \E s \in Known(H[M].id) : ~Unalarming(s)
      BY <2>5, <1>0, <1>7 DEF Parts, Wanted
    <3>2. Latest(r) = {a \in 1..n : H[a].route = r.name /\ H[a].status = "sent"}
      BY <1>0, <1>3 DEF Latest
    <3>3. M \in Latest(r) /\ \A a \in Latest(r) : a <= M
      BY <3>1, <3>2, <1>3, GreatestOf
    <3> HIDE DEF M
    <3>4. PICK i \in 1..q : Matches(H[M], told[i])
      BY <3>2, <3>3, <1>0, <1>3, <1>8 DEF Parts, SentArrived
    <3>5. i \in before
      BY <3>2, <3>3, <3>4 DEF Matches, sent
    <3>6. \A j \in before : j <= i
      <4> SUFFICES ASSUME NEW j \in before, i < j PROVE FALSE
        BY <1>8
      <4>1. PICK b \in 1..n : Matches(H[b], told[j]) /\ H[b].status = "sent"
        BY DEF sent
      <4>2. b \in Latest(r)
        BY <4>1, <3>2 DEF Matches
      <4>3. M < b
        BY <4>1, <3>2, <3>3, <3>4, <1>0, <1>3, <1>8 DEF Parts, InOrder
      <4> QED
        BY <4>2, <4>3, <3>2, <3>3
    <3>7. Before(told', G, k) = before
      <4>1. k - 1 = q /\ told'[k].route = r.name
        BY <2>5, <1>7, <1>8
      <4> QED
        BY <4>1, <2>3
    <3>8. before \subseteq 1..q
      OBVIOUS
    <3> HIDE DEF before
    <3>9. Max(before) = i
      <4>1. Max(before) \in before /\ i <= Max(before)
        BY <3>5, <3>8, <1>8, GreatestOf
      <4>2. PICK x : x = Max(before)
        OBVIOUS
      <4>3. x \in 1..q /\ x <= i /\ i <= x
        BY <4>1, <4>2, <3>6, <3>8
      <4> QED
        BY <4>2, <4>3, <1>8
    <3>10. told[i].event \in Spoken /\ told[i].event \in EventType /\ told'[i] = told[i]
      BY <3>4, <1>8, ToldTyped DEF Spoken
    <3>11. H[M].id = told[i].event.id
      BY <3>4 DEF Matches
    <3>12. ~Unalarming(told[i].event)
      <4> DEFINE x == told[i].event
      <4>1. PICK s \in Known(x.id) : ~Unalarming(s)
        BY <3>1, <3>11
      <4>2. x \in Spoken /\ x \in EventType /\ Archived
        BY <3>10 DEF Parts
      <4> HIDE DEF x
      <4>3. ~Unalarming(x)
        BY <4>1, <4>2, SnapshotAgrees
      <4> QED
        BY <4>3 DEF x
    <3> QED
      BY <3>5, <3>7, <3>9, <3>10, <3>12
  <2> QED
    BY <2>4, <2>5, <1>8
<1> QED
  BY <1>16, <1>17, <1>18, <1>19, <1>20, <1>21, <1>22, <1>24, <1>25, <1>26, <1>27, <1>28 DEF Parts

-----------------------------------------------------------------------------
(* The invariant, action by action *)

LEMMA InvariantParts ==
  IInv <=> Typed /\ Locked /\ WaitSane /\ Parts
BY DEF IInv, Parts

LEMMA InitInvariant ==
  ASSUME Init
  PROVE  IInv
<1>1. /\ now = 0 /\ policy \in Policies /\ lock = Nobody /\ told = <<>> /\ disk = mem
      /\ mem = [events |-> {}, history |-> <<>>, forecasts |-> <<>>]
      /\ task = [t \in Tasks |-> [step |-> "idle"]]
  BY DEF Init
<1>2. PICK b \in Readiness :
        job = [begun |-> FALSE, over |-> FALSE, waiting |-> FALSE, waits |-> 0, since |-> 0,
               late |-> FALSE, result |-> "none", blockers |-> b]
  <2>1. Limits[policy].readiness \subseteq Readiness
    BY <1>1, NotificationAssumption
  <2> QED
    BY <2>1 DEF Init
<1>3. \A t \in Tasks : task[t] = [step |-> "idle"] /\ task[t].step = "idle"
  BY <1>1
<1>4. mem.events = {} /\ mem.history = <<>> /\ mem.forecasts = <<>>
  BY <1>1
<1>5. Typed
  <2>1. job \in JobType
    BY <1>2 DEF JobType, Results
  <2>2. mem \in [events : SUBSET EventType, history : Seq(DeliveryType), forecasts : Seq(ForecastType)]
        /\ Len(mem.forecasts) <= 1
    BY <1>1
  <2>3. task \in [Tasks -> TaskType]
    BY <1>1 DEF TaskType
  <2>4. told \in Seq(MessageType)
    BY <1>1
  <2> QED
    BY <1>1, <2>1, <2>2, <2>3, <2>4 DEF Typed
<1>6. Locked /\ WaitSane
  BY <1>1, <1>2, <1>3, TaskAssumption DEF Locked, Busy, WaitSane
<1>7. \A t \in Tasks : ~Serving(t) /\ task[t].step # "send"
  BY <1>3 DEF Serving
<1>8. Spoken = {}
  BY <1>1, <1>7 DEF Spoken
<1>9. Parts
  <2>1. Served /\ Underway /\ Spacing /\ Wanted
    BY <1>7 DEF Served, Underway, Spacing, Wanted
  <2>2. Keyed /\ SentArrived
    BY <1>4 DEF Keyed, SentArrived
  <2>3. Claimed /\ ArrivesOnce /\ InOrder /\ Spaced /\ Recovery
    BY <1>1 DEF Claimed, ArrivesOnce, InOrder, Spaced, Recovery
  <2>4. Numbered /\ Archived
    BY <1>4, <1>8 DEF Numbered, Archived
  <2> QED
    BY <2>1, <2>2, <2>3, <2>4 DEF Parts
<1> QED
  BY <1>5, <1>6, <1>9, InvariantParts

\* A step that changes no more than the job, the clock or the queue.
LEMMA TypedCore ==
  ASSUME Typed, now' \in Nat, policy' = policy, job' \in JobType, told' \in Seq(MessageType),
         task' \in [Tasks -> TaskType], mem' \in MemType, Len(mem'.forecasts) <= 1, disk' = mem'
  PROVE  Typed'
BY DEF Typed, MemType

LEMMA TypedNow ==
  ASSUME Typed
  PROVE  /\ now \in Nat /\ job \in JobType /\ told \in Seq(MessageType) /\ disk = mem
         /\ task \in [Tasks -> TaskType] /\ mem \in MemType /\ Len(mem.forecasts) <= 1
BY DEF Typed, MemType

LEMMA JobStep ==
  ASSUME IInv, NEW j \in JobType, JobMoves(j), j.waiting => j.blockers # "ready" /\ j.waits > 0,
         (~j.begun => ~job.begun) /\ (~j.over => ~job.over)
  PROVE  IInv'
<1>0. Typed /\ Locked /\ WaitSane /\ Parts
  BY InvariantParts
<1>1. /\ job' = j /\ now' = now /\ policy' = policy /\ mem' = mem /\ disk' = disk /\ lock' = lock
      /\ task' = task /\ told' = told
  BY DEF JobMoves
<1>2. Typed'
  BY <1>0, <1>1, TypedNow, TypedCore
<1>3. Locked' /\ WaitSane'
  BY <1>0, <1>1 DEF Locked, Busy, WaitSane
<1>4. Parts'
  <2>1. Forecast' = Forecast /\ (Awaited' => Awaited)
    BY <1>1 DEF Forecast, Awaited
  <2>2. Forecast'.last = Forecast.last /\ Forecast'.seq = Forecast.seq
    BY <2>1
  <2>3. \A u \in Tasks : task'[u] = task[u]
    BY <1>1
  <2> QED
    BY <1>0, <1>1, <2>1, <2>2, <2>3, Calm
<1> QED
  BY <1>2, <1>3, <1>4, InvariantParts DEF IInv, Parts

LEMMA JobStepsKeep ==
  ASSUME IInv, BlockersChange \/ EnterWait \/ ZoneStarts \/ JobEnds
  PROVE  IInv'
<1>0. Typed /\ WaitSane /\ policy \in Policies /\ Limits[policy].readiness \subseteq Readiness
  BY NotificationAssumption, InvariantParts DEF Typed
<1>1. job \in JobType /\ now \in Nat /\ (job.waiting => job.blockers # "ready" /\ job.waits > 0)
  BY <1>0, TypedNow DEF WaitSane
<1>2. job.begun \in BOOLEAN /\ job.over \in BOOLEAN /\ job.waiting \in BOOLEAN /\ job.waits \in Nat
  BY <1>0, JobFields
<1>3. CASE BlockersChange
  <2>1. PICK b \in Readiness :
          /\ job.waiting => b # "ready"
          /\ JobMoves([job EXCEPT !.blockers = b])
    BY <1>0, <1>3 DEF BlockersChange
  <2> DEFINE j == [job EXCEPT !.blockers = b]
  <2>2. j \in JobType /\ j.blockers = b /\ j.waiting = job.waiting /\ j.waits = job.waits
        /\ j.begun = job.begun /\ j.over = job.over
    BY <1>1 DEF JobType
  <2> HIDE DEF j
  <2>3. JobMoves(j)
    BY <2>1 DEF j
  <2> QED
    BY <1>1, <2>1, <2>2, <2>3, JobStep
<1>4. CASE EnterWait
  <2> DEFINE w == job.waits + 1
             j == [job EXCEPT !.waiting = TRUE, !.waits = w, !.since = now]
  <2>1. JobMoves(j) /\ job.blockers # "ready"
    BY <1>4 DEF EnterWait
  <2>2. w \in Nat /\ w > 0
    BY <1>2
  <2> HIDE DEF w
  <2>3. j \in JobType /\ j.blockers = job.blockers /\ j.waits = w
        /\ j.begun = job.begun /\ j.over = job.over
    BY <1>1, <2>2 DEF JobType
  <2> HIDE DEF j
  <2> QED
    BY <1>1, <2>1, <2>2, <2>3, JobStep
<1>5. CASE ZoneStarts
  <2>1. PICK partly \in BOOLEAN :
          /\ partly => job.waiting /\ ~job.begun
          /\ JobMoves([job EXCEPT !.begun = TRUE, !.late = @ \/ (~job.begun /\ now # Planned),
                                  !.waiting = partly, !.blockers = IF partly THEN @ ELSE "ready"])
    BY <1>5 DEF ZoneStarts
  <2> DEFINE late == job.late \/ (~job.begun /\ now # Planned)
             b == IF partly THEN job.blockers ELSE "ready"
             j == [job EXCEPT !.begun = TRUE, !.late = late, !.waiting = partly, !.blockers = b]
  <2>2. JobMoves(j)
    BY <2>1
  <2>3. late \in BOOLEAN /\ b \in Readiness
    BY <1>1, NotificationAssumption DEF JobType
  <2>4. partly => b # "ready" /\ job.waits > 0
    BY <1>1, <2>1
  <2> HIDE DEF late, b
  <2>5. j \in JobType /\ j.blockers = b /\ (j.waiting <=> partly) /\ j.waits = job.waits
        /\ j.begun = TRUE /\ j.over = job.over
    BY <1>1, <2>3 DEF JobType
  <2> HIDE DEF j
  <2> QED
    BY <2>2, <2>4, <2>5, JobStep
<1>6. CASE JobEnds
  <2>1. PICK result \in Results :
          JobMoves([job EXCEPT !.over = TRUE, !.waiting = FALSE, !.result = result])
    BY <1>6 DEF JobEnds
  <2> DEFINE j == [job EXCEPT !.over = TRUE, !.waiting = FALSE, !.result = result]
  <2>2. JobMoves(j)
    BY <2>1
  <2>3. j \in JobType /\ j.waiting = FALSE /\ j.begun = job.begun /\ j.over = TRUE
    BY <1>1 DEF JobType
  <2> HIDE DEF j
  <2> QED
    BY <2>2, <2>3, JobStep
<1> QED
  BY <1>3, <1>4, <1>5, <1>6

LEMMA QuietSteps ==
  ASSUME IInv, Tick \/ UNCHANGED vars \/ \E t \in Tasks : Queue(t) \/ End(t)
  PROVE  IInv'
<1>0. Typed /\ Locked /\ WaitSane /\ Parts
  BY InvariantParts
<1>1. /\ now \in Nat /\ job \in JobType /\ told \in Seq(MessageType) /\ disk = mem
      /\ task \in [Tasks -> TaskType] /\ mem \in MemType /\ Len(mem.forecasts) <= 1
  BY <1>0, TypedNow
<1>2. /\ job' = job /\ policy' = policy /\ mem' = mem /\ disk' = disk /\ told' = told
      /\ now' \in Nat
  <2>1. /\ job' = job /\ policy' = policy /\ mem' = mem /\ disk' = disk /\ told' = told
        /\ now' = now \/ now' = now + 1
    BY DEF Tick, Queue, End, Ends, vars
  <2> QED
    BY <1>1, <2>1
<1>3. WaitSane'
  BY <1>0, <1>2 DEF WaitSane
<1>4. Forecast' = Forecast /\ (Awaited' <=> Awaited)
  BY <1>2 DEF Forecast, Awaited
<1>5. CASE Tick \/ UNCHANGED vars
  <2>1. task' = task /\ lock' = lock
    BY <1>5 DEF Tick, vars
  <2>2. Typed'
    BY <1>0, <1>1, <1>2, <2>1, TypedCore
  <2>3. Locked'
    BY <1>0, <2>1 DEF Locked, Busy
  <2>4. Parts'
    BY <1>0, <1>2, <1>4, <2>1, Calm
  <2> QED
    BY <1>3, <2>2, <2>3, <2>4, InvariantParts DEF IInv, Parts
<1>6. ASSUME NEW t \in Tasks, Queue(t) PROVE IInv'
  <2> DEFINE b == [step |-> "lock", at |-> now]
  <2>1. task' = [task EXCEPT ![t] = b] /\ lock' = lock /\ task[t].step = "idle"
    BY <1>6 DEF Queue, Doing
  <2>2. b \in TaskType /\ b.step = "lock"
    BY <1>1 DEF TaskType
  <2> HIDE DEF b
  <2>3. task' \in [Tasks -> TaskType] /\ task'[t] = b /\ \A u \in Tasks \ {t} : task'[u] = task[u]
    BY <1>1, <2>1, <2>2
  <2>4. Typed'
    BY <1>0, <1>1, <1>2, <2>3, TypedCore
  <2>5. Locked'
    BY <1>0, <2>1, <2>2, <2>3 DEF Locked, Busy
  <2>6. \A u \in Tasks : task'[u].step \in {"route", "send"} => task'[u] = task[u]
    BY <2>2, <2>3
  <2>7. Parts'
    BY <1>0, <1>2, <1>4, <2>6, Calm
  <2> QED
    BY <1>3, <2>4, <2>5, <2>7, InvariantParts DEF IInv, Parts
<1>7. ASSUME NEW t \in Tasks, End(t) PROVE IInv'
  <2> DEFINE b == [step |-> "idle"]
  <2>1. task' = [task EXCEPT ![t] = b] /\ lock' = Nobody /\ task[t].step = "next"
    BY <1>7 DEF End, Ends, Doing
  <2>2. b \in TaskType /\ b.step = "idle"
    BY DEF TaskType
  <2> HIDE DEF b
  <2>3. task' \in [Tasks -> TaskType] /\ task'[t] = b /\ \A u \in Tasks \ {t} : task'[u] = task[u]
    BY <1>1, <2>1, <2>2
  <2>4. Typed'
    BY <1>0, <1>1, <1>2, <2>3, TypedCore
  <2>5. Locked'
    BY <1>0, <2>1, <2>2, <2>3, TaskAssumption DEF Locked, Busy
  <2>6. \A u \in Tasks : task'[u].step \in {"route", "send"} => task'[u] = task[u]
    BY <2>2, <2>3
  <2>7. Parts'
    BY <1>0, <1>2, <1>4, <2>6, Calm
  <2> QED
    BY <1>3, <2>4, <2>5, <2>7, InvariantParts DEF IInv, Parts
<1> QED
  BY <1>5, <1>6, <1>7

LEMMA AcquireKeeps ==
  ASSUME IInv, NEW t \in Tasks, Acquire(t)
  PROVE  IInv'
<1>0. Typed /\ Locked /\ WaitSane /\ Parts
  BY InvariantParts
<1>1. /\ now \in Nat /\ job \in JobType /\ told \in Seq(MessageType) /\ disk = mem
      /\ task \in [Tasks -> TaskType] /\ mem \in MemType /\ Len(mem.forecasts) <= 1
  BY <1>0, TypedNow
<1>2. /\ job' = job /\ policy' = policy /\ told' = told /\ now' = now
      /\ lock = Nobody /\ lock' = t
  BY DEF Acquire
<1> DEFINE at == IF Doing(t, "lock") THEN task[t].at ELSE now
           b == [step |-> "next", at |-> at, todo |-> Order, left |-> <<>>, event |-> {},
                 routes |-> {}]
<1>3. at \in Nat
  BY <1>1 DEF Doing, TaskType, BusyType
<1>4. Order \in Agenda
  BY DEF Order, Agenda, Items, DueKinds
<1> HIDE DEF at
<1>5. b \in TaskType /\ b.step = "next"
  BY <1>3, <1>4 DEF TaskType, BusyType
<1>6. task' = [task EXCEPT ![t] = b]
  BY DEF Acquire, at
<1> HIDE DEF b
<1>7. task' \in [Tasks -> TaskType] /\ task'[t] = b /\ \A u \in Tasks \ {t} : task'[u] = task[u]
  BY <1>1, <1>5, <1>6
<1>8. \/ mem' = mem
      \/ policy.forecast = "off" /\ mem' = [mem EXCEPT !.forecasts = <<>>]
  BY DEF Acquire
<1>9. disk' = mem'
  BY <1>1 DEF Acquire
<1>10. /\ mem' \in MemType /\ Len(mem'.forecasts) <= 1 /\ mem'.history = mem.history
       /\ mem'.events = mem.events
  <2>1. CASE mem' = mem
    BY <2>1, <1>1
  <2>2. CASE mem' = [mem EXCEPT !.forecasts = <<>>]
    <3> DEFINE g == <<>>
    <3>1. g \in Seq(ForecastType) /\ Len(g) <= 1 /\ mem' = [mem EXCEPT !.forecasts = g]
      BY <2>2
    <3> HIDE DEF g
    <3> QED
      BY <3>1, <1>1 DEF MemType
  <2> QED
    BY <1>8, <2>1, <2>2
<1>11. Typed'
  BY <1>0, <1>1, <1>2, <1>7, <1>9, <1>10, TypedCore
<1>12. Locked'
  BY <1>0, <1>2, <1>5, <1>7, TaskAssumption DEF Locked, Busy
<1>13. WaitSane'
  BY <1>0, <1>2 DEF WaitSane
<1>14. \A u \in Tasks : task'[u].step \in {"route", "send"} => task'[u] = task[u]
  BY <1>5, <1>7
<1>15. Awaited' => Awaited /\ Forecast' = Forecast
  BY <1>2, <1>8 DEF Awaited, Forecast
<1>16. Awaited' => Awaited /\ Forecast'.last = Forecast.last /\ Forecast'.seq = Forecast.seq
  BY <1>15
<1>17. Parts'
  BY <1>0, <1>2, <1>10, <1>14, <1>16, Calm
<1> QED
  BY <1>11, <1>12, <1>13, <1>17, InvariantParts DEF IInv, Parts

LEMMA NextItemKeeps ==
  ASSUME IInv, NEW t \in Tasks, NextItem(t)
  PROVE  IInv'
<1>0. Typed /\ Locked /\ WaitSane /\ Parts
  BY InvariantParts
<1>1. /\ now \in Nat /\ job \in JobType /\ told \in Seq(MessageType) /\ disk = mem
      /\ task \in [Tasks -> TaskType] /\ mem \in MemType /\ Len(mem.forecasts) <= 1
  BY <1>0, TypedNow
<1>2. /\ job' = job /\ policy' = policy /\ told' = told /\ now' = now /\ task[t].step = "next"
  BY DEF NextItem, Doing
<1>3. WaitSane' /\ (Awaited' <=> Awaited)
  BY <1>0, <1>2 DEF WaitSane, Awaited
<1>4. Announces(t) \/ KeepsQuiet(t)
  BY <1>0, NextItemCases
<1>5. CASE Announces(t)
  <2>1. PICK e \in EventType, f \in Seq(ForecastType), todo \in Agenda, left \in Seq(Nat) :
          /\ Len(f) <= 1 /\ Regular(e) /\ Fresh(e, f)
          /\ Announce(t, e, f, todo, left)
    BY <1>5 DEF Announces
  <2>2. /\ mem' \in MemType /\ Len(mem'.forecasts) <= 1 /\ disk' = mem' /\ lock' = lock
        /\ task' \in [Tasks -> TaskType]
        /\ \A u \in Tasks \ {t} : task'[u] = task[u]
        /\ task'[t].step \in {"next", "route"}
    BY <1>0, <1>2, <2>1, AnnounceShape
  <2>3. Typed'
    BY <1>0, <1>1, <1>2, <2>2, TypedCore
  <2>4. Locked'
    BY <1>0, <1>2, <2>2 DEF Locked, Busy
  <2>5. Parts'
    BY <1>0, <1>2, <2>1, Telling
  <2> QED
    BY <1>3, <2>3, <2>4, <2>5, InvariantParts DEF IInv, Parts
<1>6. CASE KeepsQuiet(t)
  <2>1. PICK g \in Seq(ForecastType) :
          /\ Len(g) <= 1 /\ mem' = [mem EXCEPT !.forecasts = g] /\ disk' = mem' /\ Ends(t)
          /\ Awaited => Of(g).last = Forecast.last /\ Of(g).seq = Forecast.seq
    BY <1>6 DEF KeepsQuiet
  <2> DEFINE b == [step |-> "idle"]
  <2>2. task' = [task EXCEPT ![t] = b] /\ lock' = Nobody
    BY <2>1 DEF Ends
  <2>3. b \in TaskType /\ b.step = "idle"
    BY DEF TaskType
  <2> HIDE DEF b
  <2>4. task' \in [Tasks -> TaskType] /\ task'[t] = b /\ \A u \in Tasks \ {t} : task'[u] = task[u]
    BY <1>1, <2>2, <2>3
  <2>5. /\ mem' \in MemType /\ Len(mem'.forecasts) <= 1 /\ mem'.history = mem.history
        /\ mem'.events = mem.events /\ mem'.forecasts = g
    BY <1>1, <2>1 DEF MemType
  <2>6. Typed'
    BY <1>0, <1>1, <1>2, <2>1, <2>4, <2>5, TypedCore
  <2>7. Locked'
    BY <1>0, <1>2, <2>2, <2>3, <2>4, TaskAssumption DEF Locked, Busy
  <2>8. \A u \in Tasks : task'[u].step \in {"route", "send"} => task'[u] = task[u]
    BY <2>3, <2>4
  <2>9. Forecast' = Of(g)
    BY <2>5 DEF Forecast, Of
  <2>10. Awaited' => Awaited /\ Forecast'.last = Forecast.last /\ Forecast'.seq = Forecast.seq
    BY <1>3, <2>1, <2>9
  <2>11. Parts'
    BY <1>0, <1>2, <2>5, <2>8, <2>10, Calm
  <2> QED
    BY <1>3, <2>6, <2>7, <2>11, InvariantParts DEF IInv, Parts
<1> QED
  BY <1>4, <1>5, <1>6

LEMMA ClaimRouteKeeps ==
  ASSUME IInv, NEW t \in Tasks, ClaimRoute(t)
  PROVE  IInv'
<1>0. Typed /\ Locked /\ WaitSane /\ Parts
  BY InvariantParts
<1>1. /\ now \in Nat /\ job \in JobType /\ told \in Seq(MessageType) /\ disk = mem
      /\ task \in [Tasks -> TaskType] /\ mem \in MemType /\ Len(mem.forecasts) <= 1
  BY <1>0, TypedNow
<1>2. /\ job' = job /\ policy' = policy /\ told' = told /\ now' = now /\ lock' = lock
      /\ task[t].step = "route"
  BY DEF ClaimRoute, Doing
<1>3. /\ mem' \in MemType /\ disk' = mem' /\ mem'.forecasts = mem.forecasts
      /\ Advances(t) \/ task' = [task EXCEPT ![t].step = "send"]
  BY <1>0, ClaimShape DEF Parts
<1>4. /\ task' \in [Tasks -> TaskType] /\ task'[t].step \in {"next", "route", "send"}
      /\ \A u \in Tasks \ {t} : task'[u] = task[u]
  <2>1. CASE Advances(t)
    BY <2>1 DEF Advances
  <2>2. CASE task' = [task EXCEPT ![t].step = "send"]
    <3> DEFINE b == [task[t] EXCEPT !.step = "send"]
    <3>1. task[t] \in BusyType
      BY <1>0, <1>2, BusyFields DEF Busy
    <3>2. b \in BusyType /\ b.step = "send"
      BY <3>1 DEF BusyType
    <3>3. task' = [task EXCEPT ![t] = b]
      BY <2>2, <1>1
    <3> HIDE DEF b
    <3> QED
      BY <1>1, <3>2, <3>3 DEF TaskType
  <2> QED
    BY <1>3, <2>1, <2>2
<1>5. Typed'
  BY <1>0, <1>1, <1>2, <1>3, <1>4, TypedCore
<1>6. Locked' /\ WaitSane'
  BY <1>0, <1>2, <1>4 DEF Locked, Busy, WaitSane
<1>7. Parts'
  BY <1>0, Claiming
<1> QED
  BY <1>5, <1>6, <1>7, InvariantParts DEF IInv, Parts

LEMMA SendKeeps ==
  ASSUME IInv, NEW t \in Tasks, Send(t)
  PROVE  IInv'
<1>0. Typed /\ Locked /\ WaitSane /\ Parts
  BY InvariantParts
<1>1. /\ now \in Nat /\ job \in JobType /\ told \in Seq(MessageType) /\ disk = mem
      /\ task \in [Tasks -> TaskType] /\ mem \in MemType /\ Len(mem.forecasts) <= 1
  BY <1>0, TypedNow
<1>2. /\ job' = job /\ policy' = policy /\ now' = now /\ lock' = lock
      /\ task[t].step = "send"
  BY DEF Send, Doing
<1>3. PICK st \in {"sent", "failed"} :
        Advances(t) /\ mem' \in MemType /\ disk' = mem' /\ Settles(t, st)
  BY <1>0, SendShape DEF Parts
<1>4. /\ task' \in [Tasks -> TaskType] /\ task'[t].step \in {"next", "route"}
      /\ \A u \in Tasks \ {t} : task'[u] = task[u]
  BY <1>3 DEF Advances
<1>5. mem'.forecasts = mem.forecasts
  BY <1>3 DEF Settles
<1>6. told' \in Seq(MessageType)
  BY <1>1, <1>3 DEF Settles, Message
<1>7. Typed'
  BY <1>0, <1>1, <1>2, <1>3, <1>4, <1>5, <1>6, TypedCore
<1>8. Locked' /\ WaitSane'
  BY <1>0, <1>2, <1>4 DEF Locked, Busy, WaitSane
<1>9. Leaves(t)
  <2>1. \A u \in Tasks \ {t} : ~Busy(u)
    BY <1>0, <1>2, OnlyHolderBusy DEF Busy
  <2> QED
    BY <2>1, <1>3, <1>4 DEF Advances, Leaves, Busy
<1>10. Parts'
  BY <1>0, <1>2, <1>3, <1>9, Settling
<1> QED
  BY <1>7, <1>8, <1>10, InvariantParts DEF IInv, Parts

LEMMA CrashKeeps ==
  ASSUME IInv, Crash
  PROVE  IInv'
<1>0. Typed /\ Locked /\ WaitSane /\ Parts
  BY InvariantParts
<1>1. /\ now \in Nat /\ job \in JobType /\ told \in Seq(MessageType) /\ disk = mem
      /\ task \in [Tasks -> TaskType] /\ mem \in MemType /\ Len(mem.forecasts) <= 1
  BY <1>0, TypedNow
<1>2. /\ job' = job /\ policy' = policy /\ now' = now /\ lock' = Nobody /\ mem' = mem
      /\ disk' = mem' /\ task' = [t \in Tasks |-> [step |-> "idle"]]
  BY <1>1 DEF Crash
<1>3. task' \in [Tasks -> TaskType] /\ \A u \in Tasks : task'[u].step = "idle"
  BY <1>2 DEF TaskType
<1>4. Locked' /\ WaitSane'
  BY <1>0, <1>2, <1>3, TaskAssumption DEF Locked, Busy, WaitSane
<1>5. CASE told' = told
  <2>1. Typed'
    BY <1>0, <1>1, <1>2, <1>3, <1>5, TypedCore
  <2>2. Forecast' = Forecast /\ (Awaited' <=> Awaited)
    BY <1>2 DEF Forecast, Awaited
  <2>3. \A u \in Tasks : task'[u].step \in {"route", "send"} => task'[u] = task[u]
    BY <1>3
  <2>4. Parts'
    BY <1>0, <1>2, <1>5, <2>2, <2>3, Calm
  <2> QED
    BY <1>4, <2>1, <2>4, InvariantParts DEF IInv, Parts
<1>6. ASSUME NEW t \in Tasks, Doing(t, "send"),
             told' = Append(told, Sent(TheEvent(t), Routed(t), "push"))
      PROVE  IInv'
  <2>1. task[t].step = "send" /\ Serving(t)
    BY <1>6 DEF Doing, Serving
  <2> DEFINE m == Sent(TheEvent(t), Routed(t), "push")
  <2>2. Message(t, m) /\ told' = Append(told, m)
    BY <1>0, <1>6, <2>1, MessageSent DEF Parts
  <2> HIDE DEF m
  <2>3. told' \in Seq(MessageType)
    BY <1>1, <2>2 DEF Message
  <2>4. Typed'
    BY <1>0, <1>1, <1>2, <1>3, <2>3, TypedCore
  <2>5. Settled(mem.history, "pending")
    <3> DEFINE n == Len(mem.history)
               d == mem.history[n]
    <3>1. n > 0 /\ n \in 1..n /\ mem.history \in Seq(DeliveryType) /\ d.status = "pending"
      BY <1>0, <2>1, MemFields DEF Parts, Underway
    <3>2. d \in DeliveryType
      BY <3>1
    <3> HIDE DEF d
    <3>3. d = [d EXCEPT !.status = "pending"]
      BY <3>1, <3>2 DEF DeliveryType
    <3> QED
      BY <3>1, <3>3 DEF Settled, d
  <2>6. Settles(t, "pending")
    BY <1>2, <2>2, <2>5 DEF Settles
  <2>7. Leaves(t)
    BY <1>3 DEF Leaves
  <2>8. Parts'
    BY <1>0, <1>2, <2>1, <2>6, <2>7, Settling
  <2> QED
    BY <1>4, <2>4, <2>8, InvariantParts DEF IInv, Parts
<1> QED
  BY <1>5, <1>6 DEF Crash

LEMMA StepKeeps ==
  ASSUME IInv, [Next]_vars
  PROVE  IInv'
<1>1. ASSUME NEW t \in Tasks, Step(t) PROVE IInv'
  BY <1>1, QuietSteps, AcquireKeeps, NextItemKeeps, ClaimRouteKeeps, SendKeeps DEF Step
<1> QED
  BY <1>1, QuietSteps, JobStepsKeep, CrashKeeps DEF Next

\* The inductive invariant: the outbox accounts for every message that
\* arrived, in the order in which they arrived, through overlapping
\* reconciles, lost answers and restarts (notification_manager.py:1190).
THEOREM Invariant == Spec => []IInv
<1>1. Init => IInv
  BY InitInvariant
<1>2. IInv /\ [Next]_vars => IInv'
  BY StepKeeps
<1> QED
  BY <1>1, <1>2, PTL DEF Spec

\* One event is pushed to one endpoint once, whatever crashes, answers get
\* lost and reconciles overlap (notification_manager.py:1196).
THEOREM PushedAtMostOnce == Spec => []AtMostOnePush
<1>1. IInv => AtMostOnePush
  BY DEF IInv, ArrivesOnce, AtMostOnePush, Pushes
<1> QED
  BY <1>1, Invariant, PTL

\* Two forecasts of a start on one route are an interval apart, whatever
\* restarts there were and however stale a queued reconcile's clock is
\* (start_forecast.py).
THEOREM ForecastsKeepTheirDistance == Spec => []ForecastsSpaced
<1>1. ASSUME IInv PROVE ForecastsSpaced
  <2> SUFFICES ASSUME NEW i \in Pushes, NEW k \in Pushes,
                      i < k, told[i].route = told[k].route,
                      {told[i].event.kind, told[k].event.kind} = {"forecast"},
                      told[k].event.fkind # "started"
               PROVE  told[k].event.at >= told[i].event.at + Interval
    BY DEF ForecastsSpaced
  <2>1. /\ i \in DOMAIN told /\ k \in DOMAIN told
        /\ told[i].event.kind = "forecast" /\ told[k].event.kind = "forecast"
    BY DEF Pushes
  <2>2. told[k].event.id[2] # 0
    <3>1. Regular(told[k].event)
      BY <1>1, <2>1 DEF IInv, Archived, Spoken
    <3> QED
      BY <3>1, <2>1 DEF Regular
  <2>3. Apart(told[i].event, told[k].event)
    BY <1>1, <2>1, <2>2 DEF IInv, Spaced
  <2>4. told[i].event.id # told[k].event.id
    <3>1. PICK a \in DOMAIN mem.history : Matches(mem.history[a], told[i])
                                          /\ mem.history[a].endpoint = told[i].endpoint
      BY <1>1, <2>1 DEF IInv, Claimed
    <3>2. PICK b \in DOMAIN mem.history : Matches(mem.history[b], told[k])
                                          /\ mem.history[b].endpoint = told[k].endpoint
      BY <1>1, <2>1 DEF IInv, Claimed
    <3>3. told[i].event.id = told[k].event.id => a = b
      BY <1>1, <3>1, <3>2 DEF IInv, Keyed, Matches
    <3>4. told[i].event.id # told[k].event.id \/ told[i].endpoint # told[k].endpoint
      <4>1. i # k
        BY <1>1, <2>1, ToldTyped DEF IInv
      <4> QED
        BY <1>1, <2>1, <4>1 DEF IInv, ArrivesOnce
    <3> QED
      BY <3>1, <3>2, <3>3, <3>4
  <2>5. told[i].event.at \in Nat /\ told[k].event.at \in Nat /\ Interval \in Nat
    BY <1>1, <2>1, ToldTyped, NotificationAssumption DEF IInv, EventType
  <2> QED
    BY <2>3, <2>4, <2>5 DEF Apart
<1> QED
  BY <1>1, Invariant, PTL

\* Unless prewarnings are always sent, good news go only where the last
\* message that arrived was a problem (_forecast_route_suppression).
THEOREM RecoveryIsRelevant ==
  Spec => [](policy.prewarning # "always" => RecoveryFollowsProblem)
<1>1. ASSUME IInv, policy.prewarning # "always" PROVE RecoveryFollowsProblem
  <2> SUFFICES ASSUME NEW k \in DOMAIN told, told[k].event.fkind \in GoodNews
               PROVE  LET before == {i \in 1..k - 1 : told[i].route = told[k].route /\ Confirmed(told[i])}
                      IN before # {} /\ ~Unalarming(told[Max(before)].event)
    BY DEF RecoveryFollowsProblem
  <2>1. Before(told, mem.history, k)
        = {i \in 1..k - 1 : told[i].route = told[k].route /\ Confirmed(told[i])}
    BY DEF Before, Confirmed, Matches
  <2>2. /\ Before(told, mem.history, k) # {}
        /\ ~Unalarming(told[Max(Before(told, mem.history, k))].event)
    BY <1>1 DEF IInv, Recovery
  <2> QED
    BY <2>1, <2>2
<1>2. IInv => (policy.prewarning # "always" => RecoveryFollowsProblem)
  BY <1>1
<1> QED
  BY <1>2, Invariant, PTL
=============================================================================
