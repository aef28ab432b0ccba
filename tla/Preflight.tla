----------------------------- MODULE Preflight -----------------------------
(***************************************************************************)
(* preflight.py and what it reads: how the live inputs of one occurrence   *)
(* become blockers, and blockers a verdict.  A blocker that waits leaves   *)
(* the occurrence its chance, a blocker that fails consumes it.  Also the  *)
(* conditions of an early run (force_conditions.py, force_protection.py).  *)
(* An instant is a number; -1 is no instant.                               *)
(***************************************************************************)
EXTENDS Integers, FiniteSetsExt

CONSTANTS
  DayLength,    \* instants of a day
  Sensors,      \* entities of busy sources, access paths and force conditions
  Conditions    \* ids of force conditions

ASSUME PreflightAssumption == DayLength \in Nat \ {0}

Never == -1
ZoneKinds == {"occupancy", "access"}
Kinds == ZoneKinds \cup Conditions
Resources == {"dock.clean_water", "dock.dirty_water", "dock.detergent", "mop.attached"}
Forecasts == {"forecast_clean_water_insufficient", "forecast_dirty_water_insufficient"}

Earliest(T) == IF T = {} THEN Never ELSE Min(T)

-----------------------------------------------------------------------------
\* Blockers

Block(code, decision) == [code |-> code, decision |-> decision, release |-> Never]
BlockUntil(code, decision, t) == [code |-> code, decision |-> decision, release |-> t]
If(condition, block) == IF condition THEN {block} ELSE {}

\* _aggregate_decision
Verdict(B) ==
  CASE \E b \in B : b.decision = "FAIL" -> "FAIL"
    [] B # {} /\ \A b \in B : b.decision = "WAIT" -> "WAIT"
    [] B = {} -> "PASS"

-----------------------------------------------------------------------------
\* Sensors of the zone and of the force conditions.  A sensor of busy sources
\* is good when it does not match, one of a path or a condition when it does.

OpenPaths(c, S) == {p \in c.paths : p # {} /\ \A s \in p : S[s].st = "good"}
Away(c, k, S) == {s \in c.conds[k].people : S[s].st = "good"}

Good(c, k, S) ==
  CASE k = "occupancy" -> \A s \in c.busy : S[s].st = "good"
    [] k = "access" -> c.paths = {} \/ OpenPaths(c, S) # {}
    [] OTHER -> Cardinality(Away(c, k, S)) >= c.conds[k].minimum

Delay(c, k) ==
  CASE k = "occupancy" -> IF c.busy = {} THEN 0 ELSE c.clear
    [] k = "access" -> IF c.paths = {} THEN 0 ELSE c.settle
    [] OTHER -> c.conds[k].dwell

\* How long a good input has been good, told from last_changed alone.
Seed(c, k, S) ==
  CASE k = "occupancy" -> Max({S[s].since : s \in c.busy})
    [] k = "access" -> Min({Max({S[s].since : s \in p}) : p \in OpenPaths(c, S)})
    [] OTHER -> Min({S[s].since : s \in {a \in Away(c, k, S) :
                       Cardinality({b \in Away(c, k, S) : S[b].since <= S[a].since})
                         >= c.conds[k].minimum}})

\* The test override of the zone's occupancy, where the snapshot allows it.
Occupied(c, S, o) ==
  CASE o = "none" -> IF \E s \in c.busy : S[s].st = "gone" THEN "unknown"
                     ELSE IF Good(c, "occupancy", S) THEN "free" ELSE "busy"
    [] OTHER -> o

IsGood(c, k, S, o) == IF k = "occupancy" THEN Occupied(c, S, o) = "free" ELSE Good(c, k, S)

\* Mutant: the hold timer of an input that went bad is kept.
StabilizeKept(c, k, S, o, held, now) ==
  CASE Delay(c, k) = 0 -> Never
    [] Delay(c, k) # 0 /\ ~IsGood(c, k, S, o) -> held
    [] OTHER -> IF held # Never THEN held
                ELSE IF k = "occupancy" /\ o # "none" THEN now ELSE Seed(c, k, S)

\* _stabilize_zone_input and _true_since: the hold starts where the sensors
\* say the good state began, and at the observation if it was overridden.
Stabilize(c, k, S, o, held, now) ==
  CASE Delay(c, k) = 0 \/ ~IsGood(c, k, S, o) -> Never
    [] OTHER -> IF held # Never THEN held
                ELSE IF k = "occupancy" /\ o # "none" THEN now ELSE Seed(c, k, S)

\* The instant at which the hold is over; "now" if nothing is held.
Until(c, k, held, now) == IF held = Never THEN now ELSE held + Delay(c, k)

ZoneBlocks(c, S, o, held, now) ==
  LET busy == Occupied(c, S, o)
      settled(k) == Until(c, k, held[k], now) <= now
      access == Good(c, "access", S)
  IN  If(busy = "unknown", Block("zone_state_unknown", "WAIT"))
      \cup If(busy = "busy" /\ ~c.accepted, Block("zone_busy", "WAIT"))
      \cup If(busy = "free" /\ ~settled("occupancy") /\ ~c.accepted,
              BlockUntil("zone_busy", "WAIT", Until(c, "occupancy", held["occupancy"], now)))
      \cup If(~access, Block("zone_access_blocked", "WAIT"))
      \cup If(access /\ ~settled("access"),
              BlockUntil("zone_access_blocked", "WAIT", Until(c, "access", held["access"], now)))

-----------------------------------------------------------------------------
\* The robot, its dock and the resources

GateClosed(c, gate, now) == gate = "disabled" \/ (gate = "until" /\ now < c.until)

\* The target of the zone and the water of the ledger are settings here: the
\* code reads both anew at each look, and nothing announces that they changed.
TargetBlocks(c) == If(~c.target, Block("invalid_target", "FAIL"))
WaterBlocks(c) ==
  {Block(f, "WAIT") : f \in {x \in Forecasts :
     c.left[x] # Never /\ c.water[x] # Never /\ c.left[x] < c.water[x]}}

DeviceBlocks(c, d) ==
  LET charging == IF d.charging THEN "WAIT" ELSE "FAIL"
      needed(r) == IF r = "mop.attached" THEN c.scope = "wet" ELSE c.scope # "dry"
      resource(r, state) == needed(r) /\ d.resource[r] = state
  IN  If(~d.bound, Block("invalid_configuration", "FAIL"))
      \cup If(d.mains = "unknown", Block("power_supply_unknown", "WAIT"))
      \cup If(d.mains = "lost", Block("power_supply_unavailable", "WAIT"))
      \cup If(d.vacuum = "unavailable", Block("vacuum_unavailable", "WAIT"))
      \cup If(d.vacuum = "error", Block("vacuum_error", "FAIL"))
      \cup If(d.vacuum \in {"cleaning", "paused", "returning", "unknown"}, Block("vacuum_busy", "WAIT"))
      \cup If(d.battery = Never, Block("battery_unavailable", "WAIT"))
      \cup If(d.battery # Never /\ d.battery < c.battery, Block("battery_insufficient", charging))
      \cup If(d.battery # Never /\ c.drain # Never /\ d.battery - c.drain < c.battery,
              Block("forecast_battery_insufficient", charging))
      \cup If(d.dock = "lost", Block("dock_unavailable", "WAIT"))
      \cup If(~d.dnd, Block("dnd_unavailable", "WAIT"))
      \cup TargetBlocks(c) \cup WaterBlocks(c)
      \cup {Block(r, "WAIT") : r \in {x \in Resources : resource(x, "gone") \/ resource(x, "used")}}
      \cup {Block(r, "FAIL") : r \in {x \in Resources : resource(x, "unmapped")}}

-----------------------------------------------------------------------------
\* Do-not-disturb and the time that is left

\* The times of a setting as they count: no do-not-disturb that cannot be read.
Timed(c, d) ==
  IF d.dnd THEN c
  ELSE [dnd |-> [on |-> FALSE, from |-> 0, to |-> 0],
        window |-> c.window, time |-> c.time, deadline |-> c.deadline]

OfDay(t) == t % DayLength
StartOfDay(t) == t - OfDay(t)
DndValid(c) == c.dnd.on /\ c.dnd.from # c.dnd.to

\* _dnd_window
InDnd(c, t) ==
  /\ DndValid(c)
  /\ IF c.dnd.from < c.dnd.to THEN c.dnd.from <= OfDay(t) /\ OfDay(t) < c.dnd.to
     ELSE OfDay(t) >= c.dnd.from \/ OfDay(t) < c.dnd.to

DndRelease(c, t) ==
  StartOfDay(t) + c.dnd.to
    + (IF c.dnd.from > c.dnd.to /\ OfDay(t) >= c.dnd.from THEN DayLength ELSE 0)

\* _next_dnd_window of an instant outside of it.
NextDnd(c, t) ==
  LET start == StartOfDay(t) + c.dnd.from + (IF c.dnd.from <= OfDay(t) THEN DayLength ELSE 0)
  IN  [from |-> start,
       to |-> StartOfDay(start) + c.dnd.to + (IF c.dnd.to <= c.dnd.from THEN DayLength ELSE 0)]

\* Mutant: only the deadline ends the allowed time.
CutoffDeadline(c, t) == [at |-> c.deadline, resume |-> Never]

\* The end of the allowed time and, if it is a do-not-disturb, when that ends.
Cutoff(c, t) ==
  IF DndValid(c) /\ ~InDnd(c, t) /\ NextDnd(c, t).from < c.deadline
  THEN [at |-> NextDnd(c, t).from, resume |-> NextDnd(c, t).to]
  ELSE [at |-> c.deadline, resume |-> Never]

\* Mutant: too little time before a do-not-disturb consumes the occurrence.
TooShortFails(c, code, need, t) ==
  If(Cutoff(c, t).at - t < need, Block(code, "FAIL"))

\* Too little time is worth waiting only if enough is left after the pause.
TooShort(c, code, need, t) ==
  LET cut == Cutoff(c, t)
      later == cut.resume # Never /\ cut.resume < c.deadline /\ c.deadline - cut.resume >= need
  IN  If(cut.at - t < need,
         IF later THEN BlockUntil(code, "WAIT", cut.resume) ELSE Block(code, "FAIL"))

DndBlocks(c, t) ==
  LET release == DndRelease(c, t)
  IN  If(c.dnd.on /\ ~DndValid(c), Block("invalid_configuration", "FAIL"))
      \cup If(InDnd(c, t), IF release < c.deadline THEN BlockUntil("dnd_active", "WAIT", release)
                           ELSE BlockUntil("dnd_window", "FAIL", release))

TimeBlocks(c, t) ==
  DndBlocks(c, t)
  \cup (IF c.window = 0 \/ InDnd(c, t) THEN {} ELSE TooShort(c, "insufficient_time_window", c.window, t))
  \cup (IF c.time = Never THEN {} ELSE TooShort(c, "forecast_time_insufficient", c.time, t))

\* When the minimum start window stops being met.
WindowEnds(c, t) ==
  IF c.window > 0 /\ ~InDnd(c, t) /\ Cutoff(c, t).at - t >= c.window
  THEN {Cutoff(c, t).at - c.window + 1} ELSE {}

-----------------------------------------------------------------------------
\* PreflightEngine.evaluate: blockers, verdict, and when to look again.

Blockers(c, gate, d, S, o, held, now) ==
  If(GateClosed(c, gate, now), Block("global_disabled", "FAIL"))
  \cup DeviceBlocks(c, d) \cup TimeBlocks(Timed(c, d), now)
  \cup (IF c.target THEN ZoneBlocks(c, S, o, held, now) ELSE {})

NextRecheck(c, d, gate, B, now) ==
  Earliest({t \in WindowEnds(Timed(c, d), now) \cup {b.release : b \in B}
                  \cup (IF gate = "until" THEN {c.until} ELSE {}) : t > now})

-----------------------------------------------------------------------------
\* Early run.  The window is open from max_advance before the planned start.

ForceOpens(c) == c.planned - c.advance
Matured(c, k, held, now) == held[k] # Never /\ Until(c, k, held[k], now) <= now
ConditionsMatched(c, held, now) ==
  \E g \in c.groups : g # {} /\ \A k \in g : Matured(c, k, held, now)

\* evaluate_force_plan_protection: an unknown duration is not in the way.
ProtectionAllows(c, now) ==
  c.preempts \/ c.next = Never \/ c.time = Never \/ c.next - now >= c.time

\* _force_next_transition_at
ForceTransitions(c, B, held, recheck, now) ==
  LET matched == ConditionsMatched(c, held, now)
      dwelling == {k \in UNION c.groups : held[k] # Never}
      safe == IF c.next = Never \/ c.preempts \/ Verdict(B) # "PASS" \/ ~ProtectionAllows(c, now) THEN {}
              ELSE {c.next - (IF c.time = Never THEN 0 ELSE c.time) + 1}
  IN  IF c.advance = 0 THEN {}
      ELSE IF now < ForceOpens(c) THEN {ForceOpens(c)}
      ELSE {t \in {c.planned} \cup {Until(c, k, held[k], now) : k \in dwelling}
                    \cup (IF matched THEN {recheck} \cup safe ELSE {}) : t > now}
=============================================================================
