-------------------------- MODULE CalendarPlanner --------------------------
(***************************************************************************)
(* The calendar of planner.py and schedule.py: which instants a schedule   *)
(* plans, in a zone whose clock jumps once, and the windows around them.   *)
(* Instants are UTC hours; a zone is the instant of its jump and its size  *)
(* (1: clocks go forward, -1: back, 0: never).  A rule has the times of    *)
(* its weekdays, extra dates and the time of a date that is no such        *)
(* weekday.  A planned start that may not exist is a set of at most one.   *)
(***************************************************************************)
EXTENDS Integers, FiniteSets, FiniteSetsExt, Sequences, TLC

CONSTANTS
  DayHours, Week, LastDate,   \* hours of a day, days of a week, last date scanned
  Window, Prewarning,         \* execution_window_minutes and prewarning_minutes, in hours
  Rules, Zones                \* the rules a user may give, the zones a home may be in

ASSUME CalendarAssumption ==
  /\ {DayHours, Week, Window} \subseteq Nat \ {0} /\ {LastDate, Prewarning} \subseteq Nat
  /\ \A z \in Zones : DOMAIN z = {"at", "jump"} /\ z.at \in Int /\ z.jump \in -1..1
  /\ \A r \in Rules :
       /\ DOMAIN r = {"times", "dates", "time"}
       /\ r.dates \subseteq Nat /\ r.time \in 0..DayHours - 1
       /\ DOMAIN r.times \subseteq 0..Week - 1
       /\ \A d \in DOMAIN r.times : r.times[d] \in 0..DayHours - 1

\* The wall clock of an instant, and its date.
Local(z, u) == u + (IF u >= z.at THEN z.jump ELSE 0)
DateOf(z, u) == Local(z, u) \div DayHours

\* The instants a wall clock reads: none in a gap, two when it goes back.
Readings(z, wall) == {u \in wall - 1..wall + 1 : Local(z, u) = wall}
Ambiguous(z, u) == Cardinality(Readings(z, Local(z, u))) = 2

\* Mutant: a time that does not exist is taken an hour too early.
ResolveEarly(z, date, time) ==
  LET wall == date * DayHours + time
  IN  Min(IF Readings(z, wall) # {} THEN Readings(z, wall) ELSE Readings(z, wall - z.jump))

\* The first of two, and a time that does not exist moves over the gap.
Resolve(z, date, time) ==
  LET wall == date * DayHours + time
  IN  Min(IF Readings(z, wall) # {} THEN Readings(z, wall) ELSE Readings(z, wall + z.jump))

Matches(r, date) == date \in r.dates \/ date % Week \in DOMAIN r.times
TimeOn(r, date) == IF date % Week \in DOMAIN r.times THEN r.times[date % Week] ELSE r.time
StartOn(z, r, date) == Resolve(z, date, TimeOn(r, date))

Reaches(x, t, inclusive) == x = t /\ inclusive

\* The first date at or after that of "after" whose start is not over.
NextStart(z, r, after, inclusive) ==
  LET later == {d \in DateOf(z, after)..LastDate :
                  /\ Matches(r, d)
                  /\ StartOn(z, r, d) > after \/ Reaches(StartOn(z, r, d), after, inclusive)}
  IN  IF later = {} THEN {} ELSE {StartOn(z, r, Min(later))}

PreviousStart(z, r, before, inclusive) ==
  LET earlier == {d \in 0..DateOf(z, before) :
                    /\ Matches(r, d)
                    /\ StartOn(z, r, d) < before \/ Reaches(StartOn(z, r, d), before, inclusive)}
  IN  IF earlier = {} THEN {} ELSE {StartOn(z, r, Max(earlier))}

\* The successor of every instant, tabled.
Successor ==
  [z \in Zones |-> [r \in Rules |-> [x \in 0..(LastDate + 1) * DayHours + 1 |-> NextStart(z, r, x, FALSE)]]]

\* Windows are elapsed time, cut at the next start.
WarningAt(x) == x - Prewarning
DeadlineAt(z, r, x) == Min({x + Window} \cup Successor[z][r][x])

\* The start whose window is open at "now", the nearest of the two.
CurrentStart(z, r, now) ==
  LET open == {x \in PreviousStart(z, r, now, TRUE) \cup NextStart(z, r, now, TRUE) :
                 WarningAt(x) <= now /\ now <= DeadlineAt(z, r, x)}
      away(x) == IF x < now THEN now - x ELSE x - now
  IN  {x \in open : \A y \in open : away(x) <= away(y)}

\* between: the starts of one rule in [from, to), one after the other.
Between(z, r, from, to) ==
  LET onward(date, starts) == IF starts = {} THEN {} ELSE starts \cup Successor[z][r][Max(starts)]
      walk == FoldSet(onward, NextStart(z, r, from, TRUE), 0..LastDate)
  IN  walk \cap from..to - 1

\* next_n: of the next start of every schedule the earliest is taken and
\* replaced by its successor.
NextN(z, ruleOf, after, count) ==
  LET earlier(p, q) == p[1] < q[1] \/ (p[1] = q[1] /\ p[2] <= q[2])
      first(heap) == CHOOSE p \in heap : \A q \in heap : earlier(p, q)
      successors(p) == {<<x, p[2]>> : x \in NextStart(z, ruleOf[p[2]], p[1], FALSE)}
      heap0 == UNION {{<<x, s>> : x \in NextStart(z, ruleOf[s], after, FALSE)} : s \in DOMAIN ruleOf}
      step[n \in 0..count] ==
        IF n = 0 THEN [heap |-> heap0, result |-> <<>>]
        ELSE LET b == step[n - 1]
             IN  IF b.heap = {} THEN b
                 ELSE [heap |-> (b.heap \ {first(b.heap)}) \cup successors(first(b.heap)),
                       result |-> Append(b.result, first(b.heap))]
  IN  step[count].result
=============================================================================
