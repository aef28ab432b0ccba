--------------------------- MODULE SchedulerArbiter ---------------------------
(***************************************************************************)
(* Which of the jobs that could start now gets the one robot: the order of *)
(* scheduler_arbiter.py, as pure operators over a set of candidates.       *)
(*                                                                         *)
(* A candidate is a record                                                 *)
(*   id         the job (a number: only its order matters)                 *)
(*   class      "manual", "scheduled" or "forced", as the engine tagged it *)
(*   origin     whether the job was created by hand                        *)
(*   triggered, released   instants of a manual trigger or of a manual     *)
(*              release of a scheduled job, Never when there was none      *)
(*   planned    the planned start                                          *)
(*   priority, preempts    of a forced (early) execution                   *)
(***************************************************************************)
EXTENDS Integers, FiniteSets, Sequences

Never == -1

Candidates ==
  [id : Nat, class : {"manual", "scheduled", "forced"}, origin : {"manual", "scheduled"},
   triggered : Nat \cup {Never}, released : Nat \cup {Never},
   planned : Nat, priority : Nat, preempts : BOOLEAN]

Precedes(s, t) ==
  \E i \in DOMAIN s : s[i] < t[i] /\ \A k \in 1..i - 1 : s[k] = t[k]

\* The members of S by ascending key: each stands after those that precede it.
SortedBy(S, Key(_)) ==
  LET before(c) == {d \in S : Precedes(Key(d), Key(c))}
  IN  [i \in 1..Cardinality(S) |-> CHOOSE c \in S : Cardinality(before(c)) = i - 1]

IsManual(c) ==
  c.class = "manual" \/ c.origin = "manual" \/ c.triggered # Never \/ c.released # Never

\* An instant of zero is an instant, so the first one that exists decides.
ManualSince(c) ==
  IF c.triggered # Never THEN c.triggered
  ELSE IF c.released # Never THEN c.released ELSE c.planned

ManualKey(c) == <<ManualSince(c), c.planned, c.id>>
ScheduledKey(c) == <<c.planned, c.id>>
ForcedKey(c) == <<-c.priority, c.planned, c.id>>

Manual(S) == {c \in S : IsManual(c)}
Forced(S) == {c \in S : ~IsManual(c) /\ c.class = "forced"}
Scheduled(S) == {c \in S : ~IsManual(c) /\ c.class # "forced"}

\* Mutant: preemption counts even when there is nothing to preempt.
PreemptiveFirst(forced, scheduled) ==
  LET after == {c \in forced : ~c.preempts}
  IN  SortedBy(forced \ after, ForcedKey) \o SortedBy(scheduled, ScheduledKey)
        \o SortedBy(after, ForcedKey)

\* Mutant: the early starts that yield are left out of the order.
YieldingDropped(forced, scheduled) ==
  LET after == {c \in forced : ~c.preempts /\ scheduled # {}}
  IN  SortedBy(forced \ after, ForcedKey) \o SortedBy(scheduled, ScheduledKey)

\* Beside due scheduled work an early start is admitted only if it preempts;
\* without any, all early starts compete by priority alone.
OrderedNonManual(forced, scheduled) ==
  LET after == {c \in forced : ~c.preempts /\ scheduled # {}}
  IN  SortedBy(forced \ after, ForcedKey) \o SortedBy(scheduled, ScheduledKey)
        \o SortedBy(after, ForcedKey)

Ordered(S) == SortedBy(Manual(S), ManualKey) \o OrderedNonManual(Forced(S), Scheduled(S))

\* select: the winner, as a set of at most one candidate.
Selected(S, leaseFree) ==
  IF leaseFree /\ S # {} THEN {Head(Ordered(S))} ELSE {}
==============================================================================
