------------------------------ MODULE ArbiterPool ------------------------------
(***************************************************************************)
(* The candidates for the robot as they come and go from one scheduler     *)
(* cycle to the next, and what the arbiter's order promises about them.    *)
(***************************************************************************)
EXTENDS SchedulerArbiter

CONSTANT Offers  \* the candidates that may turn up

ASSUME OffersAssumption == Offers \subseteq Candidates /\ IsFiniteSet(Offers)

VARIABLE pool    \* the candidates of this cycle, at most one per job

PoolTypeOK == pool \subseteq Offers /\ \A c, d \in pool : c.id = d.id => c = d

PoolInit == pool = {}

\* A job passes pre-flight, or is offered under another class.
Arrives(c) == pool' = {d \in pool : d.id # c.id} \cup {c}

\* A job starts, ends or meets a blocker.
Leaves(c) == pool' = pool \ {c}

PoolNext == (\E c \in Offers : Arrives(c)) \/ (\E c \in pool : Leaves(c))

PoolSpec == PoolInit /\ [][PoolNext]_pool

-----------------------------------------------------------------------------
\* The rules of the arbiter's docstring, as a relation instead of a sort: c
\* may not win while d is a candidate.
YieldsTo(c, d) ==
  \/ ~IsManual(c) /\ IsManual(d)
  \/ IsManual(c) /\ IsManual(d) /\ Precedes(ManualKey(d), ManualKey(c))
  \/ /\ c \in Forced(pool) /\ d \in Forced(pool)
     /\ (Scheduled(pool) # {} /\ c.preempts) => d.preempts
     /\ \/ Precedes(ForcedKey(d), ForcedKey(c))
        \/ Scheduled(pool) # {} /\ d.preempts /\ ~c.preempts
  \/ c \in Forced(pool) /\ d \in Scheduled(pool) /\ ~c.preempts
  \/ c \in Scheduled(pool) /\ d \in Forced(pool) /\ d.preempts
  \/ c \in Scheduled(pool) /\ d \in Scheduled(pool) /\ Precedes(ScheduledKey(d), ScheduledKey(c))

\* Whatever is runnable, exactly one candidate is chosen and it yields to no
\* other: the sorted lists put together agree with the documented priorities.
WinnerYieldsToNobody ==
  pool # {} => Selected(pool, TRUE) = {c \in pool : \A d \in pool \ {c} : ~YieldsTo(c, d)}

\* The order shown to the user is the order of succession: whoever wins, the
\* rest of the list is what the arbiter makes of the remaining jobs, so that
\* the second in the list runs when the first has run, and nobody is lost.
OrderIsSuccession ==
  pool # {} => Tail(Ordered(pool)) = Ordered(pool \ {Head(Ordered(pool))})

\* A loser that goes away does not change the winner, unless it was the last
\* scheduled work: its presence alone is what admits preemption.
LosersDoNotDecide ==
  [][pool' \subseteq pool /\ (Scheduled(pool') = {} <=> Scheduled(pool) = {})
       => \A w \in Selected(pool, TRUE) \cap pool' : Selected(pool', TRUE) = {w}]_pool
==============================================================================
