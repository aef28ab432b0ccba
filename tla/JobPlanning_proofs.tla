-------------------------- MODULE JobPlanning_proofs --------------------------
(***************************************************************************)
(* A slot of a schedule is not run twice, for any number of schedules,     *)
(* edits, restarts, rebuilds, jumps of the test clock and changes of mode. *)
(*                                                                         *)
(* The argument is about one reconcile.  Whatever an operation left, it    *)
(* first takes away the unstarted jobs of a slot that has a started one    *)
(* (Settled), so the job that it then lets run is not one of those.  Only  *)
(* two unstarted jobs of one slot remain, of which a pause consumes one:   *)
(* in REAL mode a job waits only when it is due (so the pause consumes     *)
(* both), and in a dry run there is at most one of them (Sound).  A job    *)
(* that runs is followed alone through the same stages.                    *)
(***************************************************************************)
EXTENDS JobPlanning, FiniteSetTheorems, TLAPS

Fields == {"s", "rev", "start", "deadline", "mode", "gen", "rearm", "origin", "state", "result",
           "forced", "loaded", "regenerated"}

IsJob(j) ==
  /\ j = [f \in Fields |-> j[f]]
  /\ j.start \in Int /\ j.loaded \in BOOLEAN /\ j.mode \in Modes
  /\ ~Terminal(j) => j.result = "none"

\* Two jobs of one slot that the code can tell to be so.
Rivals(j, k) ==
  /\ j # k /\ Scheduled(j) /\ Scheduled(k) /\ j.s = k.s /\ j.start = k.start
  /\ j.mode = "REAL" /\ k.mode = "REAL" /\ j.rearm = 0 /\ k.rearm = 0
  /\ Ambiguous(zone, j.start) => ~j.loaded /\ ~k.loaded

\* No slot was decided and run.
OncePerSlot(J) == \A j, k \in J : Rivals(j, k) => ~(Decided(j) /\ Ran(k))

\* A slot that has a started job has no other.
Settled(J) ==
  \A j, k \in J : Rivals(j, k) /\ Unstarted(k) => Unstarted(j)

Same(j, k) == j.s = k.s /\ j.rev = k.rev /\ j.start = k.start
Waits(j) == Unstarted(j) /\ Scheduled(j) /\ j.mode = "REAL" /\ j.rearm = 0
Single(J) == \A j, k \in J : Waits(j) /\ Waits(k) /\ Same(j, k) => j = k

Punctual(w, J) == \A j \in J : j.state = "WAIT" => Due(w, j)

\* What an operation leaves to the reconcile of world w.
Sound(w, J) ==
  /\ \A j \in J : IsJob(j) /\ (j.mode = "REAL" => j.gen = 0)
  /\ OncePerSlot(J)
  /\ w.mode = "REAL" => Punctual(w, J)
  /\ w.mode = "DRY_RUN" => Single(J)

IsWorld(w) == w.now \in Int /\ w.mode \in Modes

IInv ==
  /\ real \in Nat /\ offset \in Nat /\ mode \in Modes
  /\ Sound(Today, jobs) /\ Settled(jobs)

-----------------------------------------------------------------------------
(* Jobs *)

\* Who a job is, apart from how far it got.
Identity(j, k) ==
  /\ k.s = j.s /\ k.rev = j.rev /\ k.start = j.start /\ k.mode = j.mode /\ k.gen = j.gen
  /\ k.rearm = j.rearm /\ k.origin = j.origin

LEMMA EndedFields ==
  ASSUME NEW j, IsJob(j), NEW result
  PROVE  LET k == Ended(j, result)
         IN  /\ IsJob(k) /\ Identity(j, k) /\ k.loaded = j.loaded /\ k.forced = j.forced
             /\ k.state = "FINISHED" /\ k.result = result /\ ~Unstarted(k) /\ ~Running(k)
<1>1. PICK n : n = [j EXCEPT !.state = "FINISHED"]
  OBVIOUS
<1>2. /\ IsJob(n) /\ Identity(j, n) /\ n.loaded = j.loaded /\ n.forced = j.forced /\ n.state = "FINISHED"
  BY <1>1 DEF IsJob, Fields, Identity, Terminal
<1>3. PICK k : k = [n EXCEPT !.result = result]
  OBVIOUS
<1>4. /\ IsJob(k) /\ Identity(j, k) /\ k.loaded = j.loaded /\ k.forced = j.forced /\ k.state = "FINISHED"
      /\ k.result = result
  BY <1>2, <1>3 DEF IsJob, Fields, Identity, Terminal
<1>5. Ended(j, result) = k
  BY <1>1, <1>3 DEF Ended
<1> QED
  BY <1>4, <1>5 DEF Unstarted, Running

LEMMA StateFields ==
  ASSUME NEW j, IsJob(j), ~Terminal(j), NEW state
  PROVE  LET k == [j EXCEPT !.state = state]
         IN  /\ IsJob(k) /\ Identity(j, k) /\ k.loaded = j.loaded /\ k.forced = j.forced
             /\ k.state = state /\ k.result = j.result
  BY DEF IsJob, Fields, Identity, Terminal

LEMMA LoadedFields ==
  ASSUME NEW j, IsJob(j)
  PROVE  LET k == [j EXCEPT !.loaded = TRUE]
         IN  /\ IsJob(k) /\ Identity(j, k) /\ k.loaded = TRUE /\ k.forced = j.forced
             /\ k.state = j.state /\ k.result = j.result
  BY DEF IsJob, Fields, Identity, Terminal

LEMMA ForcedFields ==
  ASSUME NEW j, IsJob(j)
  PROVE  LET k == [j EXCEPT !.forced = TRUE]
         IN  /\ IsJob(k) /\ Identity(j, k) /\ k.loaded = j.loaded /\ k.forced = TRUE
             /\ k.state = j.state /\ k.result = j.result
  BY DEF IsJob, Fields, Identity, Terminal

\* Of two sets of jobs the second has nothing decided that the first had not.
LEMMA OnceCarried ==
  ASSUME NEW J, OncePerSlot(J), NEW K,
         \A k, l \in K : Rivals(k, l) /\ Decided(k) /\ Ran(l) =>
           \E i, j \in J : Rivals(i, j) /\ Decided(i) /\ Ran(j)
  PROVE  OncePerSlot(K)
  BY DEF OncePerSlot

-----------------------------------------------------------------------------
(* The least of a set *)

LEMMA LeastInteger ==
  ASSUME NEW a \in Int, NEW b \in Int, NEW T, T \subseteq a..b, T # {}
  PROVE  Min(T) \in T
<1> DEFINE R == StrictSubsetOrdering(Int)
           I == {a..n : n \in T}
<1>1. \A n \in T : n \in Int /\ a..n \subseteq Int /\ IsFiniteSet(a..n)
  BY FS_Interval
<1>2. I \subseteq FiniteSubsetsOf(Int) /\ I # {}
  BY <1>1 DEF FiniteSubsetsOf
<1>3. IsWellFoundedOn(R, FiniteSubsetsOf(Int))
  BY FS_StrictSubsetOrderingWellFounded
<1> HIDE DEF R, I
<1>4. PICK X \in I : \A Y \in I : <<Y, X>> \notin R
  BY <1>2, <1>3, WFMin
<1>5. PICK n \in T : X = a..n
  BY <1>4 DEF I
<1>6. \A m \in T : n <= m
  <2> SUFFICES ASSUME NEW m \in T, m < n PROVE FALSE
    BY <1>1
  <2>1. a..m \subseteq a..n /\ a..m # a..n /\ a..m \in I
    <3>1. m \in Int /\ n \in Int /\ a <= m /\ a <= n
      OBVIOUS
    <3>2. n \in a..n /\ n \notin a..m
      BY <3>1
    <3> QED
      BY <3>1, <3>2 DEF I
  <2>2. <<a..m, a..n>> \in R
    BY <2>1, <1>1 DEF R, StrictSubsetOrdering
  <2> QED
    BY <1>4, <1>5, <2>1, <2>2
<1> QED
  BY <1>6 DEF Min

-----------------------------------------------------------------------------
(* Jobs that come and go without a say about slots *)

\* A job that was not decided, and whose wait nobody has to justify.
Inert(w, k) ==
  /\ IsJob(k) /\ (k.mode = "REAL" => k.gen = 0)
  /\ ~Decided(k) /\ ~Ran(k) /\ k.state # "WAIT"
  /\ w.mode = "DRY_RUN" => ~Waits(k)

LEMMA InertSound ==
  ASSUME NEW w, NEW J, Sound(w, J), NEW K, \A k \in K : k \in J \/ Inert(w, k)
  PROVE  Sound(w, K)
<1>1. \A j \in K : IsJob(j) /\ (j.mode = "REAL" => j.gen = 0)
  BY DEF Sound, Inert
<1>2. OncePerSlot(K)
  BY DEF Sound, Inert, OncePerSlot
<1>3. ASSUME w.mode = "REAL" PROVE Punctual(w, K)
  BY <1>3 DEF Sound, Inert, Punctual
<1>4. ASSUME w.mode = "DRY_RUN" PROVE Single(K)
  BY <1>4 DEF Sound, Inert, Single
<1> QED
  BY <1>1, <1>2, <1>3, <1>4 DEF Sound

\* Time goes on, or it is a dry run's.
LEMMA LaterSound ==
  ASSUME NEW v, NEW w, NEW J, Sound(v, J), v.now \in Int, w.now \in Int, v.mode = w.mode,
         w.mode = "REAL" => v.now <= w.now
  PROVE  Sound(w, J)
<1>1. ASSUME w.mode = "REAL" PROVE Punctual(w, J)
  <2>1. Punctual(v, J) /\ \A j \in J : j.start \in Int
    BY <1>1 DEF Sound, IsJob
  <2> QED
    BY <1>1, <2>1 DEF Punctual, Due
<1> QED
  BY <1>1 DEF Sound

\* Jobs under way or over owe nothing to the world.
LEMMA StartedSound ==
  ASSUME NEW v, NEW w, NEW J, Sound(v, J), NEW K, K \subseteq J, \A k \in K : ~Unstarted(k)
  PROVE  Sound(w, K)
<1>1. OncePerSlot(K)
  BY DEF Sound, OncePerSlot
<1>2. Punctual(w, K)
  BY DEF Punctual, Unstarted
<1>3. Single(K)
  BY DEF Single, Waits
<1> QED
  BY <1>1, <1>2, <1>3 DEF Sound

\* A job whose slot and copy stay what they were, and that gets no say.
LEMMA EndedInert ==
  ASSUME NEW w, NEW j, IsJob(j), j.mode = "REAL" => j.gen = 0,
         NEW result \in {"FAILED", "MISSED"}
  PROVE  Inert(w, Ended(j, result))
<1>1. PICK k : k = Ended(j, result)
  OBVIOUS
<1>2. /\ IsJob(k) /\ k.mode = j.mode /\ k.gen = j.gen /\ k.state = "FINISHED" /\ k.result = result
  BY <1>1, EndedFields DEF Identity
<1> QED
  BY <1>1, <1>2 DEF Inert, Decided, Ran, Running, Waits, Unstarted

-----------------------------------------------------------------------------
(* The parts of a reconcile *)

LEMMA DematerializedSound ==
  ASSUME NEW w, NEW J, Sound(w, J)
  PROVE  /\ Sound(w, Dematerialized(w, J))
         /\ \A j \in Dematerialized(w, J) : Unstarted(j) /\ Scheduled(j) => Current(w, j)
<1> DEFINE D == Dematerialized(w, J)
           Stale(j) == Unstarted(j) /\ Scheduled(j) /\ ~Current(w, j)
<1>1. ASSUME NEW d \in D
      PROVE  (d \in J /\ ~Stale(d)) \/ \E j \in J : d = Ended(j, "FAILED")
  BY DEF Dematerialized
<1>2. \A j \in J : Inert(w, Ended(j, "FAILED")) /\ ~Unstarted(Ended(j, "FAILED"))
  <2> SUFFICES ASSUME NEW j \in J
               PROVE  Inert(w, Ended(j, "FAILED")) /\ ~Unstarted(Ended(j, "FAILED"))
    OBVIOUS
  <2>1. IsJob(j) /\ (j.mode = "REAL" => j.gen = 0)
    BY DEF Sound
  <2> QED
    BY <2>1, EndedInert, EndedFields
<1> HIDE DEF D
<1>3. \A d \in D : d \in J \/ Inert(w, d)
  BY <1>1, <1>2
<1>4. Sound(w, D)
  BY <1>3, InertSound
<1>5. \A j \in D : Unstarted(j) /\ Scheduled(j) => Current(w, j)
  BY <1>1, <1>2
<1> QED
  BY <1>4, <1>5 DEF D

LEMMA ShadowedSound ==
  ASSUME NEW w, NEW J, Sound(w, J)
  PROVE  /\ Shadowed(w, J) \subseteq J
         /\ Sound(w, Shadowed(w, J)) /\ Settled(Shadowed(w, J))
<1> DEFINE S == Shadowed(w, J)
<1>1. S \subseteq J
  BY DEF Shadowed
<1>2. Sound(w, S)
  BY <1>1, InertSound
<1>3. ASSUME NEW j \in S, NEW k \in S, Rivals(j, k), Unstarted(k), ~Unstarted(j)
      PROVE  FALSE
  <2>1. /\ j \in J /\ k \in J /\ j # k /\ Scheduled(j) /\ Scheduled(k) /\ j.s = k.s
        /\ j.start = k.start /\ j.mode = k.mode /\ k.rearm = 0
        /\ j.gen = 0 /\ k.gen = 0
    BY <1>1, <1>3 DEF Rivals, Sound
  <2>2. j.loaded = k.loaded \/ ~Ambiguous(zone, k.start)
    <3>1. j.loaded \in BOOLEAN /\ k.loaded \in BOOLEAN
      BY <2>1 DEF Sound, IsJob
    <3> QED
      BY <1>3, <2>1, <3>1 DEF Rivals
  <2>3. j \in BySlot(J, k.s, k.start, k.loaded, k.mode, k.gen)
    BY <2>1, <2>2 DEF BySlot, SameStart, InNamespace
  <2> QED
    BY <1>3, <2>1, <2>3 DEF Shadowed
<1> QED
  BY <1>1, <1>2, <1>3 DEF Settled

LEMMA BetweenType ==
  ASSUME NEW z, NEW r, NEW from \in Int, NEW to \in Int
  PROVE  Between(z, r, from, to) \subseteq Int
<1>1. Between(z, r, from, to) \subseteq from..to - 1
  BY Zenon DEF Between
<1>2. from..to - 1 \subseteq Int
  OBVIOUS
<1> QED
  BY <1>1, <1>2, Zenon

\* The least of the instants a rule plans and nobody has.
LEMMA LeastSlot ==
  ASSUME NEW z, NEW r, NEW now \in Int, NEW free, free \subseteq Between(z, r, now, End), free # {}
  PROVE  Min(free) \in Int /\ Min(free) \in free
<1>1. End \in Int /\ End - 1 \in Int
  BY CalendarAssumption DEF End
<1>2. free \subseteq now..End - 1
  <2> HIDE DEF End
  <2> QED
    BY DEF Between
<1> HIDE DEF End
<1>3. Min(free) \in free
  BY <1>1, <1>2, LeastInteger
<1>4. \A x \in free : x \in Int
  BY <1>2
<1> QED
  BY <1>3, <1>4, Zenon

LEMMA NextFreeType ==
  ASSUME NEW w, w.now \in Int, NEW J, NEW s, NEW x \in NextFree(w, J, s)
  PROVE  x \in Int /\ Owners(w, J, s, x) = {}
<1> DEFINE walk == Between(zone, w.schedules[s].rule, w.now, End)
           free == {y \in walk : Owners(w, J, s, y) = {}}
<1>1. free # {} /\ x = Min(free)
  BY DEF NextFree
<1>2. x \in Int /\ x \in free
  BY <1>1, LeastSlot
<1> QED
  BY <1>2

LEMMA NewInert ==
  ASSUME NEW w, w.mode \in Modes, NEW s, NEW x \in Int, NEW rearm
  PROVE  Inert(w, NewJob(w, s, x, w.mode, Generation(w, w.mode), rearm))
<1>0. PICK m, g : m = w.mode /\ g = Generation(w, w.mode) /\ m \in Modes
  OBVIOUS
<1>1. PICK k : k = NewJob(w, s, x, m, g, rearm)
  OBVIOUS
<1>2. /\ IsJob(k) /\ k.mode = w.mode /\ k.gen = Generation(w, w.mode) /\ k.state = "PLANNED"
      /\ k.result = "none"
  <2>1. IsJob(k) /\ k.mode = m /\ k.gen = g /\ k.state = "PLANNED" /\ k.result = "none"
    BY <1>0, <1>1 DEF NewJob, IsJob, Fields, Terminal
  <2> QED
    BY <1>0, <2>1
<1>3. k.mode = "REAL" => k.gen = 0
  BY <1>2 DEF Generation
<1> QED
  BY <1>0, <1>1, <1>2, <1>3 DEF Inert, Decided, Ran, Running, Waits

LEMMA MaterializedSound ==
  ASSUME NEW w, w.now \in Int, w.mode \in Modes, NEW J, Sound(w, J), Settled(J)
  PROVE  LET M == Materialized(w, J)
         IN  /\ Sound(w, M) /\ Settled(M)
             /\ J \subseteq M
             /\ \A j \in M \ J : Current(w, j) /\ Unstarted(j)
<1> DEFINE M == Materialized(w, J)
           Made(s, x) == NewJob(w, s, x, w.mode, Generation(w, w.mode), 0)
           enabled == {s \in DOMAIN w.schedules : w.schedules[s].enabled}
<1>1. J \subseteq M
  BY DEF Materialized
<1>2. ASSUME NEW k \in M, k \notin J
      PROVE  \E s \in enabled : \E x \in NextFree(w, J, s) : k = Made(s, x)
  BY <1>2 DEF Materialized
<1>3. ASSUME NEW k \in M, k \notin J
      PROVE  /\ Inert(w, k) /\ Unstarted(k) /\ Current(w, k)
             /\ \A j \in J : Rivals(j, k) => Unstarted(j)
  <2>0. PICK s \in enabled : \E x \in NextFree(w, J, s) : k = Made(s, x)
    BY <1>2, <1>3
  <2>1. PICK x \in NextFree(w, J, s) : k = Made(s, x)
    BY <2>0
  <2>2. x \in Int /\ Owners(w, J, s, x) = {}
    BY NextFreeType
  <2>3. Inert(w, k)
    BY <2>1, <2>2, NewInert
  <2>4. /\ k.s = s /\ k.rev = w.schedules[s].rev /\ k.start = x /\ k.mode = w.mode
        /\ Unstarted(k) /\ k.loaded = FALSE
    <3>1. PICK m, g : m = w.mode /\ g = Generation(w, w.mode) /\ m \in Modes
      OBVIOUS
    <3>2. k = NewJob(w, s, x, m, g, 0)
      BY <2>1, <3>1
    <3>3. /\ k.s = s /\ k.rev = w.schedules[s].rev /\ k.start = x /\ k.mode = m
          /\ Unstarted(k) /\ k.loaded = FALSE
      BY <3>2 DEF NewJob, Unstarted
    <3> QED
      BY <3>1, <3>3
  <2>5. Current(w, k)
    BY <2>4 DEF Current
  <2>6. ASSUME NEW j \in J, Rivals(j, k) PROVE FALSE
    <3>1. /\ j.s = s /\ Scheduled(j) /\ j.start = x /\ j.mode = "REAL" /\ w.mode = "REAL"
          /\ Ambiguous(zone, j.start) => ~j.loaded
      BY <2>4, <2>6 DEF Rivals
    <3>2. j.loaded \in BOOLEAN /\ j.gen = 0
      BY <3>1 DEF Sound, IsJob
    <3>3. Generation(w, w.mode) = 0
      BY <3>1 DEF Generation
    <3>4. SameStart(j, x, FALSE)
      BY <3>1, <3>2 DEF SameStart
    <3>5. j \in BySlot(J, s, x, FALSE, w.mode, Generation(w, w.mode))
      BY <3>1, <3>2, <3>3, <3>4 DEF BySlot, InNamespace
    <3> QED
      BY <2>2, <3>5 DEF Owners
  <2> QED
    BY <2>3, <2>4, <2>5, <2>6
<1> HIDE DEF M
<1>4. Sound(w, M)
  BY <1>3, InertSound
<1>5. Settled(M)
  <2> SUFFICES ASSUME NEW j \in M, NEW k \in M, Rivals(j, k), Unstarted(k)
               PROVE  Unstarted(j)
    BY DEF Settled
  <2>1. CASE j \in J /\ k \in J
    BY <2>1 DEF Settled
  <2>2. CASE j \notin J
    BY <1>3, <2>2
  <2>3. CASE j \in J /\ k \notin J
    BY <1>3, <2>3
  <2> QED
    BY <2>1, <2>2, <2>3
<1> QED
  BY <1>1, <1>3, <1>4, <1>5 DEF M

LEMMA PreparedFields ==
  ASSUME NEW w, NEW j, IsJob(j)
  PROVE  LET p == Prepared(w, j)
         IN  /\ IsJob(p) /\ Identity(j, p) /\ p.loaded = j.loaded /\ p.forced = j.forced
             /\ ~Unstarted(j) => p = j
             /\ Unstarted(j) => ~Ran(p) /\ (Decided(p) => Suppressed(w, j))
             /\ Unstarted(p) => Unstarted(j) /\ ~Suppressed(w, j)
             /\ p.state = "WAIT" => Due(w, j) \/ j.state = "WAIT"
<1> DEFINE p == Prepared(w, j)
<1>1. CASE ~Unstarted(j)
  <2>1. p = j
    BY <1>1 DEF Prepared
  <2> QED
    BY <1>1, <2>1 DEF Identity, Unstarted
<1>2. ASSUME Unstarted(j), NEW result \in {"SUPPRESSED", "FAILED"}, p = Ended(j, result),
             result = "SUPPRESSED" => Suppressed(w, j)
      PROVE  /\ IsJob(p) /\ Identity(j, p) /\ p.loaded = j.loaded /\ p.forced = j.forced
             /\ ~Ran(p) /\ (Decided(p) => Suppressed(w, j)) /\ ~Unstarted(p) /\ p.state # "WAIT"
  <2> HIDE DEF p
  <2>1. /\ IsJob(p) /\ Identity(j, p) /\ p.loaded = j.loaded /\ p.forced = j.forced
        /\ p.state = "FINISHED" /\ p.result = result /\ ~Unstarted(p) /\ ~Running(p)
    BY <1>2, EndedFields
  <2> QED
    BY <1>2, <2>1 DEF Ran, Decided
<1>3. CASE Unstarted(j) /\ Suppressed(w, j)
  <2>1. p = Ended(j, "SUPPRESSED")
    BY <1>3 DEF Prepared
  <2> QED
    BY <1>2, <1>3, <2>1
<1>4. CASE Unstarted(j) /\ ~Suppressed(w, j) /\ w.now >= j.deadline
  <2>1. p = Ended(j, "FAILED")
    BY <1>4 DEF Prepared
  <2> QED
    BY <1>2, <1>4, <2>1
<1>5. CASE Unstarted(j) /\ ~Suppressed(w, j) /\ ~(w.now >= j.deadline)
  <2>0. j.result = "none" /\ ~Terminal(j)
    BY <1>5 DEF IsJob, Unstarted, Terminal
  <2>1. CASE Due(w, j)
    <3>1. p = [j EXCEPT !.state = "WAIT"]
      BY <1>5, <2>1 DEF Prepared
    <3> HIDE DEF p
    <3>2. /\ IsJob(p) /\ Identity(j, p) /\ p.loaded = j.loaded /\ p.forced = j.forced
          /\ p.state = "WAIT" /\ p.result = "none"
      BY <2>0, <3>1, StateFields
    <3> QED
      BY <1>5, <2>1, <3>2 DEF p, Ran, Running, Decided
  <2>2. CASE ~Due(w, j)
    <3>1. p = j
      BY <1>5, <2>2 DEF Prepared
    <3> QED
      BY <1>5, <2>0, <3>1 DEF Identity, Ran, Running, Decided, Unstarted
  <2> QED
    BY <2>1, <2>2
<1> QED
  BY <1>1, <1>3, <1>4, <1>5

LEMMA PreparedSound ==
  ASSUME NEW w, w.mode \in Modes, NEW M, Sound(w, M), Settled(M),
         \A j \in M : Unstarted(j) /\ Scheduled(j) => Current(w, j),
         NEW P, \A p \in P : \E m \in M : p = Prepared(w, m)
  PROVE  /\ Sound(w, P)
         /\ \A i, j \in P : Rivals(i, j) /\ j.state = "WAIT" => ~Decided(i)
<1>1. PICK from \in [P -> M] : \A p \in P : p = Prepared(w, from[p])
  <2> DEFINE f == [p \in P |-> CHOOSE m \in M : p = Prepared(w, m)]
  <2>1. f \in [P -> M] /\ \A p \in P : p = Prepared(w, f[p])
    OBVIOUS
  <2> QED
    BY <2>1
<1>2. ASSUME NEW p \in P
      PROVE  /\ from[p] \in M /\ IsJob(from[p]) /\ (from[p].mode = "REAL" => from[p].gen = 0)
             /\ IsJob(p) /\ Identity(from[p], p) /\ p.loaded = from[p].loaded /\ p.forced = from[p].forced
             /\ ~Unstarted(from[p]) => p = from[p]
             /\ Unstarted(from[p]) => ~Ran(p) /\ (Decided(p) => Suppressed(w, from[p]))
             /\ Unstarted(p) => Unstarted(from[p]) /\ ~Suppressed(w, from[p])
             /\ p.state = "WAIT" => Due(w, from[p]) \/ from[p].state = "WAIT"
  <2>1. from[p] \in M /\ p = Prepared(w, from[p])
    BY <1>1
  <2>2. PICK m : m = from[p]
    OBVIOUS
  <2>3. IsJob(m) /\ (m.mode = "REAL" => m.gen = 0)
    BY <2>1, <2>2 DEF Sound
  <2>4. p = Prepared(w, m)
    BY <2>1, <2>2
  <2> QED
    BY <2>1, <2>2, <2>3, <2>4, PreparedFields
<1>3. ASSUME NEW i \in P, NEW j \in P, i # j PROVE from[i] # from[j]
  BY <1>1, <1>3
<1>4. ASSUME NEW i \in P, NEW j \in P, Rivals(i, j) PROVE Rivals(from[i], from[j])
  <2>1. /\ Identity(from[i], i) /\ i.loaded = from[i].loaded
        /\ Identity(from[j], j) /\ j.loaded = from[j].loaded
    BY <1>2
  <2>2. from[i] # from[j]
    BY <1>3, <1>4 DEF Rivals
  <2> QED
    BY <1>4, <2>1, <2>2 DEF Rivals, Identity, Scheduled
<1>5. OncePerSlot(P)
  <2> SUFFICES ASSUME NEW i \in P, NEW j \in P, Rivals(i, j), Decided(i), Ran(j) PROVE FALSE
    BY DEF OncePerSlot
  <2>1. Rivals(from[i], from[j]) /\ from[i] \in M /\ from[j] \in M
    BY <1>2, <1>4
  <2>2. ~Unstarted(from[j]) /\ j = from[j]
    BY <1>2
  <2>3. CASE Unstarted(from[i])
    <3>1. Rivals(from[j], from[i])
      BY <2>1 DEF Rivals
    <3> QED
      BY <2>1, <2>2, <2>3, <3>1 DEF Settled
  <2>4. CASE ~Unstarted(from[i])
    <3>1. i = from[i]
      BY <1>2, <2>4
    <3> QED
      BY <2>1, <2>2, <3>1 DEF Sound, OncePerSlot
  <2> QED
    BY <2>3, <2>4
<1>6. ASSUME w.mode = "REAL" PROVE Punctual(w, P)
  <2> SUFFICES ASSUME NEW p \in P, p.state = "WAIT" PROVE Due(w, p)
    BY DEF Punctual
  <2>1. Due(w, from[p])
    BY <1>2, <1>6 DEF Sound, Punctual
  <2>2. p.forced = from[p].forced /\ p.start = from[p].start
    BY <1>2 DEF Identity
  <2> QED
    BY <2>1, <2>2 DEF Due
<1>7. ASSUME NEW i \in P, NEW j \in P, Waits(i), Waits(j), Same(i, j), w.mode = "DRY_RUN"
      PROVE  i = j
  <2>1. /\ Identity(from[i], i) /\ Identity(from[j], j) /\ Unstarted(from[i]) /\ Unstarted(from[j])
        /\ from[i] \in M /\ from[j] \in M
    BY <1>2, <1>7 DEF Waits
  <2>2. Waits(from[i]) /\ Waits(from[j]) /\ Same(from[i], from[j])
    BY <1>7, <2>1 DEF Waits, Same, Identity, Scheduled
  <2>3. from[i] = from[j]
    BY <1>7, <2>1, <2>2 DEF Sound, Single
  <2> QED
    BY <1>3, <2>3
<1>8. ASSUME NEW i \in P, NEW j \in P, Rivals(i, j), j.state = "WAIT", Decided(i)
      PROVE  FALSE
  <2>1. /\ Rivals(from[i], from[j]) /\ from[i] \in M /\ from[j] \in M
        /\ Identity(from[i], i) /\ Identity(from[j], j)
    BY <1>2, <1>4, <1>8
  <2>2. Unstarted(j)
    BY <1>8 DEF Unstarted
  <2>3. Unstarted(from[j]) /\ ~Suppressed(w, from[j])
    BY <1>2, <2>2
  <2>4. Unstarted(from[i])
    BY <2>1, <2>3 DEF Settled
  <2>5. Suppressed(w, from[i])
    BY <1>2, <1>8, <2>4
  <2>6. CASE w.mode = "REAL"
    <3>1. Due(w, from[j])
      BY <1>2, <1>8, <2>6 DEF Sound, Punctual
    <3>2. from[i].s = from[j].s /\ Scheduled(from[j])
      BY <2>1 DEF Rivals
    <3> QED
      BY <2>3, <2>5, <3>1, <3>2 DEF Suppressed
  <2>7. CASE w.mode = "DRY_RUN"
    <3>1. /\ Waits(from[i]) /\ Waits(from[j]) /\ from[i].s = from[j].s /\ from[i].start = from[j].start
          /\ Scheduled(from[i]) /\ Scheduled(from[j]) /\ from[i] # from[j]
      BY <2>1, <2>3, <2>4 DEF Waits, Rivals
    <3>2. from[i].rev = from[j].rev
      BY <2>1, <2>3, <2>4, <3>1 DEF Current
    <3> QED
      BY <2>1, <2>7, <3>1, <3>2 DEF Sound, Single, Same
  <2> QED
    BY <2>6, <2>7 DEF Modes
<1>9. \A j \in P : IsJob(j) /\ (j.mode = "REAL" => j.gen = 0)
  BY <1>2 DEF Identity
<1>10. w.mode = "DRY_RUN" => Single(P)
  BY <1>7 DEF Single
<1>11. Sound(w, P)
  BY <1>5, <1>6, <1>9, <1>10 DEF Sound
<1> QED
  BY <1>8, <1>11

\* A waiting job gets the robot.
LEMMA ArbitratedSound ==
  ASSUME NEW w, NEW P, Sound(w, P),
         \A i, j \in P : Rivals(i, j) /\ j.state = "WAIT" => ~Decided(i),
         NEW K \in Arbitrated(P)
  PROVE  Sound(w, K)
<1>1. CASE K = P
  BY <1>1
<1>2. ASSUME NEW j \in P, j.state = "WAIT", K = (P \ {j}) \cup {[j EXCEPT !.state = "RUNNING"]}
      PROVE  Sound(w, K)
  <2>1. PICK r : r = [j EXCEPT !.state = "RUNNING"]
    OBVIOUS
  <2>2. IsJob(j) /\ (j.mode = "REAL" => j.gen = 0) /\ ~Terminal(j)
    BY <1>2 DEF Sound, Terminal
  <2>3. /\ IsJob(r) /\ Identity(j, r) /\ r.loaded = j.loaded /\ r.state = "RUNNING"
    BY <2>1, <2>2, StateFields
  <2>4. K = (P \ {j}) \cup {r}
    BY <1>2, <2>1
  <2>5. \A i \in P \ {j} : (Rivals(i, r) => Rivals(i, j)) /\ (Rivals(r, i) => Rivals(i, j))
    BY <2>3 DEF Rivals, Identity, Scheduled
  <2>6. OncePerSlot(K)
    <3> SUFFICES ASSUME NEW i \in K, NEW k \in K, Rivals(i, k), Decided(i), Ran(k) PROVE FALSE
      BY DEF OncePerSlot
    <3>1. CASE i \in P \ {j} /\ k \in P \ {j}
      BY <3>1 DEF Sound, OncePerSlot
    <3>2. CASE i \in P \ {j} /\ k = r
      BY <1>2, <2>5, <3>2
    <3>3. CASE i = r /\ k \in P \ {j}
      <4>1. Rivals(k, j) /\ Decided(k)
        BY <2>5, <3>3 DEF Ran, Decided
      <4> QED
        BY <1>2, <3>3, <4>1
    <3>4. i # k
      BY DEF Rivals
    <3> QED
      BY <2>4, <3>1, <3>2, <3>3, <3>4
  <2>7. ASSUME w.mode = "REAL" PROVE Punctual(w, K)
    BY <2>3, <2>4, <2>7 DEF Sound, Punctual
  <2>8. ASSUME w.mode = "DRY_RUN" PROVE Single(K)
    <3>1. ~Waits(r)
      BY <2>3 DEF Waits, Unstarted
    <3> QED
      BY <2>4, <2>8, <3>1 DEF Sound, Single
  <2>9. \A i \in K : IsJob(i) /\ (i.mode = "REAL" => i.gen = 0)
    BY <2>2, <2>3, <2>4 DEF Sound, Identity
  <2> QED
    BY <2>6, <2>7, <2>8, <2>9 DEF Sound
<1> QED
  BY <1>1, <1>2 DEF Arbitrated

LEMMA ReconciledSound ==
  ASSUME NEW w, w.now \in Int, w.mode \in Modes, NEW J, Sound(w, J), NEW R \in Reconciled(w, J)
  PROVE  Sound(w, R) /\ Settled(R)
<1> DEFINE D == Dematerialized(w, J)
           S == Shadowed(w, D)
           M == Materialized(w, S)
           P == Kept({Prepared(w, j) : j \in M})
<1>1. PICK K \in Arbitrated(P) : R = Materialized(w, Shadowed(w, K))
  BY DEF Reconciled
<1>2. Sound(w, D) /\ \A j \in D : Unstarted(j) /\ Scheduled(j) => Current(w, j)
  BY DematerializedSound
<1> HIDE DEF D
<1>3. S \subseteq D /\ Sound(w, S) /\ Settled(S)
  BY <1>2, ShadowedSound
<1> HIDE DEF S
<1>4. /\ Sound(w, M) /\ Settled(M)
      /\ \A j \in M \ S : Current(w, j)
  BY <1>3, MaterializedSound
<1>5. \A j \in M : Unstarted(j) /\ Scheduled(j) => Current(w, j)
  BY <1>2, <1>3, <1>4
<1>6. \A p \in P : \E m \in M : p = Prepared(w, m)
  <2> HIDE DEF M
  <2> QED
    BY DEF Kept
<1> HIDE DEF M, P
<1>7. /\ Sound(w, P)
      /\ \A i, j \in P : Rivals(i, j) /\ j.state = "WAIT" => ~Decided(i)
  BY <1>4, <1>5, <1>6, PreparedSound
<1>8. Sound(w, K)
  BY <1>7, ArbitratedSound
<1>9. Sound(w, Shadowed(w, K)) /\ Settled(Shadowed(w, K))
  BY <1>8, ShadowedSound
<1> QED
  BY <1>1, <1>9, MaterializedSound

-----------------------------------------------------------------------------
(* Downtime *)

LEMMA LoadedSound ==
  ASSUME NEW w, NEW J, Sound(w, J)
  PROVE  Sound(w, {[j EXCEPT !.loaded = TRUE] : j \in J})
<1> DEFINE L == {[j EXCEPT !.loaded = TRUE] : j \in J}
<1>1. PICK from \in [L -> J] : \A l \in L : l = [from[l] EXCEPT !.loaded = TRUE]
  <2> DEFINE f == [l \in L |-> CHOOSE j \in J : l = [j EXCEPT !.loaded = TRUE]]
  <2>1. f \in [L -> J] /\ \A l \in L : l = [f[l] EXCEPT !.loaded = TRUE]
    OBVIOUS
  <2> QED
    BY <2>1
<1> HIDE DEF L
<1>2. ASSUME NEW l \in L
      PROVE  /\ from[l] \in J /\ IsJob(from[l]) /\ (from[l].mode = "REAL" => from[l].gen = 0)
             /\ IsJob(l) /\ Identity(from[l], l) /\ l.loaded = TRUE /\ l.forced = from[l].forced
             /\ l.state = from[l].state /\ l.result = from[l].result
  <2>1. PICK j : j = from[l]
    OBVIOUS
  <2>2. j \in J /\ l = [j EXCEPT !.loaded = TRUE]
    BY <1>1, <2>1
  <2>3. IsJob(j) /\ (j.mode = "REAL" => j.gen = 0)
    BY <2>2 DEF Sound
  <2> QED
    BY <2>1, <2>2, <2>3, LoadedFields
<1>3. ASSUME NEW i \in L, NEW l \in L, i # l PROVE from[i] # from[l]
  BY <1>1, <1>3
<1>4. \A i \in L : IsJob(i) /\ (i.mode = "REAL" => i.gen = 0)
  BY <1>2 DEF Identity
<1>5. OncePerSlot(L)
  <2> SUFFICES ASSUME NEW i \in L, NEW l \in L, Rivals(i, l), Decided(i), Ran(l) PROVE FALSE
    BY DEF OncePerSlot
  <2>1. /\ Identity(from[i], i) /\ Identity(from[l], l) /\ from[i] \in J /\ from[l] \in J
        /\ i.loaded = TRUE
    BY <1>2
  <2>2. from[i] # from[l] /\ ~Ambiguous(zone, i.start)
    BY <1>3, <2>1 DEF Rivals
  <2>3. Rivals(from[i], from[l])
    BY <2>1, <2>2 DEF Rivals, Identity, Scheduled
  <2>4. Decided(from[i]) /\ Ran(from[l])
    BY <1>2 DEF Decided, Ran, Running
  <2> QED
    BY <2>1, <2>3, <2>4 DEF Sound, OncePerSlot
<1>6. ASSUME w.mode = "REAL" PROVE Punctual(w, L)
  <2> SUFFICES ASSUME NEW l \in L, l.state = "WAIT" PROVE Due(w, l)
    BY DEF Punctual
  <2>1. Due(w, from[l])
    BY <1>2, <1>6 DEF Sound, Punctual
  <2>2. l.forced = from[l].forced /\ l.start = from[l].start
    BY <1>2 DEF Identity
  <2> QED
    BY <2>1, <2>2 DEF Due
<1>7. ASSUME w.mode = "DRY_RUN" PROVE Single(L)
  <2> SUFFICES ASSUME NEW i \in L, NEW l \in L, Waits(i), Waits(l), Same(i, l) PROVE i = l
    BY DEF Single
  <2>1. /\ Identity(from[i], i) /\ Identity(from[l], l) /\ from[i] \in J /\ from[l] \in J
        /\ i.state = from[i].state /\ l.state = from[l].state
    BY <1>2
  <2>2. Waits(from[i]) /\ Waits(from[l]) /\ Same(from[i], from[l])
    BY <2>1 DEF Waits, Same, Identity, Scheduled, Unstarted
  <2> QED
    BY <1>3, <1>7, <2>1, <2>2 DEF Sound, Single
<1> QED
  BY <1>4, <1>5, <1>6, <1>7 DEF Sound, L

\* A slot of a downtime that is put back or written down.
LEMMA BackfilledSound ==
  ASSUME NEW w, NEW J, Sound(w, J), NEW anchors, w.now \in Int, w.mode \in Modes,
         \A a \in anchors : IsJob(a) /\ (a.mode = "REAL" => a.gen = 0)
  PROVE  Sound(w, Backfilled(w, J, anchors))
<1> DEFINE B == Backfilled(w, J, anchors)
           Put(b, a, x) == b = NewJob(w, a.s, x, a.mode, a.gen, 0)
           Free(a, x) == x \in Int /\ ByOccurrence(J, a.s, a.rev, x, a.mode, a.gen) = {}
           Restored(b, a, x) ==
             LET j == NewJob(w, a.s, x, a.mode, a.gen, 0)
             IN  b = IF j.deadline > w.now THEN j ELSE Ended(j, "MISSED")
           OwedTo(a) == {x \in Between(zone, w.schedules[a.s].rule, a.start, w.now) :
                         ByOccurrence(J, a.s, a.rev, x, a.mode, a.gen) = {}}
           Missed(b) == \E j : /\ IsJob(j) /\ (j.mode = "REAL" => j.gen = 0) /\ b = Ended(j, "MISSED")
           Planned(b) == \E a \in anchors : Current(w, a) /\ \E x : Free(a, x) /\ Put(b, a, x)
<1>1. ASSUME NEW a \in anchors, NEW x \in Int, NEW j, Put(j, a, x)
      PROVE  /\ IsJob(j) /\ (j.mode = "REAL" => j.gen = 0)
             /\ j.s = a.s /\ j.rev = w.schedules[a.s].rev /\ j.start = x
             /\ j.mode = a.mode /\ j.gen = a.gen /\ j.state = "PLANNED" /\ j.result = "none"
  <2>1. IsJob(a) /\ (a.mode = "REAL" => a.gen = 0)
    OBVIOUS
  <2>2. PICK m, g, s : m = a.mode /\ g = a.gen /\ s = a.s
    OBVIOUS
  <2>3. m \in Modes /\ (m = "REAL" => g = 0)
    BY <2>1, <2>2 DEF IsJob
  <2>4. j = NewJob(w, s, x, m, g, 0)
    BY <1>1, <2>2
  <2>5. /\ IsJob(j) /\ j.s = s /\ j.rev = w.schedules[s].rev /\ j.start = x
        /\ j.mode = m /\ j.gen = g /\ j.state = "PLANNED" /\ j.result = "none"
    BY <2>3, <2>4 DEF NewJob, IsJob, Fields, Terminal
  <2> QED
    BY <2>2, <2>3, <2>5
<1>2. ASSUME NEW b \in B, b \notin J PROVE Missed(b) \/ Planned(b)
  <2>1. PICK a \in anchors : Current(w, a) /\ \E x \in OwedTo(a) : Restored(b, a, x)
    BY <1>2 DEF Backfilled
  <2>2. PICK x \in OwedTo(a) : Restored(b, a, x)
    BY <2>1
  <2>3. x \in Int
    <3>1. a.start \in Int
      BY DEF IsJob
    <3> QED
      BY <3>1, BetweenType
  <2>4. PICK j : Put(j, a, x) /\ b \in {j, Ended(j, "MISSED")}
    BY <2>2
  <2>5. IsJob(j) /\ (j.mode = "REAL" => j.gen = 0)
    BY <1>1, <2>3, <2>4
  <2> QED
    BY <2>1, <2>2, <2>3, <2>4, <2>5
<1> HIDE DEF B
<1>3. \A b : Missed(b) => Inert(w, b) /\ ~Waits(b)
  <2> SUFFICES ASSUME NEW j, IsJob(j), j.mode = "REAL" => j.gen = 0
               PROVE  Inert(w, Ended(j, "MISSED")) /\ ~Waits(Ended(j, "MISSED"))
    OBVIOUS
  <2> QED
    BY EndedInert, EndedFields DEF Waits
<1>4. ASSUME NEW b, Planned(b)
      PROVE  /\ IsJob(b) /\ (b.mode = "REAL" => b.gen = 0) /\ ~Decided(b) /\ ~Ran(b) /\ b.state # "WAIT"
  <2>0. PICK a \in anchors : \E x : Free(a, x) /\ Put(b, a, x)
    BY <1>4
  <2>1. PICK x \in Int : Put(b, a, x)
    BY <2>0
  <2>2. IsJob(b) /\ (b.mode = "REAL" => b.gen = 0) /\ b.state = "PLANNED" /\ b.result = "none"
    BY <1>1, <2>1
  <2> QED
    BY <2>2 DEF Decided, Ran, Running
<1>5. \A b \in B : IsJob(b) /\ (b.mode = "REAL" => b.gen = 0)
  BY <1>2, <1>3, <1>4 DEF Inert, Sound
<1>6. \A b \in B : b \in J \/ (~Decided(b) /\ ~Ran(b) /\ b.state # "WAIT")
  BY <1>2, <1>3, <1>4 DEF Inert
<1>7. OncePerSlot(B)
  BY <1>6 DEF Sound, OncePerSlot
<1>8. w.mode = "REAL" => Punctual(w, B)
  BY <1>6 DEF Sound, Punctual
<1>9. ASSUME NEW i \in B, NEW k \in B, Waits(i), Waits(k), Same(i, k), k \notin J, w.mode = "DRY_RUN"
      PROVE  i = k
  <2>1. Planned(k)
    BY <1>2, <1>3, <1>9
  <2>2. PICK a \in anchors : Current(w, a) /\ \E x : Free(a, x) /\ Put(k, a, x)
    BY <2>1
  <2>3. PICK x \in Int : Free(a, x) /\ Put(k, a, x)
    BY <2>2
  <2>4. /\ k.s = a.s /\ k.rev = w.schedules[a.s].rev /\ k.start = x
        /\ k.mode = a.mode /\ k.gen = a.gen
    BY <1>1, <2>3
  <2>5. k.rev = a.rev /\ k.mode = "REAL" /\ k.gen = 0
    BY <1>5, <1>9, <2>2, <2>4 DEF Current, Waits
  <2>6. CASE i \in J
    <3>1. /\ i.s = a.s /\ Scheduled(i) /\ i.rev = a.rev /\ i.start = x /\ i.mode = a.mode
          /\ i.gen = a.gen
      BY <1>5, <1>9, <2>4, <2>5 DEF Waits, Same
    <3>2. i \in ByOccurrence(J, a.s, a.rev, x, a.mode, a.gen)
      BY <2>6, <3>1 DEF ByOccurrence, InNamespace
    <3> QED
      BY <2>3, <3>2
  <2>7. CASE i \notin J
    <3>1. Planned(i)
      BY <1>2, <1>3, <1>9, <2>7
    <3>2. PICK c \in anchors : \E y : Free(c, y) /\ Put(i, c, y)
      BY <3>1
    <3>3. PICK y \in Int : Put(i, c, y)
      BY <3>2
    <3>4. i.s = c.s /\ i.start = y /\ i.mode = c.mode /\ i.gen = c.gen
      BY <1>1, <3>3
    <3>5. i.mode = "REAL" /\ i.gen = 0
      BY <1>5, <1>9 DEF Waits
    <3>6. c.s = a.s /\ y = x /\ c.mode = a.mode /\ c.gen = a.gen
      BY <1>9, <2>4, <2>5, <3>4, <3>5 DEF Same
    <3> QED
      BY <2>3, <3>3, <3>6
  <2> QED
    BY <2>6, <2>7
<1>10. ASSUME w.mode = "DRY_RUN" PROVE Single(B)
  <2> SUFFICES ASSUME NEW i \in B, NEW k \in B, Waits(i), Waits(k), Same(i, k) PROVE i = k
    BY DEF Single
  <2>1. CASE k \notin J
    BY <1>9, <1>10, <2>1
  <2>2. CASE k \in J /\ i \notin J
    <3>1. Same(k, i)
      BY DEF Same
    <3> QED
      BY <1>9, <1>10, <2>2, <3>1
  <2>3. CASE k \in J /\ i \in J
    BY <1>10, <2>3 DEF Sound, Single
  <2> QED
    BY <2>1, <2>2, <2>3
<1> QED
  BY <1>5, <1>7, <1>8, <1>10 DEF Sound, B

LEMMA RecoveredSound ==
  ASSUME NEW w, w.now \in Int, w.mode \in Modes, NEW J, Sound(w, J), NEW R \in Recovered(w, J)
  PROVE  Sound(w, R) /\ Settled(R)
<1> DEFINE loaded == {[j EXCEPT !.loaded = TRUE] : j \in J}
           anchors == UNION {Anchors(loaded, s) : s \in Schedules}
           closed == {IF Unstarted(j) /\ Scheduled(j) /\ w.now >= j.deadline THEN Ended(j, "FAILED") ELSE j
                        : j \in loaded}
<1>1. R \in Reconciled(w, Backfilled(w, closed, anchors))
  BY DEF Recovered
<1>2. Sound(w, loaded)
  BY LoadedSound
<1> HIDE DEF loaded
<1>3. anchors \subseteq loaded
  BY DEF Anchors
<1>4. ASSUME NEW c \in closed PROVE c \in loaded \/ \E j \in loaded : c = Ended(j, "FAILED")
  OBVIOUS
<1> HIDE DEF anchors, closed
<1>5. \A j \in loaded : IsJob(j) /\ (j.mode = "REAL" => j.gen = 0)
  BY <1>2 DEF Sound
<1>6. \A c \in closed : c \in loaded \/ Inert(w, c)
  BY <1>4, <1>5, EndedInert
<1>7. Sound(w, closed)
  BY <1>2, <1>6, InertSound
<1>8. Sound(w, Backfilled(w, closed, anchors))
  BY <1>3, <1>5, <1>7, BackfilledSound
<1> QED
  BY <1>1, <1>8, ReconciledSound

-----------------------------------------------------------------------------
(* One step *)

LEMMA Concluded ==
  ASSUME zone' = zone, real' \in Nat, offset' \in Nat,
         NEW w, w.mode = mode', w.mode \in Modes, w.now = real' + offset',
         NEW R, R = jobs', Sound(w, R), Settled(R)
  PROVE  IInv'
<1>1. PICK v : v = Today'
  OBVIOUS
<1>2. v.now = w.now /\ v.mode = w.mode
  BY <1>1 DEF Today, World, Now
<1>3. \A i, j \in R : Rivals(i, j)' <=> Rivals(i, j)
  BY DEF Rivals
<1>4. OncePerSlot(jobs)' /\ Settled(jobs)'
  BY <1>3 DEF Sound, OncePerSlot, Settled
<1>5. w.mode = "REAL" => Punctual(v, R)
  BY <1>2 DEF Sound, Punctual, Due
<1>6. /\ \A j \in R : IsJob(j) /\ (j.mode = "REAL" => j.gen = 0)
      /\ v.mode = "REAL" => Punctual(v, R)
      /\ v.mode = "DRY_RUN" => Single(R)
  BY <1>2, <1>5 DEF Sound
<1>7. Sound(Today, jobs)'
  BY <1>1, <1>4, <1>6 DEF Sound
<1> QED
  BY <1>4, <1>7 DEF IInv

\* An operation that leaves J to the reconcile.
LEMMA LeftToReconcile ==
  ASSUME zone' = zone, real' \in Nat, offset' \in Nat,
         NEW w, NEW J, Then(w, J), w.mode \in Modes, w.now = real' + offset', Sound(w, J)
  PROVE  IInv'
<1>1. PICK R : R = jobs' /\ R \in Reconciled(w, J)
  BY DEF Then
<1>2. w.mode = mode' /\ w.now \in Int
  BY DEF Then
<1>3. Sound(w, R) /\ Settled(R)
  BY <1>1, <1>2, ReconciledSound
<1> QED
  BY <1>1, <1>2, <1>3, Concluded

LEMMA LeftToRecovery ==
  ASSUME zone' = zone, real' \in Nat, offset' \in Nat,
         NEW w, NEW J, jobs' \in Recovered(w, J), w.mode = mode', w.mode \in Modes,
         w.now = real' + offset', Sound(w, J)
  PROVE  IInv'
<1>1. PICK R : R = jobs' /\ R \in Recovered(w, J)
  OBVIOUS
<1>2. Sound(w, R) /\ Settled(R)
  BY <1>1, RecoveredSound
<1> QED
  BY <1>1, <1>2, Concluded

LEMMA TodayFields ==
  ASSUME IInv
  PROVE  /\ Today.now = real + offset /\ Today.now \in Int /\ Today.mode = mode /\ Today.mode \in Modes
         /\ Today.schedules = schedules
         /\ Today = [f \in {"now", "schedules", "mode", "gen"} |-> Today[f]]
         /\ Sound(Today, jobs)
BY DEF Today, World, Now, IInv

\* One job is replaced by what became of it.
LEMMA ReplacedSound ==
  ASSUME NEW w, NEW J, Sound(w, J), NEW j \in J, NEW k,
         IsJob(k), Identity(j, k), k.loaded = j.loaded,
         k.state = "WAIT" => j.state = "WAIT" /\ (Due(w, j) => Due(w, k)),
         Unstarted(k) => Unstarted(j), Ran(k) => Ran(j) \/ ~\E i \in J : Rivals(i, j) /\ Decided(i),
         Decided(k) => Decided(j) \/ ~\E i \in J : Rivals(i, j) /\ Ran(i)
  PROVE  Sound(w, (J \ {j}) \cup {k})
<1> DEFINE K == (J \ {j}) \cup {k}
<1>1. \A i \in J \ {j} : (Rivals(i, k) => Rivals(i, j)) /\ (Rivals(k, i) => Rivals(j, i) /\ Rivals(i, j))
  BY DEF Rivals, Identity, Scheduled
<1>2. OncePerSlot(K)
  <2> SUFFICES ASSUME NEW i \in K, NEW l \in K, Rivals(i, l), Decided(i), Ran(l) PROVE FALSE
    BY DEF OncePerSlot
  <2>1. CASE i \in J \ {j} /\ l \in J \ {j}
    BY <2>1 DEF Sound, OncePerSlot
  <2>2. CASE i \in J \ {j} /\ l = k
    BY <1>1, <2>2 DEF Sound, OncePerSlot
  <2>3. CASE i = k /\ l \in J \ {j}
    BY <1>1, <2>3 DEF Sound, OncePerSlot
  <2>4. i # l
    BY DEF Rivals
  <2> QED
    BY <2>1, <2>2, <2>3, <2>4
<1>3. ASSUME w.mode = "REAL" PROVE Punctual(w, K)
  BY <1>3 DEF Sound, Punctual
<1>4. ASSUME w.mode = "DRY_RUN" PROVE Single(K)
  <2>1. Waits(k) => Waits(j)
    BY DEF Waits, Identity, Scheduled
  <2>2. \A i : (Same(i, k) => Same(i, j)) /\ (Same(k, i) => Same(j, i))
    BY DEF Same, Identity
  <2> QED
    BY <1>4, <2>1, <2>2 DEF Sound, Single
<1>5. \A i \in K : IsJob(i) /\ (i.mode = "REAL" => i.gen = 0)
  BY DEF Sound, Identity
<1> QED
  BY <1>2, <1>3, <1>4, <1>5 DEF Sound

LEMMA InitSound == Init => IInv
<1> SUFFICES ASSUME Init PROVE IInv
  OBVIOUS
<1>1. PICK w : w = World(0, schedules, "REAL", 0)
  OBVIOUS
<1>2. w.now = 0 /\ w.mode = "REAL"
  BY <1>1 DEF World
<1>3. Sound(w, {})
  BY DEF Sound, OncePerSlot, Punctual, Single
<1>4. jobs \in Reconciled(w, {})
  BY <1>1 DEF Init
<1>5. Sound(w, jobs) /\ Settled(jobs)
  BY <1>2, <1>3, <1>4, ReconciledSound DEF Modes
<1>6. real = 0 /\ offset = 0 /\ mode = "REAL" /\ Today = w
  BY <1>1 DEF Init, Today, World, Now
<1> QED
  BY <1>5, <1>6 DEF IInv, Modes

LEMMA TickKeeps == IInv /\ Tick => IInv'
<1> SUFFICES ASSUME IInv, Tick PROVE IInv'
  OBVIOUS
<1>1. PICK w : w = [Today EXCEPT !.now = @ + 1]
  OBVIOUS
<1>2. w.now = Today.now + 1 /\ w.mode = Today.mode
  BY <1>1, TodayFields
<1>3. Sound(w, jobs)
  BY <1>2, TodayFields, LaterSound
<1>4. Then(w, jobs) /\ zone' = zone /\ real' = real + 1 /\ offset' = offset
  BY <1>1 DEF Tick
<1> QED
  BY <1>2, <1>3, <1>4, TodayFields, LeftToReconcile DEF IInv

\* What an operation does now, without a change of the clock.
LEMMA NowKeeps ==
  ASSUME IInv, NEW w, NEW J, Then(w, J), w.now = Today.now, w.mode = mode, Sound(w, J),
         UNCHANGED <<real, offset, zone>>
  PROVE  IInv'
BY TodayFields, LeftToReconcile DEF IInv

LEMMA FinishKeeps ==
  ASSUME IInv, NEW j, Finish(j)
  PROVE  IInv'
<1>1. PICK k : k = Ended(j, "RUN")
  OBVIOUS
<1>2. j \in jobs /\ Running(j) /\ IsJob(j) /\ Sound(Today, jobs)
  BY TodayFields DEF Finish, Sound
<1>3. /\ IsJob(k) /\ Identity(j, k) /\ k.loaded = j.loaded /\ k.state = "FINISHED" /\ ~Unstarted(k)
  BY <1>1, <1>2, EndedFields
<1>4. Ran(j) /\ Decided(j)
  BY <1>2 DEF Ran, Decided
<1>5. Sound(Today, (jobs \ {j}) \cup {k})
  BY <1>2, <1>3, <1>4, ReplacedSound
<1>6. Kept((jobs \ {j}) \cup {k}) \subseteq (jobs \ {j}) \cup {k}
  BY DEF Kept
<1>7. Sound(Today, Kept((jobs \ {j}) \cup {k}))
  BY <1>5, <1>6, InertSound
<1>8. Then(Today, Kept((jobs \ {j}) \cup {k})) /\ UNCHANGED <<real, offset, zone>>
  BY <1>1 DEF Finish
<1>9. PICK w, J : w = Today /\ J = Kept((jobs \ {j}) \cup {k})
  OBVIOUS
<1> QED
  BY <1>7, <1>8, <1>9, TodayFields, NowKeeps

LEMMA SkipKeeps ==
  ASSUME IInv, NEW j, Skip(j)
  PROVE  IInv'
<1>1. PICK k : k = Ended(j, "SKIPPED")
  OBVIOUS
<1>2. j \in jobs /\ Unstarted(j) /\ IsJob(j) /\ Sound(Today, jobs) /\ Settled(jobs)
  BY TodayFields DEF Skip, Sound, IInv
<1>3. /\ IsJob(k) /\ Identity(j, k) /\ k.loaded = j.loaded /\ k.state = "FINISHED" /\ k.result = "SKIPPED"
      /\ ~Unstarted(k) /\ ~Running(k)
  BY <1>1, <1>2, EndedFields
<1>4. ~Ran(k)
  BY <1>3 DEF Ran
<1>5. ASSUME NEW i \in jobs, Rivals(i, j), Ran(i) PROVE FALSE
  <2>1. Unstarted(i) /\ IsJob(i)
    BY <1>2, <1>5 DEF Settled, Sound
  <2> QED
    BY <1>5, <2>1 DEF Ran, Running, Unstarted, IsJob, Terminal
<1>6. Sound(Today, (jobs \ {j}) \cup {k})
  BY <1>2, <1>3, <1>4, <1>5, ReplacedSound
<1>7. Kept((jobs \ {j}) \cup {k}) \subseteq (jobs \ {j}) \cup {k}
  BY DEF Kept
<1>8. Sound(Today, Kept((jobs \ {j}) \cup {k}))
  BY <1>6, <1>7, InertSound
<1>9. Then(Today, Kept((jobs \ {j}) \cup {k})) /\ UNCHANGED <<real, offset, zone>>
  BY <1>1 DEF Skip
<1>10. PICK w, J : w = Today /\ J = Kept((jobs \ {j}) \cup {k})
  OBVIOUS
<1> QED
  BY <1>8, <1>9, <1>10, TodayFields, NowKeeps

LEMMA StartEarlyKeeps ==
  ASSUME IInv, NEW j, StartEarly(j)
  PROVE  IInv'
<1>1. PICK k : k = [j EXCEPT !.forced = TRUE]
  OBVIOUS
<1>2. j \in jobs /\ Unstarted(j) /\ IsJob(j) /\ Sound(Today, jobs)
  BY TodayFields DEF StartEarly, Startable, Sound
<1>3. /\ IsJob(k) /\ Identity(j, k) /\ k.loaded = j.loaded /\ k.forced = TRUE
      /\ k.state = j.state /\ k.result = j.result
  BY <1>1, <1>2, ForcedFields
<1>4. (Ran(k) => Ran(j)) /\ (Decided(k) => Decided(j)) /\ (Unstarted(k) => Unstarted(j)) /\ Due(Today, k)
  BY <1>3 DEF Ran, Decided, Running, Unstarted, Due
<1>5. Sound(Today, (jobs \ {j}) \cup {k})
  BY <1>2, <1>3, <1>4, ReplacedSound
<1>6. Then(Today, (jobs \ {j}) \cup {k}) /\ UNCHANGED <<real, offset, zone>>
  BY <1>1 DEF StartEarly
<1>7. PICK w, J : w = Today /\ J = (jobs \ {j}) \cup {k}
  OBVIOUS
<1> QED
  BY <1>5, <1>6, <1>7, TodayFields, NowKeeps

LEMMA RunNowKeeps ==
  ASSUME IInv, NEW s, RunNow(s)
  PROVE  IInv'
<1>1. PICK k : k = Manual(s)
  OBVIOUS
<1>2. Inert(Today, k)
  <2>1. PICK m, g, x : m = mode /\ g = Generation(Today, mode) /\ x = Now
    OBVIOUS
  <2>2. m \in Modes /\ (m = "REAL" => g = 0) /\ x \in Int
    BY <2>1 DEF IInv, Generation, Now
  <2>3. PICK n : n = NewJob(Today, s, x, m, g, 0)
    OBVIOUS
  <2>4. IsJob(n) /\ n.mode = m /\ n.gen = g /\ n.state = "PLANNED" /\ n.result = "none"
    BY <2>2, <2>3 DEF NewJob, IsJob, Fields, Terminal
  <2>5. PICK late : late = Now + Window
    OBVIOUS
  <2>6. k = [n EXCEPT !.deadline = late, !.origin = "MANUAL"]
    BY <1>1, <2>1, <2>3, <2>5 DEF Manual
  <2>7. /\ IsJob(k) /\ k.mode = m /\ k.gen = g /\ k.state = "PLANNED" /\ k.result = "none"
        /\ k.origin = "MANUAL"
    BY <2>4, <2>6 DEF IsJob, Fields, Terminal
  <2> QED
    BY <2>2, <2>7 DEF Inert, Decided, Ran, Running, Waits, Scheduled
<1>3. Sound(Today, jobs \cup {k})
  BY <1>2, TodayFields, InertSound
<1>4. Then(Today, jobs \cup {k}) /\ UNCHANGED <<real, offset, zone>>
  BY <1>1 DEF RunNow
<1>5. PICK w, J : w = Today /\ J = jobs \cup {k}
  OBVIOUS
<1> QED
  BY <1>3, <1>4, <1>5, TodayFields, NowKeeps

LEMMA SmartRunKeeps ==
  ASSUME IInv, NEW s, SmartRun(s)
  PROVE  IInv'
BY StartEarlyKeeps, RunNowKeeps DEF SmartRun

\* The calendar is of no account to what is sound.
LEMMA CalendarKeeps ==
  ASSUME NEW v, NEW w, NEW J, Sound(v, J), w.now = v.now, w.mode = v.mode
  PROVE  Sound(w, J)
BY DEF Sound, Punctual, Due

LEMMA SetEnabledKeeps ==
  ASSUME IInv, NEW s, SetEnabled(s)
  PROVE  IInv'
<1>1. PICK w : w = [Today EXCEPT !.schedules[s] = Revised(@, @.rule, ~@.enabled)]
  OBVIOUS
<1>2. w.now = Today.now /\ w.mode = Today.mode
  BY <1>1, TodayFields
<1>3. Then(w, jobs) /\ UNCHANGED <<real, offset, zone>>
  BY <1>1 DEF SetEnabled
<1> QED
  BY <1>2, <1>3, TodayFields, CalendarKeeps, NowKeeps

LEMMA SetPausedKeeps ==
  ASSUME IInv, NEW s, SetPaused(s)
  PROVE  IInv'
<1>1. PICK w : w = [Today EXCEPT !.schedules[s].paused = ~@]
  OBVIOUS
<1>2. w.now = Today.now /\ w.mode = Today.mode
  BY <1>1, TodayFields
<1>3. Then(w, jobs) /\ UNCHANGED <<real, offset, zone>>
  BY <1>1 DEF SetPaused
<1> QED
  BY <1>2, <1>3, TodayFields, CalendarKeeps, NowKeeps

\* The entry is reloaded with another calendar.
LEMMA ReloadKeeps ==
  ASSUME IInv, jobs' \in Recovered([Today EXCEPT !.schedules = schedules'], jobs),
         UNCHANGED <<real, offset, zone, mode>>
  PROVE  IInv'
<1>1. PICK w : w = [Today EXCEPT !.schedules = schedules']
  OBVIOUS
<1>2. w.now = Today.now /\ w.mode = Today.mode
  BY <1>1, TodayFields
<1>3. Sound(w, jobs)
  BY <1>2, TodayFields, CalendarKeeps
<1>4. /\ w.mode = mode' /\ w.mode \in Modes /\ w.now = real' + offset'
      /\ zone' = zone /\ real' \in Nat /\ offset' \in Nat
  BY <1>2, TodayFields DEF IInv
<1>5. PICK J : J = jobs
  OBVIOUS
<1>6. jobs' \in Recovered(w, J) /\ Sound(w, J)
  BY <1>1, <1>3, <1>5
<1> QED
  BY <1>4, <1>6, LeftToRecovery

LEMMA RestartKeeps ==
  ASSUME IInv, NEW n \in Gaps, Restart(n)
  PROVE  IInv'
<1>0. n \in Nat
  BY PlanningAssumption
<1>1. PICK w : w = [Today EXCEPT !.now = @ + n]
  OBVIOUS
<1>2. w.now = Today.now + n /\ w.mode = Today.mode
  BY <1>1, TodayFields
<1>3. Sound(w, jobs)
  BY <1>0, <1>2, TodayFields, LaterSound
<1>4. /\ real' = real + n /\ UNCHANGED <<offset, zone, mode>>
      /\ jobs' \in Recovered(w, jobs)
  BY <1>1 DEF Restart
<1>5. /\ w.mode = mode' /\ w.mode \in Modes /\ w.now = real' + offset'
      /\ zone' = zone /\ real' \in Nat /\ offset' \in Nat
  BY <1>0, <1>2, <1>4, TodayFields DEF IInv
<1>6. PICK J : J = jobs
  OBVIOUS
<1>7. jobs' \in Recovered(w, J) /\ Sound(w, J)
  BY <1>3, <1>4, <1>6
<1> QED
  BY <1>5, <1>7, LeftToRecovery

\* A rebuilt projection has no unstarted job but the new ones.
LEMMA RebuildKeeps ==
  ASSUME IInv, NEW restore \in BOOLEAN, Rebuild(restore)
  PROVE  IInv'
<1> DEFINE J == Rebuilt(Today, jobs, restore)
<1>1. ASSUME NEW k \in J, k \notin jobs PROVE Inert(Today, k)
  <2>1. PICK s, free, rearm :
          /\ free \subseteq Between(zone, Today.schedules[s].rule, Today.now, End) /\ free # {}
          /\ k = NewJob(Today, s, Min(free), Today.mode, Generation(Today, Today.mode), rearm)
    <3> DEFINE kept == {j \in jobs : ~(Unstarted(j) /\ Scheduled(j))}
               slots(s) == {x \in Between(zone, Today.schedules[s].rule, Today.now, End) :
                              Refreshable(Today, kept, s, x, restore)}
    <3>1. PICK s : /\ slots(s) # {}
                   /\ k = NewJob(Today, s, Min(slots(s)), Today.mode, Generation(Today, Today.mode),
                            IF Owners(Today, kept, s, Min(slots(s))) = {} THEN 0
                            ELSE RearmGeneration(Today, kept, s, Min(slots(s))))
      BY <1>1 DEF Rebuilt
    <3>2. slots(s) \subseteq Between(zone, Today.schedules[s].rule, Today.now, End)
      OBVIOUS
    <3> HIDE DEF slots, kept
    <3> QED
      BY <3>1, <3>2
  <2>2. Min(free) \in Int
    BY <2>1, TodayFields, LeastSlot
  <2> QED
    BY <2>1, <2>2, TodayFields, NewInert
<1>2. PICK w, K : w = Today /\ K = J
  OBVIOUS
<1> HIDE DEF J
<1>3. Sound(w, K)
  BY <1>1, <1>2, TodayFields, InertSound
<1>4. Then(w, K) /\ UNCHANGED <<real, offset, zone>>
  BY <1>2 DEF Rebuild, J
<1> QED
  BY <1>2, <1>3, <1>4, TodayFields, NowKeeps

LEMMA OnTimelineSubset ==
  ASSUME NEW w, NEW J, NEW reset
  PROVE  OnTimeline(w, J, reset) \subseteq J
BY DEF OnTimeline

LEMMA ReconcileTimelineKeeps ==
  ASSUME IInv, ReconcileTimeline
  PROVE  IInv'
<1>1. PICK w : w = [Today EXCEPT !.gen = IF mode = "DRY_RUN" THEN @ + 1 ELSE @]
  OBVIOUS
<1>2. w.now = Today.now /\ w.mode = Today.mode
  BY <1>1, TodayFields
<1>3. PICK J : J = OnTimeline(w, jobs, FALSE)
  OBVIOUS
<1>4. Sound(w, J)
  BY <1>2, <1>3, TodayFields, CalendarKeeps, OnTimelineSubset, InertSound
<1>5. Then(w, J) /\ UNCHANGED <<real, offset, zone>>
  BY <1>1, <1>3 DEF ReconcileTimeline
<1> QED
  BY <1>2, <1>4, <1>5, TodayFields, NowKeeps

LEMMA AdvanceTimeKeeps ==
  ASSUME IInv, NEW n \in Gaps, AdvanceTime(n)
  PROVE  IInv'
<1>0. n \in Nat
  BY PlanningAssumption
<1>1. PICK w : w = [Today EXCEPT !.now = @ + n]
  OBVIOUS
<1>2. w.now = Today.now + n /\ w.mode = Today.mode
  BY <1>1, TodayFields
<1>3. Sound(w, jobs)
  BY <1>0, <1>2, TodayFields, LaterSound
<1>4. Then(w, jobs) /\ zone' = zone /\ real' = real /\ offset' = offset + n
  BY <1>1 DEF AdvanceTime
<1> QED
  BY <1>0, <1>2, <1>3, <1>4, TodayFields, LeftToReconcile DEF IInv

LEMMA ResetTimeKeeps ==
  ASSUME IInv, ResetTime
  PROVE  IInv'
<1>1. PICK w : w = [Today EXCEPT !.now = real, !.gen = @ + 1]
  OBVIOUS
<1>2. w.now = real /\ w.mode = Today.mode /\ mode = "DRY_RUN"
  BY <1>1, TodayFields DEF ResetTime
<1>3. PICK J : J = OnTimeline(w, jobs, TRUE)
  OBVIOUS
<1>4. Sound(w, jobs)
  BY <1>2, TodayFields, LaterSound DEF IInv
<1>5. Sound(w, J)
  BY <1>3, <1>4, OnTimelineSubset, InertSound
<1>6. Then(w, J) /\ zone' = zone /\ real' = real /\ offset' = 0
  BY <1>1, <1>3 DEF ResetTime
<1> QED
  BY <1>2, <1>5, <1>6, TodayFields, LeftToReconcile DEF IInv

LEMMA ResetDryRunKeeps ==
  ASSUME IInv, ResetDryRun
  PROVE  IInv'
<1>1. PICK w : w = [Today EXCEPT !.now = real]
  OBVIOUS
<1>2. w.now = real /\ w.mode = Today.mode /\ mode = "DRY_RUN"
  BY <1>1, TodayFields DEF ResetDryRun
<1>3. PICK J : J = {j \in jobs : j.mode # "DRY_RUN"}
  OBVIOUS
<1>4. Sound(w, jobs)
  BY <1>2, TodayFields, LaterSound DEF IInv
<1>5. Sound(w, J)
  BY <1>3, <1>4, InertSound
<1>6. Then(w, J) /\ zone' = zone /\ real' = real /\ offset' = 0
  BY <1>1, <1>3 DEF ResetDryRun
<1> QED
  BY <1>2, <1>5, <1>6, TodayFields, LeftToReconcile DEF IInv

LEMMA RegeneratedInert ==
  ASSUME NEW w, w.mode \in Modes, NEW j, IsJob(j), Unstarted(j)
  PROVE  Inert(w, Regenerated(w, j))
<1>1. PICK m, g : m = w.mode /\ g = Generation(w, w.mode)
  OBVIOUS
<1>2. m \in Modes /\ (m = "REAL" => g = 0) /\ j.result = "none"
  BY <1>1 DEF Generation, IsJob, Unstarted, Terminal
<1>3. PICK n : n = [j EXCEPT !.mode = m, !.gen = g]
  OBVIOUS
<1>4. IsJob(n) /\ n.mode = m /\ n.gen = g /\ n.result = "none"
  BY <1>2, <1>3 DEF IsJob, Fields, Terminal
<1>5. PICK k : k = [n EXCEPT !.state = "PLANNED", !.loaded = TRUE, !.regenerated = TRUE]
  OBVIOUS
<1>6. IsJob(k) /\ k.mode = m /\ k.gen = g /\ k.result = "none" /\ k.state = "PLANNED"
  BY <1>4, <1>5 DEF IsJob, Fields, Terminal
<1>7. Regenerated(w, j) = k
  BY <1>1, <1>3, <1>5 DEF Regenerated
<1> QED
  BY <1>1, <1>2, <1>6, <1>7 DEF Inert, Decided, Ran, Running, Waits

LEMMA SetModeKeeps ==
  ASSUME IInv, SetMode
  PROVE  IInv'
<1>1. PICK w : w = World(real + offset', schedules, CHOOSE m \in Modes : m # mode,
                         IF mode = "REAL" THEN gen + 1 ELSE gen)
  OBVIOUS
<1>2. (CHOOSE m \in Modes : m # mode) \in Modes
  <2>1. \E m \in Modes : m # mode
    BY DEF Modes
  <2> QED
    BY <2>1
<1>3. w.now = real + offset' /\ w.mode \in Modes
  BY <1>1, <1>2 DEF World
<1>4. PICK J : J = Switched(w, jobs)
  OBVIOUS
<1> DEFINE kept == {j \in jobs : ~Unstarted(j)}
<1>5. ASSUME NEW k \in J PROVE k \in kept \/ \E j \in jobs : Unstarted(j) /\ k = Regenerated(w, j)
  BY <1>4 DEF Switched
<1>6. \A j \in jobs : IsJob(j)
  BY TodayFields DEF Sound
<1>7. Sound(w, kept)
  BY TodayFields, StartedSound
<1> HIDE DEF kept
<1>8. \A k \in J : k \in kept \/ Inert(w, k)
  BY <1>3, <1>5, <1>6, RegeneratedInert
<1>9. Sound(w, J)
  BY <1>7, <1>8, InertSound
<1>10. Then(w, J) /\ zone' = zone /\ real' = real
  BY <1>1, <1>4 DEF SetMode
<1>11. offset' \in Nat
  BY DEF SetMode, IInv
<1> QED
  BY <1>3, <1>9, <1>10, <1>11, LeftToReconcile DEF IInv

LEMMA Unchanged ==
  ASSUME IInv, UNCHANGED <<real, offset, zone, schedules, mode, gen, jobs>>
  PROVE  IInv'
<1>1. PICK w, R : w = Today /\ R = jobs
  OBVIOUS
<1>2. /\ Sound(w, R) /\ Settled(R) /\ R = jobs' /\ zone' = zone /\ real' \in Nat /\ offset' \in Nat
      /\ w.mode = mode' /\ w.mode \in Modes /\ w.now = real' + offset'
  BY <1>1, TodayFields DEF IInv
<1> QED
  BY <1>2, Concluded

LEMMA Inductive == IInv /\ [Next]_vars => IInv'
<1> SUFFICES ASSUME IInv, [Next]_vars PROVE IInv'
  OBVIOUS
<1>1. CASE Passing
  BY <1>1, TickKeeps, FinishKeeps, RestartKeeps DEF Passing
<1>2. ASSUME NEW s \in Schedules, NEW r \in Rules, SaveSchedule(s, r) PROVE IInv'
  BY <1>2, ReloadKeeps DEF SaveSchedule
<1>3. ASSUME NEW s \in Schedules, DeleteSchedule(s) PROVE IInv'
  BY <1>3, ReloadKeeps DEF DeleteSchedule
<1>4. CASE Planning
  BY <1>2, <1>3, <1>4, SetEnabledKeeps, SetPausedKeeps, SkipKeeps, StartEarlyKeeps, RunNowKeeps,
     SmartRunKeeps, RebuildKeeps
     DEF Planning
<1>5. CASE Simulating
  BY <1>5, ReconcileTimelineKeeps, ResetTimeKeeps, ResetDryRunKeeps, SetModeKeeps, AdvanceTimeKeeps
     DEF Simulating
<1>6. CASE UNCHANGED vars
  BY <1>6, Unchanged DEF vars
<1> QED
  BY <1>1, <1>4, <1>5, <1>6 DEF Next

-----------------------------------------------------------------------------
(* The theorems *)

\* The inductive invariant: at rest no slot of a schedule was both decided and
\* run, a slot with a started job has no other, what waits in REAL mode is due,
\* and in a dry run no two REAL jobs wait for one slot.
THEOREM Invariant == Spec => []IInv
BY InitSound, Inductive, PTL DEF Spec

\* A slot that was run, skipped or suppressed is not run again by itself,
\* whatever edits, restarts, rebuilds, jumps of the test clock and changes of
\* mode come between, but for the hour that is read twice (by_schedule_slot,
\* _dematerialize_shadowed_schedule_slots, _materialize_missing).
THEOREM SlotsRunOnce == Spec => []SlotRunsOnce
<1>1. IInv => SlotRunsOnce
  <2> SUFFICES ASSUME IInv, NEW j \in jobs, NEW k \in jobs, RunTwice(j, k),
                      ~(Ambiguous(zone, j.start) /\ (j.loaded \/ k.loaded))
               PROVE  FALSE
    BY DEF SlotRunsOnce
  <2>1. Rivals(j, k) /\ Decided(j) /\ Ran(k)
    BY DEF RunTwice, Rivals
  <2> QED
    BY <2>1 DEF IInv, Sound, OncePerSlot
<1> QED
  BY <1>1, Invariant, PTL

-----------------------------------------------------------------------------
(* What runs is left alone *)

Started(j) == ~Unstarted(j) /\ Scheduled(j)

LEMMA StartedSurvives ==
  ASSUME NEW w, NEW J, NEW j \in J, Started(j), NEW R \in Reconciled(w, J)
  PROVE  j \in R
<1> DEFINE D == Dematerialized(w, J)
           M == Materialized(w, Shadowed(w, D))
           P == Kept({Prepared(w, i) : i \in M})
<1>1. PICK K \in Arbitrated(P) : R = Materialized(w, Shadowed(w, K))
  BY DEF Reconciled
<1>2. \A K2 : K2 \subseteq Materialized(w, K2)
  BY DEF Materialized
<1>3. \A K2 : j \in K2 => j \in Shadowed(w, K2)
  BY DEF Shadowed, Started
<1>4. j \in D
  BY DEF Dematerialized, Started
<1>5. j \in M
  BY <1>2, <1>3, <1>4
<1>6. Prepared(w, j) = j
  BY DEF Prepared, Started
<1>7. j \in P
  <2> HIDE DEF M
  <2> QED
    BY <1>5, <1>6 DEF Kept, Started, Scheduled
<1> HIDE DEF D, M, P
<1>8. j \in K
  <2>1. \/ K = P
        \/ \E i \in P : i.state = "WAIT" /\ K = (P \ {i}) \cup {[i EXCEPT !.state = "RUNNING"]}
    BY DEF Arbitrated
  <2>2. j.state # "WAIT"
    BY DEF Started, Unstarted
  <2> QED
    BY <1>7, <2>1, <2>2
<1> QED
  BY <1>1, <1>2, <1>3, <1>8

LEMMA StartedIsRecovered ==
  ASSUME NEW w, NEW J, NEW j \in J, IsJob(j), Started(j), NEW R \in Recovered(w, J)
  PROVE  [j EXCEPT !.loaded = TRUE] \in R
<1> DEFINE loaded == {[i EXCEPT !.loaded = TRUE] : i \in J}
           anchors == UNION {Anchors(loaded, s) : s \in Schedules}
           closed == {IF Unstarted(i) /\ Scheduled(i) /\ w.now >= i.deadline THEN Ended(i, "FAILED") ELSE i
                        : i \in loaded}
<1>1. R \in Reconciled(w, Backfilled(w, closed, anchors))
  BY DEF Recovered
<1>2. PICK k : k = [j EXCEPT !.loaded = TRUE]
  OBVIOUS
<1>3. k \in loaded
  BY <1>2
<1>4. Started(k)
  BY <1>2, LoadedFields DEF Started, Unstarted, Scheduled, Identity
<1> HIDE DEF loaded
<1>5. k \in closed
  BY <1>3, <1>4 DEF Started
<1> HIDE DEF closed, anchors
<1>6. k \in Backfilled(w, closed, anchors)
  BY <1>5 DEF Backfilled
<1> QED
  BY <1>1, <1>2, <1>4, <1>6, StartedSurvives

\* The job goes on, is read back from the disk, or has run.
LEMMA SameJobs ==
  ASSUME NEW j, IsJob(j), Running(j)
  PROVE  /\ SameJob(j, j) /\ Ran(j)
         /\ SameJob(j, [j EXCEPT !.loaded = TRUE]) /\ Ran([j EXCEPT !.loaded = TRUE])
         /\ SameJob(j, Ended(j, "RUN")) /\ Ran(Ended(j, "RUN"))
<1>1. SameJob(j, j) /\ Ran(j)
  BY DEF SameJob, Ran
<1>2. PICK k : k = [j EXCEPT !.loaded = TRUE]
  OBVIOUS
<1>3. SameJob(j, k)
  BY <1>2 DEF SameJob, IsJob, Fields
<1>4. Ran(k)
  BY <1>2, LoadedFields DEF Ran, Running
<1>5. PICK e : e = Ended(j, "RUN")
  OBVIOUS
<1>6. SameJob(j, e)
  BY <1>5 DEF SameJob, Ended, IsJob, Fields
<1>7. Ran(e)
  BY <1>5, EndedFields DEF Ran
<1> QED
  BY <1>1, <1>2, <1>3, <1>4, <1>5, <1>6, <1>7

LEMMA ThenSurvives ==
  ASSUME NEW w, NEW J, Then(w, J), NEW j \in J, Started(j)
  PROVE  j \in jobs'
<1>1. PICK R : R = jobs' /\ R \in Reconciled(w, J)
  BY DEF Then
<1> QED
  BY <1>1, StartedSurvives

\* A job that runs goes on, or has run: no edit, rebuild, switch between dry
\* run and real, reset of the test clock, downtime or reconcile takes it away
\* or lets it run anew (_async_startup_recovery, _apply_execution_mode_change,
\* async_reconcile_current_timeline, async_rebuild_schedule_projection).
THEOREM RunningIsLeftAlone == Spec => RunningStays
<1> DEFINE Real(j) == Running(j) /\ Scheduled(j) /\ j.mode = "REAL"
           Goes(j) == \E k \in jobs' : SameJob(j, k) /\ Ran(k)
<1>1. ASSUME IInv, NEW j \in jobs, Real(j), [Next]_vars
      PROVE  Goes(j)
  <2>1. IsJob(j) /\ Started(j) /\ Running(j) /\ Scheduled(j) /\ j.mode = "REAL" /\ j.mode # "DRY_RUN"
        /\ ~Unstarted(j)
    BY <1>1, TodayFields DEF Sound, Started, Running, Unstarted
  <2>2. ASSUME NEW w, NEW J, Then(w, J), j \in J PROVE Goes(j)
    BY <2>1, <2>2, ThenSurvives, SameJobs
  <2>3. ASSUME NEW w, NEW R \in Recovered(w, jobs), R = jobs' PROVE Goes(j)
    BY <2>1, <2>3, StartedIsRecovered, SameJobs
  <2>4. CASE Tick
    BY <2>2, <2>4 DEF Tick
  <2>5. ASSUME NEW i, Finish(i) PROVE Goes(j)
    <3>1. PICK e : e = Ended(i, "RUN")
      OBVIOUS
    <3>2. Then(Today, Kept((jobs \ {i}) \cup {e})) /\ i \in jobs
      BY <2>5, <3>1 DEF Finish
    <3>3. PICK w, J : w = Today /\ J = Kept((jobs \ {i}) \cup {e})
      OBVIOUS
    <3>4. CASE i # j
      <4>1. j \in J
        BY <2>1, <3>3, <3>4 DEF Kept, Scheduled
      <4> QED
        BY <2>2, <3>2, <3>3, <4>1
    <3>5. CASE i = j
      <4>1. Started(e)
        BY <2>1, <3>1, <3>5, EndedFields DEF Started, Scheduled, Identity
      <4>2. e \in J
        BY <3>3, <4>1 DEF Kept, Started, Scheduled
      <4>3. e \in jobs'
        BY <3>2, <3>3, <4>1, <4>2, ThenSurvives
      <4> QED
        BY <2>1, <3>1, <3>5, <4>3, SameJobs
    <3> QED
      BY <3>4, <3>5
  <2>6. ASSUME NEW n, Restart(n) PROVE Goes(j)
    BY <2>3, <2>6 DEF Restart
  <2>7. ASSUME NEW s, NEW r, SaveSchedule(s, r) PROVE Goes(j)
    BY <2>3, <2>7 DEF SaveSchedule
  <2>8. ASSUME NEW s, DeleteSchedule(s) PROVE Goes(j)
    BY <2>3, <2>8 DEF DeleteSchedule
  <2>9. ASSUME NEW s, SetEnabled(s) \/ SetPaused(s) PROVE Goes(j)
    BY <2>2, <2>9 DEF SetEnabled, SetPaused
  <2>10. ASSUME NEW i, Skip(i) PROVE Goes(j)
    <3>1. PICK w, J : w = Today /\ J = Kept((jobs \ {i}) \cup {Ended(i, "SKIPPED")})
      OBVIOUS
    <3>2. Then(w, J) /\ i # j
      BY <2>1, <2>10, <3>1 DEF Skip
    <3>3. j \in J
      BY <2>1, <3>1, <3>2 DEF Kept, Scheduled
    <3> QED
      BY <2>2, <3>2, <3>3
  <2>11. ASSUME NEW i, StartEarly(i) PROVE Goes(j)
    <3>1. PICK w, J : w = Today /\ J = (jobs \ {i}) \cup {[i EXCEPT !.forced = TRUE]}
      OBVIOUS
    <3>2. Then(w, J) /\ i # j
      BY <2>1, <2>11, <3>1 DEF StartEarly, Startable
    <3> QED
      BY <2>2, <3>1, <3>2
  <2>12. ASSUME NEW s, RunNow(s) PROVE Goes(j)
    <3>1. PICK w, J : w = Today /\ J = jobs \cup {Manual(s)}
      OBVIOUS
    <3> QED
      BY <2>2, <2>12, <3>1 DEF RunNow
  <2>13. ASSUME NEW s, SmartRun(s) PROVE Goes(j)
    BY <2>11, <2>12, <2>13 DEF SmartRun
  <2>14. ASSUME NEW restore, Rebuild(restore) PROVE Goes(j)
    <3>1. PICK w, J : w = Today /\ J = Rebuilt(Today, jobs, restore)
      OBVIOUS
    <3>2. j \in J
      BY <2>1, <3>1 DEF Rebuilt
    <3> QED
      BY <2>2, <2>14, <3>1, <3>2 DEF Rebuild
  <2>15. \A w, reset : j \in OnTimeline(w, jobs, reset)
    BY <2>1 DEF OnTimeline
  <2>16. CASE ReconcileTimeline
    BY <2>2, <2>15, <2>16 DEF ReconcileTimeline
  <2>17. CASE ResetTime
    BY <2>2, <2>15, <2>17 DEF ResetTime
  <2>18. CASE ResetDryRun
    <3>1. PICK w, J : w = [Today EXCEPT !.now = real] /\ J = {i \in jobs : i.mode # "DRY_RUN"}
      OBVIOUS
    <3> QED
      BY <2>1, <2>2, <2>18, <3>1 DEF ResetDryRun
  <2>19. CASE SetMode
    <3>1. \A w : j \in Switched(w, jobs)
      BY <2>1 DEF Switched
    <3> QED
      BY <2>2, <2>19, <3>1 DEF SetMode
  <2>20. ASSUME NEW n, AdvanceTime(n) PROVE Goes(j)
    BY <2>2, <2>20 DEF AdvanceTime
  <2>21. CASE UNCHANGED vars
    BY <2>1, <2>21, SameJobs DEF vars
  <2> HIDE DEF Goes
  <2>22. CASE Passing
    BY <2>4, <2>5, <2>6, <2>22 DEF Passing
  <2>23. CASE Planning
    BY <2>7, <2>8, <2>9, <2>10, <2>11, <2>12, <2>13, <2>14, <2>23 DEF Planning
  <2>24. CASE Simulating
    BY <2>16, <2>17, <2>18, <2>19, <2>20, <2>24 DEF Simulating
  <2> QED
    BY <1>1, <2>21, <2>22, <2>23, <2>24 DEF Next
<1>2. IInv /\ [Next]_vars => [\A j \in jobs : Real(j) => Goes(j)]_vars
  BY <1>1
<1> QED
  BY <1>2, Invariant, PTL DEF Spec, RunningStays
===============================================================================
