-------------------------- MODULE JobScheduler_proofs --------------------------
(***************************************************************************)
(* What the arbiter's sort returns, for every set of candidates, and that  *)
(* the reconcile built on it keeps one physical lease and loses no zone,   *)
(* for any number of jobs, zones, passes and attempts.                     *)
(*                                                                         *)
(* The sort: the library's induction theorems take an operator and cannot  *)
(* be used.  That the finite subsets of a set are well founded under       *)
(* strict inclusion takes none: with n standing for 1..n it gives the      *)
(* least natural, and with a candidate standing for those before it the    *)
(* least candidate, which is what sorted() puts first.                     *)
(*                                                                         *)
(* The reconcile: its results assume LateBlockersFirst, a late blocker     *)
(* takes back only first passes.  Without it the run jobs_lease shows two  *)
(* attempts at once.                                                       *)
(***************************************************************************)
EXTENDS JobScheduler, ArbiterPool, FiniteSetTheorems, TLAPS

-----------------------------------------------------------------------------
(* Induction over sets *)

LEMMA LeastNatural ==
  ASSUME NEW T, T \subseteq Nat, T # {}
  PROVE  \E n \in T : \A m \in T : n <= m
<1> DEFINE R == StrictSubsetOrdering(Nat)
           I == {1..n : n \in T}
<1>1. \A n \in Nat : 1..n \subseteq Nat /\ IsFiniteSet(1..n)
  BY FS_Interval
<1>2. I \subseteq FiniteSubsetsOf(Nat) /\ I # {}
  BY <1>1 DEF FiniteSubsetsOf
<1>3. IsWellFoundedOn(R, FiniteSubsetsOf(Nat))
  BY FS_StrictSubsetOrderingWellFounded
<1> HIDE DEF R, I
<1>4. PICK X \in I : \A Y \in I : <<Y, X>> \notin R
  BY <1>2, <1>3, WFMin
<1>5. PICK n \in T : X = 1..n
  BY <1>4 DEF I
<1>6. ASSUME NEW m \in T, m < n PROVE FALSE
  <2>1. 1..m \in I
    BY DEF I
  <2>2. n \in 1..n /\ n \notin 1..m /\ 1..m \subseteq 1..n
    BY <1>6
  <2>3. <<1..m, 1..n>> \in R
    BY <2>2, <1>1 DEF R, StrictSubsetOrdering
  <2> QED
    BY <2>1, <2>3, <1>4, <1>5
<1> QED
  BY <1>6

LEMMA SetInduction ==
  ASSUME NEW S, 0 \in S, \A n \in S \cap Nat : n + 1 \in S
  PROVE  Nat \subseteq S
<1> SUFFICES ASSUME Nat \ S # {} PROVE FALSE
  OBVIOUS
<1>1. PICK n \in Nat \ S : \A m \in Nat \ S : n <= m
  BY LeastNatural
<1>2. n # 0 /\ n - 1 \in Nat /\ n - 1 \notin Nat \ S
  BY <1>1
<1> QED
  BY <1>1, <1>2

\* A finite set has a least member under a strict order.
LEMMA LeastMember ==
  ASSUME NEW S, IsFiniteSet(S), S # {}, NEW R,
         \A c \in S : <<c, c>> \notin R,
         \A c, d, e \in S : <<c, d>> \in R /\ <<d, e>> \in R => <<c, e>> \in R
  PROVE  \E c \in S : \A d \in S : <<d, c>> \notin R
<1> DEFINE before(c) == {d \in S : <<d, c>> \in R}
           rank == [c \in S |-> Cardinality(before(c))]
<1>1. ASSUME NEW c \in S
      PROVE  /\ IsFiniteSet(before(c)) /\ Cardinality(before(c)) \in Nat
             /\ rank[c] = Cardinality(before(c)) /\ rank[c] \in Nat
  <2>1. before(c) \in SUBSET S
    OBVIOUS
  <2>2. rank[c] = Cardinality(before(c))
    OBVIOUS
  <2> HIDE DEF before, rank
  <2> QED
    BY <2>1, <2>2, FS_Subset, FS_CardinalityType
<1>2. \A c \in S : rank[c] \in Nat
  BY <1>1
<1> HIDE DEF rank
<1>3. PICK c \in S : \A d \in S : rank[c] <= rank[d]
  <2>1. {rank[c] : c \in S} \subseteq Nat /\ {rank[c] : c \in S} # {}
    BY <1>2
  <2>2. PICK n \in {rank[c] : c \in S} : \A m \in {rank[c] : c \in S} : n <= m
    BY <2>1, LeastNatural
  <2> QED
    BY <2>2
<1>4. ASSUME NEW d \in S, <<d, c>> \in R PROVE FALSE
  <2>1. before(d) \in SUBSET before(c) /\ d \in before(c) /\ d \notin before(d)
    BY <1>4
  <2>2. before(d) \in SUBSET before(c) /\ before(d) # before(c)
    BY <2>1
  <2> HIDE DEF before
  <2>3. Cardinality(before(d)) <= Cardinality(before(c)) /\ Cardinality(before(d)) # Cardinality(before(c))
    BY <2>2, <1>1, FS_Subset
  <2> QED
    BY <2>3, <1>1, <1>2, <1>3
<1> QED
  BY <1>3, <1>4

-----------------------------------------------------------------------------
(* Keys *)

InOrder2(s, t) == s[1] < t[1] \/ (s[1] = t[1] /\ s[2] < t[2])

InOrder3(s, t) ==
  \/ s[1] < t[1]
  \/ s[1] = t[1] /\ s[2] < t[2]
  \/ s[1] = t[1] /\ s[2] = t[2] /\ s[3] < t[3]

LEMMA PairOrder ==
  ASSUME NEW s \in Int \X Int, NEW t \in Int \X Int
  PROVE  Precedes(s, t) <=> InOrder2(s, t)
<1>1. DOMAIN s = 1..2
  OBVIOUS
<1>2. Precedes(s, t) => InOrder2(s, t)
  BY <1>1 DEF Precedes, InOrder2
<1>3. ASSUME s[1] < t[1] PROVE Precedes(s, t)
  <2>1. 1 \in DOMAIN s /\ 1..1 - 1 = {}
    BY <1>1
  <2> QED
    BY <1>3, <2>1 DEF Precedes
<1>4. ASSUME s[1] = t[1], s[2] < t[2] PROVE Precedes(s, t)
  <2>1. 2 \in DOMAIN s /\ 1..2 - 1 = {1}
    BY <1>1
  <2> QED
    BY <1>4, <2>1 DEF Precedes
<1> QED
  BY <1>2, <1>3, <1>4 DEF InOrder2

LEMMA TripleOrder ==
  ASSUME NEW s \in Int \X Int \X Int, NEW t \in Int \X Int \X Int
  PROVE  Precedes(s, t) <=> InOrder3(s, t)
<1>1. DOMAIN s = 1..3
  OBVIOUS
<1>2. ASSUME Precedes(s, t) PROVE InOrder3(s, t)
  <2>1. PICK i \in 1..3 : s[i] < t[i] /\ \A k \in 1..i - 1 : s[k] = t[k]
    BY <1>1, <1>2 DEF Precedes
  <2>2. CASE i = 1
    BY <2>1, <2>2 DEF InOrder3
  <2>3. CASE i = 2
    BY <2>1, <2>3 DEF InOrder3
  <2>4. CASE i = 3
    BY <2>1, <2>4 DEF InOrder3
  <2> QED
    BY <2>2, <2>3, <2>4
<1>3. ASSUME s[1] < t[1] PROVE Precedes(s, t)
  <2>1. 1 \in DOMAIN s /\ 1..1 - 1 = {}
    BY <1>1
  <2> QED
    BY <1>3, <2>1 DEF Precedes
<1>4. ASSUME s[1] = t[1], s[2] < t[2] PROVE Precedes(s, t)
  <2>1. 2 \in DOMAIN s /\ 1..2 - 1 = {1}
    BY <1>1
  <2> QED
    BY <1>4, <2>1 DEF Precedes
<1>5. ASSUME s[1] = t[1], s[2] = t[2], s[3] < t[3] PROVE Precedes(s, t)
  <2>1. 3 \in DOMAIN s /\ 1..3 - 1 = {1, 2}
    BY <1>1
  <2> QED
    BY <1>5, <2>1 DEF Precedes
<1> QED
  BY <1>2, <1>3, <1>4, <1>5 DEF InOrder3

-----------------------------------------------------------------------------
(* Sorting by an order *)

\* The members of S that stand before c.
Before(S, R, c) == {d \in S : <<d, c>> \in R}

\* SortedBy with its order as a set of pairs, which lemmas can be about.
Sorted(S, R) ==
  [i \in 1..Cardinality(S) |-> CHOOSE c \in S : Cardinality(Before(S, R, c)) = i - 1]

StrictOrder(R, S) ==
  /\ \A c \in S : <<c, c>> \notin R
  /\ \A c, d, e \in S : <<c, d>> \in R /\ <<d, e>> \in R => <<c, e>> \in R

\* One of any two members stands before the other.
Total(R, S) == \A c, d \in S : c # d => <<c, d>> \in R \/ <<d, c>> \in R

IsList(q) == q \in Seq({q[i] : i \in DOMAIN q})

LEMMA FunctionIsSequence ==
  ASSUME NEW n \in Nat, NEW q, q = [i \in 1..n |-> q[i]]
  PROVE  IsList(q) /\ Len(q) = n
<1>1. DOMAIN q = 1..n /\ q \in [1..n -> {q[i] : i \in DOMAIN q}]
  OBVIOUS
<1> QED
  BY <1>1 DEF IsList

LEMMA TailOfList ==
  ASSUME NEW q, IsList(q), Len(q) # 0
  PROVE  Tail(q) = [i \in 1..Len(q) - 1 |-> q[i + 1]]
<1> DEFINE X == {q[i] : i \in DOMAIN q}
           p == Tail(q)
<1>1. q \in Seq(X) /\ Len(q) \in Nat
  BY DEF IsList
<1> HIDE DEF X
<1>2. p \in Seq(X) /\ Len(p) = Len(q) - 1 /\ \A i \in 1..Len(q) - 1 : p[i] = q[i + 1]
  BY <1>1
<1> HIDE DEF p
<1>3. p = [i \in 1..Len(p) |-> p[i]]
  BY <1>2
<1>4. p = [i \in 1..Len(q) - 1 |-> q[i + 1]]
  BY <1>2, <1>3
<1> QED
  BY <1>4 DEF p

LEMMA NoneBefore ==
  ASSUME NEW B, IsFiniteSet(B), Cardinality(B) = 1 - 1
  PROVE  B = {}
BY FS_EmptySet

\* A sorted set is a list as long as the set.
LEMMA SortedIsList ==
  ASSUME NEW S, IsFiniteSet(S), NEW R
  PROVE  /\ IsList(Sorted(S, R)) /\ Len(Sorted(S, R)) = Cardinality(S)
         /\ Sorted(S, R) = <<>> <=> S = {}
<1> DEFINE n == Cardinality(S)
           q == Sorted(S, R)
<1>1. n \in Nat /\ (n = 0 <=> S = {})
  BY FS_CardinalityType, FS_EmptySet
<1>2. q = [i \in 1..n |-> q[i]]
  BY DEF Sorted
<1> HIDE DEF q, n
<1>3. IsList(q) /\ Len(q) = n
  BY <1>1, <1>2, FunctionIsSequence
<1>4. q = <<>> <=> n = 0
  BY <1>1, <1>3 DEF IsList
<1> QED
  BY <1>1, <1>3, <1>4 DEF q, n

\* It begins with the member that no other one precedes.
LEMMA SortedBeginsWithLeast ==
  ASSUME NEW S, IsFiniteSet(S), S # {}, NEW R, StrictOrder(R, S)
  PROVE  /\ Sorted(S, R)[1] \in S /\ Head(Sorted(S, R)) = Sorted(S, R)[1]
         /\ \A d \in S : <<d, Sorted(S, R)[1]>> \notin R
<1> DEFINE w == CHOOSE c \in S : Cardinality(Before(S, R, c)) = 1 - 1
<1>1. PICK c \in S : \A d \in S : <<d, c>> \notin R
  BY LeastMember DEF StrictOrder
<1>2. Before(S, R, c) = {}
  BY <1>1 DEF Before
<1>3. Cardinality(Before(S, R, c)) = 1 - 1
  BY <1>2, FS_EmptySet
<1>4. w \in S /\ Cardinality(Before(S, R, w)) = 1 - 1
  BY <1>3
<1>5. Sorted(S, R)[1] = w
  <2>1. 1 \in 1..Cardinality(S)
    BY FS_CardinalityType, FS_EmptySet
  <2> QED
    BY <2>1 DEF Sorted
<1> HIDE DEF w
<1>6. \A d \in S : <<d, w>> \notin R
  <2>1. Before(S, R, w) \in SUBSET S
    BY DEF Before
  <2>2. Before(S, R, w) = {}
    BY <1>4, <2>1, FS_Subset, NoneBefore
  <2> QED
    BY <2>2 DEF Before
<1>7. Sorted(S, R) # <<>> /\ IsList(Sorted(S, R))
  BY SortedIsList
<1>8. Head(Sorted(S, R)) = Sorted(S, R)[1]
  BY <1>7 DEF IsList
<1> QED
  BY <1>4, <1>5, <1>6, <1>8

\* Without its first member, the rest of a sorted set is what sorting makes of it.
LEMMA SortedTail ==
  ASSUME NEW S, IsFiniteSet(S), S # {}, NEW R, StrictOrder(R, S), Total(R, S)
  PROVE  Tail(Sorted(S, R)) = Sorted(S \ {Sorted(S, R)[1]}, R)
<1> DEFINE q == Sorted(S, R)
           w == q[1]
           T == S \ {w}
           r == Sorted(T, R)
           n == Cardinality(S)
           all(c) == Cardinality(Before(S, R, c))
           rest(c) == Cardinality(Before(T, R, c))
           pick(i) == CHOOSE c \in S : all(c) = i - 1
           next(i) == CHOOSE c \in T : rest(c) = i - 1
<1>1. w \in S /\ \A d \in S : <<d, w>> \notin R
  BY SortedBeginsWithLeast
<1>2. IsList(q) /\ Len(q) = n /\ n \in Nat /\ n # 0
  BY SortedIsList, FS_CardinalityType, FS_EmptySet
<1>3. q = [i \in 1..n |-> pick(i)]
  BY DEF Sorted
<1> HIDE DEF q, w
<1>4. IsFiniteSet(T) /\ Cardinality(T) = n - 1
  BY <1>1, FS_RemoveElement
<1>5. r = [i \in 1..n - 1 |-> next(i)]
  BY <1>4 DEF Sorted
<1>6. ASSUME NEW c \in S
      PROVE  (IF c = w THEN all(c) = 0 ELSE all(c) = rest(c) + 1) /\ rest(c) \in Nat
  <2> DEFINE A == Before(S, R, c)
             B == Before(T, R, c)
  <2>1. B = A \ {w} /\ A \in SUBSET S
    BY DEF Before
  <2>2. c = w => A = {}
    BY <1>1 DEF Before
  <2>3. c # w => w \in A
    BY <1>1 DEF Before, Total
  <2>4. all(c) = Cardinality(A) /\ rest(c) = Cardinality(B)
    OBVIOUS
  <2> HIDE DEF A, B, all, rest
  <2>5. IsFiniteSet(A)
    BY <2>1, FS_Subset
  <2>6. /\ IsFiniteSet(B) /\ Cardinality(A) \in Nat
        /\ Cardinality(B) = IF w \in A THEN Cardinality(A) - 1 ELSE Cardinality(A)
    BY <2>1, <2>5, FS_CardinalityType, FS_RemoveElement
  <2>7. Cardinality(B) \in Nat
    BY <2>6, FS_CardinalityType
  <2> QED
    BY <2>2, <2>3, <2>4, <2>6, <2>7, FS_EmptySet
<1>7. ASSUME NEW i \in 1..n - 1 PROVE pick(i + 1) = next(i)
  <2> HIDE DEF all, rest
  <2>1. ASSUME NEW c
        PROVE  c \in S /\ all(c) = (i + 1) - 1 <=> c \in T /\ rest(c) = i - 1
    BY <1>2, <1>6
  <2> HIDE DEF T, n
  <2> QED
    BY <2>1, Zenon
<1> HIDE DEF T, n, r, pick, next
<1>8. DOMAIN q = 1..n /\ \A i \in 1..n : q[i] = pick(i)
  BY <1>3
<1>9. DOMAIN r = 1..n - 1 /\ r = [i \in 1..n - 1 |-> r[i]] /\ \A i \in 1..n - 1 : r[i] = next(i)
  BY <1>5
<1>10. \A i \in 1..n - 1 : q[i + 1] = r[i]
  BY <1>2, <1>7, <1>8, <1>9
<1>11. Tail(q) = [i \in 1..n - 1 |-> q[i + 1]]
  BY <1>2, TailOfList
<1>12. Tail(q) = r
  BY <1>9, <1>10, <1>11
<1> QED
  BY <1>12 DEF q, w, T, r

-----------------------------------------------------------------------------
(* The three orders of the arbiter *)

ManualOrder == {p \in Candidates \X Candidates : InOrder3(ManualKey(p[1]), ManualKey(p[2]))}
ForcedOrder == {p \in Candidates \X Candidates : InOrder3(ForcedKey(p[1]), ForcedKey(p[2]))}
ScheduledOrder == {p \in Candidates \X Candidates : InOrder2(ScheduledKey(p[1]), ScheduledKey(p[2]))}

LEMMA Keys ==
  ASSUME NEW c \in Candidates
  PROVE  /\ ManualKey(c) \in Int \X Int \X Int /\ ForcedKey(c) \in Int \X Int \X Int
         /\ ScheduledKey(c) \in Int \X Int
         /\ ManualKey(c)[3] = c.id /\ ForcedKey(c)[3] = c.id /\ ScheduledKey(c)[2] = c.id
BY DEF ManualKey, ManualSince, ForcedKey, ScheduledKey, Candidates, Never

\* To stand before somebody is to have the lesser key.
LEMMA KeyOrders ==
  ASSUME NEW c \in Candidates, NEW d \in Candidates
  PROVE  /\ Precedes(ManualKey(c), ManualKey(d)) <=> <<c, d>> \in ManualOrder
         /\ Precedes(ForcedKey(c), ForcedKey(d)) <=> <<c, d>> \in ForcedOrder
         /\ Precedes(ScheduledKey(c), ScheduledKey(d)) <=> <<c, d>> \in ScheduledOrder
<1>1. /\ <<c, d>> \in ManualOrder <=> InOrder3(ManualKey(c), ManualKey(d))
      /\ <<c, d>> \in ForcedOrder <=> InOrder3(ForcedKey(c), ForcedKey(d))
      /\ <<c, d>> \in ScheduledOrder <=> InOrder2(ScheduledKey(c), ScheduledKey(d))
  BY DEF ManualOrder, ForcedOrder, ScheduledOrder
<1>2. /\ ManualKey(c) \in Int \X Int \X Int /\ ManualKey(d) \in Int \X Int \X Int
      /\ ForcedKey(c) \in Int \X Int \X Int /\ ForcedKey(d) \in Int \X Int \X Int
      /\ ScheduledKey(c) \in Int \X Int /\ ScheduledKey(d) \in Int \X Int
  BY Keys
<1> QED
  BY <1>1, <1>2, PairOrder, TripleOrder

\* No two of S are the same job.
OnePerJob(S) == \A c, d \in S : c.id = d.id => c = d

LEMMA OrdersAreStrict ==
  ASSUME NEW S, S \subseteq Candidates
  PROVE  /\ StrictOrder(ManualOrder, S) /\ StrictOrder(ForcedOrder, S) /\ StrictOrder(ScheduledOrder, S)
         /\ OnePerJob(S) => /\ Total(ManualOrder, S) /\ Total(ForcedOrder, S)
                            /\ Total(ScheduledOrder, S)
<1>1. StrictOrder(ManualOrder, S) /\ (OnePerJob(S) => Total(ManualOrder, S))
  BY Keys DEF StrictOrder, Total, OnePerJob, ManualOrder, InOrder3
<1>2. StrictOrder(ForcedOrder, S) /\ (OnePerJob(S) => Total(ForcedOrder, S))
  BY Keys DEF StrictOrder, Total, OnePerJob, ForcedOrder, InOrder3
<1>3. StrictOrder(ScheduledOrder, S) /\ (OnePerJob(S) => Total(ScheduledOrder, S))
  BY Keys DEF StrictOrder, Total, OnePerJob, ScheduledOrder, InOrder2
<1> QED
  BY <1>1, <1>2, <1>3

LEMMA SortedByOrder ==
  ASSUME NEW S, S \subseteq Candidates
  PROVE  /\ SortedBy(S, ManualKey) = Sorted(S, ManualOrder)
         /\ SortedBy(S, ForcedKey) = Sorted(S, ForcedOrder)
         /\ SortedBy(S, ScheduledKey) = Sorted(S, ScheduledOrder)
<1>1. \A c \in S : /\ {d \in S : Precedes(ManualKey(d), ManualKey(c))} = Before(S, ManualOrder, c)
                   /\ {d \in S : Precedes(ForcedKey(d), ForcedKey(c))} = Before(S, ForcedOrder, c)
                   /\ {d \in S : Precedes(ScheduledKey(d), ScheduledKey(c))} = Before(S, ScheduledOrder, c)
  BY KeyOrders DEF Before
<1>2. SortedBy(S, ManualKey) = Sorted(S, ManualOrder)
  <2> DEFINE pick(i) == CHOOSE c \in S : Cardinality({d \in S : Precedes(ManualKey(d), ManualKey(c))}) = i - 1
             same(i) == CHOOSE c \in S : Cardinality(Before(S, ManualOrder, c)) = i - 1
  <2>1. ASSUME NEW i PROVE pick(i) = same(i)
    BY <1>1, Zenon
  <2>2. /\ SortedBy(S, ManualKey) = [i \in 1..Cardinality(S) |-> pick(i)]
        /\ Sorted(S, ManualOrder) = [i \in 1..Cardinality(S) |-> same(i)]
    BY DEF SortedBy, Sorted
  <2> HIDE DEF pick, same
  <2> QED
    BY <2>1, <2>2
<1>3. SortedBy(S, ForcedKey) = Sorted(S, ForcedOrder)
  <2> DEFINE pick(i) == CHOOSE c \in S : Cardinality({d \in S : Precedes(ForcedKey(d), ForcedKey(c))}) = i - 1
             same(i) == CHOOSE c \in S : Cardinality(Before(S, ForcedOrder, c)) = i - 1
  <2>1. ASSUME NEW i PROVE pick(i) = same(i)
    BY <1>1, Zenon
  <2>2. /\ SortedBy(S, ForcedKey) = [i \in 1..Cardinality(S) |-> pick(i)]
        /\ Sorted(S, ForcedOrder) = [i \in 1..Cardinality(S) |-> same(i)]
    BY DEF SortedBy, Sorted
  <2> HIDE DEF pick, same
  <2> QED
    BY <2>1, <2>2
<1>4. SortedBy(S, ScheduledKey) = Sorted(S, ScheduledOrder)
  <2> DEFINE pick(i) == CHOOSE c \in S : Cardinality({d \in S : Precedes(ScheduledKey(d), ScheduledKey(c))}) = i - 1
             same(i) == CHOOSE c \in S : Cardinality(Before(S, ScheduledOrder, c)) = i - 1
  <2>1. ASSUME NEW i PROVE pick(i) = same(i)
    BY <1>1, Zenon
  <2>2. /\ SortedBy(S, ScheduledKey) = [i \in 1..Cardinality(S) |-> pick(i)]
        /\ Sorted(S, ScheduledOrder) = [i \in 1..Cardinality(S) |-> same(i)]
    BY DEF SortedBy, Sorted
  <2> HIDE DEF pick, same
  <2> QED
    BY <2>1, <2>2
<1> QED
  BY <1>2, <1>3, <1>4

-----------------------------------------------------------------------------
(* The winner *)

LEMMA Concatenation ==
  ASSUME NEW p, NEW q, IsList(p), IsList(q)
  PROVE  /\ IsList(p \o q)
         /\ p \o q = <<>> <=> p = <<>> /\ q = <<>>
         /\ p # <<>> => Head(p \o q) = Head(p) /\ Tail(p \o q) = Tail(p) \o q
         /\ p = <<>> => p \o q = q
         /\ q = <<>> => p \o q = p
         /\ p # <<>> => IsList(Tail(p))
<1> DEFINE X == {p[i] : i \in DOMAIN p} \cup {q[i] : i \in DOMAIN q}
           r == p \o q
<1>1. p \in Seq(X) /\ q \in Seq(X)
  BY DEF IsList
<1> HIDE DEF X
<1>2. r \in Seq(X) /\ Len(r) = Len(p) + Len(q)
  BY <1>1
<1>3. p # <<>> => r[1] = p[1]
  BY <1>1
<1>4. p = <<>> => r = q
  BY <1>1
<1>5. r = <<>> <=> p = <<>> /\ q = <<>>
  BY <1>1, <1>2
<1>6. ASSUME p # <<>> PROVE Tail(r) = Tail(p) \o q
  <2> DEFINE u == Tail(r)
             v == Tail(p) \o q
  <2>1. Tail(p) \in Seq(X) /\ Len(Tail(p)) = Len(p) - 1 /\ \A i \in 1..Len(p) - 1 : Tail(p)[i] = p[i + 1]
    BY <1>1, <1>6
  <2>2. u \in Seq(X) /\ Len(u) = Len(p) + Len(q) - 1 /\ \A i \in 1..Len(u) : u[i] = r[i + 1]
    BY <1>1, <1>2, <1>5, <1>6
  <2>3. v \in Seq(X) /\ Len(v) = Len(p) - 1 + Len(q)
    BY <1>1, <2>1
  <2>4. ASSUME NEW i \in 1..Len(p) + Len(q) - 1 PROVE u[i] = v[i]
    <3>1. CASE i <= Len(p) - 1
      <4>1. v[i] = Tail(p)[i]
        BY <1>1, <2>1, <3>1
      <4>2. r[i + 1] = p[i + 1]
        BY <1>1, <3>1
      <4> QED
        BY <1>1, <2>1, <2>2, <3>1, <4>1, <4>2
    <3>2. CASE i > Len(p) - 1
      <4>1. v[i] = q[i - (Len(p) - 1)]
        BY <1>1, <2>1, <3>2
      <4>2. r[i + 1] = q[i + 1 - Len(p)]
        BY <1>1, <3>2
      <4>3. i - (Len(p) - 1) = i + 1 - Len(p)
        BY <1>1
      <4> QED
        BY <1>1, <2>2, <4>1, <4>2, <4>3
    <3> QED
      BY <1>1, <3>1, <3>2
  <2> HIDE DEF u, v
  <2> QED
    BY <1>1, <2>2, <2>3, <2>4 DEF u, v
<1> HIDE DEF r
<1>7. IsList(r)
  BY <1>2 DEF IsList
<1>8. p # <<>> => Head(r) = Head(p)
  BY <1>1, <1>2, <1>3, <1>5
<1>9. q = <<>> => r = p
  BY <1>1 DEF r
<1>10. ASSUME p # <<>> PROVE IsList(Tail(p))
  <2> DEFINE u == Tail(p)
  <2>1. u \in Seq(X)
    BY <1>1, <1>10
  <2> HIDE DEF u
  <2>2. IsList(u)
    BY <2>1 DEF IsList
  <2> QED
    BY <2>2 DEF u
<1> QED
  BY <1>4, <1>5, <1>6, <1>7, <1>8, <1>9, <1>10 DEF r

\* The early starts that need not wait for scheduled work, and those that do.
Yielding(S) == {c \in Forced(S) : ~c.preempts /\ Scheduled(S) # {}}
Early(S) == Forced(S) \ Yielding(S)

LEMMA Ranks ==
  ASSUME NEW S, S \subseteq Candidates, IsFiniteSet(S)
  PROVE  \A T \in {Manual(S), Early(S), Scheduled(S), Yielding(S)} :
           T \subseteq S /\ T \subseteq Candidates /\ IsFiniteSet(T)
<1>1. \A T \in {Manual(S), Early(S), Scheduled(S), Yielding(S)} : T \in SUBSET S
  BY DEF Manual, Forced, Scheduled, Yielding, Early
<1> QED
  BY <1>1, FS_Subset

\* The four lists one after the other.
Lists(m, f, s, y) == m \o ((f \o s) \o y)

LEMMA OrderedInRanks ==
  ASSUME NEW S, S \subseteq Candidates, IsFiniteSet(S)
  PROVE  Ordered(S) = Lists(Sorted(Manual(S), ManualOrder), Sorted(Early(S), ForcedOrder),
                            Sorted(Scheduled(S), ScheduledOrder), Sorted(Yielding(S), ForcedOrder))
<1>1. /\ SortedBy(Manual(S), ManualKey) = Sorted(Manual(S), ManualOrder)
      /\ SortedBy(Early(S), ForcedKey) = Sorted(Early(S), ForcedOrder)
      /\ SortedBy(Scheduled(S), ScheduledKey) = Sorted(Scheduled(S), ScheduledOrder)
      /\ SortedBy(Yielding(S), ForcedKey) = Sorted(Yielding(S), ForcedOrder)
  BY Ranks, SortedByOrder
<1>2. Ordered(S) = SortedBy(Manual(S), ManualKey) \o ((SortedBy(Early(S), ForcedKey)
                     \o SortedBy(Scheduled(S), ScheduledKey)) \o SortedBy(Yielding(S), ForcedKey))
  BY DEF Ordered, OrderedNonManual, Yielding, Early
<1> QED
  BY <1>1, <1>2 DEF Lists

\* Who comes first, and what comes after.
LEMMA FirstOfLists ==
  ASSUME NEW m, NEW f, NEW s, NEW y, IsList(m), IsList(f), IsList(s), IsList(y)
  PROVE  /\ m # <<>> => /\ Head(Lists(m, f, s, y)) = Head(m)
                        /\ Tail(Lists(m, f, s, y)) = Lists(Tail(m), f, s, y)
         /\ m = <<>> /\ f # <<>> => /\ Head(Lists(m, f, s, y)) = Head(f)
                                    /\ Tail(Lists(m, f, s, y)) = Lists(m, Tail(f), s, y)
         /\ m = <<>> /\ f = <<>> /\ s # <<>> => /\ Head(Lists(m, f, s, y)) = Head(s)
                                                /\ Tail(Lists(m, f, s, y)) = Lists(m, f, Tail(s), y)
<1>1. CASE m # <<>>
  <2>1. IsList((f \o s) \o y)
    BY Concatenation
  <2> QED
    BY <1>1, <2>1, Concatenation DEF Lists
<1>2. CASE m = <<>> /\ f # <<>>
  <2> DEFINE r == f \o s
             u == Tail(f)
             v == u \o s
  <2>1. IsList(r) /\ r # <<>> /\ Head(r) = Head(f) /\ Tail(r) = v /\ IsList(u)
    BY <1>2, Concatenation
  <2>2. IsList(v)
    BY <2>1, Concatenation
  <2>3. Lists(m, f, s, y) = m \o (r \o y) /\ Lists(m, u, s, y) = m \o (v \o y)
    BY DEF Lists
  <2> HIDE DEF r, u, v
  <2>4. /\ IsList(r \o y) /\ Head(r \o y) = Head(f) /\ Tail(r \o y) = v \o y
        /\ IsList(v \o y)
    BY <2>1, <2>2, Concatenation
  <2>5. m \o (r \o y) = r \o y /\ m \o (v \o y) = v \o y
    BY <1>2, <2>4, Concatenation
  <2> QED
    BY <1>2, <2>3, <2>4, <2>5 DEF u
<1>3. CASE m = <<>> /\ f = <<>> /\ s # <<>>
  <2> DEFINE u == Tail(s)
  <2>1. IsList(u)
    BY <1>3, Concatenation
  <2>2. Lists(m, f, s, y) = m \o ((f \o s) \o y) /\ Lists(m, f, u, y) = m \o ((f \o u) \o y)
    BY DEF Lists
  <2>3. Head(s \o y) = Head(s) /\ Tail(s \o y) = u \o y /\ IsList(s \o y)
    BY <1>3, Concatenation
  <2> HIDE DEF u
  <2>4. f \o s = s /\ f \o u = u /\ IsList(u \o y)
    BY <1>3, <2>1, Concatenation
  <2>5. m \o (s \o y) = s \o y /\ m \o (u \o y) = u \o y
    BY <1>3, <2>3, <2>4, Concatenation
  <2> QED
    BY <1>3, <2>2, <2>3, <2>4, <2>5 DEF u
<1> QED
  BY <1>1, <1>2, <1>3

\* w is a candidate of S which none of the same rank precedes, and nobody is of
\* a higher rank.
Leads(w, S) ==
  \/ w \in Manual(S) /\ \A d \in Manual(S) : <<d, w>> \notin ManualOrder
  \/ /\ Manual(S) = {}
     /\ w \in Early(S) /\ \A d \in Early(S) : <<d, w>> \notin ForcedOrder
  \/ /\ Manual(S) = {} /\ Early(S) = {}
     /\ w \in Scheduled(S) /\ \A d \in Scheduled(S) : <<d, w>> \notin ScheduledOrder

\* The winner of a cycle is one of its candidates, and leads them.
LEMMA WinnerLeads ==
  ASSUME NEW S, S \subseteq Candidates, IsFiniteSet(S), S # {}
  PROVE  \E w \in S : Selected(S, TRUE) = {w} /\ Leads(w, S)
<1> DEFINE m == Sorted(Manual(S), ManualOrder)
           f == Sorted(Early(S), ForcedOrder)
           s == Sorted(Scheduled(S), ScheduledOrder)
           y == Sorted(Yielding(S), ForcedOrder)
           w == Head(Ordered(S))
<1>1. \A T \in {Manual(S), Early(S), Scheduled(S), Yielding(S)} :
        T \subseteq S /\ T \subseteq Candidates /\ IsFiniteSet(T)
  BY Ranks
<1>2. /\ IsList(m) /\ IsList(f) /\ IsList(s) /\ IsList(y)
      /\ m = <<>> <=> Manual(S) = {}
      /\ f = <<>> <=> Early(S) = {}
      /\ s = <<>> <=> Scheduled(S) = {}
  BY <1>1, SortedIsList
<1>3. Ordered(S) = Lists(m, f, s, y)
  BY OrderedInRanks
<1>4. /\ StrictOrder(ManualOrder, Manual(S)) /\ StrictOrder(ForcedOrder, Early(S))
      /\ StrictOrder(ScheduledOrder, Scheduled(S))
  BY <1>1, OrdersAreStrict
<1>5. /\ Manual(S) # {} => Head(m) \in Manual(S) /\ \A d \in Manual(S) : <<d, Head(m)>> \notin ManualOrder
      /\ Early(S) # {} => Head(f) \in Early(S) /\ \A d \in Early(S) : <<d, Head(f)>> \notin ForcedOrder
      /\ Scheduled(S) # {} => /\ Head(s) \in Scheduled(S)
                              /\ \A d \in Scheduled(S) : <<d, Head(s)>> \notin ScheduledOrder
  BY <1>1, <1>4, SortedBeginsWithLeast
<1>6. Manual(S) = {} /\ Early(S) = {} => Scheduled(S) # {}
  BY DEF Manual, Forced, Scheduled, Yielding, Early
<1> HIDE DEF m, f, s, y
<1>7. /\ Manual(S) # {} => w = Head(m)
      /\ Manual(S) = {} /\ Early(S) # {} => w = Head(f)
      /\ Manual(S) = {} /\ Early(S) = {} => w = Head(s)
  BY <1>2, <1>3, <1>6, FirstOfLists
<1>8. Selected(S, TRUE) = {w}
  BY DEF Selected
<1> HIDE DEF w
<1>9. Leads(w, S)
  BY <1>5, <1>6, <1>7 DEF Leads
<1>10. w \in S
  BY <1>1, <1>9 DEF Leads
<1> QED
  BY <1>8, <1>9, <1>10

\* Once the winner has gone, the list is what the arbiter makes of the others.
LEMMA Succession ==
  ASSUME NEW S, S \subseteq Candidates, IsFiniteSet(S), S # {}, OnePerJob(S)
  PROVE  Tail(Ordered(S)) = Ordered(S \ {Head(Ordered(S))})
<1> DEFINE m == Sorted(Manual(S), ManualOrder)
           f == Sorted(Early(S), ForcedOrder)
           s == Sorted(Scheduled(S), ScheduledOrder)
           y == Sorted(Yielding(S), ForcedOrder)
           w == Head(Ordered(S))
           T == S \ {w}
<1>1. \A U \in {Manual(S), Early(S), Scheduled(S), Yielding(S)} :
        U \subseteq S /\ U \subseteq Candidates /\ IsFiniteSet(U)
  BY Ranks
<1>2. /\ IsList(m) /\ IsList(f) /\ IsList(s) /\ IsList(y)
      /\ m = <<>> <=> Manual(S) = {}
      /\ f = <<>> <=> Early(S) = {}
      /\ s = <<>> <=> Scheduled(S) = {}
  BY <1>1, SortedIsList
<1>3. Ordered(S) = Lists(m, f, s, y)
  BY OrderedInRanks
<1>4. /\ StrictOrder(ManualOrder, Manual(S)) /\ Total(ManualOrder, Manual(S))
      /\ StrictOrder(ForcedOrder, Early(S)) /\ Total(ForcedOrder, Early(S))
      /\ StrictOrder(ScheduledOrder, Scheduled(S)) /\ Total(ScheduledOrder, Scheduled(S))
  BY <1>1, OrdersAreStrict DEF OnePerJob
<1>5. /\ Manual(S) # {} => Head(m) \in Manual(S) /\ Tail(m) = Sorted(Manual(S) \ {Head(m)}, ManualOrder)
      /\ Early(S) # {} => Head(f) \in Early(S) /\ Tail(f) = Sorted(Early(S) \ {Head(f)}, ForcedOrder)
      /\ Scheduled(S) # {} => /\ Head(s) \in Scheduled(S)
                              /\ Tail(s) = Sorted(Scheduled(S) \ {Head(s)}, ScheduledOrder)
  BY <1>1, <1>4, SortedBeginsWithLeast, SortedTail
<1>6. Manual(S) = {} /\ Early(S) = {} => Scheduled(S) # {}
  BY DEF Manual, Forced, Scheduled, Yielding, Early
<1>7. /\ Manual(T) = Manual(S) \ {w} /\ Forced(T) = Forced(S) \ {w} /\ Scheduled(T) = Scheduled(S) \ {w}
      /\ Manual(S) \cap Forced(S) = {} /\ Manual(S) \cap Scheduled(S) = {}
      /\ Forced(S) \cap Scheduled(S) = {} /\ Early(S) \subseteq Forced(S)
  BY DEF Manual, Forced, Scheduled, Early
<1>8. T \subseteq Candidates /\ IsFiniteSet(T)
  BY FS_RemoveElement
<1>9. Ordered(T) = Lists(Sorted(Manual(T), ManualOrder), Sorted(Early(T), ForcedOrder),
                         Sorted(Scheduled(T), ScheduledOrder), Sorted(Yielding(T), ForcedOrder))
  BY <1>8, OrderedInRanks
<1> HIDE DEF w, T
<1>10. CASE Manual(S) # {}
  <2>1. w = Head(m) /\ Tail(Ordered(S)) = Lists(Tail(m), f, s, y)
    BY <1>2, <1>3, <1>10, FirstOfLists DEF w
  <2>2. Forced(T) = Forced(S) /\ Scheduled(T) = Scheduled(S) /\ Manual(T) = Manual(S) \ {Head(m)}
    BY <1>5, <1>7, <1>10, <2>1
  <2>3. Yielding(T) = Yielding(S) /\ Early(T) = Early(S)
    BY <2>2 DEF Yielding, Early
  <2> QED
    BY <1>5, <1>9, <1>10, <2>1, <2>2, <2>3 DEF w, T
<1>11. CASE Manual(S) = {} /\ Early(S) # {}
  <2>1. w = Head(f) /\ Tail(Ordered(S)) = Lists(m, Tail(f), s, y)
    BY <1>2, <1>3, <1>11, FirstOfLists DEF w
  <2>2. w \in Early(S) /\ Scheduled(T) = Scheduled(S) /\ Manual(T) = Manual(S)
    BY <1>5, <1>7, <1>11, <2>1
  <2>3. Yielding(T) = Yielding(S) /\ Early(T) = Early(S) \ {Head(f)}
    BY <1>7, <2>1, <2>2 DEF Yielding, Early
  <2> QED
    BY <1>5, <1>9, <1>11, <2>1, <2>2, <2>3 DEF w, T
<1>12. CASE Manual(S) = {} /\ Early(S) = {}
  <2>1. w = Head(s) /\ Tail(Ordered(S)) = Lists(m, f, Tail(s), y)
    BY <1>2, <1>3, <1>6, <1>12, FirstOfLists DEF w
  <2>2. /\ w \in Scheduled(S) /\ Forced(T) = Forced(S) /\ Manual(T) = Manual(S)
        /\ Scheduled(T) = Scheduled(S) \ {Head(s)}
        /\ Tail(s) = Sorted(Scheduled(T), ScheduledOrder)
    BY <1>5, <1>6, <1>7, <1>12, <2>1
  <2>3. CASE Scheduled(T) # {}
    <3>1. Yielding(T) = Yielding(S) /\ Early(T) = Early(S)
      BY <2>2, <2>3 DEF Yielding, Early
    <3> QED
      BY <1>9, <2>1, <2>2, <3>1 DEF w, T
  <2>4. CASE Scheduled(T) = {}
    <3>1. Yielding(T) = {} /\ Early(T) = Yielding(S)
      BY <1>12, <2>2, <2>4 DEF Yielding, Early
    <3>2. Sorted(Scheduled(T), ScheduledOrder) = <<>> /\ Sorted(Yielding(T), ForcedOrder) = <<>>
      BY <2>4, <3>1, SortedIsList, FS_EmptySet
    <3>3. m = <<>> /\ f = <<>>
      BY <1>2, <1>12
    <3>4. Tail(Ordered(S)) = Lists(m, <<>>, <<>>, y) /\ Ordered(T) = Lists(m, y, <<>>, <<>>)
      BY <1>9, <2>1, <2>2, <3>1, <3>2, <3>3
    <3>5. Lists(m, <<>>, <<>>, y) = Lists(m, y, <<>>, <<>>)
      <4>1. IsList(<<>>)
        BY <1>2, <3>3
      <4>2. <<>> \o <<>> = <<>> /\ <<>> \o y = y /\ y \o <<>> = y
        BY <1>2, <4>1, Concatenation
      <4> QED
        BY <4>2 DEF Lists
    <3> QED
      BY <3>4, <3>5 DEF w, T
  <2> QED
    BY <2>3, <2>4
<1> QED
  BY <1>10, <1>11, <1>12

\* Nobody else leads.
LEMMA LeaderIsUnique ==
  ASSUME NEW S, S \subseteq Candidates, IsFiniteSet(S), OnePerJob(S),
         NEW v \in S, NEW w \in S, Leads(v, S), Leads(w, S)
  PROVE  v = w
<1>1. \A U \in {Manual(S), Early(S), Scheduled(S)} : U \subseteq Candidates /\ OnePerJob(U)
  BY Ranks DEF OnePerJob
<1>2. /\ Total(ManualOrder, Manual(S)) /\ Total(ForcedOrder, Early(S))
      /\ Total(ScheduledOrder, Scheduled(S))
  BY <1>1, OrdersAreStrict
<1> QED
  BY <1>2 DEF Leads, Total

\* Those who lose may go: the winner stays, while there is scheduled work as before.
LEMMA LosersMayGo ==
  ASSUME NEW S, S \subseteq Candidates, IsFiniteSet(S), OnePerJob(S), NEW T, T \subseteq S,
         Scheduled(T) = {} <=> Scheduled(S) = {}, NEW w \in T, w \in Selected(S, TRUE)
  PROVE  Selected(T, TRUE) = {w}
<1>1. PICK v \in S : Selected(S, TRUE) = {v} /\ Leads(v, S)
  BY WinnerLeads
<1>2. v = w
  BY <1>1
<1>3. T \in SUBSET S /\ T \subseteq Candidates /\ T # {} /\ OnePerJob(T)
  BY DEF OnePerJob
<1>4. IsFiniteSet(T)
  BY <1>3, FS_Subset
<1>5. /\ Manual(T) = Manual(S) \cap T /\ Scheduled(T) = Scheduled(S) \cap T
      /\ Forced(T) = Forced(S) \cap T
  BY DEF Manual, Scheduled, Forced
<1>6. Early(T) = Early(S) \cap T
  BY <1>5 DEF Early, Yielding
<1>7. Leads(w, T)
  BY <1>1, <1>2, <1>5, <1>6 DEF Leads
<1>8. PICK u \in T : Selected(T, TRUE) = {u} /\ Leads(u, T)
  BY <1>3, <1>4, WinnerLeads
<1> QED
  BY <1>3, <1>4, <1>7, <1>8, LeaderIsUnique

-----------------------------------------------------------------------------
(* The pool *)

LEMMA PoolTypeInvariant == PoolSpec => []PoolTypeOK
<1>1. PoolInit => PoolTypeOK
  BY DEF PoolInit, PoolTypeOK
<1>2. PoolTypeOK /\ [PoolNext]_pool => PoolTypeOK'
  BY DEF PoolTypeOK, PoolNext, Arrives, Leaves
<1> QED
  BY <1>1, <1>2, PTL DEF PoolSpec

LEMMA PoolIsFit ==
  ASSUME PoolTypeOK
  PROVE  pool \subseteq Candidates /\ IsFiniteSet(pool) /\ OnePerJob(pool)
BY OffersAssumption, FS_Subset DEF PoolTypeOK, OnePerJob

\* The leader of the candidates yields to none, and every other one yields to it.
LEMMA LeaderYieldsToNobody ==
  ASSUME PoolTypeOK, NEW w \in pool, Leads(w, pool)
  PROVE  {w} = {c \in pool : \A d \in pool \ {c} : ~YieldsTo(c, d)}
<1>1. pool \subseteq Candidates /\ OnePerJob(pool)
  BY PoolIsFit
<1>2. /\ \A c \in pool : c \in Manual(pool) <=> IsManual(c)
      /\ \A c \in pool : c \in Forced(pool) <=> ~IsManual(c) /\ c.class = "forced"
      /\ \A c \in pool : c \in Scheduled(pool) <=> ~IsManual(c) /\ c.class # "forced"
      /\ \A c \in pool : c \in Early(pool) <=> c \in Forced(pool) \ Yielding(pool)
      /\ Manual(pool) \subseteq pool /\ Forced(pool) \subseteq pool /\ Scheduled(pool) \subseteq pool
      /\ Early(pool) \subseteq Forced(pool)
  BY DEF Manual, Forced, Scheduled, Early
<1>3. ASSUME NEW d \in pool \ {w} PROVE ~YieldsTo(w, d) /\ YieldsTo(d, w)
  <2>1. /\ Precedes(ManualKey(w), ManualKey(d)) <=> ~Precedes(ManualKey(d), ManualKey(w))
        /\ Precedes(ForcedKey(w), ForcedKey(d)) <=> ~Precedes(ForcedKey(d), ForcedKey(w))
        /\ Precedes(ScheduledKey(w), ScheduledKey(d)) <=> ~Precedes(ScheduledKey(d), ScheduledKey(w))
    <3>1. /\ StrictOrder(ManualOrder, pool) /\ Total(ManualOrder, pool)
          /\ StrictOrder(ForcedOrder, pool) /\ Total(ForcedOrder, pool)
          /\ StrictOrder(ScheduledOrder, pool) /\ Total(ScheduledOrder, pool)
      BY <1>1, OrdersAreStrict
    <3> QED
      BY <1>1, <3>1, KeyOrders DEF StrictOrder, Total
  <2>2. CASE IsManual(w)
    <3>1. w \in Manual(pool)
      BY <1>2, <2>2
    <3>2. IsManual(d) => ~Precedes(ManualKey(d), ManualKey(w))
      BY <1>1, <1>2, <3>1, KeyOrders DEF Leads
    <3> QED
      BY <1>2, <2>1, <2>2, <3>2 DEF YieldsTo
  <2>3. CASE ~IsManual(w)
    <3>1. Manual(pool) = {} /\ ~IsManual(d)
      BY <1>2, <2>3 DEF Leads
    <3>2. CASE w \in Early(pool)
      <4>1. d \in Early(pool) => ~Precedes(ForcedKey(d), ForcedKey(w))
        BY <1>1, <1>2, <3>2, KeyOrders DEF Leads
      <4> QED
        BY <1>2, <2>1, <2>3, <3>1, <3>2, <4>1 DEF YieldsTo, Yielding
    <3>3. CASE w \in Scheduled(pool) /\ Early(pool) = {}
      <4>1. d \in Scheduled(pool) => ~Precedes(ScheduledKey(d), ScheduledKey(w))
        BY <1>1, <1>2, <3>3, KeyOrders DEF Leads
      <4> QED
        BY <1>2, <2>1, <2>3, <3>1, <3>3, <4>1 DEF YieldsTo, Yielding
    <3> QED
      BY <1>2, <2>3, <3>2, <3>3 DEF Leads
  <2> QED
    BY <2>2, <2>3
<1> QED
  BY <1>3

\* scheduler_arbiter.py: whatever is runnable, the job that gets the robot is
\* the one candidate that yields to no other by the documented rules.
THEOREM WinnerIsRightful == PoolSpec => []WinnerYieldsToNobody
<1>1. PoolTypeOK => WinnerYieldsToNobody
  <2> SUFFICES ASSUME PoolTypeOK, pool # {}
               PROVE  Selected(pool, TRUE) = {c \in pool : \A d \in pool \ {c} : ~YieldsTo(c, d)}
    BY DEF WinnerYieldsToNobody
  <2>1. PICK w \in pool : Selected(pool, TRUE) = {w} /\ Leads(w, pool)
    BY PoolIsFit, WinnerLeads
  <2> QED
    BY <2>1, LeaderYieldsToNobody
<1> QED
  BY <1>1, PoolTypeInvariant, PTL

\* scheduler_arbiter.py: the list shown to the user tells in which order the
\* jobs will run, because the rest of it is the arbiter's list of the rest.
THEOREM ListIsSuccession == PoolSpec => []OrderIsSuccession
<1>1. PoolTypeOK => OrderIsSuccession
  BY PoolIsFit, Succession DEF OrderIsSuccession
<1> QED
  BY <1>1, PoolTypeInvariant, PTL

\* scheduler_arbiter.py: a job that would not have won and goes away leaves the
\* winner the winner, unless it was the last scheduled work.
THEOREM LosersAreFree == PoolSpec => LosersDoNotDecide
<1>1. PoolTypeOK /\ [PoolNext]_pool =>
        [pool' \subseteq pool /\ (Scheduled(pool') = {} <=> Scheduled(pool) = {})
           => \A w \in Selected(pool, TRUE) \cap pool' : Selected(pool', TRUE) = {w}]_pool
  <2> SUFFICES ASSUME PoolTypeOK, pool' \subseteq pool,
                      Scheduled(pool') = {} <=> Scheduled(pool) = {},
                      NEW w \in Selected(pool, TRUE) \cap pool'
               PROVE  Selected(pool', TRUE) = {w}
    OBVIOUS
  <2> QED
    BY PoolIsFit, LosersMayGo
<1> QED
  BY <1>1, PoolTypeInvariant, PTL DEF PoolSpec, LosersDoNotDecide

-----------------------------------------------------------------------------
(* The jobs *)

LateBlockersFirst == LateBlockers \subseteq {1}

-----------------------------------------------------------------------------
(* The inductive invariant *)

JobType(j) ==
  [zones : [ZonesOf[j] -> ZoneStates], attempts : Seq(Attempts(j)), state : JobStates,
   result : Results, forced : BOOLEAN, interrupted : BOOLEAN]

InHand(b) == Open(b) \ Pending(b)

Failing(a) == a.state \in {"CANCEL_REQUESTED", "COMPLETED", "FAILED"}

\* One attempt at a time, and no next pass is left out.
OneActive(b) == \A k, l \in Active(b) : k = l
NothingToSucceed(j, b) == \A k \in DOMAIN b.attempts : ~HasSuccessor(j, b, b.attempts[k])

\* A zone that pre-flight may still start was never sent out.
Fresh(b) == \A k \in DOMAIN b.attempts : b.attempts[k].zones \cap Pending(b) = {}

\* The passes of a zone are a chain: each link is used once.
Distinct(b) ==
  \A k, l \in DOMAIN b.attempts :
    k # l /\ b.attempts[k].pass = b.attempts[l].pass => b.attempts[k].zones \cap b.attempts[l].zones = {}

Unlinked(b) ==
  \A k, l \in DOMAIN b.attempts :
    ~b.attempts[k].linked /\ b.attempts[l].pass = b.attempts[k].pass + 1
      => b.attempts[k].zones \cap b.attempts[l].zones = {}

Chained(b) ==
  \A l \in DOMAIN b.attempts :
    b.attempts[l].pass # 1 =>
      \E k \in DOMAIN b.attempts :
        b.attempts[l].pass = b.attempts[k].pass + 1 /\ b.attempts[l].zones \subseteq b.attempts[k].zones

\* The attempt that settled a zone for good has closed it; a link is of a completed pass.
Settling(j, b) ==
  \A k \in DOMAIN b.attempts :
    LET a == b.attempts[k]
    IN  /\ a.state = "FAILED" \/ (a.state = "COMPLETED" /\ a.pass = Passes[j]) => a.zones \cap Open(b) = {}
        /\ a.linked => a.state = "COMPLETED"

\* What is in hand has its attempt, unless an outage ended the attempt.
Followed(b) ==
  \/ \A z \in InHand(b) : \E k \in Active(b) : z \in b.attempts[k].zones
  \/ b.interrupted /\ Active(b) = {}

\* An attempt is for a zone that is still to be cleaned.
Wanted(b) == \A k \in Active(b) : b.attempts[k].zones \cap (Open(b) \cup disabled) # {}

\* After an outage nothing runs on.
Interrupted(b) ==
  b.interrupted => b.attempts # <<>> /\ \A k \in DOMAIN b.attempts : Failing(b.attempts[k])

Sane(j, b) ==
  /\ b \in JobType(j)
  /\ OneActive(b) /\ NothingToSucceed(j, b)
  /\ Fresh(b) /\ Distinct(b) /\ Unlinked(b) /\ Chained(b)
  /\ Settling(j, b) /\ Followed(b) /\ Wanted(b) /\ Interrupted(b)

\* A job that stands unstarted has nothing in hand.
Agreed(b) == b.state \in Unstarted => InHand(b) = {}

\* The result is there when the job has left the store, all its zones done.
Terminal(b) ==
  /\ Agreed(b)
  /\ b.state = "FINISHED" <=> b.result # "none"
  /\ b.result # "none" => Open(b) = {} /\ ~b.interrupted

\* Nothing more is started for it.
Halted(b) ==
  /\ \A k \in DOMAIN b.attempts : Failing(b.attempts[k])
  /\ b.interrupted \/ (Pending(b) = {} /\ (b.attempts # <<>> \/ b.result # "none"))

\* z need not be started with y.
Apart(j, y, z) == z \in disabled \/ (plan.target[y] # plan.target[z] /\ j \notin plan.combined)

\* What is in hand, and what is about to be, is complete.
Together(j, b) == \A y \in InHand(b), z \in Pending(b) : Apart(j, y, z)
Closed(j, b, S) == \A y \in S, z \in Pending(b) \ S : Apart(j, y, z)

Readied(j) ==
  /\ at.ready[j] \subseteq Pending(job[j]) /\ Closed(j, job[j], at.ready[j])
  /\ at.ready[j] # {} => at.step = "prepare" /\ job[j].result = "none"
  /\ at.ready[j] # {} /\ job[j].interrupted => Active(job[j]) # {}

\* Between the steps of a reconcile what is in hand has its attempt.
Covered(b) == \A z \in InHand(b) : \E k \in Active(b) : z \in b.attempts[k].zones

WorldType ==
  /\ plan \in Plans
  /\ released \subseteq Jobs /\ expired \subseteq released
  /\ gate \in BOOLEAN
  /\ disabled \subseteq MayDisable
  /\ stopped \subseteq Jobs

Standing ==
  /\ at \in [step : {"idle", "prepare"}, next : 1..N + 1, ready : [Jobs -> SUBSET Zones]]
  /\ \A j \in Jobs : Readied(j)

OneLease ==
  \A i, j \in Jobs :
    i # j /\ job[i].result = "none" /\ job[j].result = "none"
      => Active(job[i]) = {} \/ Active(job[j]) = {}

Soundness ==
  \A j \in Jobs : Sane(j, job[j]) /\ Terminal(job[j]) /\ Covered(job[j]) /\ Together(j, job[j])

IInv ==
  /\ job = [j \in Jobs |-> job[j]] /\ Soundness
  /\ \A j \in stopped : Halted(job[j])
  /\ OneLease /\ WorldType /\ Standing

-----------------------------------------------------------------------------
(* Operators on one job *)

LEMMA Parts ==
  ASSUME NEW j \in Jobs, NEW b \in JobType(j)
  PROVE  /\ Open(b) \subseteq ZonesOf[j] /\ Pending(b) \subseteq Open(b)
         /\ DOMAIN b.zones = ZonesOf[j] /\ DOMAIN b.attempts = 1..Len(b.attempts)
         /\ Len(b.attempts) \in Nat
         /\ \A k \in DOMAIN b.attempts : b.attempts[k] \in Attempts(j)
         /\ \A k \in Active(b) : k \in DOMAIN b.attempts
BY DEF JobType, Open, Pending, Active, Done, Unstarted, ZoneStates

LEMMA PutParts ==
  ASSUME NEW j \in Jobs, NEW b \in JobType(j), NEW S, NEW s \in ZoneStates
  PROVE  /\ Put(b, S, s) \in JobType(j)
         /\ Put(b, S, s).attempts = b.attempts /\ Active(Put(b, S, s)) = Active(b)
         /\ Put(b, S, s).state = b.state /\ Put(b, S, s).result = b.result
         /\ Put(b, S, s).forced = b.forced /\ Put(b, S, s).interrupted = b.interrupted
         /\ Open(Put(b, S, s)) = IF s \in Done THEN Open(b) \ S ELSE Open(b)
         /\ Pending(Put(b, S, s)) = IF s \in Unstarted THEN Pending(b) \cup (Open(b) \cap S) ELSE Pending(b) \ S
<1> DEFINE zones == [z \in DOMAIN b.zones |-> IF z \in S /\ b.zones[z] \notin Done THEN s ELSE b.zones[z]]
<1>1. Put(b, S, s) = [b EXCEPT !.zones = zones]
  BY DEF Put
<1>2. DOMAIN b.zones = ZonesOf[j] /\ zones \in [ZonesOf[j] -> ZoneStates]
  BY DEF JobType
<1>3. \A z \in ZonesOf[j] : zones[z] = IF z \in S /\ b.zones[z] \notin Done THEN s ELSE b.zones[z]
  BY <1>2
<1> HIDE DEF zones
<1>4. /\ Put(b, S, s) \in JobType(j) /\ Put(b, S, s).zones = zones
      /\ Put(b, S, s).attempts = b.attempts
      /\ Put(b, S, s).state = b.state /\ Put(b, S, s).result = b.result
      /\ Put(b, S, s).forced = b.forced /\ Put(b, S, s).interrupted = b.interrupted
  BY <1>1, <1>2 DEF JobType
<1>5. Active(Put(b, S, s)) = Active(b)
  BY <1>4 DEF Active
<1>6. Open(Put(b, S, s)) = IF s \in Done THEN Open(b) \ S ELSE Open(b)
  BY <1>2, <1>3, <1>4 DEF Open, JobType
<1>7. Pending(Put(b, S, s)) = IF s \in Unstarted THEN Pending(b) \cup (Open(b) \cap S) ELSE Pending(b) \ S
  BY <1>2, <1>3, <1>4 DEF Open, Pending, JobType, Done, Unstarted, ZoneStates
<1> QED
  BY <1>4, <1>5, <1>6, <1>7

\* A job whose attempts stay, whose zones at most close or go on waiting.
LEMMA CloserIsSane ==
  ASSUME NEW j \in Jobs, NEW b, NEW c \in JobType(j), Sane(j, b),
         c.attempts = b.attempts, c.interrupted => b.interrupted,
         b.interrupted => c.interrupted \/ Open(c) = {},
         Open(c) \subseteq Open(b), Pending(c) \subseteq Pending(b), InHand(c) \subseteq InHand(b),
         Wanted(c)
  PROVE  Sane(j, c)
<1>1. Active(c) = Active(b)
  BY DEF Active
<1>2. OneActive(c) /\ Fresh(c) /\ Distinct(c) /\ Unlinked(c) /\ Chained(c)
  BY <1>1 DEF Sane, OneActive, Fresh, Distinct, Unlinked, Chained
<1>3. NothingToSucceed(j, c)
  BY DEF Sane, NothingToSucceed, HasSuccessor
<1>4. Settling(j, c)
  BY DEF Sane, Settling
<1>5. Followed(c)
  BY <1>1 DEF Sane, Followed, InHand
<1>6. Interrupted(c)
  BY DEF Sane, Interrupted
<1> QED
  BY <1>2, <1>3, <1>4, <1>5, <1>6 DEF Sane

LEMMA PutKeeps ==
  ASSUME NEW j \in Jobs, NEW b, Sane(j, b), NEW S, NEW s \in ZoneStates,
         s \in Done \/ (s = "WAIT" /\ S \cap Open(b) \subseteq Pending(b)),
         \A k \in Active(b) : b.attempts[k].zones \cap (Open(Put(b, S, s)) \cup disabled) # {}
  PROVE  Sane(j, Put(b, S, s))
<1> DEFINE c == Put(b, S, s)
<1>1. b \in JobType(j)
  BY DEF Sane
<1>2. /\ c \in JobType(j) /\ c.attempts = b.attempts /\ Active(c) = Active(b)
      /\ c.interrupted <=> b.interrupted
      /\ Open(c) = IF s \in Done THEN Open(b) \ S ELSE Open(b)
      /\ Pending(c) = IF s \in Unstarted THEN Pending(b) \cup (Open(b) \cap S) ELSE Pending(b) \ S
  BY <1>1, PutParts
<1> HIDE DEF c
<1>3. Open(c) \subseteq Open(b) /\ Pending(c) \subseteq Pending(b)
  BY <1>2, <1>1, Parts DEF Done, Unstarted
<1>4. InHand(c) \subseteq InHand(b)
  BY <1>2, <1>1, Parts DEF Done, Unstarted, InHand
<1>5. Wanted(c)
  BY <1>2 DEF Wanted, c
<1> QED
  BY <1>2, <1>3, <1>4, <1>5, CloserIsSane DEF c

\* The state is FINISHED exactly when there is a result.
Stated(b) == b.state = "FINISHED" <=> b.result # "none"

LEMMA SomeState ==
  ASSUME NEW j \in Jobs, NEW b \in JobType(j), Open(b) # {}
  PROVE  \E s \in JobStates :
           /\ \E z \in Open(b) : b.zones[z] = s
           /\ \A z \in Open(b) :
                /\ b.zones[z] = "RUNNING" => s = "RUNNING"
                /\ b.zones[z] = "STARTING" => s \in {"RUNNING", "STARTING"}
                /\ b.zones[z] = "WAIT" => s # "PLANNED"
<1>1. \A z \in Open(b) : b.zones[z] \in {"PLANNED", "WAIT", "STARTING", "RUNNING"}
  BY DEF Open, JobType, ZoneStates, Done
<1>2. CASE \E z \in Open(b) : b.zones[z] = "RUNNING"
  BY <1>2 DEF JobStates
<1>3. CASE ~(\E z \in Open(b) : b.zones[z] = "RUNNING") /\ \E z \in Open(b) : b.zones[z] = "STARTING"
  BY <1>3 DEF JobStates
<1>4. CASE /\ ~(\E z \in Open(b) : b.zones[z] \in {"RUNNING", "STARTING"})
           /\ \E z \in Open(b) : b.zones[z] = "WAIT"
  BY <1>4 DEF JobStates
<1>5. CASE ~(\E z \in Open(b) : b.zones[z] \in {"RUNNING", "STARTING", "WAIT"})
  BY <1>1, <1>5 DEF JobStates
<1> QED
  BY <1>2, <1>3, <1>4, <1>5

LEMMA SyncedParts ==
  ASSUME NEW j \in Jobs, NEW b \in JobType(j), Stated(b)
  PROVE  /\ Synced(b) \in JobType(j) /\ Stated(Synced(b))
         /\ Synced(b).attempts = b.attempts /\ Active(Synced(b)) = Active(b)
         /\ Synced(b).zones = b.zones /\ Open(Synced(b)) = Open(b) /\ Pending(Synced(b)) = Pending(b)
         /\ Synced(b).result = b.result /\ (Synced(b).forced <=> b.forced)
         /\ Synced(b).interrupted <=> b.interrupted
         /\ b.result = "none" => Agreed(Synced(b))
<1> DEFINE Best(s) == /\ \E z \in Open(b) : b.zones[z] = s
                      /\ \A z \in Open(b) :
                           /\ b.zones[z] = "RUNNING" => s = "RUNNING"
                           /\ b.zones[z] = "STARTING" => s \in {"RUNNING", "STARTING"}
                           /\ b.zones[z] = "WAIT" => s # "PLANNED"
           best == CHOOSE s \in JobStates : Best(s)
<1>1. CASE b.result # "none" \/ Open(b) = {}
  BY <1>1 DEF Synced, Agreed, InHand
<1>2. CASE ~(b.result # "none" \/ Open(b) = {})
  <2>1. Synced(b) = [b EXCEPT !.state = best]
    BY <1>2 DEF Synced
  <2>2. \E s \in JobStates : Best(s)
    BY <1>2, SomeState, Zenon
  <2>3. best \in JobStates /\ Best(best)
    BY <2>2, Zenon
  <2>4. best # "FINISHED"
    BY <2>3 DEF Open, JobType, ZoneStates
  <2> DEFINE c == Synced(b)
  <2> HIDE DEF best, c
  <2>5. /\ c \in JobType(j) /\ c.state = best /\ c.result = "none"
        /\ c.attempts = b.attempts /\ c.zones = b.zones
        /\ (c.forced <=> b.forced) /\ (c.interrupted <=> b.interrupted)
    BY <1>2, <2>1, <2>3 DEF JobType, c
  <2>6. Open(c) = Open(b) /\ Pending(c) = Pending(b) /\ Active(c) = Active(b)
    BY <2>5 DEF Open, Pending, Active
  <2>7. Agreed(c)
    <3>1. \A z \in Open(b) : b.zones[z] \in {"PLANNED", "WAIT", "STARTING", "RUNNING"} /\ z \in DOMAIN b.zones
      BY DEF Open, JobType, ZoneStates, Done
    <3>2. best \in Unstarted => \A z \in Open(b) : b.zones[z] \in Unstarted
      BY <2>3, <3>1 DEF Unstarted
    <3> QED
      BY <2>5, <2>6, <3>1, <3>2 DEF Agreed, InHand, Pending
  <2> QED
    BY <1>2, <2>4, <2>5, <2>6, <2>7 DEF Stated, c
<1> QED
  BY <1>1, <1>2

LEMMA SyncedKeeps ==
  ASSUME NEW j \in Jobs, NEW b, Sane(j, b), Stated(b)
  PROVE  Sane(j, Synced(b)) /\ Stated(Synced(b))
<1>1. b \in JobType(j) /\ Wanted(b)
  BY DEF Sane
<1> DEFINE c == Synced(b)
<1>2. /\ c \in JobType(j) /\ Stated(c) /\ c.attempts = b.attempts /\ Active(c) = Active(b)
      /\ Open(c) = Open(b) /\ Pending(c) = Pending(b) /\ (c.interrupted <=> b.interrupted)
  BY <1>1, SyncedParts
<1> HIDE DEF c
<1>3. InHand(c) = InHand(b) /\ Wanted(c)
  BY <1>1, <1>2 DEF InHand, Wanted
<1> QED
  BY <1>2, <1>3, CloserIsSane DEF c

\* An ended job: its zones are done, and an attempt still on its way is kept.
Ended(j, b, c) ==
  /\ Sane(j, c) /\ Stated(c) /\ c.result # "none" /\ ~c.interrupted
  /\ Open(c) = {} /\ Open(b) = {} /\ Active(c) = Active(b)
  /\ c.attempts = IF Active(b) = {} THEN <<>> ELSE b.attempts

LEMMA FinishedEnds ==
  ASSUME NEW j \in Jobs, NEW b, Sane(j, b), Open(b) = {}, NEW result \in Results \ {"none"}
  PROVE  Ended(j, b, Finished(b, result))
<1> DEFINE c == Finished(b, result)
<1>1. b \in JobType(j) /\ <<>> \in Seq(Attempts(j))
  BY DEF Sane
<1>2. /\ c \in JobType(j) /\ c.state = "FINISHED" /\ c.result = result
      /\ c.zones = b.zones /\ ~c.interrupted
      /\ c.attempts = IF Active(b) = {} THEN <<>> ELSE b.attempts
  BY <1>1 DEF Finished, JobType, JobStates
<1> HIDE DEF c
<1>3. Open(c) = {} /\ Pending(c) = {} /\ InHand(c) = {}
  BY <1>1, <1>2 DEF Open, Pending, InHand, JobType, Done, Unstarted
<1>4. ASSUME Active(b) = {} PROVE Ended(j, b, c)
  <2>1. c.attempts = <<>> /\ DOMAIN c.attempts = {} /\ Active(c) = {}
    BY <1>2, <1>4 DEF Active
  <2> QED
    BY <1>2, <1>3, <1>4, <2>1 DEF Ended, Stated, Sane, OneActive, NothingToSucceed, Fresh, Distinct,
       Unlinked, Chained, Settling, Followed, Wanted, Interrupted
<1>5. ASSUME Active(b) # {} PROVE Ended(j, b, c)
  <2>1. c.attempts = b.attempts /\ Active(c) = Active(b)
    BY <1>2, <1>5 DEF Active
  <2>2. Wanted(c)
    BY <1>3, <2>1 DEF Sane, Wanted
  <2>3. Sane(j, c)
    BY <1>2, <1>3, <2>1, <2>2, CloserIsSane
  <2> QED
    BY <1>2, <1>3, <1>5, <2>1, <2>3 DEF Ended, Stated
<1> QED
  BY <1>4, <1>5 DEF c

LEMMA AggregatedEnds ==
  ASSUME NEW j \in Jobs, NEW b, Sane(j, b), b.result = "none"
  PROVE  IF Open(b) = {} THEN Ended(j, b, Aggregated(b)) ELSE Aggregated(b) = b
<1>1. CASE Open(b) # {}
  BY <1>1 DEF Aggregated
<1>2. CASE Open(b) = {}
  <2>1. \E result \in Results \ {"none"} : Aggregated(b) = Finished(b, result)
    BY <1>2 DEF Aggregated, Results
  <2> QED
    BY <1>2, <2>1, FinishedEnds
<1> QED
  BY <1>1, <1>2

-----------------------------------------------------------------------------
(* Starting an attempt *)

\* The attempt of this pass may be appended to d for these zones.
Startable(j, d, zones, pass) ==
  /\ d \in JobType(j) /\ Active(d) = {} /\ ~d.interrupted
  /\ NothingToSucceed(j, d)
  /\ Fresh(d) /\ Distinct(d) /\ Unlinked(d) /\ Chained(d) /\ Settling(j, d)
  /\ InHand(d) \subseteq zones /\ zones \subseteq Open(d) /\ zones # {} /\ pass \in 1..Passes[j]
  /\ \A k \in DOMAIN d.attempts :
       LET a == d.attempts[k]
       IN  a.pass = pass \/ a.pass = pass + 1 \/ (~a.linked /\ pass = a.pass + 1) => a.zones \cap zones = {}
  /\ pass # 1 => \E k \in DOMAIN d.attempts :
                   pass = d.attempts[k].pass + 1 /\ zones \subseteq d.attempts[k].zones

\* e is d with one attempt more.
Launched(j, d, zones, e) ==
  /\ Sane(j, e) /\ ~e.interrupted /\ InHand(e) \subseteq zones /\ Pending(e) \cap zones = {}
  /\ Len(e.attempts) = Len(d.attempts) + 1
  /\ Open(e) \subseteq Open(d) /\ Pending(e) \subseteq Pending(d)
  /\ e.state = d.state /\ e.result = d.result /\ (e.forced <=> d.forced)

LEMMA AppendedParts ==
  ASSUME NEW j \in Jobs, NEW d \in JobType(j), NEW a \in Attempts(j), NEW e,
         e = [d EXCEPT !.attempts = Append(@, a)]
  PROVE  LET n == Len(d.attempts)
         IN  /\ e \in JobType(j) /\ DOMAIN e.attempts = 1..n + 1 /\ Len(e.attempts) = n + 1
             /\ n \in Nat /\ DOMAIN d.attempts = 1..n
             /\ e.attempts[n + 1] = a /\ \A k \in 1..n : e.attempts[k] = d.attempts[k]
             /\ e.zones = d.zones /\ Open(e) = Open(d) /\ Pending(e) = Pending(d)
             /\ e.state = d.state /\ e.result = d.result
             /\ (e.forced <=> d.forced) /\ (e.interrupted <=> d.interrupted)
<1> DEFINE n == Len(d.attempts)
<1>1. d.attempts \in Seq(Attempts(j)) /\ n \in Nat /\ DOMAIN d.attempts = 1..n
  BY DEF JobType
<1>2. e.attempts = Append(d.attempts, a) /\ e.attempts \in Seq(Attempts(j))
  BY <1>1 DEF JobType
<1>3. /\ DOMAIN e.attempts = 1..n + 1 /\ Len(e.attempts) = n + 1
      /\ e.attempts[n + 1] = a /\ \A k \in 1..n : e.attempts[k] = d.attempts[k]
  BY <1>1, <1>2
<1>4. /\ e \in JobType(j) /\ e.zones = d.zones
      /\ e.state = d.state /\ e.result = d.result
      /\ (e.forced <=> d.forced) /\ (e.interrupted <=> d.interrupted)
  BY <1>2 DEF JobType
<1>5. Open(e) = Open(d) /\ Pending(e) = Pending(d)
  BY <1>4 DEF Open, Pending
<1> QED
  BY <1>1, <1>3, <1>4, <1>5

\* Appending the attempt and synchronising its zones keeps the invariant.
LEMMA Launch ==
  ASSUME NEW j \in Jobs, NEW d, NEW zones, NEW pass, Startable(j, d, zones, pass),
         NEW state \in {"STARTING", "FAILED"}
  PROVE  LET a == [zones |-> zones, pass |-> pass, confirmed |-> FALSE, linked |-> FALSE, state |-> state]
         IN  Launched(j, d, zones, Put([d EXCEPT !.attempts = Append(@, a)], zones, state))
<1> DEFINE a == [zones |-> zones, pass |-> pass, confirmed |-> FALSE, linked |-> FALSE, state |-> state]
           f == [d EXCEPT !.attempts = Append(@, a)]
           e == Put(f, zones, state)
           n == Len(d.attempts)
<1>1. d \in JobType(j) /\ zones \subseteq ZonesOf[j] /\ pass \in 1..Passes[j]
  BY Parts DEF Startable
<1>2. a \in Attempts(j)
  BY <1>1 DEF Attempts, AttemptStates
<1>3. /\ a.zones = zones /\ a.pass = pass /\ a.linked = FALSE /\ a.state = state /\ ~a.linked
  OBVIOUS
<1> HIDE DEF a
<1>4. /\ f \in JobType(j) /\ DOMAIN f.attempts = 1..n + 1 /\ Len(f.attempts) = n + 1
      /\ n \in Nat /\ DOMAIN d.attempts = 1..n
      /\ f.attempts[n + 1] = a /\ \A k \in 1..n : f.attempts[k] = d.attempts[k]
      /\ Open(f) = Open(d) /\ Pending(f) = Pending(d)
      /\ f.state = d.state /\ f.result = d.result
      /\ (f.forced <=> d.forced) /\ (f.interrupted <=> d.interrupted)
  BY <1>1, <1>2, AppendedParts
<1> HIDE DEF f
<1>5. state \in ZoneStates
  BY DEF ZoneStates
<1>6. /\ e \in JobType(j) /\ e.attempts = f.attempts
      /\ e.state = f.state /\ e.result = f.result
      /\ (e.forced <=> f.forced) /\ (e.interrupted <=> f.interrupted)
      /\ Open(e) = IF state \in Done THEN Open(f) \ zones ELSE Open(f)
      /\ Pending(e) = Pending(f) \ zones
  BY <1>4, <1>5, PutParts DEF Unstarted
<1> HIDE DEF e
<1>7. /\ DOMAIN e.attempts = 1..n + 1 /\ Len(e.attempts) = n + 1 /\ n + 1 \in 1..n + 1
      /\ e.attempts[n + 1] = a /\ (\A k \in 1..n : e.attempts[k] = d.attempts[k])
      /\ \A k \in 1..n + 1 : k \in 1..n \/ k = n + 1
  BY <1>4, <1>6
<1>8. /\ Open(e) \subseteq Open(d) /\ Pending(e) = Pending(d) \ zones
      /\ (state = "FAILED" => Open(e) = Open(d) \ zones) /\ (state = "STARTING" => Open(e) = Open(d))
  BY <1>4, <1>6 DEF Done
<1>9. ~e.interrupted
  BY <1>4, <1>6 DEF Startable
<1>10. \A k \in 1..n : k \notin Active(e)
  BY <1>4, <1>7 DEF Active, Startable
<1>11. Active(e) = IF state = "STARTING" THEN {n + 1} ELSE {}
  BY <1>3, <1>7, <1>10 DEF Active, ActiveAttempt
<1>12. OneActive(e)
  BY <1>11 DEF OneActive
<1>13. NothingToSucceed(j, e)
  <2>1. ~HasSuccessor(j, e, a)
    BY <1>3 DEF HasSuccessor
  <2>2. \A k \in 1..n : ~HasSuccessor(j, d, d.attempts[k])
    BY <1>4 DEF Startable, NothingToSucceed
  <2>3. \A k \in 1..n : ~HasSuccessor(j, e, e.attempts[k])
    BY <2>2, <1>7, <1>8 DEF HasSuccessor, Startable
  <2> QED
    BY <2>1, <2>3, <1>7 DEF NothingToSucceed
<1>14. Fresh(e)
  BY <1>3, <1>4, <1>7, <1>8 DEF Fresh, Startable
<1>15. Distinct(e)
  <2>1. \A k \in 1..n : d.attempts[k].pass = pass => d.attempts[k].zones \cap zones = {}
    BY <1>4 DEF Startable
  <2>2. Distinct(d)
    BY DEF Startable
  <2>3. ASSUME NEW k \in 1..n + 1, NEW l \in 1..n + 1, k # l, e.attempts[k].pass = e.attempts[l].pass
        PROVE  e.attempts[k].zones \cap e.attempts[l].zones = {}
    <3>1. CASE k \in 1..n /\ l \in 1..n
      BY <2>2, <2>3, <3>1, <1>4, <1>7 DEF Distinct
    <3>2. CASE k \in 1..n /\ l = n + 1
      BY <2>1, <2>3, <3>2, <1>3, <1>7
    <3>3. CASE l \in 1..n /\ k = n + 1
      BY <2>1, <2>3, <3>3, <1>3, <1>7
    <3> QED
      BY <2>3, <3>1, <3>2, <3>3, <1>7
  <2> QED
    BY <2>3, <1>7 DEF Distinct
<1>16. Unlinked(e)
  <2>1. \A k \in 1..n :
          d.attempts[k].pass = pass + 1 \/ (~d.attempts[k].linked /\ pass = d.attempts[k].pass + 1)
            => d.attempts[k].zones \cap zones = {}
    BY <1>4 DEF Startable
  <2>2. Unlinked(d) /\ pass # pass + 1
    BY <1>1, JobsAssumption DEF Startable
  <2>3. ASSUME NEW k \in 1..n + 1, NEW l \in 1..n + 1,
               ~e.attempts[k].linked, e.attempts[l].pass = e.attempts[k].pass + 1
        PROVE  e.attempts[k].zones \cap e.attempts[l].zones = {}
    <3>1. CASE k \in 1..n /\ l \in 1..n
      BY <2>2, <2>3, <3>1, <1>4, <1>7 DEF Unlinked
    <3>2. CASE k \in 1..n /\ l = n + 1
      BY <2>1, <2>3, <3>2, <1>3, <1>7
    <3>3. CASE l \in 1..n /\ k = n + 1
      BY <2>1, <2>3, <3>3, <1>3, <1>7
    <3>4. CASE k = n + 1 /\ l = n + 1
      BY <2>2, <2>3, <3>4, <1>3, <1>7
    <3> QED
      BY <2>3, <3>1, <3>2, <3>3, <3>4, <1>7
  <2> QED
    BY <2>3, <1>7 DEF Unlinked
<1>17. Chained(e)
  <2>1. Chained(d) /\ (pass # 1 => \E k \in 1..n : pass = d.attempts[k].pass + 1 /\ zones \subseteq d.attempts[k].zones)
    BY <1>4 DEF Startable
  <2>2. ASSUME NEW l \in 1..n + 1, e.attempts[l].pass # 1
        PROVE  \E k \in 1..n : /\ e.attempts[l].pass = e.attempts[k].pass + 1
                                /\ e.attempts[l].zones \subseteq e.attempts[k].zones
    <3>1. CASE l \in 1..n
      <4>1. e.attempts[l] = d.attempts[l]
        BY <3>1, <1>7
      <4>2. PICK k \in 1..n : /\ d.attempts[l].pass = d.attempts[k].pass + 1
                              /\ d.attempts[l].zones \subseteq d.attempts[k].zones
        BY <2>1, <2>2, <3>1, <4>1, <1>4 DEF Chained
      <4>3. e.attempts[k] = d.attempts[k]
        BY <4>2, <1>7
      <4> QED
        BY <4>1, <4>2, <4>3
    <3>2. CASE l = n + 1
      BY <2>1, <2>2, <3>2, <1>3, <1>7
    <3> QED
      BY <2>2, <3>1, <3>2, <1>7
  <2>3. 1..n \subseteq 1..n + 1
    BY <1>4
  <2> QED
    BY <2>2, <2>3, <1>7 DEF Chained
<1>18. Settling(j, e)
  <2>1. state = "FAILED" => zones \cap Open(e) = {}
    BY <1>8
  <2> QED
    BY <2>1, <1>3, <1>4, <1>7, <1>8 DEF Settling, Startable
<1>19. Followed(e)
  <2>1. \A z \in InHand(e) : z \in zones /\ state = "STARTING"
    BY <1>8 DEF InHand, Startable
  <2> QED
    BY <2>1, <1>3, <1>7, <1>11 DEF Followed
<1>20. Wanted(e)
  BY <1>3, <1>7, <1>8, <1>11 DEF Wanted, Startable
<1>21. Interrupted(e)
  BY <1>9 DEF Interrupted
<1>22. Sane(j, e)
  BY <1>6, <1>12, <1>13, <1>14, <1>15, <1>16, <1>17, <1>18, <1>19, <1>20, <1>21 DEF Sane
<1>23. InHand(e) \subseteq zones /\ Pending(e) \cap zones = {}
  BY <1>8 DEF InHand, Startable
<1>24. Launched(j, d, zones, e)
  BY <1>23, <1>4, <1>6, <1>7, <1>8, <1>9, <1>22 DEF Launched
<1> QED
  BY <1>24 DEF e, f, a

-----------------------------------------------------------------------------
(* Observing an attempt *)

\* Attempt k of b as the observation leaves it.
Seen(b, k, state) == [b.attempts[k] EXCEPT !.state = state, !.confirmed = @ \/ state = "RUNNING"]

\* b is observed through its attempt k: only the next pass may be missing in d.
Followable(j, b, d, k) ==
  /\ d \in JobType(j) /\ OneActive(d)
  /\ Fresh(d) /\ Distinct(d) /\ Unlinked(d) /\ Chained(d)
  /\ Settling(j, d) /\ Wanted(d) /\ Interrupted(d)
  /\ \A i \in DOMAIN d.attempts \ {k} : ~HasSuccessor(j, d, d.attempts[i])
  /\ IF HasSuccessor(j, d, d.attempts[k])
     THEN Active(d) = {} /\ InHand(d) \subseteq d.attempts[k].zones /\ Active(b) # {} /\ ~Halted(b)
     ELSE Followed(d)

\* What observing leaves as it was.
Alike(b, d) ==
  /\ d.state = b.state /\ d.result = b.result /\ (d.forced <=> b.forced) /\ (d.interrupted <=> b.interrupted)
  /\ Open(d) \subseteq Open(b) /\ Pending(d) \subseteq Pending(b) /\ InHand(d) \subseteq InHand(b)
  /\ Active(d) # {} => Active(b) # {}

LEMMA SeenParts ==
  ASSUME NEW j \in Jobs, NEW b \in JobType(j), NEW k \in DOMAIN b.attempts,
         NEW state \in Observed(b.attempts[k])
  PROVE  LET a == b.attempts[k]  new == Seen(b, k, state)
         IN  /\ new \in Attempts(j) /\ new.zones = a.zones /\ new.pass = a.pass
             /\ (new.linked <=> a.linked) /\ new.state = state
             /\ (~ActiveAttempt(a) => state = a.state)
             /\ (Failing(a) => Failing(new))
             /\ (Failing(a) /\ state = "COMPLETED" => a.state = "COMPLETED")
<1> DEFINE a == b.attempts[k]
           new == Seen(b, k, state)
<1>1. a \in Attempts(j)
  BY Parts
<1>2. state \in AttemptStates
  BY <1>1 DEF Observed, Attempts, AttemptStates
<1>3. new = [a EXCEPT !.state = state, !.confirmed = @ \/ state = "RUNNING"]
  BY DEF Seen
<1>4. state \in Observed(a)
  OBVIOUS
<1> HIDE DEF a, new
<1>5. /\ new \in Attempts(j) /\ new.zones = a.zones /\ new.pass = a.pass
      /\ (new.linked <=> a.linked) /\ new.state = state
  BY <1>1, <1>2, <1>3 DEF Attempts
<1>6. ~ActiveAttempt(a) => state = a.state
  BY <1>1, <1>4 DEF Observed, ActiveAttempt, Attempts, AttemptStates
<1>7. Failing(a) => state \in {"CANCEL_REQUESTED", "COMPLETED", "FAILED"} /\ (state = "COMPLETED" => a.state = "COMPLETED")
  BY <1>4 DEF Observed, Failing
<1>8. /\ Failing(a) => Failing(new)
      /\ Failing(a) /\ state = "COMPLETED" => a.state = "COMPLETED"
  BY <1>5, <1>7 DEF Failing
<1> QED
  BY <1>5, <1>6, <1>8 DEF a, new

LEMMA ReplacedParts ==
  ASSUME NEW j \in Jobs, NEW b \in JobType(j), NEW k \in DOMAIN b.attempts, NEW new \in Attempts(j)
  PROVE  LET c == [b EXCEPT !.attempts[k] = new]
         IN  /\ c \in JobType(j) /\ DOMAIN c.attempts = DOMAIN b.attempts /\ Len(c.attempts) = Len(b.attempts)
             /\ c.attempts[k] = new /\ \A i \in DOMAIN b.attempts \ {k} : c.attempts[i] = b.attempts[i]
             /\ c.state = b.state /\ c.result = b.result
             /\ (c.forced <=> b.forced) /\ (c.interrupted <=> b.interrupted)
             /\ Open(c) = Open(b) /\ Pending(c) = Pending(b)
<1> DEFINE c == [b EXCEPT !.attempts[k] = new]
           q == [b.attempts EXCEPT ![k] = new]
<1>1. b.attempts \in Seq(Attempts(j)) /\ DOMAIN b.attempts = 1..Len(b.attempts)
  BY DEF JobType
<1>2. q \in Seq(Attempts(j)) /\ DOMAIN q = DOMAIN b.attempts /\ Len(q) = Len(b.attempts)
      /\ q[k] = new /\ \A i \in DOMAIN b.attempts \ {k} : q[i] = b.attempts[i]
  BY <1>1
<1>3. c = [b EXCEPT !.attempts = q]
  BY DEF JobType
<1> HIDE DEF c, q
<1>4. /\ c \in JobType(j) /\ c.attempts = q /\ c.zones = b.zones
      /\ c.state = b.state /\ c.result = b.result
      /\ (c.forced <=> b.forced) /\ (c.interrupted <=> b.interrupted)
  BY <1>2, <1>3 DEF JobType
<1>5. Open(c) = Open(b) /\ Pending(c) = Pending(b)
  BY <1>4 DEF Open, Pending
<1> QED
  BY <1>2, <1>4, <1>5 DEF c

\* The zones that the attempt settles for good are closed, no other one is.
LEMMA ZonesSyncedParts ==
  ASSUME NEW j \in Jobs, NEW c \in JobType(j), NEW a \in Attempts(j)
  PROVE  LET d == ZonesSynced(j, c, a)
             settles == a.state = "FAILED" \/ (a.state = "COMPLETED" /\ a.pass = Passes[j])
         IN  /\ d \in JobType(j) /\ d.attempts = c.attempts /\ Active(d) = Active(c)
             /\ d.state = c.state /\ d.result = c.result
             /\ (d.forced <=> c.forced) /\ (d.interrupted <=> c.interrupted)
             /\ Open(d) = IF settles THEN Open(c) \ a.zones ELSE Open(c)
             /\ Pending(d) \subseteq Pending(c)
             /\ InHand(d) \subseteq InHand(c) \cup a.zones
<1> DEFINE settles == a.state = "FAILED" \/ (a.state = "COMPLETED" /\ a.pass = Passes[j])
           d == ZonesSynced(j, c, a)
<1>1. a.state \in AttemptStates
  BY DEF Attempts
<1>2. \/ d = c /\ a.state \in {"RUNNING", "CANCEL_REQUESTED"}
      \/ \E s \in {"STARTING", "RUNNING"} : d = Put(c, a.zones, s) /\ ~settles
      \/ \E s \in {"SUCCESS", "FAILED"} : d = Put(c, a.zones, s) /\ settles
  BY <1>1 DEF ZonesSynced, AttemptStates
<1>3. \A s \in {"STARTING", "RUNNING", "SUCCESS", "FAILED"} :
        s \in ZoneStates /\ s \notin Unstarted /\ (s \in Done <=> s \in {"SUCCESS", "FAILED"})
  BY DEF ZoneStates, Unstarted, Done
<1> HIDE DEF d
<1>4. CASE d = c /\ a.state \in {"RUNNING", "CANCEL_REQUESTED"}
  BY <1>4 DEF d
<1>5. ASSUME NEW s \in {"STARTING", "RUNNING", "SUCCESS", "FAILED"}, d = Put(c, a.zones, s),
             settles <=> s \in {"SUCCESS", "FAILED"}
      PROVE  /\ d \in JobType(j) /\ d.attempts = c.attempts /\ Active(d) = Active(c)
             /\ d.state = c.state /\ d.result = c.result
             /\ (d.forced <=> c.forced) /\ (d.interrupted <=> c.interrupted)
             /\ Open(d) = IF settles THEN Open(c) \ a.zones ELSE Open(c)
             /\ Pending(d) = Pending(c) \ a.zones
  <2>1. s \in ZoneStates /\ s \notin Unstarted /\ (s \in Done <=> settles)
    BY <1>3, <1>5
  <2> HIDE DEF settles
  <2> DEFINE p == Put(c, a.zones, s)
  <2>2. /\ p \in JobType(j) /\ p.attempts = c.attempts /\ Active(p) = Active(c)
        /\ p.state = c.state /\ p.result = c.result
        /\ p.forced = c.forced /\ p.interrupted = c.interrupted
        /\ Open(p) = IF s \in Done THEN Open(c) \ a.zones ELSE Open(c)
        /\ Pending(p) = IF s \in Unstarted THEN Pending(c) \cup (Open(c) \cap a.zones)
                        ELSE Pending(c) \ a.zones
    <3> DEFINE S == a.zones
    <3>1. s \in ZoneStates
      BY <2>1
    <3> HIDE DEF S
    <3>2. /\ Put(c, S, s) \in JobType(j)
          /\ Put(c, S, s).attempts = c.attempts /\ Active(Put(c, S, s)) = Active(c)
          /\ Put(c, S, s).state = c.state /\ Put(c, S, s).result = c.result
          /\ Put(c, S, s).forced = c.forced /\ Put(c, S, s).interrupted = c.interrupted
          /\ Open(Put(c, S, s)) = IF s \in Done THEN Open(c) \ S ELSE Open(c)
          /\ Pending(Put(c, S, s)) = IF s \in Unstarted THEN Pending(c) \cup (Open(c) \cap S)
                                     ELSE Pending(c) \ S
      BY <3>1, PutParts
    <3> QED
      BY <3>2 DEF S
  <2>3. d = p
    BY <1>5
  <2> HIDE DEF p
  <2>4. /\ p.state = c.state /\ p.result = c.result
        /\ (p.forced <=> c.forced) /\ (p.interrupted <=> c.interrupted)
        /\ p \in JobType(j) /\ p.attempts = c.attempts /\ Active(p) = Active(c)
    BY <2>2
  <2>5. Open(p) = IF settles THEN Open(c) \ a.zones ELSE Open(c)
    BY <2>1, <2>2
  <2>6. Pending(p) = Pending(c) \ a.zones
    BY <2>1, <2>2
  <2> QED
    BY <2>3, <2>4, <2>5, <2>6
<1>6. CASE \E s \in {"STARTING", "RUNNING", "SUCCESS", "FAILED"} :
             d = Put(c, a.zones, s) /\ (settles <=> s \in {"SUCCESS", "FAILED"})
  BY <1>5, <1>6 DEF InHand, d
<1> QED
  BY <1>2, <1>4, <1>6

LEMMA Observe ==
  ASSUME NEW j \in Jobs, NEW b, Sane(j, b), NEW k \in DOMAIN b.attempts,
         NEW state \in Observed(b.attempts[k])
  PROVE  LET new == Seen(b, k, state)
             d == ZonesSynced(j, [b EXCEPT !.attempts[k] = new], new)
         IN  /\ Followable(j, b, d, k) /\ Alike(b, d)
             /\ DOMAIN d.attempts = DOMAIN b.attempts /\ Len(d.attempts) = Len(b.attempts)
             /\ d.attempts[k] = new
             /\ Halted(b) => Halted(d)
<1> DEFINE a == b.attempts[k]
           new == Seen(b, k, state)
           c == [b EXCEPT !.attempts[k] = new]
           d == ZonesSynced(j, c, new)
           D == DOMAIN b.attempts
           settles == new.state = "FAILED" \/ (new.state = "COMPLETED" /\ new.pass = Passes[j])
<1>1. b \in JobType(j) /\ k \in D
  BY DEF Sane
<1>2. /\ a \in Attempts(j) /\ Pending(b) \subseteq Open(b)
      /\ \A i \in D : b.attempts[i] \in Attempts(j)
  BY <1>1, Parts
<1>3. /\ new \in Attempts(j) /\ new.zones = a.zones /\ new.pass = a.pass
      /\ (new.linked <=> a.linked) /\ new.state = state
      /\ (~ActiveAttempt(a) => state = a.state)
      /\ (Failing(a) => Failing(new))
      /\ (Failing(a) /\ state = "COMPLETED" => a.state = "COMPLETED")
  BY <1>1, SeenParts
<1> HIDE DEF new
<1>4. /\ c \in JobType(j) /\ DOMAIN c.attempts = D /\ Len(c.attempts) = Len(b.attempts)
      /\ c.attempts[k] = new /\ \A i \in D \ {k} : c.attempts[i] = b.attempts[i]
      /\ c.state = b.state /\ c.result = b.result
      /\ (c.forced <=> b.forced) /\ (c.interrupted <=> b.interrupted)
      /\ Open(c) = Open(b) /\ Pending(c) = Pending(b)
  BY <1>1, <1>3, ReplacedParts
<1> HIDE DEF c, a
<1>5. /\ d \in JobType(j) /\ d.attempts = c.attempts
      /\ d.state = c.state /\ d.result = c.result
      /\ (d.forced <=> c.forced) /\ (d.interrupted <=> c.interrupted)
      /\ Open(d) = IF settles THEN Open(c) \ new.zones ELSE Open(c)
      /\ Pending(d) \subseteq Pending(c)
      /\ InHand(d) \subseteq InHand(c) \cup new.zones
  BY <1>3, <1>4, ZonesSyncedParts
<1> HIDE DEF d, D
<1>6. /\ DOMAIN d.attempts = D /\ Len(d.attempts) = Len(b.attempts) /\ k \in D
      /\ d.attempts[k] = new /\ \A i \in D \ {k} : d.attempts[i] = b.attempts[i]
      /\ d.state = b.state /\ d.result = b.result
      /\ (d.forced <=> b.forced) /\ (d.interrupted <=> b.interrupted)
      /\ \A i \in D : /\ d.attempts[i].zones = b.attempts[i].zones /\ d.attempts[i].pass = b.attempts[i].pass
                      /\ d.attempts[i].linked <=> b.attempts[i].linked
  BY <1>1, <1>3, <1>4, <1>5 DEF a
<1>7. /\ Open(d) = IF settles THEN Open(b) \ a.zones ELSE Open(b)
      /\ Open(d) \subseteq Open(b) /\ Pending(d) \subseteq Pending(b)
      /\ InHand(d) \subseteq InHand(b) \cup (a.zones \cap Open(d))
  BY <1>3, <1>4, <1>5 DEF InHand
<1>8. Active(d) \subseteq Active(b) /\ Active(b) \ {k} \subseteq Active(d)
  BY <1>3, <1>6 DEF Active, ActiveAttempt, a, D
<1>9. k \in Active(b) <=> ActiveAttempt(a)
  BY <1>1 DEF Active, a, D
<1>10. k \in Active(d) <=> ActiveAttempt(new)
  BY <1>6 DEF Active
<1>11. OneActive(d)
  BY <1>8 DEF OneActive, Sane
<1>12. Fresh(d) /\ Distinct(d) /\ Unlinked(d)
  BY <1>6, <1>7 DEF Fresh, Distinct, Unlinked, Sane, D
<1>13. Chained(d)
  <2>1. Chained(b)
    BY DEF Sane
  <2> QED
    BY <1>6, <2>1 DEF Chained, D
<1>14. Settling(j, d)
  <2>1. ASSUME NEW i \in D \ {k}
        PROVE  /\ d.attempts[i].state = "FAILED" \/ (d.attempts[i].state = "COMPLETED" /\ d.attempts[i].pass = Passes[j])
                    => d.attempts[i].zones \cap Open(d) = {}
               /\ d.attempts[i].linked => d.attempts[i].state = "COMPLETED"
    BY <1>6, <1>7 DEF Settling, Sane, D
  <2>2. settles => new.zones \cap Open(d) = {}
    BY <1>3, <1>7
  <2>3. new.linked => new.state = "COMPLETED"
    BY <1>1, <1>3 DEF Settling, Sane, a, ActiveAttempt, D
  <2> QED
    BY <1>6, <2>1, <2>2, <2>3 DEF Settling
<1>15. Open(d) = Open(b) \/ k \in Active(b)
  <2>1. ASSUME ~ActiveAttempt(a), settles PROVE a.zones \cap Open(b) = {}
    BY <1>1, <1>3, <2>1 DEF Settling, Sane, a, D
  <2> QED
    BY <1>7, <1>9, <2>1
<1>16. Wanted(d)
  <2>1. ASSUME NEW i \in Active(d) PROVE Open(d) = Open(b)
    <3>1. CASE i = k
      BY <1>3, <1>7, <1>10, <2>1, <3>1 DEF ActiveAttempt
    <3>2. CASE i # k
      <4>1. k \notin Active(b)
        BY <1>8, <2>1, <3>2 DEF OneActive, Sane
      <4> QED
        BY <4>1, <1>15
    <3> QED
      BY <3>1, <3>2
  <2>2. \A i \in Active(d) : i \in Active(b) /\ i \in D
    BY <1>8 DEF Active, D
  <2> QED
    BY <1>6, <2>1, <2>2 DEF Wanted, Sane
<1>17. Interrupted(d)
  <2>1. b.interrupted => b.attempts # <<>> /\ \A i \in D : Failing(b.attempts[i])
    BY DEF Interrupted, Sane, D
  <2>2. ASSUME b.interrupted PROVE d.attempts # <<>> /\ \A i \in D : Failing(d.attempts[i])
    BY <1>1, <1>3, <1>6, <2>1, <2>2 DEF a
  <2> QED
    BY <1>6, <2>2 DEF Interrupted
<1>18. \A i \in D \ {k} : ~HasSuccessor(j, d, d.attempts[i])
  BY <1>6, <1>7 DEF NothingToSucceed, HasSuccessor, Sane, D
<1>19. HasSuccessor(j, d, new) => ActiveAttempt(a)
  <2>1. ~HasSuccessor(j, b, a)
    BY <1>1 DEF NothingToSucceed, Sane, a
  <2> QED
    BY <2>1, <1>3, <1>6, <1>7 DEF HasSuccessor
<1>20. ASSUME HasSuccessor(j, d, new)
       PROVE  Active(d) = {} /\ InHand(d) \subseteq a.zones /\ Active(b) # {} /\ ~Halted(b)
  <2>1. k \in Active(b) /\ Active(b) = {k} /\ ~ActiveAttempt(new)
    BY <1>9, <1>19, <1>20 DEF OneActive, Sane, HasSuccessor, ActiveAttempt
  <2>2. Active(d) = {}
    BY <1>8, <1>10, <2>1
  <2>3. \A z \in InHand(b) : z \in a.zones
    BY <1>6, <1>20, <2>1 DEF Followed, Sane, HasSuccessor, a
  <2>4. ~Halted(b)
    BY <1>1, <1>3, <1>19, <1>20 DEF Halted, HasSuccessor, Failing, ActiveAttempt, a, D
  <2> QED
    BY <1>7, <2>1, <2>2, <2>3, <2>4
<1>21. ASSUME ~HasSuccessor(j, d, new) PROVE Followed(d)
  <2>1. CASE b.interrupted /\ Active(b) = {}
    BY <1>6, <1>8, <2>1 DEF Followed
  <2>2. CASE ~(b.interrupted /\ Active(b) = {})
    <3>1. \A z \in InHand(b) : \E i \in Active(b) : z \in b.attempts[i].zones
      BY <2>2 DEF Followed, Sane
    <3>2. ASSUME NEW z \in InHand(d), z \notin a.zones PROVE \E i \in Active(d) : z \in d.attempts[i].zones
      <4>1. PICK i \in Active(b) : z \in b.attempts[i].zones
        BY <1>7, <3>1, <3>2
      <4>2. i # k /\ i \in Active(d) /\ i \in D
        BY <1>8, <3>2, <4>1 DEF a, Active, D
      <4> QED
        BY <1>6, <4>1, <4>2
    <3>3. ASSUME NEW z \in InHand(d), z \in a.zones, ~(\E i \in Active(d) : z \in d.attempts[i].zones)
          PROVE  b.interrupted /\ Active(d) = {}
      <4>1. z \in Open(d) /\ ~settles /\ ~ActiveAttempt(new)
        BY <1>3, <1>6, <1>7, <1>10, <3>3 DEF InHand
      <4>2. state = "COMPLETED" /\ new.pass # Passes[j]
        BY <1>3, <4>1 DEF Attempts, AttemptStates, ActiveAttempt
      <4>3. new.pass < Passes[j]
        BY <1>3, <4>2, JobsAssumption DEF Attempts
      <4>4. new.linked \/ d.interrupted
        BY <1>3, <1>21, <3>3, <4>1, <4>2, <4>3 DEF HasSuccessor
      <4>5. CASE ActiveAttempt(a)
        <5>1. ~a.linked
          BY <1>1, <4>5 DEF Settling, Sane, ActiveAttempt, a, D
        <5>2. Active(d) = {}
          BY <1>8, <1>9, <1>10, <4>1, <4>5 DEF OneActive, Sane
        <5> QED
          BY <1>3, <1>6, <4>4, <5>1, <5>2
      <4>6. CASE ~ActiveAttempt(a)
        <5>1. z \in InHand(b)
          BY <1>1, <1>7, <3>3, <4>1 DEF InHand, Fresh, Sane, a, D
        <5>2. PICK i \in Active(b) : z \in b.attempts[i].zones
          BY <3>1, <5>1
        <5>3. i # k /\ i \in Active(d) /\ i \in D
          BY <1>8, <1>9, <4>6, <5>2 DEF Active, D
        <5> QED
          BY <1>6, <3>3, <5>2, <5>3
      <4> QED
        BY <4>5, <4>6
    <3> QED
      BY <1>6, <3>2, <3>3 DEF Followed
  <2> QED
    BY <2>1, <2>2
<1>22. Followable(j, b, d, k)
  BY <1>3, <1>5, <1>6, <1>11, <1>12, <1>13, <1>14, <1>16, <1>17, <1>18, <1>20, <1>21 DEF Followable
<1>23. Alike(b, d)
  <2>1. a.zones \cap Pending(b) = {}
    BY <1>1 DEF Sane, Fresh, a, D
  <2>2. InHand(d) \subseteq InHand(b)
    BY <1>7, <2>1 DEF InHand
  <2> QED
    BY <1>6, <1>7, <1>8, <2>2 DEF Alike
<1>24. ASSUME Halted(b) PROVE Halted(d)
  <2>1. \A i \in D : Failing(d.attempts[i])
    BY <1>1, <1>3, <1>6, <1>24 DEF Halted, a, D
  <2>2. b.attempts # <<>> /\ d.attempts # <<>>
    BY <1>1, <1>6 DEF D
  <2> QED
    BY <1>6, <1>7, <1>24, <2>1, <2>2 DEF Halted
<1> QED
  BY <1>6, <1>22, <1>23, <1>24 DEF d, c, new, D

LEMMA StartedLaunches ==
  ASSUME NEW j \in Jobs, NEW d, NEW zones, NEW pass, Startable(j, d, zones, pass),
         NEW outcome \in {"sent", "failed"}
  PROVE  Launched(j, d, zones, Started(j, d, zones, pass, outcome))
<1> DEFINE state == IF outcome = "sent" THEN "STARTING" ELSE "FAILED"
           a == [zones |-> zones, pass |-> pass, confirmed |-> FALSE, linked |-> FALSE, state |-> state]
           f == [d EXCEPT !.attempts = Append(@, a)]
<1>1. state \in {"STARTING", "FAILED"}
  OBVIOUS
<1>2. Started(j, d, zones, pass, outcome) = ZonesSynced(j, f, a)
  BY DEF Started
<1>3. a.state = state /\ a.zones = zones
  OBVIOUS
<1> HIDE DEF f
<1>4. ZonesSynced(j, f, a) = Put(f, zones, state)
  <2> HIDE DEF a, state
  <2> QED
    BY <1>1, <1>3 DEF ZonesSynced
<1> HIDE DEF state
<1>5. Launched(j, d, zones, Put(f, zones, state))
  BY <1>1, Launch DEF f
<1> QED
  BY <1>2, <1>4, <1>5

\* What progress leaves as it was.
Kin(j, b, c) ==
  /\ Sane(j, c)
  /\ c.state = b.state /\ c.result = b.result /\ (c.forced <=> b.forced) /\ (c.interrupted <=> b.interrupted)
  /\ Open(c) \subseteq Open(b) /\ Pending(c) \subseteq Pending(b) /\ InHand(c) \subseteq InHand(b)
  /\ Active(c) # {} => Active(b) # {}
  /\ Len(c.attempts) \in Nat /\ Len(b.attempts) \in Nat /\ Len(b.attempts) <= Len(c.attempts)
  /\ Halted(b) => Halted(c) /\ Len(c.attempts) = Len(b.attempts)

\* e is d with the link to the next pass, which may be started.
Linked(j, d, e, k) ==
  /\ Startable(j, e, d.attempts[k].zones \cap Open(d), d.attempts[k].pass + 1)
  /\ Len(e.attempts) = Len(d.attempts)
  /\ e.state = d.state /\ e.result = d.result /\ (e.forced <=> d.forced)
  /\ Open(e) = Open(d) /\ Pending(e) = Pending(d)

LEMMA SuccessorStartable ==
  ASSUME NEW j \in Jobs, NEW b, NEW d, NEW k \in DOMAIN d.attempts, Followable(j, b, d, k),
         HasSuccessor(j, d, d.attempts[k]), NEW e, e = [d EXCEPT !.attempts[k].linked = TRUE]
  PROVE  Linked(j, d, e, k)
<1> DEFINE a == d.attempts[k]
           new == [a EXCEPT !.linked = TRUE]
           zones == a.zones \cap Open(d)
           pass == a.pass + 1
           D == DOMAIN d.attempts
<1>1. d \in JobType(j) /\ OneActive(d) /\ k \in D
  BY DEF Followable
<1>2. a \in Attempts(j) /\ Len(d.attempts) \in Nat /\ \A i \in D : d.attempts[i] \in Attempts(j)
  BY <1>1, Parts
<1>3. e = [d EXCEPT !.attempts[k] = new]
  OBVIOUS
<1>4. /\ a.state = "COMPLETED" /\ a.pass < Passes[j] /\ ~a.linked /\ ~d.interrupted /\ zones # {}
  BY DEF HasSuccessor
<1>5. Active(d) = {} /\ InHand(d) \subseteq a.zones
  BY DEF Followable
<1>6. \A i \in D \ {k} : ~HasSuccessor(j, d, d.attempts[i])
  BY DEF Followable
<1> HIDE DEF a
<1>7. /\ new \in Attempts(j) /\ new.zones = a.zones /\ new.pass = a.pass /\ new.state = a.state /\ new.linked
  BY <1>2 DEF Attempts
<1> HIDE DEF new
<1>8. /\ e \in JobType(j) /\ DOMAIN e.attempts = D /\ Len(e.attempts) = Len(d.attempts)
      /\ e.attempts[k] = new /\ \A i \in D \ {k} : e.attempts[i] = d.attempts[i]
      /\ e.state = d.state /\ e.result = d.result
      /\ (e.forced <=> d.forced) /\ (e.interrupted <=> d.interrupted)
      /\ Open(e) = Open(d) /\ Pending(e) = Pending(d)
  <2> DEFINE c == [d EXCEPT !.attempts[k] = new]
  <2>1. /\ c \in JobType(j) /\ DOMAIN c.attempts = D /\ Len(c.attempts) = Len(d.attempts)
        /\ c.attempts[k] = new /\ \A i \in D \ {k} : c.attempts[i] = d.attempts[i]
        /\ c.state = d.state /\ c.result = d.result
        /\ (c.forced <=> d.forced) /\ (c.interrupted <=> d.interrupted)
        /\ Open(c) = Open(d) /\ Pending(c) = Pending(d)
    BY <1>1, <1>7, ReplacedParts
  <2>2. e = c
    BY <1>3
  <2> HIDE DEF c
  <2> QED
    BY <2>1, <2>2
<1> HIDE DEF D, zones, pass
<1>9. \A i \in D : /\ e.attempts[i].zones = d.attempts[i].zones /\ e.attempts[i].pass = d.attempts[i].pass
                   /\ e.attempts[i].state = d.attempts[i].state
                   /\ ~e.attempts[i].linked => i # k /\ ~d.attempts[i].linked
  BY <1>7, <1>8 DEF a
<1>10. pass \in 1..Passes[j] /\ pass # 1 /\ pass \in Nat /\ a.pass \in Nat
  BY <1>2, <1>4, JobsAssumption DEF Attempts, pass
<1>11. Active(e) = {}
  BY <1>5, <1>8, <1>9 DEF Active, ActiveAttempt, D
<1>12. NothingToSucceed(j, e)
  <2>1. ~HasSuccessor(j, e, e.attempts[k])
    BY <1>7, <1>8 DEF HasSuccessor
  <2>2. ASSUME NEW i \in D \ {k} PROVE ~HasSuccessor(j, e, e.attempts[i])
    BY <1>6, <1>8 DEF HasSuccessor
  <2> QED
    BY <2>1, <2>2, <1>8 DEF NothingToSucceed
<1>13. Fresh(e) /\ Distinct(e)
  BY <1>8, <1>9 DEF Followable, Fresh, Distinct, D
<1>14. Unlinked(e)
  BY <1>8, <1>9 DEF Followable, Unlinked, D
<1>15. Chained(e)
  <2>1. Chained(d)
    BY DEF Followable
  <2> QED
    BY <2>1, <1>8, <1>9 DEF Chained, D
<1>16. Settling(j, e)
  <2>1. Settling(j, d)
    BY DEF Followable
  <2>2. ASSUME NEW i \in D
        PROVE  /\ e.attempts[i].state = "FAILED" \/ (e.attempts[i].state = "COMPLETED" /\ e.attempts[i].pass = Passes[j])
                    => e.attempts[i].zones \cap Open(e) = {}
               /\ e.attempts[i].linked => e.attempts[i].state = "COMPLETED"
    <3>1. CASE i = k
      BY <2>1, <3>1, <1>1, <1>4, <1>7, <1>8, <1>9 DEF Settling, D, a
    <3>2. CASE i # k
      BY <2>1, <3>2, <1>8 DEF Settling, D
    <3> QED
      BY <3>1, <3>2
  <2> QED
    BY <2>2, <1>8 DEF Settling
<1>17. InHand(e) \subseteq zones /\ zones \subseteq Open(e)
  BY <1>5, <1>8 DEF InHand, zones
<1>18. \A i \in D : d.attempts[i].pass = pass => d.attempts[i].zones \cap zones = {}
  BY <1>1, <1>4 DEF Followable, Unlinked, D, a, zones, pass
<1>19. \A i \in D : d.attempts[i].pass = pass + 1 => d.attempts[i].zones \cap zones = {}
  <2>1. ASSUME NEW i \in D, d.attempts[i].pass = pass + 1 PROVE d.attempts[i].zones \cap zones = {}
    <3>1. Chained(d) /\ d.attempts[i].pass # 1
      BY <2>1, <1>10 DEF Followable
    <3>2. PICK m \in D : d.attempts[i].pass = d.attempts[m].pass + 1 /\ d.attempts[i].zones \subseteq d.attempts[m].zones
      BY <3>1 DEF Chained, D
    <3>3. d.attempts[m].pass = pass
      BY <2>1, <3>2, <1>2, <1>10 DEF Attempts
    <3> QED
      BY <1>18, <3>2, <3>3
  <2> QED
    BY <2>1
<1>20. \A i \in D : ~e.attempts[i].linked /\ pass = d.attempts[i].pass + 1 => d.attempts[i].zones \cap zones = {}
  <2>1. ASSUME NEW i \in D, ~e.attempts[i].linked, pass = d.attempts[i].pass + 1
        PROVE  d.attempts[i].zones \cap zones = {}
    <3>1. i # k /\ d.attempts[i].pass = a.pass
      BY <2>1, <1>2, <1>9, <1>10 DEF Attempts, pass
    <3> QED
      BY <3>1, <1>1 DEF Followable, Distinct, D, a, zones
  <2> QED
    BY <2>1
<1>21. pass = e.attempts[k].pass + 1 /\ zones \subseteq e.attempts[k].zones /\ k \in DOMAIN e.attempts
  BY <1>1, <1>7, <1>8 DEF pass, zones
<1>22. \A i \in DOMAIN e.attempts :
         LET x == e.attempts[i]
         IN  x.pass = pass \/ x.pass = pass + 1 \/ (~x.linked /\ pass = x.pass + 1) => x.zones \cap zones = {}
  BY <1>8, <1>9, <1>18, <1>19, <1>20
<1>23. zones # {} /\ ~e.interrupted
  BY <1>4, <1>8
<1>24. Startable(j, e, zones, pass)
  BY <1>8, <1>10, <1>11, <1>12, <1>13, <1>14, <1>15, <1>16, <1>17, <1>21, <1>22, <1>23 DEF Startable
<1> QED
  BY <1>8, <1>24 DEF Linked, zones, pass, a

LEMMA SuccessorKeeps ==
  ASSUME NEW j \in Jobs, NEW b, Sane(j, b), NEW k \in DOMAIN b.attempts, NEW d, NEW c,
         Followable(j, b, d, k), Alike(b, d), Halted(b) => Halted(d),
         DOMAIN d.attempts = DOMAIN b.attempts, Len(d.attempts) = Len(b.attempts),
         IF HasSuccessor(j, d, d.attempts[k])
         THEN \E outcome \in {"sent", "failed"} :
                c = Started(j, [d EXCEPT !.attempts[k].linked = outcome # "deferred"],
                            d.attempts[k].zones \cap Open(d), d.attempts[k].pass + 1, outcome)
         ELSE c = d
  PROVE  Kin(j, b, c)
<1>1. Len(b.attempts) \in Nat
  BY Parts DEF Sane
<1>2. CASE ~HasSuccessor(j, d, d.attempts[k])
  <2>1. Sane(j, d)
    BY <1>2 DEF Sane, Followable, NothingToSucceed
  <2> QED
    BY <1>1, <1>2, <2>1 DEF Kin, Alike
<1>3. CASE HasSuccessor(j, d, d.attempts[k])
  <2> DEFINE e == [d EXCEPT !.attempts[k].linked = TRUE]
             zones == d.attempts[k].zones \cap Open(d)
             pass == d.attempts[k].pass + 1
  <2>1. PICK outcome \in {"sent", "failed"} :
          c = Started(j, [d EXCEPT !.attempts[k].linked = outcome # "deferred"], zones, pass, outcome)
    BY <1>3
  <2>2. (outcome # "deferred") = TRUE
    OBVIOUS
  <2>3. c = Started(j, e, zones, pass, outcome)
    BY <2>1, <2>2
  <2>4. /\ e = [d EXCEPT !.attempts[k].linked = TRUE]
        /\ k \in DOMAIN d.attempts /\ HasSuccessor(j, d, d.attempts[k]) /\ Followable(j, b, d, k)
    BY <1>3
  <2> HIDE DEF e
  <2>5. /\ Startable(j, e, zones, pass)
        /\ Len(e.attempts) = Len(d.attempts)
        /\ e.state = d.state /\ e.result = d.result /\ (e.forced <=> d.forced)
        /\ Open(e) = Open(d) /\ Pending(e) = Pending(d)
    <3>1. Linked(j, d, e, k)
      BY <2>4, SuccessorStartable
    <3> QED
      BY <3>1 DEF Linked
  <2> HIDE DEF zones, pass
  <2>6. Launched(j, e, zones, c)
    BY <2>3, <2>5, StartedLaunches
  <2>7. Active(b) # {} /\ ~Halted(b) /\ ~d.interrupted
    BY <1>3 DEF Followable, HasSuccessor
  <2>8. Len(c.attempts) = Len(b.attempts) + 1
    BY <2>5, <2>6 DEF Launched
  <2>9. InHand(c) \subseteq InHand(d)
    <3>1. zones \cap Pending(d) = {} /\ zones \subseteq Open(d)
      BY <2>4 DEF Followable, Fresh, zones
    <3> QED
      BY <2>6, <3>1 DEF Launched, InHand
  <2> QED
    BY <1>1, <2>5, <2>6, <2>7, <2>8, <2>9 DEF Kin, Alike, Launched
<1> QED
  BY <1>2, <1>3

LEMMA AdvancedKeeps ==
  ASSUME LateBlockersFirst, NEW j \in Jobs, NEW b, Sane(j, b), NEW k \in DOMAIN b.attempts,
         NEW c \in Advanced(j, b, k)
  PROVE  Kin(j, b, c)
<1> DEFINE d(state) == ZonesSynced(j, [b EXCEPT !.attempts[k] = Seen(b, k, state)], Seen(b, k, state))
           next(state, outcome) ==
             Started(j, [d(state) EXCEPT !.attempts[k].linked = outcome # "deferred"],
                     d(state).attempts[k].zones \cap Open(d(state)), d(state).attempts[k].pass + 1, outcome)
           all(state) == IF HasSuccessor(j, d(state), Seen(b, k, state))
                         THEN {next(state, outcome) : outcome \in Outcomes(b.attempts[k].pass + 1)}
                         ELSE {d(state)}
<1>1. b.attempts[k].pass + 1 # 1
  <2>1. b.attempts[k] \in Attempts(j)
    BY Parts DEF Sane
  <2> QED
    BY <2>1, JobsAssumption DEF Attempts
<1>2. Outcomes(b.attempts[k].pass + 1) = {"sent", "failed"}
  BY <1>1 DEF Outcomes, LateBlockersFirst
<1>3. Advanced(j, b, k) = UNION {all(state) : state \in Observed(b.attempts[k])}
  BY DEF Advanced, Seen
<1> HIDE DEF all
<1>4. PICK state \in Observed(b.attempts[k]) : c \in all(state)
  BY <1>3
<1>5. /\ Followable(j, b, d(state), k) /\ Alike(b, d(state))
      /\ DOMAIN d(state).attempts = DOMAIN b.attempts /\ Len(d(state).attempts) = Len(b.attempts)
      /\ d(state).attempts[k] = Seen(b, k, state)
      /\ Halted(b) => Halted(d(state))
  BY Observe
<1> HIDE DEF d
<1>6. IF HasSuccessor(j, d(state), Seen(b, k, state))
      THEN \E outcome \in {"sent", "failed"} : c = next(state, outcome)
      ELSE c = d(state)
  <2> HIDE DEF next
  <2> QED
    BY <1>2, <1>4 DEF all
<1> DEFINE ds == d(state)
<1>7. IF HasSuccessor(j, ds, ds.attempts[k])
      THEN \E outcome \in {"sent", "failed"} :
             c = Started(j, [ds EXCEPT !.attempts[k].linked = outcome # "deferred"],
                         ds.attempts[k].zones \cap Open(ds), ds.attempts[k].pass + 1, outcome)
      ELSE c = ds
  BY <1>5, <1>6
<1>8. /\ Followable(j, b, ds, k) /\ Alike(b, ds) /\ (Halted(b) => Halted(ds))
      /\ DOMAIN ds.attempts = DOMAIN b.attempts /\ Len(ds.attempts) = Len(b.attempts)
  BY <1>5
<1> HIDE DEF ds
<1> QED
  BY <1>7, <1>8, SuccessorKeeps

LEMMA KinReflexive ==
  ASSUME NEW j \in Jobs, NEW b, Sane(j, b)
  PROVE  Kin(j, b, b)
<1>1. Len(b.attempts) \in Nat
  BY Parts DEF Sane
<1> QED
  BY <1>1 DEF Kin

LEMMA KinTransitive ==
  ASSUME NEW j, NEW b, NEW c, NEW d, Kin(j, b, c), Kin(j, c, d)
  PROVE  Kin(j, b, d)
BY DEF Kin

\* f is the recursive function of Progress: such a function exists.
Steps(j, b, n, f) ==
  f = [k \in 0..n |-> IF k = 0 THEN {b} ELSE UNION {Advanced(j, c, k) : c \in f[k - 1]}]

LEMMA ProgressDefined ==
  ASSUME NEW j, NEW b, NEW n \in Nat
  PROVE  \E f : Steps(j, b, n, f)
<1> DEFINE step(k, X) == UNION {Advanced(j, c, k) : c \in X}
<1> HIDE DEF step
<1> DEFINE S == {m \in Nat : \E f : f = [k \in 0..m |-> IF k = 0 THEN {b} ELSE step(k, f[k - 1])]}
<1>1. 0 \in S
  <2> DEFINE f == [k \in 0..0 |-> {b}]
  <2>1. f = [k \in 0..0 |-> IF k = 0 THEN {b} ELSE step(k, f[k - 1])]
    OBVIOUS
  <2> QED
    BY <2>1
<1>2. ASSUME NEW m \in S \cap Nat PROVE m + 1 \in S
  <2>1. PICK f : f = [k \in 0..m |-> IF k = 0 THEN {b} ELSE step(k, f[k - 1])]
    BY <1>2
  <2> DEFINE g == [k \in 0..m + 1 |-> IF k = m + 1 THEN step(m + 1, f[m]) ELSE f[k]]
  <2>2. \A k \in 0..m : k # m + 1 /\ k \in 0..m + 1 /\ g[k] = f[k]
    OBVIOUS
  <2>3. \A k \in 0..m : f[k] = IF k = 0 THEN {b} ELSE step(k, f[k - 1])
    BY <2>1
  <2>4. ASSUME NEW k \in 0..m + 1 PROVE g[k] = IF k = 0 THEN {b} ELSE step(k, g[k - 1])
    <3>1. CASE k = m + 1
      <4>1. m \in 0..m /\ k # 0 /\ k - 1 = m
        BY <3>1
      <4>2. g[k] = step(m + 1, f[m])
        BY <3>1
      <4> QED
        BY <3>1, <4>1, <4>2, <2>2
    <3>2. CASE k # m + 1
      <4>1. k \in 0..m /\ (k # 0 => k - 1 \in 0..m)
        BY <3>2
      <4> HIDE DEF g
      <4> QED
        BY <4>1, <2>2, <2>3
    <3> QED
      BY <3>1, <3>2
  <2>5. g = [k \in 0..m + 1 |-> g[k]]
    OBVIOUS
  <2> HIDE DEF g
  <2>6. g = [k \in 0..m + 1 |-> IF k = 0 THEN {b} ELSE step(k, g[k - 1])]
    BY <2>4, <2>5
  <2> QED
    BY <2>6
<1>3. n \in S
  <2> HIDE DEF S
  <2> QED
    BY <1>1, <1>2, SetInduction
<1> QED
  BY <1>3 DEF step, Steps

LEMMA ProgressKeeps ==
  ASSUME LateBlockersFirst, NEW j \in Jobs, NEW b, Sane(j, b), NEW c \in Progress(j, b)
  PROVE  Kin(j, b, c) /\ Len(c.attempts) <= MaxAttempts
<1> DEFINE n == Len(b.attempts)
           step(k, X) == UNION {Advanced(j, d, k) : d \in X}
           after == CHOOSE f : Steps(j, b, n, f)
           S == {k \in Nat : k <= n => \A d \in after[k] : Kin(j, b, d)}
<1>1. Progress(j, b) = {d \in after[n] : Len(d.attempts) <= MaxAttempts}
  BY DEF Progress, Steps
<1>2. n \in Nat
  BY Parts DEF Sane
<1> HIDE DEF n
<1>3. \E f : Steps(j, b, n, f)
  BY <1>2, ProgressDefined
<1>4. Steps(j, b, n, after)
  BY <1>3, Zenon
<1> HIDE DEF after, step
<1>5. 0 \in S
  <2>1. after[0] = {b}
    BY <1>2, <1>4 DEF Steps
  <2> QED
    BY <2>1, KinReflexive
<1>6. ASSUME NEW k \in S \cap Nat PROVE k + 1 \in S
  <2>1. ASSUME k + 1 <= n, NEW d \in after[k + 1] PROVE Kin(j, b, d)
    <3>1. k + 1 # 0 /\ k + 1 - 1 = k /\ k + 1 \in 0..n /\ k <= n
      BY <1>2, <2>1
    <3>2. after[k + 1] = step(k + 1, after[k])
      <4>1. \A i \in 0..n : after[i] = IF i = 0 THEN {b} ELSE step(i, after[i - 1])
        BY <1>4 DEF Steps, step
      <4>2. after[k + 1] = step(k + 1, after[k + 1 - 1])
        BY <3>1, <4>1
      <4> QED
        BY <3>1, <4>2
    <3>3. PICK e \in after[k] : d \in Advanced(j, e, k + 1)
      BY <2>1, <3>2 DEF step
    <3>4. Kin(j, b, e)
      BY <1>6, <3>1, <3>3
    <3>5. Sane(j, e) /\ e \in JobType(j) /\ n <= Len(e.attempts) /\ Len(e.attempts) \in Nat
      BY <3>4 DEF Kin, Sane, n
    <3>6. k + 1 \in DOMAIN e.attempts
      BY <1>2, <2>1, <3>5, Parts
    <3>7. Kin(j, e, d)
      BY <3>3, <3>5, <3>6, AdvancedKeeps
    <3> QED
      BY <3>4, <3>7, KinTransitive
  <2> QED
    BY <2>1
<1>7. n \in S
  <2> HIDE DEF S
  <2> QED
    BY <1>2, <1>5, <1>6, SetInduction
<1> QED
  BY <1>1, <1>2, <1>7

-----------------------------------------------------------------------------
(* Preparing a job *)

\* Zones of p were closed or go on waiting, and nothing else.
Lessened(j, p, q) ==
  /\ Sane(j, q) /\ q.attempts = p.attempts /\ Active(q) = Active(p)
  /\ q.state = p.state /\ q.result = p.result /\ (q.interrupted <=> p.interrupted)
  /\ Open(q) \subseteq Open(p) /\ Pending(q) \subseteq Pending(p) /\ InHand(q) \subseteq InHand(p)

LEMMA PutLessens ==
  ASSUME NEW j \in Jobs, NEW b, Sane(j, b), NEW S, NEW s \in ZoneStates,
         s \in Done \/ (s = "WAIT" /\ S \cap Open(b) \subseteq Pending(b)),
         \A k \in Active(b) : b.attempts[k].zones \cap (Open(Put(b, S, s)) \cup disabled) # {}
  PROVE  /\ Lessened(j, b, Put(b, S, s))
         /\ Open(Put(b, S, s)) = IF s \in Done THEN Open(b) \ S ELSE Open(b)
         /\ Pending(Put(b, S, s)) = IF s \in Done THEN Pending(b) \ S ELSE Pending(b)
<1> DEFINE c == Put(b, S, s)
<1>1. b \in JobType(j)
  BY DEF Sane
<1>2. /\ c.attempts = b.attempts /\ Active(c) = Active(b)
      /\ c.state = b.state /\ c.result = b.result /\ (c.interrupted <=> b.interrupted)
      /\ Open(c) = IF s \in Done THEN Open(b) \ S ELSE Open(b)
      /\ Pending(c) = IF s \in Unstarted THEN Pending(b) \cup (Open(b) \cap S) ELSE Pending(b) \ S
  BY <1>1, PutParts
<1>3. Sane(j, c)
  BY PutKeeps
<1> HIDE DEF c
<1>4. Pending(c) = IF s \in Done THEN Pending(b) \ S ELSE Pending(b)
  BY <1>2 DEF Done, Unstarted
<1>5. InHand(c) \subseteq InHand(b)
  BY <1>2, <1>4, <1>1, Parts DEF InHand
<1> QED
  BY <1>2, <1>3, <1>4, <1>5 DEF Lessened, c

LEMMA LessenedTransitive ==
  ASSUME NEW j, NEW p, NEW q, NEW r, Lessened(j, p, q), Lessened(j, q, r)
  PROVE  Lessened(j, p, r)
BY DEF Lessened

\* Closing zones that no running attempt is for.
LEMMA ClosingLessens ==
  ASSUME NEW j \in Jobs, NEW b, Sane(j, b), NEW S, NEW s \in Done,
         \A k \in Active(b) : b.attempts[k].zones \cap S \subseteq disabled
  PROVE  /\ Lessened(j, b, Put(b, S, s))
         /\ Open(Put(b, S, s)) = Open(b) \ S /\ Pending(Put(b, S, s)) = Pending(b) \ S
<1>1. s \in ZoneStates
  BY DEF Done, ZoneStates
<1>2. Open(Put(b, S, s)) = Open(b) \ S
  <2>1. b \in JobType(j)
    BY DEF Sane
  <2>2. Open(Put(b, S, s)) = IF s \in Done THEN Open(b) \ S ELSE Open(b)
    BY <1>1, <2>1, PutParts
  <2> QED
    BY <2>2
<1>3. \A k \in Active(b) : b.attempts[k].zones \cap (Open(Put(b, S, s)) \cup disabled) # {}
  BY <1>2 DEF Sane, Wanted
<1>4. /\ Lessened(j, b, Put(b, S, s))
      /\ Pending(Put(b, S, s)) = IF s \in Done THEN Pending(b) \ S ELSE Pending(b)
  BY <1>1, <1>3, PutLessens
<1> QED
  BY <1>2, <1>4

\* What a step of the reconcile leaves of q.
Upheld(j, q, c) ==
  /\ Sane(j, c) /\ Terminal(c) /\ Covered(c)
  /\ Active(c) = Active(q) /\ Pending(c) = Pending(q) /\ InHand(c) \subseteq InHand(q)
  /\ c.interrupted => q.interrupted
  /\ Halted(q) => Halted(c) /\ Len(c.attempts) <= Len(q.attempts)

LEMMA SaneUpheld ==
  ASSUME NEW j \in Jobs, NEW q, Sane(j, q), q.result = "none", Stated(q), Covered(q)
  PROVE  (Agreed(q) => Upheld(j, q, q)) /\ Upheld(j, q, Synced(q))
<1>1. q \in JobType(j) /\ Len(q.attempts) \in Nat
  BY Parts DEF Sane
<1>2. Agreed(q) => Terminal(q)
  BY DEF Terminal, Stated
<1>3. Agreed(q) => Upheld(j, q, q)
  BY <1>1, <1>2 DEF Upheld
<1> DEFINE c == Synced(q)
<1>4. /\ Sane(j, c) /\ Stated(c)
      /\ c.attempts = q.attempts /\ Active(c) = Active(q)
      /\ Open(c) = Open(q) /\ Pending(c) = Pending(q)
      /\ c.result = q.result /\ (c.interrupted <=> q.interrupted)
      /\ Agreed(c)
  BY <1>1, SyncedParts, SyncedKeeps
<1> HIDE DEF c
<1>5. Terminal(c) /\ Covered(c) /\ InHand(c) = InHand(q)
  BY <1>4 DEF Terminal, Stated, Covered, InHand
<1>6. Halted(q) => Halted(c)
  BY <1>4 DEF Halted
<1>7. Upheld(j, q, c)
  BY <1>1, <1>4, <1>5, <1>6 DEF Upheld
<1> QED
  BY <1>3, <1>7 DEF c

LEMMA EndedUpheld ==
  ASSUME NEW j \in Jobs, NEW q, Sane(j, q), NEW c, Ended(j, q, c)
  PROVE  Upheld(j, q, c) /\ Upheld(j, q, Synced(c))
<1>1. q \in JobType(j) /\ c \in JobType(j)
  BY DEF Sane, Ended
<1>2. Pending(c) = {} /\ Pending(q) = {} /\ InHand(c) = {} /\ Len(q.attempts) \in Nat
  BY <1>1, Parts DEF Ended, InHand
<1>3. Terminal(c) /\ Covered(c)
  BY <1>2 DEF Ended, Terminal, Stated, Covered, Agreed
<1>4. Len(c.attempts) <= Len(q.attempts) /\ DOMAIN c.attempts \subseteq DOMAIN q.attempts
      /\ \A k \in DOMAIN c.attempts : c.attempts[k] = q.attempts[k]
  BY <1>2 DEF Ended
<1>5. Halted(q) => Halted(c)
  BY <1>2, <1>4 DEF Ended, Halted
<1>6. Upheld(j, q, c)
  BY <1>2, <1>3, <1>4, <1>5 DEF Upheld, Ended
<1>7. Synced(c) = c
  BY DEF Synced, Ended
<1> QED
  BY <1>6, <1>7

LEMMA AggregatedUpheld ==
  ASSUME NEW j \in Jobs, NEW q, Sane(j, q), q.result = "none", Stated(q), Covered(q)
  PROVE  (Agreed(q) => Upheld(j, q, Aggregated(q))) /\ Upheld(j, q, Synced(Aggregated(q)))
<1>1. IF Open(q) = {} THEN Ended(j, q, Aggregated(q)) ELSE Aggregated(q) = q
  BY AggregatedEnds
<1>2. CASE Open(q) = {}
  BY <1>1, <1>2, EndedUpheld
<1>3. CASE Open(q) # {}
  BY <1>1, <1>3, SaneUpheld
<1> QED
  BY <1>2, <1>3

\* What the preparation of b may be.
Preparation(j, b, c, ready) ==
  /\ Sane(j, c) /\ Terminal(c) /\ Covered(c)
  /\ Active(c) # {} => Active(b) # {}
  /\ Halted(b) => Halted(c) /\ Len(c.attempts) <= Len(b.attempts)
  /\ InHand(c) \subseteq InHand(b) /\ Pending(c) \subseteq Pending(b)
  /\ ready \subseteq Pending(c) /\ Closed(j, c, ready)
  /\ ready # {} => ~c.interrupted

\* A preparation out of p, a progress of b, by way of q.
LEMMA UpheldPrepares ==
  ASSUME NEW j \in Jobs, NEW b, NEW p, Kin(j, b, p), NEW q, Lessened(j, p, q),
         NEW c, Upheld(j, q, c), NEW ready, ready \subseteq Pending(q), Closed(j, q, ready),
         ready # {} => ~q.interrupted
  PROVE  Preparation(j, b, c, ready)
<1>1. Halted(p) => Halted(q)
  BY DEF Halted, Lessened
<1>2. Len(q.attempts) = Len(p.attempts)
  BY DEF Lessened
<1>3. Closed(j, c, ready)
  BY DEF Closed, Upheld
<1> QED
  BY <1>1, <1>2, <1>3 DEF Preparation, Upheld, Lessened, Kin

LEMMA LessenedStays ==
  ASSUME NEW j \in Jobs, NEW p, Stated(p), p.result = "none", NEW q, Lessened(j, p, q)
  PROVE  Stated(q) /\ q.result = "none" /\ (Covered(p) => Covered(q)) /\ (Agreed(p) => Agreed(q))
<1>1. Stated(q) /\ q.result = "none"
  BY DEF Stated, Lessened
<1>2. Covered(p) => Covered(q)
  BY DEF Covered, Lessened
<1>3. Agreed(p) => Agreed(q)
  BY DEF Agreed, Lessened
<1> QED
  BY <1>1, <1>2, <1>3

LEMMA LessenedReflexive ==
  ASSUME NEW j, NEW p, Sane(j, p)
  PROVE  Lessened(j, p, p)
BY DEF Lessened

\* b, followed to p, is prepared to some c.
Prepares(j, b) == \E c, ready : Preparation(j, b, c, ready) /\ Prepared(j, c, ready)

LEMMA NothingPending ==
  ASSUME NEW j \in Jobs, NEW p, Sane(j, p)
  PROVE  \A k \in Active(p) : p.attempts[k].zones \cap Pending(p) \subseteq disabled
<1>1. p \in JobType(j)
  BY DEF Sane
<1>2. \A k \in Active(p) : k \in DOMAIN p.attempts
  BY <1>1, Parts
<1> QED
  BY <1>2 DEF Sane, Fresh

LEMMA FollowedIsCovered ==
  ASSUME NEW j \in Jobs, NEW p, Sane(j, p), ~p.interrupted \/ Active(p) # {} \/ Open(p) = {}
  PROVE  Covered(p)
BY DEF Sane, Followed, Covered, InHand

\* By way of Aggregated, and perhaps Synced.
LEMMA ConcludedPrepares ==
  ASSUME NEW j \in Jobs, NEW b, NEW p, Kin(j, b, p), Stated(p), p.result = "none", Agreed(p), Covered(p),
         NEW q, Lessened(j, p, q), NEW c \in {q, Aggregated(q), Synced(Aggregated(q))},
         NEW ready, ready \subseteq Pending(q), Closed(j, q, ready), ready # {} => ~q.interrupted
  PROVE  Preparation(j, b, c, ready)
<1>1. Sane(j, q) /\ Stated(q) /\ q.result = "none" /\ Covered(q) /\ Agreed(q)
  BY LessenedStays DEF Lessened
<1>2. Upheld(j, q, q) /\ Upheld(j, q, Aggregated(q)) /\ Upheld(j, q, Synced(Aggregated(q)))
  BY <1>1, SaneUpheld, AggregatedUpheld
<1>3. Upheld(j, q, c)
  BY <1>2
<1> QED
  BY <1>3, UpheldPrepares

LEMMA FinishedPrepares ==
  ASSUME NEW j \in Jobs, NEW b, NEW p, Kin(j, b, p), Stated(p), p.result = "none", Agreed(p),
         PrepareFinished(j, p)
  PROVE  Prepares(j, b)
<1>1. Sane(j, p)
  BY DEF Kin
<1>2. Open(p) = {}
  BY <1>1, AggregatedEnds DEF PrepareFinished
<1>3. Covered(p) /\ Lessened(j, p, p)
  BY <1>1, <1>2, FollowedIsCovered, LessenedReflexive
<1>4. Preparation(j, b, Aggregated(p), {})
  BY <1>3, ConcludedPrepares DEF Closed
<1> QED
  BY <1>4 DEF Prepares, PrepareFinished

LEMMA InterruptedPrepares ==
  ASSUME NEW j \in Jobs, NEW b, NEW p, Kin(j, b, p), Stated(p), p.result = "none", Agreed(p),
         PrepareInterrupted(j, p)
  PROVE  Prepares(j, b)
<1>1. Sane(j, p)
  BY DEF Kin
<1>2. CASE Active(p) # {}
  <2>1. Covered(p) /\ Lessened(j, p, p)
    BY <1>1, <1>2, FollowedIsCovered, LessenedReflexive
  <2>2. Preparation(j, b, p, {})
    BY <2>1, ConcludedPrepares DEF Closed
  <2> QED
    BY <1>2, <2>2 DEF Prepares, PrepareInterrupted
<1>3. CASE Active(p) = {}
  <2> DEFINE q == Put(p, Open(p), "FAILED")
  <2>1. Lessened(j, p, q) /\ Open(q) = Open(p) \ Open(p)
    BY <1>1, <1>3, ClosingLessens DEF Done
  <2> HIDE DEF q
  <2>2. Sane(j, q) /\ Stated(q) /\ q.result = "none" /\ Covered(q) /\ Agreed(q)
    BY <2>1, LessenedStays, FollowedIsCovered DEF Lessened
  <2>3. Upheld(j, q, Aggregated(q))
    BY <2>2, AggregatedUpheld
  <2>4. Preparation(j, b, Aggregated(q), {})
    BY <2>1, <2>3, UpheldPrepares DEF Closed
  <2>5. Prepared(j, Aggregated(q), {})
    BY <1>3 DEF PrepareInterrupted, q
  <2> QED
    BY <2>4, <2>5 DEF Prepares
<1> QED
  BY <1>2, <1>3

LEMMA SuppressedPrepares ==
  ASSUME NEW j \in Jobs, NEW b, NEW p, Kin(j, b, p), Stated(p), p.result = "none", Agreed(p),
         PrepareSuppressed(j, p)
  PROVE  Prepares(j, b)
<1> DEFINE q == Put(p, Pending(p), "SKIPPED")
<1>1. Sane(j, p) /\ ~p.interrupted
  BY DEF Kin, PrepareSuppressed
<1>2. Covered(p)
  BY <1>1, FollowedIsCovered
<1>3. Lessened(j, p, q) /\ Open(q) = Open(p) \ Pending(p)
  BY <1>1, NothingPending, ClosingLessens DEF Done
<1>4. Prepared(j, IF p.attempts = <<>> THEN Finished(q, "SUPPRESSED") ELSE Synced(Aggregated(q)), {})
  BY DEF PrepareSuppressed
<1> HIDE DEF q
<1>5. CASE p.attempts = <<>>
  <2>1. Active(p) = {}
    BY <1>5 DEF Active
  <2>2. Open(q) = {} /\ Sane(j, q)
    BY <1>2, <1>3, <2>1 DEF Covered, InHand, Lessened
  <2>3. Ended(j, q, Finished(q, "SUPPRESSED"))
    BY <2>2, FinishedEnds DEF Results
  <2>4. Upheld(j, q, Finished(q, "SUPPRESSED"))
    BY <2>2, <2>3, EndedUpheld
  <2>5. Preparation(j, b, Finished(q, "SUPPRESSED"), {})
    BY <1>3, <2>4, UpheldPrepares DEF Closed
  <2> QED
    BY <1>4, <1>5, <2>5 DEF Prepares
<1>6. CASE p.attempts # <<>>
  <2>1. Preparation(j, b, Synced(Aggregated(q)), {})
    BY <1>2, <1>3, ConcludedPrepares DEF Closed
  <2> QED
    BY <1>4, <1>6, <2>1 DEF Prepares
<1> QED
  BY <1>5, <1>6

LEMMA ExpiredPrepares ==
  ASSUME NEW j \in Jobs, NEW b, NEW p, Kin(j, b, p), Stated(p), p.result = "none", Agreed(p),
         PrepareExpired(j, p)
  PROVE  Prepares(j, b)
<1> DEFINE q == Put(p, Pending(p), "FAILED")
<1>1. Sane(j, p) /\ ~p.interrupted
  BY DEF Kin, PrepareExpired
<1>2. Covered(p)
  BY <1>1, FollowedIsCovered
<1>3. Lessened(j, p, q)
  BY <1>1, NothingPending, ClosingLessens DEF Done
<1>4. Prepared(j, Synced(Aggregated(q)), {})
  BY DEF PrepareExpired
<1> HIDE DEF q
<1>5. Preparation(j, b, Synced(Aggregated(q)), {})
  BY <1>2, <1>3, ConcludedPrepares DEF Closed
<1> QED
  BY <1>4, <1>5 DEF Prepares

LEMMA EarlyPrepares ==
  ASSUME NEW j \in Jobs, NEW b, NEW p, Kin(j, b, p), Stated(p), p.result = "none", Agreed(p),
         PrepareEarly(j, p)
  PROVE  Prepares(j, b)
<1>1. Sane(j, p) /\ ~p.interrupted
  BY DEF Kin, PrepareEarly
<1>2. Covered(p) /\ Lessened(j, p, p)
  BY <1>1, FollowedIsCovered, LessenedReflexive
<1>3. Preparation(j, b, p, {})
  BY <1>2, ConcludedPrepares DEF Closed
<1> QED
  BY <1>3 DEF Prepares, PrepareEarly

LEMMA AuthoritativePrepares ==
  ASSUME NEW j \in Jobs, NEW b, NEW p, Kin(j, b, p), Stated(p), p.result = "none", Agreed(p),
         Together(j, p), NEW verdict \in Verdicts(Pending(p) \ disabled), PrepareAuthoritative(j, p, verdict)
  PROVE  Prepares(j, b)
<1> DEFINE on(answer) == {z \in DOMAIN verdict : verdict[z] = answer}
           skip == Put(p, Disabled(p), "SKIPPED")
           failed == Put(skip, on("FAIL"), "FAILED")
           waits == Put(failed, on("WAIT"), "WAIT")
           told == PolicyFailed(j, waits)
           ready == PolicyReady(j, told, on("PASS") \cap Open(told))
           held == SharedBlocked(told, ready)
           q == Put(told, held, "WAIT")
<1>1. Sane(j, p) /\ ~p.interrupted /\ Prepared(j, Synced(Aggregated(q)), ready \ held)
  BY DEF Kin, PrepareAuthoritative
<1>2. DOMAIN verdict = Pending(p) \ disabled
  BY DEF Verdicts
<1>3. /\ \A answer \in {"PASS", "WAIT", "FAIL"} : on(answer) \subseteq Pending(p) \ disabled
      /\ on("PASS") \cap on("FAIL") = {} /\ on("WAIT") \cap on("FAIL") = {}
  BY <1>2
<1>4. ready \subseteq on("PASS") \cap Open(told) /\ held \subseteq ready
  BY DEF PolicyReady, SharedBlocked
<1>5. /\ \A y \in ready \ held, z \in Open(told) \ (ready \ held) : plan.target[y] # plan.target[z]
      /\ j \in plan.combined /\ ready # {} => Pending(told) \subseteq ready
  BY DEF PolicyReady, SharedBlocked
<1> HIDE DEF on
<1>6. /\ Lessened(j, p, skip)
      /\ Open(skip) = Open(p) \ Disabled(p) /\ Pending(skip) = Pending(p) \ Disabled(p)
  BY <1>1, ClosingLessens DEF Done, Disabled
<1> HIDE DEF skip
<1>7. \A k \in Active(skip) : skip.attempts[k].zones \cap on("FAIL") \subseteq disabled
  BY <1>1, <1>3, <1>6, NothingPending DEF Lessened
<1>8. /\ Lessened(j, skip, failed)
      /\ Open(failed) = Open(skip) \ on("FAIL") /\ Pending(failed) = Pending(skip) \ on("FAIL")
  BY <1>6, <1>7, ClosingLessens DEF Done, Lessened
<1> HIDE DEF failed
<1>9. \A S \in {on("PASS"), on("WAIT")} : S \cap Open(failed) \subseteq Pending(failed)
  BY <1>3, <1>6, <1>8 DEF Disabled
<1>10. /\ Lessened(j, failed, waits)
       /\ Open(waits) = Open(failed) /\ Pending(waits) = Pending(failed)
  <2>1. Sane(j, failed) /\ failed \in JobType(j) /\ "WAIT" \in ZoneStates /\ "WAIT" \notin Done
    BY <1>8 DEF Lessened, Sane, ZoneStates, Done
  <2>2. Open(waits) = Open(failed)
    BY <2>1, PutParts
  <2>3. \A k \in Active(failed) : failed.attempts[k].zones \cap (Open(waits) \cup disabled) # {}
    BY <2>1, <2>2 DEF Sane, Wanted
  <2> QED
    BY <1>9, <2>1, <2>3, PutLessens
<1> HIDE DEF waits
<1>11. /\ Lessened(j, waits, told)
       /\ on("PASS") \cap Open(told) \subseteq Pending(told)
  <2>1. Sane(j, waits)
    BY <1>10 DEF Lessened
  <2>2. CASE told = waits
    BY <1>9, <1>10, <2>1, <2>2, LessenedReflexive
  <2>3. CASE waits.attempts = <<>> /\ told = Put(waits, Open(waits), "FAILED")
    <3>1. Active(waits) = {}
      BY <2>3 DEF Active
    <3>2. Lessened(j, waits, told) /\ Open(told) = Open(waits) \ Open(waits)
      BY <2>1, <2>3, <3>1, ClosingLessens DEF Done
    <3> QED
      BY <3>2
  <2> QED
    BY <2>2, <2>3 DEF PolicyFailed
<1> HIDE DEF told, ready, held
<1>12. /\ Lessened(j, told, q) /\ Pending(q) = Pending(told)
  <2>1. Sane(j, told) /\ told \in JobType(j) /\ "WAIT" \in ZoneStates /\ "WAIT" \notin Done
    BY <1>11 DEF Lessened, Sane, ZoneStates, Done
  <2>2. Open(q) = Open(told)
    BY <2>1, PutParts
  <2>3. \A k \in Active(told) : told.attempts[k].zones \cap (Open(q) \cup disabled) # {}
    BY <2>1, <2>2 DEF Sane, Wanted
  <2>4. held \cap Open(told) \subseteq Pending(told)
    BY <1>4, <1>11
  <2> QED
    BY <2>1, <2>3, <2>4, PutLessens
<1> HIDE DEF q
<1>13. Lessened(j, p, q)
  BY <1>6, <1>8, <1>10, <1>11, <1>12, LessenedTransitive
<1>14. ready \ held \subseteq Pending(q) /\ ~q.interrupted
  BY <1>1, <1>4, <1>11, <1>12, <1>13 DEF Lessened
<1>15. Covered(p)
  BY <1>1, FollowedIsCovered
<1>16. Closed(j, q, ready \ held)
  <2>1. Together(j, told) /\ Pending(told) \subseteq Open(told)
    BY <1>6, <1>8, <1>10, <1>11, LessenedTransitive, Parts DEF Lessened, Together, Sane
  <2>2. ASSUME NEW y \in ready \ held, NEW z \in Pending(told) \ (ready \ held) PROVE Apart(j, y, z)
    <3>1. plan.target[y] # plan.target[z]
      BY <1>5, <2>1, <2>2
    <3>2. CASE j \in plan.combined
      <4>1. Pending(told) \subseteq ready /\ z \in held
        BY <1>5, <2>2, <3>2
      <4>2. PICK x \in Open(told) \ ready : plan.target[x] = plan.target[z]
        BY <4>1 DEF held, SharedBlocked
      <4>3. x \in InHand(told)
        BY <4>1 DEF InHand
      <4>4. Apart(j, x, z)
        BY <2>1, <2>2, <4>3 DEF Together
      <4> QED
        BY <4>2, <4>4 DEF Apart
    <3> QED
      BY <3>1, <3>2 DEF Apart
  <2> QED
    BY <2>2, <1>12 DEF Closed
<1>17. Preparation(j, b, Synced(Aggregated(q)), ready \ held)
  BY <1>13, <1>14, <1>15, <1>16, ConcludedPrepares
<1> QED
  BY <1>1, <1>17 DEF Prepares

LEMMA PrepareKeeps ==
  ASSUME LateBlockersFirst, NEW j \in Jobs, Sane(j, job[j]), Terminal(job[j]), Together(j, job[j]), Prepare(j)
  PROVE  Prepares(j, job[j])
<1>1. job[j].result = "none" /\ Stated(job[j]) /\ Agreed(job[j])
  BY DEF Prepare, Terminal, Stated
<1>2. PICK p \in Progress(j, job[j]) :
        \/ PrepareFinished(j, p)
        \/ PrepareInterrupted(j, p)
        \/ PrepareSuppressed(j, p)
        \/ PrepareExpired(j, p)
        \/ PrepareEarly(j, p)
        \/ \E verdict \in Verdicts(Pending(p) \ disabled) : PrepareAuthoritative(j, p, verdict)
  BY DEF Prepare
<1>3. Kin(j, job[j], p) /\ Stated(p) /\ p.result = "none" /\ Agreed(p) /\ Together(j, p)
  <2>1. Kin(j, job[j], p)
    BY ProgressKeeps
  <2> QED
    BY <1>1, <2>1 DEF Kin, Stated, Agreed, Together
<1> QED
  BY <1>2, <1>3, FinishedPrepares, InterruptedPrepares, SuppressedPrepares, ExpiredPrepares,
     EarlyPrepares, AuthoritativePrepares

-----------------------------------------------------------------------------
(* The arbiter *)

LEMMA CandidatesAreFinite ==
  ASSUME NEW I, I \subseteq Jobs, NEW classes \in [I -> {"manual", "scheduled", "forced"}]
  PROVE  LET S == {Candidate(i, classes[i]) : i \in I}
         IN  S \subseteq Candidates /\ IsFiniteSet(S)
<1> DEFINE S == {Candidate(i, classes[i]) : i \in I}
           f == [i \in I |-> Candidate(i, classes[i])]
<1>1. Jobs \subseteq Nat /\ IsFiniteSet(Jobs)
  BY JobsAssumption, FS_Interval DEF Jobs
<1>2. \A i \in I : i \in Nat /\ classes[i] \in {"manual", "scheduled", "forced"}
  BY <1>1
<1>3. ASSUME NEW i \in Nat, NEW class \in {"manual", "scheduled", "forced"} PROVE Candidate(i, class) \in Candidates
  BY DEF Candidate, Candidates, Never
<1>4. S \subseteq Candidates
  BY <1>2, <1>3
<1>5. f \in Surjection(I, S)
  <2> HIDE DEF Candidate
  <2> QED
    BY DEF Surjection
<1>6. IsFiniteSet(I)
  BY <1>1, FS_Subset
<1>7. IsFiniteSet(S)
  <2> HIDE DEF f, S
  <2> QED
    BY <1>5, <1>6, FS_Surjection
<1> QED
  BY <1>4, <1>7

\* The winner is a candidate, and the lease is free.
LEMMA SelectedIsCandidate ==
  ASSUME NEW early \in [Jobs -> SUBSET Zones],
         NEW c \in Selected(DueCandidates \cup EarlyCandidates(early), LeaseFree)
  PROVE  /\ LeaseFree /\ c.id \in Jobs
         /\ at.ready[c.id] # {} \/ early[c.id] # {}
<1> DEFINE due == {i \in Jobs : at.ready[i] # {}}
           before == {i \in Jobs : early[i] # {}}
           S == DueCandidates
           T == EarlyCandidates(early)
<1>1. S \subseteq Candidates /\ IsFiniteSet(S)
  <2> DEFINE classes == [i \in due |-> DueClass(i)]
  <2>1. classes \in [due -> {"manual", "scheduled", "forced"}]
    BY DEF DueClass
  <2>2. S = {Candidate(i, classes[i]) : i \in due}
    BY DEF DueCandidates
  <2> HIDE DEF classes
  <2> QED
    BY <2>1, <2>2, CandidatesAreFinite
<1>2. T \subseteq Candidates /\ IsFiniteSet(T)
  <2> DEFINE classes == [i \in before |-> "forced"]
  <2>1. classes \in [before -> {"manual", "scheduled", "forced"}]
    OBVIOUS
  <2>2. T = {Candidate(i, classes[i]) : i \in before}
    BY DEF EarlyCandidates
  <2>3. before \subseteq Jobs
    OBVIOUS
  <2> HIDE DEF classes, before, T
  <2> QED
    BY <2>1, <2>2, <2>3, CandidatesAreFinite
<1>3. \A x \in S \cup T : x.id \in Jobs /\ (at.ready[x.id] # {} \/ early[x.id] # {})
  BY DEF DueCandidates, EarlyCandidates, Candidate
<1> HIDE DEF S, T
<1>4. S \cup T \subseteq Candidates /\ IsFiniteSet(S \cup T)
  BY <1>1, <1>2, FS_Union
<1>5. LeaseFree /\ S \cup T # {} /\ c \in Selected(S \cup T, LeaseFree)
  BY DEF Selected, S, T
<1>6. \E w \in S \cup T : Selected(S \cup T, TRUE) = {w}
  BY <1>4, <1>5, WinnerLeads
<1>7. Selected(S \cup T, LeaseFree) = Selected(S \cup T, TRUE)
  BY <1>5 DEF Selected
<1>8. c \in S \cup T
  BY <1>5, <1>6, <1>7
<1> QED
  BY <1>3, <1>5, <1>8

\* What any step makes of a job.
Moves(j, b, c) ==
  /\ Sane(j, c) /\ Terminal(c) /\ Covered(c)
  /\ Halted(b) => Halted(c) /\ Len(c.attempts) <= Len(b.attempts)
  /\ c.result = "none" => b.result = "none"
  /\ Active(c) # {} => Active(b) # {}
  /\ InHand(c) \subseteq InHand(b) /\ Pending(c) \subseteq Pending(b)

Sound(j, b) == Sane(j, b) /\ Terminal(b) /\ Covered(b) /\ Together(j, b)

LEMMA MovesSound ==
  ASSUME NEW j \in Jobs, NEW b, NEW c, Sound(j, b), Moves(j, b, c)
  PROVE  Sound(j, c)
BY DEF Sound, Moves, Together

LEMMA SoundMoves ==
  ASSUME NEW j \in Jobs, NEW b, Sound(j, b)
  PROVE  Moves(j, b, b)
<1>1. Len(b.attempts) \in Nat
  BY Parts DEF Sound, Sane
<1> QED
  BY <1>1 DEF Moves, Sound

LEMMA UpheldMoves ==
  ASSUME NEW j \in Jobs, NEW b, b.result = "none", NEW q, Lessened(j, b, q), NEW c, Upheld(j, q, c)
  PROVE  Moves(j, b, c)
<1>1. (Halted(b) => Halted(q)) /\ Len(q.attempts) = Len(b.attempts)
  BY DEF Halted, Lessened
<1> QED
  BY <1>1 DEF Moves, Upheld, Lessened

\* Unstarted zones that wait.
LEMMA WaitLessens ==
  ASSUME NEW j \in Jobs, NEW b, Sane(j, b), NEW zones, zones \subseteq Pending(b)
  PROVE  Lessened(j, b, Put(b, zones, "WAIT"))
         /\ Open(Put(b, zones, "WAIT")) = Open(b) /\ Pending(Put(b, zones, "WAIT")) = Pending(b)
<1>1. b \in JobType(j) /\ "WAIT" \in ZoneStates /\ "WAIT" \notin Done
  BY DEF Sane, ZoneStates, Done
<1>2. Open(Put(b, zones, "WAIT")) = Open(b)
  BY <1>1, PutParts
<1>3. \A k \in Active(b) : b.attempts[k].zones \cap (Open(Put(b, zones, "WAIT")) \cup disabled) # {}
  BY <1>2 DEF Sane, Wanted
<1>4. zones \cap Open(b) \subseteq Pending(b)
  OBVIOUS
<1> QED
  BY <1>1, <1>2, <1>3, <1>4, PutLessens

LEMMA WaitMoves ==
  ASSUME NEW j \in Jobs, NEW b, Sound(j, b), b.result = "none", NEW zones, zones \subseteq Pending(b)
  PROVE  Moves(j, b, Synced(Put(b, zones, "WAIT")))
<1> DEFINE q == Put(b, zones, "WAIT")
<1>1. Sane(j, b) /\ Stated(b) /\ Covered(b)
  BY DEF Sound, Terminal, Stated
<1>2. Lessened(j, b, q)
  BY <1>1, WaitLessens
<1> HIDE DEF q
<1>3. Sane(j, q) /\ Stated(q) /\ q.result = "none" /\ Covered(q)
  BY <1>1, <1>2, LessenedStays DEF Lessened
<1>4. Upheld(j, q, Synced(q))
  BY <1>3, SaneUpheld
<1>5. Moves(j, b, Synced(q))
  BY <1>2, <1>4, UpheldMoves
<1> QED
  BY <1>5 DEF q

\* The mark of an early start, and the state of the job, are read by no part of the invariant.
LEMMA MarkedIsSane ==
  ASSUME NEW j \in Jobs, NEW b, Sane(j, b), NEW mark \in BOOLEAN,
         NEW c, c = [b EXCEPT !.forced = mark]
  PROVE  /\ Sane(j, c) /\ c.state = b.state /\ c.result = b.result /\ (c.interrupted <=> b.interrupted)
         /\ c.attempts = b.attempts /\ Active(c) = Active(b)
         /\ Open(c) = Open(b) /\ Pending(c) = Pending(b) /\ InHand(c) = InHand(b)
<1>1. b \in JobType(j) /\ Wanted(b)
  BY DEF Sane
<1>2. /\ c \in JobType(j) /\ c.state = b.state /\ c.result = b.result /\ (c.interrupted <=> b.interrupted)
      /\ c.attempts = b.attempts /\ c.zones = b.zones
  BY <1>1 DEF JobType
<1>3. Active(c) = Active(b) /\ Open(c) = Open(b) /\ Pending(c) = Pending(b) /\ InHand(c) = InHand(b)
  BY <1>2 DEF Active, Open, Pending, InHand
<1>4. Wanted(c)
  BY <1>1, <1>2, <1>3 DEF Wanted
<1> QED
  BY <1>2, <1>3, <1>4, CloserIsSane

LEMMA WaitingIsSane ==
  ASSUME NEW j \in Jobs, NEW b, Sane(j, b), NEW c, c = [b EXCEPT !.state = "WAIT"]
  PROVE  /\ Sane(j, c) /\ c.state = "WAIT" /\ c.result = b.result /\ (c.interrupted <=> b.interrupted)
         /\ c.attempts = b.attempts /\ Active(c) = Active(b)
         /\ Open(c) = Open(b) /\ Pending(c) = Pending(b) /\ InHand(c) = InHand(b)
<1>1. b \in JobType(j) /\ Wanted(b)
  BY DEF Sane
<1>2. /\ c \in JobType(j) /\ c.state = "WAIT" /\ c.result = b.result /\ (c.interrupted <=> b.interrupted)
      /\ c.attempts = b.attempts /\ c.zones = b.zones
  BY <1>1 DEF JobType, JobStates
<1>3. Active(c) = Active(b) /\ Open(c) = Open(b) /\ Pending(c) = Pending(b) /\ InHand(c) = InHand(b)
  BY <1>2 DEF Active, Open, Pending, InHand
<1>4. Wanted(c)
  BY <1>1, <1>2, <1>3 DEF Wanted
<1> QED
  BY <1>2, <1>3, <1>4, CloserIsSane

LEMMA StartKeeps ==
  ASSUME NEW j \in Jobs, NEW b, Sound(j, b), b.result = "none", ~b.interrupted, Active(b) = {},
         NEW zones, zones \subseteq Pending(b), zones # {}, Closed(j, b, zones),
         NEW outcome \in {"sent", "deferred", "failed"}, NEW mark \in BOOLEAN,
         NEW c, c = Synced(Started(j, b, zones, 1, outcome)), NEW d, d \in {c, [c EXCEPT !.forced = mark]}
  PROVE  Sound(j, d) /\ ~Halted(b)
<1> DEFINE e == Started(j, b, zones, 1, outcome)
<1>1. b \in JobType(j) /\ Sane(j, b) /\ Stated(b)
  BY DEF Sound, Sane, Terminal, Stated
<1>2. Pending(b) \subseteq Open(b) /\ \A k \in DOMAIN b.attempts : b.attempts[k] \in Attempts(j)
  BY <1>1, Parts
<1>3. Sane(j, e) /\ e.result = "none" /\ Stated(e) /\ ~e.interrupted /\ Together(j, e)
  <2>1. CASE outcome \in {"sent", "failed"}
    <3>1. InHand(b) = {}
      BY DEF Sound, Covered
    <3>2. 1 \in 1..Passes[j]
      BY JobsAssumption
    <3>3. \A k \in DOMAIN b.attempts : b.attempts[k].zones \cap zones = {}
      BY <1>1 DEF Sane, Fresh
    <3>4. Startable(j, b, zones, 1)
      BY <1>1, <1>2, <3>1, <3>2, <3>3 DEF Startable, Sane
    <3>5. Launched(j, b, zones, e)
      BY <2>1, <3>4, StartedLaunches
    <3> QED
      BY <1>1, <3>5 DEF Launched, Stated, Together, Closed
  <2>2. CASE outcome = "deferred"
    <3> DEFINE q == Put(b, zones, "WAIT")
    <3>1. e = [q EXCEPT !.state = "WAIT"]
      BY <2>2 DEF Started
    <3>2. Lessened(j, b, q)
      BY <1>1, WaitLessens
    <3> HIDE DEF e, q
    <3>3. Sane(j, q) /\ q.result = "none" /\ ~q.interrupted
      BY <3>2 DEF Lessened
    <3>4. /\ Sane(j, e) /\ e.state = "WAIT" /\ e.result = q.result /\ (e.interrupted <=> q.interrupted)
          /\ e.attempts = q.attempts /\ Active(e) = Active(q)
          /\ Open(e) = Open(q) /\ Pending(e) = Pending(q) /\ InHand(e) = InHand(q)
      BY <3>1, <3>3, WaitingIsSane
    <3>5. InHand(e) = {}
      BY <3>2, <3>4 DEF Sound, Covered, Lessened
    <3> QED
      BY <3>3, <3>4, <3>5 DEF Stated, Together
  <2> QED
    BY <2>1, <2>2
<1> HIDE DEF e
<1>4. Covered(e)
  BY <1>3, FollowedIsCovered
<1>5. Sound(j, c)
  <2>1. Upheld(j, e, Synced(e))
    BY <1>3, <1>4, SaneUpheld
  <2> QED
    BY <1>3, <2>1 DEF Upheld, Sound, Together, e
<1>6. Sound(j, d)
  <2>1. CASE d = c
    BY <1>5, <2>1
  <2>2. CASE d = [c EXCEPT !.forced = mark]
    <3>1. Sane(j, c) /\ Terminal(c) /\ Covered(c) /\ Together(j, c)
      BY <1>5 DEF Sound
    <3>2. /\ Sane(j, d) /\ d.state = c.state /\ d.result = c.result /\ (d.interrupted <=> c.interrupted)
          /\ d.attempts = c.attempts /\ Active(d) = Active(c)
          /\ Open(d) = Open(c) /\ Pending(d) = Pending(c) /\ InHand(d) = InHand(c)
      BY <2>2, <3>1, MarkedIsSane
    <3>3. Terminal(d) /\ Covered(d) /\ Together(j, d)
      BY <3>1, <3>2 DEF Terminal, Covered, Agreed, Together
    <3> QED
      BY <3>2, <3>3 DEF Sound
  <2> QED
    BY <2>1, <2>2
<1>7. ~Halted(b)
  BY DEF Halted
<1> QED
  BY <1>6, <1>7

\* An early start is tried for unstarted zones of a job without attempts.
LEMMA EarlyIsPending ==
  ASSUME NEW j \in Jobs, Sound(j, job[j]), NEW S \in EarlySets(j), S # {}
  PROVE  /\ S \subseteq Pending(job[j]) /\ Closed(j, job[j], S)
         /\ job[j].result = "none" /\ ~job[j].interrupted
<1>1. Forceable(j)
  BY DEF EarlySets
<1>2. S \subseteq Open(job[j])
  BY <1>1 DEF EarlySets
<1>3. Sane(j, job[j]) /\ Terminal(job[j]) /\ Covered(job[j])
  BY DEF Sound
<1>4. job[j].state = "PLANNED" /\ job[j].attempts = <<>>
  BY <1>1 DEF Forceable
<1>5. job[j].result = "none"
  BY <1>3, <1>4 DEF Terminal
<1>6. ~job[j].interrupted
  BY <1>3, <1>4 DEF Sane, Interrupted
<1>7. Active(job[j]) = {}
  BY <1>4 DEF Active
<1>8. InHand(job[j]) = {} /\ Pending(job[j]) \subseteq Open(job[j])
  BY <1>3, <1>7, Parts DEF Covered, Sane
<1>9. \A y \in S, z \in Open(job[j]) \ S : plan.target[y] # plan.target[z]
  BY <1>1 DEF EarlySets, SharedBlocked
<1>10. j \in plan.combined => S = Open(job[j]) \ disabled
  BY <1>1 DEF EarlySets
<1>11. Closed(j, job[j], S)
  BY <1>8, <1>9, <1>10 DEF Closed, Apart
<1> QED
  BY <1>2, <1>5, <1>6, <1>8, <1>11 DEF InHand

\* What every step does to the jobs.
Carried ==
  /\ job' = [j \in Jobs |-> job'[j]]
  /\ \A j \in Jobs :
       /\ Sound(j, job'[j])
       /\ Halted(job[j]) => Halted(job'[j]) /\ Len(job'[j].attempts) <= Len(job[j].attempts)
  /\ OneLease'

LEMMA MovesCarry ==
  ASSUME IInv, job' = [j \in Jobs |-> job'[j]], \A j \in Jobs : Moves(j, job[j], job'[j])
  PROVE  Carried
<1>1. OneLease'
  BY DEF IInv, OneLease, Moves
<1>2. \A j \in Jobs : Sound(j, job'[j])
  BY MovesSound DEF IInv, Soundness, Sound
<1> QED
  BY <1>1, <1>2 DEF Carried, Moves

LEMMA LeaseWaitsMoves ==
  ASSUME IInv, NEW X, NEW j \in Jobs
  PROVE  Moves(j, job[j], LeaseWaits(X)[j])
<1>1. Sound(j, job[j]) /\ Readied(j)
  BY DEF IInv, Soundness, Sound, Standing
<1>2. CASE \E c \in DueCandidates : c.id = j /\ c.class # "forced" /\ j \in X
  <2>1. at.ready[j] # {}
    BY <1>2 DEF DueCandidates, Candidate
  <2>2. at.ready[j] \subseteq Pending(job[j]) /\ job[j].result = "none"
    BY <1>1, <2>1 DEF Readied
  <2>3. LeaseWaits(X)[j] = Synced(Put(job[j], at.ready[j], "WAIT"))
    BY <1>2 DEF LeaseWaits
  <2> QED
    BY <1>1, <2>2, <2>3, WaitMoves
<1>3. CASE ~(\E c \in DueCandidates : c.id = j /\ c.class # "forced" /\ j \in X)
  <2>1. LeaseWaits(X)[j] = job[j]
    BY <1>3 DEF LeaseWaits
  <2> QED
    BY <1>1, <2>1, SoundMoves
<1> QED
  BY <1>2, <1>3

LEMMA ArbitrateNobodyCarries ==
  ASSUME IInv, NEW early, ArbitrateNobody(early)
  PROVE  Carried
<1> DEFINE X == IF LeaseFree THEN {} ELSE Jobs
<1>1. job' = LeaseWaits(X)
  BY DEF ArbitrateNobody
<1> HIDE DEF X
<1>2. LeaseWaits(X) = [j \in Jobs |-> LeaseWaits(X)[j]]
  BY DEF LeaseWaits
<1>3. \A j \in Jobs : Moves(j, job[j], job'[j])
  BY <1>1, LeaseWaitsMoves
<1>4. job' = [j \in Jobs |-> job'[j]]
  BY <1>1, <1>2
<1> QED
  BY <1>3, <1>4, MovesCarry

LEMMA ArbitrateStartCarries ==
  ASSUME IInv, NEW early \in [Jobs -> SUBSET Zones], \A j \in Jobs : early[j] \in EarlySets(j),
         NEW outcome \in Outcomes(1), ArbitrateStart(early, outcome)
  PROVE  Carried
<1>1. PICK c \in Selected(DueCandidates \cup EarlyCandidates(early), LeaseFree) :
        LET j == c.id
            b == Synced(Started(j, job[j], at.ready[j] \cup early[j], 1, outcome))
        IN  /\ Len(b.attempts) <= MaxAttempts
            /\ job' = [LeaseWaits(Jobs \ {j}) EXCEPT
                         ![j] = IF c.class = "forced" THEN [b EXCEPT !.forced = outcome # "deferred"]
                                ELSE b]
  BY DEF ArbitrateStart
<1> DEFINE j == c.id
           zones == at.ready[j] \cup early[j]
           b == Synced(Started(j, job[j], zones, 1, outcome))
           mark == outcome # "deferred"
           d == IF c.class = "forced" THEN [b EXCEPT !.forced = mark] ELSE b
           others == LeaseWaits(Jobs \ {j})
<1>2. job' = [others EXCEPT ![j] = d]
  BY <1>1
<1>3. LeaseFree /\ j \in Jobs /\ zones # {}
  <2>1. LeaseFree /\ j \in Jobs /\ (at.ready[j] # {} \/ early[j] # {})
    BY SelectedIsCandidate
  <2> QED
    BY <2>1
<1>4. outcome \in {"sent", "deferred", "failed"} /\ mark \in BOOLEAN
  BY DEF Outcomes
<1> HIDE DEF j
<1>5. d \in {b, [b EXCEPT !.forced = mark]}
  OBVIOUS
<1>6. others = [i \in Jobs |-> others[i]] /\ DOMAIN others = Jobs
  BY DEF LeaseWaits
<1>7. \A i \in Jobs : Moves(i, job[i], others[i])
  BY LeaseWaitsMoves
<1>8. Sound(j, job[j]) /\ Readied(j) /\ early[j] \in EarlySets(j)
  BY <1>3 DEF IInv, Soundness, Sound, Standing
<1>9. /\ job[j].result = "none" /\ Active(job[j]) = {} /\ zones \subseteq Pending(job[j]) /\ ~job[j].interrupted
      /\ Closed(j, job[j], zones)
  <2>1. early[j] # {} => /\ early[j] \subseteq Pending(job[j]) /\ Closed(j, job[j], early[j])
                         /\ job[j].result = "none" /\ ~job[j].interrupted
    BY <1>3, <1>8, EarlyIsPending
  <2>2. at.ready[j] # {} => job[j].result = "none"
    BY <1>8 DEF Readied
  <2>3. job[j].result = "none"
    BY <1>3, <2>1, <2>2
  <2>4. Active(job[j]) = {}
    BY <1>3, <2>3 DEF LeaseFree
  <2>5. at.ready[j] # {} => at.ready[j] \subseteq Pending(job[j]) /\ ~job[j].interrupted
    BY <1>8, <2>4 DEF Readied
  <2>6. Closed(j, job[j], zones)
    BY <1>8, <2>1 DEF Readied, Closed
  <2> QED
    BY <1>3, <2>1, <2>3, <2>4, <2>5, <2>6
<1> HIDE DEF zones, mark
<1>10. b = Synced(Started(j, job[j], zones, 1, outcome))
  OBVIOUS
<1> HIDE DEF b, d, others
<1>11. Sound(j, d) /\ ~Halted(job[j])
  BY <1>3, <1>4, <1>5, <1>8, <1>9, <1>10, StartKeeps
<1>12. /\ job' = [i \in Jobs |-> job'[i]]
       /\ job'[j] = d /\ \A i \in Jobs \ {j} : job'[i] = others[i]
  BY <1>2, <1>3, <1>6
<1>13. \A i \in Jobs \ {j} : Moves(i, job[i], job'[i])
  BY <1>7, <1>12
<1>14. \A i \in Jobs \ {j} : job'[i].result = "none" => Active(job'[i]) = {}
  BY <1>3, <1>13 DEF Moves, LeaseFree
<1>15. OneLease'
  BY <1>14 DEF OneLease
<1>16. ASSUME NEW i \in Jobs
       PROVE  /\ Sound(i, job'[i])
              /\ Halted(job[i]) => Halted(job'[i]) /\ Len(job'[i].attempts) <= Len(job[i].attempts)
  <2>1. CASE i = j
    BY <1>11, <1>12, <2>1
  <2>2. CASE i # j
    BY <1>13, <2>2, MovesSound DEF Moves, IInv, Soundness, Sound
  <2> QED
    BY <2>1, <2>2
<1> QED
  BY <1>12, <1>15, <1>16 DEF Carried

LEMMA ArbitrateCarries ==
  ASSUME IInv, Arbitrate
  PROVE  Carried
<1>1. PICK early \in [Jobs -> SUBSET Zones] :
        /\ \A j \in Jobs : early[j] \in EarlySets(j)
        /\ ArbitrateNobody(early) \/ \E outcome \in Outcomes(1) : ArbitrateStart(early, outcome)
  BY DEF Arbitrate
<1> QED
  BY <1>1, ArbitrateNobodyCarries, ArbitrateStartCarries

-----------------------------------------------------------------------------
(* The emergency and the user *)

\* A request to stop changes no attempt but the running ones, and only their state.
LEMMA CancelledKeeps ==
  ASSUME NEW j \in Jobs, NEW b, Sound(j, b), NEW c, c = Cancelled(b)
  PROVE  /\ Sane(j, c) /\ Covered(c) /\ Agreed(c)
         /\ c.state = b.state /\ c.result = b.result /\ (c.interrupted <=> b.interrupted)
         /\ Open(c) = Open(b) /\ Pending(c) = Pending(b) /\ InHand(c) = InHand(b) /\ Active(c) = Active(b)
         /\ Len(c.attempts) = Len(b.attempts) /\ DOMAIN c.attempts = DOMAIN b.attempts
         /\ \A k \in DOMAIN c.attempts : Failing(c.attempts[k])
<1> DEFINE D == DOMAIN b.attempts
           f == [k \in D |-> IF ActiveAttempt(b.attempts[k])
                             THEN [b.attempts[k] EXCEPT !.state = "CANCEL_REQUESTED"] ELSE b.attempts[k]]
<1>1. Sane(j, b) /\ b \in JobType(j) /\ Terminal(b) /\ Covered(b) /\ Agreed(b)
  BY DEF Sound, Sane, Terminal
<1>2. \A k \in D : b.attempts[k] \in Attempts(j)
  BY <1>1, Parts
<1>3. ASSUME NEW a \in Attempts(j)
      PROVE  LET n == [a EXCEPT !.state = "CANCEL_REQUESTED"]
             IN  /\ n \in Attempts(j) /\ n.zones = a.zones /\ n.pass = a.pass /\ (n.linked <=> a.linked)
                 /\ n.state = "CANCEL_REQUESTED"
  BY DEF Attempts, AttemptStates
<1>4. \A k \in D : /\ f[k] \in Attempts(j) /\ f[k].zones = b.attempts[k].zones
                   /\ f[k].pass = b.attempts[k].pass /\ (f[k].linked <=> b.attempts[k].linked)
                   /\ ActiveAttempt(b.attempts[k]) => f[k].state = "CANCEL_REQUESTED"
                   /\ ~ActiveAttempt(b.attempts[k]) => f[k] = b.attempts[k]
  BY <1>2, <1>3
<1>5. c = [b EXCEPT !.attempts = f]
  BY DEF Cancelled
<1>6. DOMAIN f = D /\ D = 1..Len(b.attempts) /\ Len(b.attempts) \in Nat
  BY <1>1, Parts
<1> HIDE DEF f
<1>7. f \in Seq(Attempts(j)) /\ Len(f) = Len(b.attempts)
  <2>1. f = [k \in 1..Len(b.attempts) |-> f[k]]
    BY <1>1, <1>6 DEF f
  <2>2. f \in [1..Len(b.attempts) -> Attempts(j)]
    BY <1>4, <1>6, <2>1
  <2> QED
    BY <1>6, <2>2
<1>8. /\ c \in JobType(j) /\ c.attempts = f /\ c.zones = b.zones /\ c.state = b.state
      /\ c.result = b.result /\ (c.interrupted <=> b.interrupted)
  BY <1>1, <1>5, <1>7 DEF JobType
<1>9. Open(c) = Open(b) /\ Pending(c) = Pending(b) /\ InHand(c) = InHand(b)
  BY <1>8 DEF Open, Pending, InHand
<1>10. Active(c) = Active(b)
  BY <1>4, <1>6, <1>8 DEF Active, ActiveAttempt
<1> HIDE DEF D
<1>11. DOMAIN c.attempts = D
  BY <1>6, <1>8
<1>12. \A k \in D : /\ c.attempts[k].zones = b.attempts[k].zones
                    /\ c.attempts[k].pass = b.attempts[k].pass
                    /\ c.attempts[k].linked <=> b.attempts[k].linked
                    /\ c.attempts[k].state \in {"COMPLETED", "FAILED"} => c.attempts[k] = b.attempts[k]
                    /\ ActiveAttempt(b.attempts[k]) => c.attempts[k].state = "CANCEL_REQUESTED"
                    /\ ~ActiveAttempt(b.attempts[k]) => c.attempts[k] = b.attempts[k]
  BY <1>4, <1>8
<1>13. \A k \in D : Failing(c.attempts[k])
  BY <1>2, <1>12 DEF Failing, ActiveAttempt, Attempts, AttemptStates
<1>14. OneActive(c) /\ Fresh(c) /\ Distinct(c) /\ Unlinked(c)
  BY <1>1, <1>9, <1>10, <1>11, <1>12 DEF Sane, OneActive, Fresh, Distinct, Unlinked, D
<1>15. Chained(c)
  <2>1. Chained(b)
    BY <1>1 DEF Sane
  <2> QED
    BY <2>1, <1>11, <1>12 DEF Chained, D
<1>16. NothingToSucceed(j, c)
  <2>1. NothingToSucceed(j, b)
    BY <1>1 DEF Sane
  <2> QED
    BY <2>1, <1>8, <1>9, <1>11, <1>12 DEF NothingToSucceed, HasSuccessor, D
<1>17. Settling(j, c)
  <2>1. Settling(j, b)
    BY <1>1 DEF Sane
  <2>2. \A k \in D : c.attempts[k].linked => c.attempts[k].state = "COMPLETED"
    BY <2>1, <1>12 DEF Settling, ActiveAttempt, D
  <2> QED
    BY <2>1, <2>2, <1>9, <1>11, <1>12 DEF Settling, D
<1>18. Wanted(c) /\ Followed(c) /\ Covered(c) /\ Agreed(c)
  <2>1. \A k \in Active(b) : k \in D
    BY DEF Active, D
  <2>2. Covered(c)
    BY <1>1, <1>9, <1>10, <1>12, <2>1 DEF Covered
  <2> QED
    BY <1>1, <1>8, <1>9, <1>10, <1>12, <2>1, <2>2 DEF Sane, Wanted, Followed, Covered, Agreed
<1>19. Interrupted(c)
  <2>1. b.interrupted => b.attempts # <<>>
    BY <1>1 DEF Sane, Interrupted
  <2>2. b.attempts # <<>> => c.attempts # <<>>
    BY <1>6, <1>7, <1>8
  <2> QED
    BY <2>1, <2>2, <1>8, <1>11, <1>13 DEF Interrupted
<1> QED
  BY <1>6, <1>7, <1>8, <1>9, <1>10, <1>11, <1>13, <1>14, <1>15, <1>16, <1>17, <1>18, <1>19 DEF Sane, D

\* An outage while an attempt is running.
LEMMA OutageMoves ==
  ASSUME NEW j \in Jobs, NEW b, Sound(j, b), b.result = "none", Active(b) # {},
         NEW d, d = [Cancelled(b) EXCEPT !.interrupted = TRUE]
  PROVE  Moves(j, b, d) /\ Halted(d) /\ Active(d) # {} /\ d.result = "none" /\ Pending(d) = Pending(b)
<1> DEFINE c == Cancelled(b)
<1>1. /\ Sane(j, c) /\ Covered(c) /\ Agreed(c)
      /\ c.state = b.state /\ c.result = b.result
      /\ Open(c) = Open(b) /\ Pending(c) = Pending(b) /\ InHand(c) = InHand(b) /\ Active(c) = Active(b)
      /\ Len(c.attempts) = Len(b.attempts)
      /\ \A k \in DOMAIN c.attempts : Failing(c.attempts[k])
  BY CancelledKeeps
<1>2. d = [c EXCEPT !.interrupted = TRUE]
  OBVIOUS
<1> HIDE DEF c
<1>3. c \in JobType(j) /\ Len(c.attempts) \in Nat
  BY <1>1, Parts DEF Sane
<1>4. /\ d \in JobType(j) /\ d.interrupted /\ d.attempts = c.attempts /\ d.zones = c.zones
      /\ d.state = c.state /\ d.result = c.result
  BY <1>2, <1>3 DEF JobType
<1>5. Open(d) = Open(c) /\ Pending(d) = Pending(c) /\ InHand(d) = InHand(c) /\ Active(d) = Active(c)
  BY <1>4 DEF Open, Pending, InHand, Active
<1>6. d.attempts # <<>>
  BY <1>1, <1>4 DEF Active
<1>7. OneActive(d) /\ Fresh(d) /\ Distinct(d) /\ Unlinked(d) /\ Chained(d)
  <2>1. OneActive(c) /\ Fresh(c) /\ Distinct(c) /\ Unlinked(c) /\ Chained(c)
    BY <1>1 DEF Sane
  <2>2. OneActive(d) /\ Fresh(d)
    BY <2>1, <1>4, <1>5 DEF OneActive, Fresh
  <2>3. Distinct(d) /\ Unlinked(d)
    BY <2>1, <1>4 DEF Distinct, Unlinked
  <2>4. Chained(d)
    BY <2>1, <1>4 DEF Chained
  <2> QED
    BY <2>2, <2>3, <2>4
<1>8. NothingToSucceed(j, d) /\ Settling(j, d)
  BY <1>1, <1>4, <1>5 DEF Sane, NothingToSucceed, HasSuccessor, Settling
<1>9. Covered(d) /\ Wanted(d) /\ Agreed(d)
  BY <1>1, <1>4, <1>5 DEF Covered, Agreed, Sane, Wanted
<1>10. Followed(d)
  BY <1>9 DEF Followed, Covered
<1>11. Interrupted(d) /\ Halted(d)
  BY <1>1, <1>4, <1>6 DEF Interrupted, Halted
<1>12. Sane(j, d)
  BY <1>4, <1>7, <1>8, <1>9, <1>10, <1>11 DEF Sane
<1>13. Terminal(d)
  BY <1>1, <1>4, <1>9 DEF Sound, Terminal
<1>14. /\ Active(d) = Active(b) /\ d.result = "none" /\ Pending(d) = Pending(b) /\ InHand(d) = InHand(b)
       /\ Len(d.attempts) <= Len(b.attempts)
  BY <1>1, <1>3, <1>4, <1>5
<1> QED
  BY <1>9, <1>11, <1>12, <1>13, <1>14 DEF Moves

LEMMA CancelMoves ==
  ASSUME NEW j \in Jobs, NEW b, Sound(j, b), b.state \in {"STARTING", "RUNNING"}
  PROVE  LET d == Aggregated(Put(Cancelled(b), Pending(b), "FAILED"))
         IN  Moves(j, b, d) /\ Halted(d)
<1> DEFINE c == Cancelled(b)
           q == Put(c, Pending(b), "FAILED")
           d == Aggregated(q)
<1>1. /\ Sane(j, c) /\ Covered(c) /\ Agreed(c)
      /\ c.state = b.state /\ c.result = b.result /\ (c.interrupted <=> b.interrupted)
      /\ Open(c) = Open(b) /\ Pending(c) = Pending(b) /\ InHand(c) = InHand(b) /\ Active(c) = Active(b)
      /\ Len(c.attempts) = Len(b.attempts) /\ DOMAIN c.attempts = DOMAIN b.attempts
      /\ \A k \in DOMAIN c.attempts : Failing(c.attempts[k])
  BY CancelledKeeps
<1>2. b.result = "none" /\ Stated(b)
  BY DEF Sound, Terminal, Stated
<1> HIDE DEF c
<1>3. Lessened(j, c, q) /\ Pending(q) = Pending(c) \ Pending(b)
  BY <1>1, NothingPending, ClosingLessens DEF Done
<1> HIDE DEF q
<1>4. Stated(c) /\ c.result = "none"
  BY <1>1, <1>2 DEF Stated
<1>5. Sane(j, q) /\ Stated(q) /\ q.result = "none" /\ Covered(q) /\ Agreed(q)
  BY <1>1, <1>3, <1>4, LessenedStays DEF Lessened
<1>6. Upheld(j, q, d)
  BY <1>5, AggregatedUpheld
<1>7. Moves(j, c, d)
  BY <1>3, <1>4, <1>6, UpheldMoves
<1>8. Halted(b) => Halted(c)
  BY <1>1, <1>2, <1>4 DEF Halted
<1>9. Moves(j, b, d)
  BY <1>1, <1>2, <1>7, <1>8 DEF Moves
<1>10. Halted(d)
  <2>1. Pending(q) = {}
    BY <1>1, <1>3
  <2>2. CASE Open(q) = {}
    <3>1. Ended(j, q, d)
      BY <1>5, <2>2, AggregatedEnds
    <3>2. \A k \in DOMAIN d.attempts : Failing(d.attempts[k])
      BY <1>1, <1>3, <3>1 DEF Ended, Lessened
    <3> QED
      BY <1>6, <2>1, <3>1, <3>2 DEF Ended, Halted, Upheld
  <2>3. CASE Open(q) # {}
    <3>1. d = q
      BY <1>5, <2>3, AggregatedEnds
    <3>2. Active(q) # {}
      BY <1>5, <2>1, <2>3 DEF Covered, InHand
    <3>3. q.attempts # <<>>
      BY <3>2 DEF Active
    <3> QED
      BY <1>1, <1>3, <2>1, <3>1, <3>3 DEF Halted, Lessened
  <2> QED
    BY <2>2, <2>3
<1> QED
  BY <1>9, <1>10 DEF d, q, c

LEMMA SkipMoves ==
  ASSUME NEW j \in Jobs, NEW b, Sound(j, b), b.state \in Unstarted
  PROVE  Moves(j, b, Aggregated(Put(b, Open(b), "FAILED")))
<1> DEFINE q == Put(b, Open(b), "FAILED")
<1>1. Sane(j, b) /\ Stated(b) /\ b.result = "none" /\ Agreed(b) /\ Covered(b)
  BY DEF Sound, Terminal, Stated, Unstarted
<1>2. \A k \in Active(b) : b.attempts[k].zones \cap Open(b) \subseteq disabled
  <2>1. \A k \in Active(b) : b.attempts[k].zones \cap Pending(b) \subseteq disabled
    BY <1>1, NothingPending
  <2> QED
    BY <1>1, <2>1 DEF Agreed, InHand
<1>3. Lessened(j, b, q)
  BY <1>1, <1>2, ClosingLessens DEF Done
<1> HIDE DEF q
<1>4. Sane(j, q) /\ Stated(q) /\ q.result = "none" /\ Covered(q) /\ Agreed(q)
  BY <1>1, <1>3, LessenedStays DEF Lessened
<1>5. Upheld(j, q, Aggregated(q))
  BY <1>4, AggregatedUpheld
<1>6. Moves(j, b, Aggregated(q))
  BY <1>1, <1>3, <1>5, UpheldMoves
<1> QED
  BY <1>6 DEF q

LEMMA MarkMoves ==
  ASSUME NEW j \in Jobs, NEW b, Sound(j, b), NEW mark \in BOOLEAN, NEW c, c = [b EXCEPT !.forced = mark]
  PROVE  Moves(j, b, c)
<1>1. Sane(j, b) /\ Terminal(b) /\ Covered(b) /\ b \in JobType(j) /\ Len(b.attempts) \in Nat
  BY Parts DEF Sound, Sane
<1>2. /\ Sane(j, c) /\ c.state = b.state /\ c.result = b.result /\ (c.interrupted <=> b.interrupted)
      /\ c.attempts = b.attempts /\ Active(c) = Active(b)
      /\ Open(c) = Open(b) /\ Pending(c) = Pending(b) /\ InHand(c) = InHand(b)
  BY <1>1, MarkedIsSane
<1>3. Terminal(c) /\ Covered(c)
  BY <1>1, <1>2 DEF Terminal, Covered, Agreed
<1>4. Halted(b) => Halted(c)
  BY <1>2 DEF Halted
<1> QED
  BY <1>1, <1>2, <1>3, <1>4 DEF Moves

-----------------------------------------------------------------------------
(* The invariant *)

LEMMA SoundNow ==
  ASSUME IInv, NEW j \in Jobs
  PROVE  Sound(j, job[j])
BY DEF IInv, Soundness, Sound

\* Disabling zones only weakens what is asked of an attempt and of a start.
LEMMA CarriedKeeps ==
  ASSUME IInv, Carried, plan' = plan, disabled \subseteq disabled',
         \A j \in stopped' : Halted(job'[j]), WorldType', Standing'
  PROVE  IInv'
<1>1. ASSUME NEW j \in Jobs PROVE Wanted(job[j])'
  <2>1. Wanted(job'[j])
    BY DEF Carried, Sound, Sane
  <2> QED
    BY <2>1 DEF Wanted
<1>2. Soundness'
  <2> SUFFICES ASSUME NEW j \in Jobs
               PROVE  Sane(j, job[j])' /\ Terminal(job'[j]) /\ Covered(job'[j]) /\ Together(j, job[j])'
    BY DEF Soundness
  <2>1. Sane(j, job'[j]) /\ Terminal(job'[j]) /\ Covered(job'[j]) /\ Together(j, job'[j])
    BY DEF Carried, Sound
  <2>2. Sane(j, job[j])'
    BY <1>1, <2>1 DEF Sane
  <2>3. Together(j, job[j])'
    BY <2>1 DEF Together, Apart
  <2> QED
    BY <2>1, <2>2, <2>3
<1> QED
  BY <1>2 DEF IInv, Carried

LEMMA SameJobsCarry ==
  ASSUME IInv, job' = job
  PROVE  Carried
<1>1. \A j \in Jobs : Moves(j, job[j], job'[j])
  BY SoundNow, SoundMoves
<1>2. job' = [j \in Jobs |-> job'[j]]
  BY DEF IInv
<1> QED
  BY <1>1, <1>2, MovesCarry

\* One job moves.
LEMMA OneMoveCarries ==
  ASSUME IInv, NEW j \in Jobs, NEW c, Moves(j, job[j], c), job' = [job EXCEPT ![j] = c]
  PROVE  Carried /\ job'[j] = c /\ \A i \in Jobs \ {j} : job'[i] = job[i]
<1>1. job = [i \in Jobs |-> job[i]]
  BY DEF IInv
<1>2. job' = [i \in Jobs |-> job'[i]] /\ job'[j] = c /\ \A i \in Jobs \ {j} : job'[i] = job[i]
  BY <1>1
<1>3. ASSUME NEW i \in Jobs PROVE Moves(i, job[i], job'[i])
  <2>1. CASE i = j
    BY <1>2, <2>1
  <2>2. CASE i # j
    BY <1>2, <2>2, SoundNow, SoundMoves
  <2> QED
    BY <2>1, <2>2
<1> QED
  BY <1>2, <1>3, MovesCarry

LEMMA CarriedHalts ==
  ASSUME IInv, Carried
  PROVE  \A j \in stopped : Halted(job'[j])
BY DEF IInv, WorldType, Carried

LEMMA IdleStands ==
  ASSUME IInv, \/ at' = at /\ at.step = "idle"
               \/ at' = Idle
               \/ at' = [Idle EXCEPT !.step = "prepare"]
  PROVE  Standing'
<1>1. 1 \in 1..N + 1
  BY JobsAssumption
<1>2. at' \in [step : {"idle", "prepare"}, next : 1..N + 1, ready : [Jobs -> SUBSET Zones]]
  BY <1>1 DEF Idle, IInv, Standing
<1>3. \A j \in Jobs : at'.ready[j] = {}
  BY DEF Idle, IInv, Standing, Readied
<1> QED
  BY <1>2, <1>3 DEF Standing, Readied, Closed

LEMMA InitSound ==
  ASSUME Init
  PROVE  IInv
<1>1. ASSUME NEW j \in Jobs PROVE Sound(j, job[j]) /\ Active(job[j]) = {}
  <2> DEFINE b == [zones |-> [z \in ZonesOf[j] |-> "PLANNED"], attempts |-> <<>>, state |-> "PLANNED",
                   result |-> "none", forced |-> FALSE, interrupted |-> FALSE]
  <2>1. job[j] = b
    BY DEF Init
  <2>2. /\ b \in JobType(j) /\ b.attempts = <<>> /\ DOMAIN b.attempts = {}
        /\ b.state = "PLANNED" /\ b.result = "none" /\ ~b.interrupted
    BY DEF JobType, ZoneStates, JobStates, Results
  <2>3. \A z \in DOMAIN b.zones : b.zones[z] = "PLANNED"
    OBVIOUS
  <2> HIDE DEF b
  <2>4. Active(b) = {} /\ InHand(b) = {}
    BY <2>2, <2>3 DEF Active, InHand, Open, Pending, Unstarted
  <2>5. Sane(j, b)
    BY <2>2, <2>4 DEF Sane, OneActive, NothingToSucceed, Fresh, Distinct, Unlinked, Chained,
       Settling, Followed, Wanted, Interrupted
  <2>6. Terminal(b) /\ Covered(b) /\ Together(j, b)
    BY <2>2, <2>4 DEF Terminal, Agreed, Covered, Together
  <2> QED
    BY <2>1, <2>4, <2>5, <2>6 DEF Sound
<1>2. job = [j \in Jobs |-> job[j]]
  BY DEF Init
<1>3. WorldType
  BY JobsAssumption DEF Init, WorldType
<1>4. Standing
  <2>1. 1 \in 1..N + 1
    BY JobsAssumption
  <2> QED
    BY <2>1 DEF Init, Idle, Standing, Readied, Closed
<1> QED
  BY <1>1, <1>2, <1>3, <1>4 DEF Init, IInv, Soundness, Sound, OneLease

LEMMA PrepareCarries ==
  ASSUME LateBlockersFirst, IInv, NEW j \in Jobs, Prepare(j)
  PROVE  Carried /\ Standing'
<1>1. at.step = "prepare" /\ at.next = j /\ job[j].result = "none"
  BY DEF Prepare
<1>2. PICK c, ready : Preparation(j, job[j], c, ready) /\ Prepared(j, c, ready)
  <2>1. Sane(j, job[j]) /\ Terminal(job[j]) /\ Together(j, job[j])
    BY SoundNow DEF Sound
  <2> QED
    BY <2>1, PrepareKeeps DEF Prepares
<1>3. Moves(j, job[j], c)
  BY <1>1, <1>2 DEF Preparation, Moves
<1>4. Carried /\ job'[j] = c /\ \A i \in Jobs \ {j} : job'[i] = job[i]
  BY <1>2, <1>3, OneMoveCarries DEF Prepared
<1> DEFINE given == IF c.result = "none" THEN ready ELSE {}
<1>5. at' = [at EXCEPT !.next = j + 1, !.ready[j] = given]
  BY <1>2 DEF Prepared
<1>6. given \subseteq Pending(c) /\ (given # {} => c.result = "none" /\ ~c.interrupted)
  BY <1>2 DEF Preparation
<1>7. given \subseteq Zones
  <2>1. Pending(c) \subseteq ZonesOf[j]
    BY <1>3, Parts DEF Moves, Sane
  <2> QED
    BY <1>6, <2>1, JobsAssumption
<1> HIDE DEF given
<1>8. at \in [step : {"idle", "prepare"}, next : 1..N + 1, ready : [Jobs -> SUBSET Zones]]
  BY DEF IInv, Standing
<1>9. /\ at' \in [step : {"idle", "prepare"}, next : 1..N + 1, ready : [Jobs -> SUBSET Zones]]
      /\ at'.step = "prepare" /\ at'.ready[j] = given
      /\ \A i \in Jobs \ {j} : at'.ready[i] = at.ready[i]
  <2>1. j + 1 \in 1..N + 1
    BY JobsAssumption DEF Jobs
  <2> QED
    BY <1>1, <1>5, <1>7, <1>8, <2>1
<1>10. plan' = plan /\ disabled' = disabled
  BY DEF Prepare, world
<1>11. Closed(j, c, given)
  BY <1>2 DEF Preparation, Closed, given
<1>12. Readied(j)'
  <2>1. Closed(j, c, given)'
    BY <1>4, <1>9, <1>10, <1>11 DEF Closed, Apart
  <2> QED
    BY <1>4, <1>6, <1>9, <2>1 DEF Readied
<1>13. ASSUME NEW i \in Jobs \ {j} PROVE Readied(i)'
  BY <1>4, <1>9, <1>10, <1>13 DEF IInv, Standing, Readied, Closed, Apart
<1> QED
  BY <1>4, <1>9, <1>12, <1>13 DEF Standing

LEMMA PowerLossCarries ==
  ASSUME IInv, PowerLoss
  PROVE  Carried /\ Standing' /\ \A j \in stopped' : Halted(job'[j])
<1> DEFINE hit == {j \in Jobs : job[j].result = "none" /\ Active(job[j]) # {}}
           lost(j) == [Cancelled(job[j]) EXCEPT !.interrupted = TRUE]
<1>1. /\ job' = [j \in Jobs |-> IF j \in hit THEN lost(j) ELSE job[j]]
      /\ stopped' = stopped \cup hit /\ at' = at
  BY DEF PowerLoss
<1>2. ASSUME NEW j \in hit
      PROVE  /\ Moves(j, job[j], lost(j)) /\ Halted(lost(j)) /\ Active(lost(j)) # {}
             /\ lost(j).result = "none" /\ Pending(lost(j)) = Pending(job[j])
  BY SoundNow, OutageMoves
<1> HIDE DEF lost
<1>3. /\ job' = [j \in Jobs |-> job'[j]]
      /\ \A j \in hit : job'[j] = lost(j)
      /\ \A j \in Jobs \ hit : job'[j] = job[j]
  BY <1>1
<1>4. ASSUME NEW j \in Jobs PROVE Moves(j, job[j], job'[j])
  <2>1. CASE j \in hit
    BY <1>2, <1>3, <2>1
  <2>2. CASE j \notin hit
    BY <1>3, <2>2, SoundNow, SoundMoves
  <2> QED
    BY <2>1, <2>2
<1>5. Carried
  BY <1>3, <1>4, MovesCarry
<1>6. \A j \in stopped' : Halted(job'[j])
  BY <1>1, <1>2, <1>3, <1>5, CarriedHalts
<1>7. ASSUME NEW j \in Jobs PROVE Readied(j)'
  <2>1. Readied(j) /\ plan' = plan /\ disabled' = disabled
    BY DEF IInv, Standing, PowerLoss, world
  <2>2. CASE j \in hit
    BY <1>1, <1>2, <1>3, <2>1, <2>2 DEF Readied, Closed, Apart
  <2>3. CASE j \notin hit
    BY <1>1, <1>3, <2>1, <2>3 DEF Readied, Closed, Apart
  <2> QED
    BY <2>2, <2>3
<1> QED
  BY <1>1, <1>5, <1>6, <1>7 DEF IInv, Standing

\* Where the jobs stay as they are.
LEMMA WorldKeeps ==
  ASSUME IInv, job' = job, stopped' = stopped, plan' = plan, disabled \subseteq disabled', WorldType',
         at' = at \/ Standing'
  PROVE  Carried /\ IInv'
<1>1. Carried
  BY SameJobsCarry
<1>2. Standing'
  BY DEF IInv, Standing, Readied, Closed, Apart
<1>3. \A j \in stopped' : Halted(job'[j])
  BY DEF IInv
<1> QED
  BY <1>1, <1>2, <1>3, CarriedKeeps

\* Every step carries the jobs on and keeps the invariant.
LEMMA StepKeeps ==
  ASSUME LateBlockersFirst, IInv, [Next]_vars
  PROVE  Carried /\ IInv'
<1> USE DEF world
<1>1. WorldType
  BY DEF IInv
<1>2. CASE BeginReconcile
  <2>1. Standing'
    BY <1>2, IdleStands DEF BeginReconcile
  <2> QED
    BY <1>1, <1>2, <2>1, WorldKeeps DEF BeginReconcile, WorldType
<1>3. ASSUME NEW j \in Jobs, Prepare(j) PROVE Carried /\ IInv'
  <2>1. Carried /\ Standing'
    BY <1>3, PrepareCarries
  <2>2. stopped' = stopped /\ plan' = plan /\ disabled' = disabled /\ WorldType'
    BY <1>1, <1>3 DEF Prepare, WorldType
  <2> QED
    BY <2>1, <2>2, CarriedHalts, CarriedKeeps
<1>4. ASSUME NEW j \in Jobs, PassOver(j) PROVE Carried /\ IInv'
  <2>1. at' = [at EXCEPT !.next = j + 1] /\ at.step = "prepare"
    BY <1>4 DEF PassOver
  <2>2. j + 1 \in 1..N + 1
    BY JobsAssumption DEF Jobs
  <2>3. /\ at' \in [step : {"idle", "prepare"}, next : 1..N + 1, ready : [Jobs -> SUBSET Zones]]
        /\ at'.ready = at.ready /\ at'.step = at.step
    BY <2>1, <2>2 DEF IInv, Standing
  <2>4. Standing'
    BY <1>4, <2>3 DEF IInv, Standing, Readied, Closed, Apart, PassOver
  <2> QED
    BY <1>1, <1>4, <2>4, WorldKeeps DEF PassOver, WorldType
<1>5. CASE Arbitrate
  <2>1. Carried
    BY <1>5, ArbitrateCarries
  <2>2. Standing'
    BY <1>5, IdleStands DEF Arbitrate
  <2>3. stopped' = stopped /\ plan' = plan /\ disabled' = disabled /\ WorldType'
    BY <1>1, <1>5 DEF Arbitrate, WorldType
  <2> QED
    BY <2>1, <2>2, <2>3, CarriedHalts, CarriedKeeps
<1>6. CASE PowerLoss
  <2>1. Carried /\ Standing' /\ \A j \in stopped' : Halted(job'[j])
    BY <1>6, PowerLossCarries
  <2>2. plan' = plan /\ disabled' = disabled /\ WorldType'
    BY <1>1, <1>6 DEF PowerLoss, WorldType
  <2> QED
    BY <2>1, <2>2, CarriedKeeps
<1>7. ASSUME NEW j \in Jobs, StartNow(j) \/ Skip(j) \/ Cancel(j) PROVE Carried /\ IInv'
  <2>1. at' = at /\ at.step = "idle" /\ plan' = plan /\ disabled' = disabled
    BY <1>7 DEF StartNow, Skip, Cancel
  <2>2. Standing'
    BY <2>1, IdleStands
  <2>3. Sound(j, job[j]) /\ job = [i \in Jobs |-> job[i]]
    BY SoundNow DEF IInv
  <2>4. CASE StartNow(j)
    <3> DEFINE c == [job[j] EXCEPT !.forced = TRUE]
    <3>1. Moves(j, job[j], c)
      BY <2>3, MarkMoves
    <3>2. job' = [job EXCEPT ![j] = c] /\ stopped' = stopped /\ WorldType'
      BY <1>1, <2>4 DEF StartNow, WorldType
    <3> HIDE DEF c
    <3>3. Carried
      BY <3>1, <3>2, OneMoveCarries
    <3> QED
      BY <2>1, <2>2, <3>2, <3>3, CarriedHalts, CarriedKeeps
  <2>5. CASE Skip(j)
    <3> DEFINE c == Aggregated(Put(job[j], Open(job[j]), "FAILED"))
    <3>1. Moves(j, job[j], c)
      BY <2>3, <2>5, SkipMoves DEF Skip
    <3>2. job' = [job EXCEPT ![j] = c] /\ stopped' = stopped /\ WorldType'
      BY <1>1, <2>5 DEF Skip, WorldType
    <3> HIDE DEF c
    <3>3. Carried
      BY <3>1, <3>2, OneMoveCarries
    <3> QED
      BY <2>1, <2>2, <3>2, <3>3, CarriedHalts, CarriedKeeps
  <2>6. CASE Cancel(j)
    <3> DEFINE c == Aggregated(Put(Cancelled(job[j]), Pending(job[j]), "FAILED"))
    <3>1. Moves(j, job[j], c) /\ Halted(c)
      BY <2>3, <2>6, CancelMoves DEF Cancel
    <3>2. job' = [job EXCEPT ![j] = c] /\ stopped' = stopped \cup {j} /\ WorldType'
      BY <1>1, <2>6 DEF Cancel, WorldType
    <3> HIDE DEF c
    <3>3. Carried /\ job'[j] = c
      BY <3>1, <3>2, OneMoveCarries
    <3>4. \A i \in stopped' : Halted(job'[i])
      BY <3>1, <3>2, <3>3, CarriedHalts
    <3> QED
      BY <2>1, <2>2, <3>2, <3>3, <3>4, CarriedKeeps
  <2> QED
    BY <1>7, <2>4, <2>5, <2>6
<1>8. ASSUME NEW j \in Jobs, Release(j) \/ Expire(j) PROVE Carried /\ IInv'
  <2>1. /\ job' = job /\ stopped' = stopped /\ plan' = plan /\ disabled' = disabled /\ at' = at /\ WorldType'
    BY <1>1, <1>8 DEF Release, Expire, WorldType
  <2> QED
    BY <2>1, WorldKeeps
<1>9. CASE SetGate
  <2>1. /\ job' = job /\ stopped' = stopped /\ plan' = plan /\ disabled' = disabled /\ at' = at /\ WorldType'
    BY <1>1, <1>9 DEF SetGate, WorldType
  <2> QED
    BY <2>1, WorldKeeps
<1>10. ASSUME NEW z \in Zones, DisableZone(z) PROVE Carried /\ IInv'
  <2>1. /\ job' = job /\ stopped' = stopped /\ plan' = plan /\ disabled \subseteq disabled' /\ at' = at /\ WorldType'
    BY <1>1, <1>10 DEF DisableZone, WorldType
  <2> QED
    BY <2>1, WorldKeeps
<1>11. CASE UNCHANGED vars
  <2>1. /\ job' = job /\ stopped' = stopped /\ plan' = plan /\ disabled' = disabled /\ at' = at /\ WorldType'
    BY <1>1, <1>11 DEF vars, WorldType
  <2> QED
    BY <2>1, WorldKeeps
<1> QED
  BY <1>2, <1>3, <1>4, <1>5, <1>6, <1>7, <1>8, <1>9, <1>10, <1>11 DEF Next

\* IInv holds in every state the reconcile, the emergency, the user and the
\* configuration can reach together.
THEOREM Invariant ==
  ASSUME LateBlockersFirst
  PROVE  Spec => []IInv
<1>1. Init => IInv
  BY InitSound
<1>2. IInv /\ [Next]_vars => IInv'
  BY StepKeeps
<1> QED
  BY <1>1, <1>2, PTL DEF Spec

\* The records in memory keep their types, and a job has a result exactly when
\* it has left the store.
THEOREM TypeCorrect ==
  ASSUME LateBlockersFirst
  PROVE  Spec => []TypeOK
<1>1. IInv => TypeOK
  <2> SUFFICES ASSUME IInv PROVE TypeOK
    OBVIOUS
  <2>1. ASSUME NEW j \in Jobs
        PROVE  /\ DOMAIN job[j] = {"zones", "attempts", "state", "result", "forced", "interrupted"}
               /\ job[j].zones \in [ZonesOf[j] -> ZoneStates]
               /\ \A k \in DOMAIN job[j].attempts : job[j].attempts[k] \in Attempts(j)
               /\ job[j].state \in JobStates
               /\ job[j].result \in Results
               /\ job[j].state = "FINISHED" <=> job[j].result # "none"
               /\ job[j].forced \in BOOLEAN /\ job[j].interrupted \in BOOLEAN
    <3>1. job[j] \in JobType(j) /\ Terminal(job[j])
      BY SoundNow DEF Sound, Sane
    <3>2. \A k \in DOMAIN job[j].attempts : job[j].attempts[k] \in Attempts(j)
      BY <3>1, Parts
    <3> QED
      BY <3>1, <3>2 DEF JobType, Terminal
  <2>2. DOMAIN job = Jobs
    BY DEF IInv
  <2>3. /\ plan \in Plans
        /\ released \subseteq Jobs /\ expired \subseteq released
        /\ gate \in BOOLEAN /\ disabled \subseteq MayDisable /\ stopped \subseteq Jobs
    BY DEF IInv, WorldType
  <2>4. at.step \in {"idle", "prepare"} /\ at.next \in 1..N + 1 /\ at.ready \in [Jobs -> SUBSET Zones]
    BY DEF IInv, Standing
  <2> QED
    BY <2>1, <2>2, <2>3, <2>4 DEF TypeOK
<1> QED
  BY <1>1, Invariant, PTL

\* There is never more than one attempt on its way to or on the robot, whichever
\* of arbiter, next pass and retry started it: the physical lease is exclusive.
THEOREM LeaseIsExclusive ==
  ASSUME LateBlockersFirst
  PROVE  Spec => []LeaseExclusive
<1>1. IInv => LeaseExclusive
  <2> SUFFICES ASSUME IInv, NEW i \in Jobs, NEW j \in Jobs, NEW k \in Active(job[i]), NEW l \in Active(job[j]),
                      job[i].result = "none", job[j].result = "none"
               PROVE  i = j /\ k = l
    BY DEF LeaseExclusive
  <2>1. i = j
    BY DEF IInv, OneLease
  <2>2. OneActive(job[i])
    BY SoundNow DEF Sound, Sane
  <2> QED
    BY <2>1, <2>2 DEF OneActive
<1> QED
  BY <1>1, Invariant, PTL

\* No zone is sent out twice for the same pass of an occurrence: an early
\* execution is not duplicated at the planned start, nor a pass by its retry.
THEOREM PassesAreSentOnce ==
  ASSUME LateBlockersFirst
  PROVE  Spec => []NoRepeat
<1>1. IInv => NoRepeat
  <2> SUFFICES ASSUME IInv, NEW j \in Jobs PROVE Distinct(job[j])
    BY DEF NoRepeat, Distinct
  <2> QED
    BY SoundNow DEF Sound, Sane
<1> QED
  BY <1>1, Invariant, PTL

\* An occurrence that has ended leaves no attempt behind on the robot, except
\* for a zone the user disabled while it was being cleaned.
THEOREM NoAttemptIsOrphaned ==
  ASSUME LateBlockersFirst
  PROVE  Spec => []NoOrphanUnlessDisabled
<1>1. IInv => NoOrphanUnlessDisabled
  <2> SUFFICES ASSUME IInv, NEW j \in Jobs, job[j].result # "none", NEW k \in Active(job[j])
               PROVE  job[j].attempts[k].zones \cap disabled # {}
    BY DEF NoOrphanUnlessDisabled
  <2>1. Wanted(job[j]) /\ Open(job[j]) = {}
    BY SoundNow DEF Sound, Sane, Terminal
  <2> QED
    BY <2>1 DEF Wanted
<1> QED
  BY <1>1, Invariant, PTL

\* A zone in hand has its attempt: pre-flight and the deadline, which do not
\* look at it any more, need not.
THEOREM NoZoneIsForgotten ==
  ASSUME LateBlockersFirst
  PROVE  Spec => []InHandIsFollowed
<1>1. IInv => InHandIsFollowed
  <2> SUFFICES ASSUME IInv, NEW j \in Jobs, NEW z \in Open(job[j]), job[j].zones[z] \in {"STARTING", "RUNNING"}
               PROVE  \E k \in DOMAIN job[j].attempts :
                        z \in job[j].attempts[k].zones /\ ActiveAttempt(job[j].attempts[k])
    BY DEF InHandIsFollowed
  <2>1. z \in InHand(job[j])
    BY DEF InHand, Pending, Unstarted
  <2>2. PICK k \in Active(job[j]) : z \in job[j].attempts[k].zones
    BY <2>1, SoundNow DEF Sound, Covered
  <2> QED
    BY <2>2 DEF Active
<1> QED
  BY <1>1, Invariant, PTL

\* Zones that share a target, and the zones of a combined job, are started
\* together: none of them still waits while another is in hand.
THEOREM ZonesStartTogether ==
  ASSUME LateBlockersFirst
  PROVE  Spec => []StartedTogether
<1>1. IInv => StartedTogether
  <2> SUFFICES ASSUME IInv, NEW j \in Jobs, NEW y \in Open(job[j]), NEW z \in Open(job[j]),
                      plan.target[y] = plan.target[z] \/ j \in plan.combined,
                      job[j].zones[y] \in {"STARTING", "RUNNING"}, job[j].zones[z] \in Unstarted
               PROVE  z \in disabled
    BY DEF StartedTogether
  <2>1. y \in InHand(job[j]) /\ z \in Pending(job[j])
    BY DEF InHand, Open, Pending, Unstarted
  <2>2. Apart(j, y, z)
    BY <2>1, SoundNow DEF Sound, Together
  <2> QED
    BY <2>2 DEF Apart
<1> QED
  BY <1>1, Invariant, PTL

\* After a cancellation or an outage no further attempt of the occurrence is
\* ever started, by whichever path.
THEOREM NothingIsStartedAfterStop ==
  ASSUME LateBlockersFirst
  PROVE  Spec => NothingAfterStop
<1>1. IInv /\ [Next]_vars => [\A j \in stopped : Len(job'[j].attempts) <= Len(job[j].attempts)]_vars
  <2> SUFFICES ASSUME IInv, [Next]_vars, NEW j \in stopped
               PROVE  Len(job'[j].attempts) <= Len(job[j].attempts)
    OBVIOUS
  <2>1. Carried
    BY StepKeeps
  <2>2. j \in Jobs /\ Halted(job[j])
    BY DEF IInv, WorldType
  <2> QED
    BY <2>1, <2>2 DEF Carried
<1> QED
  BY <1>1, Invariant, PTL DEF Spec, NothingAfterStop

\* A job whose unstarted zones are all closed has ended or has its attempt.
LEMMA ClosedIsLeftToAttempt ==
  ASSUME NEW j \in Jobs, NEW q, Sane(j, q), Stated(q), q.result = "none", Covered(q), Pending(q) = {},
         NEW c \in {Aggregated(q), Synced(Aggregated(q))}
  PROVE  c.result # "none" \/ Active(c) # {}
<1>1. IF Open(q) = {} THEN Ended(j, q, Aggregated(q)) ELSE Aggregated(q) = q
  BY AggregatedEnds
<1>2. CASE Open(q) = {}
  <2>1. Aggregated(q).result # "none"
    BY <1>1, <1>2 DEF Ended
  <2>2. Synced(Aggregated(q)) = Aggregated(q)
    BY <2>1 DEF Synced
  <2> QED
    BY <2>1, <2>2
<1>3. CASE Open(q) # {}
  <2>1. Aggregated(q) = q /\ q \in JobType(j)
    BY <1>1, <1>3 DEF Sane
  <2>2. Active(q) # {} /\ Active(Synced(q)) = Active(q)
    BY <1>3, <2>1, SyncedParts DEF Covered, InHand
  <2> QED
    BY <2>1, <2>2
<1> QED
  BY <1>2, <1>3

LEMMA ExpiredIsSettled ==
  ASSUME LateBlockersFirst, IInv, NEW j \in expired, Prepare(j)
  PROVE  job'[j].result # "none" \/ Active(job'[j]) # {}
<1>1. j \in Jobs /\ Due(j, job[j]) /\ Sound(j, job[j]) /\ job[j].result = "none"
  BY SoundNow DEF IInv, WorldType, Due, Prepare
<1>2. PICK p \in Progress(j, job[j]) :
        \/ PrepareFinished(j, p)
        \/ PrepareInterrupted(j, p)
        \/ PrepareSuppressed(j, p)
        \/ PrepareExpired(j, p)
        \/ PrepareEarly(j, p)
        \/ \E verdict \in Verdicts(Pending(p) \ disabled) : PrepareAuthoritative(j, p, verdict)
  BY DEF Prepare
<1>3. ~PrepareEarly(j, p) /\ \A verdict : ~PrepareAuthoritative(j, p, verdict)
  BY DEF PrepareEarly, PrepareAuthoritative, Due, IInv, WorldType
<1>4. Sane(j, p) /\ Stated(p) /\ p.result = "none"
  BY <1>1, ProgressKeeps DEF Kin, Sound, Terminal, Stated
<1>5. \A c, ready : Prepared(j, c, ready) => job'[j] = c
  BY <1>1 DEF Prepared, IInv
<1> DEFINE Settles(c) == c.result # "none" \/ Active(c) # {}
<1>6. ASSUME NEW S, NEW s \in Done, Lessened(j, p, Put(p, S, s)), Covered(p), Pending(Put(p, S, s)) = {}
      PROVE  Settles(Aggregated(Put(p, S, s))) /\ Settles(Synced(Aggregated(Put(p, S, s))))
  <2> DEFINE q == Put(p, S, s)
  <2>1. Lessened(j, p, q) /\ Covered(p) /\ Pending(q) = {}
    BY <1>6
  <2> HIDE DEF q
  <2>2. Sane(j, q) /\ Stated(q) /\ q.result = "none" /\ Covered(q) /\ Pending(q) = {}
    BY <1>1, <1>4, <2>1, LessenedStays DEF Lessened
  <2>3. \A c \in {Aggregated(q), Synced(Aggregated(q))} : Settles(c)
    BY <1>1, <2>2, ClosedIsLeftToAttempt
  <2> QED
    BY <2>3 DEF q
<1>7. ASSUME NEW s \in Done, ~p.interrupted \/ Active(p) # {}
      PROVE  Settles(Synced(Aggregated(Put(p, Pending(p), s))))
  <2>1. Covered(p)
    BY <1>1, <1>4, <1>7, FollowedIsCovered
  <2>2. Lessened(j, p, Put(p, Pending(p), s)) /\ Pending(Put(p, Pending(p), s)) = {}
    BY <1>1, <1>4, <1>7, NothingPending, ClosingLessens
  <2> QED
    BY <1>6, <1>7, <2>1, <2>2
<1>8. CASE PrepareFinished(j, p)
  BY <1>5, <1>8 DEF PrepareFinished
<1>9. CASE PrepareInterrupted(j, p)
  <2>1. CASE Active(p) # {}
    BY <1>5, <1>9, <2>1 DEF PrepareInterrupted
  <2>2. CASE Active(p) = {}
    <3> DEFINE q == Put(p, Open(p), "FAILED")
    <3>1. Lessened(j, p, q) /\ Open(q) = {}
      BY <1>1, <1>4, <2>2, ClosingLessens DEF Done
    <3>2. job'[j] = Aggregated(q)
      BY <1>5, <1>9, <2>2 DEF PrepareInterrupted
    <3> HIDE DEF q
    <3>3. Sane(j, q) /\ q.result = "none"
      BY <1>1, <1>4, <3>1, LessenedStays DEF Lessened
    <3>4. Ended(j, q, Aggregated(q))
      BY <1>1, <3>1, <3>3, AggregatedEnds
    <3> QED
      BY <3>2, <3>4 DEF Ended
  <2> QED
    BY <2>1, <2>2
<1>10. CASE PrepareSuppressed(j, p)
  <2>1. ~p.interrupted
    BY <1>10 DEF PrepareSuppressed
  <2>2. CASE p.attempts = <<>>
    <3>1. job'[j] = Finished(Put(p, Pending(p), "SKIPPED"), "SUPPRESSED")
      BY <1>5, <1>10, <2>2 DEF PrepareSuppressed
    <3> QED
      BY <3>1 DEF Finished, Put
  <2>3. CASE p.attempts # <<>>
    <3>1. job'[j] = Synced(Aggregated(Put(p, Pending(p), "SKIPPED")))
      BY <1>5, <1>10, <2>3 DEF PrepareSuppressed
    <3> QED
      BY <1>7, <2>1, <3>1 DEF Done
  <2> QED
    BY <2>2, <2>3
<1>11. CASE PrepareExpired(j, p)
  <2>1. ~p.interrupted /\ job'[j] = Synced(Aggregated(Put(p, Pending(p), "FAILED")))
    BY <1>5, <1>11 DEF PrepareExpired
  <2> QED
    BY <1>7, <2>1 DEF Done
<1> QED
  BY <1>2, <1>3, <1>8, <1>9, <1>10, <1>11

\* The reconcile that passes an occurrence after its deadline ends it or leaves
\* it to the attempt on the robot: no early return keeps it waiting.
THEOREM DeadlinesEnd ==
  ASSUME LateBlockersFirst
  PROVE  Spec => DeadlineEnds
<1>1. IInv /\ [Next]_vars =>
        [\A j \in expired :
           at.step = "prepare" /\ at.next = j /\ at'.next # j =>
             job'[j].result # "none" \/ Active(job'[j]) # {}]_vars
  <2> SUFFICES ASSUME IInv, [Next]_vars, NEW j \in expired,
                      at.step = "prepare", at.next = j, at'.next # j
               PROVE  job'[j].result # "none" \/ Active(job'[j]) # {}
    OBVIOUS
  <2>1. j \in Jobs /\ j # N + 1
    BY JobsAssumption DEF IInv, WorldType, Jobs
  <2>2. Prepare(j) \/ PassOver(j)
    BY <2>1 DEF Next, vars, BeginReconcile, Prepare, PassOver, Arbitrate, PowerLoss, StartNow, Skip, Cancel,
       Release, Expire, SetGate, DisableZone
  <2>3. CASE PassOver(j)
    BY <2>3 DEF PassOver
  <2> QED
    BY <2>2, <2>3, ExpiredIsSettled
<1> QED
  BY <1>1, Invariant, PTL DEF Spec, DeadlineEnds
===============================================================================
