-------------------------- MODULE Readiness_proofs --------------------------
(***************************************************************************)
(* What is released, what is given up, and that nothing is overlooked.     *)
(***************************************************************************)
EXTENDS Readiness, FiniteSetTheorems, WellFoundedInduction, TLAPS

\* What the arithmetic of the times needs of a setting.
IsConfig(c) ==
  /\ c.dnd.on \in BOOLEAN /\ c.dnd.from \in 0..DayLength - 1 /\ c.dnd.to \in 0..DayLength - 1
  /\ c.warning \in Int /\ c.planned \in Int /\ c.deadline \in Int
  /\ c.window \in Nat /\ c.time \in Int /\ c.time >= -1

\* What the sensors need of it.
IsWired(c) ==
  /\ c.busy \subseteq Sensors /\ c.paths \subseteq SUBSET Sensors
  /\ c.groups \subseteq SUBSET Conditions
  /\ c.clear \in Int /\ c.settle \in Int
  /\ \A k \in Conditions :
       /\ c.conds[k].people \subseteq Sensors
       /\ c.conds[k].minimum \in Nat /\ c.conds[k].minimum >= 1
       /\ c.conds[k].dwell \in Int

-----------------------------------------------------------------------------
(* The inductive invariant *)

JobFields ==
  [state : {"PLANNED", "WAIT", "STARTED", "FAILED", "SUPPRESSED"},
   announced : BOOLEAN, indexed : BOOLEAN, early : BOOLEAN]

\* Early is what started, and nothing is undone once it has.
JobRecord == {j \in JobFields : j.early => j.state = "STARTED"}

\* Nothing that is known of a sensor lies in the future.
Known(S, n) == S = [s \in Sensors |-> S[s]] /\ \A s \in Sensors : S[s].since \in 0..n

\* The sensors tell no longer good time than the input has had: if it has been
\* good since g, what makes it good is not all older than g.
Young(c, k, S, g) ==
  CASE k = "occupancy" -> c.busy # {} => \E s \in c.busy : S[s].since >= g
    [] k = "access" -> \A p \in OpenPaths(c, S) : \E s \in p : S[s].since >= g
    [] OTHER -> Cardinality({s \in Away(c, k, S) : S[s].since < g}) < c.conds[k].minimum

\* The history of an input agrees with its sensors.
Dated(c, k, S, g, n) ==
  /\ g \in Never..n
  /\ Good(c, k, S) => g # Never /\ Young(c, k, S, g)
  /\ ~Good(c, k, S) => g = Never

\* A hold began when its input was good already, and has been since - unless it
\* is blind or lent.
HoldSound(k) ==
  held[k] # Never =>
    \/ blind[k]
    \/ k = "occupancy" /\ lent
    \/ goodSince[k] # Never /\ goodSince[k] <= held[k]

Typed ==
  /\ now \in Nat /\ config \in Configs /\ job \in JobRecord
  /\ Known(sensor, now)

Histories == \A k \in Kinds : Dated(config, k, sensor, goodSince[k], now)
Holds == \A k \in Kinds : held[k] \in Int /\ HoldSound(k)

IInv == Typed /\ Histories /\ Holds

-----------------------------------------------------------------------------
(* Days *)

LEMMA DayExists ==
  ASSUME NEW t \in Int
  PROVE  /\ OfDay(t) \in 0..DayLength - 1 /\ StartOfDay(t) \in Int
         /\ t = StartOfDay(t) + OfDay(t)
         /\ \E q \in Int : StartOfDay(t) = DayLength * q
<1>1. t % DayLength \in 0..DayLength - 1
  BY PreflightAssumption
<1>2. t \div DayLength \in Int /\ t = DayLength * (t \div DayLength) + (t % DayLength)
  BY PreflightAssumption
<1>3. PICK q \in Int : q = t \div DayLength
  BY <1>2
<1>4. PICK r \in 0..DayLength - 1 : r = t % DayLength
  BY <1>1
<1>5. PICK b : b = DayLength * q
  OBVIOUS
<1>6. b \in Int
  BY <1>5, PreflightAssumption
<1>7. t = b + r
  BY <1>2, <1>3, <1>4, <1>5
<1>8. OfDay(t) = r
  BY <1>4 DEF OfDay
<1>9. StartOfDay(t) = b
  BY <1>6, <1>7, <1>8, PreflightAssumption DEF StartOfDay
<1> QED
  BY <1>5, <1>6, <1>7, <1>8, <1>9

LEMMA DayUnique ==
  ASSUME NEW q \in Int, NEW r \in 0..DayLength - 1, NEW t \in Int, t = DayLength * q + r
  PROVE  OfDay(t) = r
BY PreflightAssumption DEF OfDay

\* The time of day of an instant of the same day and of the next one.
LEMMA SameDay ==
  ASSUME NEW t \in Int, NEW b, b = StartOfDay(t), NEW u \in Int, b <= u, u < b + DayLength
  PROVE  OfDay(u) = u - b
<1>1. PICK q \in Int : b = DayLength * q
  BY DayExists
<1>2. b \in Int /\ DayLength \in Int
  BY DayExists, PreflightAssumption
<1>3. PICK r : r = u - b
  OBVIOUS
<1>4. r \in 0..DayLength - 1 /\ u = b + r
  BY <1>2, <1>3
<1>5. u = DayLength * q + r
  BY <1>1, <1>4
<1> QED
  BY <1>3, <1>4, <1>5, DayUnique

LEMMA NextDay ==
  ASSUME NEW t \in Int, NEW b, b = StartOfDay(t), NEW u \in Int,
         b + DayLength <= u, u < b + DayLength + DayLength
  PROVE  OfDay(u) = u - b - DayLength
<1>1. PICK q \in Int : b = DayLength * q
  BY DayExists
<1>2. b \in Int /\ DayLength \in Int
  BY DayExists, PreflightAssumption
<1>3. PICK r : r = u - b - DayLength
  OBVIOUS
<1>4. r \in 0..DayLength - 1 /\ u = b + DayLength + r
  BY <1>2, <1>3
<1>5. DayLength * (q + 1) = b + DayLength
  BY <1>1, <1>2
<1>6. u = DayLength * (q + 1) + r
  BY <1>4, <1>5
<1> QED
  BY <1>3, <1>4, <1>6, DayUnique

-----------------------------------------------------------------------------
(* Do-not-disturb *)

\* Outside of a do-not-disturb the next one begins later, nothing is quiet
\* until then, and it lasts until its end.
LEMMA NextDndFacts ==
  ASSUME NEW c, IsConfig(c), DndValid(c), NEW t \in Int, ~InDnd(c, t)
  PROVE  /\ NextDnd(c, t).from \in Int /\ NextDnd(c, t).to \in Int
         /\ t < NextDnd(c, t).from /\ NextDnd(c, t).from < NextDnd(c, t).to
         /\ \A u \in t..NextDnd(c, t).from - 1 : ~InDnd(c, u)
         /\ \A u \in NextDnd(c, t).from..NextDnd(c, t).to - 1 : InDnd(c, u)
<1> DEFINE n == NextDnd(c, t)
<1>1. PICK d : d = OfDay(t)
  OBVIOUS
<1>2. PICK b : b = StartOfDay(t)
  OBVIOUS
<1>3. PICK f : f = c.dnd.from
  OBVIOUS
<1>4. PICK e : e = c.dnd.to
  OBVIOUS
<1>5. /\ d \in 0..DayLength - 1 /\ b \in Int /\ f \in 0..DayLength - 1 /\ e \in 0..DayLength - 1
      /\ f # e /\ DayLength \in Nat \ {0} /\ t = b + d
  BY <1>1, <1>2, <1>3, <1>4, DayExists, PreflightAssumption DEF IsConfig, DndValid
<1>6. ~(IF f < e THEN f <= d /\ d < e ELSE d >= f \/ d < e)
  BY <1>1, <1>3, <1>4 DEF InDnd
<1>7. PICK s : s = b + f + (IF f <= d THEN DayLength ELSE 0)
  OBVIOUS
<1>8. s \in Int
  BY <1>5, <1>7
<1>9. StartOfDay(s) = b + (IF f <= d THEN DayLength ELSE 0)
  <2>1. CASE f <= d
    <3>1. s = b + f + DayLength
      BY <1>7, <2>1
    <3>2. b + DayLength <= s /\ s < b + DayLength + DayLength
      BY <1>5, <3>1
    <3>3. OfDay(s) = s - b - DayLength
      BY <1>2, <1>8, <3>2, NextDay
    <3> QED
      BY <1>5, <1>8, <2>1, <3>3 DEF StartOfDay
  <2>2. CASE ~(f <= d)
    <3>1. s = b + f
      BY <1>5, <1>7, <2>2
    <3>2. b <= s /\ s < b + DayLength
      BY <1>5, <3>1
    <3>3. OfDay(s) = s - b
      BY <1>2, <1>8, <3>2, SameDay
    <3> QED
      BY <1>5, <1>8, <2>2, <3>3 DEF StartOfDay
  <2> QED
    BY <2>1, <2>2
<1>10. n.from = s
  BY <1>1, <1>2, <1>3, <1>7 DEF NextDnd
<1>11. n.to = StartOfDay(s) + e + (IF e <= f THEN DayLength ELSE 0)
  BY <1>1, <1>2, <1>3, <1>4, <1>7 DEF NextDnd
<1>12. PICK z : z = n.to
  OBVIOUS
<1>13. z = b + (IF f <= d THEN DayLength ELSE 0) + e + (IF e <= f THEN DayLength ELSE 0)
  BY <1>9, <1>11, <1>12
<1>14. z \in Int /\ t < s /\ s < z
  BY <1>5, <1>6, <1>7, <1>13
<1>15. ASSUME NEW u \in t..s - 1 PROVE ~InDnd(c, u)
  <2>1. u \in Int /\ t <= u /\ u < s
    BY <1>5, <1>8, <1>15
  <2>2. CASE u < b + DayLength
    <3>1. OfDay(u) = u - b
      BY <1>2, <1>5, <2>1, <2>2, SameDay
    <3>2. PICK h : h = OfDay(u)
      OBVIOUS
    <3>3. ~(IF f < e THEN f <= h /\ h < e ELSE h >= f \/ h < e)
      BY <1>5, <1>6, <1>7, <2>1, <2>2, <3>1, <3>2
    <3> QED
      BY <1>3, <1>4, <3>2, <3>3 DEF InDnd
  <2>3. CASE ~(u < b + DayLength)
    <3>1. f <= d /\ s = b + f + DayLength /\ u < b + DayLength + DayLength
      BY <1>5, <1>7, <2>1, <2>3
    <3>2. OfDay(u) = u - b - DayLength
      BY <1>2, <1>5, <2>1, <2>3, <3>1, NextDay
    <3>3. PICK h : h = OfDay(u)
      OBVIOUS
    <3>4. ~(IF f < e THEN f <= h /\ h < e ELSE h >= f \/ h < e)
      BY <1>5, <1>6, <2>1, <2>3, <3>1, <3>2, <3>3
    <3> QED
      BY <1>3, <1>4, <3>3, <3>4 DEF InDnd
  <2> QED
    BY <2>2, <2>3
<1>16. ASSUME NEW u \in s..z - 1 PROVE InDnd(c, u)
  <2>1. u \in Int /\ s <= u /\ u < z
    BY <1>8, <1>14, <1>16
  <2>2. PICK g : g = StartOfDay(s)
    OBVIOUS
  <2>3. g \in Int /\ s = g + f /\ z = g + e + (IF e <= f THEN DayLength ELSE 0)
    BY <1>5, <1>7, <1>9, <1>13, <2>2
  <2>4. PICK h : h = OfDay(u)
    OBVIOUS
  <2>5. CASE u < g + DayLength
    <3>1. h = u - g
      BY <1>5, <1>8, <2>1, <2>2, <2>3, <2>4, <2>5, SameDay
    <3>2. IF f < e THEN f <= h /\ h < e ELSE h >= f \/ h < e
      BY <1>5, <2>1, <2>3, <2>5, <3>1
    <3> QED
      BY <1>3, <1>4, <2>4, <3>2 DEF InDnd
  <2>6. CASE ~(u < g + DayLength)
    <3>1. e < f /\ u < g + DayLength + DayLength
      BY <1>5, <2>1, <2>3, <2>6
    <3>2. h = u - g - DayLength
      BY <1>5, <1>8, <2>1, <2>2, <2>3, <2>4, <2>6, <3>1, NextDay
    <3>3. IF f < e THEN f <= h /\ h < e ELSE h >= f \/ h < e
      BY <1>5, <2>1, <2>3, <2>6, <3>1, <3>2
    <3> QED
      BY <1>3, <1>4, <2>4, <3>3 DEF InDnd
  <2> QED
    BY <2>5, <2>6
<1> HIDE DEF n
<1> QED
  BY <1>8, <1>10, <1>12, <1>14, <1>15, <1>16 DEF n

\* Within a do-not-disturb it lasts until it is said to be over.
LEMMA DndReleaseFacts ==
  ASSUME NEW c, IsConfig(c), NEW t \in Int, InDnd(c, t)
  PROVE  /\ DndRelease(c, t) \in Int /\ t < DndRelease(c, t)
         /\ \A u \in t..DndRelease(c, t) - 1 : InDnd(c, u)
<1>1. PICK d : d = OfDay(t)
  OBVIOUS
<1>2. PICK b : b = StartOfDay(t)
  OBVIOUS
<1>3. PICK f : f = c.dnd.from
  OBVIOUS
<1>4. PICK e : e = c.dnd.to
  OBVIOUS
<1>5. /\ d \in 0..DayLength - 1 /\ b \in Int /\ f \in 0..DayLength - 1 /\ e \in 0..DayLength - 1
      /\ f # e /\ DayLength \in Nat \ {0} /\ t = b + d /\ DndValid(c)
  BY <1>1, <1>2, <1>3, <1>4, DayExists, PreflightAssumption DEF IsConfig, DndValid, InDnd
<1>6. IF f < e THEN f <= d /\ d < e ELSE d >= f \/ d < e
  BY <1>1, <1>3, <1>4 DEF InDnd
<1>7. PICK z : z = DndRelease(c, t)
  OBVIOUS
<1>8. z = b + e + (IF f > e /\ d >= f THEN DayLength ELSE 0)
  BY <1>1, <1>2, <1>3, <1>4, <1>7 DEF DndRelease
<1>9. z \in Int /\ t < z
  BY <1>5, <1>6, <1>8
<1>10. ASSUME NEW u \in t..z - 1 PROVE InDnd(c, u)
  <2>1. u \in Int /\ t <= u /\ u < z
    BY <1>5, <1>9, <1>10
  <2>2. PICK h : h = OfDay(u)
    OBVIOUS
  <2>3. CASE u < b + DayLength
    <3>1. h = u - b
      BY <1>2, <1>5, <2>1, <2>2, <2>3, SameDay
    <3>2. IF f < e THEN f <= h /\ h < e ELSE h >= f \/ h < e
      BY <1>5, <1>6, <1>8, <2>1, <2>3, <3>1
    <3> QED
      BY <1>3, <1>4, <1>5, <2>2, <3>2 DEF InDnd
  <2>4. CASE ~(u < b + DayLength)
    <3>1. e < f /\ z = b + e + DayLength /\ u < b + DayLength + DayLength
      BY <1>5, <1>8, <2>1, <2>4
    <3>2. h = u - b - DayLength
      BY <1>2, <1>5, <2>1, <2>2, <2>4, <3>1, NextDay
    <3>3. IF f < e THEN f <= h /\ h < e ELSE h >= f \/ h < e
      BY <1>5, <2>1, <2>4, <3>1, <3>2
    <3> QED
      BY <1>3, <1>4, <1>5, <2>2, <3>3 DEF InDnd
  <2> QED
    BY <2>3, <2>4
<1> QED
  BY <1>7, <1>9, <1>10

-----------------------------------------------------------------------------
(* The verdict *)

LEMMA ZoneWaits ==
  ASSUME NEW c, NEW S, NEW o, NEW h, NEW t, NEW b \in ZoneBlocks(c, S, o, h, t)
  PROVE  b.decision = "WAIT"
<1>1. /\ \A condition, code : \A x \in If(condition, Block(code, "WAIT")) : x.decision = "WAIT"
      /\ \A condition, code, u : \A x \in If(condition, BlockUntil(code, "WAIT", u)) :
           x.decision = "WAIT"
  BY DEF If, Block, BlockUntil
<1>2. \E P1, P2, P3, P4, P5, t1, t2 :
        b \in If(P1, Block("zone_state_unknown", "WAIT"))
               \cup If(P2, Block("zone_busy", "WAIT"))
               \cup If(P3, BlockUntil("zone_busy", "WAIT", t1))
               \cup If(P4, Block("zone_access_blocked", "WAIT"))
               \cup If(P5, BlockUntil("zone_access_blocked", "WAIT", t2))
  BY Zenon DEF ZoneBlocks
<1> QED
  BY <1>1, <1>2, Zenon

LEMMA BlocksDecide ==
  ASSUME NEW c, NEW g, NEW d, NEW S, NEW o, NEW h, NEW t, NEW b \in Blockers(c, g, d, S, o, h, t)
  PROVE  b.decision \in {"WAIT", "FAIL"}
<1>1. /\ \A code, decision : Block(code, decision).decision = decision
      /\ \A code, decision, u : BlockUntil(code, decision, u).decision = decision
  BY DEF Block, BlockUntil
<1>2. ASSUME NEW decision \in {"WAIT", "FAIL"}, NEW condition, NEW code
      PROVE  /\ \A x \in If(condition, Block(code, decision)) : x.decision \in {"WAIT", "FAIL"}
             /\ \A u : \A x \in If(condition, BlockUntil(code, decision, u)) :
                  x.decision \in {"WAIT", "FAIL"}
  BY <1>1 DEF If
<1>3. \A x \in DeviceBlocks(c, d) : x.decision \in {"WAIT", "FAIL"}
  <2> DEFINE charging == IF d.charging THEN "WAIT" ELSE "FAIL"
  <2>1. /\ "WAIT" \in {"WAIT", "FAIL"} /\ "FAIL" \in {"WAIT", "FAIL"}
        /\ charging \in {"WAIT", "FAIL"}
    OBVIOUS
  <2> HIDE DEF charging
  <2>2. /\ \A condition, code : \A x \in If(condition, Block(code, "WAIT")) : x.decision \in {"WAIT", "FAIL"}
        /\ \A condition, code : \A x \in If(condition, Block(code, "FAIL")) : x.decision \in {"WAIT", "FAIL"}
        /\ \A condition, code : \A x \in If(condition, Block(code, charging)) : x.decision \in {"WAIT", "FAIL"}
    BY <1>2, <2>1
  <2>3. /\ \A T : \A x \in {Block(r, "WAIT") : r \in T} : x.decision \in {"WAIT", "FAIL"}
        /\ \A T : \A x \in {Block(r, "FAIL") : r \in T} : x.decision \in {"WAIT", "FAIL"}
    BY <1>1
  <2> SUFFICES ASSUME NEW x \in DeviceBlocks(c, d)
               PROVE  x.decision \in {"WAIT", "FAIL"}
    OBVIOUS
  <2> QED
    BY <2>2, <2>3, ZenonT(60) DEF DeviceBlocks, TargetBlocks, WaterBlocks, charging
<1>4. \A x \in ZoneBlocks(c, S, o, h, t) : x.decision \in {"WAIT", "FAIL"}
  BY ZoneWaits
<1>5. ASSUME NEW e, NEW code, NEW need
      PROVE  \A x \in TooShort(e, code, need, t) : x.decision \in {"WAIT", "FAIL"}
  BY <1>1 DEF TooShort, If
<1>6. ASSUME NEW e PROVE \A x \in DndBlocks(e, t) : x.decision \in {"WAIT", "FAIL"}
  BY <1>1 DEF DndBlocks, If
<1>7. \A e : \A x \in TimeBlocks(e, t) : x.decision \in {"WAIT", "FAIL"}
  BY <1>5, <1>6, Zenon DEF TimeBlocks
<1>8. \A x \in If(GateClosed(c, g, t), Block("global_disabled", "FAIL")) : x.decision \in {"WAIT", "FAIL"}
  BY <1>2
<1> QED
  BY <1>3, <1>4, <1>7, <1>8, Zenon DEF Blockers

\* preflight.py: what cannot be read blocks by itself, and the rest is as set.
LEMMA UnreadBlocks ==
  ASSUME NEW c, NEW d
  PROVE  /\ d.dnd => Timed(c, d) = c
         /\ ~d.dnd \/ ~c.target => DeviceBlocks(c, d) # {}
<1>1. CASE ~d.dnd
  <2>1. Block("dnd_unavailable", "WAIT") \in DeviceBlocks(c, d)
    BY <1>1 DEF DeviceBlocks, If
  <2> QED
    BY <1>1, <2>1
<1>2. CASE d.dnd /\ ~c.target
  <2>1. Block("invalid_target", "FAIL") \in DeviceBlocks(c, d)
    BY <1>2 DEF DeviceBlocks, TargetBlocks, If
  <2> QED
    BY <1>2, <2>1 DEF Timed
<1> QED
  BY <1>1, <1>2 DEF Timed

LEMMA VerdictFacts ==
  ASSUME NEW B, \A b \in B : b.decision \in {"WAIT", "FAIL"}
  PROVE  /\ Verdict(B) \in {"PASS", "WAIT", "FAIL"}
         /\ Verdict(B) = "PASS" <=> B = {}
         /\ Verdict(B) = "FAIL" <=> \E b \in B : b.decision = "FAIL"
<1>1. CASE \E b \in B : b.decision = "FAIL"
  BY <1>1 DEF Verdict
<1>2. CASE B # {} /\ \A b \in B : b.decision = "WAIT"
  BY <1>2 DEF Verdict
<1>3. CASE B = {}
  BY <1>3 DEF Verdict
<1> QED
  BY <1>1, <1>2, <1>3

\* The end of the allowed time is not after the deadline, and nothing is quiet
\* before it.
LEMMA CutoffFacts ==
  ASSUME NEW c, IsConfig(c), NEW t \in Int
  PROVE  /\ Cutoff(c, t).at \in Int /\ Cutoff(c, t).at <= c.deadline
         /\ ~InDnd(c, t) => \A u \in t..Cutoff(c, t).at - 1 : ~InDnd(c, u)
<1>1. c.deadline \in Int
  BY DEF IsConfig
<1>2. CASE ~DndValid(c)
  BY <1>1, <1>2 DEF Cutoff, InDnd
<1>3. CASE DndValid(c) /\ InDnd(c, t)
  BY <1>1, <1>3 DEF Cutoff
<1>4. CASE DndValid(c) /\ ~InDnd(c, t)
  <2>1. PICK from : from = NextDnd(c, t).from
    OBVIOUS
  <2>2. from \in Int /\ t < from /\ \A u \in t..from - 1 : ~InDnd(c, u)
    BY <1>4, <2>1, NextDndFacts
  <2>3. Cutoff(c, t).at = IF from < c.deadline THEN from ELSE c.deadline
    BY <1>4, <2>1 DEF Cutoff
  <2> QED
    BY <1>1, <2>2, <2>3
<1> QED
  BY <1>2, <1>3, <1>4

\* Too little time for which nothing will ever be enough stays too little.
LEMMA TooShortStays ==
  ASSUME NEW c, IsConfig(c), NEW need \in Int, NEW t \in Nat, NEW u \in Int, t <= u, u < c.deadline,
         ~InDnd(c, u), NEW code, NEW b \in TooShort(c, code, need, t), b.decision = "FAIL"
  PROVE  TooShort(c, code, need, u) # {}
<1>1. c.deadline \in Int /\ t \in Int
  BY DEF IsConfig
<1>2. PICK at \in Int : at = Cutoff(c, t).at
  BY <1>1, CutoffFacts
<1>3. PICK resume : resume = Cutoff(c, t).resume
  OBVIOUS
<1>4. at - t < need /\ ~(resume # Never /\ resume < c.deadline /\ c.deadline - resume >= need)
  BY <1>2, <1>3 DEF TooShort, If, BlockUntil
<1>5. PICK then \in Int : then = Cutoff(c, u).at /\ then <= c.deadline
  BY CutoffFacts
<1>6. then - u < need
  <2>1. CASE at = c.deadline
    BY <1>1, <1>4, <1>5, <2>1 DEF IsConfig
  <2>2. CASE at # c.deadline
    <3>1. PICK n : n = NextDnd(c, t)
      OBVIOUS
    <3>2. /\ DndValid(c) /\ ~InDnd(c, t) /\ n.from < c.deadline /\ at = n.from /\ resume = n.to
      BY <1>2, <1>3, <2>2, <3>1 DEF Cutoff
    <3>3. /\ n.from \in Int /\ n.to \in Int /\ t < n.from /\ n.from < n.to
          /\ \A v \in n.from..n.to - 1 : InDnd(c, v)
      BY <1>1, <3>1, <3>2, NextDndFacts
    <3>4. resume # Never
      BY <3>2, <3>3 DEF Never
    <3>5. CASE u < n.from
      <4>1. PICK m : m = NextDnd(c, u)
        OBVIOUS
      <4>2. m.from \in Int /\ \A v \in u..m.from - 1 : ~InDnd(c, v)
        BY <3>2, <4>1, NextDndFacts
      <4>3. InDnd(c, n.from)
        BY <3>3
      <4>4. m.from <= n.from
        BY <3>3, <3>5, <4>2, <4>3
      <4>5. then = m.from
        BY <1>1, <1>5, <3>2, <3>3, <4>1, <4>2, <4>4 DEF Cutoff
      <4> QED
        BY <1>4, <3>2, <3>3, <4>2, <4>4, <4>5
    <3>6. CASE n.from <= u /\ u < n.to
      BY <3>3, <3>6
    <3>7. CASE n.to <= u
      BY <1>1, <1>4, <1>5, <3>2, <3>3, <3>4, <3>7
    <3> QED
      BY <3>3, <3>5, <3>6, <3>7
  <2> QED
    BY <2>1, <2>2
<1> QED
  BY <1>5, <1>6 DEF TooShort, If

\* preflight.py: a blocker that fails an occurrence while the switch lets it
\* through is there, or another is, at every instant it could still start.
LEMMA FailStays ==
  ASSUME NEW c, IsConfig(c), NEW g, NEW d, NEW S, NEW o, NEW h, NEW t \in Nat, ~GateClosed(c, g, t),
         NEW b \in Blockers(c, g, d, S, o, h, t), b.decision = "FAIL",
         NEW u \in t..c.deadline - 1
  PROVE  Blockers(c, g, d, S, o, h, u) # {}
<1> SUFFICES ASSUME DeviceBlocks(c, d) = {} PROVE Blockers(c, g, d, S, o, h, u) # {}
  BY DEF Blockers
<1> Timed(c, d) = c /\ c.target
  BY UnreadBlocks
<1>1. u \in Int /\ t \in Int /\ t <= u /\ u < c.deadline /\ c.deadline \in Int
  BY DEF IsConfig
<1>2. ASSUME NEW condition, NEW block, NEW x \in If(condition, block)
      PROVE  condition /\ x = block
  BY <1>2 DEF If
<1>3. b \notin ZoneBlocks(c, S, o, h, t)
  BY ZoneWaits
<1>4. CASE b \in DeviceBlocks(c, d)
  BY <1>4
<1>5. b \notin If(GateClosed(c, g, t), Block("global_disabled", "FAIL"))
  BY DEF If
<1>6. CASE InDnd(c, u)
  BY <1>6 DEF Blockers, TimeBlocks, DndBlocks, If
<1>7. CASE b \in DndBlocks(c, t) /\ ~InDnd(c, u)
  <2>1. CASE c.dnd.on /\ ~DndValid(c)
    BY <2>1 DEF Blockers, TimeBlocks, DndBlocks, If
  <2>2. CASE ~(c.dnd.on /\ ~DndValid(c))
    <3>1. InDnd(c, t) /\ ~(DndRelease(c, t) < c.deadline)
      BY <1>7, <2>2 DEF DndBlocks, If, BlockUntil
    <3>2. PICK z \in Int : z = DndRelease(c, t) /\ \A v \in t..z - 1 : InDnd(c, v)
      BY <1>1, <3>1, DndReleaseFacts
    <3> QED
      BY <1>1, <1>7, <3>1, <3>2
  <2> QED
    BY <2>1, <2>2
<1>8. CASE /\ c.window # 0 /\ ~InDnd(c, u)
           /\ b \in TooShort(c, "insufficient_time_window", c.window, t)
  <2>1. TooShort(c, "insufficient_time_window", c.window, u) # {}
    BY <1>1, <1>8, TooShortStays DEF IsConfig
  <2> QED
    BY <1>8, <2>1 DEF Blockers, TimeBlocks
<1>9. CASE /\ c.time # Never /\ ~InDnd(c, u)
           /\ b \in TooShort(c, "forecast_time_insufficient", c.time, t)
  <2>1. TooShort(c, "forecast_time_insufficient", c.time, u) # {}
    BY <1>1, <1>9, TooShortStays DEF IsConfig
  <2> QED
    BY <1>9, <2>1 DEF Blockers, TimeBlocks
<1>10. \/ b \in DeviceBlocks(c, d) \/ b \in DndBlocks(c, t)
       \/ c.window # 0 /\ b \in TooShort(c, "insufficient_time_window", c.window, t)
       \/ c.time # Never /\ b \in TooShort(c, "forecast_time_insufficient", c.time, t)
  BY <1>3, <1>5, Zenon DEF Blockers, TimeBlocks
<1> QED
  BY <1>4, <1>6, <1>7, <1>8, <1>9, <1>10

\* preflight.py: without a blocker the time that is asked for is there.
LEMMA PassFits ==
  ASSUME NEW c, IsConfig(c), NEW g, NEW d, NEW S, NEW o, NEW h, NEW t \in Int,
         Blockers(c, g, d, S, o, h, t) = {}, NEW need \in {c.window, c.time}, NEW u \in t..t + need - 1
  PROVE  ~InDnd(c, u) /\ u < c.deadline
<1>1. c.deadline \in Int /\ need \in Int /\ u \in Int /\ t <= u /\ u < t + need
  BY DEF IsConfig
<1>2. TimeBlocks(c, t) = {}
  BY UnreadBlocks DEF Blockers
<1>3. ~InDnd(c, t)
  BY <1>2 DEF TimeBlocks, DndBlocks, If
<1>4. need > 0
  BY <1>1
<1>5. PICK at \in Int : /\ at = Cutoff(c, t).at /\ at <= c.deadline
                        /\ \A v \in t..at - 1 : ~InDnd(c, v)
  BY <1>3, CutoffFacts
<1>6. ~(at - t < need)
  <2>1. CASE need = c.window
    <3>1. TooShort(c, "insufficient_time_window", c.window, t) = {}
      BY <1>2, <1>3, <1>4, <2>1 DEF TimeBlocks
    <3> QED
      BY <1>5, <2>1, <3>1 DEF TooShort, If
  <2>2. CASE need = c.time
    <3>1. TooShort(c, "forecast_time_insufficient", c.time, t) = {}
      BY <1>2, <1>4, <2>2 DEF TimeBlocks, Never
    <3> QED
      BY <1>5, <2>2, <3>1 DEF TooShort, If
  <2> QED
    BY <2>1, <2>2
<1> QED
  BY <1>1, <1>5, <1>6

-----------------------------------------------------------------------------
(* The age of an input *)

LEMMA Settings ==
  ASSUME NEW c \in Configs
  PROVE  IsConfig(c) /\ IsWired(c)
<1>1. c.dnd \in [on : BOOLEAN, from : 0..DayLength - 1, to : 0..DayLength - 1]
  BY ConfigAssumption
<1>2. c.dnd.on \in BOOLEAN /\ c.dnd.from \in 0..DayLength - 1 /\ c.dnd.to \in 0..DayLength - 1
  BY <1>1
<1>3. /\ c.warning \in Int /\ c.planned \in Int /\ c.deadline \in Int
      /\ c.window \in Nat /\ c.clear \in Nat /\ c.settle \in Nat /\ c.time \in Nat \cup {Never}
  BY ConfigAssumption
<1>4. c.time \in Int /\ c.time >= -1
  BY <1>3 DEF Never
<1>5. /\ c.busy \subseteq Sensors /\ c.paths \subseteq SUBSET Sensors
      /\ c.groups \subseteq SUBSET Conditions
      /\ \A k \in Conditions :
           /\ c.conds[k].people \subseteq Sensors
           /\ c.conds[k].minimum \in Nat \ {0} /\ c.conds[k].dwell \in Nat
  BY ConfigAssumption
<1>6. \A k \in Conditions :
           /\ c.conds[k].people \subseteq Sensors
           /\ c.conds[k].minimum \in Nat /\ c.conds[k].minimum >= 1
           /\ c.conds[k].dwell \in Int
  BY <1>5
<1> QED
  BY <1>2, <1>3, <1>4, <1>5, <1>6 DEF IsConfig, IsWired

LEMMA LeastOf ==
  ASSUME NEW S, S \subseteq Nat, S # {}
  PROVE  Min(S) \in S /\ \A x \in S : Min(S) <= x
<1>1. IsWellFoundedOn(OpToRel(<, Nat), Nat)
  BY NatLessThanWellFounded
<1>2. PICK x \in S : \A y \in S : <<y, x>> \notin OpToRel(<, Nat)
  BY <1>1, WFMin
<1>3. \A y \in S : x <= y
  <2> TAKE y \in S
  <2>1. ~(y < x)
    BY <1>2 DEF OpToRel
  <2> QED
    BY <2>1
<1> QED
  BY <1>3 DEF Min

LEMMA GreatestOf ==
  ASSUME NEW n \in Nat, NEW S, S \subseteq 0..n, S # {}
  PROVE  Max(S) \in S /\ \A x \in S : x <= Max(S)
<1> DEFINE R == {n - x : x \in S}
<1>1. R \subseteq Nat /\ R # {}
  <2>1. \A x \in S : n - x \in Nat
    OBVIOUS
  <2>2. PICK x \in S : TRUE
    OBVIOUS
  <2>3. n - x \in R
    OBVIOUS
  <2> QED
    BY <2>1, <2>3
<1> HIDE DEF R
<1>2. PICK r \in R : \A q \in R : r <= q
  BY <1>1, LeastOf
<1>3. PICK x \in S : r = n - x
  BY <1>2 DEF R
<1>4. \A y \in S : y <= x
  <2> TAKE y \in S
  <2>1. n - y \in R
    BY DEF R
  <2> QED
    BY <2>1, <1>2, <1>3
<1> QED
  BY <1>4 DEF Max

\* An empty condition does not exist: whoever is away can be counted.
LEMMA AwayFinite ==
  ASSUME NEW c, IsWired(c), NEW k \in Conditions, NEW S, NEW T, T \subseteq Away(c, k, S)
  PROVE  /\ Away(c, k, S) \subseteq Sensors
         /\ IsFiniteSet(T) /\ Cardinality(T) \in Nat
         /\ \A U : U \subseteq T => Cardinality(U) \in Nat /\ Cardinality(U) <= Cardinality(T)
<1>1. Away(c, k, S) \subseteq Sensors
  BY DEF Away, IsWired
<1>2. IsFiniteSet(T)
  BY <1>1, InputsAssumption, FS_Subset
<1>3. ASSUME NEW U, U \subseteq T
      PROVE  Cardinality(U) \in Nat /\ Cardinality(U) <= Cardinality(T)
  BY <1>2, <1>3, FS_Subset, FS_CardinalityType
<1> QED
  BY <1>1, <1>2, <1>3, FS_CardinalityType

LEMMA Conditional ==
  ASSUME NEW k \in Conditions
  PROVE  k \notin ZoneKinds /\ k # "occupancy" /\ k # "access" /\ k \in Kinds
BY InputsAssumption DEF ZoneKinds, Kinds

\* input_provider.py, force_conditions.py: a hold that begins with what the
\* sensors say does not begin before its input was good.
LEMMA SeedFacts ==
  ASSUME NEW c, IsWired(c), NEW k \in Kinds, NEW n \in Nat, NEW S, Known(S, n),
         NEW g \in Int, Good(c, k, S), Young(c, k, S, g), k \in Conditions \/ Delay(c, k) # 0
  PROVE  Seed(c, k, S) \in 0..n /\ g <= Seed(c, k, S)
<1>1. CASE k = "occupancy"
  <2>1. c.busy # {} /\ c.busy \subseteq Sensors
    BY <1>1, Conditional DEF Delay, IsWired
  <2>2. PICK T : T = {S[s].since : s \in c.busy}
    OBVIOUS
  <2>3. T \subseteq 0..n /\ T # {}
    BY <2>1, <2>2 DEF Known
  <2>4. Max(T) \in 0..n /\ \A x \in T : x <= Max(T)
    BY <2>3, GreatestOf
  <2>5. PICK s \in c.busy : S[s].since >= g
    BY <1>1, <2>1 DEF Young
  <2>6. S[s].since \in T
    BY <2>2, <2>5
  <2>7. Seed(c, k, S) = Max(T)
    BY <1>1, <2>2 DEF Seed
  <2> QED
    BY <2>3, <2>4, <2>5, <2>6, <2>7
<1>2. CASE k = "access"
  <2>1. c.paths # {} /\ c.paths \subseteq SUBSET Sensors
    BY <1>2, Conditional DEF Delay, IsWired
  <2>2. OpenPaths(c, S) # {}
    BY <1>2, <2>1 DEF Good
  <2>3. ASSUME NEW p \in OpenPaths(c, S)
        PROVE  Max({S[s].since : s \in p}) \in 0..n /\ g <= Max({S[s].since : s \in p})
    <3>1. p \subseteq Sensors /\ p # {}
      BY <2>1 DEF OpenPaths
    <3>2. PICK T : T = {S[s].since : s \in p}
      OBVIOUS
    <3>3. T \subseteq 0..n /\ T # {}
      BY <3>1, <3>2 DEF Known
    <3>4. Max(T) \in 0..n /\ \A x \in T : x <= Max(T)
      BY <3>3, GreatestOf
    <3>5. PICK s \in p : S[s].since >= g
      BY <1>2 DEF Young
    <3>6. S[s].since \in T
      BY <3>2, <3>5
    <3>7. g <= Max(T)
      BY <3>3, <3>4, <3>5, <3>6
    <3> QED
      BY <3>2, <3>4, <3>7
  <2>4. PICK M : M = {Max({S[s].since : s \in p}) : p \in OpenPaths(c, S)}
    OBVIOUS
  <2>5. M # {} /\ M \subseteq 0..n /\ \A x \in M : g <= x
    BY <2>2, <2>3, <2>4
  <2>6. Min(M) \in M
    <3>1. M \subseteq Nat
      BY <2>5
    <3> QED
      BY <2>5, <3>1, LeastOf
  <2>7. Seed(c, k, S) = Min(M)
    BY <1>2, <2>4 DEF Seed
  <2> QED
    BY <2>5, <2>6, <2>7
<1>3. CASE k \in Conditions
  <2>1. PICK m : m = c.conds[k].minimum
    OBVIOUS
  <2>2. PICK A : A = Away(c, k, S)
    OBVIOUS
  <2>3. m \in Nat /\ m >= 1
    BY <1>3, <2>1 DEF IsWired
  <2>4. A \subseteq Sensors /\ IsFiniteSet(A) /\ Cardinality(A) \in Nat
    BY <1>3, <2>2, AwayFinite
  <2>5. Cardinality(A) >= m /\ Cardinality({s \in A : S[s].since < g}) < m
    BY <1>3, <2>1, <2>2, Conditional DEF Good, Young
  <2>6. A # {}
    BY <2>3, <2>5, FS_EmptySet
  <2> DEFINE Upto(a) == {b \in A : S[b].since <= S[a].since}
  <2>7. PICK E : E = {a \in A : Cardinality(Upto(a)) >= m}
    OBVIOUS
  <2>8. E # {}
    <3>1. PICK T : T = {S[s].since : s \in A}
      OBVIOUS
    <3>2. T \subseteq 0..n /\ T # {}
      BY <2>4, <2>6, <3>1 DEF Known
    <3>3. Max(T) \in T /\ \A x \in T : x <= Max(T)
      BY <3>2, GreatestOf
    <3>4. PICK a \in A : S[a].since = Max(T)
      BY <3>1, <3>3
    <3>5. Upto(a) = A
      BY <3>1, <3>3, <3>4
    <3> QED
      BY <2>5, <2>7, <3>4, <3>5
  <2>9. ASSUME NEW a \in E PROVE S[a].since \in 0..n /\ g <= S[a].since
    <3>1. a \in A /\ Cardinality(Upto(a)) >= m /\ S[a].since \in 0..n
      BY <2>4, <2>7 DEF Known
    <3>2. SUFFICES ASSUME S[a].since < g PROVE FALSE
      BY <3>1
    <3>3. Upto(a) \subseteq {s \in A : S[s].since < g}
      BY <2>4, <3>1, <3>2 DEF Known
    <3>4. PICK B : B = {s \in A : S[s].since < g}
      OBVIOUS
    <3>5. /\ Cardinality(Upto(a)) \in Nat /\ Cardinality(B) \in Nat
          /\ Cardinality(Upto(a)) <= Cardinality(B)
      BY <1>3, <2>2, <3>3, <3>4, AwayFinite
    <3> QED
      BY <2>3, <2>5, <3>1, <3>4, <3>5
  <2>10. PICK T : T = {S[s].since : s \in E}
    OBVIOUS
  <2>11. T # {} /\ T \subseteq 0..n /\ T \subseteq Nat /\ \A x \in T : g <= x
    BY <2>8, <2>9, <2>10
  <2>12. Min(T) \in T
    BY <2>11, LeastOf
  <2>13. Seed(c, k, S) = Min(T)
    BY <1>3, <2>1, <2>2, <2>7, <2>10, Conditional DEF Seed
  <2> QED
    BY <2>11, <2>12, <2>13
<1> QED
  BY <1>1, <1>2, <1>3 DEF Kinds, ZoneKinds

-----------------------------------------------------------------------------
(* A sensor changes *)

\* What a change of one sensor leaves of the age of an input.
LEMMA SenseDates ==
  ASSUME NEW c, IsWired(c), NEW n \in Nat, NEW S, Known(S, n), NEW s \in Sensors, NEW R,
         R[s].st # S[s].st, R[s].since = n, \A r \in Sensors : r # s => R[r] = S[r],
         NEW k \in Kinds, NEW g, Dated(c, k, S, g, n),
         NEW h, h = IF ~Good(c, k, R) THEN Never ELSE IF g = Never THEN n ELSE g
  PROVE  Dated(c, k, R, h, n)
<1>1. /\ R[s].st # S[s].st /\ R[s].since = n
      /\ \A r \in Sensors : r # s => R[r] = S[r]
      /\ \A r \in Sensors : R[r].since \in 0..n /\ S[r].since \in 0..n
  BY DEF Known
<1>2. CASE ~Good(c, k, R)
  BY <1>2 DEF Dated, Never
<1>3. CASE Good(c, k, R)
  <2>1. h \in Int /\ h # Never /\ h \in Never..n /\ (h = n \/ (h = g /\ Good(c, k, S)))
    BY <1>3 DEF Dated, Never
  <2>2. Young(c, k, R, h)
    <3>1. CASE k = "occupancy"
      <4>1. SUFFICES ASSUME c.busy # {} PROVE \E r \in c.busy : R[r].since >= h
        BY <3>1 DEF Young
      <4>2. c.busy \subseteq Sensors /\ \A r \in c.busy : R[r].st = "good"
        BY <1>3, <3>1 DEF IsWired, Good
      <4>3. CASE s \in c.busy
        BY <1>1, <2>1, <4>3
      <4>4. CASE s \notin c.busy
        <5>1. \A r \in c.busy : R[r] = S[r]
          BY <1>1, <4>2, <4>4
        <5>2. Good(c, k, S)
          BY <3>1, <4>2, <5>1 DEF Good
        <5>3. h = g
          BY <1>3, <5>2 DEF Dated
        <5>4. PICK r \in c.busy : S[r].since >= g
          BY <3>1, <4>1, <5>2 DEF Dated, Young
        <5> QED
          BY <5>1, <5>3, <5>4
      <4> QED
        BY <4>3, <4>4
    <3>2. CASE k = "access"
      <4>1. SUFFICES ASSUME NEW p \in OpenPaths(c, R) PROVE \E r \in p : R[r].since >= h
        BY <3>2 DEF Young
      <4>2. p \in c.paths /\ p # {} /\ p \subseteq Sensors /\ \A r \in p : R[r].st = "good"
        BY DEF OpenPaths, IsWired
      <4>3. CASE s \in p
        BY <1>1, <2>1, <4>3
      <4>4. CASE s \notin p
        <5>1. \A r \in p : R[r] = S[r]
          BY <1>1, <4>2, <4>4
        <5>2. p \in OpenPaths(c, S)
          BY <4>2, <5>1 DEF OpenPaths
        <5>3. Good(c, k, S)
          BY <3>2, <5>2 DEF Good
        <5>4. h = g
          BY <1>3, <5>3 DEF Dated
        <5>5. PICK r \in p : S[r].since >= g
          BY <3>2, <5>2, <5>3 DEF Dated, Young
        <5> QED
          BY <5>1, <5>4, <5>5
      <4> QED
        BY <4>3, <4>4
    <3>3. CASE k \in Conditions
      <4>1. PICK m : m = c.conds[k].minimum
        OBVIOUS
      <4>2. m \in Nat /\ m >= 1 /\ c.conds[k].people \subseteq Sensors
        BY <3>3, <4>1 DEF IsWired
      <4>3. PICK A : A = Away(c, k, S)
        OBVIOUS
      <4>4. PICK B : B = {r \in Away(c, k, R) : R[r].since < h}
        OBVIOUS
      <4>5. B \subseteq A /\ \A r \in B : r # s
        <5> SUFFICES ASSUME NEW r \in B PROVE r \in A /\ r # s
          OBVIOUS
        <5>1. r \in c.conds[k].people /\ r \in Sensors /\ R[r].st = "good" /\ R[r].since < h
          BY <4>2, <4>4 DEF Away
        <5>2. r # s
          BY <1>1, <2>1, <5>1
        <5> QED
          BY <1>1, <4>3, <5>1, <5>2 DEF Away
      <4>6. A \subseteq Sensors /\ Cardinality(A) \in Nat
        BY <3>3, <4>3, AwayFinite
      <4>7. CASE ~Good(c, k, S)
        <5>1. ~(Cardinality(A) >= m)
          BY <3>3, <4>1, <4>3, <4>7, Conditional DEF Good
        <5>2. Cardinality(B) \in Nat /\ Cardinality(B) <= Cardinality(A)
          BY <3>3, <4>3, <4>5, AwayFinite
        <5>3. Cardinality(B) < m
          BY <4>2, <4>6, <5>1, <5>2
        <5> QED
          BY <3>3, <4>1, <4>4, <5>3, Conditional DEF Young
      <4>8. CASE Good(c, k, S)
        <5>1. h = g
          BY <1>3, <4>8 DEF Dated
        <5>2. PICK D : D = {r \in A : S[r].since < g}
          OBVIOUS
        <5>3. Cardinality(D) < m
          BY <3>3, <4>1, <4>3, <4>8, <5>2, Conditional DEF Dated, Young
        <5>4. B \subseteq D
          <6> SUFFICES ASSUME NEW r \in B PROVE r \in D
            OBVIOUS
          <6>1. r \in A /\ r # s /\ r \in Sensors /\ R[r].since < h
            BY <4>4, <4>5, <4>6
          <6> QED
            BY <1>1, <5>1, <5>2, <6>1
        <5>5. D \subseteq A
          BY <5>2
        <5>6. /\ Cardinality(D) \in Nat /\ Cardinality(B) \in Nat
              /\ Cardinality(B) <= Cardinality(D)
          BY <3>3, <4>3, <5>4, <5>5, AwayFinite
        <5>7. Cardinality(B) < m
          BY <4>2, <5>3, <5>6
        <5> QED
          BY <3>3, <4>1, <4>4, <5>7, Conditional DEF Young
      <4> QED
        BY <4>7, <4>8
    <3> QED
      BY <3>1, <3>2, <3>3 DEF Kinds, ZoneKinds
  <2> QED
    BY <1>3, <2>1, <2>2 DEF Dated
<1> QED
  BY <1>2, <1>3

\* When time passes nothing else changes.
LEMMA Later ==
  ASSUME NEW n \in Nat, NEW m \in Nat, n <= m, NEW S, Known(S, n)
  PROVE  /\ Known(S, m)
         /\ \A c, k, g : Dated(c, k, S, g, n) => Dated(c, k, S, g, m)
<1>1. Known(S, m)
  <2>1. \A s \in Sensors : S[s].since \in 0..n
    BY DEF Known
  <2>2. \A s \in Sensors : S[s].since \in 0..m
    BY <2>1
  <2> QED
    BY <2>2 DEF Known
<1>2. \A g : g \in Never..n => g \in Never..m
  BY DEF Never
<1> QED
  BY <1>1, <1>2 DEF Dated

-----------------------------------------------------------------------------
(* A snapshot *)

\* input_provider.py: a hold after a snapshot is the one before, or lent by an
\* override, or no older than the good state of its input.
LEMMA Snaps ==
  ASSUME IInv, NEW k \in ZoneKinds, NEW o, NEW h \in {held[k], Never},
         NEW x, x = Stabilize(config, k, sensor, o, h, now)
  PROVE  /\ x \in Int
         /\ x # Never =>
              /\ Delay(config, k) # 0 /\ IsGood(config, k, sensor, o)
              /\ \/ h # Never /\ x = held[k]
                 \/ h = Never /\ k = "occupancy" /\ o = "free"
                 \/ goodSince[k] # Never /\ goodSince[k] <= x
         /\ x = Never => Delay(config, k) = 0 \/ ~IsGood(config, k, sensor, o)
<1>1. /\ now \in Nat /\ config \in Configs /\ Known(sensor, now) /\ IsWired(config)
      /\ k \in Kinds /\ held[k] \in Int /\ Dated(config, k, sensor, goodSince[k], now)
  BY Settings DEF IInv, Typed, Histories, Holds, Kinds
<1>2. CASE Delay(config, k) = 0 \/ ~IsGood(config, k, sensor, o)
  <2>1. x = Never
    BY <1>2 DEF Stabilize
  <2> QED
    BY <1>2, <2>1 DEF Never
<1>3. CASE ~(Delay(config, k) = 0 \/ ~IsGood(config, k, sensor, o))
  <2>1. x = IF h # Never THEN h ELSE IF k = "occupancy" /\ o # "none" THEN now ELSE Seed(config, k, sensor)
    BY <1>3 DEF Stabilize
  <2>2. CASE h # Never
    BY <1>1, <1>3, <2>1, <2>2
  <2>3. CASE h = Never /\ k = "occupancy" /\ o # "none"
    <3>1. o = "free"
      BY <1>3, <2>3 DEF IsGood, Occupied
    <3> QED
      BY <1>1, <1>3, <2>1, <2>3, <3>1 DEF Never
  <2>4. CASE h = Never /\ ~(k = "occupancy" /\ o # "none")
    <3>1. Good(config, k, sensor)
      <4>1. CASE k = "occupancy"
        BY <1>3, <2>4, <4>1 DEF IsGood, Occupied
      <4>2. CASE k # "occupancy"
        BY <1>3, <4>2 DEF IsGood
      <4> QED
        BY <4>1, <4>2
    <3>2. goodSince[k] # Never /\ goodSince[k] \in Int /\ Young(config, k, sensor, goodSince[k])
      BY <1>1, <3>1 DEF Dated, Never
    <3>3. Seed(config, k, sensor) \in 0..now /\ goodSince[k] <= Seed(config, k, sensor)
      BY <1>1, <1>3, <3>1, <3>2, SeedFacts
    <3>4. x = Seed(config, k, sensor)
      BY <2>1, <2>4
    <3> QED
      BY <1>1, <1>3, <3>2, <3>3, <3>4 DEF Never
  <2> QED
    BY <2>2, <2>3, <2>4
<1> QED
  BY <1>2, <1>3

\* force_conditions.py: the same of a condition.
LEMMA Dwells ==
  ASSUME IInv, NEW k \in Conditions, NEW h, NEW x, x = Dwelt(h)[k]
  PROVE  /\ x \in Int
         /\ x # Never =>
              \/ x = held[k]
              \/ goodSince[k] # Never /\ goodSince[k] <= x
<1>1. /\ now \in Nat /\ config \in Configs /\ Known(sensor, now) /\ IsWired(config)
      /\ k \in Kinds /\ held[k] \in Int /\ Dated(config, k, sensor, goodSince[k], now)
  BY Settings DEF IInv, Typed, Histories, Holds, Kinds
<1>2. x = IF config.advance > 0 /\ now >= ForceOpens(config) /\ job.state = "PLANNED"
          THEN IF Good(config, k, sensor)
               THEN IF held[k] # Never THEN held[k] ELSE Seed(config, k, sensor)
               ELSE Never
          ELSE Never
  BY <1>1, Conditional DEF Dwelt
<1>3. CASE x = Seed(config, k, sensor) /\ Good(config, k, sensor)
  <2>1. goodSince[k] # Never /\ goodSince[k] \in Int /\ Young(config, k, sensor, goodSince[k])
    BY <1>1, <1>3 DEF Dated, Never
  <2>2. Seed(config, k, sensor) \in 0..now /\ goodSince[k] <= Seed(config, k, sensor)
    BY <1>1, <1>3, <2>1, SeedFacts
  <2> QED
    BY <1>3, <2>1, <2>2
<1>4. x = Never \/ x = held[k] \/ (x = Seed(config, k, sensor) /\ Good(config, k, sensor))
  BY <1>2
<1> QED
  BY <1>1, <1>3, <1>4 DEF Never

-----------------------------------------------------------------------------
(* Every step keeps the invariant *)

LEMMA StillKeeps ==
  ASSUME IInv, now' \in Nat, now <= now', job' \in JobRecord,
         UNCHANGED <<config, sensor, held, goodSince, blind, lent>>
  PROVE  IInv'
<1>1. Typed'
  BY Later DEF IInv, Typed
<1>2. Histories'
  <2>1. now \in Nat /\ Known(sensor, now)
    BY DEF IInv, Typed
  <2> SUFFICES ASSUME NEW k \in Kinds PROVE Dated(config, k, sensor, goodSince[k], now')
    BY DEF Histories
  <2>2. Dated(config, k, sensor, goodSince[k], now)
    BY DEF IInv, Histories
  <2> QED
    BY <2>1, <2>2, Later
<1>3. Holds'
  BY DEF IInv, Holds, HoldSound
<1> QED
  BY <1>1, <1>2, <1>3 DEF IInv

\* A step that changes holds only.
LEMMA HoldsKeep ==
  ASSUME IInv, UNCHANGED <<now, config, sensor, goodSince>>, job' \in JobRecord,
         \A k \in Kinds : held'[k] \in Int /\ HoldSound(k)'
  PROVE  IInv'
<1>1. Typed'
  BY DEF IInv, Typed
<1>2. Histories'
  BY DEF IInv, Histories
<1>3. Holds'
  BY DEF Holds
<1> QED
  BY <1>1, <1>2, <1>3 DEF IInv

LEMMA NotYet ==
  ASSUME job \in JobRecord, Active,
         NEW s \in {"PLANNED", "WAIT", "STARTED", "FAILED", "SUPPRESSED"}, NEW i \in BOOLEAN
  PROVE  /\ ~job.early
         /\ [job EXCEPT !.state = s] \in JobRecord
         /\ [job EXCEPT !.indexed = i, !.state = s] \in JobRecord
         /\ [job EXCEPT !.state = s, !.indexed = i] \in JobRecord
         /\ [job EXCEPT !.indexed = i, !.state = s].state = s
         /\ [job EXCEPT !.indexed = i, !.state = s].early = job.early
<1>1. job.state # "STARTED"
  BY DEF Active
<1>2. job \in JobFields /\ ~job.early
  BY <1>1 DEF JobRecord
<1> QED
  BY <1>2 DEF JobRecord, JobFields

LEMMA SenseKeeps ==
  ASSUME IInv, NEW s \in Sensors, NEW st, Sense(s, st)
  PROVE  IInv'
<1>1. /\ now \in Nat /\ config \in Configs /\ IsWired(config) /\ Known(sensor, now)
      /\ \A k \in Kinds : Dated(config, k, sensor, goodSince[k], now)
  BY Settings DEF IInv, Typed, Histories
<1>2. /\ UNCHANGED <<now, config, held, job, lent>>
      /\ sensor[s].st # st /\ sensor' = [sensor EXCEPT ![s] = [st |-> st, since |-> now]]
  BY DEF Sense, options
<1>3. \A k \in Kinds :
        goodSince'[k] = IF ~Good(config, k, sensor') THEN Never
                        ELSE IF goodSince[k] = Never THEN now ELSE goodSince[k]
  BY DEF Sense
<1>4. \A k \in Kinds : blind'[k] <=> (blind[k] \/ (held[k] # Never /\ ~Good(config, k, sensor')))
  BY Zenon DEF Sense
<1>5. Histories'
  <2> SUFFICES ASSUME NEW k \in Kinds PROVE Dated(config, k, sensor', goodSince'[k], now)
    BY <1>2 DEF Histories
  <2>1. PICK R : R = sensor'
    OBVIOUS
  <2>2. PICK g : g = goodSince[k]
    OBVIOUS
  <2>3. PICK h : h = goodSince'[k]
    OBVIOUS
  <2>4. h = IF ~Good(config, k, R) THEN Never ELSE IF g = Never THEN now ELSE g
    BY <1>3, <2>1, <2>2, <2>3
  <2>5. /\ Dated(config, k, sensor, g, now) /\ R[s].st # sensor[s].st /\ R[s].since = now
        /\ \A r \in Sensors : r # s => R[r] = sensor[r]
    BY <1>1, <1>2, <2>1, <2>2 DEF Known
  <2>6. Dated(config, k, R, h, now)
    BY <1>1, <2>4, <2>5, SenseDates
  <2> QED
    BY <2>1, <2>3, <2>6
<1>6. Typed'
  <2>1. Known(sensor', now)
    <3>1. \A r \in Sensors : sensor'[r].since \in 0..now
      BY <1>1, <1>2 DEF Known
    <3>2. sensor' = [r \in Sensors |-> sensor'[r]]
      BY <1>1, <1>2 DEF Known
    <3> QED
      BY <3>1, <3>2 DEF Known
  <2> QED
    BY <1>1, <1>2, <2>1 DEF IInv, Typed
<1>7. ASSUME NEW k \in Kinds PROVE HoldSound(k)'
  <2>1. SUFFICES ASSUME held[k] # Never, ~blind'[k], ~(k = "occupancy" /\ lent)
                 PROVE  goodSince'[k] # Never /\ goodSince'[k] <= held[k]
    BY <1>2, Zenon DEF HoldSound
  <2>2. Good(config, k, sensor') /\ ~blind[k]
    BY <1>4, <2>1, Zenon
  <2>3. goodSince[k] # Never /\ goodSince[k] <= held[k]
    BY <2>1, <2>2, Zenon DEF IInv, Holds, HoldSound
  <2> QED
    BY <1>3, <2>2, <2>3
<1>8. Holds'
  BY <1>2, <1>7 DEF IInv, Holds
<1> QED
  BY <1>5, <1>6, <1>8 DEF IInv

LEMMA ZoneHold ==
  ASSUME IInv, NEW k \in ZoneKinds, NEW o, NEW h \in {held[k], Never},
         held'[k] = Stabilize(config, k, sensor, o, h, now), goodSince' = goodSince,
         h # Never /\ IsGood(config, k, sensor, o) /\ blind[k] => blind'[k],
         k = "occupancy" /\ held'[k] # Never /\ h # Never /\ lent => lent',
         k = "occupancy" /\ held'[k] # Never /\ h = Never /\ o = "free" => lent'
  PROVE  held'[k] \in Int /\ HoldSound(k)'
<1>1. PICK x : x = held'[k]
  OBVIOUS
<1>2. /\ x \in Int
      /\ x # Never =>
           /\ IsGood(config, k, sensor, o)
           /\ \/ h # Never /\ x = held[k]
              \/ h = Never /\ k = "occupancy" /\ o = "free"
              \/ goodSince[k] # Never /\ goodSince[k] <= x
  BY <1>1, Snaps
<1>3. held[k] # Never => \/ blind[k]
                         \/ k = "occupancy" /\ lent
                         \/ goodSince[k] # Never /\ goodSince[k] <= held[k]
  BY Zenon DEF IInv, Holds, HoldSound, Kinds
<1>4. x # Never => \/ blind'[k]
                   \/ k = "occupancy" /\ lent'
                   \/ goodSince[k] # Never /\ goodSince[k] <= x
  BY <1>1, <1>2, <1>3, Zenon
<1>5. HoldSound(k)'
  BY <1>1, <1>4, Zenon DEF HoldSound
<1> QED
  BY <1>1, <1>2, <1>5

\* A condition keeps its hold, or loses it.
LEMMA Kept ==
  ASSUME IInv, NEW k \in Conditions, held'[k] = held[k] \/ held'[k] = Never,
         goodSince' = goodSince, held'[k] # Never /\ blind[k] => blind'[k]
  PROVE  held'[k] \in Int /\ HoldSound(k)'
<1>1. k \in Kinds /\ k # "occupancy"
  BY Conditional
<1>2. held[k] \in Int
  BY <1>1 DEF IInv, Holds
<1>3. held'[k] \in Int
  BY <1>2 DEF Never
<1>4. held[k] # Never => blind[k] \/ (goodSince[k] # Never /\ goodSince[k] <= held[k])
  BY <1>1, Zenon DEF IInv, Holds, HoldSound
<1>5. HoldSound(k)'
  BY <1>4, Zenon DEF HoldSound
<1> QED
  BY <1>3, <1>5

LEMMA ZoneOrCondition ==
  ASSUME NEW k \in Kinds
  PROVE  \/ k \in ZoneKinds
         \/ k \in Conditions /\ k \notin ZoneKinds /\ k # "occupancy"
BY Conditional DEF Kinds

LEMMA LookKeeps ==
  ASSUME IInv, NEW allow, Look(allow)
  PROVE  IInv'
<1>1. PICK o : o = InMode(allow)
  OBVIOUS
<1>2. UNCHANGED <<now, config, sensor, goodSince, job>>
  BY DEF Look, options, hass
<1>3. /\ \A k \in Kinds : held'[k] = Snapped(o)[k]
      /\ \A k \in Kinds : blind'[k] <=> blind[k] /\ (k \notin ZoneKinds \/ IsGood(config, k, sensor, o))
      /\ lent' <=> (held'["occupancy"] # Never
                      /\ (lent \/ (held["occupancy"] = Never /\ o = "free")))
  BY <1>1, Zenon DEF Look, Snapshot, Observed
<1>4. ASSUME NEW k \in Kinds PROVE held'[k] \in Int /\ HoldSound(k)'
  <2>1. CASE k \in ZoneKinds
    <3>1. held'[k] = Stabilize(config, k, sensor, o, held[k], now)
      BY <1>3, <2>1 DEF Snapped
    <3>2. IsGood(config, k, sensor, o) /\ blind[k] => blind'[k]
      BY <1>3, Zenon
    <3>3. k = "occupancy" /\ held'[k] # Never /\ (lent \/ (held[k] = Never /\ o = "free")) => lent'
      BY <1>3, Zenon
    <3>4. goodSince' = goodSince
      BY <1>2
    <3> QED
      BY <2>1, <3>1, <3>2, <3>3, <3>4, ZoneHold, Zenon
  <2>2. CASE k \in Conditions /\ k \notin ZoneKinds /\ k # "occupancy"
    <3>1. held'[k] = held[k]
      BY <1>3, <2>2 DEF Snapped
    <3>2. blind[k] => blind'[k]
      BY <1>3, <2>2, Zenon
    <3>3. goodSince' = goodSince
      BY <1>2
    <3> QED
      BY <2>2, <3>1, <3>2, <3>3, Kept, Zenon
  <2> QED
    BY <2>1, <2>2, ZoneOrCondition
<1> QED
  BY <1>2, <1>4, HoldsKeep DEF IInv, Typed

\* reset_zone_stability forgets what was blind and lent.
LEMMA ResetKeeps ==
  ASSUME IInv, ResetAndSubscribe, UNCHANGED <<now, config, sensor, goodSince>>, job' \in JobRecord
  PROVE  IInv'
<1>1. /\ \A k \in Kinds : held'[k] = IF k \in ZoneKinds
                                     THEN Stabilize(config, k, sensor, override, Never, now)
                                     ELSE held[k]
      /\ \A k \in Kinds : blind'[k] <=> k \in Conditions /\ blind[k]
      /\ lent' <=> held'["occupancy"] # Never /\ override = "free"
  BY Zenon DEF ResetAndSubscribe
<1>2. ASSUME NEW k \in Kinds PROVE held'[k] \in Int /\ HoldSound(k)'
  <2>1. CASE k \in ZoneKinds
    <3>1. held'[k] = Stabilize(config, k, sensor, override, Never, now)
      BY <1>1, <2>1
    <3>2. k = "occupancy" /\ held'[k] # Never /\ override = "free" => lent'
      BY <1>1, Zenon
    <3>3. goodSince' = goodSince /\ Never \in {held[k], Never}
      OBVIOUS
    <3> QED
      BY <2>1, <3>1, <3>2, <3>3, ZoneHold, Zenon
  <2>2. CASE k \in Conditions /\ k \notin ZoneKinds /\ k # "occupancy"
    <3>1. held'[k] = held[k]
      BY <1>1, <2>2
    <3>2. blind[k] => blind'[k]
      BY <1>1, <2>2, Zenon
    <3>3. goodSince' = goodSince
      OBVIOUS
    <3> QED
      BY <2>2, <3>1, <3>2, <3>3, Kept, Zenon
  <2> QED
    BY <2>1, <2>2, ZoneOrCondition
<1> QED
  BY <1>2, HoldsKeep

LEMMA ReloadKeeps ==
  ASSUME IInv, Reload
  PROVE  IInv'
<1>1. UNCHANGED <<now, config, sensor, goodSince>> /\ job' = [job EXCEPT !.indexed = FALSE]
  BY DEF Reload, options, hass
<1>2. /\ \A k \in Kinds : held'[k] = IF k \in ZoneKinds
                                     THEN Stabilize(config, k, sensor, override, Never, now)
                                     ELSE Never
      /\ lent' <=> held'["occupancy"] # Never /\ override = "free"
  BY Zenon DEF Reload
<1>3. ASSUME NEW k \in Kinds PROVE held'[k] \in Int /\ HoldSound(k)'
  <2>1. CASE k \in ZoneKinds
    <3>1. held'[k] = Stabilize(config, k, sensor, override, Never, now)
      BY <1>2, <2>1
    <3>2. k = "occupancy" /\ held'[k] # Never /\ override = "free" => lent'
      BY <1>2, Zenon
    <3>3. goodSince' = goodSince /\ Never \in {held[k], Never}
      BY <1>1
    <3> QED
      BY <2>1, <3>1, <3>2, <3>3, ZoneHold, Zenon
  <2>2. CASE k \notin ZoneKinds
    <3>1. held'[k] = Never
      BY <1>2, <2>2
    <3> QED
      BY <3>1 DEF HoldSound, Never
  <2> QED
    BY <2>1, <2>2
<1>4. job' \in JobRecord
  BY <1>1 DEF IInv, Typed, JobRecord, JobFields
<1> QED
  BY <1>1, <1>3, <1>4, HoldsKeep

LEMMA ReportFacts ==
  ASSUME NEW h
  PROVE  /\ Verdict(Report(h)) \in {"PASS", "WAIT", "FAIL"}
         /\ Verdict(Report(h)) = "PASS" <=> Report(h) = {}
         /\ Verdict(Report(h)) = "FAIL" => \E b \in Report(h) : b.decision = "FAIL"
<1>1. \A b \in Report(h) : b.decision \in {"WAIT", "FAIL"}
  BY BlocksDecide DEF Report
<1> QED
  BY <1>1, VerdictFacts

\* scheduler_engine.py: what the authoritative check does to the occurrence.
LEMMA Authorised ==
  ASSUME IInv, Authorise, UNCHANGED <<now, options, hass, goodSince>>
  PROVE  /\ \A k \in ZoneKinds : held'[k] = Snapped(OwnMode)[k]
         /\ \A k \in Kinds : k \notin ZoneKinds => held'[k] = Never
         /\ job' \in JobRecord
         /\ job'.early = job.early
         /\ job'.state = "STARTED" => Report(held') = {}
         /\ job'.state = "FAILED" => \E b \in Report(held') : b.decision = "FAIL"
<1>1. PICK h : h = [k \in Kinds |-> IF k \in ZoneKinds THEN Snapped(OwnMode)[k] ELSE Never]
  OBVIOUS
<1>2. PICK v : v = Verdict(Report(h))
  OBVIOUS
<1>3. held' = h
  BY <1>1 DEF Authorise
<1>4. job' = [job EXCEPT !.indexed = TRUE,
                         !.state = CASE v = "PASS" -> "STARTED"
                                     [] v = "FAIL" -> "FAILED"
                                     [] v = "WAIT" -> "WAIT"]
  BY <1>1, <1>2 DEF Authorise
<1>5. /\ v \in {"PASS", "WAIT", "FAIL"}
      /\ v = "PASS" <=> Report(h) = {}
      /\ v = "FAIL" => \E b \in Report(h) : b.decision = "FAIL"
  BY <1>2, ReportFacts
<1>6. PICK s : s = CASE v = "PASS" -> "STARTED" [] v = "FAIL" -> "FAILED" [] v = "WAIT" -> "WAIT"
  OBVIOUS
<1>7. /\ s \in {"STARTED", "FAILED", "WAIT"}
      /\ s = "STARTED" => v = "PASS"
      /\ s = "FAILED" => v = "FAIL"
  BY <1>5, <1>6
<1>8. job' = [job EXCEPT !.indexed = TRUE, !.state = s]
  BY <1>4, <1>6
<1>9. job' \in JobRecord /\ job'.state = s /\ job'.early = job.early
  <2>1. job \in JobRecord /\ Active /\ TRUE \in BOOLEAN
    BY DEF IInv, Typed, Authorise
  <2>2. s \in {"PLANNED", "WAIT", "STARTED", "FAILED", "SUPPRESSED"}
    BY <1>7
  <2> QED
    BY <1>8, <2>1, <2>2, NotYet
<1>10. /\ \A k \in ZoneKinds : h[k] = Snapped(OwnMode)[k]
       /\ \A k \in Kinds : k \notin ZoneKinds => h[k] = Never
  BY <1>1 DEF Kinds
<1> QED
  BY <1>3, <1>5, <1>7, <1>9, <1>10

LEMMA AuthoriseKeeps ==
  ASSUME IInv, Authorise, UNCHANGED <<now, options, hass, goodSince>>
  PROVE  IInv'
<1>1. PICK o : o = OwnMode
  OBVIOUS
<1>2. /\ \A k \in ZoneKinds : held'[k] = Stabilize(config, k, sensor, o, held[k], now)
      /\ \A k \in Kinds : k \notin ZoneKinds => held'[k] = Never
      /\ job' \in JobRecord
  BY <1>1, Authorised DEF Snapped, Kinds
<1>3. /\ \A k \in Kinds : blind'[k] <=> blind[k] /\ (k \notin ZoneKinds \/ IsGood(config, k, sensor, o))
      /\ lent' <=> (held'["occupancy"] # Never
                      /\ (lent \/ (held["occupancy"] = Never /\ o = "free")))
  <2>1. PICK h : h = [k \in Kinds |-> IF k \in ZoneKinds THEN Snapped(OwnMode)[k] ELSE Never]
    OBVIOUS
  <2>2. held' = h /\ Observed(OwnMode, h)
    BY <2>1 DEF Authorise
  <2> QED
    BY <1>1, <2>2, Zenon DEF Observed
<1>4. ASSUME NEW k \in Kinds PROVE held'[k] \in Int /\ HoldSound(k)'
  <2>1. CASE k \in ZoneKinds
    <3>1. held'[k] = Stabilize(config, k, sensor, o, held[k], now)
      BY <1>2, <2>1
    <3>2. IsGood(config, k, sensor, o) /\ blind[k] => blind'[k]
      BY <1>3, Zenon
    <3>3. k = "occupancy" /\ held'[k] # Never /\ (lent \/ (held[k] = Never /\ o = "free")) => lent'
      BY <1>3, Zenon
    <3>4. goodSince' = goodSince
      OBVIOUS
    <3> QED
      BY <2>1, <3>1, <3>2, <3>3, <3>4, ZoneHold, Zenon
  <2>2. CASE k \notin ZoneKinds
    <3>1. held'[k] = Never
      BY <1>2, <2>2
    <3> QED
      BY <3>1 DEF HoldSound, Never
  <2> QED
    BY <2>1, <2>2
<1> QED
  BY <1>2, <1>4, HoldsKeep DEF options, hass

\* scheduler_engine.py: what a preview does; a start before the plan follows a
\* snapshot without a blocker, with the conditions of one group matured.
LEMMA Previewed ==
  ASSUME IInv, Preview, UNCHANGED <<now, options, hass, goodSince>>
  PROVE  \E snap \in BOOLEAN :
           /\ \A k \in ZoneKinds : held'[k] = IF snap THEN Snapped(OwnMode)[k] ELSE held[k]
           /\ \A k \in Conditions : \E h : held'[k] = Dwelt(h)[k]
           /\ \A k \in Kinds : blind'[k] <=>
                blind[k] /\ (IF k \in ZoneKinds THEN snap => IsGood(config, k, sensor, OwnMode)
                             ELSE held'[k] # Never)
           /\ lent' <=> (held'["occupancy"] # Never
                           /\ (lent \/ (held["occupancy"] = Never /\ OwnMode = "free")))
           /\ job' \in JobRecord
           /\ job'.state \in {"STARTED", job.state}
           /\ job'.state = "STARTED" /\ job.state # "STARTED" =>
                snap /\ Report(held') = {} /\ ConditionsMatched(config, held', now)
<1> DEFINE announced == job.announced \/ (job.state = "PLANNED" /\ now >= config.warning)
           previewed == announced /\ job.state = "PLANNED"
           dwelt == Dwelt(held)
           snap == previewed \/ EarlyRun(dwelt)
           h == IF snap THEN Dwelt(Snapped(OwnMode)) ELSE dwelt
           B == Report(h)
           early == EarlyRun(h) /\ Verdict(B) = "PASS" /\ ProtectionAllows(config, now)
<1>1. /\ held' = h
      /\ lent' = (h["occupancy"] # Never
                       /\ (lent \/ (held["occupancy"] = Never /\ OwnMode = "free")))
      /\ blind' = [k \in Kinds |-> blind[k] /\
                        (IF k \in ZoneKinds THEN snap => IsGood(config, k, sensor, OwnMode)
                         ELSE h[k] # Never)]
      /\ job' = [job EXCEPT !.announced = announced, !.indexed = @ \/ previewed,
                            !.state = IF early THEN "STARTED" ELSE @, !.early = early]
  BY Zenon DEF Preview
<1>2. early => snap /\ Report(h) = {} /\ ConditionsMatched(config, h, now)
  <2> HIDE DEF announced, previewed
  <2>1. SUFFICES ASSUME early PROVE snap /\ Report(h) = {} /\ ConditionsMatched(config, h, now)
    OBVIOUS
  <2>2. EarlyRun(h) /\ Verdict(Report(h)) = "PASS"
    BY <2>1, Zenon
  <2>3. snap
    <3>1. SUFFICES ASSUME ~snap PROVE FALSE
      OBVIOUS
    <3>2. h = dwelt
      BY <3>1, Zenon
    <3> QED
      BY <2>2, <3>1, <3>2, Zenon
  <2>4. PICK g : g = h
    OBVIOUS
  <2>5. Report(g) = {} /\ ConditionsMatched(config, g, now)
    BY <2>2, <2>4, ReportFacts, Zenon DEF EarlyRun
  <2> QED
    BY <2>3, <2>4, <2>5, Zenon
<1>3. snap \in BOOLEAN /\ early \in BOOLEAN /\ previewed \in BOOLEAN /\ announced \in BOOLEAN
  BY Zenon DEF IInv, Typed, JobRecord, JobFields, EarlyRun, ConditionsMatched, ProtectionAllows
<1>4. /\ \A k \in ZoneKinds : h[k] = IF snap THEN Snapped(OwnMode)[k] ELSE held[k]
      /\ \A k \in Conditions : \E g : h[k] = Dwelt(g)[k]
  <2> HIDE DEF snap
  <2>1. \A g : \A k \in ZoneKinds : Dwelt(g)[k] = g[k]
    BY DEF Dwelt, Kinds
  <2> QED
    BY <2>1
<1> HIDE DEF announced, previewed, dwelt, snap, h, B, early
<1>5. PICK a \in BOOLEAN, i \in BOOLEAN, e \in BOOLEAN :
        /\ job' = [job EXCEPT !.announced = a, !.indexed = i,
                              !.state = IF e THEN "STARTED" ELSE @, !.early = e]
        /\ e <=> early
  BY <1>1, <1>3 DEF IInv, Typed, JobRecord, JobFields
<1>6. /\ job' \in JobRecord
      /\ job'.state = IF e THEN "STARTED" ELSE job.state
  BY <1>5 DEF IInv, Typed, JobRecord, JobFields
<1> QED
  BY <1>1, <1>2, <1>3, <1>4, <1>5, <1>6

LEMMA PreviewKeeps ==
  ASSUME IInv, Preview, UNCHANGED <<now, options, hass, goodSince>>
  PROVE  IInv'
<1>1. PICK o : o = OwnMode
  OBVIOUS
<1>2. PICK snap \in BOOLEAN :
        /\ \A k \in ZoneKinds : held'[k] = IF snap THEN Snapped(o)[k] ELSE held[k]
        /\ \A k \in Conditions : \E h : held'[k] = Dwelt(h)[k]
        /\ \A k \in Kinds : blind'[k] <=>
             blind[k] /\ (IF k \in ZoneKinds THEN snap => IsGood(config, k, sensor, o)
                          ELSE held'[k] # Never)
        /\ lent' <=> (held'["occupancy"] # Never
                        /\ (lent \/ (held["occupancy"] = Never /\ o = "free")))
        /\ job' \in JobRecord
  BY <1>1, Previewed, Zenon
<1>3. ASSUME NEW k \in Kinds PROVE held'[k] \in Int /\ HoldSound(k)'
  <2>1. goodSince' = goodSince
    OBVIOUS
  <2>2. CASE k \in ZoneKinds /\ snap
    <3>1. held'[k] = Stabilize(config, k, sensor, o, held[k], now)
      BY <1>2, <2>2 DEF Snapped
    <3>2. IsGood(config, k, sensor, o) /\ blind[k] => blind'[k]
      BY <1>2, <2>2, Zenon
    <3>3. k = "occupancy" /\ held'[k] # Never /\ (lent \/ (held[k] = Never /\ o = "free")) => lent'
      BY <1>2, Zenon
    <3> QED
      BY <2>1, <2>2, <3>1, <3>2, <3>3, ZoneHold, Zenon
  <2>3. CASE k \in ZoneKinds /\ ~snap
    <3>1. held'[k] = held[k]
      BY <1>2, <2>3
    <3>2. blind[k] => blind'[k]
      BY <1>2, <2>3, Zenon
    <3>3. k = "occupancy" /\ held'[k] # Never /\ lent => lent'
      BY <1>2, Zenon
    <3>4. held[k] \in Int /\ HoldSound(k)
      BY DEF IInv, Holds
    <3>5. HoldSound(k)'
      BY <2>1, <3>1, <3>2, <3>3, <3>4, Zenon DEF HoldSound
    <3> QED
      BY <3>1, <3>4, <3>5
  <2>4. CASE k \in Conditions /\ k \notin ZoneKinds /\ k # "occupancy"
    <3>1. PICK h : held'[k] = Dwelt(h)[k]
      BY <1>2, <2>4
    <3>2. PICK x : x = Dwelt(h)[k]
      OBVIOUS
    <3>3. x \in Int /\ (x # Never => \/ x = held[k]
                                     \/ goodSince[k] # Never /\ goodSince[k] <= x)
      BY <2>4, <3>2, Dwells
    <3>4. held'[k] = x
      BY <3>1, <3>2
    <3>5. held'[k] # Never /\ blind[k] => blind'[k]
      BY <1>2, <2>4, Zenon
    <3>6. HoldSound(k)
      BY DEF IInv, Holds
    <3>7. HoldSound(k)'
      BY <2>1, <2>4, <3>3, <3>4, <3>5, <3>6, Zenon DEF HoldSound
    <3> QED
      BY <3>3, <3>4, <3>7
  <2> QED
    BY <2>2, <2>3, <2>4, ZoneOrCondition
<1> QED
  BY <1>2, <1>3, HoldsKeep DEF options, hass

LEMMA EnterKeeps ==
  ASSUME IInv, NEW t, Enter(t)
  PROVE  IInv'
<1>1. UNCHANGED <<now, options, hass, goodSince>>
  BY DEF Enter
<1>2. UNCHANGED <<config, sensor>> /\ now' = now /\ now \in Nat
  BY <1>1 DEF options, hass, IInv, Typed
<1>3. ASSUME NEW state \in {"SUPPRESSED", "FAILED"}, Finish(state), Active PROVE IInv'
  <2>1. job' \in JobRecord
    <3>1. job \in JobRecord /\ job' = [job EXCEPT !.state = state]
      BY <1>3 DEF Finish, IInv, Typed
    <3>2. TRUE \in BOOLEAN /\ state \in {"PLANNED", "WAIT", "STARTED", "FAILED", "SUPPRESSED"}
      BY <1>3
    <3> QED
      BY <1>3, <3>1, <3>2, NotYet
  <2>2. UNCHANGED <<held, blind, lent>>
    BY <1>3 DEF Finish
  <2> QED
    BY <1>1, <1>2, <2>1, <2>2, StillKeeps
<1>4. CASE Suppress
  BY <1>3, <1>4 DEF Suppress
<1>5. CASE Expire
  BY <1>3, <1>5 DEF Expire
<1>6. CASE Preview
  BY <1>1, <1>6, PreviewKeeps
<1>7. CASE Authorise
  BY <1>1, <1>7, AuthoriseKeeps
<1> QED
  BY <1>4, <1>5, <1>6, <1>7 DEF Enter

LEMMA InputsKeep ==
  ASSUME IInv, Inputs
  PROVE  IInv'
<1>1. ASSUME NEW s \in Sensors, NEW st, Sense(s, st) PROVE IInv'
  BY <1>1, SenseKeeps
<1>2. ASSUME NEW d, DeviceChanges(d) PROVE IInv'
  <2>1. UNCHANGED <<now, config, sensor, held, job, goodSince, blind, lent>>
    BY <1>2 DEF DeviceChanges, options
  <2> QED
    BY <2>1, StillKeeps DEF IInv, Typed
<1> QED
  BY <1>1, <1>2 DEF Inputs

LEMMA ReconcilingKeeps ==
  ASSUME IInv, Reconciling
  PROVE  IInv'
<1>1. CASE Debounced
  <2>1. UNCHANGED <<now, config, sensor, held, job, goodSince, blind, lent>>
    BY <1>1 DEF Debounced, options, hass
  <2> QED
    BY <2>1, StillKeeps DEF IInv, Typed
<1>2. CASE \E t \in timers : TimerDue(t)
  <2>1. UNCHANGED <<now, config, sensor, held, job, goodSince, blind, lent>>
    BY <1>2 DEF TimerDue, options, hass
  <2> QED
    BY <2>1, StillKeeps DEF IInv, Typed
<1>3. CASE \E t \in queue : Enter(t)
  BY <1>3, EnterKeeps
<1>4. CASE Release
  <2>1. UNCHANGED <<now, config, sensor, held, job, goodSince, blind, lent>>
    BY <1>4 DEF Release, options, hass
  <2> QED
    BY <2>1, StillKeeps DEF IInv, Typed
<1>5. CASE \E t \in tails : Arm(t)
  <2>1. UNCHANGED <<now, config, sensor, held, job, goodSince, blind, lent>>
    BY <1>5 DEF Arm, options, hass
  <2> QED
    BY <2>1, StillKeeps DEF IInv, Typed
<1> QED
  BY <1>1, <1>2, <1>3, <1>4, <1>5 DEF Reconciling

LEMMA OperatingKeeps ==
  ASSUME IInv, Operating
  PROVE  IInv'
<1>1. CASE \E allow \in BOOLEAN : Look(allow)
  BY <1>1, LookKeeps
<1>2. CASE Watchdog
  <2>1. UNCHANGED <<now, config, sensor, held, job, goodSince, blind, lent>>
    BY <1>2 DEF Watchdog, options, hass
  <2> QED
    BY <2>1, StillKeeps DEF IInv, Typed
<1>3. CASE GoReal
  <2>1. ResetAndSubscribe /\ UNCHANGED <<now, config, sensor, goodSince>>
    BY <1>3 DEF GoReal, hass
  <2>2. job' \in JobRecord
    <3>1. job \in JobRecord /\ Active /\ job' = [job EXCEPT !.state = "PLANNED", !.indexed = FALSE]
      BY <1>3 DEF GoReal, Operate, Open, IInv, Typed
    <3> QED
      BY <3>1, NotYet
  <2> QED
    BY <2>1, <2>2, ResetKeeps
<1>4. CASE Reload
  BY <1>4, ReloadKeeps
<1>5. ASSUME NEW o, SetOverride(o) PROVE IInv'
  <2>1. UNCHANGED <<now, config, sensor, held, job, goodSince, blind, lent>>
    BY <1>5 DEF SetOverride, hass
  <2> QED
    BY <2>1, StillKeeps DEF IInv, Typed
<1>6. ASSUME NEW g, SetGate(g) PROVE IInv'
  <2>1. ResetAndSubscribe /\ UNCHANGED <<now, config, sensor, goodSince, job>>
    BY <1>6 DEF SetGate, hass
  <2> QED
    BY <2>1, ResetKeeps DEF IInv, Typed
<1> QED
  BY <1>1, <1>2, <1>3, <1>4, <1>5, <1>6 DEF Operating

LEMMA TickKeeps ==
  ASSUME IInv, Tick
  PROVE  IInv'
<1>1. now' = now + 1 /\ UNCHANGED <<config, sensor, held, job, goodSince, blind, lent>>
  BY DEF Tick, options, hass
<1>2. now \in Nat /\ job \in JobRecord
  BY DEF IInv, Typed
<1> QED
  BY <1>1, <1>2, StillKeeps

LEMMA InitKeeps == Init => IInv
<1> SUFFICES ASSUME Init PROVE IInv
  OBVIOUS
<1>1. /\ now = 0 /\ config \in Configs /\ IsWired(config)
      /\ sensor \in [Sensors -> [st : {"good", "bad"}, since : {0}]]
      /\ held = [k \in Kinds |-> Never]
      /\ goodSince = [k \in Kinds |-> IF Good(config, k, sensor) THEN 0 ELSE Never]
  BY Settings DEF Init
<1>2. Typed
  <2>1. job \in JobRecord
    BY DEF Init, JobRecord, JobFields
  <2>2. \A s \in Sensors : sensor[s].since = 0
    BY <1>1
  <2>3. Known(sensor, 0)
    BY <1>1, <2>2 DEF Known
  <2> QED
    BY <1>1, <2>1, <2>3 DEF Typed
<1>3. Histories
  <2> SUFFICES ASSUME NEW k \in Kinds PROVE Dated(config, k, sensor, goodSince[k], now)
    BY DEF Histories
  <2>1. CASE ~Good(config, k, sensor)
    BY <1>1, <2>1 DEF Dated, Never
  <2>2. CASE Good(config, k, sensor)
    <3>1. goodSince[k] = 0 /\ now = 0 /\ \A s \in Sensors : sensor[s].since = 0
      BY <1>1, <2>2
    <3>2. Young(config, k, sensor, 0)
      <4>1. CASE k = "occupancy"
        BY <1>1, <3>1, <4>1 DEF Young, IsWired
      <4>2. CASE k = "access"
        BY <1>1, <3>1, <4>2 DEF Young, IsWired, OpenPaths
      <4>3. CASE k \in Conditions
        <5>1. {s \in Away(config, k, sensor) : sensor[s].since < 0} = {}
          BY <1>1, <3>1, <4>3 DEF Away, IsWired
        <5>2. config.conds[k].minimum \in Nat /\ config.conds[k].minimum >= 1
          BY <1>1, <4>3 DEF IsWired
        <5>3. Cardinality({s \in Away(config, k, sensor) : sensor[s].since < 0}) = 0
          BY <5>1, FS_EmptySet
        <5> QED
          BY <4>3, <5>2, <5>3, Conditional DEF Young
      <4> QED
        BY <4>1, <4>2, <4>3 DEF Kinds, ZoneKinds
    <3> QED
      BY <2>2, <3>1, <3>2 DEF Dated, Never
  <2> QED
    BY <2>1, <2>2
<1>4. Holds
  BY <1>1 DEF Holds, HoldSound, Never
<1> QED
  BY <1>2, <1>3, <1>4 DEF IInv

\* The holds and the history of their inputs agree in every state.
THEOREM Invariant == Spec => []IInv
<1>1. IInv /\ [Next]_vars => IInv'
  <2> SUFFICES ASSUME IInv, [Next]_vars PROVE IInv'
    OBVIOUS
  <2>1. CASE UNCHANGED vars
    <3>1. UNCHANGED <<now, config, sensor, held, job, goodSince, blind, lent>>
      BY <2>1 DEF vars, options, hass
    <3> QED
      BY <3>1, StillKeeps DEF IInv, Typed
  <2> QED
    BY <2>1, TickKeeps, InputsKeep, ReconcilingKeeps, OperatingKeeps DEF Next
<1> QED
  BY <1>1, InitKeeps, PTL DEF Spec

-----------------------------------------------------------------------------
(* What starts, and what is given up *)

\* Only a preview or the authoritative check starts an occurrence, and what is
\* given up otherwise is at its deadline.
LEMMA Outcomes ==
  ASSUME [Next]_vars
  PROVE  \/ job'.state \in {job.state, "PLANNED", "SUPPRESSED"}
         \/ job'.state = "FAILED" /\ now >= config.deadline
         \/ (Preview \/ Authorise) /\ UNCHANGED <<now, options, hass, goodSince>>
         \/ job \notin JobRecord
<1> SUFFICES ASSUME job \in JobRecord
             PROVE  \/ job'.state \in {job.state, "PLANNED", "SUPPRESSED"}
                    \/ job'.state = "FAILED" /\ now >= config.deadline
                    \/ (Preview \/ Authorise) /\ UNCHANGED <<now, options, hass, goodSince>>
  OBVIOUS
<1>1. \A state : [job EXCEPT !.state = state].state = state
  BY DEF JobRecord, JobFields
<1>2. [job EXCEPT !.indexed = FALSE].state = job.state
  BY DEF JobRecord, JobFields
<1>3. CASE UNCHANGED vars
  BY <1>3 DEF vars
<1>4. CASE Tick
  BY <1>4 DEF Tick
<1>5. CASE Inputs
  BY <1>5 DEF Inputs, Sense, DeviceChanges
<1>6. CASE Reconciling
  <2>1. CASE Debounced \/ Release
    BY <2>1 DEF Debounced, Release
  <2>2. ASSUME NEW t, TimerDue(t) \/ Arm(t) PROVE job' = job
    BY <2>2 DEF TimerDue, Arm
  <2>3. ASSUME NEW t, Enter(t)
        PROVE  \/ job'.state = "SUPPRESSED"
               \/ job'.state = "FAILED" /\ now >= config.deadline
               \/ (Preview \/ Authorise) /\ UNCHANGED <<now, options, hass, goodSince>>
    <3>1. UNCHANGED <<now, options, hass, goodSince>> /\ (Suppress \/ Expire \/ Preview \/ Authorise)
      BY <2>3, Zenon DEF Enter
    <3>2. Suppress => job'.state = "SUPPRESSED"
      BY <1>1 DEF Suppress, Finish
    <3>3. Expire => job'.state = "FAILED" /\ now >= config.deadline
      BY <1>1 DEF Expire, Finish
    <3> QED
      BY <3>1, <3>2, <3>3, Zenon
  <2> QED
    BY <1>6, <2>1, <2>2, <2>3 DEF Reconciling
<1>7. CASE Operating
  <2>1. GoReal => job'.state = "PLANNED"
    BY DEF GoReal, JobRecord, JobFields
  <2>2. Reload => job'.state = job.state
    BY <1>2 DEF Reload
  <2>3. Watchdog => job' = job
    BY DEF Watchdog
  <2>4. ASSUME NEW x, Look(x) \/ SetOverride(x) \/ SetGate(x) PROVE job' = job
    BY <2>4 DEF Look, SetOverride, SetGate
  <2> QED
    BY <1>7, <2>1, <2>2, <2>3, <2>4 DEF Operating
<1> QED
  BY <1>3, <1>4, <1>5, <1>6, <1>7, Zenon DEF Next

\* A start has a snapshot of the zone without a blocker, and an early one the
\* conditions of a group.
LEMMA StartStep ==
  ASSUME IInv, [Next]_vars, Starts
  PROVE  /\ \A k \in ZoneKinds : held'[k] = Snapped(OwnMode)[k]
         /\ Report(held') = {}
         /\ job'.early =>
              /\ ConditionsMatched(config, held', now)
              /\ \A k \in Conditions : \E h : held'[k] = Dwelt(h)[k]
<1>1. job'.state = "STARTED" /\ job.state # "STARTED" /\ job \in JobRecord
  BY DEF Starts, IInv, Typed
<1>2. (Preview \/ Authorise) /\ UNCHANGED <<now, options, hass, goodSince>>
  BY <1>1, Outcomes
<1>3. CASE Authorise
  <2>1. ~job.early
    BY <1>1 DEF JobRecord
  <2> QED
    BY <1>1, <1>2, <1>3, <2>1, Authorised
<1>4. CASE Preview
  <2>1. PICK snap \in BOOLEAN :
          /\ \A k \in ZoneKinds : held'[k] = IF snap THEN Snapped(OwnMode)[k] ELSE held[k]
          /\ \A k \in Conditions : \E h : held'[k] = Dwelt(h)[k]
          /\ job'.state = "STARTED" /\ job.state # "STARTED" =>
                snap /\ Report(held') = {} /\ ConditionsMatched(config, held', now)
    BY <1>2, <1>4, Previewed, Zenon
  <2>2. snap /\ Report(held') = {} /\ ConditionsMatched(config, held', now)
    BY <1>1, <2>1
  <2> QED
    BY <2>1, <2>2
<1> QED
  BY <1>2, <1>3, <1>4

-----------------------------------------------------------------------------
(* The properties *)

LEMMA MaxOfTwo ==
  ASSUME NEW a \in Int, NEW b \in Int
  PROVE  Max({a, b}) \in {a, b}
<1>1. CASE a >= b
  <2>1. \E x \in {a, b} : \A y \in {a, b} : x >= y
    BY <1>1
  <2> QED
    BY <2>1 DEF Max
<1>2. CASE ~(a >= b)
  <2>1. \E x \in {a, b} : \A y \in {a, b} : x >= y
    BY <1>2
  <2> QED
    BY <2>1 DEF Max
<1> QED
  BY <1>1, <1>2

\* scheduler_engine.py, preflight.py: what starts has the time it was promised.
THEOREM StartsFit == Spec => StartFitsWindow
<1>1. ASSUME IInv, [Next]_vars, Starts,
             NEW t \in now..(now + Max({config.window, config.time}) - 1)
      PROVE  ~InDnd(config, t) /\ t < config.deadline
  <2>1. IsConfig(config) /\ now \in Int
    BY <1>1, Settings DEF IInv, Typed
  <2>2. PICK need : need = Max({config.window, config.time})
    OBVIOUS
  <2>3. need \in {config.window, config.time}
    BY <2>1, <2>2, MaxOfTwo DEF IsConfig
  <2>4. t \in now..now + need - 1
    BY <1>1, <2>2
  <2>5. PICK h : h = held'
    OBVIOUS
  <2>6. Blockers(config, gate, device, sensor, OwnMode, h, now) = {}
    BY <1>1, <2>5, StartStep DEF Report
  <2> QED
    BY <2>1, <2>3, <2>4, <2>6, PassFits
<1>2. IInv /\ [Next]_vars =>
        [Starts => \A t \in now..(now + Max({config.window, config.time}) - 1) :
                     ~InDnd(config, t) /\ t < config.deadline]_vars
  BY <1>1
<1> QED
  BY <1>2, Invariant, PTL DEF Spec, StartFitsWindow

\* scheduler_engine.py, preflight.py: what is given up would pass at no instant
\* that is left.
THEOREM GivenUpForGood == Spec => FailIsFinal
<1>1. ASSUME IInv, [Next]_vars, GivenUp, ~GateClosed(config, gate, now),
             NEW t \in now..(config.deadline - 1)
      PROVE  Verdict(Blockers(config, gate, device, sensor, OwnMode, held', t)) # "PASS"
  <2>1. IsConfig(config) /\ now \in Nat /\ job \in JobRecord /\ config.deadline \in Int
    BY <1>1, Settings DEF IInv, Typed, IsConfig
  <2>2. job'.state = "FAILED" /\ job.state # "FAILED" /\ ~(now >= config.deadline)
    BY <1>1, <2>1 DEF GivenUp
  <2>3. (Preview \/ Authorise) /\ UNCHANGED <<now, options, hass, goodSince>>
    BY <1>1, <2>1, <2>2, Outcomes
  <2>4. ~Preview
    BY <1>1, <2>2, <2>3, Previewed
  <2>5. PICK h : h = held'
    OBVIOUS
  <2>6. \E b \in Blockers(config, gate, device, sensor, OwnMode, h, now) : b.decision = "FAIL"
    BY <1>1, <2>2, <2>3, <2>4, <2>5, Authorised DEF Report
  <2>7. PICK B : B = Blockers(config, gate, device, sensor, OwnMode, h, t)
    OBVIOUS
  <2>8. B # {}
    BY <1>1, <2>1, <2>6, <2>7, FailStays
  <2>9. \A b \in B : b.decision \in {"WAIT", "FAIL"}
    BY <2>7, BlocksDecide
  <2>10. Verdict(B) # "PASS"
    BY <2>8, <2>9, VerdictFacts
  <2> QED
    BY <2>5, <2>7, <2>10
<1>2. IInv /\ [Next]_vars =>
        [GivenUp /\ ~GateClosed(config, gate, now) =>
           \A t \in now..(config.deadline - 1) :
              Verdict(Blockers(config, gate, device, sensor, OwnMode, held', t)) # "PASS"]_vars
  BY <1>1
<1> QED
  BY <1>2, Invariant, PTL DEF Spec, FailIsFinal

\* An input whose hold is over has been good for as long.
LEMMA HeldIsSettled ==
  ASSUME IInv, NEW k \in Kinds, NEW x \in Int,
         x = Never => Delay(config, k) = 0 /\ Good(config, k, sensor),
         x # Never => /\ Until(config, k, x, now) <= now
                      /\ x = held[k] \/ (goodSince[k] # Never /\ goodSince[k] <= x)
  PROVE  Settled(k) \/ blind[k] \/ (k = "occupancy" /\ lent)
<1>1. /\ now \in Nat /\ IsWired(config) /\ goodSince[k] \in Int
      /\ Dated(config, k, sensor, goodSince[k], now)
  BY Settings DEF IInv, Typed, Histories, Dated, Never
<1>2. Delay(config, k) \in Int
  <2>1. k \in Conditions => Delay(config, k) = config.conds[k].dwell
    BY Conditional DEF Delay
  <2> QED
    BY <1>1, <2>1 DEF Delay, IsWired, Kinds, ZoneKinds
<1>3. CASE x = Never
  <2>1. goodSince[k] # Never /\ goodSince[k] <= now /\ Delay(config, k) = 0
    BY <1>1, <1>3 DEF Dated, Never
  <2>2. Settled(k)
    BY <1>1, <2>1 DEF Settled
  <2> QED
    BY <2>2
<1>4. CASE x # Never /\ goodSince[k] # Never /\ goodSince[k] <= x
  <2>1. x + Delay(config, k) <= now
    BY <1>4 DEF Until
  <2>2. Settled(k)
    BY <1>1, <1>2, <1>4, <2>1 DEF Settled
  <2> QED
    BY <2>2
<1>5. CASE x # Never /\ x = held[k]
  <2>1. \/ blind[k] \/ (k = "occupancy" /\ lent)
        \/ goodSince[k] # Never /\ goodSince[k] <= x
    BY <1>5, Zenon DEF IInv, Holds, HoldSound
  <2> QED
    BY <1>4, <1>5, <2>1, Zenon
<1> QED
  BY <1>3, <1>4, <1>5, Zenon

OverrideKnown == override \in {"none", "free", "busy"}

LEMMA Overrides == Spec => []OverrideKnown
<1>1. Init => OverrideKnown
  BY DEF Init, OverrideKnown
<1>2. OverrideKnown /\ [Next]_vars => OverrideKnown'
  <2> SUFFICES ASSUME OverrideKnown, [Next]_vars PROVE OverrideKnown'
    OBVIOUS
  <2> USE DEF OverrideKnown
  <2>1. CASE UNCHANGED vars
    BY <2>1 DEF vars, options
  <2>2. CASE Tick
    BY <2>2 DEF Tick, options
  <2>3. CASE Inputs
    BY <2>3 DEF Inputs, Sense, DeviceChanges, options
  <2>4. CASE Reconciling
    <3>1. UNCHANGED options
      BY <2>4 DEF Reconciling, Debounced, TimerDue, Enter, Release, Arm
    <3> QED
      BY <3>1 DEF options
  <2>5. CASE Operating
    <3>1. ASSUME NEW o \in {"none", "free", "busy"}, SetOverride(o) PROVE override' = o
      BY <3>1 DEF SetOverride
    <3>2. ASSUME NEW x, Look(x) \/ SetGate(x) PROVE override' = override
      BY <3>2 DEF Look, SetGate, options
    <3>3. CASE Watchdog \/ GoReal \/ Reload
      BY <3>3 DEF Watchdog, GoReal, Reload, options
    <3> QED
      BY <2>5, <3>1, <3>2, <3>3 DEF Operating
  <2> QED
    BY <2>1, <2>2, <2>3, <2>4, <2>5 DEF Next
<1> QED
  BY <1>1, <1>2, PTL DEF Spec

\* What a report without a blocker says of the zone.
LEMMA NothingBlocks ==
  ASSUME OverrideKnown, NEW h, Report(h) = {}
  PROVE  /\ Good(config, "access", sensor)
         /\ Until(config, "access", h["access"], now) <= now
         /\ \/ config.accepted
            \/ /\ OwnMode = "free" \/ Good(config, "occupancy", sensor)
               /\ IsGood(config, "occupancy", sensor, OwnMode)
               /\ Until(config, "occupancy", h["occupancy"], now) <= now
<1>1. ZoneBlocks(config, sensor, OwnMode, h, now) = {}
  BY UnreadBlocks DEF Report, Blockers
<1>2. PICK o : o = OwnMode
  OBVIOUS
<1>3. PICK busy : busy = Occupied(config, sensor, o)
  OBVIOUS
<1>4. /\ busy # "unknown" /\ (busy = "busy" => config.accepted)
      /\ busy = "free" => Until(config, "occupancy", h["occupancy"], now) <= now \/ config.accepted
      /\ Good(config, "access", sensor)
      /\ Until(config, "access", h["access"], now) <= now
  BY <1>1, <1>2, <1>3 DEF ZoneBlocks, If
<1>5. o \in {"none", "free", "busy"}
  BY <1>2 DEF OverrideKnown, OwnMode, InMode
<1>6. busy \in {"unknown", "free", "busy"} /\ (busy = "free" => o = "free" \/ Good(config, "occupancy", sensor))
  BY <1>3, <1>5 DEF Occupied
<1>7. busy = "free" <=> IsGood(config, "occupancy", sensor, o)
  BY <1>3 DEF IsGood
<1>8. \/ config.accepted
      \/ /\ o = "free" \/ Good(config, "occupancy", sensor)
         /\ IsGood(config, "occupancy", sensor, o)
         /\ Until(config, "occupancy", h["occupancy"], now) <= now
  BY <1>4, <1>6, <1>7, Zenon
<1> QED
  BY <1>2, <1>4, <1>8

\* scheduler_engine.py, input_provider.py, force_conditions.py: what starts has
\* waited for its zone, and early for the conditions of a group, as long as the
\* settings say.
THEOREM StartsAreSettled == Spec => SettledIsContinuous
<1> DEFINE Waited ==
      /\ Settled("access") \/ blind["access"]
      /\ Settled("occupancy") \/ blind["occupancy"] \/ lent \/ OwnMode = "free" \/ config.accepted
      /\ job'.early => \E g \in config.groups : g # {} /\ \A k \in g : Settled(k) \/ blind[k]
<1>1. ASSUME IInv, OverrideKnown, [Next]_vars, Starts PROVE Waited
  <2>1. PICK h : h = held'
    OBVIOUS
  <2>2. PICK o : o = OwnMode
    OBVIOUS
  <2>3. /\ \A k \in ZoneKinds : h[k] = Stabilize(config, k, sensor, o, held[k], now)
        /\ Report(h) = {}
        /\ job'.early => /\ ConditionsMatched(config, h, now)
                         /\ \A k \in Conditions : \E d : h[k] = Dwelt(d)[k]
    BY <1>1, <2>1, <2>2, StartStep DEF Snapped, Kinds
  <2>4. /\ Good(config, "access", sensor)
        /\ Until(config, "access", h["access"], now) <= now
        /\ \/ config.accepted
           \/ /\ o = "free" \/ Good(config, "occupancy", sensor)
              /\ IsGood(config, "occupancy", sensor, o)
              /\ Until(config, "occupancy", h["occupancy"], now) <= now
    BY <1>1, <2>2, <2>3, NothingBlocks
  <2>5. ASSUME NEW k \in ZoneKinds, Good(config, k, sensor), IsGood(config, k, sensor, o),
               Until(config, k, h[k], now) <= now, k = "access" \/ o # "free"
        PROVE  Settled(k) \/ blind[k] \/ (k = "occupancy" /\ lent)
    <3>1. PICK x : x = h[k]
      OBVIOUS
    <3>2. /\ x \in Int
          /\ x # Never => x = held[k] \/ (goodSince[k] # Never /\ goodSince[k] <= x)
          /\ x = Never => Delay(config, k) = 0
      <4>1. x = Stabilize(config, k, sensor, o, held[k], now) /\ held[k] \in {held[k], Never}
        BY <2>3, <2>5, <3>1
      <4>2. ~(k = "occupancy" /\ o = "free")
        BY <2>5
      <4> QED
        BY <1>1, <2>5, <4>1, <4>2, Snaps
    <3>3. k \in Kinds /\ (x # Never => Until(config, k, x, now) <= now)
      BY <2>5, <3>1 DEF Kinds
    <3> QED
      BY <1>1, <2>5, <3>2, <3>3, HeldIsSettled
  <2>6. Settled("access") \/ blind["access"]
    <3>1. "access" \in ZoneKinds /\ IsGood(config, "access", sensor, o) /\ "access" # "occupancy"
      BY <2>4 DEF ZoneKinds, IsGood
    <3> QED
      BY <2>4, <2>5, <3>1, Zenon
  <2>7. Settled("occupancy") \/ blind["occupancy"] \/ lent \/ o = "free" \/ config.accepted
    <3>1. "occupancy" \in ZoneKinds
      BY DEF ZoneKinds
    <3> QED
      BY <2>4, <2>5, <3>1, Zenon
  <2>8. ASSUME job'.early
        PROVE  \E g \in config.groups : g # {} /\ \A k \in g : Settled(k) \/ blind[k]
    <3>1. PICK g \in config.groups : g # {} /\ \A k \in g : Matured(config, k, h, now)
      BY <2>3, <2>8 DEF ConditionsMatched
    <3>2. g \subseteq Conditions
      BY <1>1, Settings DEF IInv, Typed, IsWired
    <3>3. ASSUME NEW k \in g PROVE Settled(k) \/ blind[k]
      <4>1. k \in Conditions /\ k \in Kinds /\ k # "occupancy"
        BY <3>2, Conditional
      <4>2. PICK d : h[k] = Dwelt(d)[k]
        BY <2>3, <2>8, <4>1
      <4>3. PICK x : x = h[k]
        OBVIOUS
      <4>4. x \in Int /\ (x # Never => x = held[k] \/ (goodSince[k] # Never /\ goodSince[k] <= x))
        BY <1>1, <4>1, <4>2, <4>3, Dwells
      <4>5. x # Never /\ Until(config, k, x, now) <= now
        BY <3>1, <4>3 DEF Matured
      <4>6. Settled(k) \/ blind[k] \/ (k = "occupancy" /\ lent)
        BY <1>1, <4>1, <4>4, <4>5, HeldIsSettled
      <4> QED
        BY <4>1, <4>6, Zenon
    <3> QED
      BY <3>1, <3>3, Zenon
  <2> QED
    BY <2>2, <2>6, <2>7, <2>8, Zenon
<1>2. IInv /\ OverrideKnown /\ [Next]_vars => [Starts => Waited]_vars
  BY <1>1
<1> QED
  BY <1>2, Invariant, Overrides, PTL DEF Spec, SettledIsContinuous

-----------------------------------------------------------------------------
(* The next look *)

LEMMA Soonest ==
  ASSUME NEW n \in Nat, NEW T, T \subseteq Int, NEW e, e = Earliest({x \in T : x > n})
  PROVE  e \in Int /\ \A x \in T : x > n => e > n /\ e <= x
<1>1. PICK S : S = {x \in T : x > n}
  OBVIOUS
<1>2. S \subseteq Nat
  <2>1. n \in Int /\ n >= 0
    OBVIOUS
  <2>2. \A x \in S : x \in Int /\ x > n
    BY <1>1
  <2> QED
    BY <2>1, <2>2
<1>3. CASE S = {}
  BY <1>1, <1>3 DEF Earliest, Never
<1>4. CASE S # {}
  <2>1. Min(S) \in S /\ \A x \in S : Min(S) <= x
    BY <1>2, <1>4, LeastOf
  <2>2. e = Min(S)
    BY <1>1, <1>4 DEF Earliest
  <2> QED
    BY <1>1, <1>2, <2>1, <2>2
<1> QED
  BY <1>3, <1>4

\* Too little time before a do-not-disturb stays too little until it begins.
LEMMA TooShortWaits ==
  ASSUME NEW c, IsConfig(c), NEW need \in Int, NEW t \in Nat, NEW u \in Int, t <= u,
         ~InDnd(c, u), NEW code, NEW b \in TooShort(c, code, need, t), b.decision # "FAIL",
         b.release > t => b.release > u
  PROVE  TooShort(c, code, need, u) # {}
<1>1. c.deadline \in Int /\ t \in Int
  BY DEF IsConfig
<1>2. PICK at \in Int : at = Cutoff(c, t).at
  BY <1>1, CutoffFacts
<1>3. PICK resume : resume = Cutoff(c, t).resume
  OBVIOUS
<1>4. at - t < need /\ resume # Never /\ b.release = resume
  BY <1>2, <1>3 DEF TooShort, If, BlockUntil, Block
<1>5. /\ DndValid(c) /\ ~InDnd(c, t) /\ at < c.deadline
      /\ at = NextDnd(c, t).from /\ resume = NextDnd(c, t).to
  BY <1>2, <1>3, <1>4 DEF Cutoff
<1>6. /\ resume \in Int /\ t < at /\ at < resume
      /\ \A v \in at..resume - 1 : InDnd(c, v)
  BY <1>1, <1>5, NextDndFacts
<1>7. u < at
  <2>1. u < resume
    BY <1>4, <1>6
  <2> QED
    BY <1>6, <2>1
<1>8. PICK from \in Int : from = NextDnd(c, u).from /\ \A v \in u..from - 1 : ~InDnd(c, v)
  BY <1>5, NextDndFacts
<1>9. from <= at
  <2>1. InDnd(c, at)
    BY <1>6
  <2> QED
    BY <1>7, <1>8, <2>1
<1>10. Cutoff(c, u).at = from
  BY <1>1, <1>5, <1>8, <1>9 DEF Cutoff
<1>11. from - u < need
  BY <1>1, <1>4, <1>9
<1> QED
  BY <1>10, <1>11 DEF TooShort, If

\* preflight.py: what has nothing to do with the zone.
Outside(c, g, d, t) ==
  If(GateClosed(c, g, t), Block("global_disabled", "FAIL")) \cup DeviceBlocks(c, d)
  \cup TimeBlocks(Timed(c, d), t)

\* A blocker that is not the zone's is there, or another is, until an instant
\* at which the occurrence is looked at again.
LEMMA OutsideStays ==
  ASSUME NEW c, IsConfig(c), NEW g, NEW d, NEW t \in Nat, NEW u \in t..c.deadline - 1,
         NEW b \in Outside(c, g, d, t), b.release > t => b.release > u,
         c.until \in Int, g = "until" /\ c.until > t => c.until > u
  PROVE  Outside(c, g, d, u) # {}
<1> SUFFICES ASSUME DeviceBlocks(c, d) = {} PROVE Outside(c, g, d, u) # {}
  BY DEF Outside
<1> Timed(c, d) = c
  BY UnreadBlocks
<1>1. u \in Int /\ t \in Int /\ t <= u /\ u < c.deadline /\ c.deadline \in Int
  BY DEF IsConfig
<1>2. CASE b \in If(GateClosed(c, g, t), Block("global_disabled", "FAIL"))
  <2>1. GateClosed(c, g, u)
    BY <1>1, <1>2 DEF If, GateClosed
  <2> QED
    BY <2>1 DEF Outside, If
<1>3. CASE b \in DeviceBlocks(c, d)
  BY <1>3
<1>4. CASE InDnd(c, u)
  BY <1>4 DEF Outside, TimeBlocks, DndBlocks, If
<1>5. CASE b \in DndBlocks(c, t) /\ ~InDnd(c, u)
  <2>1. CASE c.dnd.on /\ ~DndValid(c)
    BY <2>1 DEF Outside, TimeBlocks, DndBlocks, If
  <2>2. CASE ~(c.dnd.on /\ ~DndValid(c))
    <3>1. InDnd(c, t) /\ b.release = DndRelease(c, t)
      BY <1>5, <2>2 DEF DndBlocks, If, BlockUntil
    <3>2. PICK z \in Int : z = DndRelease(c, t) /\ t < z /\ \A v \in t..z - 1 : InDnd(c, v)
      BY <1>1, <3>1, DndReleaseFacts
    <3>3. u < z
      BY <1>1, <3>1, <3>2
    <3> QED
      BY <1>1, <1>5, <3>2, <3>3
  <2> QED
    BY <2>1, <2>2
<1>6. ASSUME NEW code, NEW need \in {c.window, c.time}, b \in TooShort(c, code, need, t), ~InDnd(c, u)
      PROVE  TooShort(c, code, need, u) # {}
  <2>1. need \in Int
    BY DEF IsConfig
  <2>2. CASE b.decision = "FAIL"
    BY <1>1, <1>6, <2>1, <2>2, TooShortStays
  <2>3. CASE b.decision # "FAIL"
    BY <1>1, <1>6, <2>1, <2>3, TooShortWaits
  <2> QED
    BY <2>2, <2>3
<1>7. CASE c.window # 0 /\ ~InDnd(c, u) /\ b \in TooShort(c, "insufficient_time_window", c.window, t)
  BY <1>6, <1>7 DEF Outside, TimeBlocks
<1>8. CASE c.time # Never /\ ~InDnd(c, u) /\ b \in TooShort(c, "forecast_time_insufficient", c.time, t)
  BY <1>6, <1>8 DEF Outside, TimeBlocks
<1>9. \/ b \in If(GateClosed(c, g, t), Block("global_disabled", "FAIL"))
      \/ b \in DeviceBlocks(c, d) \/ b \in DndBlocks(c, t)
      \/ c.window # 0 /\ b \in TooShort(c, "insufficient_time_window", c.window, t)
      \/ c.time # Never /\ b \in TooShort(c, "forecast_time_insufficient", c.time, t)
  BY Zenon DEF Outside, TimeBlocks
<1> QED
  BY <1>2, <1>3, <1>4, <1>5, <1>7, <1>8, <1>9

LEMMA OutsideReleases ==
  ASSUME NEW c, IsConfig(c), NEW g, NEW d, NEW t \in Nat, NEW b \in Outside(c, g, d, t)
  PROVE  b.release \in Int
<1>1. /\ \A code, decision : Block(code, decision).release = Never
      /\ \A code, decision, z : BlockUntil(code, decision, z).release = z
      /\ \A condition, block : \A x \in If(condition, block) : condition /\ x = block
      /\ Never \in Int /\ t \in Int
  BY DEF Block, BlockUntil, If, Never
<1>2. CASE b \in If(GateClosed(c, g, t), Block("global_disabled", "FAIL"))
  BY <1>1, <1>2
<1>3. CASE b \in DeviceBlocks(c, d)
  <2> DEFINE charging == IF d.charging THEN "WAIT" ELSE "FAIL"
  <2> HIDE DEF charging
  <2>1. \A condition, code, decision : \A x \in If(condition, Block(code, decision)) : x.release \in Int
    BY <1>1
  <2>2. /\ \A condition, code : \A x \in If(condition, Block(code, "WAIT")) : x.release \in Int
        /\ \A condition, code : \A x \in If(condition, Block(code, "FAIL")) : x.release \in Int
        /\ \A condition, code : \A x \in If(condition, Block(code, charging)) : x.release \in Int
    BY <2>1
  <2>3. /\ \A T : \A x \in {Block(r, "WAIT") : r \in T} : x.release \in Int
        /\ \A T : \A x \in {Block(r, "FAIL") : r \in T} : x.release \in Int
    BY <1>1
  <2>4. ASSUME NEW x \in DeviceBlocks(c, d) PROVE x.release \in Int
    BY <2>2, <2>3, ZenonT(60) DEF DeviceBlocks, TargetBlocks, WaterBlocks, charging
  <2> QED
    BY <1>3, <2>4
<1>4. PICK e : e = Timed(c, d)
  OBVIOUS
<1>5. DndValid(e) => e = c
  BY <1>4 DEF Timed, DndValid
<1>6. CASE b \in DndBlocks(e, t)
  <2>1. b.release = Never \/ (InDnd(e, t) /\ b.release = DndRelease(e, t))
    BY <1>6 DEF DndBlocks, If, Block, BlockUntil
  <2>2. InDnd(e, t) => e = c
    BY <1>5 DEF InDnd
  <2> QED
    BY <1>1, <2>1, <2>2, DndReleaseFacts
<1>7. ASSUME NEW code, NEW need, b \in TooShort(e, code, need, t) PROVE b.release \in Int
  <2>1. b.release = Never \/ (Cutoff(e, t).resume # Never /\ b.release = Cutoff(e, t).resume)
    BY <1>7 DEF TooShort, If, Block, BlockUntil
  <2>2. Cutoff(e, t).resume # Never =>
          DndValid(e) /\ ~InDnd(e, t) /\ Cutoff(e, t).resume = NextDnd(e, t).to
    BY DEF Cutoff
  <2> QED
    BY <1>1, <1>5, <2>1, <2>2, NextDndFacts
<1>8. \/ b \in If(GateClosed(c, g, t), Block("global_disabled", "FAIL"))
      \/ b \in DeviceBlocks(c, d) \/ b \in DndBlocks(e, t)
      \/ \E code, need : b \in TooShort(e, code, need, t)
  <2>1. b \in If(GateClosed(c, g, t), Block("global_disabled", "FAIL"))
          \cup DeviceBlocks(c, d) \cup TimeBlocks(e, t)
    BY <1>4 DEF Outside
  <2>2. b \in TimeBlocks(e, t) =>
          b \in DndBlocks(e, t) \/ \E code, need : b \in TooShort(e, code, need, t)
    BY Zenon DEF TimeBlocks
  <2> QED
    BY <2>1, <2>2
<1> QED
  BY <1>2, <1>3, <1>6, <1>7, <1>8

-----------------------------------------------------------------------------
(* What keeps an occurrence waiting *)

\* A hold that began at h, or begins where the sensors say, is not over at t.
Lasts(c, k, S, h, t) == (IF h # Never THEN h ELSE Seed(c, k, S)) + Delay(c, k) > t

AccessBlocks(c, S, h, t) ==
  \/ ~Good(c, "access", S)
  \/ Delay(c, "access") # 0 /\ Lasts(c, "access", S, h, t)

\* The occupancy, seen with the override m by the engine itself, blocks at t
\* whoever has looked at it since the last reconcile, at e, with or without the
\* override o.
OccupancyBlocks(c, S, m, o, h, e, t) ==
  LET busy == Occupied(c, S, m)
  IN  \/ busy = "unknown"
      \/ ~c.accepted /\ busy = "busy"
      \/ /\ ~c.accepted /\ busy = "free" /\ Delay(c, "occupancy") # 0
         /\ m # "none" => e + Delay(c, "occupancy") > t
         /\ IF h = Never /\ o = "free" THEN Occupied(c, S, "none") # "free"
            ELSE Lasts(c, "occupancy", S, h, t)

LEMMA ZoneDelays ==
  ASSUME NEW c, IsWired(c)
  PROVE  Delay(c, "occupancy") \in Int /\ Delay(c, "access") \in Int
BY DEF Delay, IsWired

\* The same for a blocker of the zone.
LEMMA ZoneStays ==
  ASSUME NEW c, IsWired(c), NEW S, NEW m, NEW o, NEW h, NEW n \in Nat, NEW t \in Int, n <= t,
         NEW b \in ZoneBlocks(c, S, m, h, n), b.release > n => b.release > t,
         \A k \in ZoneKinds : h[k] \in Int /\ h[k] <= n /\ (Delay(c, k) = 0 => h[k] = Never)
  PROVE  /\ b.release \in Int
         /\ AccessBlocks(c, S, h["access"], t) \/ OccupancyBlocks(c, S, m, o, h["occupancy"], n, t)
<1>1. Delay(c, "occupancy") \in Int /\ Delay(c, "access") \in Int /\ Never \in Int /\ n \in Int
  BY ZoneDelays DEF Never
<1>2. /\ h["occupancy"] \in Int /\ h["occupancy"] <= n /\ (Delay(c, "occupancy") = 0 => h["occupancy"] = Never)
      /\ h["access"] \in Int /\ (Delay(c, "access") = 0 => h["access"] = Never)
  BY DEF ZoneKinds
<1>3. PICK busy : busy = Occupied(c, S, m)
  OBVIOUS
<1>4. PICK x : x = h["occupancy"]
  OBVIOUS
<1>5. PICK y : y = h["access"]
  OBVIOUS
<1>6. \/ busy = "unknown" /\ b.release = Never
      \/ busy = "busy" /\ ~c.accepted /\ b.release = Never
      \/ /\ busy = "free" /\ ~(Until(c, "occupancy", x, n) <= n) /\ ~c.accepted
         /\ b.release = Until(c, "occupancy", x, n)
      \/ ~Good(c, "access", S) /\ b.release = Never
      \/ /\ Good(c, "access", S) /\ ~(Until(c, "access", y, n) <= n)
         /\ b.release = Until(c, "access", y, n)
  BY <1>3, <1>4, <1>5 DEF ZoneBlocks, If, Block, BlockUntil
<1>7. CASE busy = "unknown" /\ b.release = Never
  BY <1>1, <1>3, <1>7 DEF OccupancyBlocks
<1>8. CASE busy = "busy" /\ ~c.accepted /\ b.release = Never
  BY <1>1, <1>3, <1>8 DEF OccupancyBlocks
<1>9. CASE ~Good(c, "access", S) /\ b.release = Never
  BY <1>1, <1>9 DEF AccessBlocks
<1>10. CASE /\ busy = "free" /\ ~(Until(c, "occupancy", x, n) <= n) /\ ~c.accepted
            /\ b.release = Until(c, "occupancy", x, n)
  <2>1. x # Never
    BY <1>1, <1>10 DEF Until
  <2>2. b.release = x + Delay(c, "occupancy") /\ x \in Int /\ x <= n /\ Delay(c, "occupancy") # 0
    BY <1>2, <1>4, <1>10, <2>1 DEF Until
  <2>3. x + Delay(c, "occupancy") > t
    BY <1>1, <1>10, <2>2
  <2>4. n + Delay(c, "occupancy") > t
    BY <1>1, <2>2, <2>3
  <2> QED
    BY <1>1, <1>3, <1>4, <1>10, <2>1, <2>2, <2>3, <2>4 DEF OccupancyBlocks, Lasts
<1>11. CASE /\ Good(c, "access", S) /\ ~(Until(c, "access", y, n) <= n)
            /\ b.release = Until(c, "access", y, n)
  <2>1. y # Never
    BY <1>1, <1>11 DEF Until
  <2>2. b.release = y + Delay(c, "access") /\ y \in Int /\ Delay(c, "access") # 0
    BY <1>2, <1>5, <1>11, <2>1 DEF Until
  <2>3. y + Delay(c, "access") > t
    BY <1>1, <1>11, <2>2
  <2> QED
    BY <1>1, <1>5, <2>1, <2>2, <2>3 DEF AccessBlocks, Lasts
<1> QED
  BY <1>6, <1>7, <1>8, <1>9, <1>10, <1>11

\* preflight.py: the next look is not later than any release.
LEMMA LooksAgain ==
  ASSUME NEW c, IsConfig(c), c.until \in Int, NEW g, NEW B, \A b \in B : b.release \in Int,
         NEW n \in Nat, NEW d, NEW r, r = NextRecheck(c, d, g, B, n)
  PROVE  /\ r \in Int
         /\ \A b \in B : b.release > n => r > n /\ r <= b.release
         /\ g = "until" /\ c.until > n => r > n /\ r <= c.until
<1>1. PICK T : T = WindowEnds(Timed(c, d), n) \cup {b.release : b \in B}
                     \cup (IF g = "until" THEN {c.until} ELSE {})
  OBVIOUS
<1>2. r = Earliest({x \in T : x > n})
  BY <1>1 DEF NextRecheck
<1>3. WindowEnds(Timed(c, d), n) \subseteq Int
  <2>1. PICK e : e = Timed(c, d)
    OBVIOUS
  <2>2. e.window = c.window /\ (e = c \/ (~DndValid(e) /\ e.deadline = c.deadline))
    BY <2>1 DEF Timed, DndValid
  <2>3. e # c => Cutoff(e, n).at = c.deadline
    BY <2>2 DEF Cutoff
  <2>4. Cutoff(e, n).at \in Int /\ e.window \in Int
    BY <2>2, <2>3, CutoffFacts DEF IsConfig
  <2>5. PICK at \in Int : at = Cutoff(e, n).at
    BY <2>4
  <2> QED
    BY <2>1, <2>4, <2>5 DEF WindowEnds
<1>4. T \subseteq Int
  BY <1>1, <1>3
<1>5. r \in Int /\ \A x \in T : x > n => r > n /\ r <= x
  BY <1>2, <1>4, Soonest
<1>6. (\A b \in B : b.release \in T) /\ (g = "until" => c.until \in T)
  BY <1>1
<1> QED
  BY <1>5, <1>6

\* While the next look is to come something blocks that did.
LEMMA BlocksStay ==
  ASSUME NEW c, IsConfig(c), IsWired(c), c.until \in Int, NEW g, NEW d, NEW S, NEW m, NEW o, NEW h,
         NEW n \in Nat, NEW B, B = Blockers(c, g, d, S, m, h, n),
         \A k \in ZoneKinds : h[k] \in Int /\ h[k] <= n /\ (Delay(c, k) = 0 => h[k] = Never),
         NEW r, r = NextRecheck(c, d, g, B, n)
  PROVE  /\ r \in Int
         /\ \A t \in n..c.deadline - 1 : B # {} /\ (r > n => r > t) =>
              \/ Outside(c, g, d, t) # {}
              \/ AccessBlocks(c, S, h["access"], t)
              \/ OccupancyBlocks(c, S, m, o, h["occupancy"], n, t)
<1>1. \A b \in B : b \in Outside(c, g, d, n) \/ b \in ZoneBlocks(c, S, m, h, n)
  BY DEF Blockers, Outside
<1>2. ASSUME NEW b \in B PROVE b.release \in Int
  <2>1. CASE b \in Outside(c, g, d, n)
    BY <2>1, OutsideReleases
  <2>2. CASE b \in ZoneBlocks(c, S, m, h, n)
    <3>1. n \in Int /\ n <= n
      OBVIOUS
    <3>2. b.release > n => b.release > n
      OBVIOUS
    <3> QED
      BY <2>2, <3>1, <3>2, ZoneStays
  <2> QED
    BY <1>1, <2>1, <2>2
<1>3. /\ r \in Int
      /\ \A b \in B : b.release > n => r > n /\ r <= b.release
      /\ g = "until" /\ c.until > n => r > n /\ r <= c.until
  BY <1>2, LooksAgain
<1>4. ASSUME NEW t \in n..c.deadline - 1, B # {}, r > n => r > t
      PROVE  \/ Outside(c, g, d, t) # {}
             \/ AccessBlocks(c, S, h["access"], t)
             \/ OccupancyBlocks(c, S, m, o, h["occupancy"], n, t)
  <2>1. PICK b \in B : TRUE
    BY <1>4
  <2>2. c.deadline \in Int /\ t \in Int /\ n <= t
    BY DEF IsConfig
  <2>3. b.release > n => b.release > t
    BY <1>2, <1>3, <1>4, <2>2
  <2>4. g = "until" /\ c.until > n => c.until > t
    BY <1>3, <1>4, <2>2
  <2>5. CASE b \in Outside(c, g, d, n)
    BY <2>3, <2>4, <2>5, OutsideStays
  <2>6. CASE b \in ZoneBlocks(c, S, m, h, n)
    BY <2>2, <2>3, <2>6, ZoneStays
  <2> QED
    BY <1>1, <2>5, <2>6
<1> QED
  BY <1>3, <1>4

-----------------------------------------------------------------------------
(* What somebody else looks at, and what happens elsewhere *)

LEMMA OccupancySeed ==
  ASSUME NEW c, IsWired(c), NEW n \in Nat, NEW S, Known(S, n), Delay(c, "occupancy") # 0
  PROVE  /\ Seed(c, "occupancy", S) \in 0..n
         /\ \E s \in c.busy : Seed(c, "occupancy", S) = S[s].since
         /\ \A s \in c.busy : S[s].since <= Seed(c, "occupancy", S)
<1>1. c.busy # {} /\ c.busy \subseteq Sensors
  BY DEF Delay, IsWired
<1>2. PICK T : T = {S[s].since : s \in c.busy}
  OBVIOUS
<1>3. T \subseteq 0..n /\ T # {}
  BY <1>1, <1>2 DEF Known
<1>4. Max(T) \in T /\ \A x \in T : x <= Max(T)
  BY <1>3, GreatestOf
<1>5. Seed(c, "occupancy", S) = Max(T)
  BY <1>2 DEF Seed
<1> QED
  BY <1>2, <1>3, <1>4, <1>5

\* input_provider.py: whoever takes a snapshot, with the overrides or without,
\* the occupancy blocks as long as it did for the engine.
LEMMA LookedAt ==
  ASSUME NEW c, IsWired(c), NEW n \in Nat, NEW S, Known(S, n),
         NEW o \in {"none", "free", "busy"}, NEW m \in {o, "none"}, NEW a \in {o, "none"},
         NEW h \in Int, NEW x, x = Stabilize(c, "occupancy", S, a, h, n),
         NEW e \in Int, e <= n, NEW t \in Int,
         m = "none" /\ o = "busy" /\ h # Never => \E s \in c.busy : h <= S[s].since,
         OccupancyBlocks(c, S, m, o, h, e, t)
  PROVE  OccupancyBlocks(c, S, m, o, x, e, t)
<1>1. CASE Occupied(c, S, m) = "unknown" \/ (~c.accepted /\ Occupied(c, S, m) = "busy")
  BY <1>1 DEF OccupancyBlocks
<1>2. CASE ~(Occupied(c, S, m) = "unknown" \/ (~c.accepted /\ Occupied(c, S, m) = "busy"))
  <2>1. PICK d : d = Delay(c, "occupancy")
    OBVIOUS
  <2>2. /\ ~c.accepted /\ Occupied(c, S, m) = "free" /\ d # 0 /\ d \in Int
        /\ m # "none" => e + d > t
        /\ IF h = Never /\ o = "free" THEN Occupied(c, S, "none") # "free"
           ELSE Lasts(c, "occupancy", S, h, t)
    BY <1>2, <2>1, ZoneDelays DEF OccupancyBlocks
  <2>3. PICK z : z = Seed(c, "occupancy", S)
    OBVIOUS
  <2>4. z \in 0..n /\ \A s \in c.busy : S[s].since <= z
    BY <2>1, <2>2, <2>3, OccupancySeed
  <2>5. SUFFICES IF x = Never /\ o = "free" THEN Occupied(c, S, "none") # "free"
                 ELSE Lasts(c, "occupancy", S, x, t)
    BY <2>1, <2>2 DEF OccupancyBlocks
  <2>6. \A y : Lasts(c, "occupancy", S, y, t) <=> (IF y # Never THEN y ELSE z) + d > t
    BY <2>1, <2>3 DEF Lasts
  <2>7. CASE Occupied(c, S, a) # "free"
    <3>1. x = Never /\ a # m
      BY <2>2, <2>7 DEF Stabilize, IsGood
    <3>2. CASE m = "none"
      <4>1. o = "busy"
        BY <2>2, <2>7, <3>1, <3>2 DEF Occupied
      <4>2. z + d > t
        <5>1. CASE h = Never
          BY <2>2, <2>6, <4>1, <5>1
        <5>2. CASE h # Never
          <6>1. PICK s \in c.busy : h <= S[s].since
            BY <3>2, <4>1, <5>2
          <6>2. S[s].since \in Int /\ S[s].since <= z /\ z \in Int
            BY <2>4 DEF Known, IsWired
          <6>3. h + d > t
            BY <2>2, <2>6, <5>2
          <6> QED
            BY <2>2, <6>1, <6>2, <6>3
        <5> QED
          BY <5>1, <5>2
      <4> QED
        BY <2>6, <3>1, <4>1, <4>2
    <3>3. CASE m # "none"
      <4>1. m = o /\ a = "none"
        BY <3>1, <3>3
      <4>2. o = "free"
        BY <2>2, <3>3, <4>1 DEF Occupied
      <4> QED
        BY <2>7, <3>1, <4>1, <4>2
    <3> QED
      BY <3>2, <3>3
  <2>8. CASE Occupied(c, S, a) = "free"
    <3>1. x = IF h # Never THEN h ELSE IF a # "none" THEN n ELSE z
      BY <2>1, <2>2, <2>3, <2>8 DEF Stabilize, IsGood
    <3>2. CASE h # Never
      BY <2>2, <3>1, <3>2
    <3>3. CASE h = Never /\ a # "none"
      <4>1. a = "free" /\ o = "free"
        BY <2>8, <3>3 DEF Occupied
      <4>2. m = "free"
        BY <2>2, <3>3, <4>1
      <4>3. x = n /\ n + d > t /\ n # Never
        BY <2>2, <3>1, <3>3, <4>2 DEF Never
      <4> QED
        BY <2>6, <4>3
    <3>4. CASE h = Never /\ a = "none"
      <4>1. o # "free"
        BY <2>2, <2>8, <3>4
      <4>2. z + d > t /\ x = z
        BY <2>2, <2>6, <3>1, <3>4, <4>1
      <4> QED
        BY <2>6, <4>1, <4>2
    <3> QED
      BY <3>2, <3>3, <3>4
  <2> QED
    BY <2>7, <2>8
<1> QED
  BY <1>1, <1>2

LEMMA LookedAtAccess ==
  ASSUME NEW c, NEW n, NEW S, NEW a, NEW h, NEW x, x = Stabilize(c, "access", S, a, h, n),
         NEW t, AccessBlocks(c, S, h, t)
  PROVE  AccessBlocks(c, S, x, t)
<1>1. CASE ~Good(c, "access", S)
  BY <1>1 DEF AccessBlocks
<1>2. CASE Good(c, "access", S)
  <2>1. Delay(c, "access") # 0 /\ Lasts(c, "access", S, h, t)
    BY <1>2 DEF AccessBlocks
  <2>2. x = IF h # Never THEN h ELSE Seed(c, "access", S)
    BY <1>2, <2>1 DEF Stabilize, IsGood
  <2> QED
    BY <2>1, <2>2 DEF AccessBlocks, Lasts
<1> QED
  BY <1>1, <1>2

\* A sensor that is not the zone's changes nothing in it.
LEMMA Elsewhere ==
  ASSUME NEW c, NEW S, NEW T, \A s \in ZoneSensors(c) : S[s] = T[s]
  PROVE  /\ \A h, t : AccessBlocks(c, S, h, t) => AccessBlocks(c, T, h, t)
         /\ \A m, o, h, e, t : OccupancyBlocks(c, S, m, o, h, e, t) => OccupancyBlocks(c, T, m, o, h, e, t)
<1>1. /\ \A s \in c.busy : S[s] = T[s]
      /\ \A p \in c.paths : \A s \in p : S[s] = T[s]
  BY DEF ZoneSensors
<1>2. OpenPaths(c, S) = OpenPaths(c, T)
  BY <1>1 DEF OpenPaths
<1>3. Good(c, "access", S) <=> Good(c, "access", T)
  BY <1>2 DEF Good
<1>4. Good(c, "occupancy", S) <=> Good(c, "occupancy", T)
  BY <1>1 DEF Good
<1>5. \A m : Occupied(c, S, m) = Occupied(c, T, m)
  BY <1>1, <1>4 DEF Occupied
<1>6. Seed(c, "occupancy", S) = Seed(c, "occupancy", T)
  <2>1. {S[s].since : s \in c.busy} = {T[s].since : s \in c.busy}
    BY <1>1
  <2> QED
    BY <2>1 DEF Seed
<1>7. Seed(c, "access", S) = Seed(c, "access", T)
  <2>1. ASSUME NEW p \in OpenPaths(c, S)
        PROVE  {S[s].since : s \in p} = {T[s].since : s \in p}
    BY <1>1 DEF OpenPaths
  <2>2. \A p \in OpenPaths(c, S) : Max({S[s].since : s \in p}) = Max({T[s].since : s \in p})
    BY <2>1
  <2>3. {Max({S[s].since : s \in p}) : p \in OpenPaths(c, S)}
          = {Max({T[s].since : s \in p}) : p \in OpenPaths(c, T)}
    BY <1>2, <2>2
  <2> QED
    BY <2>3 DEF Seed
<1>8. \A h, t : Lasts(c, "access", S, h, t) <=> Lasts(c, "access", T, h, t)
  BY <1>7 DEF Lasts
<1>9. \A h, t : Lasts(c, "occupancy", S, h, t) <=> Lasts(c, "occupancy", T, h, t)
  BY <1>6 DEF Lasts
<1>10. \A h, t : AccessBlocks(c, S, h, t) => AccessBlocks(c, T, h, t)
  BY <1>3, <1>8 DEF AccessBlocks
<1>11. ASSUME NEW m, NEW o, NEW h, NEW e, NEW t, OccupancyBlocks(c, S, m, o, h, e, t)
       PROVE  OccupancyBlocks(c, T, m, o, h, e, t)
  BY <1>5, <1>9, <1>11 DEF OccupancyBlocks
<1> QED
  BY <1>10, <1>11

\* No group of conditions matures until t.
Unmatched(c, S, h, t) ==
  \A g \in c.groups : g = {} \/ \E k \in g : ~Good(c, k, S) \/ (h[k] # Never /\ h[k] + Delay(c, k) > t)

LEMMA ElsewhereUnmatched ==
  ASSUME NEW c, IsWired(c), NEW S, NEW T, \A k \in UNION c.groups : \A s \in c.conds[k].people : S[s] = T[s],
         NEW h, NEW t, Unmatched(c, S, h, t)
  PROVE  Unmatched(c, T, h, t)
<1>1. ASSUME NEW g \in c.groups, NEW k \in g PROVE Good(c, k, S) <=> Good(c, k, T)
  <2>1. k # "occupancy" /\ k # "access" /\ k \in UNION c.groups
    BY <1>1, Conditional DEF IsWired
  <2>2. Away(c, k, S) = Away(c, k, T)
    BY <2>1 DEF Away
  <2> QED
    BY <2>1, <2>2 DEF Good
<1> QED
  BY <1>1 DEF Unmatched

-----------------------------------------------------------------------------
(* The invariant of the wake-ups *)

\* What would keep the engine from starting the occurrence at t.
Blocked(t) ==
  \/ Outside(config, gate, device, t) # {}
  \/ AccessBlocks(config, sensor, held["access"], t)
  \/ OccupancyBlocks(config, sensor, OwnMode, override, held["occupancy"], evaluated, t)

Waits(t) ==
  IF job.state = "WAIT" THEN Blocked(t)
  ELSE config.advance > 0 /\ t >= ForceOpens(config) =>
         Unmatched(config, sensor, held, t) \/ ~ProtectionAllows(config, t) \/ Blocked(t)

\* No instant to look again lies between the last look and t.
Before(t) == evaluated <= t /\ \A x \in Targets : x > evaluated => x > t

\* The last look knew all that has happened.
Heeded == queue = {} /\ ~requested /\ ~(index = "sleeping" /\ pending) /\ ~missed

Prospect ==
  /\ evaluated < config.deadline
  /\ job.state = "PLANNED" => evaluated < config.planned
  /\ job.state = "WAIT" => config.planned <= evaluated /\ ~GateClosed(config, gate, evaluated)
  /\ \A t \in Int : Before(t) => Waits(t)

Seen == Active /\ Heeded => Prospect

Armed ==
  Active /\ queue = {} /\ holder = Nobody /\ tails = {} /\ ~missed =>
    \A x \in Targets : x > evaluated => x \in timers

\* A request that was noted has its task, and the index calls once at a time.
Someone(t) == t \in queue \/ holder = t \/ t \in tails
Tasks ==
  /\ requested => drain = "on"
  /\ drain = "on" => Someone("drain")
  /\ Someone("index") => index = "calling"
  /\ ~("index" \in queue /\ holder = "index")
  /\ ~("index" \in queue /\ "index" \in tails)
  /\ ~(holder = "index" /\ "index" \in tails)
  /\ Nobody \notin queue \cup tails
  /\ index \in {"idle", "sleeping", "calling"}

\* What REAL mode holds under a busy override it took from the sensors.
Seeded ==
  mode # "DRY_RUN" /\ override = "busy" /\ held["occupancy"] # Never =>
    \E s \in config.busy : held["occupancy"] <= sensor[s].since

\* An occurrence that waits is in the dependency index.
Followed == job.state = "WAIT" /\ queue = {} => job.indexed

Past(k) == held[k] <= now /\ (Delay(config, k) = 0 => held[k] = Never)
Times ==
  /\ evaluated \in Int /\ evaluated <= now /\ recheck \in Int /\ forceAt \in Int
  /\ job.state = "WAIT" => config.planned <= now
  /\ \A k \in ZoneKinds : Past(k)

-----------------------------------------------------------------------------
(* What a look leaves behind *)

LEMMA SnapPast ==
  ASSUME IInv, NEW k \in ZoneKinds, held[k] <= now, NEW o, NEW h \in {held[k], Never},
         NEW x, x = Stabilize(config, k, sensor, o, h, now)
  PROVE  x \in Int /\ x <= now /\ (Delay(config, k) = 0 => x = Never)
<1>1. /\ now \in Nat /\ config \in Configs /\ Known(sensor, now) /\ IsWired(config)
      /\ k \in Kinds /\ held[k] \in Int /\ Dated(config, k, sensor, goodSince[k], now)
  BY Settings DEF IInv, Typed, Histories, Holds, Kinds
<1>2. CASE Delay(config, k) = 0 \/ ~IsGood(config, k, sensor, o)
  <2>1. x = Never
    BY <1>2 DEF Stabilize
  <2> QED
    BY <1>1, <2>1 DEF Never
<1>3. CASE ~(Delay(config, k) = 0 \/ ~IsGood(config, k, sensor, o))
  <2>1. x = IF h # Never THEN h ELSE IF k = "occupancy" /\ o # "none" THEN now ELSE Seed(config, k, sensor)
    BY <1>3 DEF Stabilize
  <2>2. CASE h # Never
    BY <1>1, <1>3, <2>1, <2>2
  <2>3. CASE h = Never /\ k = "occupancy" /\ o # "none"
    BY <1>1, <1>3, <2>1, <2>3
  <2>4. CASE h = Never /\ ~(k = "occupancy" /\ o # "none")
    <3>1. Good(config, k, sensor)
      <4>1. CASE k = "occupancy"
        BY <1>3, <2>4, <4>1 DEF IsGood, Occupied
      <4>2. CASE k # "occupancy"
        BY <1>3, <4>2 DEF IsGood
      <4> QED
        BY <4>1, <4>2
    <3>2. goodSince[k] # Never /\ goodSince[k] \in Int /\ Young(config, k, sensor, goodSince[k])
      BY <1>1, <3>1 DEF Dated, Never
    <3>3. Seed(config, k, sensor) \in 0..now
      BY <1>1, <1>3, <3>1, <3>2, SeedFacts
    <3>4. x = Seed(config, k, sensor)
      BY <2>1, <2>4
    <3> QED
      BY <1>1, <1>3, <3>3, <3>4
  <2> QED
    BY <2>2, <2>3, <2>4
<1> QED
  BY <1>2, <1>3

\* A condition that is good is held after a preview in its window.
LEMMA DwellsGood ==
  ASSUME IInv, NEW k \in Conditions, NEW h, NEW x, x = Dwelt(h)[k],
         config.advance > 0, now >= ForceOpens(config), job.state = "PLANNED"
  PROVE  /\ x = Never <=> ~Good(config, k, sensor)
         /\ Good(config, k, sensor) /\ held[k] # Never => x = held[k]
<1>1. /\ now \in Nat /\ config \in Configs /\ Known(sensor, now) /\ IsWired(config)
      /\ k \in Kinds /\ held[k] \in Int /\ Dated(config, k, sensor, goodSince[k], now)
  BY Conditional, Settings DEF IInv, Typed, Histories, Holds, Kinds
<1>2. x = IF Good(config, k, sensor)
          THEN IF held[k] # Never THEN held[k] ELSE Seed(config, k, sensor)
          ELSE Never
  BY <1>1, Conditional DEF Dwelt
<1>3. CASE Good(config, k, sensor)
  <2>1. goodSince[k] # Never /\ goodSince[k] \in Int /\ Young(config, k, sensor, goodSince[k])
    BY <1>1, <1>3 DEF Dated, Never
  <2>2. Seed(config, k, sensor) \in 0..now
    BY <1>1, <1>3, <2>1, SeedFacts
  <2> QED
    BY <1>2, <1>3, <2>2 DEF Never
<1> QED
  BY <1>2, <1>3

LEMMA Schedules ==
  ASSUME IInv
  PROVE  /\ now \in Nat /\ now \in Int /\ IsConfig(config) /\ IsWired(config)
         /\ config.planned \in Int /\ config.deadline \in Int /\ config.planned < config.deadline
         /\ config.until \in Int /\ config.advance \in Int /\ config.next \in Int /\ config.time \in Int
         /\ config.warning \in Int /\ ForceOpens(config) \in Int
         /\ \A k \in Kinds : held[k] \in Int /\ Delay(config, k) \in Int
<1>1. now \in Nat /\ config \in Configs /\ \A k \in Kinds : held[k] \in Int
  BY DEF IInv, Typed, Holds
<1>2. IsConfig(config) /\ IsWired(config)
  BY <1>1, Settings
<1>3. /\ config.planned < config.deadline
      /\ config.until \in Int /\ config.advance \in Int /\ config.next \in Int
  BY <1>1, ConfigAssumption
<1>4. /\ config.planned \in Int /\ config.deadline \in Int /\ config.time \in Int /\ config.warning \in Int
  BY <1>2 DEF IsConfig
<1>5. ForceOpens(config) \in Int
  BY <1>3, <1>4 DEF ForceOpens
<1>6. ASSUME NEW k \in Kinds PROVE Delay(config, k) \in Int
  <2>1. CASE k \in ZoneKinds
    BY <1>2, <2>1, ZoneDelays DEF ZoneKinds
  <2>2. CASE k \in Conditions /\ k \notin ZoneKinds
    BY <1>2, <2>2 DEF Delay, ZoneKinds, IsWired
  <2> QED
    BY <2>1, <2>2, ZoneOrCondition
<1> QED
  BY <1>1, <1>2, <1>3, <1>4, <1>5, <1>6

\* What the report of the zone's holds h lets pass at t, seen at the look.
StillBlocked(h, t) ==
  \/ Outside(config, gate, device, t) # {}
  \/ AccessBlocks(config, sensor, h["access"], t)
  \/ OccupancyBlocks(config, sensor, OwnMode, override, h["occupancy"], now, t)

LEMMA ReportStays ==
  ASSUME IInv, NEW h, NEW B, B = Report(h), NEW r, r = LookAgain(B),
         \A k \in ZoneKinds : h[k] \in Int /\ h[k] <= now /\ (Delay(config, k) = 0 => h[k] = Never)
  PROVE  /\ r \in Int
         /\ B # {} => \A t \in Int : now <= t /\ t < config.deadline /\ (r > now => r > t) => StillBlocked(h, t)
<1>1. PICK n \in Nat : n = now
  BY Schedules
<1>2. /\ IsConfig(config) /\ IsWired(config) /\ config.until \in Int /\ config.deadline \in Int
  BY Schedules
<1>3. B = Blockers(config, gate, device, sensor, OwnMode, h, n) /\ r = NextRecheck(config, device, gate, B, n)
  BY <1>1 DEF Report, LookAgain
<1>4. \A k \in ZoneKinds : h[k] \in Int /\ h[k] <= n /\ (Delay(config, k) = 0 => h[k] = Never)
  BY <1>1
<1>5. /\ r \in Int
      /\ \A t \in n..config.deadline - 1 : B # {} /\ (r > n => r > t) =>
           \/ Outside(config, gate, device, t) # {}
           \/ AccessBlocks(config, sensor, h["access"], t)
           \/ OccupancyBlocks(config, sensor, OwnMode, override, h["occupancy"], n, t)
  BY <1>2, <1>3, <1>4, BlocksStay
<1>6. ASSUME B # {}, NEW t \in Int, now <= t, t < config.deadline, r > now => r > t
      PROVE  StillBlocked(h, t)
  <2>1. t \in n..config.deadline - 1
    BY <1>1, <1>2, <1>6
  <2> QED
    BY <1>1, <1>5, <1>6, <2>1 DEF StillBlocked
<1> QED
  BY <1>5, <1>6

LEMMA AuthoriseLooks ==
  ASSUME IInv, Times, Authorise, UNCHANGED <<now, options, hass>>, evaluated' = now
  PROVE  /\ recheck' \in Int /\ forceAt' \in Int
         /\ \A k \in ZoneKinds : Past(k)'
         /\ job'.state # "PLANNED"
         /\ job'.state = "WAIT" => config.planned <= now
         /\ Active' => Prospect'
<1>1. PICK h : h = [k \in Kinds |-> IF k \in ZoneKinds THEN Snapped(OwnMode)[k] ELSE Never]
  OBVIOUS
<1>2. PICK B : B = Report(h)
  OBVIOUS
<1>3. PICK v : v = Verdict(B)
  OBVIOUS
<1>4. PICK r : r = LookAgain(B)
  OBVIOUS
<1>5. /\ held' = h /\ forceAt' = Never
      /\ recheck' = IF v = "WAIT" THEN r ELSE Never
      /\ ~Suppressed /\ config.planned <= now /\ now < config.deadline
  BY <1>1, <1>2, <1>3, <1>4 DEF Authorise
<1>6. job' = [job EXCEPT !.indexed = TRUE,
                         !.state = CASE v = "PASS" -> "STARTED"
                                     [] v = "FAIL" -> "FAILED"
                                     [] v = "WAIT" -> "WAIT"]
  BY <1>1, <1>2, <1>3 DEF Authorise
<1>7. v \in {"PASS", "WAIT", "FAIL"} /\ (v = "PASS" <=> B = {})
  BY <1>2, <1>3, ReportFacts
<1>8. job'.state \in {"STARTED", "FAILED", "WAIT"} /\ (job'.state = "WAIT" => v = "WAIT")
  BY <1>6, <1>7 DEF IInv, Typed, JobRecord, JobFields
<1>9. ASSUME NEW k \in ZoneKinds
      PROVE  h[k] \in Int /\ h[k] <= now /\ (Delay(config, k) = 0 => h[k] = Never)
  <2>1. h[k] = Stabilize(config, k, sensor, OwnMode, held[k], now)
    BY <1>1 DEF Snapped, Kinds
  <2> QED
    BY <2>1, SnapPast DEF Times, Past
<1>10. /\ r \in Int
       /\ B # {} => \A t \in Int : now <= t /\ t < config.deadline /\ (r > now => r > t) => StillBlocked(h, t)
  BY <1>2, <1>4, <1>9, ReportStays
<1>11. \A k \in ZoneKinds : Past(k)'
  BY <1>5, <1>9 DEF Past, options
<1>12. ASSUME Active' PROVE Prospect'
  <2>1. job'.state = "WAIT" /\ v = "WAIT" /\ B # {} /\ recheck' = r
    BY <1>5, <1>7, <1>8, <1>12 DEF Active
  <2>2. ~GateClosed(config, gate, now)
    BY <1>5 DEF Suppressed
  <2>3. ASSUME NEW t \in Int, Before(t)' PROVE Waits(t)'
    <3>1. config.deadline \in Targets' /\ r \in Targets'
      BY <2>1 DEF Targets, options
    <3>2. now <= t /\ (config.deadline > now => config.deadline > t) /\ (r > now => r > t)
      BY <2>3, <3>1 DEF Before
    <3>3. now \in Int /\ config.deadline \in Int
      BY Schedules
    <3>4. StillBlocked(h, t)
      BY <1>5, <1>10, <2>1, <3>2, <3>3
    <3>5. Blocked(t)'
      BY <1>5, <3>4, Zenon DEF StillBlocked, Blocked, OwnMode, InMode, options, hass
    <3> QED
      BY <2>1, <3>5 DEF Waits
  <2> QED
    BY <1>5, <2>1, <2>2, <2>3 DEF Prospect, options
<1> QED
  BY <1>5, <1>8, <1>10, <1>11, <1>12 DEF Never

\* scheduler_engine.py: what a preview decides, and when it looks again.
LEMMA Previews ==
  ASSUME IInv, Preview
  PROVE  \E snap, early \in BOOLEAN :
           /\ \A k \in ZoneKinds : held'[k] = IF snap THEN Snapped(OwnMode)[k] ELSE held[k]
           /\ \A k \in Conditions : \E h : held'[k] = Dwelt(h)[k]
           /\ EarlyRun(held') => snap
           /\ EarlyRun(held') /\ Verdict(Report(held')) = "PASS" /\ ProtectionAllows(config, now) => early
           /\ job'.state = IF early THEN "STARTED" ELSE job.state
           /\ recheck' \in {Never, recheck, LookAgain(Report(held'))}
           /\ forceAt' = IF early \/ job.state # "PLANNED" THEN Never
                         ELSE Earliest(ForceTransitions(config, Report(held'), held',
                                                        LookAgain(Report(held')), now))
<1> DEFINE announced == job.announced \/ (job.state = "PLANNED" /\ now >= config.warning)
           previewed == announced /\ job.state = "PLANNED"
           dwelt == Dwelt(held)
           snap == previewed \/ EarlyRun(dwelt)
           h == IF snap THEN Dwelt(Snapped(OwnMode)) ELSE dwelt
           B == Report(h)
           again == LookAgain(B)
           early == EarlyRun(h) /\ Verdict(B) = "PASS" /\ ProtectionAllows(config, now)
<1>1. /\ held' = h
      /\ job' = [job EXCEPT !.announced = announced, !.indexed = @ \/ previewed,
                            !.state = IF early THEN "STARTED" ELSE @, !.early = early]
      /\ recheck' = IF early THEN Never ELSE IF previewed THEN again ELSE recheck
      /\ forceAt' = IF early \/ job.state # "PLANNED" THEN Never
                    ELSE Earliest(ForceTransitions(config, B, h, again, now))
  BY Zenon DEF Preview
<1>2. EarlyRun(h) => snap
  <2> HIDE DEF announced, previewed
  <2>1. SUFFICES ASSUME EarlyRun(h), ~snap PROVE FALSE
    OBVIOUS
  <2>2. h = dwelt
    BY <2>1, Zenon
  <2> QED
    BY <2>1, <2>2, Zenon
<1>3. snap \in BOOLEAN /\ early \in BOOLEAN /\ previewed \in BOOLEAN /\ announced \in BOOLEAN
  BY Zenon DEF IInv, Typed, JobRecord, JobFields, EarlyRun, ConditionsMatched, ProtectionAllows
<1>4. /\ \A k \in ZoneKinds : h[k] = IF snap THEN Snapped(OwnMode)[k] ELSE held[k]
      /\ \A k \in Conditions : \E g : h[k] = Dwelt(g)[k]
  <2> HIDE DEF snap
  <2>1. \A g : \A k \in ZoneKinds : Dwelt(g)[k] = g[k]
    BY DEF Dwelt, Kinds
  <2> QED
    BY <2>1
<1>5. EarlyRun(h) /\ Verdict(Report(h)) = "PASS" /\ ProtectionAllows(config, now) => early
  <2> HIDE DEF snap, h
  <2> QED
    BY Zenon
<1>6. B = Report(h) /\ again = LookAgain(Report(h))
  BY Zenon
<1> HIDE DEF announced, previewed, dwelt, snap, h, B, early, again
<1>7. PICK a \in BOOLEAN, i \in BOOLEAN, e \in BOOLEAN :
        /\ job' = [job EXCEPT !.announced = a, !.indexed = i,
                              !.state = IF e THEN "STARTED" ELSE @, !.early = e]
        /\ e <=> early
  BY <1>1, <1>3 DEF IInv, Typed, JobRecord, JobFields
<1>8. job'.state = IF e THEN "STARTED" ELSE job.state
  BY <1>7 DEF IInv, Typed, JobRecord, JobFields
<1>9. PICK s : s = snap
  OBVIOUS
<1>10. PICK g : g = h
  OBVIOUS
<1>11. /\ s \in BOOLEAN /\ (EarlyRun(g) => s)
       /\ EarlyRun(g) /\ Verdict(Report(g)) = "PASS" /\ ProtectionAllows(config, now) => e
       /\ recheck' \in {Never, recheck, LookAgain(Report(g))}
       /\ forceAt' = IF e \/ job.state # "PLANNED" THEN Never
                     ELSE Earliest(ForceTransitions(config, Report(g), g, LookAgain(Report(g)), now))
  BY <1>1, <1>2, <1>3, <1>5, <1>6, <1>7, <1>9, <1>10
<1>12. /\ held' = g
       /\ \A k \in ZoneKinds : g[k] = IF s THEN Snapped(OwnMode)[k] ELSE held[k]
       /\ \A k \in Conditions : \E d : g[k] = Dwelt(d)[k]
  BY <1>1, <1>4, <1>9, <1>10
<1> QED
  BY <1>7, <1>8, <1>11, <1>12

\* scheduler_engine.py: the instants of _force_next_transition_at.
LEMMA NextTransition ==
  ASSUME IInv, NEW B, NEW h, NEW r \in Int, NEW f, f = Earliest(ForceTransitions(config, B, h, r, now)),
         \A k \in Conditions : h[k] \in Int
  PROVE  /\ f \in Int
         /\ config.advance > 0 /\ now < ForceOpens(config) => f > now /\ f <= ForceOpens(config)
         /\ config.advance > 0 /\ ~(now < ForceOpens(config)) =>
              /\ \A k \in UNION config.groups : h[k] # Never /\ h[k] + Delay(config, k) > now =>
                    f > now /\ f <= h[k] + Delay(config, k)
              /\ ConditionsMatched(config, h, now) /\ r > now => f > now /\ f <= r
<1>1. PICK n \in Nat : n = now
  BY Schedules
<1>2. /\ config.planned \in Int /\ config.advance \in Int /\ config.next \in Int /\ config.time \in Int
      /\ ForceOpens(config) \in Int /\ Never \in Int
      /\ IsWired(config) /\ \A k \in Kinds : Delay(config, k) \in Int
  BY Schedules DEF Never
<1>3. \A k \in UNION config.groups : k \in Conditions /\ k \in Kinds
  BY <1>2 DEF IsWired, Kinds
<1>4. CASE config.advance = 0
  BY <1>2, <1>4 DEF ForceTransitions, Earliest
<1>5. CASE config.advance # 0 /\ now < ForceOpens(config)
  <2>1. f = Earliest({ForceOpens(config)})
    BY <1>5 DEF ForceTransitions
  <2>2. {ForceOpens(config)} = {x \in {ForceOpens(config)} : x > n}
    BY <1>1, <1>5
  <2>3. f = Earliest({x \in {ForceOpens(config)} : x > n}) /\ {ForceOpens(config)} \subseteq Int
    BY <1>2, <2>1, <2>2
  <2>4. f \in Int /\ \A x \in {ForceOpens(config)} : x > n => f > n /\ f <= x
    BY <2>3, Soonest
  <2> QED
    BY <1>1, <1>5, <2>4
<1>6. CASE config.advance # 0 /\ ~(now < ForceOpens(config))
  <2>1. PICK D : D = {Until(config, k, h[k], now) : k \in {x \in UNION config.groups : h[x] # Never}}
    OBVIOUS
  <2>2. PICK safe : safe = IF config.next = Never \/ config.preempts \/ Verdict(B) # "PASS"
                              \/ ~ProtectionAllows(config, now) THEN {}
                           ELSE {config.next - (IF config.time = Never THEN 0 ELSE config.time) + 1}
    OBVIOUS
  <2>3. PICK M : M = IF ConditionsMatched(config, h, now) THEN {r} \cup safe ELSE {}
    OBVIOUS
  <2>4. PICK T : T = {config.planned} \cup D \cup M
    OBVIOUS
  <2>5. f = Earliest({x \in T : x > n})
    BY <1>1, <1>6, <2>1, <2>2, <2>3, <2>4 DEF ForceTransitions
  <2>6. \A k \in UNION config.groups : h[k] # Never => h[k] + Delay(config, k) \in D
    BY <2>1 DEF Until
  <2>7. D \subseteq Int
    <3>1. \A k \in UNION config.groups : h[k] # Never => Until(config, k, h[k], now) \in Int
      BY <1>2, <1>3 DEF Until
    <3> QED
      BY <2>1, <3>1
  <2>8. safe \subseteq Int
    BY <1>2, <2>2
  <2>9. T \subseteq Int
    BY <1>2, <2>3, <2>4, <2>7, <2>8
  <2>10. f \in Int /\ \A x \in T : x > n => f > n /\ f <= x
    BY <2>5, <2>9, Soonest
  <2> QED
    BY <1>1, <1>6, <2>3, <2>4, <2>6, <2>10
<1> QED
  BY <1>4, <1>5, <1>6

LEMMA PreviewLooks ==
  ASSUME IInv, Times, Preview, UNCHANGED <<now, options, hass>>, evaluated' = now
  PROVE  /\ recheck' \in Int /\ forceAt' \in Int
         /\ \A k \in ZoneKinds : Past(k)'
         /\ job'.state # "WAIT"
         /\ Active' => Prospect'
<1>1. PICK h : h = held'
  OBVIOUS
<1>2. PICK B : B = Report(h)
  OBVIOUS
<1>3. PICK r : r = LookAgain(B)
  OBVIOUS
<1>4. PICK snap \in BOOLEAN, early \in BOOLEAN :
        /\ \A k \in ZoneKinds : h[k] = IF snap THEN Snapped(OwnMode)[k] ELSE held[k]
        /\ \A k \in Conditions : \E d : h[k] = Dwelt(d)[k]
        /\ EarlyRun(h) => snap
        /\ EarlyRun(h) /\ Verdict(B) = "PASS" /\ ProtectionAllows(config, now) => early
        /\ job'.state = IF early THEN "STARTED" ELSE job.state
        /\ recheck' \in {Never, recheck, r}
        /\ forceAt' = IF early \/ job.state # "PLANNED" THEN Never
                      ELSE Earliest(ForceTransitions(config, B, h, r, now))
  BY <1>1, <1>2, <1>3, Previews
<1>5. /\ now \in Int /\ config.planned \in Int /\ config.deadline \in Int /\ config.planned < config.deadline
      /\ config.next \in Int /\ config.time \in Int /\ ForceOpens(config) \in Int
      /\ IsWired(config) /\ Never \in Int /\ \A k \in Kinds : Delay(config, k) \in Int
  BY Schedules DEF Never
<1>6. Active /\ now < config.planned
  BY DEF Preview
<1>7. job.state = "PLANNED"
  BY <1>5, <1>6 DEF Active, Times
<1>8. ASSUME NEW k \in ZoneKinds
      PROVE  h[k] \in Int /\ h[k] <= now /\ (Delay(config, k) = 0 => h[k] = Never)
  <2>1. CASE snap
    <3>1. h[k] = Stabilize(config, k, sensor, OwnMode, held[k], now)
      BY <1>4, <2>1 DEF Snapped, Kinds
    <3> QED
      BY <3>1, SnapPast DEF Times, Past
  <2>2. CASE ~snap
    <3>1. held[k] \in Int
      BY Schedules DEF Kinds
    <3> QED
      BY <1>4, <2>2, <3>1 DEF Times, Past
  <2> QED
    BY <2>1, <2>2
<1>9. ASSUME NEW k \in Conditions PROVE h[k] \in Int
  <2>1. PICK d : h[k] = Dwelt(d)[k]
    BY <1>4
  <2> QED
    BY <2>1, Dwells
<1>10. /\ r \in Int
       /\ B # {} => \A t \in Int : now <= t /\ t < config.deadline /\ (r > now => r > t) => StillBlocked(h, t)
  BY <1>2, <1>3, <1>8, ReportStays
<1>11. PICK f : f = Earliest(ForceTransitions(config, B, h, r, now))
  OBVIOUS
<1>12. /\ f \in Int
       /\ config.advance > 0 /\ now < ForceOpens(config) => f > now /\ f <= ForceOpens(config)
       /\ config.advance > 0 /\ ~(now < ForceOpens(config)) =>
              /\ \A k \in UNION config.groups : h[k] # Never /\ h[k] + Delay(config, k) > now =>
                    f > now /\ f <= h[k] + Delay(config, k)
              /\ ConditionsMatched(config, h, now) /\ r > now => f > now /\ f <= r
  BY <1>9, <1>10, <1>11, NextTransition
<1>13. \A k \in ZoneKinds : Past(k)'
  BY <1>1, <1>8 DEF Past, options
<1>14. ASSUME Active' PROVE Prospect'
  <2>1. job'.state = "PLANNED" /\ ~early /\ forceAt' = f
    BY <1>4, <1>7, <1>11, <1>14 DEF Active
  <2>2. ASSUME NEW t \in Int, Before(t)', config.advance > 0, t >= ForceOpens(config)
        PROVE  Unmatched(config, sensor, h, t) \/ ~ProtectionAllows(config, t) \/ StillBlocked(h, t)
    <3>1. config.deadline \in Targets' /\ config.planned \in Targets' /\ f \in Targets'
      BY <2>1 DEF Targets, options
    <3>2. now <= t /\ (config.deadline > now => config.deadline > t) /\ (f > now => f > t)
      BY <2>2, <3>1 DEF Before
    <3>3. t < config.deadline
      BY <1>5, <1>6, <3>2
    <3>4. ~(now < ForceOpens(config))
      BY <1>5, <1>12, <2>2, <3>2
    <3>5. CASE ~ConditionsMatched(config, h, now)
      <4>1. ASSUME NEW g \in config.groups, g # {}
            PROVE  \E k \in g : ~Good(config, k, sensor) \/ (h[k] # Never /\ h[k] + Delay(config, k) > t)
        <5>1. PICK k \in g : ~Matured(config, k, h, now)
          BY <3>5, <4>1 DEF ConditionsMatched
        <5>2. k \in Conditions /\ k \in UNION config.groups /\ k \in Kinds
          BY <1>5 DEF IsWired, Kinds
        <5>3. CASE h[k] = Never
          <6>1. PICK d : h[k] = Dwelt(d)[k]
            BY <1>4, <5>2
          <6>2. ~Good(config, k, sensor)
            BY <1>7, <2>2, <3>4, <5>2, <5>3, <6>1, <1>5, DwellsGood
          <6> QED
            BY <6>2
        <5>4. CASE h[k] # Never
          <6>1. h[k] \in Int /\ Delay(config, k) \in Int
            BY <1>5, <1>9, <5>2
          <6>2. h[k] + Delay(config, k) > now
            BY <1>5, <5>1, <5>4, <6>1 DEF Matured, Until
          <6>3. f > now /\ f <= h[k] + Delay(config, k)
            BY <1>12, <2>2, <3>4, <5>2, <5>4, <6>2
          <6> QED
            BY <1>12, <3>2, <5>4, <6>1, <6>3
        <5> QED
          BY <5>3, <5>4
      <4> QED
        BY <4>1 DEF Unmatched
    <3>6. CASE ConditionsMatched(config, h, now) /\ ~ProtectionAllows(config, now)
      <4>1. ~ProtectionAllows(config, t)
        BY <1>5, <3>2, <3>6 DEF ProtectionAllows
      <4> QED
        BY <4>1
    <3>7. CASE ConditionsMatched(config, h, now) /\ ProtectionAllows(config, now)
      <4>1. EarlyRun(h)
        BY <1>5, <1>7, <2>2, <3>4, <3>7 DEF EarlyRun
      <4>2. Verdict(B) # "PASS"
        BY <1>4, <2>1, <3>7, <4>1
      <4>3. B # {}
        BY <1>2, <4>2, ReportFacts
      <4>4. r > now => r > t
        BY <1>5, <1>10, <1>12, <2>2, <3>2, <3>4, <3>7
      <4> QED
        BY <1>10, <3>2, <3>3, <4>3, <4>4
    <3> QED
      BY <3>5, <3>6, <3>7
  <2>3. ASSUME NEW t \in Int, Before(t)' PROVE Waits(t)'
    <3>1. StillBlocked(h, t) => Blocked(t)'
      BY <1>1, Zenon DEF StillBlocked, Blocked, OwnMode, InMode, options, hass
    <3>2. config' = config /\ sensor' = sensor
      BY DEF options, hass
    <3> QED
      BY <1>1, <2>1, <2>2, <2>3, <3>1, <3>2 DEF Waits
  <2>4. now < config.deadline
    BY <1>5, <1>6
  <2> QED
    BY <1>6, <2>1, <2>3, <2>4 DEF Prospect, options
<1> QED
  BY <1>4, <1>7, <1>10, <1>11, <1>12, <1>13, <1>14, <1>5 DEF Times

-----------------------------------------------------------------------------
(* Every step keeps the wake-ups *)

LEMMA TimesStill ==
  ASSUME IInv, Times, now' \in {now, now + 1}, config' = config, evaluated' \in {evaluated, now},
         recheck' \in {recheck, Never}, forceAt' \in {forceAt, Never},
         job'.state = "WAIT" => job.state = "WAIT",
         \A k \in ZoneKinds : \/ held'[k] = held[k]
                              \/ \E o, h : h \in {held[k], Never} /\ held'[k] = Stabilize(config, k, sensor, o, h, now)
  PROVE  Times'
<1>1. now \in Int /\ config.planned \in Int /\ Never \in Int /\ \A k \in ZoneKinds : held[k] \in Int
  BY Schedules DEF Never, Kinds
<1>2. ASSUME NEW k \in ZoneKinds PROVE Past(k)'
  <2>1. CASE held'[k] = held[k]
    BY <1>1, <2>1 DEF Times, Past
  <2>2. CASE ~(held'[k] = held[k])
    <3>1. PICK o, h : h \in {held[k], Never} /\ held'[k] = Stabilize(config, k, sensor, o, h, now)
      BY <2>2
    <3>2. held[k] <= now
      BY DEF Times, Past
    <3>3. PICK x : x = held'[k]
      OBVIOUS
    <3>4. x \in Int /\ x <= now /\ (Delay(config, k) = 0 => x = Never)
      BY <3>1, <3>2, <3>3, SnapPast
    <3> QED
      BY <1>1, <3>3, <3>4 DEF Past
  <2> QED
    BY <2>1, <2>2
<1> QED
  BY <1>1, <1>2 DEF Times

LEMMA TimesKeep ==
  ASSUME IInv, Times, [Next]_vars
  PROVE  Times'
<1>1. CASE UNCHANGED vars
  BY <1>1, TimesStill DEF vars, options
<1>2. CASE Tick
  BY <1>2, TimesStill DEF Tick, options
<1>3. CASE Inputs
  <2>1. UNCHANGED <<now, config, held, job, recheck, forceAt, evaluated>>
    BY <1>3 DEF Inputs, Sense, DeviceChanges, options
  <2> QED
    BY <2>1, TimesStill
<1>4. ASSUME NEW t, Enter(t) PROVE Times'
  <2>1. UNCHANGED <<now, options, hass>> /\ evaluated' = now
    BY <1>4 DEF Enter
  <2>2. now' = now /\ config' = config /\ now \in Int
    BY <2>1, Schedules DEF options
  <2>3. ASSUME NEW s \in {"SUPPRESSED", "FAILED"}, Finish(s) PROVE Times'
    <3>1. /\ job' = [job EXCEPT !.state = s] /\ held' = held
          /\ recheck' = Never /\ forceAt' = Never
      BY <2>3 DEF Finish
    <3>2. job'.state = s /\ s # "WAIT"
      BY <2>3, <3>1 DEF IInv, Typed, JobRecord, JobFields
    <3> QED
      BY <2>1, <2>2, <3>1, <3>2, TimesStill
  <2>4. CASE Suppress \/ Expire
    BY <2>3, <2>4 DEF Suppress, Expire
  <2>5. CASE Preview
    BY <2>1, <2>2, <2>5, PreviewLooks DEF Times
  <2>6. CASE Authorise
    BY <2>1, <2>2, <2>6, AuthoriseLooks DEF Times
  <2> QED
    BY <1>4, <2>4, <2>5, <2>6 DEF Enter
<1>5. CASE Reconciling /\ ~(\E t \in queue : Enter(t))
  <2>1. UNCHANGED <<now, options, hass, held, job, recheck, forceAt, evaluated>>
    BY <1>5 DEF Reconciling, Debounced, TimerDue, Release, Arm
  <2> QED
    BY <2>1, TimesStill DEF options
<1>6. ASSUME NEW allow, Look(allow) PROVE Times'
  <2>1. UNCHANGED <<now, config, job, recheck, forceAt, evaluated>> /\ held' = Snapped(InMode(allow))
    BY <1>6 DEF Look, Snapshot, options
  <2>2. \A k \in ZoneKinds : held'[k] = Stabilize(config, k, sensor, InMode(allow), held[k], now)
    BY <2>1 DEF Snapped, Kinds
  <2> QED
    BY <2>1, <2>2, TimesStill
<1>7. ASSUME \A k \in ZoneKinds : held'[k] = Stabilize(config, k, sensor, override, Never, now),
             UNCHANGED <<now, config, evaluated>>, recheck' \in {recheck, Never}, forceAt' \in {forceAt, Never},
             job'.state \in {job.state, "PLANNED"}
      PROVE  Times'
  <2>1. \A k \in ZoneKinds : Never \in {held[k], Never} /\ held'[k] = Stabilize(config, k, sensor, override, Never, now)
    BY <1>7
  <2>2. job'.state = "WAIT" => job.state = "WAIT"
    BY <1>7
  <2> QED
    BY <1>7, <2>1, <2>2, TimesStill
<1>8. ResetAndSubscribe => \A k \in ZoneKinds : held'[k] = Stabilize(config, k, sensor, override, Never, now)
  BY DEF ResetAndSubscribe, Kinds
<1>9. ASSUME NEW g, SetGate(g) PROVE Times'
  <2>1. ResetAndSubscribe /\ UNCHANGED <<now, config, evaluated, recheck, forceAt, job>>
    BY <1>9 DEF SetGate
  <2> QED
    BY <1>7, <1>8, <2>1
<1>10. CASE GoReal
  <2>1. ResetAndSubscribe /\ UNCHANGED <<now, config, evaluated, forceAt>> /\ recheck' = Never
    BY <1>10 DEF GoReal
  <2>2. job'.state = "PLANNED"
    BY <1>10 DEF GoReal, IInv, Typed, JobRecord, JobFields
  <2> QED
    BY <1>7, <1>8, <2>1, <2>2
<1>11. CASE Reload
  <2>1. UNCHANGED <<now, config, evaluated, recheck>> /\ forceAt' = Never
    BY <1>11 DEF Reload, options
  <2>2. job'.state = job.state
    BY <1>11 DEF Reload, IInv, Typed, JobRecord, JobFields
  <2>3. \A k \in ZoneKinds : held'[k] = Stabilize(config, k, sensor, override, Never, now)
    BY <1>11 DEF Reload, Kinds
  <2> QED
    BY <1>7, <2>1, <2>2, <2>3
<1>12. ASSUME NEW o, SetOverride(o) \/ Watchdog PROVE Times'
  <2>1. UNCHANGED <<now, config, held, job, recheck, forceAt, evaluated>>
    BY <1>12 DEF SetOverride, Watchdog, options
  <2> QED
    BY <2>1, TimesStill
<1>13. CASE Operating
  BY <1>6, <1>9, <1>10, <1>11, <1>12, <1>13 DEF Operating
<1> QED
  BY <1>1, <1>2, <1>3, <1>4, <1>5, <1>13 DEF Next, Reconciling

LEMMA TasksKeep ==
  ASSUME Tasks, [Next]_vars
  PROVE  Tasks'
<1> USE DEF Tasks, Someone, Nobody
<1>1. CASE UNCHANGED vars
  BY <1>1 DEF vars, tasks
<1>2. CASE Tick
  BY <1>2 DEF Tick, tasks
<1>3. ASSUME NEW s, NEW st, Sense(s, st) PROVE Tasks'
  BY <1>3 DEF Sense, Heard, Request, Indexed
<1>4. ASSUME NEW d, DeviceChanges(d) PROVE Tasks'
  BY <1>4 DEF DeviceChanges, Request
<1>5. CASE Debounced
  BY <1>5 DEF Debounced
<1>6. ASSUME NEW t, TimerDue(t) PROVE Tasks'
  BY <1>6 DEF TimerDue
<1>7. ASSUME NEW t \in queue, Enter(t) PROVE Tasks'
  BY <1>7 DEF Enter
<1>8. CASE Release
  BY <1>8 DEF Release
<1>9. ASSUME NEW t \in tails, Arm(t) PROVE Tasks'
  BY <1>9 DEF Arm, After
<1>10. ASSUME NEW allow, Look(allow) PROVE Tasks'
  BY <1>10 DEF Look, tasks
<1>11. ASSUME NEW x, Watchdog \/ GoReal \/ SetOverride(x) \/ SetGate(x) PROVE Tasks'
  <2>1. queue' = queue \cup {"timer"} /\ UNCHANGED <<holder, tails, drain, requested, index>>
    BY <1>11 DEF Watchdog, GoReal, SetOverride, SetGate
  <2> QED
    BY <2>1
<1>12. CASE Reload
  BY <1>12 DEF Reload
<1> QED
  BY <1>1, <1>2, <1>3, <1>4, <1>5, <1>6, <1>7, <1>8, <1>9, <1>10, <1>11, <1>12
     DEF Next, Inputs, Reconciling, Operating

LEMMA FollowedKeep ==
  ASSUME IInv, Times, Followed, [Next]_vars
  PROVE  Followed'
<1> USE DEF Followed
<1>1. job \in JobFields
  BY DEF IInv, Typed, JobRecord
<1>2. ASSUME UNCHANGED job, queue \subseteq queue' PROVE Followed'
  BY <1>2
<1>3. ASSUME "timer" \in queue' PROVE Followed'
  BY <1>3
<1>4. CASE UNCHANGED vars \/ Tick
  BY <1>2, <1>4 DEF vars, tasks, Tick
<1>5. CASE Inputs
  BY <1>2, <1>5 DEF Inputs, Sense, DeviceChanges, Heard, Request
<1>6. CASE Debounced
  BY <1>2, <1>6 DEF Debounced
<1>7. ASSUME NEW t, TimerDue(t) PROVE Followed'
  BY <1>3, <1>7 DEF TimerDue
<1>8. ASSUME NEW t, Enter(t) PROVE Followed'
  <2>1. CASE Suppress \/ Expire
    BY <1>1, <2>1 DEF Suppress, Expire, Finish, JobFields
  <2>2. CASE Preview
    BY <1>8, <2>2, PreviewLooks DEF Enter
  <2>3. CASE Authorise
    BY <1>1, <2>3 DEF Authorise, JobFields
  <2> QED
    BY <1>8, <2>1, <2>2, <2>3 DEF Enter
<1>9. CASE Release
  BY <1>2, <1>9 DEF Release
<1>10. ASSUME NEW t, Arm(t) PROVE Followed'
  BY <1>2, <1>10 DEF Arm, After
<1>11. ASSUME NEW allow, Look(allow) PROVE Followed'
  BY <1>2, <1>11 DEF Look, tasks
<1>12. ASSUME NEW x, Watchdog \/ GoReal \/ Reload \/ SetOverride(x) \/ SetGate(x) PROVE Followed'
  BY <1>3, <1>12 DEF Watchdog, GoReal, Reload, SetOverride, SetGate
<1> QED
  BY <1>4, <1>5, <1>6, <1>7, <1>8, <1>9, <1>10, <1>11, <1>12 DEF Next, Reconciling, Operating

\* A hold of the occupancy under a busy override: none, or the sensors' own.
LEMMA SeedsOnly ==
  ASSUME IInv, override = "busy", NEW o \in {"busy", "none"}, NEW h \in {held["occupancy"], Never},
         held["occupancy"] # Never => \E s \in config.busy : held["occupancy"] <= sensor[s].since,
         NEW x, x = Stabilize(config, "occupancy", sensor, o, h, now), x # Never
  PROVE  \E s \in config.busy : x <= sensor[s].since
<1>1. now \in Nat /\ IsWired(config) /\ Known(sensor, now)
  BY Schedules DEF IInv, Typed
<1>2. Delay(config, "occupancy") # 0 /\ Occupied(config, sensor, o) = "free"
  BY DEF Stabilize, IsGood
<1>3. o = "none"
  BY <1>2 DEF Occupied
<1>4. x = h \/ x = Seed(config, "occupancy", sensor)
  BY <1>3 DEF Stabilize
<1>5. CASE x = h
  BY <1>5
<1>6. CASE x = Seed(config, "occupancy", sensor)
  <2>1. Seed(config, "occupancy", sensor) \in 0..now
    BY <1>1, <1>2, OccupancySeed
  <2>2. PICK s \in config.busy : Seed(config, "occupancy", sensor) = sensor[s].since
    BY <1>1, <1>2, OccupancySeed
  <2> QED
    BY <1>6, <2>1, <2>2
<1> QED
  BY <1>4, <1>5, <1>6

LEMMA SeededKeep ==
  ASSUME IInv, Seeded, [Next]_vars
  PROVE  Seeded'
<1>1. ASSUME UNCHANGED <<config, mode, override, sensor>>,
             \/ held'["occupancy"] = held["occupancy"]
             \/ \E o, h : /\ override = "busy" /\ mode # "DRY_RUN" => o \in {"busy", "none"}
                          /\ h \in {held["occupancy"], Never}
                          /\ held'["occupancy"] = Stabilize(config, "occupancy", sensor, o, h, now)
      PROVE  Seeded'
  <2>1. SUFFICES ASSUME mode # "DRY_RUN", override = "busy", held'["occupancy"] # Never
                 PROVE  \E s \in config.busy : held'["occupancy"] <= sensor[s].since
    BY <1>1 DEF Seeded
  <2>2. CASE held'["occupancy"] = held["occupancy"]
    BY <2>1, <2>2 DEF Seeded
  <2>3. CASE ~(held'["occupancy"] = held["occupancy"])
    <3>1. PICK o \in {"busy", "none"}, h \in {held["occupancy"], Never} :
            held'["occupancy"] = Stabilize(config, "occupancy", sensor, o, h, now)
      BY <1>1, <2>1, <2>3
    <3>2. PICK x : x = held'["occupancy"]
      OBVIOUS
    <3>3. held["occupancy"] # Never => \E s \in config.busy : held["occupancy"] <= sensor[s].since
      BY <2>1 DEF Seeded
    <3>4. \E s \in config.busy : x <= sensor[s].since
      BY <2>1, <3>1, <3>2, <3>3, SeedsOnly
    <3> QED
      BY <3>2, <3>4
  <2> QED
    BY <2>2, <2>3
<1>2. CASE UNCHANGED vars
  BY <1>1, <1>2 DEF vars, options, hass
<1>3. CASE Tick
  BY <1>1, <1>3 DEF Tick, options, hass
<1>4. ASSUME NEW s \in Sensors, NEW st, Sense(s, st) PROVE Seeded'
  <2>1. /\ UNCHANGED <<config, mode, override, held>>
        /\ sensor' = [sensor EXCEPT ![s] = [st |-> st, since |-> now]]
    BY <1>4 DEF Sense, options
  <2>2. now \in Nat /\ Known(sensor, now) /\ IsWired(config) /\ held["occupancy"] \in Int
    BY Schedules DEF IInv, Typed, Kinds, ZoneKinds
  <2>3. \A r \in Sensors : sensor[r].since \in Int /\ sensor'[r].since \in Int /\ sensor[r].since <= sensor'[r].since
    BY <2>1, <2>2 DEF Known
  <2>4. config.busy \subseteq Sensors
    BY <2>2 DEF IsWired
  <2> QED
    BY <2>1, <2>2, <2>3, <2>4 DEF Seeded
<1>5. ASSUME NEW d, DeviceChanges(d) PROVE Seeded'
  BY <1>1, <1>5 DEF DeviceChanges, options
<1>6. ASSUME NEW t, Enter(t) PROVE Seeded'
  <2>1. UNCHANGED <<config, mode, override, sensor>>
    BY <1>6 DEF Enter, options, hass
  <2>2. override = "busy" /\ mode # "DRY_RUN" => OwnMode \in {"busy", "none"}
    BY DEF OwnMode, InMode
  <2>3. CASE Suppress \/ Expire
    BY <1>1, <2>1, <2>3 DEF Suppress, Expire, Finish
  <2>4. Snapped(OwnMode)["occupancy"] = Stabilize(config, "occupancy", sensor, OwnMode, held["occupancy"], now)
    BY DEF Snapped, Kinds, ZoneKinds
  <2>5. CASE Preview
    <3>1. PICK snap \in BOOLEAN :
            \A k \in ZoneKinds : held'[k] = IF snap THEN Snapped(OwnMode)[k] ELSE held[k]
      BY <2>5, Previews
    <3>2. held'["occupancy"] = IF snap THEN Snapped(OwnMode)["occupancy"] ELSE held["occupancy"]
      BY <3>1 DEF ZoneKinds
    <3> QED
      BY <1>1, <2>1, <2>2, <2>4, <3>2
  <2>6. CASE Authorise
    <3>1. held'["occupancy"] = Snapped(OwnMode)["occupancy"]
      BY <2>6 DEF Authorise, Kinds, ZoneKinds
    <3> QED
      BY <1>1, <2>1, <2>2, <2>4, <3>1
  <2> QED
    BY <1>6, <2>3, <2>5, <2>6 DEF Enter
<1>7. CASE Reconciling /\ ~(\E t \in queue : Enter(t))
  <2>1. UNCHANGED <<options, hass, held>>
    BY <1>7 DEF Reconciling, Debounced, TimerDue, Release, Arm
  <2> QED
    BY <1>1, <2>1 DEF options, hass
<1>8. ASSUME NEW allow, Look(allow) PROVE Seeded'
  <2>1. UNCHANGED <<config, mode, override, sensor>> /\ held' = Snapped(InMode(allow))
    BY <1>8 DEF Look, Snapshot, options, hass
  <2>2. held'["occupancy"] = Stabilize(config, "occupancy", sensor, InMode(allow), held["occupancy"], now)
    BY <2>1 DEF Snapped, Kinds, ZoneKinds
  <2>3. override = "busy" => InMode(allow) \in {"busy", "none"}
    BY DEF InMode
  <2> QED
    BY <1>1, <2>1, <2>2, <2>3
<1>9. ASSUME UNCHANGED <<override>>, held'["occupancy"] = Stabilize(config, "occupancy", sensor, override, Never, now)
      PROVE  Seeded'
  <2>1. override = "busy" => held'["occupancy"] = Never
    BY <1>9 DEF Stabilize, IsGood, Occupied
  <2> QED
    BY <1>9, <2>1 DEF Seeded
<1>10. ResetAndSubscribe => held'["occupancy"] = Stabilize(config, "occupancy", sensor, override, Never, now)
  BY DEF ResetAndSubscribe, Kinds, ZoneKinds
<1>11. ASSUME NEW g, SetGate(g) \/ GoReal PROVE Seeded'
  BY <1>9, <1>10, <1>11 DEF SetGate, GoReal
<1>12. CASE Reload
  <2>1. held'["occupancy"] = Stabilize(config, "occupancy", sensor, override, Never, now)
    BY <1>12 DEF Reload, Kinds, ZoneKinds
  <2> QED
    BY <1>9, <1>12, <2>1 DEF Reload, options
<1>13. ASSUME NEW o, SetOverride(o) PROVE Seeded'
  BY <1>13 DEF SetOverride, Seeded
<1>14. CASE Watchdog
  BY <1>1, <1>14 DEF Watchdog, options, hass
<1> QED
  BY <1>2, <1>3, <1>4, <1>5, <1>6, <1>7, <1>8, <1>11, <1>12, <1>13, <1>14
     DEF Next, Inputs, Reconciling, Operating

\* scheduler_engine.py: a task that has ended has armed every later instant.
LEMMA ArmedKeep ==
  ASSUME IInv, Times, Tasks, Armed, [Next]_vars
  PROVE  Armed'
<1>1. /\ now \in Int /\ config.deadline \in Int /\ config.planned \in Int /\ config.warning \in Int
      /\ recheck \in Int /\ forceAt \in Int
  BY Schedules DEF Times
<1>2. Targets \subseteq Int
  BY <1>1 DEF Targets
<1>3. ASSUME UNCHANGED <<config, job, recheck, forceAt, timers, evaluated>>, missed => missed',
             queue' = {} /\ holder' = Nobody /\ tails' = {} => queue = {} /\ holder = Nobody /\ tails = {}
      PROVE  Armed'
  BY <1>3 DEF Armed, Active, Targets
<1>4. ASSUME queue' # {} \/ holder' # Nobody \/ tails' # {} PROVE Armed'
  BY <1>4 DEF Armed
<1>5. CASE UNCHANGED vars
  BY <1>3, <1>5 DEF vars, options, tasks
<1>6. CASE Tick
  BY <1>3, <1>6 DEF Tick, options, tasks
<1>7. ASSUME NEW s, NEW st, Sense(s, st) PROVE Armed'
  <2>1. /\ UNCHANGED <<config, job, recheck, forceAt, timers, evaluated, holder, tails>>
        /\ missed => missed'
    BY <1>7 DEF Sense, options
  <2>2. queue \subseteq queue'
    BY <1>7 DEF Sense, Heard, Request
  <2> QED
    BY <1>3, <2>1, <2>2
<1>8. ASSUME NEW d, DeviceChanges(d) PROVE Armed'
  <2>1. queue \subseteq queue'
    BY <1>8 DEF DeviceChanges, Request
  <2> QED
    BY <1>3, <1>8, <2>1 DEF DeviceChanges, options
<1>9. CASE Debounced
  <2>1. queue \subseteq queue'
    BY <1>9 DEF Debounced
  <2> QED
    BY <1>3, <1>9, <2>1 DEF Debounced, options
<1>10. ASSUME NEW t, TimerDue(t) PROVE Armed'
  BY <1>4, <1>10 DEF TimerDue
<1>11. ASSUME NEW t \in queue, Enter(t) PROVE Armed'
  BY <1>4, <1>11 DEF Enter, Tasks
<1>12. CASE Release
  BY <1>4, <1>12 DEF Release
<1>13. ASSUME NEW t \in tails, Arm(t) PROVE Armed'
  <2>1. /\ UNCHANGED <<config, job, recheck, forceAt, evaluated, now>>
        /\ timers' = {x \in Targets : x > now}
        /\ missed' <=> (missed \/ \E x \in Targets : evaluated < x /\ x <= now)
    BY <1>13 DEF Arm, options
  <2>2. Targets' = Targets
    BY <2>1 DEF Targets
  <2>3. ASSUME ~missed', NEW x \in Targets, x > evaluated PROVE x \in timers'
    <3>1. ~(evaluated < x /\ x <= now) /\ x \in Int /\ evaluated \in Int
      BY <1>2, <2>1, <2>3 DEF Times
    <3>2. x > now
      BY <1>1, <2>3, <3>1
    <3> QED
      BY <2>1, <3>2
  <2> QED
    BY <2>1, <2>2, <2>3 DEF Armed
<1>14. ASSUME NEW allow, Look(allow) PROVE Armed'
  BY <1>3, <1>14 DEF Look, options, tasks
<1>15. ASSUME NEW x, Watchdog \/ GoReal \/ SetOverride(x) \/ SetGate(x) PROVE Armed'
  <2>1. queue' = queue \cup {"timer"}
    BY <1>15 DEF Watchdog, GoReal, SetOverride, SetGate
  <2> QED
    BY <1>4, <2>1
<1>16. CASE Reload
  BY <1>4, <1>16 DEF Reload
<1> QED
  BY <1>5, <1>6, <1>7, <1>8, <1>9, <1>10, <1>11, <1>12, <1>13, <1>14, <1>15, <1>16
     DEF Next, Inputs, Reconciling, Operating

\* A sensor that nobody heard of is none that the occurrence waits for.
LEMMA UnheardKeeps ==
  ASSUME IInv, OverrideKnown, Tasks, Followed, Seen, NEW s \in Sensors, NEW st, Sense(s, st)
  PROVE  Seen'
<1>1. /\ UNCHANGED <<config, gate, mode, override, device, held, job, recheck, forceAt, evaluated>>
      /\ missed => missed'
      /\ sensor' = [sensor EXCEPT ![s] = [st |-> st, since |-> now]]
  BY DEF Sense, options
<1>2. PICK heard \in BOOLEAN : heard <=> s \in watched \cup ForceSensors(config)
  OBVIOUS
<1>3. SUFFICES ASSUME Active', Heeded' PROVE Prospect'
  BY DEF Seen
<1>4. ~heard
  BY <1>2, <1>3 DEF Sense, Heard, Request, Heeded
<1>5. UNCHANGED <<drain, requested, queue>>
  BY <1>2, <1>4 DEF Sense, Heard
<1>6. s \in ZoneSensors(config) => ~job.indexed /\ ~(config.advance > 0) /\ index # "calling"
  <2>1. SUFFICES ASSUME s \in ZoneSensors(config)
                 PROVE  ~job.indexed /\ ~(config.advance > 0) /\ index # "calling"
    OBVIOUS
  <2>2. ~missed' /\ ~(index' = "sleeping" /\ pending')
    BY <1>3 DEF Heeded
  <2>3. index # "calling" /\ ~(~job.indexed /\ config.advance > 0)
    BY <1>2, <1>4, <2>1, <2>2 DEF Sense
  <2>4. job.indexed => pending' = TRUE /\ index' = IF index = "idle" THEN "sleeping" ELSE index
    BY <1>2, <1>4, <2>1 DEF Sense, Indexed
  <2> QED
    BY <2>2, <2>3, <2>4 DEF Tasks
<1>7. UNCHANGED <<pending, index>>
  BY <1>2, <1>4, <1>6 DEF Sense, Indexed
<1>8. Active /\ Heeded
  BY <1>1, <1>3, <1>5, <1>7 DEF Active, Heeded
<1>9. Prospect
  BY <1>8 DEF Seen
<1>10. IsWired(config) /\ config.advance \in Int /\ sensor = [r \in Sensors |-> sensor[r]]
  BY Schedules DEF IInv, Typed, Known
<1>11. PICK R : R = sensor'
  OBVIOUS
<1>12. \A r \in Sensors : r # s => R[r] = sensor[r]
  BY <1>1, <1>10, <1>11
<1>13. ASSUME s \notin ZoneSensors(config)
       PROVE  /\ \A h, t : AccessBlocks(config, sensor, h, t) => AccessBlocks(config, R, h, t)
              /\ \A m, o, h, e, t : OccupancyBlocks(config, sensor, m, o, h, e, t)
                                       => OccupancyBlocks(config, R, m, o, h, e, t)
  <2>1. ZoneSensors(config) \subseteq Sensors
    BY <1>10 DEF ZoneSensors, IsWired
  <2>2. \A r \in ZoneSensors(config) : sensor[r] = R[r]
    BY <1>12, <1>13, <2>1
  <2> QED
    BY <2>2, Elsewhere
<1>14. s \in ZoneSensors(config) => job.state = "PLANNED" /\ ~(config.advance > 0)
  BY <1>6, <1>8 DEF Followed, Heeded, Active
<1>15. ASSUME config.advance > 0, NEW h, NEW t, Unmatched(config, sensor, h, t)
       PROVE  Unmatched(config, R, h, t)
  <2>1. s \notin UNION {config.conds[k].people : k \in UNION config.groups}
    BY <1>2, <1>4, <1>10, <1>15 DEF ForceSensors
  <2>2. ASSUME NEW k \in UNION config.groups, NEW r \in config.conds[k].people PROVE sensor[r] = R[r]
    <3>1. k \in Conditions /\ r \in Sensors
      BY <1>10 DEF IsWired
    <3>2. r # s
      BY <2>1
    <3> QED
      BY <1>12, <3>1, <3>2
  <2> QED
    BY <1>10, <1>15, <2>2, ElsewhereUnmatched
<1>16. ASSUME NEW t \in Int, Before(t)' PROVE Waits(t)'
  <2>1. Before(t)
    BY <1>1, <1>16 DEF Before, Targets
  <2>2. Waits(t)
    BY <1>9, <2>1 DEF Prospect
  <2>3. CASE s \in ZoneSensors(config)
    BY <1>1, <1>14, <2>3 DEF Waits
  <2>4. CASE s \notin ZoneSensors(config)
    <3>1. Blocked(t) => Blocked(t)'
      BY <1>1, <1>11, <1>13, <2>4, Zenon DEF Blocked, OwnMode, InMode
    <3> QED
      BY <1>1, <1>11, <1>15, <2>2, <3>1 DEF Waits
  <2> QED
    BY <2>3, <2>4
<1> QED
  BY <1>1, <1>9, <1>16 DEF Prospect

\* Whoever looks meanwhile changes nothing for the engine.
LEMMA LookedAtKeeps ==
  ASSUME IInv, OverrideKnown, Times, Seeded, Seen, NEW allow \in BOOLEAN, Look(allow)
  PROVE  Seen'
<1>1. /\ UNCHANGED <<config, gate, mode, override, sensor, device, job, recheck, forceAt, evaluated>>
      /\ UNCHANGED <<queue, requested, index, pending, missed>>
      /\ held' = Snapped(InMode(allow))
  BY DEF Look, Snapshot, options, hass, tasks
<1>2. SUFFICES ASSUME Active', Heeded' PROVE Prospect'
  BY DEF Seen
<1>3. Prospect
  BY <1>1, <1>2 DEF Seen, Active, Heeded
<1>4. PICK a : a = InMode(allow)
  OBVIOUS
<1>5. PICK m : m = OwnMode
  OBVIOUS
<1>6. a \in {override, "none"} /\ m \in {override, "none"} /\ override \in {"none", "free", "busy"}
  BY <1>4, <1>5 DEF OwnMode, InMode, OverrideKnown
<1>7. /\ held'["occupancy"] = Stabilize(config, "occupancy", sensor, a, held["occupancy"], now)
      /\ held'["access"] = Stabilize(config, "access", sensor, a, held["access"], now)
  BY <1>1, <1>4 DEF Snapped, Kinds, ZoneKinds
<1>8. now \in Nat /\ IsWired(config) /\ Known(sensor, now) /\ held["occupancy"] \in Int
  BY Schedules DEF IInv, Typed, Kinds, ZoneKinds
<1>9. ASSUME NEW t \in Int, Blocked(t) PROVE Blocked(t)'
  <2>1. CASE Outside(config, gate, device, t) # {}
    BY <1>1, <2>1 DEF Blocked
  <2>2. CASE AccessBlocks(config, sensor, held["access"], t)
    <3>1. PICK x : x = held'["access"]
      OBVIOUS
    <3>2. AccessBlocks(config, sensor, x, t)
      BY <1>7, <2>2, <3>1, LookedAtAccess
    <3> QED
      BY <1>1, <3>1, <3>2 DEF Blocked
  <2>3. CASE OccupancyBlocks(config, sensor, OwnMode, override, held["occupancy"], evaluated, t)
    <3>1. PICK x : x = held'["occupancy"]
      OBVIOUS
    <3>2. PICK h \in Int : h = held["occupancy"]
      BY <1>8
    <3>3. m = "none" /\ override = "busy" /\ h # Never => \E s \in config.busy : h <= sensor[s].since
      BY <1>5, <3>2 DEF OwnMode, InMode, Seeded
    <3>4. x = Stabilize(config, "occupancy", sensor, a, h, now)
      BY <1>7, <3>1, <3>2
    <3>5. evaluated \in Int /\ evaluated <= now
      BY DEF Times
    <3>6. OccupancyBlocks(config, sensor, m, override, h, evaluated, t)
      BY <1>5, <2>3, <3>2
    <3>7. OccupancyBlocks(config, sensor, m, override, x, evaluated, t)
      BY <1>6, <1>8, <3>3, <3>4, <3>5, <3>6, LookedAt
    <3>8. OwnMode' = m
      BY <1>1, <1>5 DEF OwnMode, InMode
    <3> QED
      BY <1>1, <3>1, <3>7, <3>8 DEF Blocked
  <2> QED
    BY <1>9, <2>1, <2>2, <2>3 DEF Blocked
<1>10. ASSUME NEW t, Unmatched(config, sensor, held, t) PROVE Unmatched(config, sensor, held', t)
  <2>1. \A g \in config.groups : \A k \in g : held'[k] = held[k]
    <3>1. ASSUME NEW g \in config.groups, NEW k \in g PROVE held'[k] = held[k]
      <4>1. k \in Conditions
        BY <1>8 DEF IsWired
      <4> QED
        BY <1>1, <4>1, Conditional DEF Snapped
    <3> QED
      BY <3>1
  <2> QED
    BY <1>10, <2>1 DEF Unmatched
<1>11. ASSUME NEW t \in Int, Before(t)' PROVE Waits(t)'
  <2>1. Before(t)
    BY <1>1, <1>11 DEF Before, Targets
  <2>2. Waits(t)
    BY <1>3, <2>1 DEF Prospect
  <2> QED
    BY <1>1, <1>9, <1>10, <2>2 DEF Waits
<1> QED
  BY <1>1, <1>3, <1>11 DEF Prospect

\* scheduler_engine.py: what the last look found in the way stays in the way
\* until the next, or a task is on its way to look again.
LEMMA SeenKeep ==
  ASSUME IInv, OverrideKnown, Times, Tasks, Followed, Seeded, Seen, [Next]_vars
  PROVE  Seen'
<1>1. ASSUME UNCHANGED <<config, gate, mode, override, sensor, device, held, job, recheck, forceAt, evaluated>>,
             Heeded' => Heeded
      PROVE  Seen'
  <2>1. SUFFICES ASSUME Active', Heeded' PROVE Prospect'
    BY DEF Seen
  <2>2. Prospect
    BY <1>1, <2>1 DEF Seen, Active
  <2>3. \A t \in Int : Before(t)' => Before(t)
    BY <1>1 DEF Before, Targets
  <2>4. \A t \in Int : Waits(t) => Waits(t)'
    BY <1>1, Zenon DEF Waits, Blocked, OwnMode, InMode
  <2> QED
    BY <1>1, <2>2, <2>3, <2>4 DEF Prospect
<1>2. ASSUME ~Heeded' PROVE Seen'
  BY <1>2 DEF Seen
<1>3. CASE UNCHANGED vars
  BY <1>1, <1>3 DEF vars, options, hass, tasks, Heeded
<1>4. CASE Tick
  BY <1>1, <1>4 DEF Tick, options, hass, tasks, Heeded
<1>5. ASSUME NEW s \in Sensors, NEW st, Sense(s, st) PROVE Seen'
  BY <1>5, UnheardKeeps
<1>6. ASSUME NEW d, DeviceChanges(d) PROVE Seen'
  BY <1>2, <1>6 DEF DeviceChanges, Request, Heeded
<1>7. CASE Debounced
  <2>1. Heeded' => Heeded
    BY <1>7 DEF Debounced, Heeded
  <2> QED
    BY <1>1, <1>7, <2>1 DEF Debounced, options, hass
<1>8. ASSUME NEW t, TimerDue(t) PROVE Seen'
  BY <1>2, <1>8 DEF TimerDue, Heeded
<1>9. ASSUME NEW t, Enter(t) PROVE Seen'
  <2>1. UNCHANGED <<now, options, hass>> /\ evaluated' = now
    BY <1>9 DEF Enter
  <2>2. ASSUME NEW state \in {"SUPPRESSED", "FAILED"}, Finish(state) PROVE ~Active'
    BY <2>2 DEF Finish, Active, IInv, Typed, JobRecord, JobFields
  <2>3. CASE Suppress \/ Expire
    BY <2>2, <2>3 DEF Suppress, Expire, Seen
  <2>4. CASE Preview
    BY <2>1, <2>4, PreviewLooks DEF Seen
  <2>5. CASE Authorise
    BY <2>1, <2>5, AuthoriseLooks DEF Seen
  <2> QED
    BY <1>9, <2>3, <2>4, <2>5 DEF Enter
<1>10. CASE Release
  BY <1>1, <1>10 DEF Release, options, hass, Heeded
<1>11. ASSUME NEW t \in tails, Arm(t) PROVE Seen'
  <2>1. Heeded' => Heeded
    BY <1>11 DEF Arm, After, Heeded, Tasks, Someone
  <2> QED
    BY <1>1, <1>11, <2>1 DEF Arm, options, hass
<1>12. ASSUME NEW allow \in BOOLEAN, Look(allow) PROVE Seen'
  BY <1>12, LookedAtKeeps
<1>13. ASSUME NEW x, Watchdog \/ GoReal \/ SetOverride(x) \/ SetGate(x) PROVE Seen'
  <2>1. queue' = queue \cup {"timer"}
    BY <1>13 DEF Watchdog, GoReal, SetOverride, SetGate
  <2> QED
    BY <1>2, <2>1 DEF Heeded
<1>14. CASE Reload
  BY <1>2, <1>14 DEF Reload, Heeded
<1> QED
  BY <1>3, <1>4, <1>5, <1>6, <1>7, <1>8, <1>9, <1>10, <1>11, <1>12, <1>13, <1>14
     DEF Next, Inputs, Reconciling, Operating

WakeInv == Times /\ Tasks /\ Followed /\ Seeded /\ Armed /\ Seen

\* scheduler_engine.py: in every state what the last look at the occurrence
\* found in its way lasts until a timer or a task of the engine looks again.
THEOREM WakeInvariant == Spec => []WakeInv
<1>1. Init => WakeInv
  <2> SUFFICES ASSUME Init PROVE WakeInv
    OBVIOUS
  <2>1. Times
    BY DEF Init, Times, Past, Kinds, Never
  <2>2. Tasks
    BY DEF Init, Tasks, Someone, Nobody
  <2>3. Seeded
    BY DEF Init, Seeded
  <2>4. Armed /\ Seen /\ Followed
    BY DEF Init, Armed, Seen, Heeded, Followed
  <2> QED
    BY <2>1, <2>2, <2>3, <2>4 DEF WakeInv
<1>2. IInv /\ OverrideKnown /\ WakeInv /\ [Next]_vars => WakeInv'
  BY TimesKeep, TasksKeep, FollowedKeep, SeededKeep, ArmedKeep, SeenKeep DEF WakeInv
<1> QED
  BY <1>1, <1>2, Invariant, Overrides, PTL DEF Spec

\* What is in the way now is in the report of a reconcile now.
LEMMA BlockedReports ==
  ASSUME IInv, Times, Blocked(now)
  PROVE  Report(Dwelt(Snapped(OwnMode))) # {}
<1>1. PICK m : m = OwnMode
  OBVIOUS
<1>2. PICK h : h = Dwelt(Snapped(m))
  OBVIOUS
<1>3. SUFFICES ASSUME config.target PROVE Blockers(config, gate, device, sensor, m, h, now) # {}
  <2>1. ~config.target => Blockers(config, gate, device, sensor, m, h, now) # {}
    BY UnreadBlocks DEF Blockers
  <2> QED
    BY <1>1, <1>2, <2>1 DEF Report
<1>4. /\ h["occupancy"] = Stabilize(config, "occupancy", sensor, m, held["occupancy"], now)
      /\ h["access"] = Stabilize(config, "access", sensor, m, held["access"], now)
  BY <1>2 DEF Dwelt, Snapped, Kinds, ZoneKinds
<1>5. now \in Int /\ \A k \in ZoneKinds : Delay(config, k) \in Int /\ held[k] \in Int /\ held[k] <= now
  BY Schedules DEF Kinds, Times, Past
<1>6. CASE Outside(config, gate, device, now) # {}
  BY <1>6 DEF Outside, Blockers
<1>7. CASE AccessBlocks(config, sensor, held["access"], now)
  <2>1. PICK x : x = h["access"]
    OBVIOUS
  <2>2. CASE ~Good(config, "access", sensor)
    BY <1>3, <2>2 DEF Blockers, ZoneBlocks, If
  <2>3. CASE Good(config, "access", sensor)
    <3>1. Delay(config, "access") # 0 /\ Lasts(config, "access", sensor, held["access"], now)
      BY <1>7, <2>3 DEF AccessBlocks
    <3>2. x = IF held["access"] # Never THEN held["access"] ELSE Seed(config, "access", sensor)
      BY <1>4, <2>1, <2>3, <3>1 DEF Stabilize, IsGood
    <3>3. x \in Int /\ x # Never
      <4>1. "access" \in ZoneKinds /\ held["access"] \in {held["access"], Never}
            /\ x = Stabilize(config, "access", sensor, m, held["access"], now)
        BY <1>4, <2>1 DEF ZoneKinds
      <4>2. IsGood(config, "access", sensor, m)
        BY <2>3 DEF IsGood
      <4> QED
        BY <3>1, <4>1, <4>2, Snaps
    <3>4. ~(Until(config, "access", x, now) <= now)
      BY <1>5, <3>1, <3>2, <3>3 DEF Lasts, Until, ZoneKinds
    <3> QED
      BY <1>3, <2>1, <2>3, <3>4 DEF Blockers, ZoneBlocks, If
  <2> QED
    BY <2>2, <2>3
<1>8. CASE OccupancyBlocks(config, sensor, OwnMode, override, held["occupancy"], evaluated, now)
  <2>1. PICK x : x = h["occupancy"]
    OBVIOUS
  <2>2. CASE Occupied(config, sensor, m) = "unknown" \/ (~config.accepted /\ Occupied(config, sensor, m) = "busy")
    BY <1>3, <2>2 DEF Blockers, ZoneBlocks, If
  <2>3. CASE ~(Occupied(config, sensor, m) = "unknown" \/ (~config.accepted /\ Occupied(config, sensor, m) = "busy"))
    <3>1. PICK g \in Int : g = held["occupancy"]
      BY <1>5 DEF ZoneKinds
    <3>2. PICK d \in Int : d = Delay(config, "occupancy")
      BY <1>5 DEF ZoneKinds
    <3>3. /\ ~config.accepted /\ Occupied(config, sensor, m) = "free" /\ d # 0
          /\ m # "none" => evaluated + d > now
          /\ IF g = Never /\ override = "free" THEN Occupied(config, sensor, "none") # "free"
             ELSE Lasts(config, "occupancy", sensor, g, now)
      BY <1>1, <1>8, <2>3, <3>1, <3>2 DEF OccupancyBlocks
    <3>4. x = IF g # Never THEN g ELSE IF m # "none" THEN now ELSE Seed(config, "occupancy", sensor)
      BY <1>4, <2>1, <3>1, <3>2, <3>3 DEF Stabilize, IsGood
    <3>5. x \in Int /\ x # Never
      <4>1. "occupancy" \in ZoneKinds /\ held["occupancy"] \in {held["occupancy"], Never}
            /\ x = Stabilize(config, "occupancy", sensor, m, held["occupancy"], now)
        BY <1>4, <2>1 DEF ZoneKinds
      <4>2. IsGood(config, "occupancy", sensor, m) /\ Delay(config, "occupancy") # 0
        BY <3>2, <3>3 DEF IsGood
      <4> QED
        BY <4>1, <4>2, Snaps
    <3>6. x + d > now
      <4>1. evaluated \in Int /\ evaluated <= now
        BY DEF Times
      <4>2. CASE g # Never
        BY <3>2, <3>3, <3>4, <4>2 DEF Lasts
      <4>3. CASE g = Never /\ m # "none"
        BY <1>5, <3>3, <3>4, <4>1, <4>3
      <4>4. CASE g = Never /\ m = "none"
        BY <3>2, <3>3, <3>4, <4>4 DEF Lasts
      <4> QED
        BY <4>2, <4>3, <4>4
    <3>7. ~(Until(config, "occupancy", x, now) <= now)
      BY <1>5, <3>2, <3>5, <3>6 DEF Until
    <3> QED
      BY <1>3, <2>1, <3>3, <3>7 DEF Blockers, ZoneBlocks, If
  <2> QED
    BY <2>2, <2>3
<1> QED
  BY <1>6, <1>7, <1>8 DEF Blocked

LEMMA UnmatchedNow ==
  ASSUME IInv, Active, Unmatched(config, sensor, held, now)
  PROVE  ~EarlyRun(Dwelt(Snapped(OwnMode)))
<1>1. PICK d : d = Snapped(OwnMode)
  OBVIOUS
<1>2. PICK h : h = Dwelt(d)
  OBVIOUS
<1>3. SUFFICES ASSUME EarlyRun(h) PROVE FALSE
  BY <1>1, <1>2
<1>4. config.advance > 0 /\ now >= ForceOpens(config) /\ job.state = "PLANNED"
  BY <1>3 DEF EarlyRun
<1>5. PICK g \in config.groups : g # {} /\ \A k \in g : Matured(config, k, h, now)
  BY <1>3 DEF EarlyRun, ConditionsMatched
<1>6. PICK k \in g : ~Good(config, k, sensor) \/ (held[k] # Never /\ held[k] + Delay(config, k) > now)
  BY <1>5 DEF Unmatched
<1>7. /\ k \in Conditions /\ k \in Kinds /\ now \in Int
      /\ held[k] \in Int /\ Delay(config, k) \in Int
  BY Schedules DEF IsWired, Kinds
<1>8. h[k] # Never /\ Until(config, k, h[k], now) <= now
  BY <1>5 DEF Matured
<1>9. /\ h[k] = Never <=> ~Good(config, k, sensor)
      /\ Good(config, k, sensor) /\ held[k] # Never => h[k] = held[k]
  BY <1>2, <1>4, <1>7, DwellsGood
<1>10. h[k] = held[k] /\ held[k] + Delay(config, k) > now
  BY <1>6, <1>8, <1>9
<1> QED
  BY <1>7, <1>8, <1>10 DEF Until

\* scheduler_engine.py, preflight.py: while nothing is under way or due the
\* occurrence can neither be released nor is it over, except in the gaps.
THEOREM NothingIsOverlooked == Spec => []Punctual
<1>1. IInv /\ WakeInv => Punctual
  <2> SUFFICES ASSUME IInv, WakeInv, Quiet, ~missed, Active
               PROVE  ~Releasable /\ ~Overdue
    BY DEF Punctual, Releasable, Overdue
  <2>1. Times /\ Tasks /\ Armed /\ Seen
    BY DEF WakeInv
  <2>2. Heeded
    BY <2>1 DEF Quiet, Heeded, Tasks, Someone, Nobody
  <2>3. Prospect
    BY <2>1, <2>2 DEF Seen
  <2>4. /\ now \in Int /\ config.planned \in Int /\ config.deadline \in Int /\ config.warning \in Int
        /\ config.until \in Int /\ evaluated \in Int /\ evaluated <= now /\ recheck \in Int /\ forceAt \in Int
    BY <2>1, Schedules DEF Times
  <2>5. \A x \in Targets : x > evaluated => x > now
    <3> SUFFICES ASSUME NEW x \in Targets, x > evaluated PROVE x > now
      OBVIOUS
    <3>1. x \in timers
      BY <2>1 DEF Armed, Quiet
    <3>2. ~(x <= now)
      BY <3>1 DEF Quiet, Due
    <3>3. x \in Int
      BY <2>4 DEF Targets
    <3> QED
      BY <2>4, <3>2, <3>3
  <2>6. Waits(now)
    BY <2>3, <2>4, <2>5 DEF Prospect, Before
  <2>7. now < config.deadline
    BY <2>3, <2>4, <2>5 DEF Prospect, Targets
  <2>8. job.state = "PLANNED" => now < config.planned
    BY <2>3, <2>4, <2>5 DEF Prospect, Targets
  <2>9. job.state = "WAIT" => ~GateClosed(config, gate, now)
    BY <2>3, <2>4 DEF Prospect, GateClosed
  <2>10. ~Overdue
    BY <2>4, <2>7, <2>8, <2>9 DEF Overdue, Suppressed, Active
  <2>11. ~Releasable
    <3>1. PICK h : h = Dwelt(Snapped(OwnMode))
      OBVIOUS
    <3>2. SUFFICES ASSUME Verdict(Report(h)) = "PASS",
                          IF now < config.planned THEN EarlyRun(h) /\ ProtectionAllows(config, now)
                          ELSE ~Suppressed /\ now < config.deadline
                   PROVE  FALSE
      BY <3>1 DEF Releasable
    <3>3. Report(h) = {}
      BY <3>2, ReportFacts
    <3>4. ~Blocked(now)
      BY <2>1, <3>1, <3>3, BlockedReports
    <3>5. job.state = "PLANNED"
      BY <2>6, <3>4 DEF Waits, Active
    <3>6. EarlyRun(h) /\ ProtectionAllows(config, now)
      BY <2>8, <3>2, <3>5
    <3>7. Unmatched(config, sensor, held, now)
      BY <2>6, <3>4, <3>5, <3>6 DEF Waits, EarlyRun
    <3> QED
      BY <3>1, <3>6, <3>7, UnmatchedNow
  <2> QED
    BY <2>10, <2>11
<1> QED
  BY <1>1, Invariant, WakeInvariant, PTL

=============================================================================
