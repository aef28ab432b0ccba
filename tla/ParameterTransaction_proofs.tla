--------------------- MODULE ParameterTransaction_proofs ---------------------
(***************************************************************************)
(* What the transaction promises about the settings and the speaker, for   *)
(* any number of settings, passes, failing calls and crashes.              *)
(*                                                                         *)
(* Shape comes first: Chain relates the attempts to each other, Place and  *)
(* Line the coroutine to them, and Behind the disk to the memory.  Upon it *)
(* Settings says that no restore is skipped (Tried) and that a setting     *)
(* which is not back is known to an attempt that will put it back          *)
(* (Remembered), and Speaker that a silenced speaker is owed its volume by *)
(* the disk and by a step still to come.  A walking step, of those between *)
(* the guards and the writes, only marks its attempt, breaks it or closes  *)
(* its restore; most of what is to show is shown for these three kinds.    *)
(***************************************************************************)
EXTENDS ParameterTransaction, TLAPS

Full(b) == b.applied = Setting /\ \A p \in Setting : b.snapshot[p] # Unset

\* A pass begins after its predecessor has completed, and commands the robot
\* with all settings applied and remembered.
Chain(m) ==
  \A k \in Pass :
    /\ m[k].stage = "none" => m[k] = Absent
    /\ m[k].stage # "none" => \A l \in Pass : l < k => m[l].stage = "COMPLETED"
    /\ m[k].stage \in {"RUNNING", "COMPLETED"} \/ (k > 1 /\ m[k].stage # "none") => Full(m[k])
    /\ \A p \in m[k].applied : m[k].snapshot[p] # Unset
    /\ m[k].restored => Terminal(m[k])

\* The occurrence ends in this attempt.
Ends(m, k) == m[k].stage = "FAILED" \/ (Final(k) /\ m[k].stage = "COMPLETED")

Preparing ==
  at.step \in {"revive", "guard", "recheck", "intent"}
    \/ (at.op = "prepare" /\ at.step \in {"mute", "muting", "write", "unmute"})
Restoring == at.op = "restore" /\ at.step \in {"mute", "muting", "write", "unmute"}

Place ==
  /\ Preparing => a.stage = "PREPARING"
  /\ at.step = "send" => a.stage = "RUNNING"
  /\ Restoring \/ at.step \in {"settle", "return"} => Terminal(a)
  /\ Restoring => ~a.restored /\ (crashes = 0 => Ends(mem, i))
  /\ at.op = "prepare" /\ at.step = "write" =>
       \A q \in Setting : q < at.next => q \in a.applied
  /\ (at.op = "prepare" /\ at.step = "unmute" /\ ~at.err) \/ at.step \in {"recheck", "intent"} => Full(a)

\* What a restart still has to handle.
Line ==
  /\ at.boot \/ at.queue # {} => crashes # 0
  /\ at.queue # {} => at.boot
  /\ at.step \in {"rest", "next"} => at.queue = {} /\ ~at.boot
  /\ at.step # "boot" => \A k \in at.queue : i < k
  /\ \A k \in at.queue : mem[k].stage # "none"

Where == Place /\ Line

\* The disk is not ahead of the memory, but for an attempt just taken back.
Follows(k) ==
  /\ disk[k].stage # "none" => mem[k].stage # "none"
  /\ Terminal(disk[k]) => mem[k].stage = disk[k].stage
  /\ \A p \in Setting : disk[k].snapshot[p] \in {Unset, mem[k].snapshot[p]}

Behind == \A k \in Pass : Follows(k) \/ (at.step = "save" /\ mem[k] = Absent)

Shape == TypeOK /\ Chain(mem) /\ Chain(disk) /\ Where /\ Behind

-----------------------------------------------------------------------------
\* The settings

\* What the user has chosen after the scheduler is not what the scheduler wants.
Chosen == \A p \in touched : setting[p] # Planned

\* A restore of the ended attempt has been tried, is under way or still to come.
Tried ==
  /\ \A k \in Pass :
       Ends(mem, k) => mem[k].restored \/ (Restoring /\ k = i) \/ k \in at.queue
  /\ at.step = "save" => at.queue = {}

Back(p) == p \in touched \/ setting[p] = original[p]

\* The remembered value is the original one, unless a write that failed
\* remembered what the user had chosen.
Original(m, k, p) ==
  \/ m[k].snapshot[p] \in {Unset, original[p]}
  \/ p \in touched /\ m[k].stage = "FAILED"
Faithful(m) == \A k \in Pass, p \in Setting : Original(m, k, p)

\* The attempt that failed to write has not ended yet.
Failing(k) == k = i /\ at.op = "prepare" /\ at.step = "unmute" /\ at.err

Good(m, k) == \A p \in Setting : Back(p) \/ m[k].error \/ p \notin m[k].applied

Paired(b) == \A p \in Setting : b.snapshot[p] # Unset => p \in b.applied

\* An attempt that is rolled back over a late blocker has applied whatever it
\* remembers.
Pairs ==
  /\ \A k \in Pass : mem[k].stage = "PREPARING" => Paired(mem[k]) \/ Failing(k)
  /\ \A k \in Pass : disk[k].stage = "PREPARING" => Paired(disk[k])
  /\ at.retry /\ at.step # "save" => at.step # "boot" /\ Terminal(a) /\ Paired(a)

Originals ==
  \A k \in Pass, p \in Setting : Original(mem, k, p) \/ (p \in touched /\ Failing(k))

\* A setting that is not back is still the scheduler's, and remembered.
Known == \A p \in Setting : Back(p) \/ (setting[p] = Planned /\ mem[1].snapshot[p] # Unset)

\* A restore that is done has put everything back or says that it failed.
Honest(m) == \A k \in Pass : Ends(m, k) /\ m[k].restored => Good(m, k)

\* How far the restore has come.
Progress ==
  Restoring =>
    /\ at.step = "write" => \A p \in Setting : p < at.next => Back(p) \/ p \notin a.applied
    /\ at.step = "unmute" /\ ~at.err => \A p \in Setting : Back(p) \/ p \notin a.applied

Remembered == Originals /\ Faithful(disk) /\ Known /\ Honest(mem) /\ Honest(disk) /\ Progress

Settings == Chosen /\ Tried /\ Pairs /\ (~torn /\ ~dropped => Remembered)

-----------------------------------------------------------------------------
\* The speaker

Handling ==
  \/ at.step \in {"revive", "settle"}
  \/ Restoring
  \/ at.muted /\ at.step \in {"write", "unmute"}

Owed(k) == mem[k].pending /\ disk[k].pending /\ (k \in at.queue \/ (k = i /\ Handling))

Quiet(m) ==
  \A k \in Pass : /\ m[k].pending => loud
                  /\ m[k].stage = "RUNNING" => ~m[k].pending

\* What the steps of the sound suppression rely on.
Suppression ==
  /\ at.step = "muting" => audible /\ a.pending /\ disk[i].pending
  /\ Preparing /\ at.step \in {"guard", "mute", "recheck", "intent"} => ~a.pending
  /\ Preparing /\ at.step = "mute" => ~at.muted
  /\ Preparing /\ at.step \in {"write", "unmute"} => (a.pending <=> at.muted)
  /\ at.step = "return" => ~a.pending

Speaker ==
  /\ audible => loud
  /\ at.muted => loud
  /\ Quiet(mem) /\ Quiet(disk)
  /\ loud /\ ~audible => \E k \in Pass : Owed(k)
  /\ Suppression

IInv == Shape /\ Settings /\ (glitches = 0 => Speaker)

-----------------------------------------------------------------------------
\* Changes of one attempt

AtType ==
  [step : Steps, pass : Pass, op : {"prepare", "restore"}, next : 1..Params + 1,
   muted : BOOLEAN, err : BOOLEAN, retry : BOOLEAN, queue : SUBSET Pass, boot : BOOLEAN]

World ==
  /\ setting \in [Setting -> Values]
  /\ audible \in BOOLEAN
  /\ glitches \in 0..MaxGlitches
  /\ crashes \in 0..MaxCrashes
  /\ original \in [Setting -> Values]
  /\ touched \in SUBSET Setting
  /\ loud \in BOOLEAN
  /\ torn \in BOOLEAN
  /\ dropped \in BOOLEAN

Memory ==
  /\ mem \in [Pass -> Attempts]
  /\ disk \in [Pass -> Attempts]
  /\ Chain(mem)
  /\ Chain(disk)
  /\ Behind

\* What Chain asks of a single attempt that exists.
Proper(b, k) ==
  /\ b.stage \in {"RUNNING", "COMPLETED"} \/ k > 1 => Full(b)
  /\ \A p \in b.applied : b.snapshot[p] # Unset
  /\ b.restored => Terminal(b)

\* A change that neither ends an attempt twice nor forgets a value.
Onward(x, b) ==
  /\ b.stage # "none"
  /\ Terminal(x) => b.stage = x.stage
  /\ \A p \in Setting : x.snapshot[p] \in {Unset, b.snapshot[p]}

LEMMA Layers == Shape <=> World /\ at \in AtType /\ Memory /\ Place /\ Line
BY DEF Shape, TypeOK, World, AtType, Memory, Where

LEMMA Here ==
  ASSUME Shape
  PROVE  /\ i \in Pass
         /\ a \in Attempts
         /\ a.stage # "none" => Proper(a, i)
         /\ a.stage \in Stages
BY DEF Shape, TypeOK, Chain, Proper, i, a, Attempts

LEMMA Update ==
  ASSUME Memory, at.step # "save",
         NEW k \in Pass, NEW b \in Attempts, Onward(mem[k], b), Proper(b, k),
         mem[k].stage # "none" \/ \A l \in Pass : l < k => mem[l].stage = "COMPLETED",
         mem' = [mem EXCEPT ![k] = b],
         disk' = disk \/ disk' = mem'
  PROVE  /\ Memory'
         /\ mem'[k] = b
         /\ \A l \in Pass : l # k => mem'[l] = mem[l]
         /\ \A l \in Pass : mem[l].stage # "none" => mem'[l].stage # "none"
<1>1. /\ mem' \in [Pass -> Attempts]
      /\ disk' \in [Pass -> Attempts]
      /\ mem'[k] = b
      /\ \A l \in Pass : l # k => mem'[l] = mem[l]
  BY DEF Memory
<1>2. \A l \in Pass : mem[l].stage # "none" => mem'[l].stage # "none"
  BY <1>1 DEF Onward
<1>3. Chain(mem')
  <2> SUFFICES ASSUME NEW l \in Pass
               PROVE  /\ mem'[l].stage = "none" => mem'[l] = Absent
                      /\ mem'[l].stage # "none" =>
                           \A m \in Pass : m < l => mem'[m].stage = "COMPLETED"
                      /\ mem'[l].stage # "none" => Proper(mem'[l], l)
    <3>1. Absent.stage = "none" /\ Absent.applied = {} /\ ~Absent.restored
      BY DEF Absent
    <3> QED
      BY <3>1 DEF Chain, Proper
  <2>1. mem'[l].stage = "none" => mem'[l] = Absent
    BY <1>1 DEF Memory, Chain, Onward
  <2>2. ASSUME mem'[l].stage # "none", NEW m \in Pass, m < l
        PROVE  mem'[m].stage = "COMPLETED"
    <3>1. m # k /\ l # k => mem'[m].stage = "COMPLETED"
      BY <1>1, <2>2 DEF Memory, Chain
    <3>2. l = k => mem'[m].stage = "COMPLETED"
      BY <1>1, <2>2 DEF Memory, Chain, Pass
    <3>3. m = k => mem'[m].stage = "COMPLETED"
      <4>1. m = k => mem[k].stage = "COMPLETED"
        BY <1>1, <2>2 DEF Memory, Chain, Pass
      <4> QED
        BY <1>1, <4>1 DEF Onward, Terminal
    <3> QED
      BY <3>1, <3>2, <3>3
  <2>3. mem'[l].stage # "none" => Proper(mem'[l], l)
    BY <1>1 DEF Memory, Chain, Proper
  <2> QED
    BY <2>1, <2>2, <2>3
<1>4. Chain(disk')
  BY <1>3 DEF Memory
<1>5. Behind'
  <2> SUFFICES ASSUME NEW l \in Pass
               PROVE  Follows(l)'
    BY DEF Behind
  <2>1. CASE disk' = mem'
    BY <2>1 DEF Follows
  <2>2. CASE disk' = disk
    <3>1. Follows(l)
      BY DEF Memory, Behind
    <3> QED
      BY <2>2, <3>1, <1>1 DEF Follows, Onward, Terminal
  <2> QED
    BY <2>1, <2>2
<1> QED
  BY <1>1, <1>2, <1>3, <1>4, <1>5 DEF Memory

\* The memory stays as it is.
LEMMA Unchanging ==
  ASSUME Memory, at.step # "save", mem' = mem, disk' = disk
  PROVE  /\ Memory'
         /\ \A l \in Pass : mem[l].stage # "none" => mem'[l].stage # "none"
BY DEF Memory, Behind, Follows, Chain, Full, Terminal

\* The coroutine works on without looking at its queue.
LEMMA LineStays ==
  ASSUME Line, at'.pass = at.pass, at'.queue = at.queue, at'.boot = at.boot,
         crashes' = crashes, at.step \notin {"boot", "rest", "next"},
         at'.step \notin {"boot", "rest", "next"},
         \A l \in Pass : mem[l].stage # "none" => mem'[l].stage # "none",
         at \in AtType
  PROVE  Line'
BY DEF Line, i, AtType

-----------------------------------------------------------------------------
\* Kinds of step

\* The coroutine goes on within its pass.
Within ==
  /\ at.step \notin {"save", "boot", "rest", "next"}
  /\ at' \in AtType
  /\ at'.pass = at.pass /\ at'.queue = at.queue /\ at'.boot = at.boot
  /\ crashes' = crashes

\* At most the attempt's pending volume changes.
Marks(q) ==
  /\ Within
  /\ at'.step \notin {"boot", "rest", "next"}
  /\ q \in BOOLEAN
  /\ mem' = [mem EXCEPT ![i] = [a EXCEPT !.pending = q]]
  /\ disk' = disk \/ disk' = mem'

\* The attempt fails.
Failed(q) == [a EXCEPT !.stage = "FAILED", !.restored = ~Remembers(a), !.pending = q]

Breaks(q) ==
  /\ Within
  /\ q \in BOOLEAN
  /\ a.stage \in {"PREPARING", "RUNNING"}
  /\ mem' = [mem EXCEPT ![i] = Failed(q)]
  /\ disk' = disk
  /\ Remembers(a) =>
       at'.step = "mute" /\ at'.op = "restore" /\ at'.err = FALSE /\ at'.muted = FALSE
  /\ ~Remembers(a) => at'.step = "settle" /\ at'.muted = at.muted

\* The restore returns or raises.
Closes(q, e) ==
  /\ Within
  /\ q \in BOOLEAN /\ e \in BOOLEAN
  /\ Restoring
  /\ mem' = [mem EXCEPT ![i] =
               [a EXCEPT !.error = @ \/ e, !.restored = TRUE, !.pending = q]]
  /\ disk' = disk
  /\ at' = [at EXCEPT !.step = "settle"]

LEMMA MarksShape ==
  ASSUME Shape, World', NEW q, Marks(q), Place'
  PROVE  Shape'
<1> DEFINE b == [a EXCEPT !.pending = q]
<1>0. at.step # "save" /\ at.step # "rest" /\ at.step # "next" /\ at.step # "boot"
  BY DEF Marks, Within
<1>1. /\ i \in Pass /\ a \in Attempts /\ a.stage # "none" /\ Proper(a, i)
  <2>1. a.stage # "none"
    BY <1>0, Layers DEF Place, Preparing, Restoring, Terminal, AtType, Steps
  <2> QED
    BY <2>1, Here
<1>2. /\ b \in Attempts
      /\ b.stage = a.stage /\ b.snapshot = a.snapshot /\ b.applied = a.applied
      /\ b.restored = a.restored
  BY <1>1 DEF Marks, Attempts
<1>3. Onward(a, b) /\ Proper(b, i)
  BY <1>1, <1>2 DEF Onward, Proper, Full, Terminal, Attempts
<1>4. mem' = [mem EXCEPT ![i] = b] /\ (disk' = disk \/ disk' = mem')
  BY DEF Marks
<1> HIDE DEF b
<1>5. Memory' /\ \A l \in Pass : mem[l].stage # "none" => mem'[l].stage # "none"
  BY <1>0, <1>1, <1>2, <1>3, <1>4, Layers, Update DEF a
<1>6. Line'
  BY <1>5, Layers, LineStays DEF Marks, Within
<1>7. at' \in AtType
  BY DEF Marks, Within
<1> QED
  BY <1>5, <1>6, <1>7, Layers DEF Shape, TypeOK, World, AtType, Memory, Where

LEMMA BreaksShape ==
  ASSUME Shape, World', NEW q, Breaks(q)
  PROVE  /\ Shape'
         /\ i' = i /\ a' = Failed(q)
         /\ \A l \in Pass : l # i => mem'[l] = mem[l]
<1> DEFINE b == Failed(q)
<1>1. /\ i \in Pass /\ a \in Attempts /\ a.stage # "none" /\ Proper(a, i) /\ ~Terminal(a)
  BY Here DEF Breaks, Terminal
<1>2. /\ b \in Attempts
      /\ b.stage = "FAILED" /\ b.snapshot = a.snapshot /\ b.applied = a.applied
      /\ b.restored = ~Remembers(a)
  BY <1>1 DEF Breaks, Attempts, Failed, Stages, Remembers
<1>3. Onward(a, b) /\ Proper(b, i)
  BY <1>1, <1>2 DEF Onward, Proper, Full, Terminal, Attempts
<1>4. mem' = [mem EXCEPT ![i] = b] /\ disk' = disk
  BY DEF Breaks
<1>5. at.step # "save" /\ at.step # "rest" /\ at.step # "next" /\ at.step # "boot"
  BY DEF Breaks, Within
<1> HIDE DEF b
<1>6. /\ Memory' /\ mem'[i] = b
      /\ \A l \in Pass : l # i => mem'[l] = mem[l]
      /\ \A l \in Pass : mem[l].stage # "none" => mem'[l].stage # "none"
  BY <1>1, <1>2, <1>3, <1>4, <1>5, Layers, Update DEF a
<1>7. at'.step \in {"mute", "settle"}
  BY DEF Breaks
<1>8. Line'
  BY <1>5, <1>6, <1>7, Layers, LineStays DEF Breaks, Within
<1>9. i' = i /\ a' = b /\ at' \in AtType
  BY <1>6 DEF i, a, Breaks, Within
<1>10. Place'
  <2>1. Remembers(a) => at'.step = "mute" /\ at'.op = "restore"
    BY DEF Breaks
  <2>2. ~Remembers(a) => at'.step = "settle"
    BY DEF Breaks
  <2>3. mem'[i'] = b
    BY <1>6, <1>9
  <2> QED
    BY <1>2, <1>7, <1>9, <2>1, <2>2, <2>3 DEF Place, Preparing, Restoring, Terminal, Ends
<1> QED
  BY <1>6, <1>8, <1>9, <1>10, Layers DEF Shape, TypeOK, World, AtType, Memory, Where, b

LEMMA ClosesShape ==
  ASSUME Shape, World', NEW q, NEW e, Closes(q, e)
  PROVE  /\ Shape'
         /\ i' = i
         /\ a' = [a EXCEPT !.error = @ \/ e, !.restored = TRUE, !.pending = q]
         /\ \A l \in Pass : l # i => mem'[l] = mem[l]
<1> DEFINE b == [a EXCEPT !.error = @ \/ e, !.restored = TRUE, !.pending = q]
<1>1. /\ i \in Pass /\ a \in Attempts /\ a.stage # "none" /\ Proper(a, i) /\ Terminal(a)
  <2>1. Terminal(a)
    BY Layers DEF Closes, Place
  <2> QED
    BY <2>1, Here DEF Terminal
<1>2. /\ b \in Attempts
      /\ b.stage = a.stage /\ b.snapshot = a.snapshot /\ b.applied = a.applied
  BY <1>1 DEF Closes, Attempts
<1>3. Onward(a, b) /\ Proper(b, i)
  BY <1>1, <1>2 DEF Onward, Proper, Full, Terminal, Attempts
<1>4. mem' = [mem EXCEPT ![i] = b] /\ disk' = disk
  BY DEF Closes
<1>5. at.step # "save" /\ at.step # "rest" /\ at.step # "next" /\ at.step # "boot"
  BY DEF Closes, Within
<1> HIDE DEF b
<1>6. /\ Memory' /\ mem'[i] = b
      /\ \A l \in Pass : l # i => mem'[l] = mem[l]
      /\ \A l \in Pass : mem[l].stage # "none" => mem'[l].stage # "none"
  BY <1>1, <1>2, <1>3, <1>4, <1>5, Layers, Update DEF a
<1>7. at'.step = "settle"
  BY Layers DEF Closes, AtType
<1>8. Line'
  BY <1>5, <1>6, <1>7, Layers, LineStays DEF Closes, Within
<1>9. i' = i /\ a' = b /\ at' \in AtType
  BY <1>6 DEF i, a, Closes, Within
<1>10. Place'
  <2>1. mem'[i'] = b
    BY <1>6, <1>9
  <2> QED
    BY <1>1, <1>2, <1>7, <1>9, <2>1 DEF Place, Preparing, Restoring, Terminal, Ends
<1> QED
  BY <1>6, <1>8, <1>9, <1>10, Layers DEF Shape, TypeOK, World, AtType, Memory, Where, b

-----------------------------------------------------------------------------
\* What each action does to its attempt

\* Where the coroutine goes after a failure, and with which memory.
LEMMA Failure ==
  ASSUME Shape, a.stage \in {"PREPARING", "RUNNING"}, NEW q \in BOOLEAN,
         NEW x \in Attempts, x.snapshot = a.snapshot, x.applied = a.applied,
         x.restored = a.restored
  PROVE  /\ [Ended("FAILED") EXCEPT !.pending = q] = Failed(q)
         /\ Ended("FAILED") = Failed(a.pending)
         /\ AfterFinish([x EXCEPT !.stage = "FAILED"]) =
              IF Remembers(a)
              THEN [at EXCEPT !.step = "mute", !.op = "restore", !.err = FALSE,
                              !.muted = FALSE]
              ELSE [at EXCEPT !.step = "settle"]
<1>1. a \in Attempts /\ a.restored = FALSE
  BY Here DEF Proper, Terminal, Attempts
<1>2. [a EXCEPT !.stage = "FAILED"].stage = "FAILED"
      /\ [a EXCEPT !.stage = "FAILED"].restored = FALSE
  BY <1>1 DEF Attempts
<1>3. RestoreDue([a EXCEPT !.stage = "FAILED"], i)
  BY <1>2 DEF RestoreDue
<1>4. Remembers(a) \in BOOLEAN
  BY DEF Remembers
<1>5. Ended("FAILED") = [a EXCEPT !.stage = "FAILED", !.restored = ~Remembers(a)]
  BY <1>1, <1>3, <1>4 DEF Ended, Attempts
<1>6. Ended("FAILED") = Failed(a.pending)
  BY <1>1, <1>5 DEF Failed, Attempts
<1>7. [Ended("FAILED") EXCEPT !.pending = q] = Failed(q)
  BY <1>1, <1>5 DEF Failed, Attempts
<1>8. RestoreDue([x EXCEPT !.stage = "FAILED"], i)
      /\ (Remembers([x EXCEPT !.stage = "FAILED"]) <=> Remembers(a))
  <2>1. [x EXCEPT !.stage = "FAILED"].stage = "FAILED"
        /\ [x EXCEPT !.stage = "FAILED"].restored = FALSE
        /\ [x EXCEPT !.stage = "FAILED"].snapshot = a.snapshot
        /\ [x EXCEPT !.stage = "FAILED"].applied = a.applied
    BY <1>1 DEF Attempts
  <2> QED
    BY <2>1 DEF RestoreDue, Remembers
<1> QED
  BY <1>6, <1>7, <1>8 DEF AfterFinish

LEMMA FailBreaks ==
  ASSUME Shape, NEW r \in BOOLEAN, Fail(r), disk' = disk, crashes' = crashes,
         at.step \in {"revive", "guard", "recheck", "send"}
  PROVE  Breaks(a.pending) /\ at'.retry = r
<1>1. a.stage \in {"PREPARING", "RUNNING"}
  BY Layers DEF Place, Preparing
<1>2. a \in Attempts /\ a.pending \in BOOLEAN /\ at \in AtType
  BY Here, Layers DEF Attempts
<1>3. /\ mem' = [mem EXCEPT ![i] = Failed(a.pending)]
      /\ at' = [IF Remembers(a)
                THEN [at EXCEPT !.step = "mute", !.op = "restore", !.err = FALSE,
                                !.muted = FALSE]
                ELSE [at EXCEPT !.step = "settle"] EXCEPT !.retry = r]
  <2>1. Ended("FAILED") = Failed(a.pending)
        /\ AfterFinish([a EXCEPT !.stage = "FAILED"]) =
              IF Remembers(a)
              THEN [at EXCEPT !.step = "mute", !.op = "restore", !.err = FALSE,
                              !.muted = FALSE]
              ELSE [at EXCEPT !.step = "settle"]
    BY <1>1, <1>2, Failure
  <2> QED
    BY <2>1 DEF Fail
<1>4. Within /\ at'.retry = r
      /\ (Remembers(a) =>
            at'.step = "mute" /\ at'.op = "restore" /\ at'.err = FALSE /\ at'.muted = FALSE)
      /\ (~Remembers(a) => at'.step = "settle" /\ at'.muted = at.muted)
  BY <1>2, <1>3 DEF Within, AtType, Steps
<1> QED
  BY <1>1, <1>2, <1>3, <1>4 DEF Breaks

\* What no step of the coroutine but a write touches.
Settled == UNCHANGED <<setting, original, touched, loud, torn, dropped>>

\* The flags that a later step of the attempt looks at.
Keeps == at'.op = at.op /\ at'.err = at.err /\ at'.muted = at.muted /\ at'.retry = at.retry

LEMMA OfRevive ==
  ASSUME Shape, Revive
  PROVE  /\ World' /\ Settled
         /\ at.step = "revive"
         /\ \/ /\ \/ ~a.pending /\ audible' = audible
                  \/ a.pending /\ audible' = TRUE
               /\ Marks(FALSE) /\ at'.step = "guard" /\ Keeps /\ UNCHANGED <<disk, glitches>>
            \/ glitches' # 0 /\ Breaks(a.pending) /\ at'.retry = FALSE
<1>1. World /\ at \in AtType /\ a \in Attempts /\ mem \in [Pass -> Attempts]
  BY Layers, Here DEF Memory
<1>2. glitches' \in 0..MaxGlitches
  <2>1. glitches' = glitches \/ Glitch
    BY DEF Revive, budget
  <2> QED
    BY <1>1, <2>1, BoundsAssumption DEF World, Glitch
<1>3. World' /\ Settled /\ at.step = "revive"
  BY <1>1, <1>2 DEF Revive, World, history, budget, robotVars, Glitch, Settled
<1>4. CASE ~a.pending /\ Goto("guard") /\ UNCHANGED <<robotVars, mem, budget>>
  <2>1. mem' = [mem EXCEPT ![i] = [a EXCEPT !.pending = FALSE]]
    <3>1. [a EXCEPT !.pending = FALSE] = a
      BY <1>1, <1>4 DEF Attempts
    <3> QED
      BY <1>1, <1>4, <3>1 DEF a
  <2>2. at'.step = "guard" /\ Keeps /\ Within
    BY <1>1, <1>3, <1>4 DEF Goto, AtType, Keeps, Within, Steps, budget
  <2> QED
    BY <1>3, <1>4, <2>1, <2>2 DEF Marks, Revive, robotVars, budget
<1>5. CASE /\ a.pending
           /\ audible' = TRUE
           /\ mem' = [mem EXCEPT ![i] = Unmuted(a)]
           /\ Goto("guard")
           /\ UNCHANGED <<setting, budget>>
  <2>1. at'.step = "guard" /\ Keeps /\ Within
    BY <1>1, <1>3, <1>5 DEF Goto, AtType, Keeps, Within, Steps, budget
  <2> QED
    BY <1>3, <1>5, <2>1 DEF Marks, Revive, Unmuted, budget
<1>6. CASE a.pending /\ Glitch /\ Fail(FALSE)
  <2>1. disk' = disk /\ crashes' = crashes
    BY <1>6 DEF Revive, Glitch
  <2>2. Breaks(a.pending) /\ at'.retry = FALSE
    BY <1>3, <1>6, <2>1, FailBreaks
  <2>3. glitches' # 0
    BY <1>1, <1>6, BoundsAssumption DEF Glitch, World
  <2> QED
    BY <1>3, <2>2, <2>3
<1> QED
  BY <1>4, <1>5, <1>6 DEF Revive

LEMMA OfFirstGuard ==
  ASSUME Shape, FirstGuard
  PROVE  /\ World' /\ Settled
         /\ at.step = "guard" /\ UNCHANGED <<audible, disk, glitches>>
         /\ \/ /\ Marks(a.pending) /\ at'.step = "mute" /\ at'.op = "prepare"
               /\ at'.err = FALSE /\ at'.muted = FALSE /\ at'.retry = at.retry
            \/ Breaks(a.pending)
<1>1. World /\ at \in AtType /\ a \in Attempts /\ mem \in [Pass -> Attempts]
  BY Layers, Here DEF Memory
<1>2. /\ World' /\ Settled /\ at.step = "guard" /\ UNCHANGED <<audible, disk, glitches>>
      /\ crashes' = crashes
  BY <1>1 DEF FirstGuard, World, history, budget, robotVars, Settled
<1>3. CASE at' = [StartMuting EXCEPT !.step = "mute"] /\ UNCHANGED mem
  <2>1. mem' = [mem EXCEPT ![i] = [a EXCEPT !.pending = a.pending]]
    <3>1. [a EXCEPT !.pending = a.pending] = a
      BY <1>1 DEF Attempts
    <3> QED
      BY <1>1, <1>3, <3>1 DEF a
  <2>2. /\ at'.step = "mute" /\ at'.op = "prepare" /\ at'.err = FALSE /\ at'.muted = FALSE
        /\ at'.retry = at.retry /\ Within
    BY <1>1, <1>2, <1>3 DEF StartMuting, AtType, Within, Steps
  <2> QED
    BY <1>1, <1>2, <1>3, <2>1, <2>2 DEF Marks, Attempts
<1>4. CASE \E retry \in BOOLEAN : Fail(retry)
  BY <1>2, <1>4, FailBreaks
<1> QED
  BY <1>3, <1>4 DEF FirstGuard

LEMMA OfGuard ==
  ASSUME Shape, NEW step \in {"recheck", "send"}, NEW next \in {"intent", "save"},
         Guard(step, next)
  PROVE  /\ World' /\ Settled
         /\ at.step = step /\ UNCHANGED <<audible, disk, glitches>>
         /\ \/ Marks(a.pending) /\ at'.step = next /\ Keeps
            \/ Breaks(a.pending)
<1>1. World /\ at \in AtType /\ a \in Attempts /\ mem \in [Pass -> Attempts]
  BY Layers, Here DEF Memory
<1>2. /\ World' /\ Settled /\ at.step = step /\ UNCHANGED <<audible, disk, glitches>>
      /\ crashes' = crashes
  BY <1>1 DEF Guard, World, history, budget, robotVars, Settled
<1>3. CASE Goto(next) /\ UNCHANGED mem
  <2>1. mem' = [mem EXCEPT ![i] = [a EXCEPT !.pending = a.pending]]
    <3>1. [a EXCEPT !.pending = a.pending] = a
      BY <1>1 DEF Attempts
    <3> QED
      BY <1>1, <1>3, <3>1 DEF a
  <2>2. at'.step = next /\ Keeps /\ Within
    BY <1>1, <1>2, <1>3 DEF Goto, AtType, Within, Steps, Keeps
  <2> QED
    BY <1>1, <1>2, <1>3, <2>1, <2>2 DEF Marks, Attempts
<1>4. CASE \E retry \in BOOLEAN : Fail(retry)
  BY <1>2, <1>4, FailBreaks
<1> QED
  BY <1>3, <1>4 DEF Guard

LEMMA One == 1 \in 1..Params + 1 /\ 1 \in Pass /\ Rest \in AtType
<1>1. 1 \in 1..Params + 1 /\ 1 \in Pass
  BY ParamsAssumption DEF Pass
<1> QED
  BY <1>1 DEF Rest, AtType, Steps

LEMMA OfMute ==
  ASSUME Shape, Mute
  PROVE  /\ World' /\ Settled
         /\ at.step = "mute" /\ UNCHANGED <<audible, glitches>>
         /\ \/ audible /\ Marks(TRUE) /\ disk' = mem' /\ at'.step = "muting" /\ Keeps
            \/ /\ Marks(a.pending) /\ disk' = disk /\ at'.step = "write" /\ at'.next = 1
               /\ Keeps
<1>1. World /\ at \in AtType /\ a \in Attempts /\ mem \in [Pass -> Attempts]
  BY Layers, Here DEF Memory
<1>2. /\ World' /\ Settled /\ at.step = "mute" /\ UNCHANGED <<audible, glitches>>
      /\ crashes' = crashes
  BY <1>1 DEF Mute, World, history, budget, robotVars, Settled
<1>3. CASE /\ audible
           /\ mem' = [mem EXCEPT ![i].pending = TRUE]
           /\ disk' = mem'
           /\ Goto("muting")
  <2>1. mem' = [mem EXCEPT ![i] = [a EXCEPT !.pending = TRUE]]
    BY <1>1, <1>3 DEF a
  <2>2. at'.step = "muting" /\ Keeps /\ Within
    BY <1>1, <1>2, <1>3 DEF Goto, AtType, Within, Steps, Keeps
  <2> QED
    BY <1>1, <1>2, <1>3, <2>1, <2>2 DEF Marks, Attempts
<1>4. CASE at' = [at EXCEPT !.step = "write", !.next = 1] /\ UNCHANGED <<mem, disk>>
  <2>1. mem' = [mem EXCEPT ![i] = [a EXCEPT !.pending = a.pending]]
    <3>1. [a EXCEPT !.pending = a.pending] = a
      BY <1>1 DEF Attempts
    <3> QED
      BY <1>1, <1>4, <3>1 DEF a
  <2>2. at'.step = "write" /\ at'.next = 1 /\ Keeps /\ Within
    BY <1>1, <1>2, <1>4, One DEF AtType, Within, Steps, Keeps
  <2> QED
    BY <1>1, <1>2, <1>4, <2>1, <2>2 DEF Marks, Attempts
<1> QED
  BY <1>3, <1>4 DEF Mute

LEMMA Glitches ==
  ASSUME World, Glitch
  PROVE  glitches' \in 0..MaxGlitches /\ glitches' # 0 /\ crashes' = crashes
BY BoundsAssumption DEF World, Glitch

LEMMA OfMuting ==
  ASSUME Shape, Muting
  PROVE  /\ World' /\ Settled
         /\ at.step = "muting"
         /\ \/ /\ audible' = FALSE /\ Marks(a.pending) /\ at'.step = "write" /\ at'.next = 1
               /\ at'.op = at.op /\ at'.err = at.err /\ at'.retry = at.retry
               /\ at'.muted = TRUE /\ UNCHANGED <<disk, glitches>>
            \/ glitches' # 0 /\ at.op = "prepare" /\ Breaks(FALSE) /\ at'.retry = at.retry
            \/ glitches' # 0 /\ Closes(FALSE, TRUE)
<1>1. World /\ at \in AtType /\ a \in Attempts /\ mem \in [Pass -> Attempts]
  BY Layers, Here DEF Memory
<1>2. /\ Settled /\ at.step = "muting" /\ disk' = disk
  BY <1>1 DEF Muting, history, Settled
<1>3. CASE /\ audible' = FALSE
           /\ at' = [at EXCEPT !.step = "write", !.next = 1, !.muted = TRUE]
           /\ UNCHANGED <<mem, budget>>
  <2>1. mem' = [mem EXCEPT ![i] = [a EXCEPT !.pending = a.pending]]
    <3>1. [a EXCEPT !.pending = a.pending] = a
      BY <1>1 DEF Attempts
    <3> QED
      BY <1>1, <1>3, <3>1 DEF a
  <2>2. /\ at'.step = "write" /\ at'.next = 1 /\ at'.muted = TRUE /\ Within
        /\ at'.op = at.op /\ at'.err = at.err /\ at'.retry = at.retry
    BY <1>1, <1>2, <1>3, One DEF AtType, Within, Steps, budget
  <2>3. World' /\ glitches' = glitches
    BY <1>1, <1>2, <1>3 DEF World, Settled, budget
  <2> QED
    BY <1>1, <1>2, <1>3, <2>1, <2>2, <2>3 DEF Marks, Attempts
<1>4. ASSUME Glitch, audible' \in BOOLEAN, at.op = "prepare"
      PROVE  World' /\ glitches' # 0 /\ (Muting => Breaks(FALSE) /\ at'.retry = at.retry)
  <2>1. a.stage \in {"PREPARING", "RUNNING"}
    BY <1>2, <1>4, Layers DEF Place, Preparing
  <2>2. /\ glitches' \in 0..MaxGlitches /\ glitches' # 0 /\ crashes' = crashes
        /\ glitches' # glitches
    BY <1>1, <1>4, Glitches DEF Glitch, World
  <2>3. World'
    BY <1>1, <1>2, <1>4, <2>2 DEF World, Settled
  <2>4. ASSUME Muting
        PROVE  Breaks(FALSE) /\ at'.retry = at.retry
    <3> DEFINE x == [a EXCEPT !.pending = FALSE]
    <3>1. /\ x \in Attempts /\ x.snapshot = a.snapshot /\ x.applied = a.applied
          /\ x.restored = a.restored
      BY <1>1 DEF Attempts
    <3>2. /\ mem' = [mem EXCEPT ![i] = [Ended("FAILED") EXCEPT !.pending = FALSE]]
          /\ at' = AfterFinish([x EXCEPT !.stage = "FAILED"])
      BY <1>4, <2>2, <2>4 DEF Muting, budget
    <3> HIDE DEF x
    <3>3. /\ mem' = [mem EXCEPT ![i] = Failed(FALSE)]
          /\ at' = IF Remembers(a)
                   THEN [at EXCEPT !.step = "mute", !.op = "restore", !.err = FALSE,
                                   !.muted = FALSE]
                   ELSE [at EXCEPT !.step = "settle"]
      BY <2>1, <3>1, <3>2, Failure
    <3>4. Within /\ at'.retry = at.retry
          /\ (Remembers(a) =>
                at'.step = "mute" /\ at'.op = "restore" /\ at'.err = FALSE /\ at'.muted = FALSE)
          /\ (~Remembers(a) => at'.step = "settle" /\ at'.muted = at.muted)
      BY <1>1, <1>2, <2>2, <3>3 DEF Within, AtType, Steps
    <3> QED
      BY <1>2, <2>1, <3>3, <3>4 DEF Breaks
  <2> QED
    BY <2>2, <2>3, <2>4
<1>5. ASSUME Glitch, audible' \in BOOLEAN, at.op # "prepare"
      PROVE  World' /\ glitches' # 0 /\ (Muting => Closes(FALSE, TRUE))
  <2>2. /\ glitches' \in 0..MaxGlitches /\ glitches' # 0 /\ crashes' = crashes
        /\ glitches' # glitches
    BY <1>1, <1>5, Glitches DEF Glitch, World
  <2>3. World'
    BY <1>1, <1>2, <1>5, <2>2 DEF World, Settled
  <2>4. ASSUME Muting
        PROVE  Closes(FALSE, TRUE)
    <3>1. /\ mem' = [mem EXCEPT ![i] = Closed([a EXCEPT !.pending = FALSE], TRUE)]
          /\ at' = [at EXCEPT !.step = "settle"]
      BY <1>5, <2>2, <2>4 DEF Muting, budget, Goto
    <3>2. mem' = [mem EXCEPT ![i] =
                    [a EXCEPT !.error = @ \/ TRUE, !.restored = TRUE, !.pending = FALSE]]
      <4>1. Closed([a EXCEPT !.pending = FALSE], TRUE) =
              [a EXCEPT !.error = @ \/ TRUE, !.restored = TRUE, !.pending = FALSE]
        BY <1>1 DEF Closed, Attempts
      <4> QED
        BY <3>1, <4>1
    <3>3. Restoring
      BY <1>1, <1>2, <1>5 DEF Restoring, AtType
    <3>4. Within
      BY <1>1, <1>2, <2>2, <3>1 DEF Within, AtType, Steps
    <3> QED
      BY <1>2, <3>1, <3>2, <3>3, <3>4 DEF Closes
  <2> QED
    BY <2>2, <2>3, <2>4
<1> QED
  BY <1>2, <1>3, <1>4, <1>5 DEF Muting

LEMMA OfWritten ==
  ASSUME Shape, Written
  PROVE  /\ World' /\ Settled
         /\ at.step = "write" /\ at.next = Params + 1
         /\ UNCHANGED <<audible, disk, glitches>>
         /\ Marks(a.pending) /\ at'.step = "unmute" /\ Keeps
<1>1. World /\ at \in AtType /\ a \in Attempts /\ mem \in [Pass -> Attempts]
  BY Layers, Here DEF Memory
<1>2. /\ World' /\ Settled /\ at.step = "write" /\ at.next = Params + 1
      /\ UNCHANGED <<audible, disk, glitches>>
      /\ crashes' = crashes /\ mem' = mem /\ Goto("unmute")
  BY <1>1 DEF Written, World, history, budget, robotVars, Settled
<1>3. mem' = [mem EXCEPT ![i] = [a EXCEPT !.pending = a.pending]]
  <2>1. [a EXCEPT !.pending = a.pending] = a
    BY <1>1 DEF Attempts
  <2> QED
    BY <1>1, <1>2, <2>1 DEF a
<1>4. at'.step = "unmute" /\ Keeps /\ Within
  BY <1>1, <1>2 DEF Goto, AtType, Within, Steps, Keeps
<1> QED
  BY <1>1, <1>2, <1>3, <1>4 DEF Marks, Attempts

LEMMA OfReturned ==
  ASSUME Shape, at.step = "unmute", NEW q \in BOOLEAN, NEW e \in BOOLEAN,
         Returned([a EXCEPT !.pending = q], e), disk' = disk, crashes' = crashes
  PROVE  \/ at.op = "restore" /\ Closes(q, e)
         \/ at.op = "prepare" /\ e /\ Breaks(q) /\ at'.retry = at.retry
         \/ at.op = "prepare" /\ ~e /\ Marks(q) /\ at'.step = "recheck" /\ Keeps
<1> DEFINE x == [a EXCEPT !.pending = q]
<1>1. at \in AtType /\ a \in Attempts /\ mem \in [Pass -> Attempts]
  BY Layers, Here DEF Memory
<1>2. /\ x \in Attempts /\ x.snapshot = a.snapshot /\ x.applied = a.applied
      /\ x.restored = a.restored /\ x.pending = q
  BY <1>1 DEF Attempts
<1>3. CASE at.op = "restore"
  <2>1. /\ mem' = [mem EXCEPT ![i] = Closed(x, e)]
        /\ at' = [at EXCEPT !.step = "settle"]
    BY <1>3 DEF Returned, Goto
  <2>2. Closed(x, e) = [a EXCEPT !.error = @ \/ e, !.restored = TRUE, !.pending = q]
    BY <1>1 DEF Closed, Attempts
  <2>3. Restoring
    BY <1>3 DEF Restoring
  <2>4. Within
    BY <1>1, <2>1 DEF Within, AtType, Steps
  <2> QED
    BY <1>3, <2>1, <2>2, <2>3, <2>4 DEF Closes
<1>4. CASE at.op = "prepare" /\ e
  <2>1. a.stage \in {"PREPARING", "RUNNING"}
    BY <1>4, Layers DEF Place, Preparing
  <2>2. /\ mem' = [mem EXCEPT ![i] = [Ended("FAILED") EXCEPT !.pending = x.pending]]
        /\ at' = AfterFinish([x EXCEPT !.stage = "FAILED"])
    BY <1>4 DEF Returned
  <2> HIDE DEF x
  <2>3. /\ mem' = [mem EXCEPT ![i] = Failed(q)]
        /\ at' = IF Remembers(a)
                 THEN [at EXCEPT !.step = "mute", !.op = "restore", !.err = FALSE,
                                 !.muted = FALSE]
                 ELSE [at EXCEPT !.step = "settle"]
    BY <1>2, <2>1, <2>2, Failure
  <2>4. Within /\ at'.retry = at.retry
        /\ (Remembers(a) =>
              at'.step = "mute" /\ at'.op = "restore" /\ at'.err = FALSE /\ at'.muted = FALSE)
        /\ (~Remembers(a) => at'.step = "settle" /\ at'.muted = at.muted)
    BY <1>1, <2>3 DEF Within, AtType, Steps
  <2> QED
    BY <1>4, <2>1, <2>3, <2>4 DEF Breaks
<1>5. CASE at.op = "prepare" /\ ~e
  <2>1. mem' = [mem EXCEPT ![i] = x] /\ at' = [at EXCEPT !.step = "recheck"]
    BY <1>5 DEF Returned, Goto
  <2>2. at'.step = "recheck" /\ Keeps /\ Within
    BY <1>1, <2>1 DEF AtType, Within, Steps, Keeps
  <2> QED
    BY <1>5, <2>1, <2>2 DEF Marks
<1> QED
  BY <1>1, <1>3, <1>4, <1>5 DEF AtType

\* How the sound suppression ended.
Ending(q, e) ==
  \/ at.op = "restore" /\ Closes(q, e)
  \/ at.op = "prepare" /\ e /\ Breaks(q) /\ at'.retry = at.retry
  \/ at.op = "prepare" /\ ~e /\ Marks(q) /\ at'.step = "recheck" /\ Keeps

LEMMA OfUnmute ==
  ASSUME Shape, Unmute
  PROVE  /\ World' /\ Settled
         /\ at.step = "unmute" /\ disk' = disk
         /\ \/ /\ ~at.muted /\ Ending(a.pending, at.err)
               /\ UNCHANGED <<audible, glitches>>
            \/ /\ at.muted /\ audible' = TRUE /\ Ending(FALSE, at.err)
               /\ UNCHANGED glitches
            \/ at.muted /\ glitches' # 0 /\ Ending(TRUE, TRUE)
<1>1. World /\ at \in AtType /\ a \in Attempts /\ mem \in [Pass -> Attempts]
  BY Layers, Here DEF Memory
<1>2. /\ Settled /\ at.step = "unmute" /\ disk' = disk
  BY <1>1 DEF Unmute, history, Settled
<1>3. CASE ~at.muted /\ Returned(a, at.err) /\ UNCHANGED <<audible, budget>>
  <2>1. a = [a EXCEPT !.pending = a.pending] /\ a.pending \in BOOLEAN /\ at.err \in BOOLEAN
    BY <1>1 DEF Attempts, AtType
  <2>2. crashes' = crashes /\ glitches' = glitches /\ audible' = audible
    BY <1>3 DEF budget
  <2>3. Ending(a.pending, at.err)
    BY <1>2, <1>3, <2>1, <2>2, OfReturned DEF Ending
  <2>4. World'
    BY <1>1, <1>2, <2>2 DEF World, Settled
  <2> QED
    BY <1>2, <1>3, <2>2, <2>3, <2>4
<1>4. CASE at.muted /\ audible' = TRUE /\ Returned(Unmuted(a), at.err) /\ UNCHANGED budget
  <2>1. at.err \in BOOLEAN
    BY <1>1 DEF AtType
  <2>2. crashes' = crashes /\ glitches' = glitches
    BY <1>4 DEF budget
  <2>3. Ending(FALSE, at.err)
    BY <1>2, <1>4, <2>1, <2>2, OfReturned DEF Ending, Unmuted
  <2>4. World'
    BY <1>1, <1>2, <1>4, <2>2 DEF World, Settled
  <2> QED
    BY <1>2, <1>4, <2>2, <2>3, <2>4
<1>5. CASE /\ at.muted /\ Glitch
           /\ audible' \in {audible, TRUE}
           /\ Returned([a EXCEPT !.pending = TRUE], TRUE)
  <2>1. glitches' \in 0..MaxGlitches /\ glitches' # 0 /\ crashes' = crashes
    BY <1>1, <1>5, Glitches
  <2>2. Ending(TRUE, TRUE)
    BY <1>2, <1>5, <2>1, OfReturned DEF Ending
  <2>3. World'
    BY <1>1, <1>2, <1>5, <2>1 DEF World, Settled
  <2> QED
    BY <1>2, <1>5, <2>1, <2>2, <2>3
<1> QED
  BY <1>3, <1>4, <1>5 DEF Unmute

LEMMA OfSettle ==
  ASSUME Shape, Settle
  PROVE  /\ World' /\ Settled
         /\ at.step = "settle" /\ disk' = disk
         /\ at'.step = "return" /\ Keeps
         /\ \/ ~a.pending /\ Marks(FALSE) /\ UNCHANGED <<audible, glitches>>
            \/ a.pending /\ audible' = TRUE /\ Marks(FALSE) /\ UNCHANGED glitches
            \/ glitches' # 0 /\ Marks(a.pending)
<1>1. World /\ at \in AtType /\ a \in Attempts /\ mem \in [Pass -> Attempts]
  BY Layers, Here DEF Memory
<1>2. /\ Settled /\ at.step = "settle" /\ disk' = disk
  BY <1>1 DEF Settle, history, Settled
<1>3. glitches' \in 0..MaxGlitches /\ crashes' = crashes
  <2>1. UNCHANGED budget \/ Glitch
    BY DEF Settle
  <2> QED
    BY <1>1, <2>1, Glitches DEF World, budget
<1>4. World' /\ Within /\ at'.step = "return" /\ Keeps
  <2>1. World'
    BY <1>1, <1>2, <1>3 DEF World, Settled, Settle
  <2>2. at' = [at EXCEPT !.step = "return"]
    BY DEF Settle, Goto
  <2> QED
    BY <1>1, <1>2, <1>3, <2>1, <2>2 DEF AtType, Within, Steps, Keeps
<1>5. CASE ~a.pending /\ UNCHANGED <<audible, mem, budget>>
  <2>1. mem' = [mem EXCEPT ![i] = [a EXCEPT !.pending = FALSE]]
    <3>1. [a EXCEPT !.pending = FALSE] = a
      BY <1>1, <1>5 DEF Attempts
    <3> QED
      BY <1>1, <1>5, <3>1 DEF a
  <2> QED
    BY <1>2, <1>4, <1>5, <2>1 DEF Marks, budget
<1>6. CASE /\ a.pending
           /\ audible' = TRUE
           /\ mem' = [mem EXCEPT ![i] = Unmuted(a)]
           /\ UNCHANGED budget
  BY <1>2, <1>4, <1>6 DEF Marks, budget, Unmuted
<1>7. CASE a.pending /\ Glitch /\ audible' \in {audible, TRUE} /\ UNCHANGED mem
  <2>1. mem' = [mem EXCEPT ![i] = [a EXCEPT !.pending = a.pending]] /\ a.pending \in BOOLEAN
    <3>1. [a EXCEPT !.pending = a.pending] = a /\ a.pending \in BOOLEAN
      BY <1>1 DEF Attempts
    <3> QED
      BY <1>1, <1>7, <3>1 DEF a
  <2>2. glitches' # 0
    BY <1>1, <1>7, Glitches
  <2> QED
    BY <1>2, <1>4, <2>1, <2>2 DEF Marks
<1> QED
  BY <1>5, <1>6, <1>7 DEF Settle

-----------------------------------------------------------------------------
\* Shape is kept by the steps of the coroutine.

LEMMA Marked ==
  ASSUME Shape, NEW q, Marks(q)
  PROVE  /\ i' = i /\ i \in Pass /\ a \in Attempts /\ a' \in Attempts
         /\ a'.stage = a.stage /\ a'.snapshot = a.snapshot /\ a'.applied = a.applied
         /\ a'.restored = a.restored /\ a'.error = a.error
         /\ a'.pending = q
         /\ \A l \in Pass : l # i => mem'[l] = mem[l]
         /\ Full(a') = Full(a) /\ Ends(mem', i) = Ends(mem, i)
<1>1. /\ i \in Pass /\ a \in Attempts /\ mem \in [Pass -> Attempts]
      /\ mem' = [mem EXCEPT ![i] = [a EXCEPT !.pending = q]]
      /\ at'.pass = at.pass /\ q \in BOOLEAN
  BY Here, Layers DEF Memory, Marks, Within
<1>2. i' = i
  BY <1>1 DEF i
<1>3. a' = [a EXCEPT !.pending = q] /\ \A l \in Pass : l # i => mem'[l] = mem[l]
  BY <1>1, <1>2 DEF a
<1>4. /\ a' \in Attempts
      /\ a'.stage = a.stage /\ a'.snapshot = a.snapshot /\ a'.applied = a.applied
      /\ a'.restored = a.restored /\ a'.error = a.error
      /\ a'.pending = q
  BY <1>1, <1>3 DEF Attempts
<1>5. mem'[i] = a' /\ mem[i] = a
  BY <1>1, <1>3 DEF a
<1> QED
  BY <1>1, <1>2, <1>3, <1>4, <1>5 DEF Full, Ends

LEMMA ShapeRevive ==
  ASSUME Shape, Revive
  PROVE  Shape'
<1>1. ASSUME NEW q, Marks(q), at'.step = "guard", World'
      PROVE  Shape'
  <2>1. a.stage = "PREPARING"
    BY Layers, OfRevive DEF Place, Preparing
  <2>2. a'.stage = "PREPARING"
    BY <1>1, <2>1, Marked
  <2>3. Place'
    BY <1>1, <2>2 DEF Place, Preparing, Restoring
  <2> QED
    BY <1>1, <2>3, MarksShape
<1> QED
  BY <1>1, OfRevive, BreaksShape

LEMMA ShapeFirstGuard ==
  ASSUME Shape, FirstGuard
  PROVE  Shape'
<1>1. ASSUME NEW q, Marks(q), at'.step = "mute", at'.op = "prepare", World'
      PROVE  Shape'
  <2>1. a.stage = "PREPARING"
    BY Layers, OfFirstGuard DEF Place, Preparing
  <2>2. a'.stage = "PREPARING"
    BY <1>1, <2>1, Marked
  <2>3. Place'
    BY <1>1, <2>2 DEF Place, Preparing, Restoring
  <2> QED
    BY <1>1, <2>3, MarksShape
<1> QED
  BY <1>1, OfFirstGuard, BreaksShape

LEMMA ShapeRecheck ==
  ASSUME Shape, Guard("recheck", "intent")
  PROVE  Shape'
<1>1. ASSUME NEW q, Marks(q), at'.step = "intent", World', at.step = "recheck"
      PROVE  Shape'
  <2>1. a.stage = "PREPARING" /\ Full(a)
    BY <1>1, Layers DEF Place, Preparing
  <2>2. a'.stage = "PREPARING" /\ Full(a')
    BY <1>1, <2>1, Marked
  <2>3. Place'
    BY <1>1, <2>2 DEF Place, Preparing, Restoring, Full
  <2> QED
    BY <1>1, <2>3, MarksShape
<1> QED
  BY <1>1, OfGuard, BreaksShape

LEMMA ShapeSend ==
  ASSUME Shape, Guard("send", "save")
  PROVE  Shape'
<1>1. ASSUME NEW q, Marks(q), at'.step = "save", World'
      PROVE  Shape'
  <2>1. Place'
    BY <1>1 DEF Place, Preparing, Restoring
  <2> QED
    BY <1>1, <2>1, MarksShape
<1> QED
  BY <1>1, OfGuard, BreaksShape

\* The steps around the writes keep their place, whichever way they go.
LEMMA SamePlace ==
  ASSUME Shape, World', NEW q, Marks(q), at'.op = at.op, at'.err = at.err,
         at.step \in {"mute", "muting", "write"},
         at'.step \in {"muting", "write", "unmute"},
         at'.step = "write" => at'.next = 1,
         at'.step = "unmute" => at.step = "write" /\ at.next = Params + 1
  PROVE  Shape'
<1>1. /\ at.op = "prepare" => a.stage = "PREPARING"
      /\ at.op = "restore" => Terminal(a) /\ ~a.restored /\ (crashes = 0 => Ends(mem, i))
  BY Layers DEF Place, Preparing, Restoring
<1>2. /\ a'.stage = a.stage /\ a'.restored = a.restored /\ i' = i /\ i \in Pass
      /\ a'.applied = a.applied /\ Full(a') = Full(a) /\ Ends(mem', i) = Ends(mem, i)
  BY Marked
<1>3. at.op = "prepare" /\ at'.step = "unmute" => Full(a)
  <2>1. Setting = 1..Params /\ \A m \in Setting : m < Params + 1
    BY ParamsAssumption DEF Setting
  <2>2. at.op = "prepare" /\ at'.step = "unmute" => a.applied = Setting
    <3>1. at.op = "prepare" /\ at'.step = "unmute" => \A p \in Setting : p \in a.applied
      BY <2>1, Layers DEF Place
    <3> QED
      BY <3>1, Here DEF Attempts
  <2> QED
    BY <1>1, <2>2, Here DEF Proper, Full
<1>4. Terminal(a') = Terminal(a)
  BY <1>2 DEF Terminal
<1>5. at'.step = "write" => \A p \in Setting : ~(p < at'.next)
  BY ParamsAssumption DEF Setting
<1>6. crashes' = crashes
  BY DEF Marks, Within
<1>7. Full(a)' = Full(a') /\ Ends(mem, i)' = Ends(mem', i) /\ Terminal(a)' = Terminal(a')
  BY <1>2 DEF Full, Ends, Terminal
<1>8. Place'
  <2>1. (Preparing => a.stage = "PREPARING")'
    BY <1>1, <1>2 DEF Preparing
  <2>2. at'.step \notin {"send", "settle", "return", "recheck", "intent"}
    OBVIOUS
  <2>3. (Restoring => Terminal(a))'
    BY <1>1, <1>4, <1>7 DEF Restoring
  <2>4. (Restoring => ~a.restored /\ (crashes = 0 => Ends(mem, i)))'
    BY <1>1, <1>2, <1>6, <1>7 DEF Restoring
  <2>5. (at.op = "prepare" /\ at.step = "write" => \A p \in Setting : p < at.next => p \in a.applied)'
    BY <1>5
  <2>6. (at.op = "prepare" /\ at.step = "unmute" => Full(a))'
    BY <1>2, <1>3, <1>7
  <2> QED
    BY <2>1, <2>2, <2>3, <2>4, <2>5, <2>6 DEF Place
<1> QED
  BY <1>8, MarksShape

LEMMA ShapeMute ==
  ASSUME Shape, Mute
  PROVE  Shape'
BY OfMute, SamePlace DEF Keeps

LEMMA ShapeMuting ==
  ASSUME Shape, Muting
  PROVE  Shape'
BY OfMuting, SamePlace, BreaksShape, ClosesShape

LEMMA ShapeWritten ==
  ASSUME Shape, Written
  PROVE  Shape'
BY OfWritten, SamePlace DEF Keeps

LEMMA ShapeEnding ==
  ASSUME Shape, World', at.step = "unmute", NEW q, NEW e, e \/ ~at.err, Ending(q, e)
  PROVE  Shape'
<1>1. CASE at.op = "prepare" /\ ~e /\ Marks(q) /\ at'.step = "recheck" /\ Keeps
  <2>1. a.stage = "PREPARING" /\ Full(a)
    BY <1>1, Layers DEF Place, Preparing
  <2>2. a'.stage = "PREPARING" /\ Full(a')
    BY <1>1, <2>1, Marked
  <2>3. Place'
    BY <1>1, <2>2 DEF Place, Preparing, Restoring, Full
  <2> QED
    BY <1>1, <2>3, MarksShape
<1> QED
  BY <1>1, BreaksShape, ClosesShape DEF Ending

LEMMA ShapeUnmute ==
  ASSUME Shape, Unmute
  PROVE  Shape'
BY OfUnmute, ShapeEnding

LEMMA ShapeSettle ==
  ASSUME Shape, Settle
  PROVE  Shape'
<1>1. Terminal(a)
  BY OfSettle, Layers DEF Place
<1>2. ASSUME NEW q, Marks(q), at'.step = "return"
      PROVE  Place'
  <2>1. Terminal(a')
    BY <1>1, <1>2, Marked DEF Terminal
  <2> QED
    BY <1>2, <2>1 DEF Place, Preparing, Restoring, Terminal
<1> QED
  BY <1>2, OfSettle, MarksShape

\* The attempt once setting p is noted, and applied when the robot has taken it.
Wrote(p, accepted) ==
  [Noted(a, p) EXCEPT !.applied = IF accepted THEN @ \cup {p} ELSE @]

LEMMA WroteIs ==
  ASSUME Shape, NEW p \in Setting, NEW accepted \in BOOLEAN
  PROVE  LET b == Wrote(p, accepted)
         IN  /\ b \in Attempts
             /\ b.stage = a.stage /\ b.restored = a.restored /\ b.error = a.error
             /\ b.pending = a.pending
             /\ b.applied = IF accepted THEN a.applied \cup {p} ELSE a.applied
             /\ b.snapshot[p] = IF a.snapshot[p] = Unset THEN setting[p] ELSE a.snapshot[p]
             /\ b.snapshot[p] # Unset
             /\ \A q \in Setting : q # p => b.snapshot[q] = a.snapshot[q]
<1>1. a \in Attempts /\ setting \in [Setting -> Values]
  BY Here, Layers DEF World
<1>2. setting[p] \in Values /\ setting[p] # Unset
  BY <1>1, ValuesAssumption
<1>3. PICK v : v = (IF a.snapshot[p] = Unset THEN setting[p] ELSE a.snapshot[p])
  OBVIOUS
<1>4. v \in Values
  BY <1>1, <1>2, <1>3 DEF Attempts
<1>5. Noted(a, p) = [a EXCEPT !.snapshot = [@ EXCEPT ![p] = v]]
  BY <1>1, <1>3 DEF Noted
<1>6. /\ Wrote(p, accepted) = [a EXCEPT !.snapshot = [@ EXCEPT ![p] = v],
                                        !.applied = IF accepted THEN @ \cup {p} ELSE @]
  BY <1>1, <1>5 DEF Wrote, Attempts
<1>7. [a.snapshot EXCEPT ![p] = v] \in [Setting -> Values \cup {Unset}]
  BY <1>1, <1>4 DEF Attempts
<1>8. (IF accepted THEN a.applied \cup {p} ELSE a.applied) \in SUBSET Setting
  BY <1>1 DEF Attempts
<1>9. Wrote(p, accepted) \in Attempts
  BY <1>1, <1>6, <1>7, <1>8 DEF Attempts
<1> QED
  BY <1>1, <1>3, <1>4, <1>6, <1>9, ValuesAssumption DEF Attempts

LEMMA OfApply ==
  ASSUME Shape, NEW p \in Setting, Apply(p)
  PROVE  /\ at.step = "write" /\ at.op = "prepare" /\ at.next = p
         /\ UNCHANGED <<audible, disk, loud, torn, dropped>>
         /\ Within /\ at'.op = at.op /\ at'.muted = at.muted /\ at'.retry = at.retry
         /\ \/ /\ mem' = [mem EXCEPT ![i] = Wrote(p, TRUE)]
               /\ setting' = [setting EXCEPT ![p] = Planned]
               /\ Overwrites(p)
               /\ at'.step = "write" /\ at'.next = p + 1 /\ at'.err = at.err
               /\ UNCHANGED glitches
            \/ /\ at'.step = "unmute" /\ at'.err = TRUE
               /\ Marks(a.pending) /\ UNCHANGED <<setting, touched, original, glitches>>
            \/ /\ at'.step = "unmute" /\ at'.err = TRUE /\ glitches' # 0
               /\ \E accepted, effective \in BOOLEAN :
                    /\ mem' = [mem EXCEPT ![i] = Wrote(p, accepted)]
                    /\ IF effective
                       THEN setting' = [setting EXCEPT ![p] = Planned] /\ Overwrites(p)
                       ELSE UNCHANGED <<setting, touched, original>>
<1>1. World /\ at \in AtType /\ a \in Attempts /\ mem \in [Pass -> Attempts]
  BY Layers, Here DEF Memory
<1>2. /\ at.step = "write" /\ at.op = "prepare" /\ at.next = p
      /\ UNCHANGED <<audible, disk, loud, torn, dropped>>
  BY DEF Apply
<1>3. CASE /\ mem' = [mem EXCEPT ![i] = [Noted(a, p) EXCEPT !.applied = @ \cup {p}]]
           /\ setting' = [setting EXCEPT ![p] = Planned]
           /\ Overwrites(p)
           /\ at' = [at EXCEPT !.next = p + 1]
           /\ UNCHANGED budget
  <2>1. mem' = [mem EXCEPT ![i] = Wrote(p, TRUE)]
    <3>1. Wrote(p, TRUE) = [Noted(a, p) EXCEPT !.applied = @ \cup {p}]
      BY DEF Wrote
    <3> QED
      BY <1>3, <3>1
  <2>2. p + 1 \in 1..Params + 1
    BY ParamsAssumption DEF Setting
  <2>3. /\ Within /\ at'.op = at.op /\ at'.muted = at.muted /\ at'.retry = at.retry
        /\ at'.step = "write" /\ at'.next = p + 1 /\ at'.err = at.err
    BY <1>1, <1>2, <1>3, <2>2 DEF Within, AtType, budget
  <2>4. glitches' = glitches
    BY <1>3 DEF budget
  <2> QED
    BY <1>2, <1>3, <2>1, <2>3, <2>4
<1>4. ASSUME Raise, crashes' = crashes
      PROVE  /\ Within /\ at'.op = at.op /\ at'.muted = at.muted /\ at'.retry = at.retry
             /\ at'.step = "unmute" /\ at'.err = TRUE
  BY <1>1, <1>2, <1>4 DEF Raise, Within, AtType, Steps
<1>5. CASE Raise /\ UNCHANGED <<mem, setting, touched, original, budget>>
  <2>1. mem' = [mem EXCEPT ![i] = [a EXCEPT !.pending = a.pending]] /\ a.pending \in BOOLEAN
    <3>1. [a EXCEPT !.pending = a.pending] = a /\ a.pending \in BOOLEAN
      BY <1>1 DEF Attempts
    <3> QED
      BY <1>1, <1>5, <3>1 DEF a
  <2>2. crashes' = crashes /\ glitches' = glitches
    BY <1>5 DEF budget
  <2> QED
    BY <1>2, <1>4, <1>5, <2>1, <2>2 DEF Marks
<1>6. CASE /\ Glitch /\ Raise
           /\ \E accepted, effective \in BOOLEAN :
                /\ mem' = [mem EXCEPT ![i] =
                             [Noted(a, p) EXCEPT !.applied = IF accepted THEN @ \cup {p} ELSE @]]
                /\ IF effective
                   THEN setting' = [setting EXCEPT ![p] = Planned] /\ Overwrites(p)
                   ELSE UNCHANGED <<setting, touched, original>>
  <2>1. glitches' # 0 /\ crashes' = crashes
    BY <1>1, <1>6, Glitches
  <2> QED
    BY <1>2, <1>4, <1>6, <2>1 DEF Wrote
<1> QED
  BY <1>3, <1>5, <1>6 DEF Apply

LEMMA WorldApply ==
  ASSUME Shape, NEW p \in Setting, Apply(p)
  PROVE  World'
<1>1. World /\ a \in Attempts
  BY Layers, Here
<1>2. crashes' = crashes /\ UNCHANGED <<audible, loud, torn, dropped>>
  BY OfApply DEF Within
<1>3. glitches' \in 0..MaxGlitches
  <2>1. UNCHANGED budget \/ Glitch
    BY DEF Apply
  <2> QED
    BY <1>1, <2>1, Glitches DEF World, budget
<1>4. /\ setting' = setting \/ setting' = [setting EXCEPT ![p] = Planned]
      /\ UNCHANGED <<touched, original>> \/ Overwrites(p)
  BY OfApply
<1>5. setting' \in [Setting -> Values]
  BY <1>1, <1>4, ValuesAssumption DEF World
<1>6. touched' \in SUBSET Setting /\ original' \in [Setting -> Values]
  BY <1>1, <1>4 DEF World, Overwrites
<1> QED
  BY <1>1, <1>2, <1>3, <1>5, <1>6 DEF World

LEMMA WroteShape ==
  ASSUME Shape, World', NEW p \in Setting, NEW accepted \in BOOLEAN,
         at.step = "write", at.op = "prepare", at.next = p, disk' = disk,
         Within, at'.op = at.op, mem' = [mem EXCEPT ![i] = Wrote(p, accepted)],
         \/ at'.step = "write" /\ at'.next = p + 1 /\ accepted
         \/ at'.step = "unmute" /\ at'.err = TRUE
  PROVE  /\ Shape'
         /\ i' = i /\ a' = Wrote(p, accepted)
         /\ \A l \in Pass : l # i => mem'[l] = mem[l]
<1> DEFINE b == Wrote(p, accepted)
<1>1. /\ i \in Pass /\ a \in Attempts /\ a.stage = "PREPARING" /\ Proper(a, i)
      /\ \A q \in Setting : q < at.next => q \in a.applied
  BY Here, Layers DEF Place, Preparing
<1>2. /\ b \in Attempts
      /\ b.stage = a.stage /\ b.restored = a.restored
      /\ b.applied = IF accepted THEN a.applied \cup {p} ELSE a.applied
      /\ b.snapshot[p] = IF a.snapshot[p] = Unset THEN setting[p] ELSE a.snapshot[p]
      /\ b.snapshot[p] # Unset
      /\ \A q \in Setting : q # p => b.snapshot[q] = a.snapshot[q]
  BY WroteIs
<1> HIDE DEF b
<1>3. Onward(a, b)
  BY <1>1, <1>2 DEF Onward, Terminal
<1>4. Proper(b, i)
  <2>1. Full(a) => Full(b)
    BY <1>1, <1>2 DEF Full, Attempts
  <2>2. \A q \in b.applied : b.snapshot[q] # Unset
    BY <1>1, <1>2 DEF Proper, Attempts
  <2> QED
    BY <1>1, <1>2, <2>1, <2>2 DEF Proper, Terminal
<1>5. mem' = [mem EXCEPT ![i] = b]
  BY DEF b
<1>6. /\ Memory' /\ mem'[i] = b
      /\ \A l \in Pass : l # i => mem'[l] = mem[l]
      /\ \A l \in Pass : mem[l].stage # "none" => mem'[l].stage # "none"
  BY <1>1, <1>2, <1>3, <1>4, <1>5, Layers, Update DEF a
<1>7. Line'
  BY <1>6, Layers, LineStays DEF Within
<1>8. i' = i /\ a' = b /\ at' \in AtType
  BY <1>6 DEF i, a, Within
<1>9. Place'
  <2>1. at'.step = "write" => \A q \in Setting : q < at'.next => q \in b.applied
    BY <1>1, <1>2 DEF Setting
  <2> QED
    BY <1>1, <1>2, <1>8, <2>1 DEF Place, Preparing, Restoring
<1> QED
  BY <1>6, <1>7, <1>8, <1>9, Layers DEF Shape, TypeOK, World, AtType, Memory, Where, b

LEMMA ShapeApply ==
  ASSUME Shape, NEW p \in Setting, Apply(p)
  PROVE  Shape'
<1>1. ASSUME NEW q, Marks(q), at'.step = "unmute", at'.err = TRUE
      PROVE  Place'
  <2>1. a.stage = "PREPARING" /\ at'.op = "prepare"
    BY OfApply, Layers DEF Place, Preparing
  <2>2. a'.stage = "PREPARING"
    BY <1>1, <2>1, Marked
  <2> QED
    BY <1>1, <2>1, <2>2 DEF Place, Preparing, Restoring
<1>2. World'
  BY WorldApply
<1> QED
  BY <1>1, <1>2, OfApply, WroteShape, MarksShape

-----------------------------------------------------------------------------
\* Shape is kept by the remaining actions.

LEMMA Assembled ==
  ASSUME World', at' \in AtType, Memory', Place', Line'
  PROVE  Shape'
BY DEF Shape, TypeOK, World, AtType, Memory, Where

LEMMA OfPutBack ==
  ASSUME Shape, NEW p \in Setting, PutBack(p)
  PROVE  /\ World'
         /\ at.step = "write" /\ at.op = "restore" /\ at.next = p
         /\ UNCHANGED <<audible, disk, original, touched, loud, torn, dropped>>
         /\ Marks(a.pending) /\ mem' = mem
         /\ at'.op = at.op /\ at'.muted = at.muted /\ at'.retry = at.retry
         /\ \/ /\ at'.step = "write" /\ at'.next = p + 1 /\ at'.err = at.err
               /\ UNCHANGED glitches
               /\ \/ /\ a.snapshot[p] = Unset \/ ~Unchanged(p)
                     /\ UNCHANGED setting
                  \/ /\ a.snapshot[p] # Unset /\ Unchanged(p)
                     /\ setting' = [setting EXCEPT ![p] = a.snapshot[p]]
            \/ /\ at'.step = "unmute" /\ at'.err = TRUE /\ glitches' # 0
               /\ \/ UNCHANGED setting
                  \/ /\ a.snapshot[p] # Unset /\ Unchanged(p)
                     /\ setting' = [setting EXCEPT ![p] = a.snapshot[p]]
<1>1. World /\ at \in AtType /\ a \in Attempts /\ mem \in [Pass -> Attempts]
  BY Layers, Here DEF Memory
<1>2. /\ at.step = "write" /\ at.op = "restore" /\ at.next = p
      /\ UNCHANGED <<audible, disk, original, touched, loud, torn, dropped>> /\ mem' = mem
  BY DEF PutBack, history
<1>3. mem' = [mem EXCEPT ![i] = [a EXCEPT !.pending = a.pending]] /\ a.pending \in BOOLEAN
  <2>1. [a EXCEPT !.pending = a.pending] = a /\ a.pending \in BOOLEAN
    BY <1>1 DEF Attempts
  <2> QED
    BY <1>1, <1>2, <2>1 DEF a
<1>4. p + 1 \in 1..Params + 1
  BY ParamsAssumption DEF Setting
<1>5. ASSUME a.snapshot[p] # Unset, setting' = [setting EXCEPT ![p] = a.snapshot[p]]
      PROVE  setting' \in [Setting -> Values]
  BY <1>1, <1>5 DEF World, Attempts
<1>6. CASE /\ a.snapshot[p] = Unset \/ ~Unchanged(p)
           /\ at' = [at EXCEPT !.next = p + 1]
           /\ UNCHANGED <<setting, budget>>
  <2>1. /\ Within /\ at'.op = at.op /\ at'.muted = at.muted /\ at'.retry = at.retry
        /\ at'.step = "write" /\ at'.next = p + 1 /\ at'.err = at.err
    BY <1>1, <1>2, <1>4, <1>6 DEF Within, AtType, budget
  <2>2. World'
    BY <1>1, <1>2, <1>6 DEF World, budget
  <2> QED
    BY <1>2, <1>3, <1>6, <2>1, <2>2 DEF Marks, budget
<1>7. CASE /\ a.snapshot[p] # Unset /\ Unchanged(p)
           /\ setting' = [setting EXCEPT ![p] = a.snapshot[p]]
           /\ at' = [at EXCEPT !.next = p + 1]
           /\ UNCHANGED budget
  <2>1. /\ Within /\ at'.op = at.op /\ at'.muted = at.muted /\ at'.retry = at.retry
        /\ at'.step = "write" /\ at'.next = p + 1 /\ at'.err = at.err
    BY <1>1, <1>2, <1>4, <1>7 DEF Within, AtType, budget
  <2>2. World'
    BY <1>1, <1>2, <1>5, <1>7 DEF World, budget
  <2> QED
    BY <1>2, <1>3, <1>7, <2>1, <2>2 DEF Marks, budget
<1>8. CASE /\ a.snapshot[p] # Unset /\ Unchanged(p)
           /\ Glitch /\ Raise
           /\ \/ setting' = [setting EXCEPT ![p] = a.snapshot[p]]
              \/ UNCHANGED setting
  <2>1. glitches' \in 0..MaxGlitches /\ glitches' # 0 /\ crashes' = crashes
    BY <1>1, <1>8, Glitches
  <2>2. /\ Within /\ at'.op = at.op /\ at'.muted = at.muted /\ at'.retry = at.retry
        /\ at'.step = "unmute" /\ at'.err = TRUE
    BY <1>1, <1>2, <1>8, <2>1 DEF Within, AtType, Steps, Raise
  <2>3. World'
    BY <1>1, <1>2, <1>5, <1>8, <2>1 DEF World
  <2> QED
    BY <1>2, <1>3, <1>8, <2>1, <2>2, <2>3 DEF Marks
<1> QED
  BY <1>6, <1>7, <1>8 DEF PutBack

LEMMA ShapePutBack ==
  ASSUME Shape, NEW p \in Setting, PutBack(p)
  PROVE  Shape'
<1>1. Terminal(a) /\ ~a.restored /\ (crashes = 0 => Ends(mem, i)) /\ crashes' = crashes
  BY OfPutBack, Layers DEF Place, Restoring, Marks, Within
<1>2. mem' = mem /\ at'.op = "restore" /\ i' = i /\ a' = a /\ at'.step \in {"write", "unmute"}
  BY OfPutBack DEF Marks, Within, i, a
<1>3. Place'
  BY <1>1, <1>2 DEF Place, Preparing, Restoring, Terminal, Ends
<1> QED
  BY <1>3, OfPutBack, MarksShape

LEMMA ShapeIntent ==
  ASSUME Shape, Intent
  PROVE  Shape'
<1> DEFINE b == [a EXCEPT !.stage = "RUNNING"]
<1>1. /\ i \in Pass /\ a \in Attempts /\ a.stage = "PREPARING" /\ Proper(a, i) /\ Full(a)
      /\ World /\ at \in AtType /\ mem \in [Pass -> Attempts]
  BY Here, Layers DEF Place, Preparing, Intent, Memory
<1>2. /\ b \in Attempts /\ b.stage = "RUNNING" /\ b.snapshot = a.snapshot
      /\ b.applied = a.applied /\ b.restored = a.restored
  BY <1>1 DEF Attempts, Stages
<1>3. mem' = [mem EXCEPT ![i] = b] /\ disk' = mem'
  BY <1>1 DEF Intent, a
<1> HIDE DEF b
<1>4. Onward(a, b) /\ Proper(b, i)
  BY <1>1, <1>2 DEF Onward, Proper, Terminal, Full
<1>5. at.step = "intent"
  BY DEF Intent
<1>6. /\ Memory' /\ mem'[i] = b
      /\ \A l \in Pass : mem[l].stage # "none" => mem'[l].stage # "none"
  BY <1>1, <1>2, <1>3, <1>4, <1>5, Layers, Update DEF a
<1>7. /\ at' \in AtType /\ at'.pass = at.pass /\ at'.queue = at.queue
      /\ at'.boot = at.boot /\ at'.step = "send"
  BY <1>1 DEF Intent, Goto, AtType, Steps
<1>8. World' /\ crashes' = crashes
  BY <1>1 DEF Intent, World, robotVars, budget, history
<1>9. Line'
  BY <1>1, <1>5, <1>6, <1>7, <1>8, Layers, LineStays
<1>10. Place'
  BY <1>2, <1>6, <1>7 DEF Place, Preparing, Restoring, i, a
<1> QED
  BY <1>6, <1>7, <1>8, <1>9, <1>10, Assembled

\* The job is at rest, or about to be saved: there is no queue.
LEMMA NoLine ==
  ASSUME at'.queue = {}, at'.boot = FALSE
  PROVE  Line'
BY DEF Line

LEMMA ShapeStartPass ==
  ASSUME Shape, NEW k \in Pass, StartPass(k)
  PROVE  Shape'
<1> DEFINE b == Successor(k)
<1>1. /\ World /\ at \in AtType /\ mem \in [Pass -> Attempts] /\ Chain(mem)
      /\ at.step \in {"rest", "next"} /\ mem[k].stage = "none"
      /\ k > 1 => k - 1 \in Pass /\ mem[k - 1].stage = "COMPLETED"
      /\ mem' = [mem EXCEPT ![k] = b] /\ disk' = disk
      /\ at' = [Rest EXCEPT !.step = "revive", !.pass = k]
  <2>1. k > 1 => k - 1 \in Pass
    BY ParamsAssumption DEF Pass
  <2> QED
    BY <2>1, Layers DEF Memory, StartPass, Startable
<1>2. \A l \in Pass : l < k => mem[l].stage = "COMPLETED"
  <2> SUFFICES ASSUME NEW l \in Pass, l < k
               PROVE  mem[l].stage = "COMPLETED"
    OBVIOUS
  <2>1. k > 1 /\ (l = k - 1 \/ l < k - 1)
    BY DEF Pass
  <2> QED
    BY <1>1, <2>1 DEF Chain
<1>3. mem[k] = Absent /\ Absent.snapshot = [p \in Setting |-> Unset] /\ Absent.applied = {}
      /\ ~Absent.restored /\ Absent \in Attempts
  BY <1>1 DEF Chain, Absent, Attempts, Stages
<1>4. /\ b \in Attempts /\ b.stage = "PREPARING" /\ ~b.restored
      /\ k = 1 => b.applied = {}
      /\ k # 1 => b.applied = mem[k - 1].applied /\ b.snapshot = mem[k - 1].snapshot
  <2>1. CASE k = 1
    BY <1>3, <2>1 DEF Successor, Attempts, Stages, Absent
  <2>2. CASE k # 1
    <3>1. mem[k - 1] \in Attempts
      BY <1>1, <2>2 DEF Pass
    <3> QED
      BY <2>2, <3>1 DEF Successor, Attempts, Stages, Absent
  <2> QED
    BY <2>1, <2>2
<1>5. k # 1 => Full(b)
  <2>1. k # 1 => Full(mem[k - 1])
    BY <1>1 DEF Chain, Pass
  <2> QED
    BY <1>4, <2>1 DEF Full
<1> HIDE DEF b
<1>6. Onward(mem[k], b)
  BY <1>3, <1>4 DEF Onward, Terminal, Absent
<1>7. Proper(b, k)
  BY <1>4, <1>5 DEF Proper, Full, Pass
<1>8. at.step # "save"
  BY <1>1
<1>9. /\ Memory' /\ mem'[k] = b
  BY <1>1, <1>2, <1>4, <1>6, <1>7, <1>8, Layers, Update
<1>10. /\ at' \in AtType /\ at'.pass = k /\ at'.queue = {}
       /\ at'.boot = FALSE /\ at'.step = "revive" /\ at'.op = "prepare"
  BY <1>1, One DEF Rest, AtType, Steps
<1>11. World'
  BY <1>1 DEF StartPass, World, robotVars, budget, history
<1>12. Place'
  BY <1>4, <1>9, <1>10 DEF Place, Preparing, Restoring, i, a
<1> QED
  BY <1>9, <1>10, <1>11, <1>12, NoLine, Assembled

LEMMA ShapeSave ==
  ASSUME Shape, Save
  PROVE  Shape'
<1>1. World /\ at \in AtType /\ mem \in [Pass -> Attempts] /\ Chain(mem)
  BY Layers DEF Memory
<1>2. at' = Rest /\ disk' = mem /\ mem' = mem /\ World'
  BY <1>1 DEF Save, World, robotVars, budget, history
<1>3. Behind'
  BY <1>2 DEF Behind, Follows
<1>4. Memory'
  BY <1>1, <1>2, <1>3 DEF Memory
<1>5. Place' /\ at'.queue = {} /\ at'.boot = FALSE
  BY <1>2 DEF Place, Preparing, Restoring, Rest
<1> QED
  BY <1>2, <1>4, <1>5, One, NoLine, Assembled

LEMMA ShapeCrash ==
  ASSUME Shape, Crash
  PROVE  Shape'
<1>1. World /\ at \in AtType /\ disk \in [Pass -> Attempts] /\ Chain(disk)
  BY Layers DEF Memory
<1>2. /\ disk' = disk /\ mem' = disk /\ crashes' = crashes + 1
      /\ at' = [Rest EXCEPT !.step = "boot", !.boot = TRUE,
                        !.queue = {pass \in Pass : disk[pass].stage # "none"}]
  BY DEF Crash
<1>3. World' /\ crashes' # 0
  BY <1>1, <1>2, BoundsAssumption DEF World, Crash, robotVars, Unsaved
<1>4. Memory'
  <2>1. Behind'
    BY <1>2 DEF Behind, Follows
  <2> QED
    BY <1>1, <1>2, <2>1 DEF Memory
<1>5. /\ at' \in AtType /\ at'.step = "boot" /\ at'.op = "prepare"
      /\ at'.queue = {pass \in Pass : disk[pass].stage # "none"} /\ at'.boot = TRUE
  BY <1>2, One DEF Rest, AtType, Steps
<1>6. Place'
  BY <1>5 DEF Place, Preparing, Restoring
<1>7. Line'
  BY <1>2, <1>3, <1>5 DEF Line
<1> QED
  BY <1>3, <1>4, <1>5, <1>6, <1>7, Assembled

LEMMA ShapeReturn ==
  ASSUME Shape, Return
  PROVE  Shape'
<1>1. /\ World /\ at \in AtType /\ mem \in [Pass -> Attempts] /\ disk \in [Pass -> Attempts]
      /\ Chain(mem) /\ Chain(disk) /\ i \in Pass /\ at.step = "return" /\ Behind /\ Line
  BY Here, Layers DEF Memory, Return
<1>2. World' /\ disk' = disk
  <2>1. dropped' \in BOOLEAN
    BY <1>1, Here DEF Return, World, Attempts
  <2> QED
    BY <1>1, <2>1 DEF Return, World, robotVars, budget
<1>3. CASE Deferred
  <2>1. /\ mem' = [mem EXCEPT ![i] = Absent] /\ at' = [at EXCEPT !.step = "save"]
        /\ mem[i].stage = "FAILED" /\ at.boot = FALSE
    BY <1>1, <1>3 DEF Return, Goto, Deferred, a, AtType
  <2>2. Absent \in Attempts /\ Absent.stage = "none" /\ ~Absent.restored /\ Absent.applied = {}
    BY DEF Absent, Attempts, Stages
  <2>3. /\ mem' \in [Pass -> Attempts] /\ mem'[i] = Absent
        /\ \A l \in Pass : l # i => mem'[l] = mem[l]
    BY <1>1, <2>1, <2>2
  <2>4. Chain(mem')
    <3> SUFFICES ASSUME NEW l \in Pass
                 PROVE  /\ mem'[l].stage = "none" => mem'[l] = Absent
                        /\ mem'[l].stage # "none" =>
                             \A m \in Pass : m < l => mem'[m].stage = "COMPLETED"
                        /\ mem'[l].stage # "none" => Proper(mem'[l], l)
      <4>1. \A l \in Pass : mem'[l] = Absent => mem'[l].applied = {} /\ ~mem'[l].restored
        BY <2>2
      <4> QED
        BY <2>2, <4>1 DEF Chain, Proper
    <3>1. CASE l = i
      BY <2>2, <2>3, <3>1
    <3>2. CASE l # i
      <4>1. mem[l].stage # "none" => ~(i < l)
        BY <1>1, <2>1 DEF Chain
      <4>2. \A m \in Pass : m < l /\ mem[l].stage # "none" => m # i
        BY <4>1
      <4> QED
        BY <1>1, <2>3, <3>2, <4>2 DEF Chain, Proper
    <3> QED
      BY <3>1, <3>2
  <2>5. at' \in AtType /\ at'.step = "save" /\ at'.queue = {} /\ at'.boot = FALSE
    BY <1>1, <2>1 DEF AtType, Steps, Line
  <2>6. Behind'
    <3> SUFFICES ASSUME NEW l \in Pass
                 PROVE  Follows(l)' \/ mem'[l] = Absent
      BY <2>5 DEF Behind
    <3>1. l # i => Follows(l)
      BY <1>1 DEF Behind
    <3> QED
      BY <1>2, <2>3, <3>1 DEF Follows
  <2>7. Memory'
    BY <1>1, <1>2, <2>3, <2>4, <2>6 DEF Memory
  <2>8. Place'
    BY <2>5 DEF Place, Preparing, Restoring
  <2> QED
    BY <1>2, <2>5, <2>7, <2>8, NoLine, Assembled
<1>4. CASE ~Deferred
  <2>1. /\ mem' = mem
        /\ at' = [Rest EXCEPT !.step = IF at.boot THEN "boot" ELSE Continuation,
                              !.boot = at.boot, !.queue = at.queue]
    BY <1>4 DEF Return
  <2>2. Continuation \in {"next", "save"}
    BY DEF Continuation
  <2>3. Memory'
    <3>1. at.step # "save"
      BY <1>1
    <3> QED
      BY <1>2, <2>1, <3>1, Layers, Unchanging
  <2>4. /\ at' \in AtType /\ at'.step = IF at.boot THEN "boot" ELSE Continuation
        /\ at'.boot = at.boot /\ at'.queue = at.queue
    BY <1>1, <2>1, <2>2, One DEF Rest, AtType, Steps
  <2>5. Place'
    BY <2>2, <2>4 DEF Place, Preparing, Restoring
  <2>6. Line'
    <3>1. ~at.boot => at.queue = {}
      BY <1>1 DEF Line
    <3>2. crashes' = crashes
      BY DEF Return, budget
    <3> QED
      BY <1>1, <2>1, <2>2, <2>4, <3>1, <3>2 DEF Line, AtType
  <2> QED
    BY <1>2, <2>3, <2>4, <2>5, <2>6, Assembled
<1> QED
  BY <1>3, <1>4

\* A pass that observation has ended, with its restore still due or not.
Stopped(k, stage) ==
  LET b == [mem[k] EXCEPT !.stage = stage]
  IN  [b EXCEPT !.restored = RestoreDue(b, k) /\ ~Remembers(b)]

LEMMA OfPassEnds ==
  ASSUME Shape, NEW k \in Pass, NEW stage \in {"COMPLETED", "FAILED"}, PassEnds(k, stage)
  PROVE  /\ World' /\ Settled /\ UNCHANGED <<audible, disk, glitches, crashes>>
         /\ at.step = "rest" /\ mem[k].stage = "RUNNING" /\ mem[k].restored = FALSE
         /\ Full(mem[k]) /\ mem[k] \in Attempts
         /\ mem' = [mem EXCEPT ![k] = Stopped(k, stage)]
         /\ Stopped(k, stage) \in Attempts
         /\ Stopped(k, stage).stage = stage
         /\ Stopped(k, stage).snapshot = mem[k].snapshot
         /\ Stopped(k, stage).applied = mem[k].applied
         /\ Stopped(k, stage).pending = mem[k].pending
         /\ Stopped(k, stage).error = mem[k].error
         /\ Stopped(k, stage).restored = FALSE
         /\ at' \in AtType /\ at'.pass = k /\ at'.op = "restore" /\ at'.queue = {}
         /\ at'.boot = FALSE /\ at'.err = FALSE /\ at'.muted = FALSE /\ at'.retry = FALSE
         /\ at'.step = IF stage = "COMPLETED" /\ ~Final(k) THEN "settle" ELSE "mute"
<1>1. /\ World /\ at \in AtType /\ mem \in [Pass -> Attempts] /\ Chain(mem)
      /\ at.step = "rest" /\ mem[k].stage = "RUNNING" /\ mem[k] \in Attempts
  BY Layers DEF Memory, PassEnds
<1>2. mem[k].restored = FALSE /\ Full(mem[k])
  BY <1>1 DEF Chain, Terminal, Attempts
<1> DEFINE b == [mem[k] EXCEPT !.stage = stage]
<1>3. /\ b \in Attempts /\ b.stage = stage /\ b.snapshot = mem[k].snapshot
      /\ b.applied = mem[k].applied /\ b.pending = mem[k].pending
      /\ b.error = mem[k].error /\ b.restored = FALSE
  BY <1>1, <1>2 DEF Attempts, Stages
<1>4. Remembers(b)
  <2>1. 1 \in Setting
    BY ParamsAssumption DEF Setting
  <2> QED
    BY <1>2, <1>3, <2>1 DEF Remembers, Full
<1>5. RestoreDue(b, k) <=> ~(stage = "COMPLETED" /\ ~Final(k))
  BY <1>3 DEF RestoreDue
<1>6. /\ mem' = [mem EXCEPT ![k] =
                   [b EXCEPT !.restored = @ \/ (RestoreDue(b, k) /\ ~Remembers(b))]]
      /\ at' = [Rest EXCEPT !.pass = k,
                            !.step = IF RestoreDue(b, k) /\ Remembers(b) THEN "mute" ELSE "settle",
                            !.op = "restore"]
  BY DEF PassEnds
<1>7. Stopped(k, stage) = b
  <2>1. Stopped(k, stage) = [b EXCEPT !.restored = FALSE]
    BY <1>4 DEF Stopped
  <2> QED
    BY <1>3, <2>1 DEF Attempts
<1>8. [b EXCEPT !.restored = @ \/ (RestoreDue(b, k) /\ ~Remembers(b))] = b
  BY <1>3, <1>4 DEF Attempts
<1>9. World' /\ Settled /\ UNCHANGED <<audible, disk, glitches, crashes>>
  BY <1>1 DEF PassEnds, World, Settled, robotVars, budget, history
<1> HIDE DEF b
<1>10. at' = [Rest EXCEPT !.pass = k,
                          !.step = IF stage = "COMPLETED" /\ ~Final(k) THEN "settle" ELSE "mute",
                          !.op = "restore"]
  BY <1>4, <1>5, <1>6
<1>11. /\ at' \in AtType /\ at'.pass = k /\ at'.op = "restore" /\ at'.queue = {}
       /\ at'.boot = FALSE /\ at'.err = FALSE /\ at'.muted = FALSE /\ at'.retry = FALSE
       /\ at'.step = IF stage = "COMPLETED" /\ ~Final(k) THEN "settle" ELSE "mute"
  BY <1>10, One DEF Rest, AtType, Steps
<1> QED
  BY <1>1, <1>2, <1>3, <1>6, <1>7, <1>8, <1>9, <1>11

LEMMA ShapePassEnds ==
  ASSUME Shape, NEW k \in Pass, NEW stage \in {"COMPLETED", "FAILED"}, PassEnds(k, stage)
  PROVE  Shape'
<1> DEFINE b == Stopped(k, stage)
<1>0. /\ World' /\ Settled /\ UNCHANGED <<audible, disk, glitches, crashes>>
      /\ at.step = "rest" /\ mem[k].stage = "RUNNING" /\ mem[k].restored = FALSE
      /\ Full(mem[k]) /\ mem[k] \in Attempts
      /\ mem' = [mem EXCEPT ![k] = b]
      /\ b \in Attempts
      /\ b.stage = stage
      /\ b.snapshot = mem[k].snapshot
      /\ b.applied = mem[k].applied
      /\ b.pending = mem[k].pending
      /\ b.error = mem[k].error
      /\ b.restored = FALSE
      /\ at' \in AtType /\ at'.pass = k /\ at'.op = "restore" /\ at'.queue = {}
      /\ at'.boot = FALSE /\ at'.err = FALSE /\ at'.muted = FALSE /\ at'.retry = FALSE
      /\ at'.step = IF stage = "COMPLETED" /\ ~Final(k) THEN "settle" ELSE "mute"
  BY OfPassEnds
<1> HIDE DEF b
<1>1. /\ World' /\ disk' = disk
      /\ at.step = "rest" /\ mem[k].stage = "RUNNING"
      /\ Full(mem[k]) /\ mem[k] \in Attempts
      /\ mem' = [mem EXCEPT ![k] = b]
      /\ b \in Attempts /\ b.stage = stage /\ b.snapshot = mem[k].snapshot
      /\ b.applied = mem[k].applied /\ b.restored = FALSE
      /\ at' \in AtType /\ at'.pass = k /\ at'.op = "restore" /\ at'.queue = {}
      /\ at'.boot = FALSE
      /\ at'.step = IF stage = "COMPLETED" /\ ~Final(k) THEN "settle" ELSE "mute"
  BY <1>0
<1>2. Onward(mem[k], b) /\ Proper(b, k)
  BY <1>1 DEF Onward, Proper, Full, Terminal, Attempts
<1>3. /\ Memory' /\ mem'[k] = b
  <2>1. at.step # "save" /\ mem[k].stage # "none"
    BY <1>1
  <2> QED
    BY <1>1, <1>2, <2>1, Layers, Update
<1>4. Place'
  <2>1. at'.step \in {"mute", "settle"} /\ mem'[k].stage = stage /\ ~mem'[k].restored
    BY <1>1, <1>3
  <2>2. at'.step = "mute" => stage # "COMPLETED" \/ Final(k)
    BY <1>1
  <2> QED
    BY <1>1, <2>1, <2>2 DEF Place, Preparing, Restoring, Terminal, i, a, Ends
<1> QED
  BY <1>1, <1>3, <1>4, NoLine, Assembled

LEMMA ShapeRecovered ==
  ASSUME Shape, Recovered
  PROVE  Shape'
<1>1. World /\ at.step = "boot"
  BY Layers DEF Recovered
<1>2. /\ mem' = mem /\ disk' = disk /\ World'
      /\ at' = [Rest EXCEPT !.step = Continuation]
  BY <1>1 DEF Recovered, World, robotVars, budget, history
<1>3. Continuation \in {"next", "save"}
  BY DEF Continuation
<1>4. /\ at' \in AtType /\ at'.step = Continuation
      /\ at'.boot = FALSE /\ at'.queue = {}
  BY <1>2, <1>3, One DEF Rest, AtType, Steps
<1>5. Memory'
  <2>1. at.step # "save"
    BY <1>1
  <2> QED
    BY <1>2, <2>1, Layers, Unchanging
<1>6. Place'
  BY <1>3, <1>4 DEF Place, Preparing, Restoring
<1> QED
  BY <1>2, <1>4, <1>5, <1>6, NoLine, Assembled

LEMMA ShapeUserSets ==
  ASSUME Shape, NEW p \in Setting, NEW v \in Values, UserSets(p, v)
  PROVE  Shape'
<1>1. World' /\ UNCHANGED <<mem, disk, at, crashes>>
  BY Layers DEF UserSets, World, budget
<1> QED
  BY <1>1 DEF Shape, TypeOK, World, Behind, Follows, Where, Place, Line, Preparing, Restoring,
              i, a, Ends, Terminal, Full

LEMMA ShapeStutter ==
  ASSUME Shape, UNCHANGED vars
  PROVE  Shape'
<1>1. UNCHANGED <<setting, audible, mem, disk, at, glitches, crashes, original, touched, loud,
                  torn, dropped>>
  BY DEF vars, robotVars, budget, history
<1> QED
  BY <1>1 DEF Shape, TypeOK, Behind, Follows, Where, Place, Line, Preparing, Restoring,
              i, a, Ends, Terminal, Full

\* The attempt whose deadline passed while the program was down.
Expired(k) == [mem[k] EXCEPT !.stage = "FAILED", !.restored = ~Remembers(mem[k])]

LEMMA OfRecover ==
  ASSUME Shape, NEW k \in Pass, Recover(k)
  PROVE  /\ World' /\ Settled /\ UNCHANGED <<audible, disk, glitches, crashes>>
         /\ at.step = "boot" /\ k \in at.queue /\ mem[k] \in Attempts
         /\ at' \in AtType /\ at'.pass = k /\ at'.queue = at.queue \ {k}
         /\ \A l \in at'.queue : k < l
         /\ at'.boot = at.boot /\ at'.err = at.err /\ at'.muted = at.muted
         /\ at'.retry = at.retry
         /\ \/ /\ Terminal(mem[k]) /\ mem[k].restored = FALSE /\ Remembers(mem[k])
               /\ mem' = mem /\ at'.step = "mute" /\ at'.op = "restore"
            \/ /\ Terminal(mem[k]) /\ (mem[k].restored \/ ~Remembers(mem[k]))
               /\ mem' = [mem EXCEPT ![k] = [mem[k] EXCEPT !.restored = TRUE]]
               /\ at'.step = "settle"
            \/ mem[k].stage = "PREPARING" /\ mem' = mem /\ at'.step = "revive"
            \/ /\ mem[k].stage = "PREPARING"
               /\ mem' = [mem EXCEPT ![k] = Expired(k)]
               /\ Remembers(mem[k]) => at'.step = "mute" /\ at'.op = "restore"
               /\ ~Remembers(mem[k]) => at'.step = "settle"
            \/ mem[k].stage = "RUNNING" /\ mem' = mem /\ at'.step = "boot"
<1>1. /\ World /\ at \in AtType /\ mem \in [Pass -> Attempts] /\ mem[k] \in Attempts
      /\ mem[k].stage # "none" => Proper(mem[k], k)
  BY Layers DEF Memory, Chain, Proper
<1>2. World' /\ Settled /\ UNCHANGED <<audible, disk, glitches, crashes>>
  BY <1>1 DEF Recover, World, Settled, robotVars, budget, history
<1> DEFINE here == [at EXCEPT !.pass = k, !.queue = @ \ {k}]
<1>3. /\ at.step = "boot" /\ k \in at.queue
      /\ \A l \in at.queue \ {k} : k < l
  <2>1. \A other \in at.queue : k <= other
    BY DEF Recover
  <2>2. at.queue \subseteq Pass
    BY <1>1 DEF AtType
  <2>3. \A l \in at.queue \ {k} : k < l
    BY <2>1, <2>2 DEF Pass
  <2> QED
    BY <2>3 DEF Recover
<1>4. /\ here \in AtType /\ here.pass = k /\ here.queue = at.queue \ {k} /\ here.step = "boot"
      /\ here.boot = at.boot /\ here.err = at.err /\ here.muted = at.muted
      /\ here.retry = at.retry
  BY <1>1, <1>3 DEF AtType
<1>5. \/ /\ Terminal(mem[k])
         /\ IF ~mem[k].restored /\ Remembers(mem[k])
            THEN at' = [here EXCEPT !.step = "mute", !.op = "restore"] /\ UNCHANGED mem
            ELSE /\ mem' = [mem EXCEPT ![k].restored = TRUE]
                 /\ at' = [here EXCEPT !.step = "settle"]
      \/ mem[k].stage = "PREPARING" /\ at' = [here EXCEPT !.step = "revive"] /\ UNCHANGED mem
      \/ /\ mem[k].stage = "PREPARING"
         /\ LET f == [mem[k] EXCEPT !.stage = "FAILED"] IN
              IF Remembers(f)
              THEN /\ mem' = [mem EXCEPT ![k] = f]
                   /\ at' = [here EXCEPT !.step = "mute", !.op = "restore"]
              ELSE /\ mem' = [mem EXCEPT ![k] = [f EXCEPT !.restored = TRUE]]
                   /\ at' = [here EXCEPT !.step = "settle"]
      \/ mem[k].stage = "RUNNING" /\ at' = here /\ UNCHANGED mem
  BY DEF Recover
<1> HIDE DEF here
<1>6. CASE /\ Terminal(mem[k])
           /\ IF ~mem[k].restored /\ Remembers(mem[k])
              THEN at' = [here EXCEPT !.step = "mute", !.op = "restore"] /\ UNCHANGED mem
              ELSE /\ mem' = [mem EXCEPT ![k].restored = TRUE]
                   /\ at' = [here EXCEPT !.step = "settle"]
  <2>1. CASE ~mem[k].restored /\ Remembers(mem[k])
    <3>1. at' = [here EXCEPT !.step = "mute", !.op = "restore"] /\ mem' = mem
      BY <1>6, <2>1
    <3>2. mem[k].restored = FALSE
      BY <1>1, <2>1 DEF Attempts
    <3>3. /\ at' \in AtType /\ at'.pass = k /\ at'.queue = at.queue \ {k}
          /\ at'.boot = at.boot /\ at'.err = at.err /\ at'.muted = at.muted
          /\ at'.retry = at.retry /\ at'.step = "mute" /\ at'.op = "restore"
      BY <1>4, <3>1 DEF AtType, Steps
    <3> QED
      BY <1>1, <1>2, <1>3, <1>6, <2>1, <3>1, <3>2, <3>3
  <2>2. CASE ~(~mem[k].restored /\ Remembers(mem[k]))
    <3>1. at' = [here EXCEPT !.step = "settle"] /\ mem' = [mem EXCEPT ![k].restored = TRUE]
      BY <1>6, <2>2
    <3>2. mem' = [mem EXCEPT ![k] = [mem[k] EXCEPT !.restored = TRUE]]
      BY <1>1, <3>1
    <3>3. /\ at' \in AtType /\ at'.pass = k /\ at'.queue = at.queue \ {k}
          /\ at'.boot = at.boot /\ at'.err = at.err /\ at'.muted = at.muted
          /\ at'.retry = at.retry /\ at'.step = "settle"
      BY <1>4, <3>1 DEF AtType, Steps
    <3> QED
      BY <1>1, <1>2, <1>3, <1>6, <2>2, <3>2, <3>3
  <2> QED
    BY <2>1, <2>2
<1>7. CASE mem[k].stage = "PREPARING" /\ at' = [here EXCEPT !.step = "revive"] /\ UNCHANGED mem
  <2>1. /\ at' \in AtType /\ at'.pass = k /\ at'.queue = at.queue \ {k}
        /\ at'.boot = at.boot /\ at'.err = at.err /\ at'.muted = at.muted
        /\ at'.retry = at.retry /\ at'.step = "revive"
    BY <1>4, <1>7 DEF AtType, Steps
  <2> QED
    BY <1>1, <1>2, <1>3, <1>7, <2>1
<1>8. CASE /\ mem[k].stage = "PREPARING"
           /\ LET f == [mem[k] EXCEPT !.stage = "FAILED"] IN
                IF Remembers(f)
                THEN /\ mem' = [mem EXCEPT ![k] = f]
                     /\ at' = [here EXCEPT !.step = "mute", !.op = "restore"]
                ELSE /\ mem' = [mem EXCEPT ![k] = [f EXCEPT !.restored = TRUE]]
                     /\ at' = [here EXCEPT !.step = "settle"]
  <2> DEFINE f == [mem[k] EXCEPT !.stage = "FAILED"]
  <2>1. mem[k].restored = FALSE
    BY <1>1, <1>8 DEF Proper, Terminal, Attempts
  <2>2. /\ f.snapshot = mem[k].snapshot /\ f.applied = mem[k].applied
        /\ Remembers(mem[k]) => f = Expired(k)
        /\ ~Remembers(mem[k]) => [f EXCEPT !.restored = TRUE] = Expired(k)
    <3>1. Remembers(mem[k]) \in BOOLEAN
      BY DEF Remembers
    <3> QED
      BY <1>1, <2>1, <3>1 DEF Expired, Attempts
  <2>3. Remembers(f) <=> Remembers(mem[k])
    BY <2>2 DEF Remembers
  <2>4. IF Remembers(f)
        THEN /\ mem' = [mem EXCEPT ![k] = f]
             /\ at' = [here EXCEPT !.step = "mute", !.op = "restore"]
        ELSE /\ mem' = [mem EXCEPT ![k] = [f EXCEPT !.restored = TRUE]]
             /\ at' = [here EXCEPT !.step = "settle"]
    BY <1>8
  <2> HIDE DEF f
  <2>5. /\ mem' = [mem EXCEPT ![k] = Expired(k)]
        /\ Remembers(mem[k]) => at' = [here EXCEPT !.step = "mute", !.op = "restore"]
        /\ ~Remembers(mem[k]) => at' = [here EXCEPT !.step = "settle"]
    BY <2>2, <2>3, <2>4
  <2>6. /\ at' \in AtType /\ at'.pass = k /\ at'.queue = at.queue \ {k}
        /\ at'.boot = at.boot /\ at'.err = at.err /\ at'.muted = at.muted
        /\ at'.retry = at.retry
        /\ Remembers(mem[k]) => at'.step = "mute" /\ at'.op = "restore"
        /\ ~Remembers(mem[k]) => at'.step = "settle"
    BY <1>4, <2>5 DEF AtType, Steps
  <2> QED
    BY <1>1, <1>2, <1>3, <1>8, <2>5, <2>6
<1>9. CASE mem[k].stage = "RUNNING" /\ at' = here /\ UNCHANGED mem
  BY <1>1, <1>2, <1>3, <1>4, <1>9
<1> QED
  BY <1>5, <1>6, <1>7, <1>8, <1>9

LEMMA ShapeRecover ==
  ASSUME Shape, NEW k \in Pass, Recover(k)
  PROVE  Shape'
<1>1. /\ World' /\ disk' = disk /\ crashes' = crashes
      /\ at.step = "boot" /\ k \in at.queue /\ mem[k] \in Attempts
      /\ at' \in AtType /\ at'.pass = k /\ at'.queue = at.queue \ {k}
      /\ \A l \in at'.queue : k < l
      /\ at'.boot = at.boot
  BY OfRecover
<1>2. /\ crashes # 0 /\ at.queue \subseteq Pass /\ at.boot
      /\ \A l \in at.queue : mem[l].stage # "none"
      /\ Proper(mem[k], k)
  BY <1>1, Layers DEF Line, AtType, Memory, Chain, Proper
<1>3. ASSUME at'.step \notin {"rest", "next"},
             \A l \in Pass : mem[l].stage # "none" => mem'[l].stage # "none"
      PROVE  Line'
  BY <1>1, <1>2, <1>3 DEF Line, i
<1>4. at.step # "save"
  BY <1>1
<1>5. CASE mem' = mem
  <2>1. Memory' /\ \A l \in Pass : mem[l].stage # "none" => mem'[l].stage # "none"
    BY <1>1, <1>4, <1>5, Layers, Unchanging
  <2>2. \/ Terminal(mem[k]) /\ mem[k].restored = FALSE /\ at'.step = "mute" /\ at'.op = "restore"
        \/ mem[k].stage = "PREPARING" /\ at'.step = "revive"
        \/ at'.step = "boot"
        \/ Terminal(mem[k]) /\ at'.step = "settle"
        \/ mem' = [mem EXCEPT ![k] = Expired(k)] /\ mem[k].stage = "PREPARING"
    BY OfRecover
  <2>3. ~(mem' = [mem EXCEPT ![k] = Expired(k)] /\ mem[k].stage = "PREPARING")
    <3>1. Expired(k).stage = "FAILED"
      BY <1>1 DEF Expired, Attempts
    <3> QED
      BY <1>5, <3>1, Layers DEF Memory
  <2>4. Place'
    BY <1>1, <1>2, <1>5, <2>2, <2>3 DEF Place, Preparing, Restoring, Terminal, i, a
  <2>5. Line'
    BY <1>3, <2>1, <2>2, <2>3
  <2> QED
    BY <1>1, <2>1, <2>4, <2>5, Assembled
<1>6. ASSUME NEW b \in Attempts, mem' = [mem EXCEPT ![k] = b], Terminal(b),
             Onward(mem[k], b), Proper(b, k), mem[k].stage # "none",
             at'.step = "settle" \/ (at'.step = "mute" /\ at'.op = "restore" /\ ~b.restored)
      PROVE  Shape'
  <2>1. /\ Memory' /\ mem'[k] = b
        /\ \A l \in Pass : mem[l].stage # "none" => mem'[l].stage # "none"
    BY <1>1, <1>4, <1>6, Layers, Update
  <2>2. Line'
    BY <1>3, <1>6, <2>1
  <2>3. Place'
    BY <1>1, <1>2, <1>6, <2>1 DEF Place, Preparing, Restoring, i, a, Terminal
  <2> QED
    BY <1>1, <2>1, <2>2, <2>3, Assembled
<1>7. CASE /\ Terminal(mem[k])
           /\ mem' = [mem EXCEPT ![k] = [mem[k] EXCEPT !.restored = TRUE]]
           /\ at'.step = "settle"
  <2> DEFINE b == [mem[k] EXCEPT !.restored = TRUE]
  <2>1. /\ b \in Attempts /\ b.stage = mem[k].stage /\ b.snapshot = mem[k].snapshot
        /\ b.applied = mem[k].applied /\ mem' = [mem EXCEPT ![k] = b]
    BY <1>1, <1>7 DEF Attempts
  <2> HIDE DEF b
  <2>2. Onward(mem[k], b) /\ Proper(b, k) /\ Terminal(b) /\ mem[k].stage # "none"
    BY <1>2, <1>7, <2>1 DEF Onward, Proper, Terminal, Full
  <2> QED
    BY <1>6, <1>7, <2>1, <2>2
<1>8. CASE /\ mem[k].stage = "PREPARING"
           /\ mem' = [mem EXCEPT ![k] = Expired(k)]
           /\ Remembers(mem[k]) => at'.step = "mute" /\ at'.op = "restore"
           /\ ~Remembers(mem[k]) => at'.step = "settle"
  <2> DEFINE b == Expired(k)
  <2>1. /\ b \in Attempts /\ b.stage = "FAILED" /\ b.snapshot = mem[k].snapshot
        /\ b.applied = mem[k].applied /\ b.restored = ~Remembers(mem[k])
        /\ mem' = [mem EXCEPT ![k] = b]
    <3>1. Remembers(mem[k]) \in BOOLEAN
      BY DEF Remembers
    <3> QED
      BY <1>1, <1>8, <3>1 DEF Attempts, Expired, Stages
  <2> HIDE DEF b
  <2>2. Onward(mem[k], b) /\ Proper(b, k) /\ Terminal(b) /\ mem[k].stage # "none"
    BY <1>2, <1>8, <2>1 DEF Onward, Proper, Terminal, Full
  <2>3. at'.step = "settle" \/ (at'.step = "mute" /\ at'.op = "restore" /\ ~b.restored)
    BY <1>8, <2>1
  <2> QED
    BY <1>6, <2>1, <2>2, <2>3
<1> QED
  BY <1>5, <1>7, <1>8, OfRecover

LEMMA ShapeInit == Init => Shape
<1> SUFFICES ASSUME Init
             PROVE  Shape
  OBVIOUS
<1>1. Absent \in Attempts /\ Absent.stage = "none" /\ ~Absent.restored /\ Absent.applied = {}
  BY DEF Absent, Attempts, Stages
<1>2. /\ mem \in [Pass -> Attempts] /\ disk \in [Pass -> Attempts] /\ disk = mem
      /\ \A k \in Pass : mem[k] = Absent
      /\ at = Rest
  BY <1>1 DEF Init
<1>3. World
  <2>1. 0 \in 0..MaxGlitches /\ 0 \in 0..MaxCrashes
    BY BoundsAssumption
  <2> QED
    BY <2>1 DEF World, Init
<1>4. Chain(mem) /\ Chain(disk) /\ Behind
  BY <1>1, <1>2 DEF Chain, Behind, Follows
<1>5. Place /\ Line
  BY <1>2 DEF Place, Line, Preparing, Restoring, Rest
<1> QED
  BY <1>2, <1>3, <1>4, <1>5, One, Layers DEF Memory

LEMMA ShapeStep ==
  ASSUME Shape, [Next]_vars
  PROVE  Shape'
BY ShapeStartPass, ShapeRevive, ShapeFirstGuard, ShapeMute, ShapeMuting, ShapeApply,
   ShapePutBack, ShapeWritten, ShapeUnmute, ShapeRecheck, ShapeIntent, ShapeSend, ShapeSettle,
   ShapeReturn, ShapeSave, ShapePassEnds, ShapeCrash, ShapeRecover, ShapeRecovered,
   ShapeUserSets, ShapeStutter DEF Next

-----------------------------------------------------------------------------
\* The steps of the coroutine, seen together

\* A step that neither ends the attempt nor its restore, nor writes a setting.
Steady ==
  /\ Restoring => Restoring'
  /\ ~Failing(i)
  /\ at'.retry = at.retry
  /\ at'.step = "save" => at.queue = {}
  /\ Restoring' =>
       /\ at'.step = "write" => at'.next = 1
       /\ at'.step = "unmute" /\ ~at'.err =>
            Restoring /\ at.step = "write" /\ at.next = Params + 1

Walking ==
  \/ Revive \/ FirstGuard \/ Guard("recheck", "intent") \/ Guard("send", "save")
  \/ Mute \/ Muting \/ Written \/ Unmute \/ Settle

\* What such a step amounts to.
Walk ==
  \/ \E q : Marks(q) /\ Steady
  \/ \E q : /\ Breaks(q)
            /\ at'.retry \in {FALSE, at.retry} \/ (~Failing(i) /\ at'.retry \in BOOLEAN)
  \/ \E q, e : Closes(q, e) /\ (e \/ (at.step = "unmute" /\ ~at.err))

LEMMA Walks ==
  ASSUME Shape, Walking
  PROVE  Settled /\ Walk
<1>0. at \in AtType
  BY Layers
<1>1. CASE Revive
  <2>1. at.step = "revive"
    BY <1>1, OfRevive
  <2>2. \A q : Marks(q) /\ at'.step = "guard" /\ Keeps => Steady
    BY <2>1 DEF Steady, Restoring, Failing, Keeps
  <2> QED
    BY <1>1, <2>2, OfRevive DEF Walk
<1>2. CASE FirstGuard
  <2>1. at.step = "guard"
    BY <1>2, OfFirstGuard
  <2>2. /\ at'.step = "mute" /\ at'.op = "prepare" /\ at'.retry = at.retry => Steady
        /\ ~Failing(i)
    BY <2>1 DEF Steady, Restoring, Failing
  <2>3. \A q : Breaks(q) => at'.retry \in BOOLEAN
    BY DEF Breaks, Within, AtType
  <2> QED
    BY <1>2, <2>2, <2>3, OfFirstGuard DEF Walk
<1>3. CASE Guard("recheck", "intent")
  <2>1. at.step = "recheck"
    BY <1>3, OfGuard
  <2>2. /\ at'.step = "intent" /\ Keeps => Steady
        /\ ~Failing(i)
    BY <2>1 DEF Steady, Restoring, Failing, Keeps
  <2>3. \A q : Breaks(q) => at'.retry \in BOOLEAN
    BY DEF Breaks, Within, AtType
  <2> QED
    BY <1>3, <2>2, <2>3, OfGuard DEF Walk
<1>4. CASE Guard("send", "save")
  <2>1. at.step = "send"
    BY <1>4, OfGuard
  <2>2. at.queue = {}
    <3>1. a.stage = "RUNNING"
      BY <2>1, Layers DEF Place
    <3> SUFFICES ASSUME NEW l \in at.queue
                 PROVE  FALSE
      OBVIOUS
    <3>2. l \in Pass /\ i < l /\ mem[l].stage # "none"
      BY <1>0, <2>1, Layers DEF Line, AtType
    <3>3. mem[i].stage = "COMPLETED"
      BY <3>2, Here, Layers DEF Memory, Chain
    <3> QED
      BY <3>1, <3>3 DEF a
  <2>3. /\ at'.step = "save" /\ Keeps => Steady
        /\ ~Failing(i)
    BY <2>1, <2>2 DEF Steady, Restoring, Failing, Keeps
  <2>4. \A q : Breaks(q) => at'.retry \in BOOLEAN
    BY DEF Breaks, Within, AtType
  <2> QED
    BY <1>4, <2>3, <2>4, OfGuard DEF Walk
<1>5. CASE Mute
  <2>1. at.step = "mute"
    BY <1>5, OfMute
  <2>2. /\ at'.step = "muting" /\ Keeps => Steady
        /\ at'.step = "write" /\ at'.next = 1 /\ Keeps => Steady
    BY <2>1 DEF Steady, Restoring, Failing, Keeps
  <2> QED
    BY <1>5, <2>2, OfMute DEF Walk
<1>6. CASE Muting
  <2>1. at.step = "muting"
    BY <1>6, OfMuting
  <2>2. at'.step = "write" /\ at'.next = 1 /\ at'.op = at.op /\ at'.retry = at.retry => Steady
    BY <2>1 DEF Steady, Restoring, Failing
  <2> QED
    BY <1>6, <2>2, OfMuting DEF Walk
<1>7. CASE Written
  <2>1. at.step = "write" /\ at.next = Params + 1
    BY <1>7, OfWritten
  <2>2. at'.step = "unmute" /\ Keeps => Steady
    BY <2>1 DEF Steady, Restoring, Failing, Keeps
  <2> QED
    BY <1>7, <2>2, OfWritten DEF Walk
<1>8. CASE Unmute
  <2>1. at.step = "unmute"
    BY <1>8, OfUnmute
  <2>2. ASSUME NEW q, NEW e, e \/ ~at.err, Ending(q, e)
        PROVE  Walk
    <3>1. CASE at.op = "restore" /\ Closes(q, e)
      BY <2>1, <2>2, <3>1 DEF Walk
    <3>2. CASE at.op = "prepare" /\ e /\ Breaks(q) /\ at'.retry = at.retry
      BY <3>2 DEF Walk
    <3>3. CASE at.op = "prepare" /\ ~e /\ Marks(q) /\ at'.step = "recheck" /\ Keeps
      <4>1. Steady
        BY <2>1, <2>2, <3>3 DEF Steady, Restoring, Failing, Keeps
      <4> QED
        BY <3>3, <4>1 DEF Walk
    <3> QED
      BY <2>2, <3>1, <3>2, <3>3 DEF Ending
  <2> QED
    BY <1>8, <2>2, OfUnmute
<1>9. CASE Settle
  <2>1. at.step = "settle"
    BY <1>9, OfSettle
  <2>2. at'.step = "return" /\ Keeps => Steady
    BY <2>1 DEF Steady, Restoring, Failing, Keeps
  <2> QED
    BY <1>9, <2>2, OfSettle DEF Walk
<1> QED
  BY <1>1, <1>2, <1>3, <1>4, <1>5, <1>6, <1>7, <1>8, <1>9, OfRevive, OfFirstGuard, OfGuard,
     OfMute, OfMuting, OfWritten, OfUnmute, OfSettle DEF Walking

-----------------------------------------------------------------------------
\* What the user has chosen

LEMMA ChosenStep ==
  ASSUME Shape, Chosen, [Next]_vars
  PROVE  Chosen'
<1>0. /\ setting \in [Setting -> Values] /\ touched \in SUBSET Setting
  BY Layers DEF World
<1>1. ASSUME UNCHANGED <<setting, touched>>
      PROVE  Chosen'
  BY <1>1 DEF Chosen
<1>2. ASSUME NEW p \in Setting, Apply(p)
      PROVE  Chosen'
  <2>1. /\ setting' = setting \/ (setting' = [setting EXCEPT ![p] = Planned] /\ Overwrites(p))
        /\ setting' = setting => touched' = touched \/ Overwrites(p)
    BY <1>2, OfApply
  <2> QED
    BY <1>0, <2>1 DEF Chosen, Overwrites
<1>3. ASSUME NEW p \in Setting, PutBack(p)
      PROVE  Chosen'
  <2>1. /\ touched' = touched
        /\ setting' = setting \/ (Unchanged(p) /\ setting' = [setting EXCEPT ![p] = a.snapshot[p]])
    BY <1>3, OfPutBack
  <2> QED
    BY <1>0, <2>1 DEF Chosen, Unchanged
<1>4. ASSUME NEW p \in Setting, NEW v \in Values, UserSets(p, v)
      PROVE  Chosen'
  BY <1>0, <1>4 DEF Chosen, UserSets
<1>5. Walking => Chosen'
  BY <1>1, Walks DEF Settled
<1>6. Intent \/ Return \/ Save \/ Crash \/ Recovered \/ (\E k \in Pass : StartPass(k))
        => UNCHANGED <<setting, touched>>
  BY DEF Intent, Return, Save, Crash, Recovered, StartPass, robotVars, history
<1>7. (\E k \in Pass : Recover(k))
        \/ (\E k \in Pass, stage \in {"COMPLETED", "FAILED"} : PassEnds(k, stage))
        => UNCHANGED <<setting, touched>>
  BY OfRecover, OfPassEnds DEF Settled
<1>8. UNCHANGED vars => UNCHANGED <<setting, touched>>
  BY DEF vars, robotVars, history
<1> QED
  BY <1>1, <1>2, <1>3, <1>4, <1>5, <1>6, <1>7, <1>8 DEF Next, Walking

-----------------------------------------------------------------------------
\* Every restore that is due is tried.

LEMMA TriedWalk ==
  ASSUME Shape, World', Tried, Walk
  PROVE  Tried'
<1>0. i \in Pass /\ mem[i] = a
  BY Here DEF a
<1>1. ASSUME NEW q, Marks(q), Steady
      PROVE  Tried'
  <2>1. /\ i' = i /\ a' = mem'[i] /\ mem'[i].stage = mem[i].stage
        /\ mem'[i].restored = mem[i].restored
        /\ \A l \in Pass : l # i => mem'[l] = mem[l]
    BY <1>0, <1>1, Marked DEF a
  <2>2. at'.queue = at.queue /\ (Restoring => Restoring')
    BY <1>1 DEF Marks, Within, Steady
  <2>3. \A l \in Pass : Ends(mem', l) = Ends(mem, l) /\ mem'[l].restored = mem[l].restored
    BY <2>1 DEF Ends
  <2> QED
    BY <1>1, <2>1, <2>2, <2>3 DEF Tried, Steady
<1>2. ASSUME NEW q, Breaks(q)
      PROVE  Tried'
  <2>1. /\ i' = i /\ mem'[i] = Failed(q) /\ \A l \in Pass : l # i => mem'[l] = mem[l]
    BY <1>0, <1>2, BreaksShape DEF a
  <2>2. Failed(q).restored = ~Remembers(a)
    BY Here DEF Failed, Attempts
  <2>3. /\ at'.queue = at.queue /\ at'.step # "save" /\ ~Restoring
        /\ Remembers(a) => Restoring'
    <3>1. a.stage \in {"PREPARING", "RUNNING"}
      BY <1>2 DEF Breaks
    <3>2. ~Restoring
      BY <3>1, Layers DEF Place, Terminal
    <3> QED
      BY <1>2, <3>2 DEF Breaks, Within, Restoring
  <2>4. \A l \in Pass : l # i => Ends(mem', l) = Ends(mem, l)
    BY <2>1 DEF Ends
  <2> QED
    BY <2>1, <2>2, <2>3, <2>4 DEF Tried
<1>3. ASSUME NEW q, NEW e, Closes(q, e)
      PROVE  Tried'
  <2>1. /\ i' = i /\ \A l \in Pass : l # i => mem'[l] = mem[l]
        /\ mem'[i] = [a EXCEPT !.error = @ \/ e, !.restored = TRUE, !.pending = q]
    BY <1>0, <1>3, ClosesShape DEF a
  <2>2. mem'[i].restored
    BY <2>1, Here DEF Attempts
  <2>3. at'.queue = at.queue /\ at'.step = "settle"
    BY <1>3, Layers DEF Closes, Within, AtType
  <2>4. \A l \in Pass : l # i => Ends(mem', l) = Ends(mem, l)
    BY <2>1 DEF Ends
  <2> QED
    BY <2>1, <2>2, <2>3, <2>4 DEF Tried
<1> QED
  BY <1>1, <1>2, <1>3 DEF Walk

\* One attempt changes while nothing is being restored.
LEMMA TriedOne ==
  ASSUME Tried, ~Restoring, NEW k \in Pass, \A l \in Pass : l # k => mem'[l] = mem[l],
         Ends(mem', k) => mem'[k].restored \/ (Restoring' /\ k = i') \/ k \in at'.queue,
         at.queue \ {k} \subseteq at'.queue,
         at'.step = "save" => at'.queue = {}
  PROVE  Tried'
BY DEF Tried, Ends

LEMMA TriedStep ==
  ASSUME Shape, Shape', Tried, [Next]_vars
  PROVE  Tried'
<1>0. /\ at \in AtType /\ mem \in [Pass -> Attempts] /\ Chain(mem) /\ i \in Pass /\ mem[i] = a
      /\ World' /\ Line /\ 1 \in Pass
  BY Layers, Here, One DEF Memory, Shape, TypeOK, World, a
<1>1. Walking => Tried'
  BY <1>0, Walks, TriedWalk
<1>2. ASSUME NEW k \in Pass, StartPass(k)
      PROVE  Tried'
  <2>1. /\ at.step \in {"rest", "next"} /\ mem' = [mem EXCEPT ![k] = Successor(k)]
        /\ at' = [Rest EXCEPT !.step = "revive", !.pass = k]
    BY <1>2 DEF StartPass
  <2>2. at.queue = {} /\ ~Restoring
    BY <1>0, <2>1 DEF Line, Restoring
  <2>3. at'.step = "revive"
    BY <2>1 DEF Rest
  <2>4. mem'[k].stage = "PREPARING"
    BY <1>0, <2>1 DEF Successor, Absent
  <2>5. \A l \in Pass : l # k => mem'[l] = mem[l]
    BY <1>0, <2>1
  <2> QED
    BY <2>2, <2>3, <2>4, <2>5, TriedOne DEF Ends
<1>3. ASSUME NEW p \in Setting, Apply(p)
      PROVE  Tried'
  <2>1. ~Restoring /\ at'.queue = at.queue /\ at'.step # "save" /\ i' = i
    BY <1>3, OfApply DEF Restoring, Within, i
  <2>2. a'.stage = "PREPARING" /\ \A l \in Pass : l # i => mem'[l] = mem[l]
    <3>1. a.stage = "PREPARING"
      BY <1>3, OfApply, Layers DEF Place, Preparing
    <3>2. \A q : Marks(q) => a'.stage = "PREPARING" /\ \A l \in Pass : l # i => mem'[l] = mem[l]
      BY <3>1, Marked
    <3>3. ASSUME NEW accepted \in BOOLEAN, mem' = [mem EXCEPT ![i] = Wrote(p, accepted)]
          PROVE  a'.stage = "PREPARING" /\ \A l \in Pass : l # i => mem'[l] = mem[l]
      <4>1. Wrote(p, accepted).stage = "PREPARING"
        BY <3>1, WroteIs
      <4> QED
        BY <1>0, <2>1, <3>3, <4>1 DEF a
    <3> QED
      BY <1>3, <3>2, <3>3, OfApply
  <2>3. mem'[i].stage = "PREPARING"
    BY <2>1, <2>2 DEF a
  <2> QED
    BY <1>0, <2>1, <2>2, <2>3, TriedOne DEF Ends
<1>4. ASSUME NEW p \in Setting, PutBack(p)
      PROVE  Tried'
  <2>1. /\ mem' = mem /\ at'.queue = at.queue /\ i' = i /\ at'.step # "save"
        /\ Restoring'
    BY <1>4, OfPutBack DEF Restoring, Marks, Within, i
  <2> QED
    BY <2>1 DEF Tried, Ends
<1>5. Intent => Tried'
  <2> SUFFICES ASSUME Intent
               PROVE  Tried'
    OBVIOUS
  <2>1. at.step = "intent" /\ mem' = [mem EXCEPT ![i].stage = "RUNNING"]
        /\ at' = [at EXCEPT !.step = "send"]
    BY DEF Intent, Goto
  <2>2. mem'[i].stage = "RUNNING" /\ \A l \in Pass : l # i => mem'[l] = mem[l]
    BY <1>0, <2>1 DEF Attempts
  <2>3. ~Restoring /\ at'.queue = at.queue /\ at'.step = "send"
    BY <1>0, <2>1 DEF Restoring, AtType
  <2> QED
    BY <1>0, <2>2, <2>3, TriedOne DEF Ends
<1>6. Return => Tried'
  <2> SUFFICES ASSUME Return
               PROVE  Tried'
    OBVIOUS
  <2>1. at.step = "return" /\ ~Restoring
    BY DEF Return, Restoring
  <2>2. CASE Deferred
    <3>1. /\ mem' = [mem EXCEPT ![i] = Absent] /\ at' = [at EXCEPT !.step = "save"]
          /\ at.boot = FALSE
      BY <1>0, <2>2 DEF Return, Goto, Deferred, AtType
    <3>2. mem'[i].stage = "none" /\ \A l \in Pass : l # i => mem'[l] = mem[l]
      BY <1>0, <3>1 DEF Absent
    <3>3. at.queue = {} /\ at'.queue = {}
      BY <1>0, <3>1 DEF Line, AtType
    <3> QED
      BY <1>0, <2>1, <3>2, <3>3, TriedOne DEF Ends
  <2>3. CASE ~Deferred
    <3>1. /\ mem' = mem
          /\ at' = [Rest EXCEPT !.step = IF at.boot THEN "boot" ELSE Continuation,
                                !.boot = at.boot, !.queue = at.queue]
      BY <2>3 DEF Return
    <3>2. at'.queue = at.queue /\ (at'.step = "save" => ~at.boot)
      BY <3>1 DEF Rest
    <3>3. at.queue # {} => at.boot
      BY <1>0 DEF Line
    <3> QED
      BY <2>1, <3>1, <3>2, <3>3 DEF Tried, Ends
  <2> QED
    BY <2>2, <2>3
<1>7. Save => Tried'
  BY DEF Save, Tried, Rest, Ends, Restoring
<1>8. ASSUME NEW k \in Pass, NEW stage \in {"COMPLETED", "FAILED"}, PassEnds(k, stage)
      PROVE  Tried'
  <2>1. /\ at.step = "rest" /\ mem' = [mem EXCEPT ![k] = Stopped(k, stage)]
        /\ Stopped(k, stage).stage = stage
        /\ at'.pass = k /\ at'.op = "restore"
        /\ at'.step = IF stage = "COMPLETED" /\ ~Final(k) THEN "settle" ELSE "mute"
    BY <1>8, OfPassEnds
  <2>2. at.queue = {} /\ ~Restoring
    BY <1>0, <2>1 DEF Line, Restoring
  <2>3. mem'[k].stage = stage /\ \A l \in Pass : l # k => mem'[l] = mem[l]
    BY <1>0, <2>1
  <2>4. Ends(mem', k) => Restoring' /\ k = i'
    BY <2>1, <2>3 DEF Ends, Restoring, i
  <2> QED
    BY <2>1, <2>2, <2>3, <2>4, TriedOne
<1>9. Crash => Tried'
  <2> SUFFICES ASSUME Crash
               PROVE  Tried'
    OBVIOUS
  <2>1. /\ mem' = disk /\ at'.queue = {pass \in Pass : disk[pass].stage # "none"}
        /\ at'.step = "boot"
    BY DEF Crash, Rest
  <2>2. \A k \in Pass : Ends(mem', k) => k \in at'.queue
    BY <2>1 DEF Ends
  <2> QED
    BY <2>1, <2>2 DEF Tried
<1>10. ASSUME NEW k \in Pass, Recover(k)
       PROVE  Tried'
  <2>1. /\ at.step = "boot" /\ ~Restoring /\ i' = k /\ at.queue \ {k} \subseteq at'.queue
        /\ mem[k] \in Attempts
    BY <1>10, OfRecover DEF Restoring, i
  <2>2. \/ mem' = mem /\ Restoring'
        \/ /\ mem' = [mem EXCEPT ![k] = [mem[k] EXCEPT !.restored = TRUE]]
           /\ at'.step = "settle"
        \/ /\ mem' = mem /\ at'.step \in {"revive", "boot"}
           /\ mem[k].stage \in {"PREPARING", "RUNNING"}
        \/ /\ mem' = [mem EXCEPT ![k] = Expired(k)]
           /\ Remembers(mem[k]) => Restoring'
           /\ ~Remembers(mem[k]) => at'.step = "settle"
    BY <1>10, OfRecover DEF Restoring
  <2>3. /\ Expired(k).restored = ~Remembers(mem[k])
        /\ [mem[k] EXCEPT !.restored = TRUE].restored
    BY <2>1 DEF Expired, Attempts
  <2>4. \A l \in Pass : l # k => mem'[l] = mem[l]
    BY <1>0, <2>2
  <2>5. at'.step # "save"
    BY <2>2 DEF Restoring
  <2>6. Ends(mem', k) => mem'[k].restored \/ Restoring'
    BY <1>0, <2>1, <2>2, <2>3 DEF Ends
  <2> QED
    BY <2>1, <2>4, <2>5, <2>6, TriedOne
<1>11. Recovered => Tried'
  <2> SUFFICES ASSUME Recovered
               PROVE  Tried'
    OBVIOUS
  <2>1. mem' = mem /\ at.queue = {} /\ at.step = "boot" /\ at'.queue = {}
    BY DEF Recovered, Rest
  <2> QED
    BY <2>1 DEF Tried, Ends, Restoring
<1>12. UNCHANGED <<mem, at>> => Tried'
  BY DEF Tried, Ends, Restoring, i
<1>13. (\E p \in Setting, v \in Values : UserSets(p, v)) \/ UNCHANGED vars => Tried'
  BY <1>12 DEF UserSets, vars
<1> QED
  BY <1>1, <1>2, <1>3, <1>4, <1>5, <1>6, <1>7, <1>8, <1>9, <1>10, <1>11, <1>13
     DEF Next, Walking

-----------------------------------------------------------------------------
\* What an attempt remembers it has applied.

\* One attempt changes and is not being prepared, or has applied what it remembers.
LEMMA PairsOne ==
  ASSUME Pairs, Shape, NEW k \in Pass, \A l \in Pass : l # k => mem'[l] = mem[l],
         \A l \in Pass : Failing(l) => l = k,
         mem'[k].stage = "PREPARING" => Paired(mem'[k]) \/ Failing(k)',
         disk' = disk,
         at'.retry /\ at'.step # "save" =>
           at'.step # "boot" /\ Terminal(a') /\ Paired(a')
  PROVE  Pairs'
BY DEF Pairs, Paired, Terminal

LEMMA PairsWalk ==
  ASSUME Shape, World', Pairs, Walk
  PROVE  Pairs'
<1>0. i \in Pass /\ mem[i] = a /\ a \in Attempts /\ at \in AtType
  BY Here, Layers DEF a
<1>1. ASSUME NEW q, Marks(q), Steady
      PROVE  Pairs'
  <2>1. /\ i' = i /\ a' = mem'[i] /\ a'.stage = a.stage
        /\ a'.applied = a.applied /\ a'.snapshot = a.snapshot
        /\ \A l \in Pass : l # i => mem'[l] = mem[l]
    BY <1>0, <1>1, Marked DEF a
  <2>2. /\ \A l \in Pass : ~Failing(l)
        /\ at'.retry = at.retry /\ at'.step # "boot" /\ at.step # "save"
    BY <1>1 DEF Steady, Failing, Marks, Within
  <2>3. Paired(a') = Paired(a) /\ Terminal(a') = Terminal(a)
    BY <2>1 DEF Paired, Terminal
  <2>4. \A l \in Pass : mem'[l].stage = "PREPARING" => Paired(mem'[l])
    <3> SUFFICES ASSUME NEW l \in Pass, mem'[l].stage = "PREPARING"
                 PROVE  Paired(mem'[l])
      OBVIOUS
    <3>1. CASE l = i
      BY <1>0, <2>1, <2>2, <2>3, <3>1 DEF Pairs
    <3>2. CASE l # i
      BY <2>1, <2>2, <3>2 DEF Pairs
    <3> QED
      BY <3>1, <3>2
  <2>5. \A l \in Pass : disk'[l].stage = "PREPARING" => Paired(disk'[l])
    <3>1. disk' = disk \/ disk' = mem'
      BY <1>1 DEF Marks
    <3> QED
      BY <2>4, <3>1 DEF Pairs
  <2>6. at'.retry /\ at'.step # "save" => at'.step # "boot" /\ Terminal(a') /\ Paired(a')
    BY <2>2, <2>3 DEF Pairs
  <2> QED
    BY <2>4, <2>5, <2>6 DEF Pairs, Paired, Terminal
<1>2. ASSUME NEW q, Breaks(q),
             at'.retry \in {FALSE, at.retry} \/ (~Failing(i) /\ at'.retry \in BOOLEAN)
      PROVE  Pairs'
  <2>1. /\ i' = i /\ mem'[i] = Failed(q) /\ a' = Failed(q)
        /\ \A l \in Pass : l # i => mem'[l] = mem[l]
    BY <1>0, <1>2, BreaksShape DEF a
  <2>2. Failed(q).stage = "FAILED" /\ Paired(Failed(q)) = Paired(a)
    BY <1>0 DEF Failed, Attempts, Paired
  <2>3. at.step # "save" /\ at'.step # "boot" /\ disk' = disk /\ ~Terminal(a)
    BY <1>2 DEF Breaks, Within, Terminal
  <2>4. ~at.retry
    BY <2>3 DEF Pairs
  <2>5. at'.retry => Paired(a)
    <3>1. at'.retry => ~Failing(i)
      BY <1>2, <2>4
    <3>2. a.stage = "PREPARING" => Paired(a) \/ Failing(i)
      BY <1>0 DEF Pairs
    <3>3. a.stage = "RUNNING" => Paired(a)
      <4>1. a.stage = "RUNNING" => Full(a)
        BY <1>0, Layers DEF Memory, Chain
      <4> QED
        BY <4>1 DEF Full, Paired
    <3> QED
      BY <1>2, <3>1, <3>2, <3>3 DEF Breaks
  <2>6. at'.retry => Terminal(a') /\ Paired(a')
    BY <2>1, <2>2, <2>5 DEF Terminal
  <2>7. \A l \in Pass : Failing(l) => l = i
    BY DEF Failing
  <2> QED
    BY <1>0, <2>1, <2>2, <2>3, <2>6, <2>7, PairsOne
<1>3. ASSUME NEW q, NEW e, Closes(q, e)
      PROVE  Pairs'
  <2>1. /\ i' = i /\ \A l \in Pass : l # i => mem'[l] = mem[l]
        /\ a' = [a EXCEPT !.error = @ \/ e, !.restored = TRUE, !.pending = q]
        /\ mem'[i] = a'
    BY <1>0, <1>3, ClosesShape DEF a
  <2>2. /\ a'.stage = a.stage /\ a'.applied = a.applied /\ a'.snapshot = a.snapshot
    BY <1>0, <2>1 DEF Attempts
  <2>3. Paired(a') = Paired(a) /\ Terminal(a') = Terminal(a)
    BY <2>2 DEF Paired, Terminal
  <2>4. /\ at'.retry = at.retry /\ at'.step = "settle" /\ disk' = disk /\ at.step # "save"
        /\ Terminal(a)
    BY <1>0, <1>3, Layers DEF Closes, Within, AtType, Place
  <2>5. \A l \in Pass : Failing(l) => l = i
    BY DEF Failing
  <2>6. a'.stage # "PREPARING"
    BY <2>2, <2>4 DEF Terminal
  <2>7. at'.retry => Terminal(a') /\ Paired(a')
    BY <2>3, <2>4 DEF Pairs
  <2> QED
    BY <1>0, <2>1, <2>4, <2>5, <2>6, <2>7, PairsOne
<1> QED
  BY <1>1, <1>2, <1>3 DEF Walk

LEMMA PairsStep ==
  ASSUME Shape, Shape', Pairs, [Next]_vars
  PROVE  Pairs'
<1>0. /\ at \in AtType /\ mem \in [Pass -> Attempts] /\ Chain(mem) /\ i \in Pass /\ mem[i] = a
      /\ World' /\ Rest.retry = FALSE
  BY Layers, Here DEF Memory, Shape, TypeOK, World, a, Rest
<1>1. Walking => Pairs'
  BY <1>0, Walks, PairsWalk
<1>2. ASSUME NEW k \in Pass, StartPass(k)
      PROVE  Pairs'
  <2>1. /\ at.step \in {"rest", "next"} /\ mem' = [mem EXCEPT ![k] = Successor(k)]
        /\ at' = [Rest EXCEPT !.step = "revive", !.pass = k] /\ disk' = disk
        /\ k > 1 => mem[k - 1].stage = "COMPLETED"
    BY <1>2 DEF StartPass, Startable
  <2>2. at'.retry = FALSE /\ \A l \in Pass : ~Failing(l)
    BY <2>1 DEF Rest, Failing
  <2>3. mem'[k] = Successor(k) /\ \A l \in Pass : l # k => mem'[l] = mem[l]
    BY <1>0, <2>1
  <2>4. Paired(Successor(k))
    <3>1. CASE k = 1
      <4>1. \A p \in Setting : Successor(k).snapshot[p] = Unset
        BY <3>1 DEF Successor, Absent
      <4> QED
        BY <4>1 DEF Paired
    <3>2. CASE k # 1
      <4>1. k > 1 /\ k - 1 \in Pass
        BY <3>2, ParamsAssumption DEF Pass
      <4>2. Full(mem[k - 1])
        BY <1>0, <2>1, <4>1 DEF Chain
      <4>3. Successor(k).applied = mem[k - 1].applied
        BY <3>2 DEF Successor, Absent
      <4> QED
        BY <4>2, <4>3 DEF Full, Paired
    <3> QED
      BY <3>1, <3>2
  <2> QED
    BY <2>1, <2>2, <2>3, <2>4, PairsOne
<1>3. ASSUME NEW p \in Setting, Apply(p)
      PROVE  Pairs'
  <2>1. /\ at.step = "write" /\ at.op = "prepare" /\ disk' = disk
        /\ at'.op = at.op /\ at'.retry = at.retry /\ i' = i /\ a' = mem'[i]
        /\ \A l \in Pass : ~Failing(l)
    BY <1>3, OfApply DEF Within, Failing, i, a
  <2>2. a.stage = "PREPARING" /\ Paired(a) /\ ~at.retry
    BY <1>0, <2>1, Layers DEF Place, Preparing, Pairs, Terminal
  <2>3. (at'.step = "unmute" /\ at'.err = TRUE) => Failing(i)'
    BY <2>1 DEF Failing
  <2>4. ASSUME mem' = [mem EXCEPT ![i] = Wrote(p, TRUE)]
        PROVE  Paired(mem'[i])
    <3>1. /\ Wrote(p, TRUE).applied = a.applied \cup {p}
          /\ \A q \in Setting : q # p => Wrote(p, TRUE).snapshot[q] = a.snapshot[q]
      BY WroteIs
    <3>2. mem'[i] = Wrote(p, TRUE)
      BY <1>0, <2>4
    <3> QED
      BY <2>2, <3>1, <3>2 DEF Paired
  <2>5. \A l \in Pass : l # i => mem'[l] = mem[l]
    <3>1. \A q : Marks(q) => \A l \in Pass : l # i => mem'[l] = mem[l]
      BY Marked
    <3>2. \A b : mem' = [mem EXCEPT ![i] = b] => \A l \in Pass : l # i => mem'[l] = mem[l]
      BY <1>0
    <3> QED
      BY <1>3, <3>1, <3>2, OfApply
  <2>6. Paired(mem'[i]) \/ Failing(i)'
    BY <1>3, <2>3, <2>4, OfApply
  <2> QED
    BY <1>0, <2>1, <2>2, <2>5, <2>6, PairsOne
<1>4. ASSUME NEW p \in Setting, PutBack(p)
      PROVE  Pairs'
  <2>1. /\ mem' = mem /\ disk' = disk /\ at.op = "restore" /\ at.step = "write"
        /\ at'.step # "boot" /\ at'.retry = at.retry /\ i' = i /\ a' = a
        /\ \A l \in Pass : ~Failing(l)
    BY <1>4, OfPutBack DEF Marks, Within, i, a, Failing
  <2> QED
    BY <2>1 DEF Pairs, Paired, Terminal
<1>5. Intent => Pairs'
  <2> SUFFICES ASSUME Intent
               PROVE  Pairs'
    OBVIOUS
  <2>1. /\ at.step = "intent" /\ mem' = [mem EXCEPT ![i].stage = "RUNNING"] /\ disk' = mem'
        /\ at' = [at EXCEPT !.step = "send"] /\ \A l \in Pass : ~Failing(l)
    BY DEF Intent, Goto, Failing
  <2>2. mem'[i].stage = "RUNNING" /\ \A l \in Pass : l # i => mem'[l] = mem[l]
    BY <1>0, <2>1 DEF Attempts
  <2>3. ~at'.retry
    <3>1. a.stage = "PREPARING"
      BY <2>1, Layers DEF Place, Preparing
    <3> QED
      BY <1>0, <2>1, <3>1 DEF Pairs, Terminal, AtType
  <2> QED
    BY <2>1, <2>2, <2>3 DEF Pairs, Paired
<1>6. Return => Pairs'
  <2> SUFFICES ASSUME Return
               PROVE  Pairs'
    OBVIOUS
  <2>1. at.step = "return" /\ disk' = disk /\ \A l \in Pass : ~Failing(l)
    BY DEF Return, Failing
  <2>2. CASE Deferred
    <3>1. mem' = [mem EXCEPT ![i] = Absent] /\ at' = [at EXCEPT !.step = "save"]
      BY <2>2 DEF Return, Goto
    <3>2. mem'[i].stage = "none" /\ \A l \in Pass : l # i => mem'[l] = mem[l]
      BY <1>0, <3>1 DEF Absent
    <3>3. at'.step = "save"
      BY <1>0, <3>1 DEF AtType
    <3> QED
      BY <1>0, <2>1, <3>2, <3>3, PairsOne
  <2>3. CASE ~Deferred
    <3>1. mem' = mem /\ at'.retry = FALSE
      BY <2>3 DEF Return, Rest
    <3> QED
      BY <2>1, <3>1 DEF Pairs, Paired
  <2> QED
    BY <2>2, <2>3
<1>7. Save => Pairs'
  BY <1>0 DEF Save, Pairs, Paired, Failing
<1>8. ASSUME NEW k \in Pass, NEW stage \in {"COMPLETED", "FAILED"}, PassEnds(k, stage)
      PROVE  Pairs'
  <2>1. /\ at.step = "rest" /\ mem' = [mem EXCEPT ![k] = Stopped(k, stage)]
        /\ Stopped(k, stage).stage = stage /\ disk' = disk /\ at'.retry = FALSE
    BY <1>8, OfPassEnds
  <2>2. mem'[k].stage = stage /\ \A l \in Pass : l # k => mem'[l] = mem[l]
    BY <1>0, <2>1
  <2>3. \A l \in Pass : ~Failing(l)
    BY <2>1 DEF Failing
  <2> QED
    BY <2>1, <2>2, <2>3, PairsOne
<1>9. Crash => Pairs'
  <2>1. Crash => mem' = disk /\ disk' = disk /\ at'.retry = FALSE
    BY DEF Crash, Rest
  <2> QED
    BY <2>1 DEF Pairs, Paired
<1>10. ASSUME NEW k \in Pass, Recover(k)
       PROVE  Pairs'
  <2>1. /\ at.step = "boot" /\ at'.retry = at.retry /\ disk' = disk /\ mem[k] \in Attempts
        /\ \A l \in Pass : ~Failing(l)
    BY <1>10, OfRecover DEF Failing
  <2>2. at'.retry = FALSE
    BY <1>0, <2>1 DEF Pairs, AtType
  <2>3. \/ mem' = mem
        \/ /\ mem' = [mem EXCEPT ![k] = [mem[k] EXCEPT !.restored = TRUE]]
           /\ Terminal(mem[k])
        \/ mem' = [mem EXCEPT ![k] = Expired(k)]
    BY <1>10, OfRecover
  <2>4. /\ Expired(k).stage = "FAILED"
        /\ [mem[k] EXCEPT !.restored = TRUE].stage = mem[k].stage
    BY <2>1 DEF Expired, Attempts
  <2>5. CASE mem' = mem
    BY <2>1, <2>2, <2>5 DEF Pairs, Paired
  <2>6. CASE mem' # mem
    <3>1. /\ mem'[k].stage # "PREPARING"
          /\ \A l \in Pass : l # k => mem'[l] = mem[l]
      BY <1>0, <2>3, <2>4, <2>6 DEF Terminal
    <3> QED
      BY <2>1, <2>2, <3>1, PairsOne
  <2> QED
    BY <2>5, <2>6
<1>11. Recovered => Pairs'
  <2>1. Recovered => /\ mem' = mem /\ disk' = disk /\ at'.retry = FALSE
                     /\ \A l \in Pass : ~Failing(l)
    BY DEF Recovered, Rest, Failing
  <2> QED
    BY <2>1 DEF Pairs, Paired
<1>12. (\E p \in Setting, v \in Values : UserSets(p, v)) \/ UNCHANGED vars
         => UNCHANGED <<mem, disk, at>>
  BY DEF UserSets, vars
<1>13. UNCHANGED <<mem, disk, at>> => Pairs'
  BY DEF Pairs, Paired, Failing, Terminal, i, a
<1> QED
  BY <1>1, <1>2, <1>3, <1>4, <1>5, <1>6, <1>7, <1>8, <1>9, <1>10, <1>11, <1>12, <1>13
     DEF Next, Walking

-----------------------------------------------------------------------------
\* Nothing that is not back is forgotten.

Still == UNCHANGED <<setting, original, touched>>

\* One attempt changes, but not what it remembers.
LEMMA RememberedOne ==
  ASSUME Remembered, Still, 1 \in Pass,
         NEW k \in Pass, \A l \in Pass : l # k => mem'[l] = mem[l],
         mem'[k].snapshot = mem[k].snapshot,
         \A l \in Pass : Failing(l) => l = k,
         \A p \in Setting : Original(mem', k, p),
         disk' = disk \/ disk' = mem',
         Ends(mem', k) /\ mem'[k].restored => Good(mem', k),
         Progress'
  PROVE  Remembered'
<1>1. \A l \in Pass, p \in Setting : Original(mem', l, p)
  <2> SUFFICES ASSUME NEW l \in Pass, NEW p \in Setting, l # k
               PROVE  Original(mem', l, p)
    OBVIOUS
  <2>1. Original(mem, l, p)
    BY DEF Remembered, Originals
  <2> QED
    BY <2>1 DEF Original
<1>2. \A m, l, p : Original(m, l, p)' <=> Original(m', l, p)
  BY DEF Original, Still
<1>3. \A p : Back(p)' <=> Back(p)
  BY DEF Back, Still
<1>4. \A l \in Pass : Ends(mem', l) /\ mem'[l].restored => Good(mem', l)
  <2> SUFFICES ASSUME NEW l \in Pass, l # k, Ends(mem', l), mem'[l].restored
               PROVE  Good(mem', l)
    OBVIOUS
  <2>1. Good(mem, l)
    BY DEF Remembered, Honest, Ends
  <2> QED
    BY <2>1 DEF Good
<1>5. Originals'
  BY <1>1 DEF Originals, Original, Still
<1>6. Faithful(disk)'
  <2>1. \A l \in Pass, p \in Setting : Original(disk', l, p)
    BY <1>1 DEF Remembered, Faithful
  <2> QED
    BY <2>1 DEF Faithful, Original, Still
<1>7. Known'
  <2>1. mem'[1].snapshot = mem[1].snapshot
    OBVIOUS
  <2> QED
    BY <1>3, <2>1 DEF Remembered, Known, Still
<1>8. Honest(mem)' /\ Honest(disk)'
  <2>1. \A l \in Pass : Ends(disk', l) /\ disk'[l].restored => Good(disk', l)
    BY <1>4 DEF Remembered, Honest
  <2> QED
    BY <1>3, <1>4, <2>1 DEF Honest, Ends, Good
<1> QED
  BY <1>5, <1>6, <1>7, <1>8 DEF Remembered

\* An attempt that remembers nothing has applied nothing.
LEMMA Nothing ==
  ASSUME NEW b \in Attempts, \A p \in b.applied : b.snapshot[p] # Unset, ~Remembers(b)
  PROVE  b.applied = {}
BY DEF Remembers, Attempts

LEMMA RememberedWalk ==
  ASSUME Shape, World', Chosen, Remembered, Settled, Walk
  PROVE  Remembered'
<1>0. /\ i \in Pass /\ mem[i] = a /\ a \in Attempts /\ at \in AtType /\ 1 \in Pass /\ Still
      /\ \A p \in a.applied : a.snapshot[p] # Unset
  BY Here, Layers, One DEF a, Settled, Still, Memory, Chain
<1>1. \A l \in Pass : Failing(l) => l = i
  BY DEF Failing
<1>2. ASSUME NEW q, Marks(q), Steady
      PROVE  Remembered'
  <2>1. /\ i' = i /\ a' = mem'[i] /\ a'.stage = a.stage /\ a'.error = a.error
        /\ a'.applied = a.applied /\ a'.snapshot = a.snapshot /\ a'.restored = a.restored
        /\ Ends(mem', i) = Ends(mem, i)
        /\ \A l \in Pass : l # i => mem'[l] = mem[l]
    BY <1>0, <1>2, Marked DEF a
  <2>2. \A p \in Setting : Original(mem', i, p)
    <3>1. \A p \in Setting : Original(mem, i, p)
      BY <1>0, <1>2 DEF Steady, Remembered, Originals
    <3> QED
      BY <1>0, <2>1, <3>1 DEF Original
  <2>3. Ends(mem', i) /\ mem'[i].restored => Good(mem', i)
    BY <1>0, <2>1 DEF Remembered, Honest, Good
  <2>4. Progress'
    <3> SUFFICES ASSUME Restoring'
                 PROVE  /\ at'.step = "write" =>
                             \A p \in Setting : p < at'.next => Back(p)' \/ p \notin a'.applied
                        /\ at'.step = "unmute" /\ ~at'.err =>
                             \A p \in Setting : Back(p)' \/ p \notin a'.applied
      BY DEF Progress
    <3>1. at'.step = "write" => \A p \in Setting : ~(p < at'.next)
      BY <1>2, ParamsAssumption DEF Steady, Setting
    <3>2. at'.step = "unmute" /\ ~at'.err => \A p \in Setting : Back(p) \/ p \notin a.applied
      <4>1. \A p \in Setting : p < Params + 1
        BY ParamsAssumption DEF Setting
      <4> QED
        BY <1>2, <4>1 DEF Steady, Remembered, Progress
    <3> QED
      BY <1>0, <2>1, <3>1, <3>2 DEF Back, Still
  <2>5. disk' = disk \/ disk' = mem'
    BY <1>2 DEF Marks
  <2> QED
    BY <1>0, <1>1, <2>1, <2>2, <2>3, <2>4, <2>5, RememberedOne
<1>3. ASSUME NEW q, Breaks(q)
      PROVE  Remembered'
  <2>1. /\ i' = i /\ mem'[i] = Failed(q) /\ a' = Failed(q)
        /\ \A l \in Pass : l # i => mem'[l] = mem[l]
    BY <1>0, <1>3, BreaksShape DEF a
  <2>2. /\ Failed(q).stage = "FAILED" /\ Failed(q).snapshot = a.snapshot
        /\ Failed(q).applied = a.applied /\ Failed(q).restored = ~Remembers(a)
    BY <1>0 DEF Failed, Attempts
  <2>3. \A p \in Setting : Original(mem', i, p)
    <3>1. \A p \in Setting : Original(mem, i, p) \/ p \in touched
      BY <1>0 DEF Remembered, Originals
    <3> QED
      BY <1>0, <2>1, <2>2, <3>1 DEF Original
  <2>4. mem'[i].restored => Good(mem', i)
    <3>1. ~Remembers(a) => a.applied = {}
      BY <1>0, Nothing
    <3> QED
      BY <2>1, <2>2, <3>1 DEF Good
  <2>5. Progress' /\ disk' = disk
    BY <1>3 DEF Breaks, Progress, Restoring
  <2> QED
    BY <1>0, <1>1, <2>1, <2>2, <2>3, <2>4, <2>5, RememberedOne
<1>4. ASSUME NEW q, NEW e, Closes(q, e), e \/ (at.step = "unmute" /\ ~at.err)
      PROVE  Remembered'
  <2>1. /\ i' = i /\ \A l \in Pass : l # i => mem'[l] = mem[l]
        /\ a' = [a EXCEPT !.error = @ \/ e, !.restored = TRUE, !.pending = q]
        /\ mem'[i] = a'
    BY <1>0, <1>4, ClosesShape DEF a
  <2>2. /\ a'.stage = a.stage /\ a'.applied = a.applied /\ a'.snapshot = a.snapshot
        /\ (e => a'.error)
    BY <1>0, <2>1 DEF Attempts
  <2>3. Restoring /\ ~Failing(i)
    BY <1>4 DEF Closes, Restoring, Failing
  <2>4. \A p \in Setting : Original(mem', i, p)
    <3>1. \A p \in Setting : Original(mem, i, p)
      BY <1>0, <2>3 DEF Remembered, Originals
    <3> QED
      BY <1>0, <2>1, <2>2, <3>1 DEF Original
  <2>5. Good(mem', i)
    <3>1. ~e => \A p \in Setting : Back(p) \/ p \notin a.applied
      BY <1>4, <2>3 DEF Remembered, Progress
    <3> QED
      BY <2>1, <2>2, <3>1 DEF Good
  <2>6. Progress' /\ disk' = disk
    <3>1. at'.step = "settle"
      BY <1>0, <1>4 DEF Closes, AtType
    <3> QED
      BY <1>4, <3>1 DEF Closes, Progress, Restoring
  <2> QED
    BY <1>0, <1>1, <2>1, <2>2, <2>4, <2>5, <2>6, RememberedOne
<1> QED
  BY <1>2, <1>3, <1>4 DEF Walk

\* The memory does not change at all.
LEMMA RememberedSame ==
  ASSUME Shape, Remembered, Still, mem' = mem, disk' = disk \/ disk' = mem,
         \A l \in Pass : ~Failing(l), Progress'
  PROVE  Remembered'
<1>1. \A p \in Setting : Original(mem, 1, p)
  BY One DEF Remembered, Originals
<1>2. Ends(mem, 1) /\ mem[1].restored => Good(mem, 1)
  BY One DEF Remembered, Honest
<1> QED
  BY <1>1, <1>2, One, RememberedOne

\* While a pass is prepared no attempt has ended the occurrence.
LEMMA NoneEnds ==
  ASSUME Shape, a.stage = "PREPARING", at.step # "save"
  PROVE  \A l \in Pass : /\ ~Ends(mem, l) /\ ~Ends(disk, l)
                         /\ l < i => mem[l].stage = "COMPLETED" /\ Full(mem[l])
                         /\ i < l => mem[l] = Absent
                         /\ disk[l].stage # "FAILED" /\ mem[l].stage # "FAILED"
<1>0. i \in Pass /\ mem[i] = a /\ Chain(mem) /\ Behind
  BY Here, Layers DEF Memory, a
<1>1. ASSUME NEW l \in Pass, l < i
      PROVE  mem[l].stage = "COMPLETED" /\ Full(mem[l]) /\ ~Final(l)
  <2>1. mem[l].stage = "COMPLETED" /\ Full(mem[l])
    BY <1>0, <1>1 DEF Chain
  <2>2. l # Passes
    BY <1>0, <1>1, ParamsAssumption DEF Pass
  <2> QED
    BY <2>1, <2>2 DEF Final
<1>2. ASSUME NEW l \in Pass, i < l
      PROVE  mem[l] = Absent /\ mem[l].stage = "none"
  <2>1. mem[l].stage = "none"
    BY <1>0, <1>2 DEF Chain
  <2> QED
    BY <1>0, <2>1 DEF Chain
<1>3. \A l \in Pass : l < i \/ l = i \/ i < l
  BY <1>0 DEF Pass
<1>4. \A l \in Pass : ~Ends(mem, l) /\ mem[l].stage # "FAILED"
  <2> SUFFICES ASSUME NEW l \in Pass
               PROVE  ~Ends(mem, l) /\ mem[l].stage # "FAILED"
    OBVIOUS
  <2>1. CASE l < i
    BY <1>1, <2>1 DEF Ends
  <2>2. CASE l = i
    BY <1>0, <2>2 DEF Ends
  <2>3. CASE i < l
    BY <1>2, <2>3 DEF Ends
  <2> QED
    BY <1>3, <2>1, <2>2, <2>3
<1>5. \A l \in Pass : ~Ends(disk, l) /\ disk[l].stage # "FAILED"
  <2> SUFFICES ASSUME NEW l \in Pass
               PROVE  ~Ends(disk, l) /\ disk[l].stage # "FAILED"
    OBVIOUS
  <2>1. Follows(l)
    BY <1>0 DEF Behind
  <2>2. Terminal(disk[l]) => mem[l].stage = disk[l].stage
    BY <2>1 DEF Follows
  <2> QED
    BY <1>4, <2>2 DEF Ends, Terminal
<1> QED
  BY <1>1, <1>2, <1>4, <1>5

LEMMA RememberedApply ==
  ASSUME Shape, Remembered, NEW p \in Setting, Apply(p)
  PROVE  Remembered'
<1>0. /\ i \in Pass /\ mem[i] = a /\ a \in Attempts /\ 1 \in Pass
      /\ mem \in [Pass -> Attempts] /\ disk \in [Pass -> Attempts]
      /\ setting \in [Setting -> Values] /\ original \in [Setting -> Values]
      /\ touched \in SUBSET Setting /\ Behind /\ Chain(mem)
  BY Here, Layers, One DEF Memory, World, a
<1>1. /\ at.step = "write" /\ at.op = "prepare" /\ disk' = disk /\ i' = i
      /\ at'.op = "prepare"
  BY OfApply DEF Within, i
<1>2. a.stage = "PREPARING" /\ ~Restoring /\ ~Restoring'
  BY <1>1, Layers DEF Place, Preparing, Restoring
<1>3. \A l \in Pass : ~Failing(l)
  BY <1>1 DEF Failing
<1>4. CASE Still /\ mem' = mem
  <2>1. Progress'
    BY <1>2 DEF Progress
  <2> QED
    BY <1>1, <1>3, <1>4, <2>1, RememberedSame
<1>5. ASSUME NEW accepted \in BOOLEAN, mem' = [mem EXCEPT ![i] = Wrote(p, accepted)],
             \/ setting' = [setting EXCEPT ![p] = Planned] /\ Overwrites(p)
             \/ Still /\ Failing(i)'
      PROVE  Remembered'
  <2> DEFINE b == Wrote(p, accepted)
  <2>1. /\ b.stage = "PREPARING"
        /\ b.snapshot[p] = IF a.snapshot[p] = Unset THEN setting[p] ELSE a.snapshot[p]
        /\ b.snapshot[p] # Unset
        /\ \A q \in Setting : q # p => b.snapshot[q] = a.snapshot[q]
    BY <1>2, WroteIs
  <2>2. mem'[i] = b /\ \A l \in Pass : l # i => mem'[l] = mem[l]
    BY <1>0, <1>5
  <2> HIDE DEF b
  <2>3. /\ at.step # "save"
        /\ \A l \in Pass : /\ ~Ends(mem, l) /\ ~Ends(disk, l)
                           /\ l < i => mem[l].stage = "COMPLETED" /\ Full(mem[l])
                           /\ i < l => mem[l] = Absent
                           /\ disk[l].stage # "FAILED" /\ mem[l].stage # "FAILED"
    <3>1. at.step # "save"
      BY <1>1
    <3> QED
      BY <1>2, <3>1, NoneEnds
  <2>4. \A l \in Pass, q \in Setting : /\ mem[l].snapshot[q] \in {Unset, original[q]}
                                       /\ disk[l].snapshot[q] \in {Unset, original[q]}
    BY <1>3, <2>3 DEF Remembered, Originals, Faithful, Original
  <2>5. a.snapshot[p] = Unset => i = 1 /\ \A l \in Pass : /\ l # i => mem[l] = Absent
                                                         /\ disk[l].snapshot[p] = Unset
    <3> SUFFICES ASSUME a.snapshot[p] = Unset
                 PROVE  i = 1 /\ \A l \in Pass : /\ l # i => mem[l] = Absent
                                                 /\ disk[l].snapshot[p] = Unset
      OBVIOUS
    <3>1. i = 1
      <4>1. i > 1 => Full(a)
        BY <1>0, <1>2 DEF Chain
      <4> QED
        BY <1>0, <4>1 DEF Full, Pass
    <3>2. \A l \in Pass : l # i => mem[l] = Absent
      BY <2>3, <3>1 DEF Pass
    <3>3. ASSUME NEW l \in Pass
          PROVE  disk[l].snapshot[p] = Unset
      <4>1. Follows(l)
        BY <1>0, <2>3 DEF Behind
      <4>2. mem[l].snapshot[p] = Unset
        BY <1>0, <3>2 DEF Absent
      <4> QED
        BY <4>1, <4>2 DEF Follows
    <3> QED
      BY <3>1, <3>2, <3>3
  <2>6. a.snapshot[p] = Unset => Back(p)
    <3>1. a.snapshot[p] = Unset => mem[1].snapshot[p] = Unset
      BY <1>0, <2>5
    <3> QED
      BY <3>1 DEF Remembered, Known
  <2>7. /\ \A q \in Setting : q # p => original'[q] = original[q]
        /\ a.snapshot[p] # Unset => original'[p] = original[p]
        /\ a.snapshot[p] = Unset => original'[p] = setting[p] \/ (p \in touched' /\ Failing(i)')
    BY <1>0, <1>5, <2>6 DEF Overwrites, Still, Back
  <2>8. Originals'
    <3> SUFFICES ASSUME NEW l \in Pass, NEW q \in Setting
                 PROVE  mem'[l].snapshot[q] \in {Unset, original'[q]}
                          \/ (q \in touched' /\ Failing(l)')
      BY DEF Originals, Original
    <3>1. CASE l = i /\ q = p
      <4>1. Failing(i)' => Failing(l)'
        BY <1>1, <3>1 DEF Failing
      <4>2. mem'[l].snapshot[q] = b.snapshot[p]
        BY <2>2, <3>1
      <4>3. CASE a.snapshot[p] = Unset
        BY <2>1, <2>7, <3>1, <4>1, <4>2, <4>3
      <4>4. CASE a.snapshot[p] # Unset
        BY <1>0, <2>1, <2>4, <2>7, <3>1, <4>2, <4>4
      <4> QED
        BY <4>3, <4>4
    <3>2. CASE l = i /\ q # p
      BY <2>1, <2>2, <2>4, <2>7, <1>0, <3>2
    <3>3. CASE l # i /\ q # p
      BY <2>2, <2>4, <2>7, <3>3
    <3>4. CASE l # i /\ q = p
      <4>1. CASE a.snapshot[p] # Unset
        BY <2>2, <2>4, <2>7, <3>4, <4>1
      <4>2. CASE a.snapshot[p] = Unset
        <5>1. mem'[l] = Absent
          BY <2>2, <2>5, <3>4, <4>2
        <5> QED
          BY <5>1 DEF Absent
      <4> QED
        BY <4>1, <4>2
    <3> QED
      BY <3>1, <3>2, <3>3, <3>4
  <2>9. Faithful(disk)'
    <3> SUFFICES ASSUME NEW l \in Pass, NEW q \in Setting
                 PROVE  disk[l].snapshot[q] \in {Unset, original'[q]}
      BY <1>1 DEF Faithful, Original
    <3>1. CASE q # p \/ a.snapshot[p] # Unset
      BY <2>4, <2>7, <3>1
    <3>2. CASE q = p /\ a.snapshot[p] = Unset
      BY <2>5, <3>2
    <3> QED
      BY <3>1, <3>2
  <2>10. Known'
    <3> SUFFICES ASSUME NEW q \in Setting
                 PROVE  Back(q)' \/ (setting'[q] = Planned /\ mem'[1].snapshot[q] # Unset)
      BY DEF Known
    <3>1. mem[1].snapshot[q] # Unset => mem'[1].snapshot[q] # Unset
      BY <1>0, <2>1, <2>2
    <3>2. mem'[1].snapshot[p] # Unset
      <4>1. i # 1 => Full(mem[1])
        BY <1>0, <2>3 DEF Pass
      <4> QED
        BY <1>0, <2>1, <2>2, <4>1 DEF Full
    <3>3. Back(q) \/ (setting[q] = Planned /\ mem[1].snapshot[q] # Unset)
      BY DEF Remembered, Known
    <3>4. CASE setting' = [setting EXCEPT ![p] = Planned] /\ Overwrites(p)
      <4>1. CASE q = p
        BY <1>0, <3>2, <3>4, <4>1
      <4>2. CASE q # p
        <5>1. setting'[q] = setting[q] /\ (q \in touched' <=> q \in touched)
              /\ original'[q] = original[q]
          BY <1>0, <2>7, <3>4, <4>2 DEF Overwrites
        <5> QED
          BY <3>1, <3>3, <5>1 DEF Back
      <4> QED
        BY <4>1, <4>2
    <3>5. CASE Still
      BY <3>1, <3>3, <3>5 DEF Still, Back
    <3> QED
      BY <1>5, <3>4, <3>5
  <2>11. Honest(mem)' /\ Honest(disk)'
    <3>1. \A l \in Pass : ~Ends(mem', l) /\ ~Ends(disk', l)
      BY <1>1, <2>1, <2>2, <2>3 DEF Ends
    <3> QED
      BY <3>1 DEF Honest, Ends
  <2>12. Progress'
    BY <1>2 DEF Progress
  <2> QED
    BY <2>8, <2>9, <2>10, <2>11, <2>12 DEF Remembered
<1>6. ASSUME NEW q, Marks(q), Still, q = a.pending
      PROVE  mem' = mem
  <2>1. mem' = [mem EXCEPT ![i] = [a EXCEPT !.pending = a.pending]]
    BY <1>6 DEF Marks
  <2>2. [a EXCEPT !.pending = a.pending] = a
    BY <1>0 DEF Attempts
  <2> QED
    BY <1>0, <2>1, <2>2
<1>7. at'.step = "unmute" /\ at'.err = TRUE => Failing(i)'
  BY <1>1 DEF Failing
<1> QED
  BY <1>4, <1>5, <1>6, <1>7, OfApply DEF Still

LEMMA RememberedPutBack ==
  ASSUME Shape, Chosen, Remembered, NEW p \in Setting, PutBack(p)
  PROVE  Remembered'
<1>0. /\ i \in Pass /\ mem[i] = a /\ a \in Attempts /\ 1 \in Pass
      /\ setting \in [Setting -> Values] /\ original \in [Setting -> Values]
      /\ \A q \in a.applied : a.snapshot[q] # Unset
  BY Here, Layers, One DEF Memory, World, a, Chain
<1>1. /\ at.step = "write" /\ at.op = "restore" /\ at.next = p
      /\ UNCHANGED <<disk, original, touched, mem>> /\ i' = i /\ a' = a
      /\ \A l \in Pass : ~Failing(l)
      /\ at'.op = "restore" /\ Restoring
  BY OfPutBack DEF Marks, Within, i, a, Failing, Restoring
<1>2. \A l \in Pass, q \in Setting : Original(mem, l, q)
  BY <1>1 DEF Remembered, Originals
<1>3. CASE UNCHANGED setting
  <2>1. Progress'
    <3>1. CASE at'.step = "write" /\ at'.next = p + 1 /\ (a.snapshot[p] = Unset \/ ~Unchanged(p))
      <4>1. Back(p) \/ p \notin a.applied
        BY <1>0, <3>1 DEF Unchanged, Remembered, Known
      <4>2. \A q \in Setting : q < p => Back(q) \/ q \notin a.applied
        BY <1>1 DEF Remembered, Progress
      <4>3. \A q \in Setting : q < p + 1 => q = p \/ q < p
        BY DEF Setting
      <4>4. \A q \in Setting : Back(q)' <=> Back(q)
        BY <1>1, <1>3 DEF Back
      <4> QED
        BY <1>1, <3>1, <4>1, <4>2, <4>3, <4>4 DEF Progress
    <3>2. CASE at'.step = "unmute" /\ at'.err = TRUE
      BY <3>2 DEF Progress
    <3>3. ASSUME a.snapshot[p] # Unset, Unchanged(p), setting' = [setting EXCEPT ![p] = a.snapshot[p]],
                 at'.step = "write", at'.next = p + 1
          PROVE  Progress'
      <4>1. p \notin touched
        BY <3>3 DEF Chosen, Unchanged
      <4>2. a.snapshot[p] = original[p]
        BY <1>0, <1>2, <3>3, <4>1 DEF Original
      <4>3. setting[p] = a.snapshot[p]
        BY <1>0, <1>3, <3>3
      <4>4. \A q \in Setting : q < p => Back(q) \/ q \notin a.applied
        BY <1>1 DEF Remembered, Progress
      <4>5. \A q \in Setting : q < p + 1 => q = p \/ q < p
        BY DEF Setting
      <4>6. \A q \in Setting : Back(q)' <=> Back(q)
        BY <1>1, <1>3 DEF Back
      <4>7. Back(p)
        BY <4>2, <4>3 DEF Back
      <4> QED
        BY <1>1, <3>3, <4>4, <4>5, <4>6, <4>7 DEF Progress
    <3> QED
      BY <3>1, <3>2, <3>3, OfPutBack
  <2>2. Still
    BY <1>1, <1>3 DEF Still
  <2> QED
    BY <1>1, <2>1, <2>2, RememberedSame
<1>4. CASE /\ a.snapshot[p] # Unset /\ Unchanged(p)
           /\ setting' = [setting EXCEPT ![p] = a.snapshot[p]]
  <2>1. p \notin touched
    BY <1>4 DEF Chosen, Unchanged
  <2>2. a.snapshot[p] = original[p]
    BY <1>0, <1>2, <1>4, <2>1 DEF Original
  <2>3. setting'[p] = original[p] /\ \A q \in Setting : q # p => setting'[q] = setting[q]
    BY <1>0, <1>4, <2>2
  <2>4. Back(p)' /\ \A q \in Setting : Back(q) => Back(q)'
    BY <1>1, <2>3 DEF Back
  <2>5. Originals' /\ Faithful(disk)'
    BY <1>1, <1>2 DEF Originals, Faithful, Original, Remembered
  <2>6. Known'
    <3> SUFFICES ASSUME NEW q \in Setting
                 PROVE  Back(q)' \/ (setting'[q] = Planned /\ mem'[1].snapshot[q] # Unset)
      BY DEF Known
    <3>1. Back(q) \/ (setting[q] = Planned /\ mem[1].snapshot[q] # Unset)
      BY DEF Remembered, Known
    <3> QED
      BY <1>1, <2>3, <2>4, <3>1
  <2>7. Honest(mem)' /\ Honest(disk)'
    BY <1>1, <2>4 DEF Remembered, Honest, Good, Ends
  <2>8. Progress'
    <3>1. CASE at'.step = "write" /\ at'.next = p + 1
      <4>1. \A q \in Setting : q < p => Back(q) \/ q \notin a.applied
        BY <1>1 DEF Remembered, Progress
      <4>2. \A q \in Setting : q < p + 1 => q = p \/ q < p
        BY DEF Setting
      <4> QED
        BY <1>1, <2>4, <3>1, <4>1, <4>2 DEF Progress
    <3>2. CASE at'.step = "unmute" /\ at'.err = TRUE
      BY <3>2 DEF Progress
    <3> QED
      BY <3>1, <3>2, OfPutBack
  <2> QED
    BY <2>5, <2>6, <2>7, <2>8 DEF Remembered
<1> QED
  BY <1>3, <1>4, OfPutBack

LEMMA RememberedIntent ==
  ASSUME Shape, Remembered, Intent
  PROVE  Remembered'
<1>0. /\ i \in Pass /\ mem[i] = a /\ a \in Attempts /\ 1 \in Pass /\ mem \in [Pass -> Attempts]
      /\ a.stage = "PREPARING"
  BY Here, Layers, One DEF Memory, a, Place, Preparing, Intent
<1>1. /\ at.step = "intent" /\ mem' = [mem EXCEPT ![i].stage = "RUNNING"] /\ disk' = mem'
      /\ at' = [at EXCEPT !.step = "send"] /\ Still
      /\ \A l \in Pass : ~Failing(l)
  BY DEF Intent, Goto, Failing, Still, robotVars, history
<1>2. /\ mem'[i].stage = "RUNNING" /\ mem'[i].snapshot = a.snapshot
      /\ \A l \in Pass : l # i => mem'[l] = mem[l]
  BY <1>0, <1>1 DEF Attempts
<1>3. \A p \in Setting : Original(mem', i, p)
  <2>1. \A p \in Setting : Original(mem, i, p)
    BY <1>0, <1>1 DEF Remembered, Originals
  <2> QED
    BY <1>0, <1>2, <2>1 DEF Original
<1>4. Progress' /\ ~Ends(mem', i)
  <2>1. at'.step = "send"
    BY <1>1, Layers DEF AtType
  <2> QED
    BY <1>2, <2>1 DEF Progress, Restoring, Ends
<1> QED
  BY <1>0, <1>1, <1>2, <1>3, <1>4, RememberedOne

LEMMA RememberedStartPass ==
  ASSUME Shape, Remembered, NEW k \in Pass, StartPass(k)
  PROVE  Remembered'
<1>0. /\ mem \in [Pass -> Attempts] /\ Chain(mem) /\ 1 \in Pass
  BY Layers, One DEF Memory
<1>1. /\ at.step \in {"rest", "next"} /\ mem' = [mem EXCEPT ![k] = Successor(k)]
      /\ at' = [Rest EXCEPT !.step = "revive", !.pass = k] /\ disk' = disk
      /\ mem[k].stage = "none" /\ (k > 1 => mem[k - 1].stage = "COMPLETED")
      /\ Still
  BY DEF StartPass, Startable, Still, robotVars, history
<1>2. at'.step = "revive" /\ \A l \in Pass : ~Failing(l)
  BY <1>1 DEF Rest, Failing
<1>3. mem'[k] = Successor(k) /\ \A l \in Pass : l # k => mem'[l] = mem[l]
  BY <1>0, <1>1
<1>4. \A l \in Pass, p \in Setting : Original(mem, l, p)
  BY <1>2 DEF Remembered, Originals
<1>5. \A p \in Setting : Original(mem', k, p)
  <2>1. CASE k = 1
    <3>1. \A p \in Setting : Successor(k).snapshot[p] = Unset
      BY <2>1 DEF Successor, Absent
    <3> QED
      BY <1>3, <3>1 DEF Original
  <2>2. CASE k # 1
    <3>1. k > 1 /\ k - 1 \in Pass
      BY <2>2, ParamsAssumption DEF Pass
    <3>2. Successor(k).snapshot = mem[k - 1].snapshot
      BY <2>2 DEF Successor, Absent
    <3>3. \A p \in Setting : mem[k - 1].snapshot[p] \in {Unset, original[p]}
      BY <1>1, <1>4, <3>1 DEF Original
    <3> QED
      BY <1>3, <3>2, <3>3 DEF Original
  <2> QED
    BY <2>1, <2>2
<1>6. \A l \in Pass, p \in Setting : Original(mem', l, p)
  BY <1>3, <1>4, <1>5 DEF Original
<1>7. Originals'
  BY <1>1, <1>6 DEF Originals, Original, Still
<1>8. Faithful(disk)'
  BY <1>1 DEF Remembered, Faithful, Original, Still
<1>9. Known'
  <2>1. \A p \in Setting : mem'[1].snapshot[p] = mem[1].snapshot[p]
    <3>1. CASE k = 1
      <4>1. mem[1] = Absent
        BY <1>0, <1>1, <3>1 DEF Chain
      <4>2. \A p \in Setting : mem[1].snapshot[p] = Unset
        BY <4>1 DEF Absent
      <4>3. \A p \in Setting : Successor(k).snapshot[p] = Unset
        BY <3>1 DEF Successor, Absent
      <4> QED
        BY <1>3, <3>1, <4>2, <4>3
    <3>2. CASE k # 1
      BY <1>0, <1>3, <3>2
    <3> QED
      BY <3>1, <3>2
  <2>2. \A p \in Setting : Back(p)' <=> Back(p)
    BY <1>1 DEF Back, Still
  <2> QED
    BY <1>1, <2>1, <2>2 DEF Remembered, Known, Still
<1>10. Honest(mem)' /\ Honest(disk)'
  <2>1. ~Ends(mem', k)
    BY <1>3 DEF Successor, Ends, Absent
  <2>2. \A p \in Setting : Back(p)' <=> Back(p)
    BY <1>1 DEF Back, Still
  <2>3. \A l \in Pass : l # k => (Ends(mem', l) <=> Ends(mem, l)) /\ (Good(mem, l) => Good(mem, l)')
    BY <1>3, <2>2 DEF Ends, Good
  <2>4. Honest(mem)'
    BY <1>3, <2>1, <2>3 DEF Remembered, Honest
  <2>5. Honest(disk)'
    BY <1>1, <2>2 DEF Remembered, Honest, Good, Ends
  <2> QED
    BY <2>4, <2>5
<1>11. Progress'
  BY <1>2 DEF Progress, Restoring
<1> QED
  BY <1>7, <1>8, <1>9, <1>10, <1>11 DEF Remembered

\* A rollback drops an attempt that has put everything back.
LEMMA RememberedReturn ==
  ASSUME Shape, Tried, Pairs, Remembered, Return, ~dropped'
  PROVE  Remembered'
<1>0. /\ i \in Pass /\ mem[i] = a /\ a \in Attempts /\ 1 \in Pass /\ at \in AtType
      /\ mem \in [Pass -> Attempts] /\ Line
  BY Here, Layers, One DEF Memory, a
<1>1. /\ at.step = "return" /\ disk' = disk /\ Still /\ ~Restoring
      /\ \A l \in Pass : ~Failing(l)
  BY DEF Return, Failing, Still, robotVars, Restoring
<1>2. CASE ~Deferred
  <2>1. /\ mem' = mem
        /\ at' = [Rest EXCEPT !.step = IF at.boot THEN "boot" ELSE Continuation,
                              !.boot = at.boot, !.queue = at.queue]
    BY <1>2 DEF Return
  <2>2. Progress'
    <3>1. at'.op = "prepare"
      BY <2>1 DEF Rest
    <3> QED
      BY <3>1 DEF Progress, Restoring
  <2> QED
    BY <1>1, <2>1, <2>2, RememberedSame
<1>3. CASE Deferred
  <2>1. /\ mem' = [mem EXCEPT ![i] = Absent] /\ at' = [at EXCEPT !.step = "save"]
        /\ ~a.error /\ a.stage = "FAILED" /\ at.retry /\ ~at.boot
    BY <1>3 DEF Return, Goto, Deferred
  <2>2. mem'[i] = Absent /\ \A l \in Pass : l # i => mem'[l] = mem[l]
    BY <1>0, <2>1
  <2>3. \A p \in Setting : a.snapshot[p] # Unset => Back(p)
    <3>1. at.queue = {}
      BY <1>0, <2>1 DEF Line
    <3>2. Ends(mem, i) /\ mem[i].restored
      BY <1>0, <1>1, <2>1, <3>1 DEF Tried, Ends
    <3>3. Good(mem, i)
      BY <1>0, <3>2 DEF Remembered, Honest
    <3>4. Paired(a)
      BY <1>1, <2>1 DEF Pairs
    <3> QED
      BY <1>0, <2>1, <3>3, <3>4 DEF Good, Paired
  <2>4. \A p : Back(p)' <=> Back(p)
    BY <1>1 DEF Back, Still
  <2>5. Originals'
    <3>1. \A l \in Pass, p \in Setting : Original(mem, l, p)
      BY <1>1 DEF Remembered, Originals
    <3>2. \A p \in Setting : Original(mem', i, p)
      BY <2>2 DEF Original, Absent
    <3>3. \A l \in Pass, p \in Setting : Original(mem', l, p)
      BY <2>2, <3>1, <3>2 DEF Original
    <3> QED
      BY <1>1, <3>3 DEF Originals, Original, Still
  <2>6. Faithful(disk)'
    BY <1>1 DEF Remembered, Faithful, Original, Still
  <2>7. Known'
    <3> SUFFICES ASSUME NEW p \in Setting
                 PROVE  Back(p) \/ (setting[p] = Planned /\ mem'[1].snapshot[p] # Unset)
      BY <1>1, <2>4 DEF Known, Still
    <3> QED
      BY <1>0, <2>2, <2>3 DEF Remembered, Known
  <2>8. Honest(mem)' /\ Honest(disk)'
    <3>1. ~Ends(mem', i)
      BY <2>2 DEF Ends, Absent
    <3>2. \A l \in Pass : l # i => (Ends(mem', l) <=> Ends(mem, l)) /\ (Good(mem, l) => Good(mem, l)')
      BY <2>2, <2>4 DEF Ends, Good
    <3>3. Honest(mem)'
      BY <2>2, <3>1, <3>2 DEF Remembered, Honest
    <3>4. Honest(disk)'
      BY <1>1, <2>4 DEF Remembered, Honest, Good, Ends
    <3> QED
      BY <3>3, <3>4
  <2>9. Progress'
    <3>1. at'.step = "save"
      BY <1>0, <2>1 DEF AtType
    <3> QED
      BY <3>1 DEF Progress, Restoring
  <2> QED
    BY <2>5, <2>6, <2>7, <2>8, <2>9 DEF Remembered
<1> QED
  BY <1>2, <1>3

LEMMA RememberedPassEnds ==
  ASSUME Shape, Remembered, NEW k \in Pass, NEW stage \in {"COMPLETED", "FAILED"},
         PassEnds(k, stage)
  PROVE  Remembered'
<1>0. mem \in [Pass -> Attempts]
  BY Layers DEF Memory
<1>1. /\ at.step = "rest" /\ mem[k].stage = "RUNNING" /\ disk' = disk /\ Still
      /\ mem' = [mem EXCEPT ![k] = Stopped(k, stage)]
      /\ Stopped(k, stage).snapshot = mem[k].snapshot
      /\ Stopped(k, stage).restored = FALSE
      /\ at'.step \in {"settle", "mute"}
  BY OfPassEnds DEF Settled, Still
<1>2. mem'[k] = Stopped(k, stage) /\ \A l \in Pass : l # k => mem'[l] = mem[l]
  BY <1>0, <1>1
<1>3. \A l \in Pass : ~Failing(l)
  BY <1>1 DEF Failing
<1>4. \A p \in Setting : Original(mem', k, p)
  <2>1. \A p \in Setting : Original(mem, k, p)
    BY <1>3 DEF Remembered, Originals
  <2> QED
    BY <1>1, <1>2, <2>1 DEF Original
<1>5. Progress'
  BY <1>1 DEF Progress
<1> QED
  BY <1>1, <1>2, <1>3, <1>4, <1>5, One, RememberedOne

\* A crash that loses no remembered value loses nothing.
LEMMA RememberedCrash ==
  ASSUME Shape, Remembered, Crash, ~torn'
  PROVE  Remembered'
<1>1. /\ mem' = disk /\ disk' = disk /\ Still /\ ~Unsaved /\ at'.step = "boot"
  BY DEF Crash, Still, robotVars, Rest
<1>2. \A p : Back(p)' <=> Back(p)
  BY <1>1 DEF Back, Still
<1>3. Originals' /\ Faithful(disk)'
  BY <1>1 DEF Remembered, Faithful, Originals, Original, Still
<1>4. Known'
  <2>1. \A p \in Setting : mem[1].snapshot[p] # Unset => disk[1].snapshot[p] # Unset
    BY <1>1, One DEF Unsaved
  <2> QED
    BY <1>1, <1>2, <2>1 DEF Remembered, Known, Still
<1>5. Honest(mem)' /\ Honest(disk)'
  BY <1>1, <1>2 DEF Remembered, Honest, Good, Ends
<1>6. Progress'
  BY <1>1 DEF Progress, Restoring
<1> QED
  BY <1>3, <1>4, <1>5, <1>6 DEF Remembered

LEMMA RememberedRecover ==
  ASSUME Shape, Remembered, NEW k \in Pass, Recover(k)
  PROVE  Remembered'
<1>0. /\ mem \in [Pass -> Attempts] /\ mem[k] \in Attempts /\ 1 \in Pass
      /\ \A p \in mem[k].applied : mem[k].snapshot[p] # Unset
  BY Layers, One DEF Memory, Chain
<1>1. /\ at.step = "boot" /\ disk' = disk /\ Still
      /\ at'.step \in {"mute", "settle", "revive", "boot"}
  BY OfRecover DEF Settled, Still
<1>2. Progress' /\ \A l \in Pass : ~Failing(l)
  BY <1>1 DEF Progress, Failing
<1>3. \A p \in Setting : Original(mem, k, p)
  BY <1>2 DEF Remembered, Originals
<1>4. ~Remembers(mem[k]) => mem[k].applied = {}
  BY <1>0, Nothing
<1>5. CASE mem' = mem
  BY <1>1, <1>2, <1>5, RememberedSame
<1>6. CASE /\ Terminal(mem[k]) /\ (mem[k].restored \/ ~Remembers(mem[k]))
           /\ mem' = [mem EXCEPT ![k] = [mem[k] EXCEPT !.restored = TRUE]]
  <2>1. /\ mem'[k].stage = mem[k].stage /\ mem'[k].snapshot = mem[k].snapshot
        /\ mem'[k].applied = mem[k].applied /\ mem'[k].error = mem[k].error
        /\ \A l \in Pass : l # k => mem'[l] = mem[l]
    BY <1>0, <1>6 DEF Attempts
  <2>2. \A p \in Setting : Original(mem', k, p)
    BY <1>3, <2>1 DEF Original
  <2>3. Ends(mem', k) => Good(mem', k)
    <3>1. mem[k].restored /\ Ends(mem, k) => Good(mem, k)
      BY DEF Remembered, Honest
    <3> QED
      BY <1>4, <1>6, <2>1, <3>1 DEF Ends, Good
  <2> QED
    BY <1>0, <1>1, <1>2, <2>1, <2>2, <2>3, RememberedOne
<1>7. CASE mem' = [mem EXCEPT ![k] = Expired(k)]
  <2>1. /\ mem'[k].stage = "FAILED" /\ mem'[k].snapshot = mem[k].snapshot
        /\ mem'[k].applied = mem[k].applied /\ mem'[k].restored = ~Remembers(mem[k])
        /\ \A l \in Pass : l # k => mem'[l] = mem[l]
    BY <1>0, <1>7 DEF Expired, Attempts
  <2>2. \A p \in Setting : Original(mem', k, p)
    BY <1>3, <2>1 DEF Original
  <2>3. mem'[k].restored => Good(mem', k)
    BY <1>4, <2>1 DEF Good
  <2> QED
    BY <1>0, <1>1, <1>2, <2>1, <2>2, <2>3, RememberedOne
<1> QED
  BY <1>5, <1>6, <1>7, OfRecover

LEMMA RememberedUserSets ==
  ASSUME Shape, Remembered, NEW p \in Setting, NEW v \in Values, UserSets(p, v)
  PROVE  Remembered'
<1>0. setting \in [Setting -> Values]
  BY Layers DEF World
<1>1. /\ UNCHANGED <<mem, disk, at, original>> /\ touched' = touched \cup {p}
      /\ setting' = [setting EXCEPT ![p] = v]
  BY DEF UserSets
<1>2. \A q \in Setting : Back(q) => Back(q)'
  BY <1>0, <1>1 DEF Back
<1>3. Originals' /\ Faithful(disk)'
  BY <1>1 DEF Remembered, Originals, Faithful, Original, Failing, i
<1>4. Known'
  <2> SUFFICES ASSUME NEW q \in Setting
               PROVE  Back(q)' \/ (setting'[q] = Planned /\ mem'[1].snapshot[q] # Unset)
    BY DEF Known
  <2>1. CASE q = p
    BY <1>1, <2>1 DEF Back
  <2>2. CASE q # p
    <3>1. setting'[q] = setting[q]
      BY <1>0, <1>1, <2>2
    <3> QED
      BY <1>1, <1>2, <3>1 DEF Remembered, Known
  <2> QED
    BY <2>1, <2>2
<1>5. Honest(mem)' /\ Honest(disk)'
  BY <1>1, <1>2 DEF Remembered, Honest, Good, Ends
<1>6. Progress'
  BY <1>1, <1>2 DEF Remembered, Progress, Restoring, i, a
<1> QED
  BY <1>3, <1>4, <1>5, <1>6 DEF Remembered

LEMMA RememberedStep ==
  ASSUME Shape, Shape', Chosen, Tried, Pairs, ~torn /\ ~dropped => Remembered, [Next]_vars,
         ~torn' /\ ~dropped'
  PROVE  Remembered'
<1>0. World'
  BY DEF Shape, TypeOK, World
<1>1. Remembered
  <2>1. torn => torn'
    <3>1. Walking => torn' = torn
      BY Walks DEF Settled
    <3>2. \A p \in Setting : Apply(p) \/ PutBack(p) => torn' = torn
      BY OfApply, OfPutBack
    <3>3. \A k \in Pass : Recover(k) => torn' = torn
      BY OfRecover DEF Settled
    <3>4. \A k \in Pass, stage \in {"COMPLETED", "FAILED"} : PassEnds(k, stage) => torn' = torn
      BY OfPassEnds DEF Settled
    <3>5. Intent \/ Return \/ Save \/ Recovered \/ (\E k \in Pass : StartPass(k))
            \/ (\E p \in Setting, v \in Values : UserSets(p, v)) \/ UNCHANGED vars
            => torn' = torn
      BY DEF Intent, Return, Save, Recovered, StartPass, UserSets, vars, history
    <3>6. Crash /\ torn => torn'
      BY DEF Crash
    <3> QED
      BY <3>1, <3>2, <3>3, <3>4, <3>5, <3>6 DEF Next, Walking
  <2>2. dropped => dropped'
    <3>1. Walking => dropped' = dropped
      BY Walks DEF Settled
    <3>2. \A p \in Setting : Apply(p) \/ PutBack(p) => dropped' = dropped
      BY OfApply, OfPutBack
    <3>3. \A k \in Pass : Recover(k) => dropped' = dropped
      BY OfRecover DEF Settled
    <3>4. \A k \in Pass, stage \in {"COMPLETED", "FAILED"} :
            PassEnds(k, stage) => dropped' = dropped
      BY OfPassEnds DEF Settled
    <3>5. Intent \/ Crash \/ Save \/ Recovered \/ (\E k \in Pass : StartPass(k))
            \/ (\E p \in Setting, v \in Values : UserSets(p, v)) \/ UNCHANGED vars
            => dropped' = dropped
      BY DEF Intent, Crash, Save, Recovered, StartPass, UserSets, vars, history
    <3>6. Return /\ dropped => dropped'
      BY DEF Return
    <3> QED
      BY <3>1, <3>2, <3>3, <3>4, <3>5, <3>6 DEF Next, Walking
  <2> QED
    BY <2>1, <2>2
<1>2. Walking => Remembered'
  BY <1>0, <1>1, Walks, RememberedWalk
<1>3. Save => Remembered'
  <2> SUFFICES ASSUME Save
               PROVE  Remembered'
    OBVIOUS
  <2>1. /\ disk' = mem /\ mem' = mem /\ Still /\ at'.step = "rest"
        /\ \A l \in Pass : ~Failing(l)
    BY DEF Save, Still, robotVars, history, Rest, Failing
  <2>2. Progress'
    BY <2>1 DEF Progress
  <2> QED
    BY <1>1, <2>1, <2>2, RememberedSame
<1>4. Recovered => Remembered'
  <2> SUFFICES ASSUME Recovered
               PROVE  Remembered'
    OBVIOUS
  <2>1. /\ disk' = disk /\ mem' = mem /\ Still /\ at'.op = "prepare"
        /\ \A l \in Pass : ~Failing(l)
    BY DEF Recovered, Still, robotVars, history, Rest, Failing
  <2>2. Progress'
    BY <2>1 DEF Progress, Restoring
  <2> QED
    BY <1>1, <2>1, <2>2, RememberedSame
<1>5. UNCHANGED vars => Remembered'
  BY <1>1 DEF vars, robotVars, history, Remembered, Originals, Faithful, Original, Known, Back,
              Honest, Ends, Good, Progress, Restoring, Failing, i, a
<1> QED
  BY <1>1, <1>2, <1>3, <1>4, <1>5, RememberedApply, RememberedPutBack, RememberedIntent,
     RememberedStartPass, RememberedReturn, RememberedPassEnds, RememberedCrash,
     RememberedRecover, RememberedUserSets DEF Next, Walking

-----------------------------------------------------------------------------
\* A silenced speaker is owed its volume.

LEMMA SpeakerOne ==
  ASSUME Speaker, loud' = loud, NEW k \in Pass, \A l \in Pass : l # k => mem'[l] = mem[l],
         mem'[k].pending => loud, mem'[k].stage = "RUNNING" => ~mem'[k].pending,
         disk' = disk \/ disk' = mem',
         audible' => loud, at'.muted => loud,
         loud /\ ~audible' => \E l \in Pass : Owed(l)',
         Suppression'
  PROVE  Speaker'
<1>1. \A l \in Pass : /\ mem'[l].pending => loud
                      /\ mem'[l].stage = "RUNNING" => ~mem'[l].pending
  BY DEF Speaker, Quiet
<1>2. \A l \in Pass : /\ disk'[l].pending => loud
                      /\ disk'[l].stage = "RUNNING" => ~disk'[l].pending
  BY <1>1 DEF Speaker, Quiet
<1> QED
  BY <1>1, <1>2 DEF Speaker, Quiet

\* The coroutine goes on; what waits in the queue is untouched.
LEMMA OwedStays ==
  ASSUME Shape, Speaker, loud, ~audible, at.step # "boot", at'.queue = at.queue, i' = i,
         \A l \in Pass : l # i => mem'[l] = mem[l], disk' = disk \/ disk' = mem',
         Handling /\ a.pending /\ disk[i].pending => Handling' /\ mem'[i].pending
  PROVE  \E l \in Pass : Owed(l)'
<1>1. PICK l \in Pass : Owed(l)
  BY DEF Speaker
<1>2. CASE l \in at.queue
  <2>1. l # i
    BY <1>2, Here, Layers DEF Line, Pass
  <2>2. Owed(l)'
    BY <1>1, <1>2, <2>1 DEF Owed
  <2> QED
    BY <2>2
<1>3. CASE l = i /\ Handling
  <2>1. Owed(l)'
    BY <1>1, <1>3 DEF Owed, a
  <2> QED
    BY <2>1
<1> QED
  BY <1>1, <1>2, <1>3 DEF Owed

\* An idle engine owes nothing, so that the speaker is as it was.
LEMMA NothingOwed ==
  ASSUME Shape, Speaker, at.queue = {}, at.step \in {"rest", "next", "save", "boot", "return"}
  PROVE  loud => audible
<1>1. ~Handling
  BY DEF Handling, Restoring
<1> QED
  BY <1>1 DEF Speaker, Owed

\* A guard, or another step that leaves the speaker alone.
LEMMA SpeakerMarks ==
  ASSUME Shape, Speaker, NEW q, Marks(q), q => a.pending, audible' = audible, loud' = loud,
         at'.muted => at.muted, disk' = disk,
         Handling /\ a.pending => Handling' /\ q, Suppression'
  PROVE  Speaker'
<1>1. /\ i' = i /\ i \in Pass /\ mem'[i] = a' /\ mem[i] = a /\ a'.stage = a.stage /\ a'.pending = q
      /\ \A l \in Pass : l # i => mem'[l] = mem[l]
  BY Marked DEF a
<1>2. at'.queue = at.queue /\ at.step # "boot"
  BY DEF Marks, Within
<1>3. loud /\ ~audible' => \E l \in Pass : Owed(l)'
  BY <1>1, <1>2, OwedStays
<1>4. /\ mem'[i].pending => loud
      /\ mem'[i].stage = "RUNNING" => ~mem'[i].pending
      /\ audible' => loud
      /\ at'.muted => loud
  BY <1>1 DEF Speaker, Quiet
<1> QED
  BY <1>1, <1>3, <1>4, SpeakerOne

LEMMA SpeakerBreaks ==
  ASSUME Shape, World', Speaker, NEW q, Breaks(q), q => a.pending, loud' = loud,
         audible' = audible \/ (audible' = TRUE /\ loud),
         ~audible' => ~(Handling /\ a.pending)
  PROVE  Speaker'
<1>1. /\ i' = i /\ i \in Pass /\ mem'[i] = Failed(q) /\ mem[i] = a
      /\ \A l \in Pass : l # i => mem'[l] = mem[l]
  BY BreaksShape, Here DEF a
<1>2. Failed(q).stage = "FAILED" /\ Failed(q).pending = q
  BY Here DEF Failed, Attempts, Breaks
<1>3. /\ at'.queue = at.queue /\ at.step # "boot" /\ disk' = disk
      /\ at'.muted => at.muted
      /\ at'.step \in {"mute", "settle"} /\ (at'.step = "mute" => at'.op = "restore")
  BY DEF Breaks, Within
<1>4. loud /\ ~audible' => \E l \in Pass : Owed(l)'
  BY <1>1, <1>3, OwedStays
<1>5. Suppression'
  BY <1>3 DEF Suppression, Preparing
<1>6. /\ mem'[i].pending => loud
      /\ mem'[i].stage = "RUNNING" => ~mem'[i].pending
      /\ audible' => loud
      /\ at'.muted => loud
  BY <1>1, <1>2, <1>3 DEF Speaker, Quiet
<1> QED
  BY <1>1, <1>3, <1>4, <1>5, <1>6, SpeakerOne

LEMMA SpeakerCloses ==
  ASSUME Shape, World', Speaker, NEW q, NEW e, Closes(q, e), q => a.pending, loud' = loud,
         audible' = audible \/ (audible' = TRUE /\ loud), ~audible' => (a.pending => q)
  PROVE  Speaker'
<1>1. /\ i' = i /\ i \in Pass /\ mem'[i] = a' /\ mem[i] = a
      /\ \A l \in Pass : l # i => mem'[l] = mem[l]
      /\ a' = [a EXCEPT !.error = @ \/ e, !.restored = TRUE, !.pending = q]
  BY ClosesShape, Here DEF a
<1>2. a'.stage = a.stage /\ a'.pending = q
  BY <1>1, Here DEF Attempts, Closes
<1>3. /\ at'.queue = at.queue /\ at.step # "boot" /\ disk' = disk
      /\ at'.muted = at.muted /\ at'.step = "settle"
  BY Layers DEF Closes, Within, AtType
<1>4. loud /\ ~audible' => \E l \in Pass : Owed(l)'
  <2>1. Handling'
    BY <1>3 DEF Handling
  <2> QED
    BY <1>1, <1>2, <1>3, <2>1, OwedStays
<1>5. Suppression'
  BY <1>3 DEF Suppression, Preparing
<1>6. Terminal(a)
  BY Layers DEF Closes, Place
<1>7. /\ mem'[i].pending => loud
      /\ mem'[i].stage = "RUNNING" => ~mem'[i].pending
      /\ audible' => loud
      /\ at'.muted => loud
  BY <1>1, <1>2, <1>3, <1>6 DEF Speaker, Quiet, Terminal
<1> QED
  BY <1>1, <1>3, <1>4, <1>5, <1>7, SpeakerOne

\* The speaker is audible again.
LEMMA SpeakerUnmutes ==
  ASSUME Shape, Speaker, NEW q, Marks(q), q => a.pending, audible' = TRUE, loud, loud' = loud,
         disk' = disk, Suppression'
  PROVE  Speaker'
<1>1. /\ i' = i /\ i \in Pass /\ mem'[i] = a' /\ mem[i] = a /\ a'.stage = a.stage /\ a'.pending = q
      /\ \A l \in Pass : l # i => mem'[l] = mem[l]
  BY Marked DEF a
<1>2. /\ mem'[i].pending => loud
      /\ mem'[i].stage = "RUNNING" => ~mem'[i].pending
  BY <1>1 DEF Speaker, Quiet
<1> QED
  BY <1>1, <1>2, SpeakerOne

LEMMA SpeakerWalking ==
  ASSUME Shape, World', Speaker, Walking, glitches' = 0
  PROVE  Speaker'
<1>0. /\ a.pending => loud
      /\ a.stage = "RUNNING" => ~a.pending
      /\ loud' = loud
      /\ audible => loud
      /\ at.muted => loud
      /\ at \in AtType /\ i \in Pass /\ mem[i] = a
  BY Walks, Here, Layers DEF Speaker, Quiet, a, Settled
<1>1. CASE Revive
  <2>1. /\ at.step = "revive" /\ disk' = disk
        /\ Marks(FALSE) /\ at'.step = "guard" /\ Keeps
        /\ \/ ~a.pending /\ audible' = audible
           \/ a.pending /\ audible' = TRUE
    BY <1>1, OfRevive
  <2>2. Suppression'
    <3>1. ~a'.pending
      BY <2>1, Marked
    <3> QED
      BY <2>1, <3>1 DEF Suppression
  <2> QED
    BY <1>0, <2>1, <2>2, SpeakerMarks, SpeakerUnmutes DEF Keeps
<1>2. CASE FirstGuard
  <2>1. at.step = "guard" /\ ~a.pending /\ disk' = disk /\ audible' = audible
    BY <1>2, OfFirstGuard DEF Speaker, Suppression, Preparing
  <2>2. ASSUME Marks(a.pending), at'.step = "mute", at'.muted = FALSE
        PROVE  Speaker'
    <3>1. ~a'.pending
      BY <2>1, <2>2, Marked
    <3>2. Suppression'
      BY <2>2, <3>1 DEF Suppression
    <3> QED
      BY <1>0, <2>1, <2>2, <3>2, SpeakerMarks
  <2> QED
    BY <1>0, <1>2, <2>1, <2>2, SpeakerBreaks, OfFirstGuard
<1>3. CASE Guard("recheck", "intent")
  <2>1. at.step = "recheck" /\ ~a.pending /\ disk' = disk /\ audible' = audible
    BY <1>3, OfGuard DEF Speaker, Suppression, Preparing
  <2>2. ASSUME Marks(a.pending), at'.step = "intent", Keeps
        PROVE  Speaker'
    <3>1. ~a'.pending
      BY <2>1, <2>2, Marked
    <3>2. Suppression'
      BY <2>2, <3>1 DEF Suppression
    <3> QED
      BY <1>0, <2>1, <2>2, <3>2, SpeakerMarks DEF Keeps
  <2> QED
    BY <1>0, <1>3, <2>1, <2>2, SpeakerBreaks, OfGuard
<1>4. CASE Guard("send", "save")
  <2>1. at.step = "send" /\ ~a.pending /\ disk' = disk /\ audible' = audible
    BY <1>0, <1>4, OfGuard, Layers DEF Place
  <2>2. ASSUME Marks(a.pending), at'.step = "save", Keeps
        PROVE  Speaker'
    <3>2. Suppression'
      BY <2>2 DEF Suppression
    <3> QED
      BY <1>0, <2>1, <2>2, <3>2, SpeakerMarks DEF Keeps
  <2> QED
    BY <1>0, <1>4, <2>1, <2>2, SpeakerBreaks, OfGuard
<1>5. CASE Mute
  <2>1. at.step = "mute" /\ audible' = audible
    BY <1>5, OfMute
  <2>2. ASSUME audible, Marks(TRUE), disk' = mem', at'.step = "muting", Keeps
        PROVE  Speaker'
    <3>1. /\ i' = i /\ mem'[i] = a' /\ a'.stage = a.stage /\ a'.pending = TRUE
          /\ \A l \in Pass : l # i => mem'[l] = mem[l]
      BY <1>0, <2>2, Marked DEF a
    <3>2. a.stage # "RUNNING"
      BY <1>0, <2>1, Layers DEF Place, Preparing, Restoring, Terminal, AtType
    <3>3. Suppression'
      BY <2>1, <2>2, <3>1 DEF Suppression
    <3> QED
      BY <1>0, <2>1, <2>2, <3>1, <3>2, <3>3, SpeakerOne DEF Keeps
  <2>3. ASSUME Marks(a.pending), disk' = disk, at'.step = "write", Keeps
        PROVE  Speaker'
    <3>1. Handling /\ a.pending => Handling'
      BY <2>1, <2>3 DEF Handling, Restoring, Keeps
    <3>2. a'.pending = a.pending
      BY <2>3, Marked
    <3>3. at.op = "prepare" => ~a.pending /\ ~at.muted
      BY <2>1 DEF Speaker, Suppression, Preparing
    <3>4. Suppression'
      BY <2>3, <3>2, <3>3 DEF Suppression, Preparing, Keeps
    <3> QED
      BY <1>0, <2>1, <2>3, <3>1, <3>4, SpeakerMarks DEF Keeps
  <2> QED
    BY <1>5, <2>2, <2>3, OfMute
<1>6. CASE Muting
  <2>1. /\ at.step = "muting" /\ audible' = FALSE /\ Marks(a.pending) /\ at'.step = "write"
        /\ at'.muted = TRUE /\ disk' = disk
    BY <1>6, OfMuting
  <2>2. audible /\ a.pending /\ disk[i].pending
    BY <2>1 DEF Speaker, Suppression
  <2>3. /\ i' = i /\ mem'[i] = a' /\ a'.stage = a.stage /\ a'.pending = TRUE
        /\ \A l \in Pass : l # i => mem'[l] = mem[l]
    BY <1>0, <2>1, <2>2, Marked DEF a
  <2>5. \E l \in Pass : Owed(l)'
    <3>3. mem'[i].pending /\ disk'[i].pending /\ Handling'
      BY <2>1, <2>2, <2>3 DEF Handling
    <3>4. \E l \in Pass : mem'[l].pending /\ disk'[l].pending
                            /\ (l \in at'.queue \/ (l = i' /\ Handling'))
      BY <1>0, <2>3, <3>3
    <3> QED
      BY <3>4 DEF Owed
  <2>6. Suppression'
    BY <2>1, <2>3 DEF Suppression
  <2> QED
    BY <1>0, <2>1, <2>2, <2>3, <2>5, <2>6, SpeakerOne
<1>7. CASE Written
  <2>1. /\ at.step = "write" /\ audible' = audible /\ disk' = disk /\ Marks(a.pending)
        /\ at'.step = "unmute" /\ Keeps
    BY <1>7, OfWritten
  <2>2. Handling /\ a.pending => Handling'
    BY <2>1 DEF Handling, Restoring, Keeps
  <2>3. a'.pending = a.pending
    BY <2>1, Marked
  <2>4. Suppression'
    BY <2>1, <2>3 DEF Speaker, Suppression, Preparing, Keeps
  <2> QED
    BY <1>0, <2>1, <2>2, <2>4, SpeakerMarks DEF Keeps
<1>8. CASE Unmute
  <2>0. at.step = "unmute" /\ disk' = disk
    BY <1>8, OfUnmute
  <2>1. at.op = "prepare" => (a.pending <=> at.muted)
    BY <2>0 DEF Speaker, Suppression, Preparing
  <2>2. ASSUME NEW q, NEW e, Ending(q, e),
               \/ ~at.muted /\ q = a.pending /\ audible' = audible
               \/ at.muted /\ q = FALSE /\ audible' = TRUE
        PROVE  Speaker'
    <3>1. CASE at.op = "restore" /\ Closes(q, e)
      BY <1>0, <2>2, <3>1, SpeakerCloses
    <3>2. CASE at.op = "prepare" /\ e /\ Breaks(q) /\ at'.retry = at.retry
      <4>1. ~at.muted => ~Handling
        BY <2>0, <3>2 DEF Handling, Restoring
      <4> QED
        BY <1>0, <2>2, <3>2, <4>1, SpeakerBreaks
    <3>3. CASE at.op = "prepare" /\ ~e /\ Marks(q) /\ at'.step = "recheck" /\ Keeps
      <4>1. q = FALSE \/ ~q
        BY <2>1, <2>2, <3>3
      <4>2. ~a'.pending
        BY <3>3, <4>1, Marked
      <4>3. Suppression'
        BY <3>3, <4>2 DEF Suppression
      <4>4. ~at.muted => ~Handling
        BY <2>0, <3>3 DEF Handling, Restoring
      <4>5. CASE at.muted
        BY <1>0, <2>0, <2>2, <3>3, <4>1, <4>3, <4>5, SpeakerUnmutes
      <4>6. CASE ~at.muted
        BY <1>0, <2>0, <2>2, <3>3, <4>1, <4>3, <4>4, <4>6, SpeakerMarks DEF Keeps
      <4> QED
        BY <4>5, <4>6
    <3> QED
      BY <2>2, <3>1, <3>2, <3>3 DEF Ending
  <2> QED
    BY <1>8, <2>2, OfUnmute
<1>9. CASE Settle
  <2>1. /\ at.step = "settle" /\ disk' = disk /\ at'.step = "return" /\ Keeps
        /\ Marks(FALSE)
        /\ \/ ~a.pending /\ audible' = audible
           \/ a.pending /\ audible' = TRUE
    BY <1>9, OfSettle
  <2>2. Suppression'
    <3>1. ~a'.pending
      BY <2>1, Marked
    <3> QED
      BY <2>1, <3>1 DEF Suppression
  <2> QED
    BY <1>0, <2>1, <2>2, SpeakerMarks, SpeakerUnmutes DEF Keeps
<1> QED
  BY <1>1, <1>2, <1>3, <1>4, <1>5, <1>6, <1>7, <1>8, <1>9 DEF Walking

LEMMA SpeakerApply ==
  ASSUME Shape, Speaker, NEW p \in Setting, Apply(p), glitches' = 0
  PROVE  Speaker'
<1>1. /\ at.step = "write" /\ at.op = "prepare" /\ audible' = audible /\ disk' = disk
      /\ loud' = loud /\ Within /\ at'.op = "prepare" /\ at'.muted = at.muted
      /\ \/ at'.step = "write" /\ mem' = [mem EXCEPT ![i] = Wrote(p, TRUE)]
         \/ at'.step = "unmute" /\ Marks(a.pending)
  BY OfApply
<1>2. /\ i' = i /\ i \in Pass /\ mem[i] = a /\ mem'[i] = a'
      /\ a'.stage = a.stage /\ a'.pending = a.pending
      /\ \A l \in Pass : l # i => mem'[l] = mem[l]
  <2>1. i \in Pass /\ mem[i] = a /\ i' = i /\ a' = mem'[i']
    BY <1>1, Here DEF a, i, Within
  <2>2. CASE mem' = [mem EXCEPT ![i] = Wrote(p, TRUE)]
    <3>1. Wrote(p, TRUE).stage = a.stage /\ Wrote(p, TRUE).pending = a.pending
      BY WroteIs
    <3>2. mem \in [Pass -> Attempts]
      BY Layers DEF Memory
    <3> QED
      BY <2>1, <2>2, <3>1, <3>2
  <2>3. CASE Marks(a.pending)
    BY <2>1, <2>3, Marked
  <2> QED
    BY <1>1, <2>2, <2>3
<1>3. a.pending <=> at.muted
  BY <1>1 DEF Speaker, Suppression, Preparing
<1>4. Suppression'
  BY <1>1, <1>2, <1>3 DEF Suppression, Preparing
<1>5. Handling => Handling'
  BY <1>1 DEF Handling, Restoring
<1>6. /\ mem'[i].pending => loud
      /\ mem'[i].stage = "RUNNING" => ~mem'[i].pending
      /\ audible' => loud
      /\ at'.muted => loud
  BY <1>1, <1>2 DEF Speaker, Quiet
<1>7. loud /\ ~audible' => \E l \in Pass : Owed(l)'
  <2>1. at.queue = at'.queue /\ at.step # "boot"
    BY <1>1 DEF Within
  <2> QED
    BY <1>1, <1>2, <1>5, <2>1, OwedStays
<1> QED
  BY <1>1, <1>2, <1>4, <1>6, <1>7, SpeakerOne

LEMMA SpeakerPutBack ==
  ASSUME Shape, Speaker, NEW p \in Setting, PutBack(p), glitches' = 0
  PROVE  Speaker'
<1>1. /\ at.step = "write" /\ at.op = "restore" /\ audible' = audible /\ disk' = disk
      /\ loud' = loud /\ at'.op = "restore" /\ at'.muted = at.muted
      /\ Marks(a.pending) /\ at'.step = "write"
  BY OfPutBack
<1>2. Handling'
  BY <1>1 DEF Handling, Restoring
<1>3. Suppression'
  BY <1>1 DEF Suppression, Preparing
<1> QED
  BY <1>1, <1>2, <1>3, SpeakerMarks

LEMMA SpeakerIntent ==
  ASSUME Shape, Speaker, Intent
  PROVE  Speaker'
<1>1. /\ at.step = "intent" /\ audible' = audible /\ disk' = mem' /\ loud' = loud
      /\ mem' = [mem EXCEPT ![i] = [a EXCEPT !.stage = "RUNNING"]]
      /\ at' = [at EXCEPT !.step = "send"]
  BY DEF Intent, Goto, robotVars, history, a
<1>2. /\ at'.step = "send" /\ at'.queue = at.queue /\ at'.pass = at.pass /\ at'.muted = at.muted
  BY <1>1, Layers DEF AtType
<1>3. /\ i \in Pass /\ mem[i] = a /\ a \in Attempts /\ i' = i /\ ~a.pending
      /\ mem \in [Pass -> Attempts]
  BY <1>1, <1>2, Here, Layers DEF a, i, Speaker, Suppression, Preparing, Memory
<1>4. /\ mem'[i].stage = "RUNNING" /\ mem'[i].pending = FALSE
      /\ \A l \in Pass : l # i => mem'[l] = mem[l]
  BY <1>1, <1>3 DEF Attempts
<1>5. loud /\ ~audible' => \E l \in Pass : Owed(l)'
  BY <1>1, <1>2, <1>3, <1>4, OwedStays
<1>6. Suppression'
  BY <1>2 DEF Suppression, Preparing
<1> QED
  BY <1>1, <1>2, <1>3, <1>4, <1>5, <1>6, SpeakerOne DEF Speaker

LEMMA SpeakerStartPass ==
  ASSUME Shape, Speaker, NEW k \in Pass, StartPass(k)
  PROVE  Speaker'
<1>1. /\ at.step \in {"rest", "next"} /\ audible' = audible /\ disk' = disk /\ loud' = loud
      /\ mem' = [mem EXCEPT ![k] = Successor(k)]
      /\ at' = [Rest EXCEPT !.step = "revive", !.pass = k]
  BY DEF StartPass, robotVars, history
<1>2. at'.step = "revive" /\ at'.muted = FALSE
  BY <1>1 DEF Rest
<1>3. loud => audible
  <2>1. at.queue = {}
    BY <1>1, Layers DEF Line
  <2> QED
    BY <1>1, <2>1, NothingOwed
<1>4. Successor(k).pending = FALSE /\ Successor(k).stage = "PREPARING"
  BY DEF Successor, Absent
<1>5. /\ mem'[k].pending = FALSE
      /\ \A l \in Pass : l # k => mem'[l] = mem[l]
  BY <1>1, <1>4, Layers DEF Memory
<1>6. Suppression'
  BY <1>2 DEF Suppression
<1> QED
  BY <1>1, <1>2, <1>3, <1>5, <1>6, SpeakerOne DEF Speaker

\* The memory stays, or a pass that owes nothing is taken back.
LEMMA SpeakerReturn ==
  ASSUME Shape, Speaker, Return
  PROVE  Speaker'
<1>1. /\ at.step = "return" /\ audible' = audible /\ disk' = disk /\ loud' = loud
      /\ i \in Pass /\ mem[i] = a /\ ~a.pending
  BY Here DEF Return, robotVars, a, Speaker, Suppression
<1>2. CASE Deferred
  <2>1. mem' = [mem EXCEPT ![i] = Absent] /\ at' = [at EXCEPT !.step = "save"]
    BY <1>2 DEF Return, Goto
  <2>2. at'.step = "save" /\ at'.muted = at.muted
    BY <2>1, Layers DEF AtType
  <2>3. at.queue = {}
    BY <1>2, Layers DEF Deferred, Line
  <2>4. loud => audible
    BY <1>1, <2>3, NothingOwed
  <2>5. /\ mem'[i].pending = FALSE
        /\ \A l \in Pass : l # i => mem'[l] = mem[l]
    BY <1>1, <2>1, Layers DEF Memory, Absent
  <2>6. Suppression'
    BY <2>2 DEF Suppression, Preparing
  <2> QED
    BY <1>1, <2>2, <2>4, <2>5, <2>6, SpeakerOne DEF Speaker
<1>3. CASE ~Deferred
  <2>1. /\ mem' = mem /\ at'.queue = at.queue /\ at'.muted = FALSE
        /\ at'.step \in {"boot", "next", "save"}
    BY <1>3 DEF Return, Rest, Continuation
  <2>2. loud /\ ~audible' => \E l \in Pass : Owed(l)'
    <3> SUFFICES ASSUME loud, ~audible'
                 PROVE  \E l \in Pass : Owed(l)'
      OBVIOUS
    <3>1. PICK l \in Pass : Owed(l)
      BY <1>1 DEF Speaker
    <3>2. l \in at.queue
      BY <1>1, <3>1 DEF Owed, Handling, Restoring
    <3> QED
      BY <1>1, <2>1, <3>1, <3>2 DEF Owed
  <2>3. Suppression'
    BY <2>1 DEF Suppression, Preparing
  <2> QED
    BY <1>1, <2>1, <2>2, <2>3, SpeakerOne DEF Speaker, Quiet
<1> QED
  BY <1>2, <1>3

LEMMA SpeakerSave ==
  ASSUME Shape, Tried, Speaker, Save
  PROVE  Speaker'
<1>1. /\ at.step = "save" /\ audible' = audible /\ disk' = mem /\ mem' = mem /\ loud' = loud
      /\ at' = Rest
  BY DEF Save, robotVars, history
<1>2. at'.step = "rest" /\ at'.muted = FALSE
  BY <1>1 DEF Rest
<1>3. loud => audible
  BY <1>1, NothingOwed DEF Tried
<1>4. Suppression'
  BY <1>2 DEF Suppression, Preparing
<1> QED
  BY <1>1, <1>2, <1>3, <1>4 DEF Speaker, Quiet

LEMMA SpeakerPassEnds ==
  ASSUME Shape, Speaker, NEW k \in Pass, NEW stage \in {"COMPLETED", "FAILED"},
         PassEnds(k, stage)
  PROVE  Speaker'
<1>1. /\ at.step = "rest" /\ audible' = audible /\ disk' = disk /\ loud' = loud
      /\ mem' = [mem EXCEPT ![k] = Stopped(k, stage)]
      /\ Stopped(k, stage).stage = stage
      /\ Stopped(k, stage).pending = mem[k].pending
      /\ at'.op = "restore" /\ at'.muted = FALSE /\ at'.step \in {"settle", "mute"}
  BY OfPassEnds DEF Settled
<1>2. loud => audible
  <2>1. at.queue = {}
    BY <1>1, Layers DEF Line
  <2> QED
    BY <1>1, <2>1, NothingOwed
<1>3. /\ mem'[k].pending = mem[k].pending /\ mem'[k].stage # "RUNNING"
      /\ \A l \in Pass : l # k => mem'[l] = mem[l]
  BY <1>1, Layers DEF Memory
<1>4. Suppression'
  BY <1>1 DEF Suppression, Preparing
<1> QED
  BY <1>1, <1>2, <1>3, <1>4, SpeakerOne DEF Speaker, Quiet

\* What the disk remembers waits in the queue of the restart.
LEMMA SpeakerCrash ==
  ASSUME Shape, Speaker, Crash
  PROVE  Speaker'
<1>1. /\ audible' = audible /\ disk' = disk /\ mem' = disk /\ loud' = loud
      /\ at' = [Rest EXCEPT !.step = "boot", !.boot = TRUE,
                            !.queue = {pass \in Pass : disk[pass].stage # "none"}]
  BY DEF Crash, robotVars
<1>2. /\ at'.step = "boot" /\ at'.muted = FALSE
      /\ at'.queue = {pass \in Pass : disk[pass].stage # "none"}
  BY <1>1 DEF Rest
<1>3. loud /\ ~audible' => \E l \in Pass : Owed(l)'
  <2> SUFFICES ASSUME loud, ~audible'
               PROVE  \E l \in Pass : Owed(l)'
    OBVIOUS
  <2>1. PICK l \in Pass : Owed(l)
    BY <1>1 DEF Speaker
  <2>2. disk[l].stage # "none"
    BY <2>1, Layers DEF Memory, Chain, Absent, Owed
  <2> QED
    BY <1>1, <1>2, <2>1, <2>2 DEF Owed
<1>4. Suppression'
  BY <1>2 DEF Suppression, Preparing
<1> QED
  BY <1>1, <1>2, <1>3, <1>4 DEF Speaker, Quiet

\* The recovery takes an attempt from the queue and handles its pending volume.
LEMMA SpeakerRecover ==
  ASSUME Shape, Speaker, NEW k \in Pass, Recover(k)
  PROVE  Speaker'
<1>1. /\ audible' = audible /\ disk' = disk /\ loud' = loud
      /\ at.step = "boot" /\ at'.pass = k /\ at'.queue = at.queue \ {k}
      /\ at'.muted = at.muted
      /\ \/ /\ mem' = mem /\ at'.step = "mute" /\ at'.op = "restore"
         \/ /\ Terminal(mem[k]) /\ at'.step = "settle"
            /\ mem' = [mem EXCEPT ![k] = [mem[k] EXCEPT !.restored = TRUE]]
         \/ mem' = mem /\ at'.step = "revive"
         \/ /\ mem' = [mem EXCEPT ![k] = Expired(k)]
            /\ at'.step = "settle" \/ (at'.step = "mute" /\ at'.op = "restore")
         \/ mem[k].stage = "RUNNING" /\ mem' = mem /\ at'.step = "boot"
  BY OfRecover DEF Settled
<1>2. i' = k /\ mem[k] \in Attempts
  BY <1>1, Layers DEF i, Memory
<1>3. /\ mem'[k].pending = mem[k].pending
      /\ mem'[k].stage \in {mem[k].stage, "FAILED"}
      /\ \A l \in Pass : l # k => mem'[l] = mem[l]
  <2> DEFINE closed == [mem[k] EXCEPT !.restored = TRUE]
  <2>1. closed.pending = mem[k].pending /\ closed.stage = mem[k].stage
    BY <1>2 DEF Attempts
  <2>2. Expired(k).pending = mem[k].pending /\ Expired(k).stage = "FAILED"
    BY <1>2 DEF Attempts, Expired
  <2>3. \/ mem' = mem
        \/ mem' = [mem EXCEPT ![k] = closed]
        \/ mem' = [mem EXCEPT ![k] = Expired(k)]
    BY <1>1
  <2>4. mem \in [Pass -> Attempts]
    BY Layers DEF Memory
  <2> HIDE DEF closed
  <2> QED
    BY <2>1, <2>2, <2>3, <2>4
<1>4. Handling' \/ (mem[k].stage = "RUNNING" /\ at'.step = "boot")
  BY <1>1 DEF Handling, Restoring
<1>5. loud /\ ~audible' => \E l \in Pass : Owed(l)'
  <2> SUFFICES ASSUME loud, ~audible'
               PROVE  \E l \in Pass : Owed(l)'
    OBVIOUS
  <2>1. PICK l \in Pass : Owed(l)
    BY <1>1 DEF Speaker
  <2>2. l \in at.queue /\ mem[l].pending /\ disk[l].pending
    BY <1>1, <2>1 DEF Owed, Handling, Restoring
  <2>3. mem'[l].pending /\ disk'[l].pending
    BY <1>1, <1>3, <2>2
  <2>4. CASE l # k
    BY <1>1, <2>2, <2>3, <2>4 DEF Owed
  <2>5. CASE l = k
    <3>1. Handling'
      BY <1>4, <2>2, <2>5 DEF Speaker, Quiet
    <3>2. l = i'
      BY <1>2, <2>5
    <3> QED
      BY <2>3, <3>1, <3>2 DEF Owed
  <2> QED
    BY <2>4, <2>5
<1>6. Suppression'
  BY <1>1 DEF Suppression, Preparing
<1> QED
  BY <1>1, <1>3, <1>5, <1>6, SpeakerOne DEF Speaker, Quiet

LEMMA SpeakerRecovered ==
  ASSUME Shape, Speaker, Recovered
  PROVE  Speaker'
<1>1. /\ at.step = "boot" /\ at.queue = {}
      /\ audible' = audible /\ disk' = disk /\ mem' = mem /\ loud' = loud
      /\ at'.step \in {"next", "save"} /\ at'.muted = FALSE
  BY DEF Recovered, robotVars, history, Rest, Continuation
<1>2. loud => audible
  BY <1>1, NothingOwed
<1>3. Suppression'
  BY <1>1 DEF Suppression, Preparing
<1> QED
  BY <1>1, <1>2, <1>3 DEF Speaker, Quiet

LEMMA SpeakerSame ==
  ASSUME Speaker, UNCHANGED <<audible, mem, disk, at, loud>>
  PROVE  Speaker'
<1>1. i' = i /\ a' = a
  BY DEF i, a
<1>2. Preparing' = Preparing /\ Handling' = Handling
  BY DEF Preparing, Handling, Restoring
<1>3. Suppression'
  BY <1>1, <1>2 DEF Speaker, Suppression
<1>4. \A l \in Pass : Owed(l) => Owed(l)'
  BY <1>1, <1>2 DEF Owed
<1> QED
  BY <1>3, <1>4 DEF Speaker, Quiet

LEMMA SpeakerStep ==
  ASSUME Shape, Shape', Tried, Speaker, [Next]_vars, glitches' = 0
  PROVE  Speaker'
<1>1. World'
  BY DEF Shape, World, TypeOK
<1>2. CASE \E k \in Pass : StartPass(k)
  BY <1>2, SpeakerStartPass
<1>3. CASE Walking
  BY <1>1, <1>3, SpeakerWalking
<1>4. CASE \E p \in Setting : Apply(p)
  BY <1>4, SpeakerApply
<1>5. CASE \E p \in Setting : PutBack(p)
  BY <1>5, SpeakerPutBack
<1>6. CASE Intent
  BY <1>6, SpeakerIntent
<1>7. CASE Return
  BY <1>7, SpeakerReturn
<1>8. CASE Save
  BY <1>8, SpeakerSave
<1>9. CASE \E k \in Pass, stage \in {"COMPLETED", "FAILED"} : PassEnds(k, stage)
  BY <1>9, SpeakerPassEnds
<1>10. CASE Crash
  BY <1>10, SpeakerCrash
<1>11. CASE \E k \in Pass : Recover(k)
  BY <1>11, SpeakerRecover
<1>12. CASE Recovered
  BY <1>12, SpeakerRecovered
<1>13. CASE \E p \in Setting, v \in Values : UserSets(p, v)
  BY <1>13, SpeakerSame DEF UserSets
<1>14. CASE UNCHANGED vars
  BY <1>14, SpeakerSame DEF vars, robotVars, history
<1> QED
  BY <1>2, <1>3, <1>4, <1>5, <1>6, <1>7, <1>8, <1>9, <1>10, <1>11, <1>12, <1>13, <1>14
     DEF Next, Walking

\* No call has failed yet, if none has failed afterwards.
LEMMA GlitchesRise ==
  ASSUME Shape, [Next]_vars, glitches' = 0
  PROVE  glitches = 0
BY Layers, Glitches DEF Next, vars, robotVars, history, budget, World, StartPass, Revive,
  FirstGuard, Guard, Mute, Muting, Apply, PutBack, Written, Unmute, Intent, Settle, Return,
  Save, PassEnds, Crash, Recover, Recovered, UserSets

-----------------------------------------------------------------------------
\* The inductive invariant

LEMMA SettingsInit ==
  ASSUME Init
  PROVE  Settings
<1>1. /\ at.step = "rest" /\ at.queue = {} /\ at.retry = FALSE
      /\ touched = {} /\ setting = original /\ disk = mem
  BY DEF Init, Rest
<1>2. /\ \A k \in Pass : mem[k] = Absent
      /\ Absent.stage = "none"
      /\ \A p \in Setting : Absent.snapshot[p] = Unset
  BY DEF Init, Absent
<1>3. \A k \in Pass : ~Ends(mem, k) /\ ~Ends(disk, k)
  BY <1>1, <1>2 DEF Ends
<1>4. Chosen /\ Tried /\ Pairs
  BY <1>1, <1>2, <1>3 DEF Chosen, Tried, Pairs
<1>5. ~Restoring
  BY <1>1 DEF Restoring
<1>6. Originals /\ Faithful(disk)
  BY <1>1, <1>2 DEF Originals, Faithful, Original
<1>7. Known /\ Honest(mem) /\ Honest(disk) /\ Progress
  BY <1>1, <1>3, <1>5 DEF Known, Back, Honest, Progress
<1> QED
  BY <1>4, <1>6, <1>7 DEF Settings, Remembered

LEMMA SpeakerInit ==
  ASSUME Init
  PROVE  Speaker
<1>1. at.step = "rest" /\ at.muted = FALSE /\ loud = audible /\ disk = mem
  BY DEF Init, Rest
<1>2. \A k \in Pass : mem[k].pending = FALSE
  BY DEF Init, Absent
<1>3. Suppression
  BY <1>1 DEF Suppression, Preparing
<1> QED
  BY <1>1, <1>2, <1>3 DEF Speaker, Quiet

LEMMA IInvInit == Init => IInv
BY ShapeInit, SettingsInit, SpeakerInit DEF IInv

LEMMA IInvStep == IInv /\ [Next]_vars => IInv'
<1> SUFFICES ASSUME IInv, [Next]_vars
             PROVE  IInv'
  OBVIOUS
<1>1. Shape /\ Chosen /\ Tried /\ Pairs
  BY DEF IInv, Settings
<1>2. Shape'
  BY <1>1, ShapeStep
<1>3. Chosen' /\ Tried' /\ Pairs'
  BY <1>1, <1>2, ChosenStep, TriedStep, PairsStep
<1>4. ~torn' /\ ~dropped' => Remembered'
  <2>1. ~torn /\ ~dropped => Remembered
    BY DEF IInv, Settings
  <2> QED
    BY <1>1, <1>2, <2>1, RememberedStep
<1>5. glitches' = 0 => Speaker'
  <2> SUFFICES ASSUME glitches' = 0
               PROVE  Speaker'
    OBVIOUS
  <2>1. Speaker
    BY <1>1, GlitchesRise DEF IInv
  <2> QED
    BY <1>1, <1>2, <2>1, SpeakerStep
<1> QED
  BY <1>2, <1>3, <1>4, <1>5 DEF IInv, Settings

\* The chain of attempts, the way of the coroutine, what the disk keeps, and
\* what is still to be put back hold together through passes, failures and
\* restarts.
THEOREM Invariant == Spec => []IInv
BY IInvInit, IInvStep, PTL DEF Spec

-----------------------------------------------------------------------------
\* The properties

\* The attempts stay attempts, in memory and on disk.
THEOREM TypeCorrect == Spec => []TypeOK
<1>1. IInv => TypeOK
  BY DEF IInv, Shape
<1> QED
  BY <1>1, Invariant, PTL

\* An occurrence that is over has put its settings back, or its attempt says
\* why not, unless a crash lost the values before a save or a rollback dropped
\* an attempt whose restore had failed.
THEOREM SettingsComeBack == Spec => []RestoredIfRemembered
<1>1. IInv => RestoredIfRemembered
  <2> SUFFICES ASSUME IInv, ~torn /\ ~dropped, NEW k \in Pass, NEW p \in Setting, Over(k)
               PROVE  setting[p] = original[p] \/ Excused(k, p)
    BY DEF RestoredIfRemembered, RestoredAtEnd
  <2>1. at.step = "rest" /\ Ends(mem, k)
    BY DEF Over, Ends
  <2>2. at.queue = {} /\ ~Restoring
    BY <2>1, Layers DEF IInv, Line, Restoring
  <2>3. mem[k].restored
    BY <2>1, <2>2 DEF IInv, Settings, Tried
  <2>4. Good(mem, k)
    BY <2>1, <2>3 DEF IInv, Settings, Remembered, Honest
  <2> QED
    BY <2>4 DEF Good, Back, Excused
<1> QED
  BY <1>1, Invariant, PTL

\* As long as every service call is confirmed, the disk knows of a silenced
\* speaker, and an occurrence that is over leaves it as it was before.
THEOREM SpeakerComesBack == Spec => []SpeakerRestored
<1>1. IInv => SpeakerRestored
  <2> SUFFICES ASSUME IInv, glitches = 0
               PROVE  /\ MuteIsRemembered
                      /\ \A k \in Pass : Over(k) => audible = loud
    BY DEF SpeakerRestored
  <2>1. Shape /\ Speaker
    BY DEF IInv
  <2>2. MuteIsRemembered
    BY <2>1 DEF MuteIsRemembered, Speaker, Owed
  <2>3. ASSUME NEW k \in Pass, Over(k)
        PROVE  audible = loud
    <3>1. at.step = "rest" /\ at.queue = {}
      BY <2>1, <2>3, Layers DEF Over, Line
    <3>2. loud <=> audible
      BY <2>1, <3>1, NothingOwed DEF Speaker
    <3>3. loud \in BOOLEAN /\ audible \in BOOLEAN
      BY <2>1, Layers DEF World
    <3> QED
      BY <3>2, <3>3
  <2> QED
    BY <2>2, <2>3
<1> QED
  BY <1>1, Invariant, PTL

\* What somebody has set at the robot after the scheduler's last write is left
\* alone, unless a further pass is prepared: a restore compares before it writes.
THEOREM UserChoiceIsKept == Spec => UserChoiceSurvives
<1> DEFINE Kept ==
      \A p \in touched :
        setting'[p] # setting[p] => at.op = "prepare" \/ UserSets(p, setting'[p])
<1>1. IInv /\ [Next]_vars => [Kept]_vars
  <2> SUFFICES ASSUME IInv, [Next]_vars, NEW p \in touched, setting'[p] # setting[p]
               PROVE  at.op = "prepare" \/ UserSets(p, setting'[p])
    OBVIOUS
  <2>1. Shape /\ Chosen /\ p \in Setting /\ setting \in [Setting -> Values]
    BY Layers DEF IInv, Settings, World
  <2>2. ASSUME Walking
        PROVE  FALSE
    BY <2>1, <2>2, Walks DEF Settled
  <2>3. ASSUME NEW q \in Setting, Apply(q)
        PROVE  at.op = "prepare"
    BY <2>3 DEF Apply
  <2>4. ASSUME NEW q \in Setting, PutBack(q)
        PROVE  FALSE
    <3>1. setting' = setting
            \/ (Unchanged(q) /\ setting' = [setting EXCEPT ![q] = a.snapshot[q]])
      BY <2>1, <2>4, OfPutBack
    <3>2. p # q
      BY <2>1, <3>1 DEF Unchanged, Chosen
    <3> QED
      BY <2>1, <3>1, <3>2
  <2>5. ASSUME NEW q \in Setting, NEW v \in Values, UserSets(q, v)
        PROVE  UserSets(p, setting'[p])
    <3>1. setting' = [setting EXCEPT ![q] = v]
      BY <2>5 DEF UserSets
    <3>2. p = q /\ setting'[p] = v
      BY <2>1, <3>1
    <3> QED
      BY <2>5, <3>2
  <2>6. ASSUME \/ \E k \in Pass : StartPass(k) \/ Recover(k)
               \/ \E k \in Pass, stage \in {"COMPLETED", "FAILED"} : PassEnds(k, stage)
               \/ Intent \/ Return \/ Save \/ Crash \/ Recovered \/ UNCHANGED vars
        PROVE  FALSE
    BY <2>6 DEF StartPass, Recover, PassEnds, Intent, Return, Save, Crash, Recovered, vars,
      robotVars
  <2> QED
    BY <2>2, <2>3, <2>4, <2>5, <2>6 DEF Next, Walking
<1> QED
  BY <1>1, Invariant, PTL DEF Spec, UserChoiceSurvives

\* Until the first restart no setting is put back while a pass is running.
THEOREM NothingIsPutBackUnderAPass == Spec => NotRestoredWhileUp
<1> DEFINE Clear == crashes = 0 => ~PutsBackWhileRunning
<1>1. IInv /\ [Next]_vars => [Clear]_vars
  <2> SUFFICES ASSUME IInv, crashes = 0, PutsBackWhileRunning
               PROVE  FALSE
    OBVIOUS
  <2>1. /\ Restoring
        /\ \E k \in Pass : mem[k].stage = "RUNNING"
    BY DEF PutsBackWhileRunning, Restoring
  <2>2. PICK k \in Pass : mem[k].stage = "RUNNING"
    BY <2>1
  <2>3. /\ Shape /\ Chain(mem) /\ Ends(mem, i) /\ i \in Pass
    BY <2>1, Layers, Here DEF IInv, Place, Memory
  <2>4. mem[i].stage \in {"COMPLETED", "FAILED"}
    BY <2>3 DEF Ends
  <2>5. ~(k < i)
    BY <2>2, <2>3, <2>4 DEF Chain
  <2>6. ~(i < k)
    <3>1. ASSUME i < k
          PROVE  FALSE
      <4>1. mem[i].stage = "COMPLETED"
        BY <2>2, <2>3, <3>1 DEF Chain
      <4>2. i = Passes
        BY <2>3, <4>1 DEF Ends, Final
      <4> QED
        BY <3>1, <4>2, ParamsAssumption DEF Pass
    <3> QED
      BY <3>1
  <2>7. i = k
    BY <2>3, <2>5, <2>6, ParamsAssumption DEF Pass
  <2> QED
    BY <2>2, <2>4, <2>7
<1> QED
  BY <1>1, Invariant, PTL DEF Spec, NotRestoredWhileUp
==============================================================================
