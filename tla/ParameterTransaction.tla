------------------------ MODULE ParameterTransaction ------------------------
(***************************************************************************)
(* The robot settings and the speaker volume around one REAL occurrence of *)
(* one or more physical passes.  Before a pass the scheduler mutes the     *)
(* speaker, remembers each setting and writes its own; after the last pass *)
(* it puts back what nobody else has changed.  The remembered values live  *)
(* in the attempt's metadata, which reaches the disk only at the save      *)
(* points of the code, so a crash restores an older memory of a robot that *)
(* has not forgotten.                                                      *)
(***************************************************************************)
EXTENDS Naturals, FiniteSets

CONSTANTS
  Params,      \* settings are numbered 1..Params in the order the code writes them
  Passes,      \* physical passes of the occurrence (emulated repetitions)
  Values,      \* values of a setting
  Planned,     \* the one the schedule wants
  Unset,       \* not remembered
  MaxGlitches, \* failing service calls in one behaviour
  MaxCrashes   \* crashes in one behaviour

ASSUME ParamsAssumption == Params \in Nat \ {0} /\ Passes \in Nat \ {0}
ASSUME ValuesAssumption == Planned \in Values /\ Unset \notin Values
ASSUME BoundsAssumption == MaxGlitches \in Nat /\ MaxCrashes \in Nat

Setting == 1..Params
Pass == 1..Passes
Stages == {"none", "PREPARING", "RUNNING", "COMPLETED", "FAILED"}

\* One attempt, as far as its metadata concerns us.  "none" is an attempt that
\* is not in the job; RUNNING is every state from COMMAND_INTENT to the end.
Attempts ==
  [stage    : Stages,
   snapshot : [Setting -> Values \cup {Unset}],  \* parameter_snapshot_before
   applied  : SUBSET Setting,                    \* parameters_applied
   restored : BOOLEAN,                           \* parameter_restore_done
   error    : BOOLEAN,                           \* parameter_restore_error
   pending  : BOOLEAN]                           \* pending_volume_restore

Absent ==
  [stage |-> "none", snapshot |-> [p \in Setting |-> Unset], applied |-> {},
   restored |-> FALSE, error |-> FALSE, pending |-> FALSE]

Steps ==
  {"rest", "boot", "revive", "guard", "mute", "muting", "write", "unmute",
   "recheck", "intent", "send", "settle", "return", "next", "save"}

VARIABLES
  setting,   \* the robot's settings
  audible,   \* the speaker is not muted
  mem,       \* the job's attempts in memory
  disk,      \* the attempts as last saved
  at,        \* where the engine's coroutine is
  glitches, crashes,
  original,  \* history: the settings before the scheduler touched them
  touched,   \* history: settings changed by the user after the scheduler's last write
  loud,      \* history: the speaker was audible before the job
  torn,      \* history: a crash lost remembered values that were not yet saved
  dropped    \* history: an attempt was removed although its restore had failed

robotVars == <<setting, audible>>
history == <<original, touched, loud, torn, dropped>>
budget == <<glitches, crashes>>
vars == <<robotVars, mem, disk, at, budget, history>>

TypeOK ==
  /\ setting \in [Setting -> Values]
  /\ audible \in BOOLEAN
  /\ mem \in [Pass -> Attempts]
  /\ disk \in [Pass -> Attempts]
  /\ at \in [step : Steps, pass : Pass, op : {"prepare", "restore"}, next : 1..Params + 1,
             muted : BOOLEAN, err : BOOLEAN, retry : BOOLEAN, queue : SUBSET Pass, boot : BOOLEAN]
  /\ glitches \in 0..MaxGlitches
  /\ crashes \in 0..MaxCrashes
  /\ original \in [Setting -> Values]
  /\ touched \in SUBSET Setting
  /\ loud \in BOOLEAN
  /\ torn \in BOOLEAN
  /\ dropped \in BOOLEAN

Rest ==
  [step |-> "rest", pass |-> 1, op |-> "prepare", next |-> 1, muted |-> FALSE,
   err |-> FALSE, retry |-> FALSE, queue |-> {}, boot |-> FALSE]

Init ==
  /\ setting \in [Setting -> Values]
  /\ audible \in BOOLEAN
  /\ mem = [i \in Pass |-> Absent]
  /\ disk = mem
  /\ at = Rest
  /\ glitches = 0
  /\ crashes = 0
  /\ original = setting
  /\ touched = {}
  /\ loud = audible
  /\ torn = FALSE
  /\ dropped = FALSE

-----------------------------------------------------------------------------
\* The coroutine's position.

i == at.pass
a == mem[i]

Goto(step) == at' = [at EXCEPT !.step = step]

\* What a failing service call costs.
Glitch == glitches < MaxGlitches /\ glitches' = glitches + 1 /\ UNCHANGED crashes

Final(pass) == pass = Passes
Terminal(attempt) == attempt.stage \in {"COMPLETED", "FAILED"}

\* The values that there are to put back.
Remembers(attempt) ==
  (\E p \in Setting : attempt.snapshot[p] # Unset) /\ attempt.applied # {}

\* _finish: a pass that is not the last keeps the settings for the next one.
RestoreDue(attempt, pass) ==
  /\ attempt.stage # "COMPLETED" \/ Final(pass)
  /\ ~attempt.restored

\* The first step of what _finish does to attempt b, which has just ended.
AfterFinish(b) ==
  IF RestoreDue(b, i) /\ Remembers(b)
  THEN [at EXCEPT !.step = "mute", !.op = "restore", !.err = FALSE, !.muted = FALSE]
  ELSE [at EXCEPT !.step = "settle"]

\* Without values to put back parameter_restore_done is set at once.
Ended(stage) ==
  [a EXCEPT !.stage = stage,
            !.restored = @ \/ (RestoreDue([a EXCEPT !.stage = stage], i) /\ ~Remembers(a))]

Fail(retry) ==
  /\ mem' = [mem EXCEPT ![i] = Ended("FAILED")]
  /\ at' = [AfterFinish([a EXCEPT !.stage = "FAILED"]) EXCEPT !.retry = retry]

-----------------------------------------------------------------------------
\* async_start

\* _async_start_next_pass hands the remembered values on; the first pass has none.
Successor(pass) ==
  [Absent EXCEPT !.stage = "PREPARING",
                 !.snapshot = IF pass = 1 THEN @ ELSE mem[pass - 1].snapshot,
                 !.applied = IF pass = 1 THEN @ ELSE mem[pass - 1].applied]

\* Mutant: the next pass does not wait for its predecessor.
StartableAtOnce(pass) == mem[pass].stage = "none"

Startable(pass) ==
  /\ mem[pass].stage = "none"
  /\ pass > 1 => mem[pass - 1].stage = "COMPLETED"

StartPass(pass) ==
  /\ at.step \in {"rest", "next"} /\ Startable(pass)
  /\ mem' = [mem EXCEPT ![pass] = Successor(pass)]
  /\ at' = [Rest EXCEPT !.step = "revive", !.pass = pass]
  /\ UNCHANGED <<robotVars, disk, budget, history>>

Unmuted(attempt) == [attempt EXCEPT !.pending = FALSE]

\* Mutant: the pending volume is forgotten before it is set.
ReviveForgetting ==
  /\ at.step = "revive"
  /\ mem' = [mem EXCEPT ![i] = Unmuted(a)]
  /\ Goto("guard")
  /\ UNCHANGED <<robotVars, budget, disk, history>>

\* async_restore_pending_volume before a preparation that a restart resumes.
Revive ==
  /\ at.step = "revive"
  /\ \/ /\ ~a.pending
        /\ Goto("guard")
        /\ UNCHANGED <<robotVars, mem, budget>>
     \/ /\ a.pending
        /\ audible' = TRUE
        /\ mem' = [mem EXCEPT ![i] = Unmuted(a)]
        /\ Goto("guard")
        /\ UNCHANGED <<setting, budget>>
     \/ /\ a.pending /\ Glitch
        /\ audible' \in {audible, TRUE}
        /\ Fail(FALSE)
        /\ UNCHANGED setting
  /\ UNCHANGED <<disk, history>>

\* async_final_guard and the power guards, each with its late blocker; a vacuum
\* error is the one that is not retried.
Guard(step, next) ==
  /\ at.step = step
  /\ \/ Goto(next) /\ UNCHANGED mem
     \/ \E retry \in BOOLEAN : Fail(retry)
  /\ UNCHANGED <<robotVars, disk, budget, history>>

StartMuting == [at EXCEPT !.op = "prepare", !.err = FALSE, !.muted = FALSE]

FirstGuard ==
  /\ at.step = "guard"
  /\ \/ at' = [StartMuting EXCEPT !.step = "mute"] /\ UNCHANGED mem
     \/ \E retry \in BOOLEAN : Fail(retry)
  /\ UNCHANGED <<robotVars, disk, budget, history>>

\* The volume is remembered on disk before the speaker is muted.  A speaker that
\* is silent already, or whose volume cannot be read, is left alone.
Mute ==
  /\ at.step = "mute"
  /\ \/ /\ audible
        /\ mem' = [mem EXCEPT ![i].pending = TRUE]
        /\ disk' = mem'
        /\ Goto("muting")
     \/ /\ at' = [at EXCEPT !.step = "write", !.next = 1]
        /\ UNCHANGED <<mem, disk>>
  /\ UNCHANGED <<robotVars, budget, history>>

\* What async_restore_parameters leaves when it returns or raises.
Closed(attempt, err) ==
  [attempt EXCEPT !.error = @ \/ err, !.restored = TRUE]

\* A mute that is not confirmed in time forgets the pending restore, though the
\* robot may have taken it.
Muting ==
  /\ at.step = "muting"
  /\ \/ /\ audible' = FALSE
        /\ at' = [at EXCEPT !.step = "write", !.next = 1, !.muted = TRUE]
        /\ UNCHANGED <<mem, budget>>
     \/ /\ Glitch
        /\ audible' \in BOOLEAN
        /\ LET forgot == [a EXCEPT !.pending = FALSE]
           IN  IF at.op = "prepare"
               THEN /\ mem' = [mem EXCEPT ![i] = [Ended("FAILED") EXCEPT !.pending = FALSE]]
                    /\ at' = AfterFinish([forgot EXCEPT !.stage = "FAILED"])
               ELSE /\ mem' = [mem EXCEPT ![i] = Closed(forgot, TRUE)]
                    /\ Goto("settle")
  /\ UNCHANGED <<setting, disk, history>>

\* Mutant: every pass remembers what it finds.
NotedAnew(attempt, p) == [attempt EXCEPT !.snapshot[p] = setting[p]]

Noted(attempt, p) ==
  [attempt EXCEPT !.snapshot[p] = IF @ = Unset THEN setting[p] ELSE @]

Raise == at' = [at EXCEPT !.step = "unmute", !.err = TRUE]

\* History: the scheduler's first write over a value somebody has chosen makes
\* that value the one to come back to.
Overwrites(p) ==
  /\ touched' = touched \ {p}
  /\ original' = IF p \in touched /\ a.snapshot[p] = Unset
                 THEN [original EXCEPT ![p] = setting[p]] ELSE original

\* One setting of _apply: accepted and confirmed; refused before it is noted;
\* raised by a call that may have had its effect; accepted and not confirmed.
Apply(p) ==
  /\ at.step = "write" /\ at.op = "prepare" /\ at.next = p
  /\ \/ /\ mem' = [mem EXCEPT ![i] = [Noted(a, p) EXCEPT !.applied = @ \cup {p}]]
        /\ setting' = [setting EXCEPT ![p] = Planned]
        /\ Overwrites(p)
        /\ at' = [at EXCEPT !.next = p + 1]
        /\ UNCHANGED budget
     \/ Raise /\ UNCHANGED <<mem, setting, touched, original, budget>>
     \/ /\ Glitch /\ Raise
        /\ \E accepted, effective \in BOOLEAN :
             /\ mem' = [mem EXCEPT ![i] =
                          [Noted(a, p) EXCEPT !.applied = IF accepted THEN @ \cup {p} ELSE @]]
             /\ IF effective
                THEN setting' = [setting EXCEPT ![p] = Planned] /\ Overwrites(p)
                ELSE UNCHANGED <<setting, touched, original>>
  /\ UNCHANGED <<audible, disk, loud, torn, dropped>>

\* Mutant: the restore does not compare.
UnchangedUnchecked(p) == p \in a.applied

\* _restore leaves a setting alone when it no longer reads what was applied.
Unchanged(p) == p \in a.applied /\ setting[p] = Planned

\* One setting of _restore: skipped, put back, or failing, which abandons the rest.
PutBack(p) ==
  /\ at.step = "write" /\ at.op = "restore" /\ at.next = p
  /\ \/ /\ a.snapshot[p] = Unset \/ ~Unchanged(p)
        /\ at' = [at EXCEPT !.next = p + 1]
        /\ UNCHANGED <<setting, budget>>
     \/ /\ a.snapshot[p] # Unset /\ Unchanged(p)
        /\ \/ /\ setting' = [setting EXCEPT ![p] = a.snapshot[p]]
              /\ at' = [at EXCEPT !.next = p + 1]
              /\ UNCHANGED budget
           \/ /\ Glitch /\ Raise
              /\ \/ setting' = [setting EXCEPT ![p] = a.snapshot[p]]
                 \/ UNCHANGED setting
  /\ UNCHANGED <<audible, mem, disk, history>>

Written ==
  /\ at.step = "write" /\ at.next = Params + 1
  /\ Goto("unmute")
  /\ UNCHANGED <<robotVars, mem, disk, budget, history>>

\* The sound suppression returns to async_start or to _finish.
Returned(attempt, err) ==
  IF at.op = "restore"
  THEN mem' = [mem EXCEPT ![i] = Closed(attempt, err)] /\ Goto("settle")
  ELSE IF err
  THEN /\ mem' = [mem EXCEPT ![i] = [Ended("FAILED") EXCEPT !.pending = attempt.pending]]
       /\ at' = AfterFinish([attempt EXCEPT !.stage = "FAILED"])
  ELSE mem' = [mem EXCEPT ![i] = attempt] /\ Goto("recheck")

\* _async_restore_volume_best_effort, its three tries taken as one.
Unmute ==
  /\ at.step = "unmute"
  /\ \/ /\ ~at.muted
        /\ Returned(a, at.err)
        /\ UNCHANGED <<audible, budget>>
     \/ /\ at.muted
        /\ audible' = TRUE
        /\ Returned(Unmuted(a), at.err)
        /\ UNCHANGED budget
     \/ /\ at.muted /\ Glitch
        /\ audible' \in {audible, TRUE}
        /\ Returned([a EXCEPT !.pending = TRUE], TRUE)
  /\ UNCHANGED <<setting, disk, history>>

\* The durable COMMAND_INTENT.
Intent ==
  /\ at.step = "intent"
  /\ mem' = [mem EXCEPT ![i].stage = "RUNNING"]
  /\ disk' = mem'
  /\ Goto("send")
  /\ UNCHANGED <<robotVars, budget, history>>

\* The second half of _finish.
Settle ==
  /\ at.step = "settle"
  /\ \/ ~a.pending /\ UNCHANGED <<audible, mem, budget>>
     \/ /\ a.pending
        /\ audible' = TRUE
        /\ mem' = [mem EXCEPT ![i] = Unmuted(a)]
        /\ UNCHANGED budget
     \/ a.pending /\ Glitch /\ audible' \in {audible, TRUE} /\ UNCHANGED mem
  /\ Goto("return")
  /\ UNCHANGED <<setting, disk, history>>

-----------------------------------------------------------------------------
\* The manager

\* A late blocker rolls the attempt back; only a restart does not.
Deferred == a.stage = "FAILED" /\ at.retry /\ ~at.boot

\* The next pass follows its completed predecessor without a save in between.
Continuation == IF \E pass \in Pass \ {1} : Startable(pass) THEN "next" ELSE "save"

\* What async_recover_job still has to handle, what async_progress_job goes on
\* to in the same reconcile, and the save at its end.
Return ==
  /\ at.step = "return"
  /\ IF Deferred
     THEN /\ mem' = [mem EXCEPT ![i] = Absent]
          /\ dropped' = (dropped \/ a.error)
          /\ Goto("save")
     ELSE /\ UNCHANGED <<mem, dropped>>
          /\ at' = [Rest EXCEPT !.step = IF at.boot THEN "boot" ELSE Continuation,
                                !.boot = at.boot, !.queue = at.queue]
  /\ UNCHANGED <<robotVars, disk, budget, original, touched, loud, torn>>

Save ==
  /\ at.step = "save"
  /\ disk' = mem
  /\ at' = Rest
  /\ UNCHANGED <<robotVars, mem, budget, history>>

\* Observation ends the pass.
PassEnds(pass, stage) ==
  /\ at.step = "rest" /\ mem[pass].stage = "RUNNING"
  /\ LET b == [mem[pass] EXCEPT !.stage = stage]
         due == RestoreDue(b, pass) /\ Remembers(b)
     IN  /\ mem' = [mem EXCEPT ![pass] =
                      [b EXCEPT !.restored = @ \/ (RestoreDue(b, pass) /\ ~Remembers(b))]]
         /\ at' = [Rest EXCEPT !.pass = pass, !.step = IF due THEN "mute" ELSE "settle",
                               !.op = "restore"]
  /\ UNCHANGED <<robotVars, disk, budget, history>>

\* Some remembered value of memory is not on disk.
Unsaved ==
  \E pass \in Pass, p \in Setting :
    mem[pass].snapshot[p] # Unset /\ disk[pass].snapshot[p] = Unset

Crash ==
  /\ crashes < MaxCrashes
  /\ crashes' = crashes + 1
  /\ mem' = disk
  /\ at' = [Rest EXCEPT !.step = "boot", !.boot = TRUE,
                        !.queue = {pass \in Pass : disk[pass].stage # "none"}]
  /\ torn' = (torn \/ Unsaved)
  /\ UNCHANGED <<robotVars, disk, glitches, original, touched, loud, dropped>>

\* async_recover_job handles the persisted attempts in their order.
Recover(pass) ==
  LET b == mem[pass]
      here == [at EXCEPT !.pass = pass, !.queue = @ \ {pass}]
  IN
  /\ at.step = "boot" /\ pass \in at.queue /\ \A other \in at.queue : pass <= other
  /\ \/ /\ Terminal(b)
        /\ IF ~b.restored /\ Remembers(b)
           THEN at' = [here EXCEPT !.step = "mute", !.op = "restore"] /\ UNCHANGED mem
           ELSE /\ mem' = [mem EXCEPT ![pass].restored = TRUE]
                /\ at' = [here EXCEPT !.step = "settle"]
     \/ /\ b.stage = "PREPARING"
        /\ at' = [here EXCEPT !.step = "revive"] /\ UNCHANGED mem
     \/ /\ b.stage = "PREPARING"       \* the deadline passed meanwhile
        /\ LET f == [b EXCEPT !.stage = "FAILED"] IN
             IF Remembers(f)
             THEN /\ mem' = [mem EXCEPT ![pass] = f]
                  /\ at' = [here EXCEPT !.step = "mute", !.op = "restore"]
             ELSE /\ mem' = [mem EXCEPT ![pass] = [f EXCEPT !.restored = TRUE]]
                  /\ at' = [here EXCEPT !.step = "settle"]
     \/ b.stage = "RUNNING" /\ at' = here /\ UNCHANGED mem
  /\ UNCHANGED <<robotVars, disk, budget, history>>

Recovered ==
  /\ at.step = "boot" /\ at.queue = {}
  /\ at' = [Rest EXCEPT !.step = Continuation]
  /\ UNCHANGED <<robotVars, mem, disk, budget, history>>

-----------------------------------------------------------------------------
\* Somebody changes a setting at the robot or in its app.
UserSets(p, v) ==
  /\ v \notin {setting[p], Planned}
  /\ setting' = [setting EXCEPT ![p] = v]
  /\ touched' = touched \cup {p}
  /\ UNCHANGED <<audible, mem, disk, at, budget, original, loud, torn, dropped>>

Next ==
  \/ \E pass \in Pass : StartPass(pass)
  \/ Revive
  \/ FirstGuard
  \/ Mute
  \/ Muting
  \/ \E p \in Setting : Apply(p)
  \/ \E p \in Setting : PutBack(p)
  \/ Written
  \/ Unmute
  \/ Guard("recheck", "intent")
  \/ Intent
  \/ Guard("send", "save")
  \/ Settle
  \/ Return
  \/ Save
  \/ \E pass \in Pass, stage \in {"COMPLETED", "FAILED"} : PassEnds(pass, stage)
  \/ Crash
  \/ \E pass \in Pass : Recover(pass)
  \/ Recovered
  \/ \E p \in Setting, v \in Values : UserSets(p, v)

Spec == Init /\ [][Next]_vars

-----------------------------------------------------------------------------
\* The occurrence has ended in this attempt and the engine is idle.
Over(pass) ==
  /\ at.step = "rest"
  /\ mem[pass].stage = "FAILED" \/ (Final(pass) /\ mem[pass].stage = "COMPLETED")

\* Why a setting may differ from what it was before the occurrence: somebody
\* changed it, the failing restore is on record, or the write itself was
\* answered by an error and is not known to have happened.
Excused(pass, p) ==
  p \in touched \/ mem[pass].error \/ p \notin mem[pass].applied

\* The panel's promise "Vacuum settings changed explicitly by the schedule are
\* restored after the final pass": when an occurrence is over its settings are
\* back or the attempt says why not.
RestoredAtEnd ==
  \A pass \in Pass, p \in Setting :
    Over(pass) => setting[p] = original[p] \/ Excused(pass, p)

\* The same for occurrences whose memory reached the disk in time and whose
\* attempts were not rolled back over a failed restore.
RestoredIfRemembered == ~torn /\ ~dropped => RestoredAtEnd

\* "... only if nobody changed them externally": what somebody has set after
\* the scheduler's last write is left alone, through passes, failures and
\* restarts, unless a further pass of the schedule is prepared.
UserChoiceSurvives ==
  [][\A p \in touched :
       setting'[p] # setting[p] => at.op = "prepare" \/ UserSets(p, setting'[p])]_vars

PutsBackWhileRunning ==
  /\ at.op = "restore" /\ at.step = "write"
  /\ \E p \in Setting : setting'[p] # setting[p] /\ p \notin touched'
  /\ \E pass \in Pass : mem[pass].stage = "RUNNING"

\* "... restored after the final pass": nothing is put back under a running pass.
NotRestoredWhileRunning == [][~PutsBackWhileRunning]_vars

\* The same until the first restart.
NotRestoredWhileUp == [][crashes = 0 => ~PutsBackWhileRunning]_vars

\* Whenever the scheduler has silenced the speaker the disk remembers it, so
\* that a restart at any moment can put the volume back.
MuteIsRemembered ==
  loud /\ ~audible => \E pass \in Pass : disk[pass].pending

\* An occurrence that is over leaves the speaker as it found it, through any
\* restart, and until then the disk knows of a silenced one, while every
\* service call is confirmed.
SpeakerRestored ==
  glitches = 0 => MuteIsRemembered /\ ((\E pass \in Pass : Over(pass)) => audible = loud)
=============================================================================
