----------------------------- MODULE EngineReload -----------------------------
(***************************************************************************)
(* Saving or deleting a schedule reloads the config entry: async_stop      *)
(* saves and returns without taking the engine's lock, and a new engine    *)
(* loads the disk.  A start that was under way in the old engine is not    *)
(* cancelled: it goes on with the old job record and the old store.        *)
(***************************************************************************)
EXTENDS CommandBoundary

CONSTANT MaxReloads   \* bound on the reloads

VARIABLES
  stray,     \* the start left behind by the old engine: its station and its job
  reloads

reloadVars == <<vars, stray, reloads>>

NoStray == [pc |-> "none", job |-> [attempt |-> NoAttempt, zone |-> "WAIT",
                                    reason |-> "none", interrupted |-> FALSE]]

ReloadInit == Init /\ stray = NoStray /\ reloads = 0

\* async_stop cancels the emergency task, saves, and leaves the rest alone.
Reload ==
  /\ pc \in {"idle", "prepare", "barrier", "command"}
  /\ stray.pc = "none" /\ reloads < MaxReloads
  /\ stray' = IF pc = "idle" THEN stray ELSE [pc |-> pc, job |-> job]
  /\ reloads' = reloads + 1
  /\ disk' = job
  /\ saves' = <<>>
  /\ pc' = "down"
  /\ recovering' = FALSE
  /\ emergency' = "idle"
  /\ latched' = FALSE
  /\ UNCHANGED <<job, world, sent>>

StrayWritesIntent(r) ==
  /\ stray.pc = "prepare"
  /\ power = "on" /\ FinalGuard(Observation[r]) = "none"
  /\ stray' = [pc |-> "barrier", job |-> [stray.job EXCEPT !.attempt = WithIntent(@)]]
  /\ disk' = stray'.job
  /\ UNCHANGED <<memory, saves, world, sent, reloads>>

StraySends ==
  /\ stray.pc = "barrier" /\ power = "on"
  /\ sent' = sent + 1
  /\ stray' = [stray EXCEPT !.pc = "command"]
  /\ UNCHANGED <<memory, disk, saves, world, reloads>>

\* The old reconcile runs to its end, which is a save.
StrayAnswered ==
  /\ stray.pc = "command"
  /\ disk' = Synced([stray.job EXCEPT !.attempt.state = "START_REQUESTED"])
  /\ stray' = NoStray
  /\ UNCHANGED <<memory, saves, world, sent, reloads>>

ReloadNext ==
  \/ Next /\ UNCHANGED <<stray, reloads>>
  \/ Reload
  \/ \E r \in Reports : StrayWritesIntent(r)
  \/ StraySends
  \/ StrayAnswered

ReloadSpec == ReloadInit /\ [][ReloadNext]_reloadVars
==============================================================================
