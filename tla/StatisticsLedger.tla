-------------------------- MODULE StatisticsLedger --------------------------
(***************************************************************************)
(* What is kept of a job once it has ended.  JobStore archives it in two   *)
(* files; every reconcile then books the archived jobs that the ledger     *)
(* does not contain: a row in the month's chunk, the ledger's index, the   *)
(* water the job used and a training sample of the forecast.  Each is a    *)
(* file of its own and an await of its own.  Beside that, without the      *)
(* scheduler's lock, the user takes a backup, clears and restores.         *)
(* The aggregate cache is recomputed by every query and left out; all jobs *)
(* are REAL, of one month, and each is an occurrence of its own.           *)
(***************************************************************************)
EXTENDS Sequences, SequencesExt, FiniteSets, Integers

CONSTANTS
  Jobs,          \* jobs, none of which has ended yet
  HistoryLimit,  \* jobs the operational history keeps
  Layers,        \* selections of layers to clear or restore
  MaxCrashes,
  MaxRequests    \* of the user, the backup not counted

AllLayers == {"history", "statistics", "models"}

ASSUME LedgerAssumption ==
  /\ IsFiniteSet(Jobs) /\ HistoryLimit \in Nat \ {0}
  /\ Layers \subseteq (SUBSET AllLayers) \ {{}}
  /\ MaxCrashes \in Nat /\ MaxRequests \in Nat

VARIABLES
  mem,      \* the stores in memory
  disk,     \* their files
  loaded,   \* the chunk is cached in memory
  engine,   \* the reconcile, or the start of the integration
  user,     \* a clear or restore under way
  backup,   \* the backup the user has taken, if any
  bounds,   \* crashes and requests so far
  seen      \* history: what crashes cut short, overlaps, what was cleared

vars == <<mem, disk, loaded, engine, user, backup, bounds, seen>>

None == [job |-> "none"]
Counts == [Jobs -> 0..MaxCrashes + 3]
Nothing == [j \in Jobs |-> 0]

\* reset: the jobs that had ended at the last clear (statistics_reset_at).
Stores ==
  [active : SUBSET Jobs, history : UNION {[1..n -> Jobs] : n \in 0..HistoryLimit},
   archive : SUBSET Jobs, rows : Counts, index : SUBSET Jobs,
   processed : SUBSET Jobs, used : Counts, samples : SUBSET Jobs, reset : SUBSET Jobs]

EngineSteps == {"idle", "jobs", "history", "sync", "chunk", "index", "water", "models"}
UserSteps ==
  {"idle", "control", "chunks", "clearindex", "waterclear", "jobs", "archive", "clearmodels",
   "restore", "append", "chunk", "index", "lastindex", "waterrestore", "lastcontrol",
   "restoremodels", "repair"}

TypeOK ==
  /\ mem \in Stores /\ disk \in Stores
  /\ loaded \in BOOLEAN
  /\ engine.step \in EngineSteps /\ engine.boot \in BOOLEAN /\ engine.todo \subseteq Jobs
  /\ engine.rows \in Counts
  /\ user.step \in UserSteps /\ user.layers \subseteq AllLayers /\ user.todo \subseteq Jobs
  /\ user.rows \in Counts /\ user.restores \in BOOLEAN
  /\ backup \subseteq Stores
  /\ bounds \in [crashes : 0..MaxCrashes, requests : 0..MaxRequests]
  /\ seen \in [torn : SUBSET Jobs, split : SUBSET Jobs, emptied : SUBSET Jobs,
               overlap : BOOLEAN, forgot : SUBSET AllLayers]

Empty ==
  [active |-> Jobs, history |-> <<>>, archive |-> {}, rows |-> Nothing, index |-> {},
   processed |-> {}, used |-> Nothing, samples |-> {}, reset |-> {}]

AtRest == [step |-> "idle", boot |-> FALSE, todo |-> {}, job |-> None, rows |-> Nothing]
NoRequest == [step |-> "idle", layers |-> {}, todo |-> {}, job |-> None, rows |-> Nothing,
              restores |-> FALSE]

Init ==
  /\ mem = Empty /\ disk = Empty
  /\ loaded = TRUE
  /\ engine = AtRest
  /\ user = NoRequest
  /\ backup = {}
  /\ bounds = [crashes |-> 0, requests |-> 0]
  /\ seen = [torn |-> {}, split |-> {}, emptied |-> {}, overlap |-> FALSE, forgot |-> {}]

-----------------------------------------------------------------------------
\* The ledger

\* Rows of a month that the index does not name are not read.
Visible(s) == IF s.index = {} THEN Nothing ELSE s.rows
Booked(s) == {j \in Jobs : Visible(s)[j] > 0}

\* The chunk, from the cache or from its file.
Chunk == IF loaded THEN mem.rows ELSE disk.rows

\* Jobs that ended after statistics_reset_at.
AfterReset(j) == j \notin mem.reset

\* Water of one job is booked once.
WaterRecorded(s, j) ==
  IF j \in s.processed THEN s
  ELSE [s EXCEPT !.processed = @ \cup {j}, !.used[j] = @ + 1]

\* Derived water facts of the jobs booked in the ledger are made anew.
WaterRepaired(s, S) ==
  [s EXCEPT !.processed = @ \cup S, !.used = [j \in Jobs |-> IF j \in S THEN 1 ELSE @[j]]]

-----------------------------------------------------------------------------
\* A reconcile: jobs end, the store is saved, the ledger is synchronised.

\* JobStore.archive
Archived(s, j) ==
  [s EXCEPT !.active = @ \ {j},
            !.history = IF Len(@) < HistoryLimit THEN Append(@, j) ELSE Append(Tail(@), j),
            !.archive = @ \cup {j}]

\* Bound: fewer jobs than HistoryLimit (100) end between two saves.
EndJob(j) ==
  /\ engine.step = "idle" /\ j \in mem.active
  /\ Cardinality(mem.archive \ disk.archive) < HistoryLimit
  /\ mem' = Archived(mem, j)
  /\ engine' = [engine EXCEPT !.step = "jobs"]
  /\ seen' = [seen EXCEPT !.overlap = @ \/ user.step # "idle"]
  /\ UNCHANGED <<disk, loaded, user, backup, bounds>>

\* Mutant: the archive is written before the active jobs.
SavedArchiveFirst(file, s, d) ==
  IF file = "history" THEN [d EXCEPT !.active = s.active, !.history = s.history]
  ELSE [d EXCEPT !.archive = s.archive]

\* The two files of JobStore, written one after the other.
Saved(file, s, d) ==
  IF file = "jobs" THEN [d EXCEPT !.active = s.active, !.history = s.history]
  ELSE [d EXCEPT !.archive = s.archive]

SaveJobs ==
  /\ engine.step = "jobs"
  /\ disk' = Saved("jobs", mem, disk)
  /\ engine' = [engine EXCEPT !.step = "history"]
  /\ UNCHANGED <<mem, loaded, user, backup, bounds, seen>>

SaveHistory ==
  /\ engine.step = "history"
  /\ disk' = Saved("history", mem, disk)
  /\ engine' = [engine EXCEPT !.step = "sync", !.todo = mem.archive]
  /\ UNCHANGED <<mem, loaded, user, backup, bounds, seen>>

\* Mutant: only a reconcile with changes synchronises.
ReconcileChanged ==
  /\ engine.step = "idle" /\ mem.archive # disk.archive
  /\ engine' = [engine EXCEPT !.step = "jobs"]
  /\ seen' = [seen EXCEPT !.overlap = @ \/ user.step # "idle"]
  /\ UNCHANGED <<mem, disk, loaded, user, backup, bounds>>

\* A reconcile saves when it changed anything and synchronises in any case.
Reconcile ==
  /\ engine.step = "idle"
  /\ \/ mem.archive # disk.archive /\ engine' = [engine EXCEPT !.step = "jobs"]
     \/ /\ mem.archive \ (mem.index \cup mem.reset) # {}
        /\ engine' = [engine EXCEPT !.step = "sync", !.todo = mem.archive]
  /\ seen' = [seen EXCEPT !.overlap = @ \/ user.step # "idle"]
  /\ UNCHANGED <<mem, disk, loaded, user, backup, bounds>>

\* Mutant: the row is appended whether or not the index has it.
AppendRowAgain(j) ==
  /\ engine.step = "sync" /\ j \in engine.todo
  /\ AfterReset(j)
  /\ mem' = [mem EXCEPT !.rows = [Chunk EXCEPT ![j] = @ + 1]]
  /\ loaded' = TRUE
  /\ engine' = [engine EXCEPT !.step = "chunk", !.todo = @ \ {j}, !.job = [job |-> j],
                              !.rows = [Chunk EXCEPT ![j] = @ + 1]]
  /\ seen' = [seen EXCEPT !.overlap = @ \/ user.step # "idle"]
  /\ UNCHANGED <<disk, user, backup, bounds>>

\* async_append as far as its first await: the row joins the chunk.
AppendRow(j) ==
  /\ engine.step = "sync" /\ j \in engine.todo
  /\ j \notin mem.index /\ AfterReset(j)
  /\ mem' = [mem EXCEPT !.rows = [Chunk EXCEPT ![j] = @ + 1]]
  /\ loaded' = TRUE
  /\ engine' = [engine EXCEPT !.step = "chunk", !.todo = @ \ {j}, !.job = [job |-> j],
                              !.rows = [Chunk EXCEPT ![j] = @ + 1]]
  /\ seen' = [seen EXCEPT !.overlap = @ \/ user.step # "idle"]
  /\ UNCHANGED <<disk, user, backup, bounds>>

Current == engine.job.job

\* The list that was being written may have left the cache meanwhile.
ChunkSaved ==
  /\ engine.step = "chunk"
  /\ disk' = [disk EXCEPT !.rows = engine.rows]
  /\ mem' = [mem EXCEPT !.index = @ \cup {Current}]
  /\ engine' = [engine EXCEPT !.step = "index"]
  /\ UNCHANGED <<loaded, user, backup, bounds, seen>>

IndexSaved ==
  /\ engine.step = "index"
  /\ disk' = [disk EXCEPT !.index = mem.index]
  /\ mem' = WaterRecorded(mem, Current)
  /\ engine' = [engine EXCEPT !.step = "water"]
  /\ UNCHANGED <<loaded, user, backup, bounds, seen>>

\* The start trains when all jobs are booked, a reconcile at once.
WaterSaved ==
  /\ engine.step = "water"
  /\ disk' = [disk EXCEPT !.processed = mem.processed, !.used = mem.used]
  /\ mem' = IF engine.boot THEN mem ELSE [mem EXCEPT !.samples = @ \cup {Current}]
  /\ engine' = [engine EXCEPT !.step = IF engine.boot THEN "sync" ELSE "models"]
  /\ UNCHANGED <<loaded, user, backup, bounds, seen>>

ModelsSaved ==
  /\ engine.step = "models"
  /\ disk' = [disk EXCEPT !.samples = mem.samples]
  /\ engine' = IF engine.boot THEN AtRest ELSE [engine EXCEPT !.step = "sync"]
  /\ UNCHANGED <<mem, loaded, user, backup, bounds, seen>>

Synchronised ==
  /\ engine.step = "sync"
  /\ engine.todo \subseteq mem.index \cup mem.reset

EndSync ==
  /\ Synchronised /\ ~engine.boot
  /\ engine' = AtRest
  /\ UNCHANGED <<mem, disk, loaded, user, backup, bounds, seen>>

-----------------------------------------------------------------------------
\* Start and restart

\* JobStore.async_load: what reached the first file only is archived here.
Loaded(d) == [d EXCEPT !.archive = @ \cup ToSet(d.history), !.active = @ \ ToSet(d.history)]

\* Home Assistant may die at any await.  Between a chunk and the index it
\* leaves a row without an entry (torn by a reconcile, split by a restore), or
\* in a clear entries without rows (emptied).
Crash ==
  /\ bounds.crashes < MaxCrashes
  /\ bounds' = [bounds EXCEPT !.crashes = @ + 1]
  /\ mem' = Loaded(disk)
  /\ loaded' = FALSE
  /\ engine' = [AtRest EXCEPT !.step = "sync", !.boot = TRUE, !.todo = Loaded(disk).archive]
  /\ user' = NoRequest
  /\ seen' = [seen EXCEPT
                !.torn = IF engine.step = "index" THEN @ \cup {Current} ELSE @,
                !.split = IF user.step = "index" THEN @ \cup {user.job.job} ELSE @,
                !.emptied = IF user.step = "clearindex" THEN @ \cup disk.index ELSE @,
                !.forgot = @ \ {"models"}]
  /\ UNCHANGED <<disk, backup>>

\* Mutant: rows written before a crash are not looked at again.
BootRecordsOf(s) == s

\* The rest of async_start: water and samples of every row there is.
BootRecords(s) ==
  [s EXCEPT !.processed = @ \cup Booked(s),
            !.used = [j \in Jobs |-> IF j \in Booked(s) \ s.processed THEN @[j] + 1 ELSE @[j]],
            !.samples = @ \cup Booked(s)]

BootEnds ==
  /\ Synchronised /\ engine.boot
  /\ mem' = BootRecords([mem EXCEPT !.rows = Chunk])
  /\ loaded' = TRUE
  /\ disk' = [disk EXCEPT !.processed = mem'.processed, !.used = mem'.used]
  /\ engine' = [engine EXCEPT !.step = "models"]
  /\ UNCHANGED <<user, backup, bounds, seen>>

-----------------------------------------------------------------------------
\* The user: backup, clear, restore.  The handlers do not take the lock; the
\* start is over before they are reachable.

Exported == [mem EXCEPT !.rows = Visible([mem EXCEPT !.rows = Chunk])]

TakeBackup ==
  /\ backup = {} /\ ~engine.boot /\ user.step = "idle" /\ mem.archive # {}
  /\ backup' = {Exported}
  /\ UNCHANGED <<mem, disk, loaded, engine, user, bounds, seen>>

\* The first step of a clear that concerns one of these layers.
ClearFrom(layers) ==
  IF "statistics" \in layers THEN "control"
  ELSE IF "history" \in layers THEN "jobs"
  ELSE IF "models" \in layers THEN "clearmodels" ELSE "idle"

Done(u, layer) == [u EXCEPT !.layers = @ \ {layer}]

Request(layers, step, restores) ==
  /\ user.step = "idle" /\ ~engine.boot /\ bounds.requests < MaxRequests
  /\ bounds' = [bounds EXCEPT !.requests = @ + 1]
  /\ user' = [NoRequest EXCEPT !.step = step, !.layers = layers, !.restores = restores]
  /\ seen' = [seen EXCEPT !.overlap = @ \/ engine.step # "idle"]
  /\ UNCHANGED <<disk, loaded, engine, backup>>

\* async_clear_data; jobs that have ended by now are not booked again.
Clear(layers) ==
  /\ Request(layers, ClearFrom(layers), FALSE)
  /\ mem' = IF "statistics" \in layers THEN [mem EXCEPT !.reset = Jobs \ mem.active] ELSE mem

ControlSaved ==
  /\ user.step = "control"
  /\ disk' = [disk EXCEPT !.reset = mem.reset]
  /\ user' = [user EXCEPT !.step = "chunks"]
  /\ UNCHANGED <<mem, loaded, engine, backup, bounds, seen>>

\* async_clear of the ledger: the chunks of the months in the index go first,
\* then the memory.
ChunksRemoved ==
  /\ user.step = "chunks"
  /\ disk' = IF mem.index = {} THEN disk ELSE [disk EXCEPT !.rows = Nothing]
  /\ mem' = [mem EXCEPT !.index = {}, !.rows = disk'.rows]
  /\ loaded' = FALSE
  /\ user' = [user EXCEPT !.step = "clearindex"]
  /\ UNCHANGED <<engine, backup, bounds, seen>>

IndexCleared ==
  /\ user.step = "clearindex"
  /\ disk' = [disk EXCEPT !.index = mem.index]
  /\ user' = IF user.restores THEN [user EXCEPT !.step = "append"]
             ELSE [user EXCEPT !.step = "waterclear"]
  /\ mem' = IF user.restores THEN mem ELSE [mem EXCEPT !.processed = {}, !.used = Nothing]
  /\ UNCHANGED <<loaded, engine, backup, bounds, seen>>

WaterCleared ==
  /\ user.step = "waterclear"
  /\ disk' = [disk EXCEPT !.processed = mem.processed, !.used = mem.used]
  /\ user' = [Done(user, "statistics") EXCEPT !.step = ClearFrom(user.layers \ {"statistics"})]
  /\ UNCHANGED <<mem, loaded, engine, backup, bounds, seen>>

HistoryCleared ==
  /\ user.step = "jobs"
  /\ mem' = [mem EXCEPT !.history = <<>>, !.archive = {}]
  /\ disk' = Saved("jobs", mem', disk)
  /\ user' = [user EXCEPT !.step = "archive"]
  /\ seen' = [seen EXCEPT !.forgot = @ \cup {"history"}]
  /\ UNCHANGED <<loaded, engine, backup, bounds>>

ArchiveCleared ==
  /\ user.step = "archive"
  /\ disk' = Saved("history", mem, disk)
  /\ user' = [Done(user, "history") EXCEPT !.step = ClearFrom(user.layers \ {"history", "statistics"})]
  /\ UNCHANGED <<mem, loaded, engine, backup, bounds, seen>>

ModelsCleared ==
  /\ user.step = "clearmodels"
  /\ mem' = [mem EXCEPT !.samples = {}]
  /\ disk' = [disk EXCEPT !.samples = {}]
  /\ user' = NoRequest
  /\ seen' = [seen EXCEPT !.forgot = @ \cup {"models"}]
  /\ UNCHANGED <<loaded, engine, backup, bounds>>

-----------------------------------------------------------------------------
\* async_restore_backup.  Replacing the job history sorts it with a name
\* job_store.py does not import: with any job in the backup the handler ends
\* there and restores nothing.

RestoreFrom(layers) ==
  IF "statistics" \in layers THEN "chunks"
  ELSE IF "models" \in layers THEN "restoremodels" ELSE "idle"

HistoryRestores(b) == b.archive = {}

Restore(b, layers) ==
  /\ Request(layers, IF "history" \in layers /\ ~HistoryRestores(b) THEN "idle" ELSE RestoreFrom(layers), TRUE)
  /\ mem' = mem

\* The rows of the backup are appended one by one.
RestoreRow(b, j) ==
  /\ user.step = "append" /\ b.rows[j] > 0 /\ j \notin user.todo
  /\ j \notin mem.index
  /\ mem' = [mem EXCEPT !.rows = [Chunk EXCEPT ![j] = @ + 1]]
  /\ loaded' = TRUE
  /\ user' = [user EXCEPT !.step = "chunk", !.todo = @ \cup {j}, !.job = [job |-> j],
                          !.rows = [Chunk EXCEPT ![j] = @ + 1]]
  /\ UNCHANGED <<disk, engine, backup, bounds, seen>>

RestoredChunkSaved ==
  /\ user.step = "chunk"
  /\ disk' = [disk EXCEPT !.rows = user.rows]
  /\ mem' = [mem EXCEPT !.index = @ \cup {user.job.job}]
  /\ user' = [user EXCEPT !.step = "index"]
  /\ UNCHANGED <<loaded, engine, backup, bounds, seen>>

RestoredIndexSaved ==
  /\ user.step = "index"
  /\ disk' = [disk EXCEPT !.index = mem.index]
  /\ user' = [user EXCEPT !.step = "append"]
  /\ UNCHANGED <<mem, loaded, engine, backup, bounds, seen>>

\* All rows are back; the water facts of the backup replace those in memory.
RowsRestored(b) ==
  /\ user.step = "append"
  /\ \A j \in Jobs : b.rows[j] > 0 => j \in user.todo \cup mem.index
  /\ mem' = [mem EXCEPT !.processed = b.processed, !.used = b.used]
  /\ user' = [user EXCEPT !.step = "waterrestore"]
  /\ UNCHANGED <<disk, loaded, engine, backup, bounds, seen>>

WaterRestored(b) ==
  /\ user.step = "waterrestore"
  /\ disk' = [disk EXCEPT !.processed = mem.processed, !.used = mem.used]
  /\ mem' = [mem EXCEPT !.reset = b.reset]
  /\ user' = [user EXCEPT !.step = "lastcontrol"]
  /\ UNCHANGED <<loaded, engine, backup, bounds, seen>>

ControlRestored ==
  /\ user.step = "lastcontrol"
  /\ disk' = [disk EXCEPT !.reset = mem.reset]
  /\ user' = [user EXCEPT !.step = IF "models" \in user.layers THEN "restoremodels" ELSE "repair"]
  /\ UNCHANGED <<mem, loaded, engine, backup, bounds, seen>>

ModelsRestored(b) ==
  /\ user.step = "restoremodels"
  /\ mem' = [mem EXCEPT !.samples = b.samples]
  /\ disk' = [disk EXCEPT !.samples = b.samples]
  /\ user' = IF "statistics" \in user.layers THEN [user EXCEPT !.step = "repair"] ELSE NoRequest
  /\ seen' = [seen EXCEPT !.forgot = @ \cup {"models"}]
  /\ UNCHANGED <<loaded, engine, backup, bounds>>

\* The water facts of the restored rows are derived anew.
RepairAfterRestore ==
  /\ user.step = "repair"
  /\ mem' = WaterRepaired(mem, Booked([mem EXCEPT !.rows = Chunk]))
  /\ disk' = [disk EXCEPT !.processed = mem'.processed, !.used = mem'.used]
  /\ user' = NoRequest
  /\ seen' = [seen EXCEPT !.forgot = @ \cup {"models"}]
  /\ UNCHANGED <<loaded, engine, backup, bounds>>

Engine ==
  \/ SaveJobs \/ SaveHistory \/ Reconcile \/ EndSync \/ BootEnds
  \/ \E j \in Jobs : AppendRow(j)
  \/ ChunkSaved \/ IndexSaved \/ WaterSaved \/ ModelsSaved

Handler ==
  \/ ControlSaved \/ ChunksRemoved \/ IndexCleared \/ WaterCleared
  \/ HistoryCleared \/ ArchiveCleared \/ ModelsCleared
  \/ RestoredChunkSaved \/ RestoredIndexSaved \/ ControlRestored \/ RepairAfterRestore
  \/ \E b \in backup : RowsRestored(b) \/ WaterRestored(b) \/ ModelsRestored(b)
  \/ \E b \in backup, j \in Jobs : RestoreRow(b, j)

Next ==
  \/ Engine \/ Handler
  \/ \E j \in Jobs : EndJob(j)
  \/ TakeBackup
  \/ \E layers \in Layers : Clear(layers)
  \/ \E layers \in Layers, b \in backup : Restore(b, layers)
  \/ Crash

\* The watchdog reconciles again and again, and awaits return.
Spec == Init /\ [][Next]_vars /\ WF_vars(Engine) /\ WF_vars(Handler)

-----------------------------------------------------------------------------
Quiet == engine.step = "idle" /\ user.step = "idle"

\* Every job is one row at most (statistics_store.py, async_append) and its
\* water is used once, through any crash, clear or restore.
CountedOnceStrict == \A j \in Jobs : Visible(mem)[j] <= 1 /\ mem.used[j] <= 1

\* The same but for what the code does not exclude: a job whose chunk was
\* written when a crash came before its index, and the rows of requests that
\* overlap a synchronisation, which they do without the scheduler's lock.  The
\* water holds whatever overlaps.
CountedOnce ==
  /\ ~seen.overlap => \A j \in Jobs \ (seen.torn \cup seen.split) : Visible(mem)[j] <= 1
  /\ \A j \in Jobs : mem.used[j] <= 1

\* Four files agree once nothing is under way, whatever crashed in between, a
\* clear or restore included: the index names exactly the jobs that have a row,
\* their water is booked, and the forecast was trained with them unless the
\* models were cleared or replaced since the last start.  Two crashes alone
\* part the index and the rows, each for the jobs it hit: in a clear between
\* the removal of the chunks and the save of the index (statistics_store.py:180
\* to 192) the index keeps naming jobs without a row, and in a restore between
\* a row and its index (statistics_store.py:131) a row has no entry.
SettledAccounts ==
  LET booked == Booked([mem EXCEPT !.rows = Chunk])
  IN Quiet /\ ~seen.overlap =>
       /\ mem.index \ seen.emptied \subseteq booked
       /\ booked \ seen.split \subseteq mem.index
       /\ booked \cap mem.index \subseteq mem.processed
       /\ "models" \notin seen.forgot => booked \cap mem.index \subseteq mem.samples

\* The two files of JobStore (async_load, async_save) never bring an archived
\* job back to life, and lose none unless the user clears the history; a crash
\* in the clear itself is no exception.
NeverLostNorRevived ==
  ~seen.overlap =>
    /\ mem.active \cap (mem.archive \cup ToSet(mem.history)) = {}
    /\ "history" \notin seen.forgot => Jobs = mem.active \cup mem.archive

\* A job that has ended reaches the ledger, whatever crashes in between: every
\* reconcile and every start looks for the ones missing (async_sync_jobs).
\* Only a clear takes it off the list.  In the ledger is in its index:
\* SettledAccounts says when that is a row.
EventuallyBooked ==
  \A j \in Jobs : j \in mem.archive ~> j \in mem.index \/ j \in mem.reset \/ j \notin mem.archive
=============================================================================
