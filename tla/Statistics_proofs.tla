-------------------------- MODULE Statistics_proofs --------------------------
(***************************************************************************)
(* What the statistics rest on: the ledger of the Scheduler's own jobs,    *)
(* for any number of jobs, crashes and requests of the user and any length *)
(* of the operational history, and below (SessionInv) what is written down *)
(* about cleanings somebody else started and about the battery, for any    *)
(* number of runs, restarts and crashes.                                   *)
(*                                                                         *)
(* The ledger.  As long as no request has overlapped a synchronisation one *)
(* party is at work (Exclusive).  Then the memory is ahead of the disk by  *)
(* one entry at most (RowFiles, IndexFiles, ResetFiles); the rows are      *)
(* those of the index, of the entry being made, of the jobs whose index a  *)
(* crash prevented, which the start has before it, and of the jobs split   *)
(* by a crash in a restore, and the index has besides only the jobs whose  *)
(* rows a crash in a clear took (Entries); what is derived from the rows   *)
(* follows the index, unless the start or a restore is about to derive it  *)
(* anew (Derived); and the two files of JobStore never agree to forget a   *)
(* job (Store, Unwritten).                                                 *)
(***************************************************************************)
EXTENDS StatisticsLedger, PhysicalSessions, FiniteSetTheorems, SequenceTheorems, TLAPS

Histories == Seq(Jobs)

StoreType ==
  [active : SUBSET Jobs, history : Histories, archive : SUBSET Jobs, rows : [Jobs -> Nat],
   index : SUBSET Jobs, processed : SUBSET Jobs, used : [Jobs -> Nat], samples : SUBSET Jobs,
   reset : SUBSET Jobs]

Entry == [job : Jobs \cup {"none"}]

EngineType ==
  [step : EngineSteps, boot : BOOLEAN, todo : SUBSET Jobs, job : Entry, rows : [Jobs -> Nat]]

UserType ==
  [step : UserSteps, layers : SUBSET AllLayers, todo : SUBSET Jobs, job : Entry,
   rows : [Jobs -> Nat], restores : BOOLEAN]

SeenType ==
  [torn : SUBSET Jobs, split : SUBSET Jobs, emptied : SUBSET Jobs, overlap : BOOLEAN,
   forgot : SUBSET AllLayers]

\* The job whose row the user's restore is appending.
Restored == user.job.job

Types ==
  /\ mem \in StoreType /\ disk \in StoreType
  /\ loaded \in BOOLEAN
  /\ engine \in EngineType /\ user \in UserType
  /\ backup \subseteq StoreType
  /\ seen \in SeenType
  /\ engine.step \in {"chunk", "index", "water"} => Current \in Jobs
  /\ user.step \in {"chunk", "index"} => Restored \in Jobs

\* The water of a job is not used before it is processed.
WaterSane(s) == \A j \in Jobs : s.used[j] <= 1 /\ (j \notin s.processed => s.used[j] = 0)
Waters == WaterSane(mem) /\ WaterSane(disk) /\ \A b \in backup : WaterSane(b)

-----------------------------------------------------------------------------
\* While nothing overlaps

Exclusive == user.step # "idle" => engine.step = "idle"

Place ==
  /\ engine.step \in {"idle", "jobs", "history"} => engine.todo = {} /\ ~engine.boot
  /\ engine.todo \subseteq mem.archive
  /\ engine.step \in {"chunk", "index"} => Current \in mem.archive \ mem.reset

Path ==
  /\ user.step \in {"append", "chunk", "index", "waterrestore", "lastcontrol", "repair"} =>
       user.restores /\ "statistics" \in user.layers
  /\ user.step \in {"control", "waterclear", "jobs", "archive", "clearmodels"} => ~user.restores
  /\ user.step = "restoremodels" => user.restores
  /\ user.step \in {"chunks", "clearindex"} /\ user.restores => "statistics" \in user.layers

\* One row more than on disk.
Increased(j) == mem.rows = [disk.rows EXCEPT ![j] = @ + 1]

RowFiles ==
  /\ engine.step = "chunk" => loaded /\ engine.rows = mem.rows /\ Increased(Current)
  /\ user.step = "chunk" => loaded /\ user.rows = mem.rows /\ Increased(Restored)
  /\ engine.step # "chunk" /\ user.step # "chunk" => mem.rows = disk.rows

IndexFiles ==
  /\ user.step \notin {"clearindex", "index"} =>
       \/ engine.step = "index" /\ mem.index = disk.index \cup {Current}
       \/ engine.step # "index" /\ mem.index = disk.index
  /\ user.step = "clearindex" => mem.index = {}
  /\ user.step = "index" => mem.index = disk.index \cup {Restored}

ResetFiles == user.step \notin {"control", "lastcontrol"} => disk.reset = mem.reset

\* A row whose index a crash prevented, before the start has appended it again.
Stray(j) ==
  engine.boot /\ engine.step # "models" /\ j \in engine.todo \ mem.reset /\ j \in seen.torn

\* The row is in the chunk, the job not yet in the index.
Half(j) == (engine.step = "chunk" /\ j = Current) \/ (user.step = "chunk" /\ j = Restored)

\* A row that is restored next to one that is there already.
Doubled(j) == user.step = "chunk" /\ j = Restored /\ mem.rows[j] > 1

Entries ==
  \A j \in Jobs :
    /\ j \in mem.index => (mem.rows[j] > 0 \/ j \in seen.emptied) /\ ~Half(j)
    /\ mem.rows[j] > 0 => j \in mem.index \/ Half(j) \/ Stray(j) \/ j \in seen.split
    /\ j \notin seen.torn \cup seen.split => mem.rows[j] <= 1
    /\ Doubled(j) => j \in seen.split

\* The restore has yet to derive the facts of the rows it brings back.
Rebuilding == user.step # "idle" /\ user.restores /\ "statistics" \in user.layers

Derived ==
  (~engine.boot \/ engine.step = "models") /\ ~Rebuilding =>
    \A j \in mem.index : mem.rows[j] > 0 =>
      /\ j \in mem.processed \/ (engine.step = "index" /\ j = Current)
      /\ "models" \notin seen.forgot =>
           j \in mem.samples \/ (engine.step \in {"index", "water"} /\ j = Current)

\* Archived, and in the first file of JobStore only.
Unwritten(j) == j \in mem.archive \ disk.archive

\* No job twice, and those the second file does not have are the latest.
Latest(h) ==
  \A k, l \in DOMAIN h :
    /\ k # l => h[k] # h[l]
    /\ k < l /\ h[k] \notin disk.archive => h[l] \notin disk.archive

Store ==
  /\ mem.active \cap (mem.archive \cup ToSet(mem.history)) = {}
  /\ disk.active \cap (disk.archive \cup ToSet(disk.history)) = {}
  /\ mem.active \subseteq disk.active
  /\ engine.step # "jobs" => disk.active = mem.active /\ disk.history = mem.history
  /\ ToSet(mem.history) \subseteq mem.archive
  /\ \A j \in Jobs : Unwritten(j) => j \in ToSet(mem.history)
  /\ Latest(mem.history) /\ Latest(disk.history)
  /\ "history" \notin seen.forgot =>
       /\ Jobs = mem.active \cup mem.archive
       /\ Jobs = disk.active \cup disk.archive \cup ToSet(disk.history)

Way == Exclusive /\ Place /\ Path
Files == RowFiles /\ IndexFiles /\ ResetFiles
Core == Way /\ Files /\ Entries /\ Derived /\ Store

IInv == Types /\ Waters /\ (~seen.overlap => Core)

-----------------------------------------------------------------------------
\* Operators

LEMMA EmptySet == ToSet(<<>>) = {}
BY DEF ToSet

LEMMA AppendSet ==
  ASSUME NEW s \in Seq(Jobs), NEW j \in Jobs
  PROVE  /\ Append(s, j) \in Seq(Jobs) /\ Len(Append(s, j)) = Len(s) + 1
         /\ \A k \in 1..Len(s) : Append(s, j)[k] = s[k]
         /\ Append(s, j)[Len(s) + 1] = j
         /\ ToSet(Append(s, j)) = ToSet(s) \cup {j}
<1>1. /\ Append(s, j) \in Seq(Jobs) /\ Len(Append(s, j)) = Len(s) + 1
      /\ \A k \in 1..Len(s) : Append(s, j)[k] = s[k]
      /\ Append(s, j)[Len(s) + 1] = j
      /\ Len(s) \in Nat
  OBVIOUS
<1>2. /\ DOMAIN s = 1..Len(s) /\ DOMAIN Append(s, j) = 1..Len(s) + 1
  BY <1>1
<1>3. ASSUME NEW x \in ToSet(Append(s, j))
      PROVE  x \in ToSet(s) \cup {j}
  <2>1. PICK k \in 1..Len(s) + 1 : x = Append(s, j)[k]
    BY <1>2 DEF ToSet
  <2>2. k \in 1..Len(s) \/ k = Len(s) + 1
    BY <1>1
  <2> QED
    BY <1>1, <1>2, <2>1, <2>2 DEF ToSet
<1>4. ASSUME NEW x \in ToSet(s)
      PROVE  x \in ToSet(Append(s, j))
  <2>1. PICK k \in 1..Len(s) : x = s[k]
    BY <1>2 DEF ToSet
  <2>2. k \in DOMAIN Append(s, j) /\ x = Append(s, j)[k]
    BY <1>1, <1>2, <2>1
  <2> QED
    BY <2>2 DEF ToSet
<1>5. j \in ToSet(Append(s, j))
  <2>1. Len(s) + 1 \in DOMAIN Append(s, j)
    BY <1>1, <1>2
  <2> QED
    BY <1>1, <2>1 DEF ToSet
<1> QED
  BY <1>1, <1>3, <1>4, <1>5

LEMMA TailSet ==
  ASSUME NEW s \in Seq(Jobs), s # <<>>
  PROVE  /\ Tail(s) \in Seq(Jobs) /\ Len(s) \in Nat \ {0} /\ Len(Tail(s)) = Len(s) - 1
         /\ \A k \in 1..Len(s) - 1 : Tail(s)[k] = s[k + 1]
         /\ ToSet(s) = ToSet(Tail(s)) \cup {s[1]}
<1>1. /\ Tail(s) \in Seq(Jobs) /\ Len(s) \in Nat \ {0} /\ Len(Tail(s)) = Len(s) - 1
      /\ \A k \in 1..Len(s) - 1 : Tail(s)[k] = s[k + 1]
  OBVIOUS
<1>2. DOMAIN s = 1..Len(s) /\ DOMAIN Tail(s) = 1..Len(s) - 1
  BY <1>1
<1>3. ASSUME NEW x \in ToSet(s)
      PROVE  x \in ToSet(Tail(s)) \cup {s[1]}
  <2>1. PICK k \in 1..Len(s) : x = s[k]
    BY <1>2 DEF ToSet
  <2>2. CASE k = 1
    BY <2>1, <2>2
  <2>3. CASE k # 1
    <3>1. k - 1 \in DOMAIN Tail(s) /\ Tail(s)[k - 1] = x
      BY <1>1, <1>2, <2>1, <2>3
    <3> QED
      BY <3>1 DEF ToSet
  <2> QED
    BY <2>2, <2>3
<1>4. ASSUME NEW x \in ToSet(Tail(s))
      PROVE  x \in ToSet(s)
  <2>1. PICK k \in 1..Len(s) - 1 : x = Tail(s)[k]
    BY <1>2 DEF ToSet
  <2>2. k + 1 \in DOMAIN s /\ x = s[k + 1]
    BY <1>1, <1>2, <2>1
  <2> QED
    BY <2>2 DEF ToSet
<1>5. s[1] \in ToSet(s)
  <2>1. 1 \in DOMAIN s
    BY <1>1, <1>2
  <2> QED
    BY <2>1 DEF ToSet
<1> QED
  BY <1>1, <1>3, <1>4, <1>5

LEMMA SetOf ==
  ASSUME NEW s \in Seq(Jobs)
  PROVE  ToSet(s) \subseteq Jobs
BY DEF ToSet

-----------------------------------------------------------------------------
\* Types

LEMMA EmptyType == Empty \in StoreType /\ WaterSane(Empty)
BY EmptySet DEF Empty, StoreType, Histories, Nothing, WaterSane

LEMMA ChunkType ==
  ASSUME Types
  PROVE  Chunk \in [Jobs -> Nat]
BY DEF Types, StoreType, Chunk

LEMMA TypesInit == Init => Types
BY EmptyType DEF Init, Types, EngineType, UserType, SeenType, AtRest, NoRequest, Entry, None,
  Nothing, EngineSteps, UserSteps, AllLayers, Current, Restored

LEMMA ArchivedType ==
  ASSUME NEW s \in StoreType, NEW j \in Jobs
  PROVE  /\ Archived(s, j) \in StoreType
         /\ Archived(s, j) =
              [s EXCEPT !.active = s.active \ {j}, !.archive = s.archive \cup {j},
                        !.history = IF Len(s.history) < HistoryLimit THEN Append(s.history, j)
                                    ELSE Append(Tail(s.history), j)]
<1> DEFINE h == IF Len(s.history) < HistoryLimit THEN Append(s.history, j)
                ELSE Append(Tail(s.history), j)
<1>1. s.history \in Seq(Jobs) /\ Len(s.history) \in Nat
  BY DEF StoreType, Histories
<1>2. HistoryLimit \in Nat \ {0}
  BY LedgerAssumption
<1>3. ~(Len(s.history) < HistoryLimit) => s.history # <<>>
  BY <1>1, <1>2
<1>4. h \in Histories
  BY <1>1, <1>3, AppendSet, TailSet DEF Histories
<1>5. Archived(s, j) = [s EXCEPT !.active = s.active \ {j}, !.archive = s.archive \cup {j},
                                 !.history = h]
  BY DEF Archived, StoreType
<1>6. Archived(s, j) \in StoreType
  <2> DEFINE A == s.active \ {j}
             B == s.archive \cup {j}
  <2>1. A \in SUBSET Jobs /\ B \in SUBSET Jobs
    BY DEF StoreType
  <2>2. Archived(s, j) = [s EXCEPT !.active = A, !.archive = B, !.history = h]
    BY <1>5
  <2> HIDE DEF A, B, h
  <2>3. [s EXCEPT !.active = A, !.archive = B, !.history = h] \in StoreType
    BY <1>4, <2>1 DEF StoreType
  <2> QED
    BY <2>2, <2>3
<1> QED
  BY <1>5, <1>6

\* What is not touched by a change of the water facts.
SameBooks(s, r) ==
  /\ r.active = s.active /\ r.history = s.history /\ r.archive = s.archive
  /\ r.rows = s.rows /\ r.index = s.index /\ r.reset = s.reset

LEMMA WaterRecordedIs ==
  ASSUME NEW s \in StoreType, NEW j \in Jobs
  PROVE  LET r == WaterRecorded(s, j)
         IN  /\ r \in StoreType /\ SameBooks(s, r) /\ r.samples = s.samples
             /\ r.processed = s.processed \cup {j}
             /\ WaterSane(s) => WaterSane(r)
<1>1. CASE j \in s.processed
  BY <1>1 DEF WaterRecorded, SameBooks, StoreType
<1>2. CASE j \notin s.processed
  <2> DEFINE u == [s.used EXCEPT ![j] = @ + 1]
             c == s.processed \cup {j}
  <2>1. u \in [Jobs -> Nat] /\ c \in SUBSET Jobs
    BY DEF StoreType
  <2>2. WaterRecorded(s, j) = [s EXCEPT !.processed = c, !.used = u]
    BY <1>2 DEF WaterRecorded, StoreType
  <2>3. \A l \in Jobs : u[l] = IF l = j THEN s.used[l] + 1 ELSE s.used[l]
    BY DEF StoreType
  <2>4. WaterSane(s) => \A l \in Jobs : u[l] <= 1 /\ (l \notin c => u[l] = 0)
    BY <1>2, <2>3 DEF WaterSane
  <2> HIDE DEF u
  <2>5. [s EXCEPT !.processed = c, !.used = u] \in StoreType
    BY <2>1 DEF StoreType
  <2> QED
    BY <2>1, <2>2, <2>4, <2>5 DEF SameBooks, WaterSane, StoreType
<1> QED
  BY <1>1, <1>2

LEMMA BootRecordsIs ==
  ASSUME NEW s \in StoreType
  PROVE  LET r == BootRecords(s)
         IN  /\ r \in StoreType /\ SameBooks(s, r)
             /\ r.processed = s.processed \cup Booked(s) /\ r.samples = s.samples \cup Booked(s)
             /\ WaterSane(s) => WaterSane(r)
<1> DEFINE u == [j \in Jobs |-> IF j \in Booked(s) \ s.processed THEN s.used[j] + 1 ELSE s.used[j]]
           c == s.processed \cup Booked(s)
           m == s.samples \cup Booked(s)
<1>1. u \in [Jobs -> Nat] /\ c \in SUBSET Jobs /\ m \in SUBSET Jobs
  BY DEF StoreType, Booked
<1>2. BootRecords(s) = [s EXCEPT !.processed = c, !.used = u, !.samples = m]
  BY DEF BootRecords, StoreType
<1>3. WaterSane(s) => \A l \in Jobs : u[l] <= 1 /\ (l \notin c => u[l] = 0)
  BY DEF WaterSane
<1> HIDE DEF u, c, m
<1>4. [s EXCEPT !.processed = c, !.used = u, !.samples = m] \in StoreType
  BY <1>1 DEF StoreType
<1>5. LET r == BootRecords(s)
      IN  /\ r \in StoreType /\ SameBooks(s, r) /\ r.processed = c /\ r.samples = m
          /\ WaterSane(s) => WaterSane(r)
  BY <1>1, <1>2, <1>3, <1>4 DEF SameBooks, WaterSane, StoreType
<1> QED
  BY <1>5 DEF c, m

LEMMA WaterRepairedIs ==
  ASSUME NEW s \in StoreType, NEW S \in SUBSET Jobs
  PROVE  LET r == WaterRepaired(s, S)
         IN  /\ r \in StoreType /\ SameBooks(s, r) /\ r.samples = s.samples
             /\ r.processed = s.processed \cup S
             /\ WaterSane(s) => WaterSane(r)
<1> DEFINE u == [j \in Jobs |-> IF j \in S THEN 1 ELSE s.used[j]]
           c == s.processed \cup S
<1>1. u \in [Jobs -> Nat] /\ c \in SUBSET Jobs
  BY DEF StoreType
<1>2. WaterRepaired(s, S) = [s EXCEPT !.processed = c, !.used = u]
  BY DEF WaterRepaired, StoreType
<1>3. WaterSane(s) => \A l \in Jobs : u[l] <= 1 /\ (l \notin c => u[l] = 0)
  BY DEF WaterSane
<1> HIDE DEF u, c
<1>4. [s EXCEPT !.processed = c, !.used = u] \in StoreType
  BY <1>1 DEF StoreType
<1>5. LET r == WaterRepaired(s, S)
      IN  /\ r \in StoreType /\ SameBooks(s, r) /\ r.processed = c /\ r.samples = s.samples
          /\ WaterSane(s) => WaterSane(r)
  BY <1>1, <1>2, <1>3, <1>4 DEF SameBooks, WaterSane, StoreType
<1> QED
  BY <1>5 DEF c

LEMMA TypesEngine ==
  ASSUME Types, Engine
  PROVE  Types'
<1>1. ASSUME SaveJobs \/ SaveHistory \/ Reconcile \/ EndSync
      PROVE  Types'
  <2>1. CASE SaveJobs
    BY <2>1 DEF Types, SaveJobs, StoreType, EngineType, SeenType,
    Saved, AtRest, Entry, None, Nothing, EngineSteps, Current, Restored
  <2>2. CASE SaveHistory
    BY <2>2 DEF Types, SaveHistory, StoreType, EngineType, SeenType,
    Saved, AtRest, Entry, None, Nothing, EngineSteps, Current, Restored
  <2>3. CASE Reconcile
    BY <2>3 DEF Types, Reconcile, StoreType, EngineType, SeenType,
    Saved, AtRest, Entry, None, Nothing, EngineSteps, Current, Restored
  <2>4. CASE EndSync
    BY <2>4 DEF Types, EndSync, StoreType, EngineType, SeenType,
    Saved, AtRest, Entry, None, Nothing, EngineSteps, Current, Restored
  <2> QED
    BY <1>1, <2>1, <2>2, <2>3, <2>4
<1>2. ASSUME BootEnds
      PROVE  Types'
  <2> DEFINE s == [mem EXCEPT !.rows = Chunk]
  <2>1. s \in StoreType
    BY ChunkType DEF Types, StoreType
  <2>2. BootRecords(s) \in StoreType
    <3> HIDE DEF s
    <3> QED
      BY <2>1, BootRecordsIs
  <2>3. mem' = BootRecords(s)
    BY <1>2 DEF BootEnds
  <2> HIDE DEF s
  <2>4. mem' \in StoreType
    BY <2>2, <2>3
  <2> QED
    BY <1>2, <2>4 DEF Types, BootEnds, EngineType, EngineSteps, Current, Restored, StoreType
<1>3. ASSUME NEW j \in Jobs, AppendRow(j)
      PROVE  Types'
  <2>1. [Chunk EXCEPT ![j] = @ + 1] \in [Jobs -> Nat]
    BY ChunkType
  <2> QED
    BY <1>3, <2>1 DEF Types, AppendRow, EngineType, EngineSteps, Current, Restored, StoreType,
      SeenType, Entry
<1>4. ASSUME ChunkSaved \/ IndexSaved \/ WaterSaved \/ ModelsSaved
      PROVE  Types'
  <2>1. CASE ChunkSaved
    BY <2>1 DEF Types, ChunkSaved, EngineType, EngineSteps,
    Current, Restored, StoreType, Entry, WaterRecorded, AtRest, None, Nothing
  <2>2. CASE IndexSaved
    <3>1. WaterRecorded(mem, Current) \in StoreType
      BY <2>2, WaterRecordedIs DEF IndexSaved, Types
    <3>2. mem' \in StoreType
      BY <2>2, <3>1 DEF IndexSaved
    <3> QED
      BY <2>2, <3>2 DEF Types, IndexSaved, EngineType, EngineSteps, Current, Restored, StoreType
  <2>3. CASE WaterSaved
    BY <2>3 DEF Types, WaterSaved, EngineType, EngineSteps,
    Current, Restored, StoreType, Entry, WaterRecorded, AtRest, None, Nothing
  <2>4. CASE ModelsSaved
    BY <2>4 DEF Types, ModelsSaved, EngineType, EngineSteps,
    Current, Restored, StoreType, Entry, WaterRecorded, AtRest, None, Nothing
  <2> QED
    BY <1>4, <2>1, <2>2, <2>3, <2>4
<1> QED
  BY <1>1, <1>2, <1>3, <1>4 DEF Engine

LEMMA TypesHandler ==
  ASSUME Types, Handler
  PROVE  Types'
<1>1. ASSUME ControlSaved \/ ChunksRemoved \/ IndexCleared \/ WaterCleared
      PROVE  Types'
  <2>1. CASE ControlSaved
    BY <2>1 DEF Types, ControlSaved, UserType, UserSteps,
    Current, Restored, StoreType, Nothing, Done, ClearFrom
  <2>2. CASE ChunksRemoved
    BY <2>2 DEF Types, ChunksRemoved, UserType, UserSteps,
    Current, Restored, StoreType, Nothing, Done, ClearFrom
  <2>3. CASE IndexCleared
    BY <2>3 DEF Types, IndexCleared, UserType, UserSteps,
    Current, Restored, StoreType, Nothing, Done, ClearFrom
  <2>4. CASE WaterCleared
    BY <2>4 DEF Types, WaterCleared, UserType, UserSteps,
    Current, Restored, StoreType, Nothing, Done, ClearFrom
  <2> QED
    BY <1>1, <2>1, <2>2, <2>3, <2>4
<1>2. ASSUME HistoryCleared \/ ArchiveCleared \/ ModelsCleared
      PROVE  Types'
  <2>1. CASE HistoryCleared
    <3>1. <<>> \in Histories
      BY DEF Histories
    <3>2. mem' \in StoreType
      BY <2>1, <3>1 DEF Types, HistoryCleared, StoreType
    <3>3. disk' \in StoreType
      BY <2>1, <3>2 DEF Types, HistoryCleared, StoreType, Saved
    <3> QED
      BY <2>1, <3>2, <3>3 DEF Types, HistoryCleared, UserType, UserSteps, SeenType,
        AllLayers, Current, Restored
  <2>2. CASE ArchiveCleared
    BY <2>2 DEF Types, ArchiveCleared, UserType, UserSteps, SeenType,
    Current, Restored, StoreType, Nothing, Done, ClearFrom, Saved, NoRequest, AllLayers, Entry, None
  <2>3. CASE ModelsCleared
    BY <2>3 DEF Types, ModelsCleared, UserType, UserSteps, SeenType,
    Current, Restored, StoreType, Nothing, Done, ClearFrom, Saved, NoRequest, AllLayers, Entry, None
  <2> QED
    BY <1>2, <2>1, <2>2, <2>3
<1>3. ASSUME RestoredChunkSaved \/ RestoredIndexSaved \/ ControlRestored
      PROVE  Types'
  <2>1. CASE RestoredChunkSaved
    BY <2>1 DEF Types, RestoredChunkSaved, UserType, UserSteps,
    Current, Restored, StoreType
  <2>2. CASE RestoredIndexSaved
    BY <2>2 DEF Types, RestoredIndexSaved, UserType, UserSteps,
    Current, Restored, StoreType
  <2>3. CASE ControlRestored
    BY <2>3 DEF Types, ControlRestored, UserType, UserSteps,
    Current, Restored, StoreType
  <2> QED
    BY <1>3, <2>1, <2>2, <2>3
<1>4. ASSUME RepairAfterRestore
      PROVE  Types'
  <2> DEFINE S == Booked([mem EXCEPT !.rows = Chunk])
  <2>1. S \subseteq Jobs
    BY DEF Booked
  <2>2. mem' = WaterRepaired(mem, S)
    BY <1>4 DEF RepairAfterRestore
  <2> HIDE DEF S
  <2>3. mem' \in StoreType
    BY <2>1, <2>2, WaterRepairedIs DEF Types
  <2> QED
    BY <1>4, <2>3 DEF Types, RepairAfterRestore, UserType, UserSteps, SeenType, NoRequest, AllLayers,
      Entry, None, Current, Restored, StoreType, Nothing
<1>5. ASSUME NEW b \in backup, RowsRestored(b) \/ WaterRestored(b) \/ ModelsRestored(b)
      PROVE  Types'
  <2>1. b \in StoreType
    BY DEF Types
  <2>2. CASE RowsRestored(b)
    BY <2>1, <2>2 DEF Types, RowsRestored, UserType, UserSteps, Current, Restored, StoreType
  <2>3. CASE WaterRestored(b)
    BY <2>1, <2>3 DEF Types, WaterRestored, UserType, UserSteps, Current, Restored, StoreType
  <2>4. CASE ModelsRestored(b)
    BY <2>1, <2>4 DEF Types, ModelsRestored, UserType, UserSteps, SeenType, NoRequest, AllLayers,
      Entry, None, Current, Restored, StoreType, Nothing
  <2> QED
    BY <1>5, <2>2, <2>3, <2>4
<1>6. ASSUME NEW b \in backup, NEW j \in Jobs, RestoreRow(b, j)
      PROVE  Types'
  <2>1. [Chunk EXCEPT ![j] = @ + 1] \in [Jobs -> Nat]
    BY ChunkType
  <2> QED
    BY <1>6, <2>1 DEF Types, RestoreRow, UserType, UserSteps, Current, Restored, StoreType, Entry
<1> QED
  BY <1>1, <1>2, <1>3, <1>4, <1>5, <1>6 DEF Handler

LEMMA LoadedType ==
  ASSUME NEW d \in StoreType
  PROVE  Loaded(d) \in StoreType
<1>1. ToSet(d.history) \subseteq Jobs
  BY SetOf DEF StoreType, Histories
<1> QED
  BY <1>1 DEF Loaded, StoreType

\* The requests of the user, the end of a job, and the crash.
Outside ==
  \/ \E j \in Jobs : EndJob(j)
  \/ TakeBackup
  \/ \E layers \in Layers : Clear(layers)
  \/ \E layers \in Layers, b \in backup : Restore(b, layers)
  \/ Crash

LEMMA TypesOutside ==
  ASSUME Types, Outside
  PROVE  Types'
<1>1. ASSUME NEW j \in Jobs, EndJob(j)
      PROVE  Types'
  <2>1. mem' \in StoreType
    BY <1>1, ArchivedType DEF EndJob, Types
  <2> QED
    BY <1>1, <2>1 DEF Types, EndJob, EngineType, EngineSteps, SeenType, Current, Restored
<1>2. ASSUME TakeBackup
      PROVE  Types'
  <2>1. Exported \in StoreType
    <3>1. Visible([mem EXCEPT !.rows = Chunk]) \in [Jobs -> Nat]
      BY ChunkType DEF Visible, Types, StoreType, Nothing
    <3> QED
      BY <3>1 DEF Exported, Types, StoreType
  <2> QED
    BY <1>2, <2>1 DEF Types, TakeBackup, Current, Restored
<1>3. ASSUME NEW layers \in Layers, Clear(layers)
      PROVE  Types'
  <2>1. layers \in SUBSET AllLayers
    BY LedgerAssumption
  <2>2. ClearFrom(layers) \in UserSteps /\ ClearFrom(layers) \notin {"chunk", "index"}
    BY DEF ClearFrom, UserSteps
  <2>3. user' \in UserType /\ user'.step \notin {"chunk", "index"}
    BY <1>3, <2>1, <2>2 DEF Clear, Request, UserType, NoRequest, Entry, None, Nothing
  <2>4. mem' \in StoreType
    BY <1>3 DEF Types, Clear, StoreType
  <2>5. seen' \in SeenType
    BY <1>3 DEF Types, Clear, Request, SeenType
  <2> QED
    BY <1>3, <2>3, <2>4, <2>5 DEF Types, Clear, Request, Current
<1>4. ASSUME NEW layers \in Layers, NEW b \in backup, Restore(b, layers)
      PROVE  Types'
  <2>1. layers \in SUBSET AllLayers
    BY LedgerAssumption
  <2>2. PICK step : step = IF "history" \in layers /\ ~HistoryRestores(b) THEN "idle" ELSE RestoreFrom(layers)
    OBVIOUS
  <2>3. step \in UserSteps /\ step \notin {"chunk", "index"}
    BY <2>2 DEF RestoreFrom, UserSteps
  <2>4. user' = [NoRequest EXCEPT !.step = step, !.layers = layers, !.restores = TRUE]
    BY <1>4, <2>2 DEF Restore, Request
  <2>5. user' \in UserType /\ user'.step \notin {"chunk", "index"}
    BY <2>1, <2>3, <2>4 DEF UserType, NoRequest, Entry, None, Nothing
  <2>6. seen' \in SeenType
    BY <1>4 DEF Types, Restore, Request, SeenType
  <2> QED
    BY <1>4, <2>5, <2>6 DEF Types, Restore, Request, Current
<1>5. ASSUME Crash
      PROVE  Types'
  <2>1. mem' \in StoreType
    BY <1>5, LoadedType DEF Crash, Types
  <2>2. Loaded(disk).archive \in SUBSET Jobs
    BY LoadedType DEF Types, StoreType
  <2> DEFINE t == IF engine.step = "index" THEN seen.torn \cup {Current} ELSE seen.torn
             u == IF user.step = "index" THEN seen.split \cup {Restored} ELSE seen.split
             e == IF user.step = "clearindex" THEN seen.emptied \cup disk.index ELSE seen.emptied
             f == seen.forgot \ {"models"}
  <2>7. t \in SUBSET Jobs /\ u \in SUBSET Jobs /\ e \in SUBSET Jobs /\ f \in SUBSET AllLayers
    BY DEF Types, SeenType, StoreType
  <2>8. seen' = [seen EXCEPT !.torn = t, !.split = u, !.emptied = e, !.forgot = f]
    BY <1>5 DEF Crash, Restored
  <2>3. seen' \in SeenType
    <3> HIDE DEF t, u, e, f
    <3> QED
      BY <2>7, <2>8 DEF Types, SeenType
  <2>4. engine' \in EngineType
    BY <1>5, <2>2 DEF Crash, AtRest, EngineType, EngineSteps, Entry, None, Nothing
  <2>5. user' \in UserType
    BY <1>5 DEF Crash, NoRequest, UserType, UserSteps, Entry, None, Nothing
  <2>6. engine'.step = "sync" /\ user'.step = "idle"
    BY <1>5 DEF Crash, AtRest, NoRequest
  <2> QED
    BY <1>5, <2>1, <2>3, <2>4, <2>5, <2>6 DEF Types, Crash, Current, Restored
<1> QED
  BY <1>1, <1>2, <1>3, <1>4, <1>5 DEF Outside

LEMMA TypesStep ==
  ASSUME Types, [Next]_vars
  PROVE  Types'
<1>1. CASE UNCHANGED vars
  BY <1>1 DEF vars, Types, Current, Restored
<1> QED
  BY <1>1, TypesEngine, TypesHandler, TypesOutside DEF Next, Outside

-----------------------------------------------------------------------------
\* Water

SameWater(s, r) == r.used = s.used /\ r.processed = s.processed

LEMMA WaterSame ==
  ASSUME NEW s, NEW r, WaterSane(s), SameWater(s, r)
  PROVE  WaterSane(r)
BY DEF WaterSane, SameWater

LEMMA WatersEngine ==
  ASSUME Types, Waters, Engine
  PROVE  Waters'
<1>1. backup' = backup
  BY DEF Engine, SaveJobs, SaveHistory, Reconcile, EndSync, BootEnds, AppendRow, ChunkSaved,
    IndexSaved, WaterSaved, ModelsSaved
<1>2. ASSUME SaveJobs \/ SaveHistory \/ Reconcile \/ EndSync \/ ModelsSaved
      PROVE  SameWater(mem, mem') /\ SameWater(disk, disk')
  BY <1>2 DEF SaveJobs, SaveHistory, Reconcile, EndSync, ModelsSaved, SameWater, Saved, Types,
    StoreType
<1>3. ASSUME ChunkSaved \/ \E j \in Jobs : AppendRow(j)
      PROVE  SameWater(mem, mem') /\ SameWater(disk, disk')
  BY <1>3 DEF ChunkSaved, AppendRow, SameWater, Types, StoreType
<1>4. ASSUME IndexSaved
      PROVE  WaterSane(mem') /\ SameWater(disk, disk')
  <2>1. Current \in Jobs /\ mem \in StoreType /\ WaterSane(mem) /\ mem' = WaterRecorded(mem, Current)
    BY <1>4 DEF IndexSaved, Types, Waters
  <2>2. WaterSane(mem')
    BY <2>1, WaterRecordedIs
  <2> QED
    BY <1>4, <2>2 DEF IndexSaved, SameWater, Types, StoreType
<1>5. ASSUME WaterSaved
      PROVE  SameWater(mem, mem') /\ SameWater(mem, disk')
  BY <1>5 DEF WaterSaved, SameWater, Types, StoreType
<1>6. ASSUME BootEnds
      PROVE  WaterSane(mem') /\ SameWater(mem', disk')
  <2> DEFINE s == [mem EXCEPT !.rows = Chunk]
  <2>1. s \in StoreType /\ SameWater(mem, s)
    BY ChunkType DEF Types, StoreType, SameWater
  <2>2. mem' = BootRecords(s)
    BY <1>6 DEF BootEnds
  <2> HIDE DEF s
  <2>3. WaterSane(s)
    BY <2>1, WaterSame DEF Waters
  <2>4. WaterSane(mem')
    BY <2>1, <2>2, <2>3, BootRecordsIs
  <2>5. SameWater(mem', disk')
    BY <1>6 DEF BootEnds, SameWater, Types, StoreType
  <2> QED
    BY <2>4, <2>5
<1> QED
  BY <1>1, <1>2, <1>3, <1>4, <1>5, <1>6, WaterSame DEF Engine, Waters

LEMMA WatersHandler ==
  ASSUME Types, Waters, Handler
  PROVE  Waters'
<1>1. backup' = backup
  BY DEF Handler, ControlSaved, ChunksRemoved, IndexCleared, WaterCleared, HistoryCleared,
    ArchiveCleared, ModelsCleared, RestoredChunkSaved, RestoredIndexSaved, ControlRestored,
    RepairAfterRestore, RowsRestored, WaterRestored, ModelsRestored, RestoreRow
<1>2. ASSUME \/ ControlSaved \/ ChunksRemoved \/ RestoredChunkSaved \/ RestoredIndexSaved
             \/ ControlRestored \/ \E b \in backup, j \in Jobs : RestoreRow(b, j)
      PROVE  SameWater(mem, mem') /\ SameWater(disk, disk')
  BY <1>2 DEF ControlSaved, ChunksRemoved, RestoredChunkSaved, RestoredIndexSaved, ControlRestored,
    RestoreRow, SameWater, Types, StoreType
<1>3. ASSUME HistoryCleared \/ ArchiveCleared \/ ModelsCleared \/ \E b \in backup : ModelsRestored(b)
      PROVE  SameWater(mem, mem') /\ SameWater(disk, disk')
  BY <1>3 DEF HistoryCleared, ArchiveCleared, ModelsCleared, ModelsRestored, Saved, SameWater, Types,
    StoreType
<1>4. ASSUME IndexCleared
      PROVE  WaterSane(mem') /\ SameWater(disk, disk')
  BY <1>4 DEF IndexCleared, SameWater, Types, StoreType, Waters, WaterSane, Nothing
<1>5. ASSUME WaterCleared
      PROVE  SameWater(mem, mem') /\ SameWater(mem, disk')
  BY <1>5 DEF WaterCleared, SameWater, Types, StoreType
<1>6. ASSUME NEW b \in backup, RowsRestored(b)
      PROVE  SameWater(b, mem') /\ SameWater(disk, disk')
  BY <1>6 DEF RowsRestored, SameWater, Types, StoreType
<1>7. ASSUME NEW b \in backup, WaterRestored(b)
      PROVE  SameWater(mem, mem') /\ SameWater(mem, disk')
  BY <1>7 DEF WaterRestored, SameWater, Types, StoreType
<1>8. ASSUME RepairAfterRestore
      PROVE  WaterSane(mem') /\ SameWater(mem', disk')
  <2> DEFINE S == Booked([mem EXCEPT !.rows = Chunk])
  <2>1. S \in SUBSET Jobs
    BY DEF Booked
  <2>2. mem' = WaterRepaired(mem, S)
    BY <1>8 DEF RepairAfterRestore
  <2> HIDE DEF S
  <2>3. WaterSane(mem')
    BY <2>1, <2>2, WaterRepairedIs DEF Types, Waters
  <2> QED
    BY <1>8, <2>3 DEF RepairAfterRestore, SameWater, Types, StoreType
<1>9. ASSUME NEW b \in backup, RowsRestored(b)
      PROVE  WaterSane(mem') /\ WaterSane(disk')
  BY <1>6, <1>9, WaterSame DEF Waters
<1> QED
  BY <1>1, <1>2, <1>3, <1>4, <1>5, <1>7, <1>8, <1>9, WaterSame DEF Handler, Waters

LEMMA WatersOutside ==
  ASSUME Types, Waters, Outside
  PROVE  Waters'
<1>1. ASSUME NEW j \in Jobs, EndJob(j)
      PROVE  SameWater(mem, mem') /\ disk' = disk /\ backup' = backup
  BY <1>1 DEF EndJob, Archived, SameWater, Types, StoreType
<1>2. ASSUME TakeBackup
      PROVE  mem' = mem /\ disk' = disk /\ backup' = {Exported} /\ SameWater(mem, Exported)
  BY <1>2 DEF TakeBackup, Exported, SameWater, Types, StoreType
<1>3. ASSUME \/ \E layers \in Layers : Clear(layers)
             \/ \E layers \in Layers, b \in backup : Restore(b, layers)
      PROVE  SameWater(mem, mem') /\ disk' = disk /\ backup' = backup
  BY <1>3 DEF Clear, Restore, Request, SameWater, Types, StoreType
<1>4. ASSUME Crash
      PROVE  SameWater(disk, mem') /\ disk' = disk /\ backup' = backup
  BY <1>4 DEF Crash, Loaded, SameWater, Types, StoreType
<1> QED
  BY <1>1, <1>2, <1>3, <1>4, WaterSame DEF Outside, Waters

LEMMA WatersStep ==
  ASSUME Types, Waters, [Next]_vars
  PROVE  Waters'
<1>1. CASE UNCHANGED vars
  BY <1>1 DEF vars, Waters
<1> QED
  BY <1>1, WatersEngine, WatersHandler, WatersOutside DEF Next, Outside

-----------------------------------------------------------------------------
\* Who is at work

LEMMA OverlapStays ==
  ASSUME Types, [Next]_vars, ~seen'.overlap
  PROVE  ~seen.overlap
<1>1. seen \in SeenType
  BY DEF Types
<1>2. ASSUME Engine
      PROVE  ~seen.overlap
  BY <1>1, <1>2 DEF Engine, SaveJobs, SaveHistory, Reconcile, EndSync, BootEnds, AppendRow,
    ChunkSaved, IndexSaved, WaterSaved, ModelsSaved, SeenType
<1>3. ASSUME Handler
      PROVE  ~seen.overlap
  BY <1>1, <1>3 DEF Handler, ControlSaved, ChunksRemoved, IndexCleared, WaterCleared,
    HistoryCleared, ArchiveCleared, ModelsCleared, RestoredChunkSaved, RestoredIndexSaved,
    ControlRestored, RepairAfterRestore, RowsRestored, WaterRestored, ModelsRestored, RestoreRow,
    SeenType
<1>4. ASSUME Outside
      PROVE  ~seen.overlap
  BY <1>1, <1>4 DEF Outside, EndJob, TakeBackup, Clear, Restore, Request, Crash, SeenType
<1> QED
  BY <1>2, <1>3, <1>4 DEF Next, Outside, vars

LEMMA EngineAlone ==
  ASSUME Types, Exclusive, Engine, ~seen'.overlap
  PROVE  user.step = "idle" /\ user' = user
<1>1. seen \in SeenType
  BY DEF Types
<1>2. user' = user
  BY DEF Engine, SaveJobs, SaveHistory, Reconcile, EndSync, BootEnds, AppendRow, ChunkSaved,
    IndexSaved, WaterSaved, ModelsSaved
<1>3. Reconcile \/ engine.step # "idle"
  BY DEF Engine, SaveJobs, SaveHistory, EndSync, BootEnds, AppendRow, ChunkSaved,
    IndexSaved, WaterSaved, ModelsSaved, Synchronised
<1>4. Reconcile => user.step = "idle"
  BY <1>1 DEF Reconcile, SeenType
<1> QED
  BY <1>2, <1>3, <1>4 DEF Exclusive

LEMMA HandlerAlone ==
  ASSUME Exclusive, Place, Handler
  PROVE  user.step # "idle" /\ engine.step = "idle" /\ ~engine.boot /\ engine.todo = {}
         /\ engine' = engine
<1>1. user.step # "idle" /\ engine' = engine
  BY DEF Handler, ControlSaved, ChunksRemoved, IndexCleared, WaterCleared,
    HistoryCleared, ArchiveCleared, ModelsCleared, RestoredChunkSaved, RestoredIndexSaved,
    ControlRestored, RepairAfterRestore, RowsRestored, WaterRestored, ModelsRestored, RestoreRow
<1> QED
  BY <1>1 DEF Exclusive, Place

LEMMA OutsideAlone ==
  ASSUME Types, Place, Outside, ~seen'.overlap
  PROVE  TakeBackup \/ Crash \/ user.step = "idle"
<1>1. seen \in SeenType
  BY DEF Types
<1> QED
  BY <1>1 DEF Outside, EndJob, Clear, Restore, Request, SeenType

LEMMA RequestAlone ==
  ASSUME Types, Place, NEW layers, NEW step, NEW restores, Request(layers, step, restores),
         ~seen'.overlap
  PROVE  user.step = "idle" /\ engine.step = "idle" /\ ~engine.boot /\ engine.todo = {}
<1>1. seen \in SeenType
  BY DEF Types
<1> QED
  BY <1>1 DEF Request, SeenType, Place

LEMMA WayEngine ==
  ASSUME Types, Way, Engine, ~seen'.overlap
  PROVE  Way'
<1>1. user.step = "idle" /\ user' = user
  BY EngineAlone DEF Way
<1>2. Exclusive' /\ Path'
  BY <1>1 DEF Exclusive, Path
<1>3. Place'
  <2>0. engine \in EngineType /\ mem \in StoreType
    BY DEF Types
  <2>1. CASE SaveJobs
    BY <2>0, <2>1 DEF SaveJobs, Way, Place, EngineType, Current
  <2>2. CASE SaveHistory
    BY <2>0, <2>2 DEF SaveHistory, Way, Place, EngineType, Current
  <2>3. CASE Reconcile
    BY <2>0, <2>3 DEF Reconcile, Way, Place, EngineType, Current
  <2>4. CASE EndSync
    BY <2>0, <2>4 DEF EndSync, Way, Place, EngineType, Current, AtRest
  <2>5. CASE BootEnds
    <3> DEFINE s == [mem EXCEPT !.rows = Chunk]
    <3>1. s \in StoreType /\ s.archive = mem.archive
      BY ChunkType DEF Types, StoreType
    <3>2. mem' = BootRecords(s)
      BY <2>5 DEF BootEnds
    <3> HIDE DEF s
    <3>3. mem'.archive = mem.archive
      BY <3>1, <3>2, BootRecordsIs DEF SameBooks
    <3> QED
      BY <2>0, <2>5, <3>3 DEF BootEnds, Way, Place, EngineType, Current
  <2>6. ASSUME NEW j \in Jobs, AppendRow(j)
        PROVE  Place'
    BY <2>0, <2>6 DEF AppendRow, AfterReset, Way, Place, EngineType, StoreType, Current
  <2>7. CASE ChunkSaved
    BY <2>0, <2>7 DEF ChunkSaved, Way, Place, EngineType, StoreType, Current
  <2>8. CASE IndexSaved
    <3>1. mem'.archive = mem.archive
      BY <2>8, WaterRecordedIs DEF IndexSaved, Types, SameBooks
    <3> QED
      BY <2>0, <2>8, <3>1 DEF IndexSaved, Way, Place, EngineType, Current
  <2>9. CASE WaterSaved
    BY <2>0, <2>9 DEF WaterSaved, Way, Place, EngineType, StoreType, Current
  <2>10. CASE ModelsSaved
    BY <2>0, <2>10 DEF ModelsSaved, Way, Place, EngineType, StoreType, Current, AtRest
  <2> QED
    BY <2>1, <2>2, <2>3, <2>4, <2>5, <2>6, <2>7, <2>8, <2>9, <2>10 DEF Engine
<1> QED
  BY <1>2, <1>3 DEF Way

LEMMA WayHandler ==
  ASSUME Types, Way, Handler
  PROVE  Way'
<1>1. user.step # "idle" /\ engine.step = "idle" /\ ~engine.boot /\ engine.todo = {}
      /\ engine' = engine
  BY HandlerAlone DEF Way
<1>2. Exclusive' /\ Place'
  BY <1>1 DEF Exclusive, Place
<1>3. Path'
  <2>0. user \in UserType
    BY DEF Types
  <2>1. CASE ControlSaved \/ ChunksRemoved \/ IndexCleared
    BY <2>0, <2>1 DEF ControlSaved, ChunksRemoved, IndexCleared, Way, Path, UserType
  <2>2. CASE WaterCleared \/ ArchiveCleared
    BY <2>0, <2>2 DEF WaterCleared, ArchiveCleared, Way, Path, UserType, Done, ClearFrom
  <2>3. CASE HistoryCleared \/ ModelsCleared \/ RepairAfterRestore
    BY <2>0, <2>3 DEF HistoryCleared, ModelsCleared, RepairAfterRestore, Way, Path, UserType,
      NoRequest
  <2>4. CASE RestoredChunkSaved \/ RestoredIndexSaved \/ ControlRestored
    BY <2>0, <2>4 DEF RestoredChunkSaved, RestoredIndexSaved, ControlRestored, Way, Path, UserType
  <2>5. CASE \E b \in backup : RowsRestored(b) \/ WaterRestored(b) \/ ModelsRestored(b)
    BY <2>0, <2>5 DEF RowsRestored, WaterRestored, ModelsRestored, Way, Path, UserType, NoRequest
  <2>6. CASE \E b \in backup, j \in Jobs : RestoreRow(b, j)
    BY <2>0, <2>6 DEF RestoreRow, Way, Path, UserType
  <2> QED
    BY <2>1, <2>2, <2>3, <2>4, <2>5, <2>6 DEF Handler
<1> QED
  BY <1>2, <1>3 DEF Way

LEMMA WayOutside ==
  ASSUME Types, Way, Outside, ~seen'.overlap
  PROVE  Way'
<1>0. TakeBackup \/ Crash \/ user.step = "idle"
  BY OutsideAlone DEF Way
<1>1. ASSUME NEW j \in Jobs, EndJob(j)
      PROVE  Way'
  <2>1. user.step = "idle" /\ user' = user
    BY <1>1 DEF EndJob, Types, SeenType
  <2>2. Exclusive' /\ Path'
    BY <2>1 DEF Exclusive, Path
  <2>3. Place'
    BY <1>1 DEF EndJob, Way, Place, Types, EngineType, Current
  <2> QED
    BY <2>2, <2>3 DEF Way
<1>2. CASE TakeBackup
  BY <1>2 DEF TakeBackup, Way, Exclusive, Place, Path, Current
<1>3. ASSUME NEW layers \in Layers, Clear(layers)
      PROVE  Way'
  <2>1. user.step = "idle" /\ engine.step = "idle" /\ ~engine.boot /\ engine.todo = {}
    BY <1>3, RequestAlone DEF Clear, Way
  <2> QED
    BY <1>3, <2>1 DEF Clear, Request, ClearFrom, NoRequest, Way, Exclusive, Place, Path
<1>4. ASSUME NEW layers \in Layers, NEW b \in backup, Restore(b, layers)
      PROVE  Way'
  <2>1. user.step = "idle" /\ engine.step = "idle" /\ ~engine.boot /\ engine.todo = {}
    BY <1>4, RequestAlone DEF Restore, Way
  <2> QED
    BY <1>4, <2>1 DEF Restore, Request, RestoreFrom, NoRequest, Way, Exclusive, Place, Path
<1>5. CASE Crash
  BY <1>5 DEF Crash, AtRest, NoRequest, Way, Exclusive, Place, Path
<1> QED
  BY <1>1, <1>2, <1>3, <1>4, <1>5 DEF Outside

-----------------------------------------------------------------------------
\* Rows, index and control file

\* The chunk in the cache, or the one on disk, is the one in memory.
LEMMA ChunkIs ==
  ASSUME Types, RowFiles
  PROVE  Chunk = mem.rows
BY DEF Chunk, RowFiles, Types

LEMMA IncreasedBy ==
  ASSUME Types, RowFiles, NEW j \in Jobs,
         engine.step # "chunk", user.step # "chunk",
         mem' = [mem EXCEPT !.rows = [Chunk EXCEPT ![j] = @ + 1]], disk' = disk
  PROVE  /\ mem'.rows = [disk'.rows EXCEPT ![j] = @ + 1]
         /\ mem'.rows = [Chunk EXCEPT ![j] = @ + 1]
         /\ mem'.index = mem.index /\ mem'.reset = mem.reset
<1>1. Chunk = disk.rows
  BY ChunkIs DEF RowFiles
<1>2. mem \in StoreType
  BY DEF Types
<1>3. mem'.rows = [Chunk EXCEPT ![j] = @ + 1]
  BY <1>2 DEF StoreType
<1>4. mem'.index = mem.index /\ mem'.reset = mem.reset
  BY <1>2 DEF StoreType
<1> QED
  BY <1>1, <1>3, <1>4

\* What the end of a start does to the books: nothing.
LEMMA BootBooks ==
  ASSUME Types, RowFiles, BootEnds
  PROVE  /\ SameBooks(mem, mem') /\ SameBooks(disk, disk')
         /\ \A j \in mem.index : mem.rows[j] > 0 => j \in mem'.processed \cap mem'.samples
<1> DEFINE s == [mem EXCEPT !.rows = Chunk]
<1>1. s \in StoreType /\ SameBooks(mem, s)
  BY ChunkIs DEF Types, StoreType, SameBooks
<1>2. mem' = BootRecords(s)
  BY DEF BootEnds
<1>3. \A j \in mem.index : mem.rows[j] > 0 => j \in Booked(s)
  BY <1>1 DEF Booked, Visible, SameBooks, Types, StoreType
<1> HIDE DEF s
<1>4. SameBooks(s, mem') /\ mem'.processed = s.processed \cup Booked(s)
      /\ mem'.samples = s.samples \cup Booked(s)
  BY <1>1, <1>2, BootRecordsIs
<1>5. SameBooks(disk, disk')
  BY DEF BootEnds, SameBooks, Types, StoreType
<1> QED
  BY <1>1, <1>3, <1>4, <1>5 DEF SameBooks

LEMMA IndexBooks ==
  ASSUME Types, IndexSaved
  PROVE  SameBooks(mem, mem') /\ mem'.samples = mem.samples
         /\ mem'.processed = mem.processed \cup {Current}
BY WaterRecordedIs DEF IndexSaved, Types

LEMMA RepairBooks ==
  ASSUME Types, RowFiles, RepairAfterRestore
  PROVE  /\ SameBooks(mem, mem') /\ SameBooks(disk, disk')
         /\ \A j \in mem.index : mem.rows[j] > 0 => j \in mem'.processed
<1> DEFINE s == [mem EXCEPT !.rows = Chunk]
           S == Booked(s)
<1>1. s \in StoreType /\ SameBooks(mem, s)
  BY ChunkIs DEF Types, StoreType, SameBooks
<1>2. \A j \in mem.index : mem.rows[j] > 0 => j \in S
  BY <1>1 DEF Booked, Visible, SameBooks, Types, StoreType
<1>3. S \in SUBSET Jobs /\ mem' = WaterRepaired(mem, S)
  BY DEF Booked, RepairAfterRestore
<1>4. SameBooks(disk, disk')
  BY DEF RepairAfterRestore, SameBooks, Types, StoreType
<1> HIDE DEF s, S
<1>5. SameBooks(mem, mem') /\ mem'.processed = mem.processed \cup S
  BY <1>3, WaterRepairedIs DEF Types
<1> QED
  BY <1>2, <1>4, <1>5

LEMMA FilesEngine ==
  ASSUME Types, Way, Files, Engine, ~seen'.overlap
  PROVE  Files'
<1>0. /\ user.step = "idle" /\ user' = user
      /\ mem \in StoreType /\ disk \in StoreType /\ engine \in EngineType
  BY EngineAlone DEF Way, Types
<1>1. CASE SaveJobs
  BY <1>0, <1>1 DEF SaveJobs, Saved, Files, RowFiles, IndexFiles, ResetFiles, Increased,
    StoreType, EngineType
<1>2. CASE SaveHistory
  BY <1>0, <1>2 DEF SaveHistory, Saved, Files, RowFiles, IndexFiles, ResetFiles, Increased,
    StoreType, EngineType
<1>3. CASE Reconcile
  BY <1>0, <1>3 DEF Reconcile, Files, RowFiles, IndexFiles, ResetFiles, Increased, EngineType
<1>4. CASE EndSync
  BY <1>0, <1>4 DEF EndSync, Synchronised, AtRest, Files, RowFiles, IndexFiles, ResetFiles, Increased
<1>5. CASE BootEnds
  <2>1. SameBooks(mem, mem') /\ SameBooks(disk, disk')
    BY <1>5, BootBooks DEF Files
  <2>2. engine.step = "sync" /\ engine'.step = "models"
    BY <1>0, <1>5 DEF BootEnds, Synchronised, EngineType
  <2> QED
    BY <1>0, <2>1, <2>2 DEF Files, RowFiles, IndexFiles, ResetFiles, SameBooks
<1>6. ASSUME NEW j \in Jobs, AppendRow(j)
      PROVE  Files'
  <2> DEFINE r == [Chunk EXCEPT ![j] = @ + 1]
  <2>1. engine.step = "sync" /\ mem' = [mem EXCEPT !.rows = r] /\ loaded' = TRUE /\ disk' = disk
    BY <1>6 DEF AppendRow
  <2>2. /\ engine'.step = "chunk" /\ engine'.rows = r /\ engine'.job = [job |-> j]
    BY <1>0, <1>6 DEF AppendRow, EngineType
  <2>3. /\ mem'.rows = [disk'.rows EXCEPT ![j] = @ + 1] /\ mem'.rows = r
        /\ mem'.index = mem.index /\ mem'.reset = mem.reset
    BY <1>0, <2>1, IncreasedBy DEF Files
  <2> HIDE DEF r
  <2>4. Current' = j
    BY <2>2 DEF Current
  <2> QED
    BY <1>0, <2>1, <2>2, <2>3, <2>4 DEF Files, RowFiles, IndexFiles, ResetFiles, Increased
<1>7. CASE ChunkSaved
  BY <1>0, <1>7 DEF ChunkSaved, Files, RowFiles, IndexFiles, ResetFiles, Increased, StoreType,
    EngineType, Current
<1>8. CASE IndexSaved
  <2>1. SameBooks(mem, mem')
    BY <1>8, IndexBooks
  <2> QED
    BY <1>0, <1>8, <2>1 DEF IndexSaved, Files, RowFiles, IndexFiles, ResetFiles, SameBooks, StoreType,
      EngineType
<1>9. CASE WaterSaved
  BY <1>0, <1>9 DEF WaterSaved, Files, RowFiles, IndexFiles, ResetFiles, StoreType, EngineType
<1>10. CASE ModelsSaved
  BY <1>0, <1>10 DEF ModelsSaved, AtRest, Files, RowFiles, IndexFiles, ResetFiles, StoreType,
    EngineType
<1> QED
  BY <1>1, <1>2, <1>3, <1>4, <1>5, <1>6, <1>7, <1>8, <1>9, <1>10 DEF Engine

LEMMA FilesHandler ==
  ASSUME Types, Way, Files, Entries, Handler
  PROVE  Files'
<1>0. /\ engine.step = "idle" /\ ~engine.boot /\ engine' = engine
      /\ mem \in StoreType /\ disk \in StoreType /\ user \in UserType
  BY HandlerAlone DEF Way, Types
<1>1. CASE ControlSaved
  BY <1>0, <1>1 DEF ControlSaved, Files, RowFiles, IndexFiles, ResetFiles, StoreType, UserType
<1>2. CASE ChunksRemoved
  <2>1. disk'.reset = disk.reset /\ disk'.rows \in [Jobs -> Nat]
    BY <1>0, <1>2 DEF ChunksRemoved, StoreType, Nothing
  <2>2. mem' = [mem EXCEPT !.index = {}, !.rows = disk'.rows]
    BY <1>2 DEF ChunksRemoved
  <2>4. mem'.rows = disk'.rows /\ mem'.index = {} /\ mem'.reset = mem.reset
    BY <1>0, <2>2 DEF StoreType
  <2>5. user.step = "chunks" /\ user'.step = "clearindex"
    BY <1>0, <1>2 DEF ChunksRemoved, UserType
  <2> QED
    BY <1>0, <2>1, <2>4, <2>5 DEF Files, RowFiles, IndexFiles, ResetFiles
<1>3. CASE IndexCleared
  BY <1>0, <1>3 DEF IndexCleared, Files, RowFiles, IndexFiles, ResetFiles, StoreType, UserType
<1>4. CASE WaterCleared
  BY <1>0, <1>4 DEF WaterCleared, Done, ClearFrom, Files, RowFiles, IndexFiles, ResetFiles, StoreType,
    UserType
<1>5. CASE HistoryCleared
  BY <1>0, <1>5 DEF HistoryCleared, Saved, Files, RowFiles, IndexFiles, ResetFiles, StoreType, UserType
<1>6. CASE ArchiveCleared
  BY <1>0, <1>6 DEF ArchiveCleared, Saved, Done, ClearFrom, Files, RowFiles, IndexFiles, ResetFiles,
    StoreType, UserType
<1>7. CASE ModelsCleared
  BY <1>0, <1>7 DEF ModelsCleared, NoRequest, Files, RowFiles, IndexFiles, ResetFiles, StoreType
<1>8. CASE RestoredChunkSaved
  BY <1>0, <1>8 DEF RestoredChunkSaved, Files, RowFiles, IndexFiles, ResetFiles, Increased, StoreType,
    UserType, Restored
<1>9. CASE RestoredIndexSaved
  BY <1>0, <1>9 DEF RestoredIndexSaved, Files, RowFiles, IndexFiles, ResetFiles, StoreType, UserType
<1>10. CASE ControlRestored
  BY <1>0, <1>10 DEF ControlRestored, Files, RowFiles, IndexFiles, ResetFiles, StoreType, UserType
<1>11. CASE RepairAfterRestore
  <2>1. SameBooks(mem, mem') /\ SameBooks(disk, disk')
    BY <1>11, RepairBooks DEF Files
  <2> QED
    BY <1>0, <1>11, <2>1 DEF RepairAfterRestore, NoRequest, Files, RowFiles, IndexFiles, ResetFiles,
      SameBooks
<1>12. ASSUME NEW b \in backup, RowsRestored(b) \/ WaterRestored(b) \/ ModelsRestored(b)
       PROVE  Files'
  <2>1. CASE RowsRestored(b)
    BY <1>0, <2>1 DEF RowsRestored, Files, RowFiles, IndexFiles, ResetFiles, StoreType, UserType
  <2>2. CASE WaterRestored(b)
    BY <1>0, <2>2 DEF WaterRestored, Files, RowFiles, IndexFiles, ResetFiles, StoreType, UserType
  <2>3. CASE ModelsRestored(b)
    BY <1>0, <2>3 DEF ModelsRestored, NoRequest, Files, RowFiles, IndexFiles, ResetFiles, StoreType,
      UserType
  <2> QED
    BY <1>12, <2>1, <2>2, <2>3
<1>13. ASSUME NEW b \in backup, NEW j \in Jobs, RestoreRow(b, j)
       PROVE  Files'
  <2> DEFINE r == [Chunk EXCEPT ![j] = @ + 1]
  <2>1. user.step = "append" /\ mem' = [mem EXCEPT !.rows = r] /\ loaded' = TRUE /\ disk' = disk
    BY <1>13 DEF RestoreRow
  <2>2. user'.step = "chunk" /\ user'.rows = r /\ user'.job = [job |-> j]
    BY <1>0, <1>13 DEF RestoreRow, UserType
  <2>3. /\ mem'.rows = [disk'.rows EXCEPT ![j] = @ + 1] /\ mem'.rows = r
        /\ mem'.index = mem.index /\ mem'.reset = mem.reset
    BY <1>0, <2>1, IncreasedBy DEF Files
  <2> HIDE DEF r
  <2>4. Restored' = j
    BY <2>2 DEF Restored
  <2> QED
    BY <1>0, <2>1, <2>2, <2>3, <2>4 DEF Files, RowFiles, IndexFiles, ResetFiles, Increased
<1> QED
  BY <1>1, <1>2, <1>3, <1>4, <1>5, <1>6, <1>7, <1>8, <1>9, <1>10, <1>11, <1>12, <1>13 DEF Handler

LEMMA FilesOutside ==
  ASSUME Types, Way, Files, Outside, ~seen'.overlap
  PROVE  Files'
<1>0. /\ TakeBackup \/ Crash \/ user.step = "idle"
      /\ mem \in StoreType /\ disk \in StoreType
  BY OutsideAlone DEF Way, Types
<1>1. ASSUME NEW j \in Jobs, EndJob(j)
      PROVE  Files'
  <2>1. user.step = "idle" /\ user' = user
    BY <1>1 DEF EndJob, Types, SeenType
  <2>2. engine.step = "idle" /\ engine'.step = "jobs" /\ disk' = disk
    BY <1>1 DEF EndJob, Types, EngineType
  <2>3. mem'.rows = mem.rows /\ mem'.index = mem.index /\ mem'.reset = mem.reset
    BY <1>0, <1>1 DEF EndJob, Archived, StoreType
  <2> QED
    BY <2>1, <2>2, <2>3 DEF Files, RowFiles, IndexFiles, ResetFiles
<1>2. CASE TakeBackup
  BY <1>2 DEF TakeBackup, Files, RowFiles, IndexFiles, ResetFiles, Increased, Current, Restored
<1>3. ASSUME NEW layers \in Layers, Clear(layers)
      PROVE  Files'
  <2>1. user.step = "idle" /\ engine.step = "idle" /\ ~engine.boot /\ engine.todo = {}
    BY <1>3, RequestAlone DEF Clear, Way
  <2> QED
    BY <1>0, <1>3, <2>1 DEF Clear, Request, ClearFrom, NoRequest, Files, RowFiles, IndexFiles,
      ResetFiles, StoreType
<1>4. ASSUME NEW layers \in Layers, NEW b \in backup, Restore(b, layers)
      PROVE  Files'
  <2>1. user.step = "idle" /\ engine.step = "idle" /\ ~engine.boot /\ engine.todo = {}
    BY <1>4, RequestAlone DEF Restore, Way
  <2> QED
    BY <1>0, <1>4, <2>1 DEF Restore, Request, RestoreFrom, NoRequest, Files, RowFiles, IndexFiles,
      ResetFiles
<1>5. CASE Crash
  BY <1>0, <1>5 DEF Crash, Loaded, AtRest, NoRequest, Files, RowFiles, IndexFiles, ResetFiles, StoreType
<1> QED
  BY <1>1, <1>2, <1>3, <1>4, <1>5 DEF Outside

-----------------------------------------------------------------------------
\* Rows, and the jobs they belong to

\* What Entries says of one job.
Booking(j) ==
  /\ j \in mem.index => (mem.rows[j] > 0 \/ j \in seen.emptied) /\ ~Half(j)
  /\ mem.rows[j] > 0 => j \in mem.index \/ Half(j) \/ Stray(j) \/ j \in seen.split
  /\ j \notin seen.torn \cup seen.split => mem.rows[j] <= 1
  /\ Doubled(j) => j \in seen.split

\* What crashes have cut short so far.
SameCuts == seen'.torn = seen.torn /\ seen'.split = seen.split /\ seen'.emptied = seen.emptied

LEMMA EntriesEngine ==
  ASSUME Types, Way, Files, Entries, Engine, ~seen'.overlap
  PROVE  Entries'
<1>0. /\ user.step = "idle" /\ user' = user
      /\ mem \in StoreType /\ disk \in StoreType /\ engine \in EngineType /\ seen \in SeenType
  BY EngineAlone DEF Way, Types
<1>1. CASE SaveJobs \/ SaveHistory
  BY <1>0, <1>1 DEF SaveJobs, SaveHistory, Entries, Half, Stray, Doubled, EngineType, Way, Place
<1>2. CASE Reconcile
  BY <1>0, <1>2 DEF Reconcile, Entries, Half, Stray, Doubled, EngineType, SeenType, Way, Place
<1>3. CASE EndSync
  BY <1>0, <1>3 DEF EndSync, Synchronised, AtRest, Entries, Half, Stray, Doubled
<1>4. CASE BootEnds
  <2>1. SameBooks(mem, mem') /\ seen' = seen
    BY <1>4, BootBooks DEF Files, BootEnds
  <2>2. engine.step = "sync" /\ engine'.step = "models" /\ engine.todo \subseteq mem.index \cup mem.reset
    BY <1>0, <1>4 DEF BootEnds, Synchronised, EngineType
  <2> QED
    BY <1>0, <2>1, <2>2 DEF Entries, Half, Stray, Doubled, SameBooks
<1>5. ASSUME NEW j \in Jobs, AppendRow(j)
      PROVE  Entries'
  <2> DEFINE r == [Chunk EXCEPT ![j] = @ + 1]
  <2>1. /\ engine.step = "sync" /\ mem' = [mem EXCEPT !.rows = r] /\ disk' = disk
        /\ j \notin mem.index
    BY <1>5 DEF AppendRow
  <2>2. /\ engine'.step = "chunk" /\ engine'.job = [job |-> j]
        /\ engine'.todo = engine.todo \ {j} /\ engine'.boot = engine.boot
    BY <1>0, <1>5 DEF AppendRow, EngineType
  <2>3. /\ mem'.rows = r /\ mem'.index = mem.index /\ mem'.reset = mem.reset
    BY <1>0, <2>1, IncreasedBy DEF Files
  <2>4. \A l \in Jobs : mem'.rows[l] = IF l = j THEN mem.rows[l] + 1 ELSE mem.rows[l]
    BY <1>0, <2>3, ChunkIs DEF Files, StoreType
  <2> HIDE DEF r
  <2>5. Current' = j
    BY <2>2 DEF Current
  <2>6. SameCuts
    BY <1>0, <1>5 DEF AppendRow, SeenType, SameCuts
  <2>7. ASSUME NEW l \in Jobs
        PROVE  Booking(l)'
    <3>1. ~Half(l) /\ Booking(l) /\ mem.rows[l] \in Nat
      BY <1>0, <2>1 DEF Entries, Half, Booking, StoreType
    <3>2. CASE l = j
      BY <1>0, <2>1, <2>2, <2>3, <2>4, <2>5, <2>6, <3>1, <3>2 DEF Booking, Half, Stray, Doubled, SameCuts
    <3>3. CASE l # j
      BY <1>0, <2>1, <2>2, <2>3, <2>4, <2>5, <2>6, <3>1, <3>3 DEF Booking, Half, Stray, Doubled, SameCuts
    <3> QED
      BY <3>2, <3>3
  <2> QED
    BY <2>7 DEF Entries, Booking
<1>6. CASE ChunkSaved
  <2>1. /\ mem'.rows = mem.rows /\ mem'.index = mem.index \cup {Current} /\ mem'.reset = mem.reset
        /\ engine.step = "chunk" /\ engine'.step = "index" /\ engine'.boot = engine.boot
        /\ engine'.todo = engine.todo /\ seen' = seen
    BY <1>0, <1>6 DEF ChunkSaved, EngineType, StoreType
  <2>2. Current \in Jobs /\ mem.rows[Current] > 0
    BY <1>0, <2>1 DEF Types, Files, RowFiles, Increased, StoreType
  <2> QED
    BY <1>0, <2>1, <2>2 DEF Entries, Half, Stray, Doubled
<1>7. CASE IndexSaved
  <2>1. SameBooks(mem, mem') /\ seen' = seen
    BY <1>7, IndexBooks DEF IndexSaved
  <2>2. engine.step = "index" /\ engine'.step = "water" /\ engine'.boot = engine.boot
        /\ engine'.todo = engine.todo
    BY <1>0, <1>7 DEF IndexSaved, EngineType
  <2> QED
    BY <1>0, <2>1, <2>2 DEF Entries, Half, Stray, Doubled, SameBooks
<1>8. CASE WaterSaved
  BY <1>0, <1>8 DEF WaterSaved, Entries, Half, Stray, Doubled, StoreType, EngineType
<1>9. CASE ModelsSaved
  BY <1>0, <1>9 DEF ModelsSaved, AtRest, Entries, Half, Stray, Doubled, EngineType
<1> QED
  BY <1>1, <1>2, <1>3, <1>4, <1>5, <1>6, <1>7, <1>8, <1>9 DEF Engine

LEMMA EntriesHandler ==
  ASSUME Types, Way, Files, Entries, Handler
  PROVE  Entries'
<1>0. /\ engine.step = "idle" /\ ~engine.boot /\ engine' = engine
      /\ mem \in StoreType /\ disk \in StoreType /\ user \in UserType /\ seen \in SeenType
  BY HandlerAlone DEF Way, Types
<1>1. SameCuts
  BY <1>0 DEF Handler, ControlSaved, ChunksRemoved, IndexCleared, WaterCleared,
    HistoryCleared, ArchiveCleared, ModelsCleared, RestoredChunkSaved, RestoredIndexSaved,
    ControlRestored, RepairAfterRestore, RowsRestored, WaterRestored, ModelsRestored, RestoreRow,
    SeenType, SameCuts
<1>2. ASSUME mem'.rows = mem.rows, mem'.index = mem.index, user.step # "chunk", user'.step # "chunk"
      PROVE  Entries'
  BY <1>0, <1>1, <1>2 DEF Entries, Half, Stray, Doubled, SameCuts
<1>3. CASE ControlSaved \/ WaterCleared
  BY <1>0, <1>2, <1>3 DEF ControlSaved, WaterCleared, Done, ClearFrom, StoreType, UserType
<1>4. CASE ChunksRemoved
  <2>1. mem'.rows = disk'.rows /\ mem'.index = {}
    BY <1>0, <1>4 DEF ChunksRemoved, StoreType
  <2>2. mem.rows = disk.rows
    BY <1>0, <1>4 DEF ChunksRemoved, Files, RowFiles
  <2>3. user.step = "chunks" /\ user'.step = "clearindex"
    BY <1>0, <1>4 DEF ChunksRemoved, UserType
  <2>4. CASE mem.index = {}
    <3>1. mem'.rows = mem.rows
      BY <1>4, <2>1, <2>2, <2>4 DEF ChunksRemoved
    <3> QED
      BY <1>0, <1>1, <2>1, <2>3, <2>4, <3>1 DEF Entries, Half, Stray, Doubled, SameCuts
  <2>5. CASE mem.index # {}
    <3>1. mem'.rows = Nothing
      BY <1>0, <1>4, <2>1, <2>5 DEF ChunksRemoved, StoreType
    <3> QED
      BY <2>1, <2>3, <3>1 DEF Entries, Half, Doubled, Nothing
  <2> QED
    BY <2>4, <2>5
<1>5. CASE IndexCleared
  BY <1>0, <1>2, <1>5 DEF IndexCleared, StoreType, UserType
<1>6. CASE HistoryCleared \/ ArchiveCleared
  BY <1>0, <1>2, <1>6 DEF HistoryCleared, ArchiveCleared, Done, ClearFrom, StoreType, UserType
<1>7. CASE ModelsCleared
  BY <1>0, <1>2, <1>7 DEF ModelsCleared, NoRequest, StoreType
<1>8. CASE RestoredChunkSaved
  <2>1. /\ mem'.rows = mem.rows /\ mem'.index = mem.index \cup {Restored}
        /\ user.step = "chunk" /\ user'.step = "index"
    BY <1>0, <1>8 DEF RestoredChunkSaved, UserType, StoreType, Restored
  <2>2. Restored \in Jobs /\ mem.rows[Restored] > 0
    BY <1>0, <2>1 DEF Types, Files, RowFiles, Increased, StoreType
  <2> QED
    BY <1>0, <1>1, <2>1, <2>2 DEF Entries, Half, Stray, Doubled, SameCuts
<1>9. CASE RestoredIndexSaved \/ ControlRestored
  BY <1>0, <1>2, <1>9 DEF RestoredIndexSaved, ControlRestored, StoreType, UserType
<1>10. CASE RepairAfterRestore
  <2>1. SameBooks(mem, mem')
    BY <1>10, RepairBooks DEF Files
  <2> QED
    BY <1>0, <1>2, <1>10, <2>1 DEF RepairAfterRestore, NoRequest, SameBooks
<1>11. ASSUME NEW b \in backup, RowsRestored(b) \/ WaterRestored(b) \/ ModelsRestored(b)
       PROVE  Entries'
  <2>1. CASE RowsRestored(b)
    BY <1>0, <1>2, <2>1 DEF RowsRestored, StoreType, UserType
  <2>2. CASE WaterRestored(b)
    BY <1>0, <1>2, <2>2 DEF WaterRestored, StoreType, UserType
  <2>3. CASE ModelsRestored(b)
    BY <1>0, <1>2, <2>3 DEF ModelsRestored, NoRequest, StoreType, UserType
  <2> QED
    BY <1>11, <2>1, <2>2, <2>3
<1>12. ASSUME NEW b \in backup, NEW j \in Jobs, RestoreRow(b, j)
       PROVE  Entries'
  <2> DEFINE r == [Chunk EXCEPT ![j] = @ + 1]
  <2>1. /\ user.step = "append" /\ mem' = [mem EXCEPT !.rows = r] /\ disk' = disk
        /\ j \notin mem.index
    BY <1>12 DEF RestoreRow
  <2>2. user'.step = "chunk" /\ user'.job = [job |-> j]
    BY <1>0, <1>12 DEF RestoreRow, UserType
  <2>3. /\ mem'.rows = r /\ mem'.index = mem.index /\ mem'.reset = mem.reset
    BY <1>0, <2>1, IncreasedBy DEF Files
  <2>4. \A l \in Jobs : mem'.rows[l] = IF l = j THEN mem.rows[l] + 1 ELSE mem.rows[l]
    BY <1>0, <2>3, ChunkIs DEF Files, StoreType
  <2> HIDE DEF r
  <2>5. Restored' = j
    BY <2>2 DEF Restored
  <2>6. ASSUME NEW l \in Jobs
        PROVE  Booking(l)'
    <3>1. ~Half(l) /\ ~Stray(l) /\ Booking(l) /\ mem.rows[l] \in Nat
      BY <1>0, <2>1 DEF Entries, Half, Stray, Doubled, Booking, StoreType
    <3>2. CASE l = j
      BY <1>0, <1>1, <2>1, <2>2, <2>3, <2>4, <2>5, <3>1, <3>2 DEF Booking, Half, Doubled, SameCuts
    <3>3. CASE l # j
      BY <1>0, <1>1, <2>1, <2>2, <2>3, <2>4, <2>5, <3>1, <3>3 DEF Booking, Half, Doubled, SameCuts
    <3> QED
      BY <3>2, <3>3
  <2> QED
    BY <2>6 DEF Entries, Booking
<1> QED
  BY <1>3, <1>4, <1>5, <1>6, <1>7, <1>8, <1>9, <1>10, <1>11, <1>12 DEF Handler

\* A job that ended before the last save is found again by the next start.
LEMMA ArchiveSurvives ==
  ASSUME Types, Store, engine.step # "jobs"
  PROVE  mem.archive \subseteq Loaded(disk).archive
<1>1. Loaded(disk).archive = disk.archive \cup ToSet(disk.history)
  BY DEF Types, StoreType, Loaded
<1>2. \A j \in mem.archive : j \in disk.archive \/ j \in ToSet(disk.history)
  BY DEF Store, Unwritten, Types, StoreType
<1> QED
  BY <1>1, <1>2

LEMMA EntriesCrash ==
  ASSUME Types, Way, Files, Entries, Store, Crash
  PROVE  Entries'
<1>0. /\ mem \in StoreType /\ disk \in StoreType /\ engine \in EngineType
      /\ user \in UserType /\ seen \in SeenType
  BY DEF Types
<1>1. mem'.rows = disk.rows /\ mem'.index = disk.index /\ mem'.reset = disk.reset
  BY <1>0 DEF Crash, Loaded, StoreType
<1>2. /\ engine'.boot = TRUE /\ engine'.step = "sync" /\ engine'.todo = Loaded(disk).archive
      /\ user'.step = "idle"
  BY DEF Crash, AtRest, NoRequest
<1>3. /\ seen'.torn = IF engine.step = "index" THEN seen.torn \cup {Current} ELSE seen.torn
      /\ seen'.split = IF user.step = "index" THEN seen.split \cup {Restored} ELSE seen.split
      /\ seen'.emptied =
           IF user.step = "clearindex" THEN seen.emptied \cup disk.index ELSE seen.emptied
  BY <1>0 DEF Crash, SeenType, Restored
<1>4. engine.step # "idle" => user.step = "idle" /\ disk.reset = mem.reset
  BY DEF Way, Exclusive, Files, ResetFiles
<1>5. engine.step # "jobs" => mem.archive \subseteq Loaded(disk).archive
  BY ArchiveSurvives
<1>6. ASSUME NEW j \in Jobs
      PROVE  Booking(j)'
  <2>0. Booking(j) /\ mem.rows[j] \in Nat /\ disk.rows[j] \in Nat
    BY <1>0 DEF Entries, Booking, StoreType
  <2>1. ~Half(j)' /\ ~Doubled(j)'
    BY <1>2 DEF Half, Doubled
  <2>2. /\ disk.rows[j] <= mem.rows[j]
        /\ Half(j) => mem.rows[j] = disk.rows[j] + 1
        /\ ~Half(j) => mem.rows[j] = disk.rows[j]
    BY <1>0 DEF Files, RowFiles, Increased, StoreType, Half
  <2>3. /\ user.step = "clearindex" => j \notin mem.index
        /\ user.step # "clearindex" /\ j \in disk.index => j \in mem.index
        /\ j \in mem.index /\ j \notin disk.index =>
             (engine.step = "index" /\ j = Current) \/ (user.step = "index" /\ j = Restored)
    BY <1>0 DEF Files, IndexFiles
  <2>4. ASSUME disk.rows[j] > 0, j \notin disk.index
        PROVE  Stray(j)' \/ j \in seen'.split
    <3>1. CASE j \in mem.index
      <4>1. CASE engine.step = "index" /\ j = Current
        BY <1>1, <1>2, <1>3, <1>4, <1>5, <4>1 DEF Stray, Way, Place
      <4>2. CASE user.step = "index" /\ j = Restored
        BY <1>3, <4>2
      <4> QED
        BY <2>3, <2>4, <3>1, <4>1, <4>2
    <3>2. CASE engine.step = "chunk" /\ j = Current
      <4>1. j \in seen.torn \/ j \in seen.split
        BY <2>0, <2>2, <2>4, <3>2 DEF Booking, Half
      <4> QED
        BY <1>1, <1>2, <1>3, <1>4, <1>5, <3>2, <4>1 DEF Stray, Way, Place
    <3>3. CASE user.step = "chunk" /\ j = Restored
      <4>1. j \in seen.split
        BY <2>0, <2>2, <2>4, <3>3 DEF Booking, Half, Doubled
      <4> QED
        BY <1>3, <4>1
    <3>4. CASE Stray(j)
      <4>1. engine.step # "jobs" /\ engine.step # "idle" /\ j \in mem.archive
        BY <3>4 DEF Stray, Way, Place
      <4> QED
        BY <1>1, <1>2, <1>3, <1>4, <1>5, <3>4, <4>1 DEF Stray
    <3>5. CASE j \in seen.split
      BY <1>3, <3>5
    <3> QED
      BY <2>0, <2>2, <2>4, <3>1, <3>2, <3>3, <3>4, <3>5 DEF Booking, Half
  <2>5. j \in disk.index => disk.rows[j] > 0 \/ j \in seen'.emptied
    BY <1>3, <2>0, <2>2, <2>3 DEF Booking
  <2>6. j \notin seen'.torn \cup seen'.split => disk.rows[j] <= 1
    BY <1>3, <2>0, <2>2 DEF Booking
  <2> QED
    BY <1>1, <2>1, <2>4, <2>5, <2>6 DEF Booking
<1> QED
  BY <1>6 DEF Entries, Booking

LEMMA EntriesOutside ==
  ASSUME Types, Way, Files, Entries, Store, Outside, ~seen'.overlap
  PROVE  Entries'
<1>0. /\ TakeBackup \/ Crash \/ user.step = "idle"
      /\ mem \in StoreType /\ engine \in EngineType /\ seen \in SeenType
  BY OutsideAlone DEF Way, Types
<1>1. ASSUME NEW j \in Jobs, EndJob(j)
      PROVE  Entries'
  <2>1. user.step = "idle" /\ user' = user
    BY <1>1 DEF EndJob, Types, SeenType
  <2>2. engine.step = "idle" /\ ~engine.boot /\ engine'.step = "jobs" /\ ~engine'.boot
    BY <1>0, <1>1 DEF EndJob, EngineType, Way, Place
  <2>3. mem'.rows = mem.rows /\ mem'.index = mem.index /\ SameCuts
    BY <1>0, <1>1 DEF EndJob, Archived, StoreType, SeenType, SameCuts
  <2> QED
    BY <2>1, <2>2, <2>3 DEF Entries, Half, Stray, Doubled, SameCuts
<1>2. CASE TakeBackup
  BY <1>2 DEF TakeBackup, Entries, Half, Stray, Doubled, Current, Restored
<1>3. ASSUME NEW layers \in Layers, Clear(layers)
      PROVE  Entries'
  <2>1. user.step = "idle" /\ engine.step = "idle" /\ ~engine.boot /\ engine.todo = {}
    BY <1>3, RequestAlone DEF Clear, Way
  <2>2. mem'.rows = mem.rows /\ mem'.index = mem.index /\ SameCuts /\ engine' = engine
    BY <1>0, <1>3 DEF Clear, Request, StoreType, SeenType, SameCuts
  <2>3. user'.step # "chunk"
    BY <1>3 DEF Clear, Request, ClearFrom, NoRequest
  <2> QED
    BY <2>1, <2>2, <2>3 DEF Entries, Half, Stray, Doubled, SameCuts
<1>4. ASSUME NEW layers \in Layers, NEW b \in backup, Restore(b, layers)
      PROVE  Entries'
  <2>1. user.step = "idle" /\ engine.step = "idle" /\ ~engine.boot /\ engine.todo = {}
    BY <1>4, RequestAlone DEF Restore, Way
  <2>2. mem' = mem /\ SameCuts /\ engine' = engine
    BY <1>0, <1>4 DEF Restore, Request, SeenType, SameCuts
  <2>3. user'.step # "chunk"
    BY <1>4 DEF Restore, Request, RestoreFrom, NoRequest
  <2> QED
    BY <2>1, <2>2, <2>3 DEF Entries, Half, Stray, Doubled, SameCuts
<1>5. CASE Crash
  BY <1>5, EntriesCrash
<1> QED
  BY <1>1, <1>2, <1>3, <1>4, <1>5 DEF Outside

-----------------------------------------------------------------------------
\* What is derived from the rows

\* What Derived says of one booked job.
Facts(j) == mem.rows[j] > 0 =>
  /\ j \in mem.processed \/ (engine.step = "index" /\ j = Current)
  /\ "models" \notin seen.forgot =>
       j \in mem.samples \/ (engine.step \in {"index", "water"} /\ j = Current)

LEMMA DerivedEngine ==
  ASSUME Types, Way, Files, Entries, Derived, Engine, ~seen'.overlap
  PROVE  Derived'
<1>0. /\ user.step = "idle" /\ user' = user
      /\ mem \in StoreType /\ disk \in StoreType /\ engine \in EngineType /\ seen \in SeenType
  BY EngineAlone DEF Way, Types
<1>1. ~Rebuilding /\ ~Rebuilding'
  BY <1>0 DEF Rebuilding
<1>2. (~engine.boot \/ engine.step = "models") => \A j \in mem.index : Facts(j)
  BY <1>1 DEF Derived, Facts
<1>3. SUFFICES ASSUME ~engine'.boot \/ engine'.step = "models"
               PROVE  \A j \in mem'.index : Facts(j)'
  BY DEF Derived, Facts
<1>4. CASE SaveJobs \/ SaveHistory
  BY <1>0, <1>2, <1>3, <1>4 DEF SaveJobs, SaveHistory, EngineType, Way, Place, Facts
<1>5. CASE Reconcile
  <2>1. seen'.forgot = seen.forgot /\ mem' = mem
    BY <1>0, <1>5 DEF Reconcile, SeenType
  <2>2. engine.step = "idle" /\ engine'.step \in {"jobs", "sync"} /\ engine'.boot = engine.boot
    BY <1>0, <1>5 DEF Reconcile, EngineType
  <2> QED
    BY <1>2, <1>3, <2>1, <2>2 DEF Facts
<1>6. CASE EndSync
  BY <1>0, <1>2, <1>6 DEF EndSync, Synchronised, Facts
<1>7. CASE BootEnds
  <2>1. /\ SameBooks(mem, mem')
        /\ \A j \in mem.index : mem.rows[j] > 0 => j \in mem'.processed \cap mem'.samples
    BY <1>7, BootBooks DEF Files
  <2> QED
    BY <2>1 DEF Facts, SameBooks
<1>8. ASSUME NEW j \in Jobs, AppendRow(j)
      PROVE  \A l \in mem'.index : Facts(l)'
  <2> DEFINE r == [Chunk EXCEPT ![j] = @ + 1]
  <2>1. /\ engine.step = "sync" /\ mem' = [mem EXCEPT !.rows = r]
        /\ seen'.forgot = seen.forgot
        /\ engine'.step = "chunk" /\ engine'.boot = engine.boot
    BY <1>0, <1>8 DEF AppendRow, EngineType, SeenType
  <2>2. mem'.index = mem.index /\ mem'.processed = mem.processed /\ mem'.samples = mem.samples
        /\ mem'.rows = r
    <3> HIDE DEF r
    <3> QED
      BY <1>0, <2>1 DEF StoreType
  <2>3. \A l \in mem.index : l # j /\ r[l] = mem.rows[l]
    BY <1>0, <1>8, ChunkIs DEF AppendRow, Files, StoreType
  <2> HIDE DEF r
  <2> QED
    BY <1>2, <1>3, <2>1, <2>2, <2>3 DEF Facts
<1>9. CASE ChunkSaved
  <2>1. /\ mem'.index = mem.index \cup {Current} /\ mem'.processed = mem.processed
        /\ mem'.samples = mem.samples /\ seen' = seen /\ mem'.rows = mem.rows
        /\ engine.step = "chunk" /\ engine'.step = "index" /\ engine'.boot = engine.boot
        /\ Current' = Current
    BY <1>0, <1>9 DEF ChunkSaved, EngineType, StoreType, Current
  <2> QED
    BY <1>2, <1>3, <2>1 DEF Facts
<1>10. CASE IndexSaved
  <2>1. /\ mem'.index = mem.index /\ mem'.processed = mem.processed \cup {Current}
        /\ mem'.samples = mem.samples /\ seen' = seen /\ mem'.rows = mem.rows
    BY <1>10, IndexBooks DEF SameBooks, IndexSaved
  <2>2. /\ engine.step = "index" /\ engine'.step = "water" /\ engine'.boot = engine.boot
        /\ Current' = Current
    BY <1>0, <1>10 DEF IndexSaved, EngineType, Current
  <2> QED
    BY <1>2, <1>3, <2>1, <2>2 DEF Facts
<1>11. CASE WaterSaved
  <2>1. engine.step = "water" /\ seen' = seen /\ engine'.boot = engine.boot /\ ~engine.boot
        /\ engine'.step = "models"
    BY <1>0, <1>3, <1>11 DEF WaterSaved, EngineType
  <2>2. mem'.index = mem.index /\ mem'.processed = mem.processed /\ mem'.rows = mem.rows
        /\ mem'.samples = mem.samples \cup {Current}
    BY <1>0, <1>11, <2>1 DEF WaterSaved, StoreType
  <2> QED
    BY <1>2, <2>1, <2>2 DEF Facts
<1>12. CASE ModelsSaved
  BY <1>0, <1>2, <1>12 DEF ModelsSaved, AtRest, EngineType, Facts
<1> QED
  BY <1>4, <1>5, <1>6, <1>7, <1>8, <1>9, <1>10, <1>11, <1>12 DEF Engine

LEMMA DerivedHandler ==
  ASSUME Types, Way, Files, Entries, Derived, Handler
  PROVE  Derived'
<1>0. /\ engine.step = "idle" /\ ~engine.boot /\ engine' = engine
      /\ mem \in StoreType /\ disk \in StoreType /\ user \in UserType /\ seen \in SeenType
  BY HandlerAlone DEF Way, Types
<1>1. ~Rebuilding => \A j \in mem.index : Facts(j)
  BY <1>0 DEF Derived, Facts
<1>2. SUFFICES ASSUME ~Rebuilding'
               PROVE  \A j \in mem'.index : Facts(j)'
  BY DEF Derived, Facts
\* Memory unchanged, and the restore goes on or there is none.
<1>3. ASSUME SameBooks(mem, mem'), SameWater(mem, mem'), mem'.samples = mem.samples,
             ~Rebuilding, seen.forgot \subseteq seen'.forgot
      PROVE  \A j \in mem'.index : Facts(j)'
  BY <1>0, <1>1, <1>3 DEF SameBooks, SameWater, Facts
<1>4. CASE ControlSaved
  <2>1. ~Rebuilding
    BY <1>0, <1>4 DEF ControlSaved, Way, Path, Rebuilding
  <2> QED
    BY <1>0, <1>1, <1>4, <2>1 DEF ControlSaved, Facts
<1>5. CASE ChunksRemoved
  BY <1>0, <1>5 DEF ChunksRemoved, StoreType
<1>6. CASE IndexCleared
  <2>1. mem'.index = {}
    BY <1>0, <1>6 DEF IndexCleared, Files, IndexFiles, StoreType
  <2> QED
    BY <2>1
<1>7. CASE WaterCleared \/ ArchiveCleared
  <2>1. ~Rebuilding
    BY <1>0, <1>7 DEF WaterCleared, ArchiveCleared, Way, Path, Rebuilding
  <2> QED
    BY <1>0, <1>1, <1>7, <2>1 DEF WaterCleared, ArchiveCleared, Facts
<1>8. CASE HistoryCleared
  <2>1. ~Rebuilding
    BY <1>0, <1>8 DEF HistoryCleared, Way, Path, Rebuilding
  <2>2. /\ mem'.index = mem.index /\ mem'.rows = mem.rows /\ mem'.processed = mem.processed /\ mem'.samples = mem.samples
        /\ seen'.forgot = seen.forgot \cup {"history"}
    BY <1>0, <1>8 DEF HistoryCleared, StoreType, SeenType
  <2> QED
    BY <1>0, <1>1, <2>1, <2>2 DEF Facts
<1>9. CASE ModelsCleared
  <2>1. ~Rebuilding
    BY <1>0, <1>9 DEF ModelsCleared, Way, Path, Rebuilding
  <2>2. /\ mem'.index = mem.index /\ mem'.rows = mem.rows /\ mem'.processed = mem.processed
        /\ "models" \in seen'.forgot
    BY <1>0, <1>9 DEF ModelsCleared, StoreType, SeenType
  <2> QED
    BY <1>0, <1>1, <2>1, <2>2 DEF Facts
<1>10. CASE RestoredChunkSaved \/ RestoredIndexSaved \/ ControlRestored
  <2>1. Rebuilding'
    BY <1>0, <1>10 DEF RestoredChunkSaved, RestoredIndexSaved, ControlRestored, Way, Path, UserType,
      Rebuilding
  <2> QED
    BY <1>2, <2>1
<1>11. CASE RepairAfterRestore
  <2>1. SameBooks(mem, mem') /\ \A j \in mem.index : mem.rows[j] > 0 => j \in mem'.processed
    BY <1>11, RepairBooks DEF Files
  <2>2. "models" \in seen'.forgot
    BY <1>0, <1>11 DEF RepairAfterRestore, SeenType
  <2> QED
    BY <2>1, <2>2 DEF SameBooks, Facts
<1>12. ASSUME NEW b \in backup, RowsRestored(b) \/ WaterRestored(b)
       PROVE  Rebuilding'
  BY <1>0, <1>12 DEF RowsRestored, WaterRestored, Way, Path, UserType, Rebuilding
<1>13. ASSUME NEW b \in backup, ModelsRestored(b)
       PROVE  \A j \in mem'.index : Facts(j)'
  <2>1. ~Rebuilding
    BY <1>0, <1>2, <1>13 DEF ModelsRestored, Rebuilding, UserType
  <2>2. /\ mem'.index = mem.index /\ mem'.rows = mem.rows /\ mem'.processed = mem.processed
        /\ "models" \in seen'.forgot
    BY <1>0, <1>13 DEF ModelsRestored, StoreType, SeenType
  <2> QED
    BY <1>0, <1>1, <2>1, <2>2 DEF Facts
<1>14. ASSUME NEW b \in backup, NEW j \in Jobs, RestoreRow(b, j)
       PROVE  Rebuilding'
  BY <1>0, <1>14 DEF RestoreRow, Way, Path, UserType, Rebuilding
<1> QED
  BY <1>2, <1>4, <1>5, <1>6, <1>7, <1>8, <1>9, <1>10, <1>11, <1>12, <1>13, <1>14 DEF Handler

LEMMA DerivedOutside ==
  ASSUME Types, Way, Derived, Outside, ~seen'.overlap
  PROVE  Derived'
<1>0. /\ TakeBackup \/ Crash \/ user.step = "idle"
      /\ mem \in StoreType /\ engine \in EngineType /\ seen \in SeenType
  BY OutsideAlone DEF Way, Types
<1>1. ASSUME NEW j \in Jobs, EndJob(j)
      PROVE  Derived'
  <2>1. user.step = "idle" /\ user' = user
    BY <1>1 DEF EndJob, Types, SeenType
  <2>2. engine.step = "idle" /\ ~engine.boot /\ engine'.step = "jobs" /\ ~engine'.boot
    BY <1>0, <1>1 DEF EndJob, EngineType, Way, Place
  <2>3. /\ mem'.index = mem.index /\ mem'.rows = mem.rows /\ mem'.processed = mem.processed /\ mem'.samples = mem.samples
        /\ seen'.forgot = seen.forgot
    BY <1>0, <1>1 DEF EndJob, Archived, StoreType, SeenType
  <2> QED
    BY <2>1, <2>2, <2>3 DEF Derived, Rebuilding
<1>2. CASE TakeBackup
  BY <1>2 DEF TakeBackup, Derived, Rebuilding, Current
<1>3. ASSUME NEW layers \in Layers, Clear(layers)
      PROVE  Derived'
  <2>1. user.step = "idle" /\ engine.step = "idle" /\ ~engine.boot
    BY <1>3, RequestAlone DEF Clear, Way
  <2>2. /\ mem'.index = mem.index /\ mem'.rows = mem.rows /\ mem'.processed = mem.processed /\ mem'.samples = mem.samples
        /\ seen'.forgot = seen.forgot /\ engine' = engine
    BY <1>0, <1>3 DEF Clear, Request, StoreType, SeenType
  <2> QED
    BY <2>1, <2>2 DEF Derived, Rebuilding
<1>4. ASSUME NEW layers \in Layers, NEW b \in backup, Restore(b, layers)
      PROVE  Derived'
  <2>1. user.step = "idle" /\ engine.step = "idle" /\ ~engine.boot
    BY <1>4, RequestAlone DEF Restore, Way
  <2>2. mem' = mem /\ seen'.forgot = seen.forgot /\ engine' = engine
    BY <1>0, <1>4 DEF Restore, Request, SeenType
  <2> QED
    BY <2>1, <2>2 DEF Derived, Rebuilding
<1>5. CASE Crash
  BY <1>5 DEF Crash, AtRest, Derived
<1> QED
  BY <1>1, <1>2, <1>3, <1>4, <1>5 DEF Outside

-----------------------------------------------------------------------------
\* The two files of JobStore

LEMMA InRange ==
  ASSUME NEW h \in Seq(Jobs)
  PROVE  /\ \A k \in DOMAIN h : h[k] \in ToSet(h) /\ h[k] \in Jobs
         /\ \A x \in ToSet(h) : \E k \in DOMAIN h : h[k] = x
         /\ DOMAIN h = 1..Len(h) /\ Len(h) \in Nat
BY DEF ToSet

\* The latest jobs of a history still have to be written.  If that were all of
\* a full history, they would be HistoryLimit jobs that ended since a save.
LEMMA HeadIsWritten ==
  ASSUME NEW h \in Seq(Jobs), ToSet(h) \subseteq mem.archive, mem.archive \subseteq Jobs,
         Latest(h), ~(Len(h) < HistoryLimit), Cardinality(mem.archive \ disk.archive) < HistoryLimit
  PROVE  h # <<>> /\ h[1] \in disk.archive
<1> DEFINE S == mem.archive \ disk.archive
<1>1. Len(h) \in Nat /\ HistoryLimit \in Nat \ {0} /\ DOMAIN h = 1..Len(h) /\ Len(h) >= 1
  BY LedgerAssumption, InRange
<1>2. SUFFICES ASSUME h[1] \notin disk.archive
               PROVE  FALSE
  BY <1>1
<1>3. \A k \in 1..Len(h) : h[k] \in S
  <2>1. \A k \in 1..Len(h) : h[k] \notin disk.archive
    BY <1>1, <1>2 DEF Latest
  <2> QED
    BY <1>1, <2>1, InRange
<1>4. IsFiniteSet(S)
  <2>1. IsFiniteSet(Jobs)
    BY LedgerAssumption
  <2> QED
    BY <2>1, FS_Subset
<1>5. IsFiniteSet(1..Len(h)) /\ Cardinality(1..Len(h)) = Len(h)
  <2>1. 1 \in Int /\ Len(h) \in Int
    BY <1>1
  <2>2. IsFiniteSet(1..Len(h)) /\ Cardinality(1..Len(h)) = IF 1 > Len(h) THEN 0 ELSE Len(h) - 1 + 1
    BY <2>1, FS_Interval
  <2> QED
    BY <1>1, <2>2
<1>6. h \in Injection(1..Len(h), S)
  <2>1. h \in [1..Len(h) -> S]
    BY <1>1, <1>3
  <2>2. \A k, l \in 1..Len(h) : h[k] = h[l] => k = l
    BY <1>1 DEF Latest
  <2> QED
    BY <2>1, <2>2 DEF Injection, IsInjective
<1>7. Cardinality(1..Len(h)) <= Cardinality(S)
  <2> HIDE DEF S
  <2> QED
    BY <1>4, <1>6, FS_Injection
<1>8. Cardinality(S) \in Nat
  BY <1>4, FS_CardinalityType
<1> QED
  BY <1>1, <1>5, <1>7, <1>8

SameArchive(s, r) == r.active = s.active /\ r.history = s.history /\ r.archive = s.archive

LEMMA StoreSame ==
  ASSUME Store, SameArchive(mem, mem'), SameArchive(disk, disk'),
         engine'.step # "jobs" => engine.step # "jobs",
         "history" \notin seen'.forgot => "history" \notin seen.forgot
  PROVE  Store'
BY DEF Store, SameArchive, Unwritten, Latest

\* Once the second file is written nothing is missing from it.
LEMMA StoreWritten ==
  ASSUME Types, Store, engine.step # "jobs", mem' = mem, seen' = seen,
         disk'.active = disk.active, disk'.history = disk.history, disk'.archive = mem.archive
  PROVE  Store'
<1>1. mem \in StoreType /\ disk \in StoreType /\ mem.history \in Seq(Jobs)
  BY DEF Types, StoreType, Histories
<1>2. disk'.active = mem.active /\ disk'.history = mem.history
  BY DEF Store
<1>3. Latest(mem.history)' /\ Latest(disk.history)'
  <2>1. \A k \in DOMAIN mem.history : mem.history[k] \in mem.archive
    BY <1>1, InRange DEF Store
  <2> QED
    BY <1>2, <2>1 DEF Store, Latest
<1>4. \A j \in Jobs : ~Unwritten(j)'
  BY DEF Unwritten
<1> QED
  BY <1>1, <1>2, <1>3, <1>4 DEF Store

LEMMA StoreEngine ==
  ASSUME Types, Way, RowFiles, Store, Engine
  PROVE  Store'
<1>0. mem \in StoreType /\ disk \in StoreType /\ engine \in EngineType /\ seen \in SeenType
  BY DEF Types
<1>1. CASE SaveJobs
  <2>1. /\ mem' = mem /\ seen' = seen /\ engine'.step = "history"
        /\ disk'.active = mem.active /\ disk'.history = mem.history /\ disk'.archive = disk.archive
    BY <1>0, <1>1 DEF SaveJobs, Saved, EngineType, StoreType
  <2>2. mem.active \cap disk.archive = {}
    BY DEF Store
  <2>3. "history" \notin seen.forgot => Jobs = mem.active \cup disk.archive \cup ToSet(mem.history)
    <3>1. ToSet(mem.history) \subseteq Jobs /\ disk.archive \subseteq Jobs /\ mem.active \subseteq Jobs
      BY <1>0, SetOf DEF StoreType, Histories
    <3>2. ASSUME NEW j \in Jobs, "history" \notin seen.forgot
          PROVE  j \in mem.active \cup disk.archive \cup ToSet(mem.history)
      BY <3>2 DEF Store, Unwritten
    <3> QED
      BY <3>1, <3>2
  <2>4. Latest(mem.history)' /\ Latest(disk.history)'
    BY <2>1 DEF Store, Latest
  <2>5. \A j \in Jobs : Unwritten(j)' => Unwritten(j)
    BY <2>1 DEF Unwritten
  <2> QED
    BY <2>1, <2>2, <2>3, <2>4, <2>5 DEF Store
<1>2. CASE SaveHistory
  <2>1. /\ mem' = mem /\ seen' = seen /\ engine.step # "jobs"
        /\ disk'.active = disk.active /\ disk'.history = disk.history /\ disk'.archive = mem.archive
    BY <1>0, <1>2 DEF SaveHistory, Saved, StoreType
  <2> QED
    BY <2>1, StoreWritten
<1>3. CASE Reconcile
  <2>1. seen'.forgot = seen.forgot /\ mem' = mem /\ disk' = disk /\ engine.step = "idle"
    BY <1>0, <1>3 DEF Reconcile, SeenType
  <2> QED
    BY <2>1, StoreSame DEF SameArchive
<1>4. CASE EndSync
  BY <1>4, StoreSame DEF EndSync, Synchronised, SameArchive
<1>5. CASE BootEnds
  <2>1. SameBooks(mem, mem') /\ SameBooks(disk, disk')
    BY <1>5, BootBooks
  <2> QED
    BY <1>5, <2>1, StoreSame DEF BootEnds, Synchronised, SameBooks, SameArchive
<1>6. ASSUME NEW j \in Jobs, AppendRow(j)
      PROVE  Store'
  <2> DEFINE r == [Chunk EXCEPT ![j] = @ + 1]
  <2>1. /\ engine.step = "sync" /\ mem' = [mem EXCEPT !.rows = r] /\ disk' = disk
        /\ seen'.forgot = seen.forgot
    BY <1>0, <1>6 DEF AppendRow, SeenType
  <2> HIDE DEF r
  <2>2. SameArchive(mem, mem')
    BY <1>0, <2>1 DEF SameArchive, StoreType
  <2> QED
    BY <2>1, <2>2, StoreSame DEF SameArchive
<1>7. CASE ChunkSaved
  BY <1>0, <1>7, StoreSame DEF ChunkSaved, SameArchive, StoreType
<1>8. CASE IndexSaved
  <2>1. SameBooks(mem, mem')
    BY <1>8, IndexBooks
  <2>2. SameArchive(disk, disk')
    BY <1>0, <1>8 DEF IndexSaved, SameArchive, StoreType
  <2> QED
    BY <1>8, <2>1, <2>2, StoreSame DEF IndexSaved, SameBooks, SameArchive
<1>9. CASE WaterSaved
  BY <1>0, <1>9, StoreSame DEF WaterSaved, SameArchive, StoreType
<1>10. CASE ModelsSaved
  BY <1>0, <1>10, StoreSame DEF ModelsSaved, SameArchive, StoreType
<1> QED
  BY <1>1, <1>2, <1>3, <1>4, <1>5, <1>6, <1>7, <1>8, <1>9, <1>10 DEF Engine

LEMMA StoreHandler ==
  ASSUME Types, Way, RowFiles, Store, Handler
  PROVE  Store'
<1>0. /\ engine.step = "idle" /\ engine' = engine
      /\ mem \in StoreType /\ disk \in StoreType /\ user \in UserType /\ seen \in SeenType
  BY HandlerAlone DEF Way, Types
<1>1. CASE ControlSaved \/ WaterCleared \/ RestoredIndexSaved \/ ControlRestored
  <2>1. mem' = mem /\ SameArchive(disk, disk') /\ seen' = seen
    BY <1>0, <1>1 DEF ControlSaved, WaterCleared, RestoredIndexSaved, ControlRestored, SameArchive,
      StoreType
  <2> QED
    BY <1>0, <2>1, StoreSame DEF SameArchive
<1>2. CASE ChunksRemoved
  BY <1>0, <1>2, StoreSame DEF ChunksRemoved, SameArchive, StoreType
<1>3. CASE IndexCleared
  BY <1>0, <1>3, StoreSame DEF IndexCleared, SameArchive, StoreType
<1>4. CASE HistoryCleared
  <2>1. /\ mem'.active = mem.active /\ mem'.history = <<>> /\ mem'.archive = {}
        /\ disk'.active = mem.active /\ disk'.history = <<>> /\ disk'.archive = disk.archive
        /\ "history" \in seen'.forgot
    BY <1>0, <1>4 DEF HistoryCleared, Saved, StoreType, SeenType
  <2>2. DOMAIN <<>> = {}
    OBVIOUS
  <2>3. Latest(mem.history)' /\ Latest(disk.history)'
    BY <2>1, <2>2 DEF Latest
  <2> QED
    BY <2>1, <2>3, EmptySet DEF Store, Unwritten
<1>5. CASE ArchiveCleared
  <2>1. /\ mem' = mem /\ seen' = seen
        /\ disk'.active = disk.active /\ disk'.history = disk.history /\ disk'.archive = mem.archive
    BY <1>0, <1>5 DEF ArchiveCleared, Saved, StoreType
  <2> QED
    BY <1>0, <2>1, StoreWritten
<1>6. CASE ModelsCleared \/ \E b \in backup : ModelsRestored(b)
  <2>1. /\ SameArchive(mem, mem') /\ SameArchive(disk, disk')
        /\ seen'.forgot = seen.forgot \cup {"models"}
    BY <1>0, <1>6 DEF ModelsCleared, ModelsRestored, SameArchive, StoreType, SeenType
  <2> QED
    BY <1>0, <2>1, StoreSame
<1>7. CASE RestoredChunkSaved
  BY <1>0, <1>7, StoreSame DEF RestoredChunkSaved, SameArchive, StoreType
<1>8. CASE RepairAfterRestore
  <2>1. SameBooks(mem, mem') /\ SameBooks(disk, disk')
    BY <1>8, RepairBooks
  <2>2. seen'.forgot = seen.forgot \cup {"models"}
    BY <1>0, <1>8 DEF RepairAfterRestore, SeenType
  <2> QED
    BY <1>0, <2>1, <2>2, StoreSame DEF SameBooks, SameArchive
<1>9. ASSUME NEW b \in backup, RowsRestored(b) \/ WaterRestored(b)
      PROVE  Store'
  BY <1>0, <1>9, StoreSame DEF RowsRestored, WaterRestored, SameArchive, StoreType
<1>10. ASSUME NEW b \in backup, NEW j \in Jobs, RestoreRow(b, j)
       PROVE  Store'
  <2> DEFINE r == [Chunk EXCEPT ![j] = @ + 1]
  <2>1. mem' = [mem EXCEPT !.rows = r] /\ disk' = disk /\ seen' = seen
    BY <1>10 DEF RestoreRow
  <2> HIDE DEF r
  <2>2. SameArchive(mem, mem')
    BY <1>0, <2>1 DEF SameArchive, StoreType
  <2> QED
    BY <1>0, <2>1, <2>2, StoreSame DEF SameArchive
<1> QED
  BY <1>1, <1>2, <1>3, <1>4, <1>5, <1>6, <1>7, <1>8, <1>9, <1>10 DEF Handler

\* The list of the latest jobs gets one more, and loses its oldest when full.
LEMMA HistoryIs ==
  ASSUME Types, Store, engine.step = "idle", NEW j \in mem.active,
         Cardinality(mem.archive \ disk.archive) < HistoryLimit
  PROVE  LET h == Archived(mem, j).history
         IN  /\ ToSet(h) \subseteq ToSet(mem.history) \cup {j}
             /\ j \in ToSet(h)
             /\ \A l \in ToSet(mem.history) : l \notin disk.archive => l \in ToSet(h)
             /\ Latest(h)
<1> DEFINE old == mem.history
           h == Archived(mem, j).history
<1>0. /\ j \in Jobs /\ old \in Seq(Jobs) /\ mem \in StoreType /\ mem.archive \subseteq Jobs
      /\ HistoryLimit \in Nat \ {0} /\ Len(old) \in Nat
  BY LedgerAssumption DEF Types, StoreType, Histories
<1>1. h = IF Len(old) < HistoryLimit THEN Append(old, j) ELSE Append(Tail(old), j)
  <2> DEFINE new == IF Len(old) < HistoryLimit THEN Append(old, j) ELSE Append(Tail(old), j)
             A == mem.active \ {j}
             B == mem.archive \cup {j}
  <2>1. Archived(mem, j) = [mem EXCEPT !.active = A, !.history = new, !.archive = B]
    BY <1>0 DEF Archived, StoreType
  <2> HIDE DEF new, A, B
  <2>2. h = new
    BY <1>0, <2>1 DEF StoreType
  <2> QED
    BY <2>2 DEF new
<1>2. Latest(old) /\ j \notin ToSet(old) /\ j \notin disk.archive /\ ToSet(old) \subseteq mem.archive
  BY DEF Store
<1> HIDE DEF h, old
<1>3. CASE Len(old) < HistoryLimit
  <2>1. h = Append(old, j)
    BY <1>1, <1>3
  <2>2. /\ h \in Seq(Jobs) /\ Len(h) = Len(old) + 1 /\ \A k \in 1..Len(old) : h[k] = old[k]
        /\ h[Len(old) + 1] = j /\ ToSet(h) = ToSet(old) \cup {j}
    BY <1>0, <2>1, AppendSet
  <2>3. Latest(h)
    <3>1. DOMAIN h = 1..Len(old) + 1 /\ DOMAIN old = 1..Len(old)
          /\ \A k \in 1..Len(old) : old[k] \in ToSet(old)
      BY <1>0, <2>2, InRange
    <3>2. ASSUME NEW k \in 1..Len(old) + 1, NEW l \in 1..Len(old) + 1
          PROVE  /\ k # l => h[k] # h[l]
                 /\ k < l /\ h[k] \notin disk.archive => h[l] \notin disk.archive
      <4>1. CASE k \in 1..Len(old) /\ l \in 1..Len(old)
        BY <1>2, <2>2, <3>1, <4>1 DEF Latest
      <4>2. CASE k = Len(old) + 1 /\ l \in 1..Len(old)
        BY <1>0, <1>2, <2>2, <3>1, <4>2
      <4>3. CASE k \in 1..Len(old) /\ l = Len(old) + 1
        BY <1>0, <1>2, <2>2, <3>1, <4>3
      <4>4. CASE k = Len(old) + 1 /\ l = Len(old) + 1
        BY <1>0, <4>4
      <4> QED
        BY <1>0, <4>1, <4>2, <4>3, <4>4
    <3> QED
      BY <3>1, <3>2 DEF Latest
  <2> QED
    BY <2>2, <2>3 DEF h, old
<1>4. CASE ~(Len(old) < HistoryLimit)
  <2> DEFINE t == Tail(old)
  <2>0. old # <<>> /\ old[1] \in disk.archive
    BY <1>0, <1>2, <1>4, HeadIsWritten
  <2>1. h = Append(t, j)
    BY <1>1, <1>4
  <2>2. /\ t \in Seq(Jobs) /\ Len(t) = Len(old) - 1 /\ Len(t) \in Nat
        /\ \A k \in 1..Len(t) : t[k] = old[k + 1]
        /\ ToSet(old) = ToSet(t) \cup {old[1]}
    BY <1>0, <2>0, TailSet
  <2> HIDE DEF t
  <2>3. /\ h \in Seq(Jobs) /\ Len(h) = Len(t) + 1 /\ \A k \in 1..Len(t) : h[k] = t[k]
        /\ h[Len(t) + 1] = j /\ ToSet(h) = ToSet(t) \cup {j}
    BY <1>0, <2>1, <2>2, AppendSet
  <2>4. Latest(h)
    <3>1. DOMAIN h = 1..Len(t) + 1 /\ DOMAIN old = 1..Len(old)
          /\ \A k \in 1..Len(old) : old[k] \in ToSet(old)
      BY <1>0, <2>3, InRange
    <3>2. \A k \in 1..Len(t) : h[k] = old[k + 1] /\ k + 1 \in 1..Len(old)
      BY <1>0, <2>2, <2>3
    <3>3. ASSUME NEW k \in 1..Len(t) + 1, NEW l \in 1..Len(t) + 1
          PROVE  /\ k # l => h[k] # h[l]
                 /\ k < l /\ h[k] \notin disk.archive => h[l] \notin disk.archive
      <4>1. CASE k \in 1..Len(t) /\ l \in 1..Len(t)
        <5>1. k + 1 \in DOMAIN old /\ l + 1 \in DOMAIN old /\ (k # l => k + 1 # l + 1)
              /\ (k < l => k + 1 < l + 1)
          BY <3>1, <3>2, <4>1
        <5>2. h[k] = old[k + 1] /\ h[l] = old[l + 1]
          BY <3>2, <4>1
        <5> QED
          BY <1>2, <5>1, <5>2 DEF Latest
      <4>2. CASE k = Len(t) + 1 /\ l \in 1..Len(t)
        BY <1>2, <2>2, <2>3, <3>1, <3>2, <4>2
      <4>3. CASE k \in 1..Len(t) /\ l = Len(t) + 1
        BY <1>2, <2>2, <2>3, <3>1, <3>2, <4>3
      <4>4. CASE k = Len(t) + 1 /\ l = Len(t) + 1
        BY <2>2, <4>4
      <4> QED
        BY <2>2, <4>1, <4>2, <4>3, <4>4
    <3> QED
      BY <3>1, <3>3 DEF Latest
  <2>5. \A l \in ToSet(old) : l \notin disk.archive => l \in ToSet(h)
    BY <2>0, <2>2, <2>3
  <2>6. ToSet(h) \subseteq ToSet(old) \cup {j} /\ j \in ToSet(h)
    BY <2>2, <2>3
  <2> QED
    BY <2>4, <2>5, <2>6 DEF h, old
<1> QED
  BY <1>3, <1>4

LEMMA StoreOutside ==
  ASSUME Types, Way, Store, Outside, ~seen'.overlap
  PROVE  Store'
<1>0. /\ TakeBackup \/ Crash \/ user.step = "idle"
      /\ mem \in StoreType /\ disk \in StoreType /\ engine \in EngineType /\ seen \in SeenType
  BY OutsideAlone DEF Way, Types
<1>1. ASSUME NEW j \in Jobs, EndJob(j)
      PROVE  Store'
  <2>1. /\ engine.step = "idle" /\ engine'.step = "jobs" /\ disk' = disk
        /\ seen'.forgot = seen.forgot /\ j \in mem.active
        /\ Cardinality(mem.archive \ disk.archive) < HistoryLimit
    BY <1>0, <1>1 DEF EndJob, EngineType, SeenType
  <2>2. mem' = Archived(mem, j)
    BY <1>1 DEF EndJob
  <2> DEFINE h == Archived(mem, j).history
  <2>3. /\ ToSet(h) \subseteq ToSet(mem.history) \cup {j} /\ j \in ToSet(h)
        /\ \A l \in ToSet(mem.history) : l \notin disk.archive => l \in ToSet(h)
        /\ Latest(h)
    BY <2>1, HistoryIs
  <2>4. mem'.active = mem.active \ {j} /\ mem'.archive = mem.archive \cup {j} /\ mem'.history = h
    BY <1>0, <2>2 DEF Archived, StoreType
  <2> HIDE DEF h
  <2>5. Latest(mem.history)' /\ Latest(disk.history)'
    BY <2>1, <2>3, <2>4 DEF Store, Latest
  <2>6. \A l \in Jobs : Unwritten(l)' => l \in ToSet(mem'.history)
    BY <2>1, <2>3, <2>4 DEF Store, Unwritten
  <2>7. /\ mem'.active \cap (mem'.archive \cup ToSet(mem'.history)) = {}
        /\ mem'.active \subseteq disk'.active
        /\ ToSet(mem'.history) \subseteq mem'.archive
    BY <2>1, <2>3, <2>4 DEF Store
  <2>8. "history" \notin seen'.forgot => Jobs = mem'.active \cup mem'.archive
    BY <1>0, <2>1, <2>4 DEF Store, StoreType
  <2> QED
    BY <2>1, <2>5, <2>6, <2>7, <2>8 DEF Store
<1>2. CASE TakeBackup
  BY <1>2, StoreSame DEF TakeBackup, SameArchive
<1>3. ASSUME NEW layers \in Layers, Clear(layers)
      PROVE  Store'
  <2>1. SameArchive(mem, mem') /\ disk' = disk /\ seen'.forgot = seen.forgot /\ engine' = engine
    BY <1>0, <1>3 DEF Clear, Request, SameArchive, StoreType, SeenType
  <2> QED
    BY <2>1, StoreSame DEF SameArchive
<1>4. ASSUME NEW layers \in Layers, NEW b \in backup, Restore(b, layers)
      PROVE  Store'
  <2>1. mem' = mem /\ disk' = disk /\ seen'.forgot = seen.forgot /\ engine' = engine
    BY <1>0, <1>4 DEF Restore, Request, SeenType
  <2> QED
    BY <2>1, StoreSame DEF SameArchive
<1>5. CASE Crash
  <2>1. /\ disk' = disk /\ mem'.archive = disk.archive \cup ToSet(disk.history)
        /\ mem'.active = disk.active \ ToSet(disk.history) /\ mem'.history = disk.history
    BY <1>0, <1>5 DEF Crash, Loaded, StoreType
  <2>2. "history" \notin seen'.forgot => "history" \notin seen.forgot
    BY <1>0, <1>5 DEF Crash, SeenType
  <2>3. mem'.active = disk.active
    BY <2>1 DEF Store
  <2>4. Latest(mem.history)' /\ Latest(disk.history)'
    BY <2>1 DEF Store, Latest
  <2>5. \A l \in Jobs : Unwritten(l)' => l \in ToSet(mem'.history)
    BY <2>1 DEF Unwritten
  <2> QED
    BY <2>1, <2>2, <2>3, <2>4, <2>5 DEF Store
<1> QED
  BY <1>1, <1>2, <1>3, <1>4, <1>5 DEF Outside

-----------------------------------------------------------------------------
\* The invariant and what follows from it

LEMMA IInvInit == Init => IInv
<1> SUFFICES ASSUME Init
             PROVE  IInv
  OBVIOUS
<1>1. Types
  BY TypesInit
<1>2. Waters
  BY EmptyType DEF Init, Waters
<1>3. Way
  BY DEF Init, AtRest, NoRequest, Way, Exclusive, Place, Path
<1>4. Files
  BY DEF Init, AtRest, NoRequest, Empty, Files, RowFiles, IndexFiles, ResetFiles
<1>5. Entries
  <2>1. mem.index = {} /\ \A j \in Jobs : mem.rows[j] = 0
    BY DEF Init, Empty, Nothing
  <2> QED
    BY <2>1 DEF Entries, Doubled
<1>6. Derived
  BY DEF Init, Empty, Derived
<1>7. Store
  <2>1. DOMAIN <<>> = {}
    OBVIOUS
  <2>2. /\ mem.active = Jobs /\ mem.history = <<>> /\ mem.archive = {} /\ disk = mem
    BY DEF Init, Empty
  <2> QED
    BY <2>1, <2>2, EmptySet DEF Store, Latest, Unwritten
<1> QED
  BY <1>1, <1>2, <1>3, <1>4, <1>5, <1>6, <1>7 DEF IInv, Core

LEMMA CoreStep ==
  ASSUME Types, Core, [Next]_vars, ~seen'.overlap
  PROVE  Core'
<1>0. Way /\ Files /\ RowFiles /\ Entries /\ Derived /\ Store
  BY DEF Core, Files
<1>1. CASE UNCHANGED vars
  <2>1. Way'
    BY <1>0, <1>1 DEF vars, Way, Exclusive, Place, Path, Current
  <2>2. Files'
    BY <1>0, <1>1 DEF vars, Files, RowFiles, IndexFiles, ResetFiles, Increased, Current, Restored
  <2>3. Entries' /\ Derived'
    BY <1>0, <1>1 DEF vars, Entries, Half, Stray, Doubled, Derived, Rebuilding, Current, Restored
  <2>4. Store'
    BY <1>0, <1>1 DEF vars, Store, Latest, Unwritten
  <2> QED
    BY <2>1, <2>2, <2>3, <2>4 DEF Core
<1>2. CASE Engine
  BY <1>0, <1>2, WayEngine, FilesEngine, EntriesEngine, DerivedEngine, StoreEngine DEF Core
<1>3. CASE Handler
  BY <1>0, <1>3, WayHandler, FilesHandler, EntriesHandler, DerivedHandler, StoreHandler DEF Core
<1>4. CASE Outside
  BY <1>0, <1>4, WayOutside, FilesOutside, EntriesOutside, DerivedOutside, StoreOutside DEF Core
<1> QED
  BY <1>1, <1>2, <1>3, <1>4 DEF Next, Outside

LEMMA IInvStep == IInv /\ [Next]_vars => IInv'
<1> SUFFICES ASSUME IInv, [Next]_vars
             PROVE  IInv'
  OBVIOUS
<1>1. Types'
  BY TypesStep DEF IInv
<1>2. Waters'
  BY WatersStep DEF IInv
<1>3. ASSUME ~seen'.overlap
      PROVE  Core'
  <2>1. ~seen.overlap
    BY <1>3, OverlapStays DEF IInv
  <2> QED
    BY <1>3, <2>1, CoreStep DEF IInv
<1> QED
  BY <1>1, <1>2, <1>3 DEF IInv

\* The inductive invariant of jobs, files, index and derived facts holds.
THEOREM Invariant == Spec => []IInv
BY IInvInit, IInvStep, PTL DEF Spec

LEMMA BooksOfIndex ==
  ASSUME Types, Core
  PROVE  /\ \A j \in Jobs \ (seen.torn \cup seen.split) : Visible(mem)[j] <= 1
         /\ Quiet =>
              LET booked == Booked([mem EXCEPT !.rows = Chunk])
              IN  /\ mem.index \ seen.emptied \subseteq booked
                  /\ booked \ seen.split \subseteq mem.index
                  /\ \A j \in booked : mem.rows[j] > 0
<1>0. mem \in StoreType /\ Entries /\ RowFiles
  BY DEF Types, Core, Files
<1>1. ASSUME NEW j \in Jobs \ (seen.torn \cup seen.split)
      PROVE  Visible(mem)[j] <= 1
  BY <1>0 DEF Visible, Nothing, Entries, StoreType
<1>2. ASSUME Quiet
      PROVE  /\ mem.index \ seen.emptied \subseteq Booked(mem)
             /\ Booked(mem) \ seen.split \subseteq mem.index
             /\ \A j \in Booked(mem) : mem.rows[j] > 0
  <2>1. ~engine.boot
    BY <1>2 DEF Quiet, Core, Way, Place
  <2>2. ASSUME NEW j \in Jobs
        PROVE  /\ j \in mem.index /\ j \notin seen.emptied => mem.rows[j] > 0
               /\ mem.rows[j] > 0 /\ j \notin seen.split => j \in mem.index
    BY <1>0, <1>2, <2>1 DEF Quiet, Entries, Half, Stray
  <2>3. mem.index \subseteq Jobs
    BY <1>0 DEF StoreType
  <2>4. Booked(mem) = {j \in Jobs : mem.index # {} /\ mem.rows[j] > 0}
    BY DEF Booked, Visible, Nothing
  <2>5. ASSUME NEW j \in mem.index, j \notin seen.emptied
        PROVE  j \in Booked(mem)
    BY <2>2, <2>3, <2>4, <2>5
  <2>6. ASSUME NEW j \in Booked(mem), j \notin seen.split
        PROVE  j \in mem.index
    BY <2>2, <2>4, <2>6
  <2>7. \A j \in Booked(mem) : mem.rows[j] > 0
    BY <2>4
  <2> QED
    BY <2>5, <2>6, <2>7
<1>3. [mem EXCEPT !.rows = Chunk] = mem
  BY <1>0, ChunkIs DEF StoreType
<1> QED
  BY <1>1, <1>2, <1>3

\* Unless a request overlapped a synchronisation, a job is one row of the
\* statistics at most, and in any case its water is used once: whatever
\* crashes, clears and restores there were (async_append, async_sync_jobs, and
\* the repair of the water facts).  The exceptions are the jobs whose row a
\* crash separated from the index, in a reconcile or in a restore: the next
\* append adds a second one.
THEOREM RowsAreCountedOnce == Spec => []CountedOnce
<1>1. IInv => CountedOnce
  BY BooksOfIndex DEF IInv, CountedOnce, Waters, WaterSane
<1> QED
  BY <1>1, Invariant, PTL

\* And once nothing is under way the files agree, whatever crashed in between,
\* clears and restores included: the index names exactly the jobs that have a
\* row, their water facts exist, and so do their training samples unless the
\* models were cleared or replaced since the last start.  Two crashes are
\* exceptions, each for the jobs it hit: between the removal of the chunks and
\* the save of the index in a clear (statistics_store.py:180 to 192), after
\* which the index names jobs without a row that no synchronisation books, and
\* between a row and its index in a restore.  Nothing is said when a request
\* overlapped a synchronisation.
THEOREM AccountsSettle == Spec => []SettledAccounts
<1> DEFINE booked == Booked([mem EXCEPT !.rows = Chunk])
<1>1. ASSUME IInv, Quiet, ~seen.overlap
      PROVE  /\ mem.index \ seen.emptied \subseteq booked
             /\ booked \ seen.split \subseteq mem.index
             /\ booked \cap mem.index \subseteq mem.processed
             /\ "models" \notin seen.forgot => booked \cap mem.index \subseteq mem.samples
  <2>1. Types /\ Core
    BY <1>1 DEF IInv
  <2>2. ~engine.boot /\ ~Rebuilding /\ engine.step = "idle"
    BY <1>1, <2>1 DEF Quiet, Core, Way, Place, Rebuilding
  <2>3. /\ mem.index \ seen.emptied \subseteq booked /\ booked \ seen.split \subseteq mem.index
        /\ \A j \in booked : mem.rows[j] > 0
    BY <1>1, <2>1, BooksOfIndex
  <2> HIDE DEF booked
  <2> QED
    BY <2>1, <2>2, <2>3, <1>1 DEF Core, Derived
<1>2. IInv => SettledAccounts
  BY <1>1 DEF SettledAccounts
<1> QED
  BY <1>2, Invariant, PTL

\* The two files of JobStore, written one after the other and read together
\* after a crash (async_save, async_load), bring no archived job back to life
\* and lose none unless the user cleared the history; a crash in the clear
\* itself is no exception.  Nothing is said when a request overlapped a
\* synchronisation.
THEOREM NoJobIsLostNorRevived == Spec => []NeverLostNorRevived
<1>1. IInv => NeverLostNorRevived
  BY DEF IInv, Core, Store, NeverLostNorRevived
<1> QED
  BY <1>1, Invariant, PTL

-----------------------------------------------------------------------------
(***************************************************************************)
(* External cleanings and charges.                                         *)
(*                                                                         *)
(* A session knows a run by the floor work it saw of it (Seen), and no two *)
(* records know the same run unless it was interrupted (Apart).  A session *)
(* whose silence is timed is over: what it saw before the silence will not *)
(* be seen again (SessionSane).  The Scheduler's run is excused, or no     *)
(* session is open to it (Closed).  The file is an older version of the    *)
(* session in memory, silent only if that is (Synced).                     *)
(***************************************************************************)

RowSet == [run : Nat, status : Floor \cup {"washing"}]
SessionSet ==
  [rows : SUBSET RowSet, span : SUBSET Nat, silent : Int, error : BOOLEAN, power : BOOLEAN]
Sessions == {NoSession} \cup {<<s>> : s \in SessionSet}
JobSet ==
  [rows : SUBSET RowSet, span : SUBSET Nat, water : {"wet", "dry", "unknown"},
   result : {"failed", "success"}]
Statuses == Floor \cup {"idle", "paused", "washing", "mapping", "returning", "error"}

SegmentSet == [start : Int, end : Int, age : Int, at : Int, dropped : BOOLEAN, boots : SUBSET Nat]
Reasons == {"left_dock", "battery_drop", "battery_full", "integration_stop", "restart_boundary"}
Ledgers ==
  [active : {<<>>} \cup {<<a>> : a \in SegmentSet},
   sessions : SUBSET [a : SegmentSet, reason : Reasons]]

TruthFields ==
  [excused : SUBSET Nat, interrupted : SUBSET Nat, noticed : SUBSET Nat, lost : SUBSET Nat,
   mishaps : Int, drops : Int]

Typed ==
  /\ up \in BOOLEAN /\ owned \in BOOLEAN /\ alarm \in BOOLEAN /\ boots \in Nat
  /\ robot \in [status : Statuses, inRun : BOOLEAN, seen : BOOLEAN, ended : BOOLEAN]
  /\ runs \in Seq({"outside", "scheduler"})
  /\ tracker \in [session : Sessions, before : SUBSET RowSet]
  /\ jobs \in Seq(JobSet)
  /\ pc \in [step : {"idle", "save", "arbitrate"}, job : {<<>>} \cup {<<j>> : j \in JobSet}]
  /\ battery \in [level : Int, docked : BOOLEAN, seen : BOOLEAN]
  /\ charging \in Ledgers
  /\ stored \in [session : Sessions, jobs : Seq(JobSet), charging : Ledgers]
  /\ truth \in TruthFields

\* The job that is on its way to the archive, if any.
Archiving == IF pc.step = "save" THEN pc.job ELSE <<>>

\* Floor work is done in a run; a robot that fails in a run is on record.
Sane ==
  /\ robot.inRun => runs # <<>>
  /\ robot.status \in Floor => robot.inRun
  /\ robot.inRun /\ robot.status = "error" => ThisRun \in truth.interrupted

\* A run that will not be seen any more, or is on record as interrupted.
Over(r) == r \in 1..ThisRun /\ (r = ThisRun /\ robot.inRun => r \in truth.interrupted)

\* What a record may know of the runs.
Known(R) ==
  /\ R \subseteq 1..ThisRun
  /\ \A r \in R : runs[r] = "scheduler" => r \in truth.excused

\* A run that is out of sight was not seen before it was.
Hidden(R) == ~robot.seen /\ robot.inRun /\ ThisRun \in R => ThisRun \in truth.interrupted

SessionSane(q) ==
  /\ Known(Seen(q)) /\ Hidden(Seen(q))
  /\ q # NoSession =>
       /\ q[1].span \subseteq Seen(q)
       /\ q[1].silent >= 0 => \A r \in q[1].span : Over(r)

JobSane(j) == Known(j.span) /\ \A r \in j.span : Over(r)

Records ==
  /\ \A q \in {tracker.session, stored.session} : SessionSane(q)
  /\ \A j \in Range(jobs) \cup Range(Archiving) : JobSane(j)

Disjoint(R, S) == R \cap S \subseteq truth.interrupted

\* Only the file may still hold the session that is being archived.
Apart ==
  /\ \A i, k \in DOMAIN jobs : i # k => Disjoint(jobs[i].span, jobs[k].span)
  /\ \A i \in DOMAIN jobs : /\ Disjoint(jobs[i].span, Seen(tracker.session))
                            /\ Disjoint(jobs[i].span, Seen(stored.session))
                            /\ \A k \in DOMAIN Archiving : Disjoint(jobs[i].span, Archiving[k].span)
  /\ \A k \in DOMAIN Archiving : Disjoint(Archiving[k].span, Seen(tracker.session))

\* Archived jobs reach the file in their order.
Filed == Len(stored.jobs) <= Len(jobs) /\ \A i \in DOMAIN stored.jobs : stored.jobs[i] = jobs[i]

ShutOut(q) == q # NoSession => q[1].silent >= 0

Synced ==
  (up \/ pc.step = "arbitrate") /\ pc.step # "save" =>
    /\ tracker.session = NoSession => stored.session = NoSession
    /\ ShutOut(tracker.session) => ShutOut(stored.session)

\* While the Scheduler cleans no session is open to its run.
Closed ==
  robot.inRun /\ runs[ThisRun] = "scheduler" /\ ThisRun \notin truth.excused
    => owned /\ ShutOut(tracker.session) /\ ShutOut(stored.session)

\* A segment is watched by one run of Home Assistant, the level never falling.
Unbroken(a) == (\E b \in Nat : a.boots = {b}) /\ ~a.dropped
Whole(c) ==
  /\ c.active # <<>> => Unbroken(c.active[1])
  /\ \A x \in c.sessions :
       (\E b \in Nat : x.a.boots = {b}) /\ (x.a.dropped => x.reason = "left_dock")

Charged ==
  /\ Whole(charging) /\ Whole(stored.charging)
  /\ up /\ charging.active # <<>> => charging.active[1].boots = {boots}

\* A session whose silence is timed has told its runs to the job it becomes.
Remembers(q) == q # NoSession /\ q[1].silent >= 0 => Seen(q) \subseteq q[1].span

Queued == Spans(jobs) \cup Spans(pc.job)

\* A run that once was in the tracker's file is still there, or is in a job on
\* disk or on its way there, or was lost with that job; and while the job can
\* still get there, memory knows the run too.
Kept ==
  /\ pc.step # "save" => pc.job = <<>>
  /\ up /\ pc.step = "idle" => stored.jobs = jobs
  /\ \A q \in {tracker.session, stored.session} : Remembers(q)
  /\ truth.noticed \subseteq Seen(stored.session) \cup Spans(stored.jobs) \cup Queued \cup truth.lost
  /\ up \/ pc.step # "idle" =>
       truth.noticed \subseteq Seen(tracker.session) \cup Queued \cup truth.lost

SessionInv ==
  /\ Typed /\ Sane /\ Records /\ Apart /\ Filed /\ Synced /\ Closed
  /\ Charged

-----------------------------------------------------------------------------
(* Charging *)

LEMMA LedgerFields ==
  ASSUME NEW c \in Ledgers
  PROVE  /\ c = [active |-> c.active, sessions |-> c.sessions]
         /\ c.sessions \in SUBSET [a : SegmentSet, reason : Reasons]
         /\ c.active # <<>> => c.active[1] \in SegmentSet /\ c.active = <<c.active[1]>>
  BY DEF Ledgers

LEMMA SegmentFields ==
  ASSUME NEW a \in SegmentSet
  PROVE  /\ a.start \in Int /\ a.end \in Int /\ a.age \in Int /\ a.at \in Int
         /\ a.dropped \in BOOLEAN /\ a.boots \in SUBSET Nat
  BY DEF SegmentSet

\* A segment that ends becomes a row, or is dropped.
LEMMA FinalizedWhole ==
  ASSUME NEW c \in Ledgers, NEW reason \in Reasons,
         \A x \in c.sessions : (\E b \in Nat : x.a.boots = {b}) /\ (x.a.dropped => x.reason = "left_dock"),
         c.active # <<>> => /\ \E b \in Nat : c.active[1].boots = {b}
                            /\ c.active[1].dropped => reason = "left_dock"
  PROVE  /\ Finalized(c, reason) \in Ledgers /\ Finalized(c, reason).active = <<>>
         /\ Whole(Finalized(c, reason))
<1>1. CASE c.active = <<>>
  BY <1>1 DEF Finalized, Whole
<1>2. CASE c.active # <<>>
  <2>1. PICK a \in SegmentSet : a = c.active[1]
    BY <1>2, LedgerFields
  <2>2. PICK row : row = [a |-> a, reason |-> reason]
    OBVIOUS
  <2>3. row \in [a : SegmentSet, reason : Reasons] /\ row.a = a /\ row.reason = reason
    BY <2>2
  <2>4. PICK S : S = IF a.end > a.start /\ a.at > 0 THEN c.sessions \cup {row} ELSE c.sessions
    OBVIOUS
  <2>5. Finalized(c, reason) = [active |-> <<>>, sessions |-> S]
    BY <1>2, <2>1, <2>2, <2>4 DEF Finalized
  <2>6. S \subseteq c.sessions \cup {row}
    BY <2>4
  <2>7. S \in SUBSET [a : SegmentSet, reason : Reasons]
    BY <2>6, <2>3, LedgerFields
  <2>8. Finalized(c, reason) \in Ledgers
    BY <2>5, <2>7 DEF Ledgers
  <2>9. \A x \in S : (\E b \in Nat : x.a.boots = {b}) /\ (x.a.dropped => x.reason = "left_dock")
    BY <2>6, <2>3, <2>1, <1>2
  <2> QED
    BY <2>5, <2>8, <2>9 DEF Whole
<1> QED
  BY <1>1, <1>2

LEMMA SegmentFresh ==
  ASSUME battery.level \in Int, NEW b \in Nat
  PROVE  Segment(b) \in SegmentSet /\ Segment(b).boots = {b} /\ ~Segment(b).dropped
  BY DEF Segment, SegmentSet

LEMMA OpenedWhole ==
  ASSUME NEW c \in Ledgers, Whole(c), c.active = <<>>, battery.level \in Int, NEW b \in Nat
  PROVE  /\ Opened(c, b) \in Ledgers /\ Whole(Opened(c, b))
         /\ Opened(c, b).active # <<>> => Opened(c, b).active[1].boots = {b}
<1>1. CASE battery.level < Full
  <2>1. PICK a \in SegmentSet : a = Segment(b) /\ a.boots = {b} /\ ~a.dropped
    BY SegmentFresh
  <2>2. Opened(c, b) = [active |-> <<a>>, sessions |-> c.sessions]
    BY <1>1, <2>1, LedgerFields DEF Opened
  <2>3. Opened(c, b) \in Ledgers
    BY <2>2, LedgerFields DEF Ledgers
  <2> QED
    BY <2>1, <2>2, <2>3 DEF Whole, Unbroken
<1>2. CASE ~(battery.level < Full)
  BY <1>2 DEF Opened
<1> QED
  BY <1>1, <1>2

LEMMA SampledFields ==
  ASSUME NEW a \in SegmentSet, battery.level \in Int, NEW b \in Nat, a.boots = {b}, ~a.dropped
  PROVE  /\ Sampled(a, b) \in SegmentSet /\ Sampled(a, b).boots = {b}
         /\ ~Dropped(a) => ~Sampled(a, b).dropped
<1>1. PICK fell : fell = (a.dropped \/ battery.level < a.end)
  OBVIOUS
<1>2. fell \in BOOLEAN /\ (~Dropped(a) => ~fell)
  BY <1>1 DEF Dropped
<1>3. PICK x : x = [a EXCEPT !.end = battery.level]
  OBVIOUS
<1>4. PICK y : y = [x EXCEPT !.at = a.age]
  OBVIOUS
<1>5. PICK z : z = [y EXCEPT !.dropped = fell]
  OBVIOUS
<1>6. x \in SegmentSet /\ x.dropped = a.dropped /\ x.boots = a.boots /\ x.age = a.age
  BY <1>3 DEF SegmentSet
<1>7. y \in SegmentSet /\ y.dropped = a.dropped /\ y.boots = a.boots
  BY <1>4, <1>6, SegmentFields DEF SegmentSet
<1>8. z \in SegmentSet /\ z.dropped = fell /\ z.boots = {b}
  BY <1>5, <1>7, <1>2 DEF SegmentSet
<1>9. z.boots \cup {b} = {b}
  BY <1>8
<1>10. PICK w : w = [z EXCEPT !.boots = {b}]
  OBVIOUS
<1>11. w \in SegmentSet /\ w.dropped = fell /\ w.boots = {b}
  BY <1>8, <1>10 DEF SegmentSet
<1>12. Sampled(a, b) = w
  <2>1. a.boots \cup {b} = {b}
    OBVIOUS
  <2> QED
    BY <2>1, <1>1, <1>3, <1>4, <1>5, <1>10 DEF Sampled
<1> QED
  BY <1>2, <1>11, <1>12

\* async_observe keeps every segment, open or closed, unbroken.
LEMMA ObservedWhole ==
  ASSUME NEW c \in Ledgers, Whole(c), NEW b \in Nat, c.active # <<>> => c.active[1].boots = {b},
         battery.level \in Int
  PROVE  /\ Observed(c, b) \in Ledgers /\ Whole(Observed(c, b))
         /\ Observed(c, b).active # <<>> => Observed(c, b).active[1].boots = {b}
<1>1. CASE ~battery.seen \/ (~battery.docked /\ c.active = <<>>)
  BY <1>1 DEF Observed
<1>2. CASE battery.seen /\ battery.docked /\ c.active = <<>>
  BY <1>2, OpenedWhole DEF Observed
<1>3. CASE battery.seen /\ c.active # <<>>
  <2>1. PICK a \in SegmentSet : a = c.active[1] /\ c.active = <<a>> /\ a.boots = {b} /\ ~a.dropped
    BY <1>3, LedgerFields DEF Whole, Unbroken
  <2>2. PICK n \in SegmentSet : n = Sampled(a, b) /\ n.boots = {b} /\ (~Dropped(a) => ~n.dropped)
    BY <2>1, SampledFields
  <2>3. PICK d : d = [c EXCEPT !.active = <<Sampled(@[1], b)>>]
    OBVIOUS
  <2>4. d = [active |-> <<n>>, sessions |-> c.sessions]
    BY <2>1, <2>2, <2>3, LedgerFields
  <2>5. d \in Ledgers /\ d.active # <<>> /\ d.active[1] = n /\ d.sessions = c.sessions
    BY <2>4, LedgerFields DEF Ledgers
  <2>6. \A x \in c.sessions : (\E e \in Nat : x.a.boots = {e}) /\ (x.a.dropped => x.reason = "left_dock")
    BY DEF Whole
  <2>7. CASE ~battery.docked
    <3>1. Observed(c, b) = Finalized(d, "left_dock")
      BY <2>7, <1>3, <2>3 DEF Observed
    <3>2. "left_dock" \in Reasons
      BY DEF Reasons
    <3> QED
      BY <3>1, <3>2, <2>2, <2>5, <2>6, FinalizedWhole
  <2>8. CASE battery.docked /\ Dropped(a)
    <3>1. Observed(c, b) = Opened(Finalized(c, "battery_drop"), b)
      BY <2>8, <1>3, <2>1 DEF Observed
    <3>2. "battery_drop" \in Reasons
      BY DEF Reasons
    <3>3. PICK e : e = Finalized(c, "battery_drop")
      OBVIOUS
    <3>4. e \in Ledgers /\ e.active = <<>> /\ Whole(e)
      BY <3>2, <3>3, <2>1, <2>6, FinalizedWhole
    <3> QED
      BY <3>1, <3>3, <3>4, OpenedWhole
  <2>9. CASE battery.docked /\ ~Dropped(a)
    <3>1. Observed(c, b) = IF battery.level = Full THEN Finalized(d, "battery_full") ELSE d
      BY <2>9, <1>3, <2>1, <2>3 DEF Observed
    <3>2. Whole(d)
      BY <2>2, <2>5, <2>6, <2>9 DEF Whole, Unbroken
    <3>3. "battery_full" \in Reasons
      BY DEF Reasons
    <3>4. PICK e : e = Finalized(d, "battery_full")
      OBVIOUS
    <3>5. e \in Ledgers /\ e.active = <<>> /\ Whole(e)
      BY <3>3, <3>4, <2>2, <2>5, <2>6, <2>9, FinalizedWhole
    <3>6. Observed(c, b) = e \/ Observed(c, b) = d
      BY <3>1, <3>4
    <3> QED
      BY <3>2, <3>5, <3>6, <2>2, <2>5
  <2> QED
    BY <2>7, <2>8, <2>9
<1> QED
  BY <1>1, <1>2, <1>3

-----------------------------------------------------------------------------
(* What a step leaves as it was *)

\* Physical time goes on: runs are added, a run that has ended has ended, and
\* what was excused or interrupted stays so.
Onward ==
  /\ runs' \in Seq({"outside", "scheduler"}) /\ Len(runs) <= Len(runs')
  /\ \A r \in 1..Len(runs) : runs'[r] = runs[r]
  /\ truth.excused \subseteq truth'.excused /\ truth.interrupted \subseteq truth'.interrupted
  /\ Len(runs') = Len(runs) /\ robot'.inRun => robot.inRun

\* A run that goes out of sight has not been seen, or is interrupted.
Watched ==
  \A R \in SUBSET (1..ThisRun) : Hidden(R) => Hidden(R)'

LEMMA Length ==
  ASSUME Typed
  PROVE  ThisRun \in Nat /\ runs \in Seq({"outside", "scheduler"})
  BY DEF Typed, ThisRun

LEMMA KnownStays ==
  ASSUME Typed, Onward, NEW R, Known(R)
  PROVE  Known(R)'
<1>1. Len(runs) \in Nat /\ Len(runs') \in Nat /\ Len(runs) <= Len(runs')
  BY DEF Typed, Onward
<1>2. R \subseteq 1..Len(runs) /\ \A r \in R : runs[r] = "scheduler" => r \in truth.excused
  BY DEF Known, ThisRun
<1>3. R \subseteq 1..Len(runs')
  BY <1>1, <1>2
<1>4. \A r \in R : runs'[r] = "scheduler" => r \in truth'.excused
  BY <1>2 DEF Onward
<1> QED
  BY <1>3, <1>4 DEF Known, ThisRun

LEMMA OverStays ==
  ASSUME Typed, Onward, NEW r, Over(r)
  PROVE  Over(r)'
<1>1. Len(runs) \in Nat /\ Len(runs') \in Nat /\ Len(runs) <= Len(runs')
  BY DEF Typed, Onward
<1>2. r \in 1..Len(runs) /\ (r = Len(runs) /\ robot.inRun => r \in truth.interrupted)
  BY DEF Over, ThisRun
<1>3. r \in 1..Len(runs')
  BY <1>1, <1>2
<1>4. ASSUME r = Len(runs'), robot'.inRun PROVE r \in truth'.interrupted
  <2>1. Len(runs') = Len(runs)
    BY <1>4, <1>1, <1>2
  <2> QED
    BY <2>1, <1>2, <1>4 DEF Onward
<1> QED
  BY <1>3, <1>4 DEF Over, ThisRun

LEMMA SessionStays ==
  ASSUME Typed, Onward, Watched, NEW q, SessionSane(q)
  PROVE  SessionSane(q)'
<1>1. PICK R : R = Seen(q)
  OBVIOUS
<1>2. Seen(q)' = R
  BY <1>1 DEF Seen, FloorRuns
<1>3. Known(R) /\ Hidden(R)
  BY <1>1 DEF SessionSane
<1>4. Known(R)'
  BY <1>3, KnownStays
<1>5. R \subseteq 1..ThisRun
  BY <1>3 DEF Known
<1>6. Hidden(R)'
  BY <1>3, <1>5 DEF Watched
<1>7. q # NoSession => /\ q[1].span \subseteq R
                       /\ q[1].silent >= 0 => \A r \in q[1].span : Over(r)'
  BY <1>1, OverStays DEF SessionSane
<1> QED
  BY <1>2, <1>4, <1>6, <1>7 DEF SessionSane

LEMMA JobStays ==
  ASSUME Typed, Onward, NEW j, JobSane(j)
  PROVE  JobSane(j)'
<1>1. PICK R : R = j.span
  OBVIOUS
<1>2. Known(R)' /\ \A r \in R : Over(r)'
  BY <1>1, KnownStays, OverStays DEF JobSane
<1> QED
  BY <1>1, <1>2 DEF JobSane

\* Where only the robot moves, the records stay as good as they were.
RecordsUntouched ==
  tracker' = tracker /\ stored' = stored /\ jobs' = jobs /\ Archiving' = Archiving

LEMMA RecordsStay ==
  ASSUME Typed, Onward, Watched, RecordsUntouched, Records, Apart, Filed
  PROVE  Records' /\ Apart' /\ Filed'
<1>1. Records'
  <2>1. ASSUME NEW q \in {tracker.session, stored.session}' PROVE SessionSane(q)'
    BY <2>1, SessionStays DEF Records, RecordsUntouched
  <2>2. ASSUME NEW j \in (Range(jobs) \cup Range(Archiving))' PROVE JobSane(j)'
    <3>1. j \in Range(jobs) \cup Range(Archiving)
      BY <2>2 DEF RecordsUntouched, Range
    <3> QED
      BY <3>1, JobStays DEF Records
  <2> QED
    BY <2>1, <2>2 DEF Records
<1>2. Apart'
  <2>1. truth.interrupted \subseteq truth'.interrupted
    BY DEF Onward
  <2>2. /\ tracker'.session = tracker.session /\ stored'.session = stored.session
        /\ jobs' = jobs /\ Archiving' = Archiving
    BY DEF RecordsUntouched
  <2>3. Seen(tracker.session)' = Seen(tracker.session) /\ Seen(stored.session)' = Seen(stored.session)
    BY <2>2 DEF Seen, FloorRuns
  <2> QED
    BY <2>1, <2>2, <2>3 DEF Apart, Disjoint
<1>3. Filed'
  BY DEF Filed, RecordsUntouched
<1> QED
  BY <1>1, <1>2, <1>3

LEMMA ChargedStays ==
  ASSUME Charged, charging' = charging, stored'.charging = stored.charging, boots' = boots, up' => up
  PROVE  Charged'
  BY DEF Charged, Whole, Unbroken

-----------------------------------------------------------------------------
(* The robot *)

RobotFields == [status : Statuses, inRun : BOOLEAN, seen : BOOLEAN, ended : BOOLEAN]

\* A step of the robot and of whoever starts it.
RobotOnly ==
  UNCHANGED <<up, boots, tracker, jobs, pc, alarm, charge, stored>>

LEMMA OutsideKeeps ==
  ASSUME SessionInv, RobotOnly, Onward, Watched, Typed', Sane', Closed'
  PROVE  SessionInv'
<1>1. RecordsUntouched
  BY DEF RobotOnly, RecordsUntouched, Archiving
<1>2. Records' /\ Apart' /\ Filed'
  BY <1>1, RecordsStay DEF SessionInv
<1>3. Synced'
  BY DEF SessionInv, Synced, RobotOnly, ShutOut
<1>4. Charged'
  BY ChargedStays DEF SessionInv, RobotOnly, charge
<1> QED
  BY <1>2, <1>3, <1>4 DEF SessionInv

\* The history has room for what the files are told and for what is lost.
LEMMA HistoryRoom ==
  ASSUME Typed
  PROVE  /\ truth \in TruthFields
         /\ truth.noticed \cup Seen(tracker.session) \in SUBSET Nat
         /\ truth.lost \cup Unsaved \in SUBSET Nat
<1>1. truth \in TruthFields
  BY DEF Typed
<1>2. \A j \in JobSet : j.span \subseteq Nat
  BY DEF JobSet
<1>3. ASSUME NEW list \in Seq(JobSet) PROVE Spans(list) \subseteq Nat
  <2>1. \A i \in DOMAIN list : list[i] \in JobSet
    OBVIOUS
  <2> QED
    BY <2>1, <1>2 DEF Spans
<1>4. jobs \in Seq(JobSet) /\ pc.job \in Seq(JobSet)
  <2>1. jobs \in Seq(JobSet) /\ pc.job \in {<<>>} \cup {<<j>> : j \in JobSet}
    BY DEF Typed
  <2>2. \A j \in JobSet : <<j>> \in Seq(JobSet)
    OBVIOUS
  <2>3. <<>> \in Seq(JobSet)
    OBVIOUS
  <2> QED
    BY <2>1, <2>2, <2>3
<1>5. Spans(jobs) \cup Spans(pc.job) \subseteq Nat
  BY <1>3, <1>4
<1>6. Unsaved \subseteq Nat
  BY <1>5 DEF Unsaved
<1>7. Seen(tracker.session) \subseteq Nat
  <2>1. \A x \in RowSet : x.run \in Nat
    BY DEF RowSet
  <2>2. tracker.session # NoSession => tracker.session[1].rows \subseteq RowSet
    BY DEF Typed, Sessions, SessionSet
  <2> QED
    BY <2>1, <2>2 DEF Seen, FloorRuns
<1> QED
  BY <1>1, <1>6, <1>7 DEF TruthFields

\* A file is told of the session in memory.
LEMMA HistoryNoted ==
  ASSUME Typed,
         \/ truth' = [truth EXCEPT !.noticed = @ \cup Seen(tracker.session)]
         \/ truth' = [truth EXCEPT !.mishaps = @ + 1, !.noticed = @ \cup Seen(tracker.session)]
  PROVE  /\ truth' \in TruthFields
         /\ truth'.excused = truth.excused /\ truth'.interrupted = truth.interrupted
         /\ truth'.noticed = truth.noticed \cup Seen(tracker.session) /\ truth'.lost = truth.lost
<1>1. PICK N \in SUBSET Nat : N = truth.noticed \cup Seen(tracker.session)
  BY HistoryRoom
<1>2. PICK u : u = [truth EXCEPT !.mishaps = @ + 1]
  OBVIOUS
<1>3. /\ truth \in TruthFields /\ u \in TruthFields /\ u.excused = truth.excused
      /\ u.interrupted = truth.interrupted /\ u.noticed = truth.noticed /\ u.lost = truth.lost
  BY <1>2, HistoryRoom DEF TruthFields
<1>4. truth' = [truth EXCEPT !.noticed = N] \/ truth' = [u EXCEPT !.noticed = N]
  BY <1>1, <1>2
<1> QED
  BY <1>1, <1>3, <1>4 DEF TruthFields

\* What no file holds is lost.
LEMMA HistoryLost ==
  ASSUME Typed,
         \/ truth' = [truth EXCEPT !.lost = @ \cup Unsaved]
         \/ truth' = [truth EXCEPT !.mishaps = @ + 1, !.lost = @ \cup Unsaved]
  PROVE  /\ truth' \in TruthFields
         /\ truth'.excused = truth.excused /\ truth'.interrupted = truth.interrupted
         /\ truth'.noticed = truth.noticed /\ truth'.lost = truth.lost \cup Unsaved
<1>1. PICK L \in SUBSET Nat : L = truth.lost \cup Unsaved
  BY HistoryRoom
<1>2. PICK u : u = [truth EXCEPT !.mishaps = @ + 1]
  OBVIOUS
<1>3. /\ truth \in TruthFields /\ u \in TruthFields /\ u.excused = truth.excused
      /\ u.interrupted = truth.interrupted /\ u.noticed = truth.noticed /\ u.lost = truth.lost
  BY <1>2, HistoryRoom DEF TruthFields
<1>4. truth' = [truth EXCEPT !.lost = L] \/ truth' = [u EXCEPT !.lost = L]
  BY <1>1, <1>2
<1> QED
  BY <1>1, <1>3, <1>4 DEF TruthFields

\* What a mishap writes into the history.
MishapOf(u, I) == [u EXCEPT !.mishaps = @ + 1, !.interrupted = I]

LEMMA Mishap ==
  ASSUME NEW u \in TruthFields, NEW I \in SUBSET Nat
  PROVE  /\ MishapOf(u, I) \in TruthFields
         /\ MishapOf(u, I).excused = u.excused /\ MishapOf(u, I).interrupted = I
         /\ MishapOf(u, I).noticed = u.noticed /\ MishapOf(u, I).lost = u.lost
<1>1. PICK x : x = [u EXCEPT !.mishaps = @ + 1]
  OBVIOUS
<1>2. x \in TruthFields /\ x.excused = u.excused /\ x.noticed = u.noticed /\ x.lost = u.lost
  BY <1>1 DEF TruthFields
<1>3. MishapOf(u, I) = [x EXCEPT !.interrupted = I]
  BY <1>1 DEF MishapOf
<1> QED
  BY <1>2, <1>3 DEF TruthFields

LEMMA TypedOutside ==
  ASSUME Typed, RobotOnly, owned' \in BOOLEAN, robot' \in RobotFields,
         runs' \in Seq({"outside", "scheduler"}),
         truth' \in TruthFields
  PROVE  Typed'
  BY DEF Typed, RobotOnly, RobotFields, TruthFields, charge

\* A new run is the last one.
LEMMA RunAdded ==
  ASSUME Typed, NEW who \in {"outside", "scheduler"}, runs' = Append(runs, who), ~robot.inRun,
         truth.excused \subseteq truth'.excused, truth.interrupted \subseteq truth'.interrupted
  PROVE  /\ runs' \in Seq({"outside", "scheduler"}) /\ ThisRun' = ThisRun + 1
         /\ runs'[Len(runs')] = who /\ runs' # <<>> /\ Onward /\ Watched
<1>1. runs \in Seq({"outside", "scheduler"}) /\ Len(runs) \in Nat
  BY DEF Typed
<1>2. /\ runs' \in Seq({"outside", "scheduler"}) /\ Len(runs') = Len(runs) + 1
      /\ runs'[Len(runs')] = who /\ \A r \in 1..Len(runs) : runs'[r] = runs[r]
  BY <1>1
<1>3. Onward
  BY <1>1, <1>2 DEF Onward
<1>4. Watched
  BY <1>1, <1>2 DEF Watched, Hidden, ThisRun
<1> QED
  BY <1>1, <1>2, <1>3, <1>4 DEF ThisRun

LEMMA OutsideStartsKeeps ==
  ASSUME SessionInv, OutsideStarts
  PROVE  SessionInv'
<1>1. RobotOnly /\ owned' = owned /\ truth' = truth /\ ~robot.inRun /\ runs' = Append(runs, "outside")
  BY DEF OutsideStarts, RobotMoves, RobotOnly, charge
<1>2. PICK s \in Floor : robot' = [robot EXCEPT !.status = s, !.inRun = TRUE]
  BY DEF OutsideStarts, RobotMoves
<1>3. robot' \in RobotFields /\ robot'.status \in Floor /\ robot'.inRun
  BY <1>2 DEF SessionInv, Typed, RobotFields, Statuses
<1>4. Typed
  BY DEF SessionInv
<1>5. /\ runs' \in Seq({"outside", "scheduler"}) /\ runs'[Len(runs')] = "outside" /\ runs' # <<>>
      /\ Onward /\ Watched
  BY <1>1, <1>4, RunAdded
<1>6. Typed'
  BY <1>1, <1>3, <1>4, <1>5, TypedOutside DEF Typed, TruthFields
<1>7. Sane'
  BY <1>3, <1>5, SessionsAssumption DEF Sane
<1>8. Closed'
  BY <1>5 DEF Closed, ThisRun
<1> QED
  BY <1>1, <1>5, <1>6, <1>7, <1>8, OutsideKeeps

\* The robot moves within a run or between two.
LEMMA RunStays ==
  ASSUME SessionInv, RobotOnly, runs' = runs, owned' = owned, robot' \in RobotFields,
         truth'.excused = truth.excused, truth.interrupted \subseteq truth'.interrupted,
         truth' \in TruthFields,
         robot'.inRun => robot.inRun,
         robot'.seen = robot.seen \/ (robot'.inRun /\ ~robot'.seen => ThisRun \in truth'.interrupted),
         robot'.status \in Floor => robot'.inRun,
         robot'.inRun /\ robot'.status = "error" => ThisRun \in truth'.interrupted
  PROVE  SessionInv'
<1>1. ThisRun' = ThisRun
  BY DEF ThisRun
<1>2. Typed /\ Len(runs) \in Nat
  BY DEF SessionInv, Typed
<1>3. Onward
  BY <1>2 DEF Onward, Typed
<1>4. Watched
  BY <1>1 DEF Watched, Hidden
<1>5. Typed'
  BY <1>2, TypedOutside DEF Typed, TruthFields
<1>6. Sane'
  BY <1>1 DEF SessionInv, Sane
<1>7. Closed'
  <2>1. tracker' = tracker /\ stored' = stored
    BY DEF RobotOnly
  <2> QED
    BY <1>1, <2>1 DEF SessionInv, Closed, ShutOut
<1> QED
  BY <1>3, <1>4, <1>5, <1>6, <1>7, OutsideKeeps

LEMMA RobotSteps ==
  ASSUME SessionInv, RunGoesOn \/ RunEnds \/ BetweenRuns \/ HidesOrShows
  PROVE  SessionInv'
<1>1. /\ robot \in RobotFields
      /\ truth \in TruthFields
      /\ ThisRun \in Nat /\ Sane
  BY DEF SessionInv, Typed, RobotFields, TruthFields, ThisRun
<1>2. "error" \notin Floor /\ {"returning", "washing", "idle", "mapping", "paused"} \cap Floor = {}
  BY SessionsAssumption
<1>3. CASE RunGoesOn
  <2>1. PICK s \in (Floor \cup {"paused", "washing", "error"}) \ {robot.status} :
          /\ robot' = [robot EXCEPT !.status = s]
          /\ IF s # "error" THEN truth' = truth
             ELSE truth' = [truth EXCEPT !.mishaps = @ + 1, !.interrupted = @ \cup {ThisRun}]
    BY <1>3 DEF RunGoesOn, RobotMoves
  <2>2. /\ robot' \in RobotFields /\ robot'.inRun = robot.inRun /\ robot'.seen = robot.seen
        /\ robot'.status = s
    BY <1>1, <2>1 DEF RobotFields, Statuses
  <2>3. /\ truth' \in TruthFields
        /\ truth'.excused = truth.excused /\ truth.interrupted \subseteq truth'.interrupted
        /\ s = "error" => ThisRun \in truth'.interrupted
    <3>1. PICK I : I = truth.interrupted \cup {ThisRun}
      OBVIOUS
    <3>2. I \in SUBSET Nat
      BY <1>1, <3>1 DEF TruthFields
    <3>3. s = "error" => truth' = MishapOf(truth, I)
      BY <2>1, <3>1 DEF MishapOf
    <3>4. CASE s = "error"
      <4>1. truth \in TruthFields /\ truth' = MishapOf(truth, I)
        BY <1>1, <3>3, <3>4
      <4>2. truth' \in TruthFields /\ truth'.excused = truth.excused /\ truth'.interrupted = I
        BY <3>2, <4>1, Mishap
      <4> QED
        BY <4>2, <3>1
    <3>5. CASE s # "error"
      BY <3>5, <1>1, <2>1
    <3> QED
      BY <3>4, <3>5
  <2>4. RobotOnly /\ runs' = runs /\ owned' = owned /\ robot.inRun
    BY <1>3 DEF RunGoesOn, RobotMoves, RobotOnly, charge
  <2> QED
    BY <2>2, <2>3, <2>4, RunStays
<1>4. CASE RunEnds
  <2>1. PICK s \in {"returning", "washing", "idle"} :
          robot' = [robot EXCEPT !.status = s, !.inRun = FALSE, !.ended = TRUE]
    BY <1>4 DEF RunEnds, RobotMoves
  <2>2. robot' \in RobotFields /\ ~robot'.inRun /\ robot'.seen = robot.seen /\ robot'.status = s
    BY <1>1, <2>1 DEF RobotFields, Statuses
  <2>3. RobotOnly /\ runs' = runs /\ owned' = owned /\ truth' = truth
    BY <1>4 DEF RunEnds, RobotMoves, RobotOnly, charge
  <2> QED
    BY <1>1, <1>2, <2>1, <2>2, <2>3, RunStays
<1>5. CASE BetweenRuns
  <2>1. PICK s \in {"washing", "mapping", "idle"} : robot' = [robot EXCEPT !.status = s]
    BY <1>5 DEF BetweenRuns, RobotMoves
  <2>2. robot' \in RobotFields /\ robot'.inRun = robot.inRun /\ robot'.seen = robot.seen /\ robot'.status = s
    BY <1>1, <2>1 DEF RobotFields, Statuses
  <2>3. RobotOnly /\ runs' = runs /\ owned' = owned /\ truth' = truth /\ ~robot.inRun
    BY <1>5 DEF BetweenRuns, RobotMoves, RobotOnly, charge
  <2> QED
    BY <1>1, <1>2, <2>1, <2>2, <2>3, RunStays
<1>6. CASE HidesOrShows
  <2>1. robot' = [robot EXCEPT !.seen = ~@]
    BY <1>6 DEF HidesOrShows, RobotMoves
  <2>2. /\ robot' \in RobotFields /\ robot'.inRun = robot.inRun /\ robot'.status = robot.status
        /\ robot'.seen <=> ~robot.seen
    BY <1>1, <2>1 DEF RobotFields
  <2>3. RobotOnly /\ runs' = runs /\ owned' = owned
    BY <1>6 DEF HidesOrShows, RobotMoves, RobotOnly, charge
  <2>4. PICK I : I = IF robot.inRun THEN truth.interrupted \cup {ThisRun} ELSE truth.interrupted
    OBVIOUS
  <2>5. I \in SUBSET Nat /\ truth.interrupted \subseteq I /\ (robot.inRun => ThisRun \in I)
    BY <1>1, <2>4 DEF TruthFields
  <2>6. truth' = IF robot.seen THEN [truth EXCEPT !.mishaps = @ + 1, !.interrupted = I] ELSE truth
    BY <1>6, <2>4 DEF HidesOrShows
  <2>7. /\ truth' \in TruthFields
        /\ truth'.excused = truth.excused /\ truth.interrupted \subseteq truth'.interrupted
        /\ robot.seen /\ robot.inRun => ThisRun \in truth'.interrupted
    <3>1. CASE robot.seen
      <4>1. truth' = MishapOf(truth, I)
        BY <2>6, <3>1 DEF MishapOf
      <4>2. truth' \in TruthFields /\ truth'.excused = truth.excused /\ truth'.interrupted = I
        BY <1>1, <2>5, <4>1, Mishap
      <4> QED
        BY <4>2, <2>5
    <3>2. CASE ~robot.seen
      BY <3>2, <1>1, <2>6
    <3> QED
      BY <3>1, <3>2
  <2> QED
    BY <1>1, <2>2, <2>3, <2>7, RunStays DEF Sane
<1> QED
  BY <1>3, <1>4, <1>5, <1>6

\* The Scheduler starts where no session is open, or the run is excused.
LEMMA SchedulerStartsKeeps ==
  ASSUME SessionInv, SchedulerStarts
  PROVE  SessionInv'
<1>1. RobotOnly /\ owned' = TRUE /\ ~robot.inRun /\ runs' = Append(runs, "scheduler")
      /\ pc.step = "arbitrate"
  BY DEF SchedulerStarts, RobotOnly, charge
<1>2. PICK s \in Floor : robot' = [robot EXCEPT !.status = s, !.inRun = TRUE]
  BY DEF SchedulerStarts
<1>3. robot' \in RobotFields /\ robot'.status \in Floor /\ robot'.inRun
  BY <1>2 DEF SessionInv, Typed, RobotFields, Statuses
<1>4. Typed /\ ThisRun \in Nat
  BY DEF SessionInv, Typed, ThisRun
<1>5. /\ truth' \in TruthFields
      /\ truth.excused \subseteq truth'.excused /\ truth'.interrupted = truth.interrupted
      /\ ~ShutOut(tracker.session) => ThisRun + 1 \in truth'.excused
  <2>1. tracker.session # NoSession => tracker.session[1].silent \in Int
    BY <1>4 DEF Typed, Sessions, SessionSet
  <2>2. PICK E : E = truth.excused \cup {ThisRun + 1}
    OBVIOUS
  <2>3. E \in SUBSET Nat /\ truth \in TruthFields
    BY <1>4, <2>2 DEF Typed, TruthFields
  <2>4. truth' = IF ~ShutOut(tracker.session) THEN [truth EXCEPT !.excused = E] ELSE truth
    BY <2>1, <2>2 DEF SchedulerStarts, ShutOut
  <2> QED
    BY <2>2, <2>3, <2>4 DEF TruthFields
<1>6. /\ runs' \in Seq({"outside", "scheduler"}) /\ runs' # <<>> /\ ThisRun' = ThisRun + 1
      /\ Onward /\ Watched
  BY <1>1, <1>4, <1>5, RunAdded
<1>7. Typed'
  BY <1>1, <1>3, <1>4, <1>5, <1>6, TypedOutside
<1>8. Sane'
  BY <1>3, <1>6, SessionsAssumption DEF Sane
<1>9. Closed'
  <2>1. tracker' = tracker /\ stored' = stored
    BY <1>1 DEF RobotOnly
  <2>2. ShutOut(tracker.session) => ShutOut(stored.session)
    BY <1>1 DEF SessionInv, Synced
  <2> QED
    BY <1>1, <1>5, <1>6, <2>1, <2>2 DEF Closed, ShutOut
<1> QED
  BY <1>1, <1>6, <1>7, <1>8, <1>9, OutsideKeeps

LEMMA AttemptEndsKeeps ==
  ASSUME SessionInv, AttemptEnds
  PROVE  SessionInv'
<1>1. RobotOnly /\ owned' = FALSE /\ robot' = robot /\ runs' = runs
  BY DEF AttemptEnds, RobotOnly, charge
<1>2. Typed /\ ThisRun \in Nat /\ Len(runs) \in Nat
  BY DEF SessionInv, Typed, ThisRun
<1>3. /\ truth' \in TruthFields
      /\ truth.excused \subseteq truth'.excused /\ truth'.interrupted = truth.interrupted
      /\ robot.inRun => ThisRun \in truth'.excused
  <2>1. PICK E : E = truth.excused \cup {ThisRun}
    OBVIOUS
  <2>2. E \in SUBSET Nat /\ truth \in TruthFields
    BY <1>2, <2>1 DEF Typed, TruthFields
  <2>3. truth' = IF robot.inRun THEN [truth EXCEPT !.excused = E] ELSE truth
    BY <2>1 DEF AttemptEnds
  <2> QED
    BY <2>1, <2>2, <2>3 DEF TruthFields
<1>4. Typed'
  BY <1>1, <1>2, <1>3, TypedOutside DEF Typed, RobotFields
<1>5. ThisRun' = ThisRun
  BY <1>1 DEF ThisRun
<1>6. Onward /\ Watched
  BY <1>1, <1>2, <1>3, <1>5 DEF Onward, Watched, Hidden, Typed
<1>7. Sane'
  BY <1>1, <1>3, <1>5 DEF SessionInv, Sane
<1>8. Closed'
  BY <1>1, <1>3, <1>5 DEF Closed
<1> QED
  BY <1>1, <1>4, <1>6, <1>7, <1>8, OutsideKeeps

-----------------------------------------------------------------------------
(* What is observed of a cleaning *)

LEMMA FloorRunsOf ==
  ASSUME NEW A \in SUBSET RowSet, NEW B \in SUBSET RowSet
  PROVE  /\ FloorRuns(A) \in SUBSET Nat /\ FloorRuns({}) = {}
         /\ FloorRuns(A \cup B) = FloorRuns(A) \cup FloorRuns(B)
  BY DEF FloorRuns, RowSet

LEMMA RowsFields ==
  ASSUME SessionInv
  PROVE  /\ Rows \in SUBSET RowSet /\ FloorRuns(Rows) \subseteq {ThisRun}
         /\ FloorRuns(Rows) # {} => Cleans /\ robot.seen /\ robot.inRun /\ ThisRun \in 1..ThisRun
<1>1. ThisRun \in Nat /\ (runs # <<>> => ThisRun \in 1..ThisRun)
  BY DEF SessionInv, Typed, ThisRun
<1>2. Rows \in SUBSET RowSet /\ FloorRuns(Rows) \subseteq {ThisRun}
  BY <1>1 DEF Rows, RowSet, FloorRuns
<1>3. ASSUME FloorRuns(Rows) # {} PROVE Status \in Floor
  BY <1>3, SessionsAssumption DEF Rows, FloorRuns
<1>4. ASSUME Status \in Floor PROVE robot.seen /\ robot.inRun
  BY <1>4, SessionsAssumption DEF Status, SessionInv, Sane
<1> QED
  BY <1>1, <1>2, <1>3, <1>4 DEF SessionInv, Sane, Cleans

\* An observation adds to a session only a run that it may know.
LEMMA MoreSeen ==
  ASSUME SessionInv, NEW A \in SUBSET RowSet, Known(FloorRuns(A)), Hidden(FloorRuns(A)),
         ~owned \/ ~ShutOut(tracker.session)
  PROVE  Known(FloorRuns(A \cup Rows)) /\ Hidden(FloorRuns(A \cup Rows))
<1>1. FloorRuns(A \cup Rows) = FloorRuns(A) \cup FloorRuns(Rows)
  BY RowsFields, FloorRunsOf
<1>2. PICK F : F = FloorRuns(Rows)
  OBVIOUS
<1>3. F \subseteq {ThisRun} /\ (F # {} => robot.seen /\ robot.inRun /\ ThisRun \in 1..ThisRun)
  BY <1>2, RowsFields
<1>4. robot.inRun => (runs[ThisRun] = "scheduler" => ThisRun \in truth.excused)
  BY DEF SessionInv, Closed
<1>5. Known(FloorRuns(A) \cup F)
  BY <1>3, <1>4 DEF Known
<1>6. Hidden(FloorRuns(A) \cup F)
  BY <1>3 DEF Hidden
<1> QED
  BY <1>1, <1>2, <1>5, <1>6

\* What has been archived is not seen again.
LEMMA MoreApart ==
  ASSUME SessionInv, NEW A \in SUBSET RowSet, NEW j, JobSane(j), Disjoint(j.span, FloorRuns(A))
  PROVE  Disjoint(j.span, FloorRuns(A \cup Rows))
<1>1. FloorRuns(A \cup Rows) = FloorRuns(A) \cup FloorRuns(Rows)
  BY RowsFields, FloorRunsOf
<1>2. PICK F : F = FloorRuns(Rows)
  OBVIOUS
<1>3. F \subseteq {ThisRun} /\ (F # {} => robot.inRun)
  BY <1>2, RowsFields
<1>4. \A r \in j.span : r = ThisRun /\ robot.inRun => r \in truth.interrupted
  BY DEF JobSane, Over
<1>5. Disjoint(j.span, FloorRuns(A) \cup F)
  BY <1>3, <1>4 DEF Disjoint
<1> QED
  BY <1>1, <1>2, <1>5

\* What was seen before the silence is over.
LEMMA SilenceEnds ==
  ASSUME SessionInv, ~Active, NEW R, Known(R), Hidden(R)
  PROVE  \A r \in R : Over(r)
<1>1. ~robot.seen \/ ~robot.inRun \/ robot.status = "error"
  BY DEF Active, SessionActive
<1>2. robot.inRun => (ThisRun \in R => ThisRun \in truth.interrupted)
  BY <1>1 DEF Hidden, SessionInv, Sane
<1> QED
  BY <1>2 DEF Known, Over

LEMMA AppendedFields ==
  ASSUME SessionInv, NEW s \in SessionSet
  PROVE  /\ Appended(s) \in SessionSet /\ Appended(s).rows = s.rows \cup Rows
         /\ Appended(s).span = s.span /\ Appended(s).silent = s.silent
<1>1. PICK fails : fails = (s.error \/ Status = "error")
  OBVIOUS
<1>2. fails \in BOOLEAN
  BY <1>1
<1>3. PICK W : W = s.rows \cup Rows
  OBVIOUS
<1>4. W \in SUBSET RowSet
  BY <1>3, RowsFields DEF SessionSet
<1>5. PICK x : x = [s EXCEPT !.rows = W]
  OBVIOUS
<1>6. x \in SessionSet /\ x.rows = W /\ x.span = s.span /\ x.silent = s.silent
  BY <1>4, <1>5 DEF SessionSet
<1>7. Appended(s) = [x EXCEPT !.error = fails]
  BY <1>1, <1>3, <1>5 DEF Appended
<1> QED
  BY <1>2, <1>3, <1>6, <1>7 DEF SessionSet

LEMMA SilentFields ==
  ASSUME NEW s \in SessionSet
  PROVE  /\ Silent(s) \in SessionSet /\ Silent(s).rows = s.rows /\ Silent(s).silent >= 0
         /\ Silent(s).span = IF s.silent < 0 THEN FloorRuns(s.rows) ELSE s.span
<1>1. CASE s.silent < 0
  <2>1. PICK F : F = FloorRuns(s.rows)
    OBVIOUS
  <2>2. F \in SUBSET Nat
    BY <2>1, FloorRunsOf DEF SessionSet
  <2>3. PICK x : x = [s EXCEPT !.silent = 0]
    OBVIOUS
  <2>4. x \in SessionSet /\ x.rows = s.rows /\ x.silent = 0
    BY <2>3 DEF SessionSet
  <2>5. Silent(s) = [x EXCEPT !.span = F]
    BY <1>1, <2>1, <2>3 DEF Silent
  <2> QED
    BY <1>1, <2>1, <2>2, <2>4, <2>5 DEF SessionSet
<1>2. CASE ~(s.silent < 0)
  BY <1>2 DEF Silent, SessionSet
<1> QED
  BY <1>1, <1>2

LEMMA JobFields ==
  ASSUME NEW s \in SessionSet
  PROVE  Job(s) \in JobSet /\ Job(s).span = s.span
<1>1. Wet(s.rows) \in {"wet", "dry", "unknown"}
  BY DEF Wet
<1> QED
  BY <1>1 DEF Job, JobSet, SessionSet

-----------------------------------------------------------------------------
(* What is written down *)

\* Records that say of the runs what is true, and each run once.
Fits(q, d, archived, waiting) ==
  /\ SessionSane(q) /\ SessionSane(d)
  /\ \A i \in DOMAIN archived : JobSane(archived[i])
  /\ \A k \in DOMAIN waiting : JobSane(waiting[k]) /\ Disjoint(waiting[k].span, Seen(q))
  /\ \A i, k \in DOMAIN archived : i # k => Disjoint(archived[i].span, archived[k].span)
  /\ \A i \in DOMAIN archived :
       /\ Disjoint(archived[i].span, Seen(q)) /\ Disjoint(archived[i].span, Seen(d))
       /\ \A k \in DOMAIN waiting : Disjoint(archived[i].span, waiting[k].span)

LEMMA FitsNow ==
  ASSUME Records, Apart
  PROVE  Fits(tracker.session, stored.session, jobs, Archiving)
  BY DEF Records, Apart, Fits, Range

\* The program writes while the runs stand still.
Still ==
  /\ robot' = robot /\ runs' = runs /\ owned' = owned
  /\ truth'.excused = truth.excused /\ truth'.interrupted = truth.interrupted

LEMMA StillWorld ==
  ASSUME Typed, Still
  PROVE  Onward /\ Watched
<1>1. Len(runs) \in Nat /\ runs \in Seq({"outside", "scheduler"})
  BY DEF Typed
<1>2. Onward
  BY <1>1 DEF Still, Onward
<1>3. Watched
  BY DEF Watched, Hidden, Still, ThisRun
<1> QED
  BY <1>2, <1>3

\* What is written is as true after the step.
LEMMA RecordsCarried ==
  ASSUME Typed, Onward, Watched, NEW q, NEW d, NEW archived, NEW waiting, Fits(q, d, archived, waiting),
         tracker'.session = q, stored'.session = d, jobs' = archived, Archiving' = waiting
  PROVE  Records' /\ Apart'
<1>1. ASSUME NEW s \in {tracker.session, stored.session}' PROVE SessionSane(s)'
  <2>1. SessionSane(s)
    BY <1>1 DEF Fits
  <2> QED
    BY <2>1, SessionStays
<1>2. ASSUME NEW j \in (Range(jobs) \cup Range(Archiving))' PROVE JobSane(j)'
  <2>1. JobSane(j)
    BY <1>2 DEF Range, Fits
  <2> QED
    BY <2>1, JobStays
<1>3. Records'
  BY <1>1, <1>2 DEF Records
<1>4. PICK Q, D : Q = Seen(q) /\ D = Seen(d)
  OBVIOUS
<1>5. Seen(tracker.session)' = Q /\ Seen(stored.session)' = D
  BY <1>4 DEF Seen, FloorRuns
<1>6. truth.interrupted \subseteq truth'.interrupted
  BY DEF Onward
<1>7. Apart'
  BY <1>4, <1>5, <1>6 DEF Apart, Fits, Disjoint
<1> QED
  BY <1>3, <1>7

LEMMA RecordsWritten ==
  ASSUME Typed, Still, NEW q, NEW d, NEW archived, NEW waiting, Fits(q, d, archived, waiting),
         tracker'.session = q, stored'.session = d, jobs' = archived, Archiving' = waiting
  PROVE  Records' /\ Apart'
  BY StillWorld, RecordsCarried

\* The rest of the invariant while the runs stand still.
LEMMA StillKeeps ==
  ASSUME SessionInv, Still, Typed', Records', Apart', Filed', Synced', Charged',
         \/ ~owned
         \/ /\ ShutOut(tracker.session) => ShutOut(tracker'.session)
            /\ ShutOut(tracker.session) /\ ShutOut(stored.session) => ShutOut(stored'.session)
  PROVE  SessionInv'
<1>1. Sane'
  BY DEF SessionInv, Sane, Still, ThisRun
<1>2. ThisRun' = ThisRun
  BY DEF Still, ThisRun
<1>3. Closed'
  BY <1>2 DEF SessionInv, Closed, Still, ShutOut
<1> QED
  BY <1>1, <1>3 DEF SessionInv

-----------------------------------------------------------------------------
(* async_observe *)

\* Whatever the tracker makes of an observation.
Observing ==
  /\ up /\ pc.step = "idle"
  /\ UNCHANGED <<up, boots, robot, runs, owned, jobs, alarm, charge, stored, truth>>

LEMMA ObservingKeeps ==
  ASSUME SessionInv, Observing, NEW q \in Sessions, NEW B \in SUBSET RowSet,
         NEW waiting \in {<<>>} \cup {<<j>> : j \in JobSet},
         tracker' = [session |-> q, before |-> B],
         \/ pc' = [step |-> "save", job |-> waiting]
         \/ pc' = [pc EXCEPT !.step = "arbitrate"] /\ waiting = <<>> /\ q = tracker.session,
         Fits(q, stored.session, jobs, waiting),
         ~owned \/ (ShutOut(tracker.session) => ShutOut(q))
  PROVE  SessionInv'
<1>1. Typed
  BY DEF SessionInv
<1>2. Still
  BY DEF Observing, Still
<1>3. Archiving' = waiting
  BY DEF Archiving, SessionInv, Typed
<1>4. tracker'.session = q /\ stored' = stored /\ jobs' = jobs
  BY DEF Observing
<1>5. Records' /\ Apart'
  BY <1>1, <1>2, <1>3, <1>4, RecordsWritten
<1>6. pc' \in [step : {"idle", "save", "arbitrate"}, job : {<<>>} \cup {<<j>> : j \in JobSet}]
  BY DEF SessionInv, Typed
<1>7. tracker' \in [session : Sessions, before : SUBSET RowSet]
  OBVIOUS
<1>8. Typed'
  BY <1>1, <1>6, <1>7 DEF Typed, Observing, charge
<1>9. Filed'
  BY <1>4 DEF SessionInv, Filed
<1>10. Synced'
  <2>1. CASE pc'.step = "save"
    BY <2>1 DEF Synced
  <2>2. CASE pc'.step # "save"
    <3>1. q = tracker.session /\ up /\ pc.step # "save"
      BY <2>2 DEF Observing
    <3> QED
      BY <3>1, <1>4 DEF SessionInv, Synced, ShutOut
  <2> QED
    BY <2>1, <2>2
<1>11. Charged'
  BY ChargedStays DEF SessionInv, Observing, charge
<1>12. \/ ~owned
       \/ /\ ShutOut(tracker.session) => ShutOut(tracker'.session)
          /\ ShutOut(tracker.session) /\ ShutOut(stored.session) => ShutOut(stored'.session)
  BY <1>4
<1> QED
  BY <1>2, <1>5, <1>8, <1>9, <1>10, <1>11, <1>12, StillKeeps

\* A session that goes on.
LEMMA GoesOn ==
  ASSUME SessionInv, Observing, NEW s \in SessionSet, tracker' = [tracker EXCEPT !.session = <<s>>],
         NEW A \in SUBSET RowSet, s.rows = A \cup Rows,
         Known(FloorRuns(A)), Hidden(FloorRuns(A)),
         \A i \in DOMAIN jobs : Disjoint(jobs[i].span, FloorRuns(A)),
         ~owned \/ ~ShutOut(tracker.session),
         s.span \subseteq FloorRuns(s.rows),
         s.silent >= 0 => ~Active,
         pc' = [step |-> "save", job |-> <<>>]
  PROVE  SessionInv'
<1>1. Known(FloorRuns(s.rows)) /\ Hidden(FloorRuns(s.rows))
  BY MoreSeen
<1>2. PICK R : R = FloorRuns(s.rows)
  OBVIOUS
<1>3. s.silent >= 0 => \A r \in s.span : Over(r)
  BY <1>1, <1>2, SilenceEnds
<1>4. PICK q \in Sessions : q = <<s>>
  BY DEF Sessions
<1>5. q # NoSession /\ q[1] = s
  BY <1>4 DEF NoSession
<1>6. SessionSane(q)
  BY <1>1, <1>3, <1>5 DEF SessionSane, Seen
<1>7. \A i \in DOMAIN jobs : JobSane(jobs[i])
  BY DEF SessionInv, Records, Range
<1>8. \A i \in DOMAIN jobs : Disjoint(jobs[i].span, Seen(q))
  <2> TAKE i \in DOMAIN jobs
  <2>1. PICK j : j = jobs[i]
    OBVIOUS
  <2>2. JobSane(j) /\ Disjoint(j.span, FloorRuns(A))
    BY <1>7, <2>1
  <2>3. Disjoint(j.span, FloorRuns(s.rows))
    BY <2>2, MoreApart
  <2> QED
    BY <1>5, <2>1, <2>3 DEF Seen
<1>9. Fits(q, stored.session, jobs, <<>>)
  <2>1. Fits(tracker.session, stored.session, jobs, Archiving)
    BY FitsNow DEF SessionInv
  <2> QED
    BY <1>6, <1>8, <2>1 DEF Fits
<1>10. PICK B \in SUBSET RowSet : tracker' = [session |-> q, before |-> B]
  BY <1>4 DEF SessionInv, Typed
<1> QED
  BY <1>4, <1>9, <1>10, ObservingKeeps

\* A session that becomes a job.
LEMMA ClosesKeeps ==
  ASSUME SessionInv, Observing, tracker.session # NoSession,
         NEW s \in SessionSet, s.span = tracker.session[1].span,
         s.silent = tracker.session[1].silent, s.silent >= 0, Closes(s)
  PROVE  SessionInv'
<1>1. PICK j \in JobSet : j = Job(s) /\ j.span = s.span
  BY JobFields
<1>2. SessionSane(tracker.session)
  BY DEF SessionInv, Records
<1>3. Known(j.span)
  BY <1>1, <1>2 DEF SessionSane, Known
<1>4. JobSane(j)
  BY <1>1, <1>2, <1>3 DEF SessionSane, JobSane
<1>5. j.span \subseteq Seen(tracker.session)
  BY <1>1, <1>2 DEF SessionSane
<1>6. SessionSane(NoSession) /\ Seen(NoSession) = {}
  BY DEF SessionSane, Seen, Known, Hidden
<1>7. PICK waiting \in {<<k>> : k \in JobSet} : waiting = <<j>>
  OBVIOUS
<1>8. Fits(NoSession, stored.session, jobs, waiting)
  <2>1. Fits(tracker.session, stored.session, jobs, Archiving)
    BY FitsNow DEF SessionInv
  <2>2. DOMAIN waiting = {1} /\ waiting[1] = j
    BY <1>7
  <2>3. \A i \in DOMAIN jobs : Disjoint(jobs[i].span, j.span)
    BY <1>5, <2>1 DEF Fits, Disjoint
  <2> QED
    BY <1>4, <1>6, <2>1, <2>2, <2>3 DEF Fits, Disjoint
<1>9. PICK B \in SUBSET RowSet : tracker' = [session |-> NoSession, before |-> B]
  BY DEF Closes, SessionInv, Typed
<1>10. pc' = [step |-> "save", job |-> waiting]
  BY <1>1, <1>7 DEF Closes, Saves
<1>11. NoSession \in Sessions /\ ShutOut(NoSession)
  BY DEF Sessions, ShutOut
<1> QED
  BY <1>7, <1>8, <1>9, <1>10, <1>11, ObservingKeeps

\* A session that is opened, by an observation or by an outage.
LEMMA OpenedSession ==
  ASSUME SessionInv, NEW A \in SUBSET RowSet, \A x \in A : x.status = "washing"
  PROVE  /\ FloorRuns(A) = {} /\ Known(FloorRuns(A)) /\ Hidden(FloorRuns(A))
         /\ \A i \in DOMAIN jobs : Disjoint(jobs[i].span, FloorRuns(A))
         /\ Started(A)[1] \in SessionSet /\ Started(A) = <<Started(A)[1]>>
         /\ Started(A)[1].rows = A \cup Rows /\ Started(A)[1].span = {}
         /\ Started(A)[1].silent = -1
<1>1. FloorRuns(A) = {}
  BY SessionsAssumption DEF FloorRuns
<1>2. Started(A)[1] \in SessionSet
  BY RowsFields DEF Started, SessionSet
<1> QED
  BY <1>1, <1>2 DEF Started, Known, Hidden, Disjoint

LEMMA ObserveOpens ==
  ASSUME SessionInv, Observing, tracker.session = NoSession, ~owned, StartSession(Buffered), Saves(<<>>)
  PROVE  SessionInv'
<1>1. PICK b : b = Buffered.before
  OBVIOUS
<1>2. b \in SUBSET RowSet
  BY <1>1, RowsFields DEF Buffered, SessionInv, Typed
<1>3. PICK A \in {{}, {r \in b : r.status = "washing"}} : tracker' = [session |-> Started(A), before |-> {}]
  BY <1>1 DEF StartSession
<1>4. A \in SUBSET RowSet /\ \A x \in A : x.status = "washing"
  BY <1>2, <1>3
<1>5. PICK s \in SessionSet :
        /\ Started(A) = <<s>> /\ s.rows = A \cup Rows /\ s.span = {} /\ s.silent = -1
  BY <1>4, OpenedSession
<1>6. Known(FloorRuns(A)) /\ Hidden(FloorRuns(A)) /\ \A i \in DOMAIN jobs : Disjoint(jobs[i].span, FloorRuns(A))
  BY <1>4, OpenedSession
<1>7. PICK q \in Sessions : q = <<s>>
  BY DEF Sessions
<1>8. q # NoSession /\ q[1] = s
  BY <1>7 DEF NoSession
<1>9. Known(FloorRuns(s.rows)) /\ Hidden(FloorRuns(s.rows))
  BY <1>4, <1>5, <1>6, MoreSeen
<1>10. SessionSane(q)
  BY <1>5, <1>8, <1>9 DEF SessionSane, Seen
<1>11. \A i \in DOMAIN jobs : Disjoint(jobs[i].span, Seen(q))
  <2> TAKE i \in DOMAIN jobs
  <2>1. PICK j : j = jobs[i]
    OBVIOUS
  <2>2. JobSane(j) /\ Disjoint(j.span, FloorRuns(A))
    BY <1>6, <2>1 DEF SessionInv, Records, Range
  <2>3. Disjoint(j.span, FloorRuns(s.rows))
    BY <1>4, <1>5, <2>2, MoreApart
  <2> QED
    BY <1>8, <2>1, <2>3 DEF Seen
<1>12. Fits(q, stored.session, jobs, <<>>)
  <2>1. Fits(tracker.session, stored.session, jobs, Archiving)
    BY FitsNow DEF SessionInv
  <2> QED
    BY <1>10, <1>11, <2>1 DEF Fits
<1>13. tracker' = [session |-> q, before |-> {}] /\ pc' = [step |-> "save", job |-> <<>>]
  BY <1>3, <1>5, <1>7 DEF Saves
<1> QED
  BY <1>7, <1>12, <1>13, ObservingKeeps

LEMMA ObserveNoSession ==
  ASSUME SessionInv, Observing, tracker.session = NoSession, NEW B \in SUBSET RowSet,
         tracker' = [tracker EXCEPT !.before = B], pc' = [pc EXCEPT !.step = "arbitrate"]
  PROVE  SessionInv'
<1>1. tracker' = [session |-> tracker.session, before |-> B]
  BY DEF SessionInv, Typed
<1>2. tracker.session \in Sessions
  BY DEF SessionInv, Typed
<1>3. Fits(tracker.session, stored.session, jobs, <<>>)
  <2>1. Fits(tracker.session, stored.session, jobs, Archiving)
    BY FitsNow DEF SessionInv
  <2> QED
    BY <2>1 DEF Fits
<1> QED
  BY <1>1, <1>2, <1>3, ObservingKeeps

LEMMA ObserveKeeps ==
  ASSUME SessionInv, Observe
  PROVE  SessionInv'
<1>1. Observing
  BY DEF Observe, Observing, charge
<1>2. CASE tracker.session = NoSession
  <2>1. Buffered.before \in SUBSET RowSet
    BY RowsFields DEF Buffered, SessionInv, Typed
  <2>2. CASE SchedulerOwned
    <3>1. tracker' = [tracker EXCEPT !.before = {}] /\ pc' = [pc EXCEPT !.step = "arbitrate"]
      BY <1>2, <2>2 DEF Observe
    <3> QED
      BY <1>1, <1>2, <3>1, ObserveNoSession
  <2>3. CASE ~SchedulerOwned /\ ~Cleans
    <3>1. tracker' = Buffered /\ pc' = [pc EXCEPT !.step = "arbitrate"]
      BY <1>2, <2>3 DEF Observe
    <3>2. PICK B \in SUBSET RowSet : B = tracker.before \cup Rows
      BY RowsFields DEF SessionInv, Typed
    <3>3. tracker' = [tracker EXCEPT !.before = B]
      BY <3>1, <3>2 DEF Buffered
    <3> QED
      BY <1>1, <1>2, <3>1, <3>3, ObserveNoSession
  <2>4. CASE ~SchedulerOwned /\ Cleans
    <3>1. StartSession(Buffered) /\ Saves(<<>>)
      BY <1>2, <2>4 DEF Observe
    <3> QED
      BY <1>1, <1>2, <2>4, <3>1, ObserveOpens DEF SchedulerOwned
  <2> QED
    BY <2>2, <2>3, <2>4
<1>3. CASE tracker.session # NoSession
  <2>1. PICK z \in SessionSet : tracker.session = <<z>> /\ z = tracker.session[1]
    BY <1>3 DEF SessionInv, Typed, Sessions
  <2>2. PICK s \in SessionSet : s = Appended(z) /\ s.rows = z.rows \cup Rows /\ s.span = z.span /\ s.silent = z.silent
    BY AppendedFields
  <2>3. PICK A \in SUBSET RowSet : A = z.rows
    BY DEF SessionSet
  <2>4. /\ Known(FloorRuns(A)) /\ Hidden(FloorRuns(A)) /\ z.span \subseteq FloorRuns(A)
        /\ \A i \in DOMAIN jobs : Disjoint(jobs[i].span, FloorRuns(A))
    BY <1>3, <2>1, <2>3 DEF SessionInv, Records, SessionSane, Seen, Apart
  <2>5. z.span \subseteq FloorRuns(A \cup Rows)
    BY <2>4, RowsFields, FloorRunsOf
  <2>6. s.silent \in Int /\ (ShutOut(tracker.session) <=> s.silent >= 0)
    BY <1>3, <2>1, <2>2 DEF ShutOut, SessionSet
  <2>7. IF SchedulerOwned /\ s.silent >= 0 THEN Closes(s)
        ELSE IF Active THEN Keeps([s EXCEPT !.silent = -1]) /\ Saves(<<>>)
        ELSE IF s.silent < Grace THEN Keeps(Silent(s)) /\ Saves(<<>>)
        ELSE Closes(s)
    BY <1>3, <2>1, <2>2 DEF Observe
  <2>8. CASE Closes(s) /\ s.silent >= 0
    BY <1>1, <1>3, <2>1, <2>2, <2>8, ClosesKeeps
  <2>9. CASE ~(SchedulerOwned /\ s.silent >= 0) /\ Active
    <3>1. PICK n : n = [s EXCEPT !.silent = -1]
      OBVIOUS
    <3>2. n \in SessionSet /\ n.rows = A \cup Rows /\ n.span = z.span /\ n.silent = -1
      BY <2>2, <2>3, <3>1 DEF SessionSet
    <3>3. tracker' = [tracker EXCEPT !.session = <<n>>] /\ pc' = [step |-> "save", job |-> <<>>]
      BY <2>7, <2>9, <3>1 DEF Keeps, Saves
    <3>4. ~owned \/ ~ShutOut(tracker.session)
      BY <2>6, <2>9 DEF SchedulerOwned
    <3>5. n.span \subseteq FloorRuns(n.rows)
      BY <2>5, <3>2
    <3>6. n.silent >= 0 => ~Active
      BY <3>2
    <3> QED
      BY <1>1, <2>4, <3>2, <3>3, <3>4, <3>5, <3>6, GoesOn
  <2>10. CASE ~(SchedulerOwned /\ s.silent >= 0) /\ ~Active /\ s.silent < Grace
    <3>1. PICK n \in SessionSet :
            /\ n = Silent(s) /\ n.rows = s.rows
            /\ n.span = IF s.silent < 0 THEN FloorRuns(s.rows) ELSE s.span
      BY SilentFields
    <3>2. n.rows = A \cup Rows /\ n.span \subseteq FloorRuns(n.rows)
      BY <2>2, <2>3, <2>5, <3>1
    <3>3. tracker' = [tracker EXCEPT !.session = <<n>>] /\ pc' = [step |-> "save", job |-> <<>>]
      BY <2>7, <2>10, <3>1 DEF Keeps, Saves
    <3>4. ~owned \/ ~ShutOut(tracker.session)
      BY <2>6, <2>10 DEF SchedulerOwned
    <3> QED
      BY <1>1, <2>4, <2>10, <3>2, <3>3, <3>4, GoesOn
  <2> QED
    BY <2>6, <2>7, <2>8, <2>9, <2>10, SessionsAssumption
<1> QED
  BY <1>2, <1>3

-----------------------------------------------------------------------------
(* Saves, outages and the clock *)

LEMMA SessionSavedKeeps ==
  ASSUME SessionInv, SessionSaved
  PROVE  SessionInv'
<1>1. Typed
  BY DEF SessionInv
<1>2. PICK job \in {<<>>} \cup {<<j>> : j \in JobSet} : job = pc.job
  BY <1>1 DEF Typed
<1>3. Archiving = job /\ pc.step = "save" /\ pc' = [step |-> "arbitrate", job |-> <<>>]
  BY <1>2 DEF SessionSaved, Archiving
<1>4. PICK all : all = jobs \o job
  OBVIOUS
<1>5. Fits(tracker.session, stored.session, jobs, job)
  BY <1>3, FitsNow DEF SessionInv
<1>6. jobs \in Seq(JobSet) /\ Len(jobs) \in Nat
  BY <1>1 DEF Typed
<1>7. /\ all \in Seq(JobSet) /\ Len(jobs) <= Len(all)
      /\ \A i \in DOMAIN jobs : i \in DOMAIN all /\ all[i] = jobs[i]
      /\ \A i \in DOMAIN all : i \in DOMAIN jobs \/ (job # <<>> /\ i = Len(jobs) + 1 /\ all[i] = job[1])
  <2>1. CASE job = <<>>
    BY <1>4, <1>6, <2>1
  <2>2. CASE job # <<>>
    <3>1. PICK j \in JobSet : job = <<j>>
      BY <2>2
    <3>2. all = Append(jobs, j)
      BY <1>4, <1>6, <3>1
    <3> QED
      BY <1>6, <3>1, <3>2, <2>2
  <2> QED
    BY <2>1, <2>2
<1>8. job # <<>> => 1 \in DOMAIN job
  OBVIOUS
<1>9. Fits(tracker.session, tracker.session, all, <<>>)
  <2>1. \A i \in DOMAIN all : JobSane(all[i]) /\ Disjoint(all[i].span, Seen(tracker.session))
    BY <1>5, <1>7, <1>8 DEF Fits
  <2>2. ASSUME NEW i \in DOMAIN all, NEW k \in DOMAIN all, i # k
        PROVE  Disjoint(all[i].span, all[k].span)
    <3>1. CASE i \in DOMAIN jobs /\ k \in DOMAIN jobs
      BY <1>5, <1>7, <2>2, <3>1 DEF Fits
    <3>2. CASE i \in DOMAIN jobs /\ k \notin DOMAIN jobs
      BY <1>5, <1>7, <1>8, <3>2 DEF Fits
    <3>3. CASE i \notin DOMAIN jobs /\ k \in DOMAIN jobs
      <4>1. Disjoint(all[k].span, all[i].span)
        BY <1>5, <1>7, <1>8, <3>3 DEF Fits
      <4> QED
        BY <4>1 DEF Disjoint
    <3>4. CASE i \notin DOMAIN jobs /\ k \notin DOMAIN jobs
      BY <1>7, <2>2, <3>4
    <3> QED
      BY <3>1, <3>2, <3>3, <3>4
  <2> QED
    BY <1>5, <2>1, <2>2 DEF Fits
<1>10. stored' = [stored EXCEPT !.session = tracker.session] /\ tracker' = tracker /\ jobs' = all
  BY <1>2, <1>4 DEF SessionSaved
<1>11. /\ stored'.session = tracker.session /\ stored'.jobs = stored.jobs /\ stored'.charging = stored.charging
       /\ stored' \in [session : Sessions, jobs : Seq(JobSet), charging : Ledgers]
  BY <1>1, <1>10 DEF Typed
<1>12. truth' \in TruthFields /\ Still
  BY <1>1, HistoryNoted DEF SessionSaved, Still
<1>13. pc' \in [step : {"idle", "save", "arbitrate"}, job : {<<>>} \cup {<<j>> : j \in JobSet}]
       /\ pc'.step = "arbitrate"
  BY <1>1, <1>3 DEF Typed
<1>14. Records' /\ Apart'
  <2>1. Archiving' = <<>>
    BY <1>13 DEF Archiving
  <2> QED
    BY <1>1, <1>9, <1>10, <1>11, <1>12, <2>1, RecordsWritten
<1>15. Typed'
  BY <1>1, <1>7, <1>10, <1>11, <1>12, <1>13 DEF Typed, SessionSaved, charge
<1>16. Filed'
  <2>1. stored.jobs \in Seq(JobSet)
    BY <1>1 DEF Typed
  <2>2. Len(stored.jobs) \in Nat /\ Len(all) \in Nat /\ DOMAIN stored.jobs = 1..Len(stored.jobs) /\ DOMAIN jobs = 1..Len(jobs)
    BY <1>6, <1>7, <2>1
  <2>3. Len(stored.jobs) <= Len(jobs) /\ \A i \in DOMAIN stored.jobs : stored.jobs[i] = jobs[i]
    BY DEF SessionInv, Filed
  <2>4. \A i \in DOMAIN stored.jobs : i \in DOMAIN jobs
    BY <2>2, <2>3, <1>6
  <2> QED
    BY <1>6, <1>7, <1>10, <1>11, <2>2, <2>3, <2>4 DEF Filed
<1>17. Synced'
  BY <1>10, <1>11 DEF Synced
<1>18. Charged'
  BY <1>11, ChargedStays DEF SessionInv, SessionSaved, charge
<1>19. (ShutOut(tracker.session) => ShutOut(tracker'.session))
       /\ (ShutOut(tracker.session) /\ ShutOut(stored.session) => ShutOut(stored'.session))
  BY <1>10, <1>11
<1> QED
  BY <1>12, <1>14, <1>15, <1>16, <1>17, <1>18, <1>19, StillKeeps

LEMMA JobsSavedKeeps ==
  ASSUME SessionInv, JobsSaved
  PROVE  SessionInv'
<1>1. Typed
  BY DEF SessionInv
<1>2. stored' = [stored EXCEPT !.jobs = jobs] /\ tracker' = tracker /\ jobs' = jobs /\ pc' = NoReconcile
      /\ pc.step = "arbitrate"
  BY DEF JobsSaved
<1>3. /\ stored'.session = stored.session /\ stored'.jobs = jobs /\ stored'.charging = stored.charging
      /\ stored' \in [session : Sessions, jobs : Seq(JobSet), charging : Ledgers]
  BY <1>1, <1>2 DEF Typed
<1>4. Still
  BY DEF JobsSaved, Still
<1>5. Archiving' = <<>> /\ Archiving = <<>>
  BY <1>2 DEF Archiving, NoReconcile
<1>6. Fits(tracker.session, stored.session, jobs, <<>>)
  BY <1>5, FitsNow DEF SessionInv
<1>7. Records' /\ Apart'
  BY <1>1, <1>2, <1>3, <1>4, <1>5, <1>6, RecordsWritten
<1>8. Typed'
  BY <1>1, <1>2, <1>3 DEF Typed, JobsSaved, charge, NoReconcile
<1>9. Filed'
  <2>1. Len(jobs) \in Nat
    BY <1>1 DEF Typed
  <2> QED
    BY <1>2, <1>3, <2>1 DEF Filed
<1>10. Synced'
  BY <1>2, <1>3 DEF SessionInv, Synced
<1>11. Charged'
  BY <1>3, ChargedStays DEF SessionInv, JobsSaved, charge
<1>12. (ShutOut(tracker.session) => ShutOut(tracker'.session))
       /\ (ShutOut(tracker.session) /\ ShutOut(stored.session) => ShutOut(stored'.session))
  BY <1>2, <1>3
<1> QED
  BY <1>4, <1>7, <1>8, <1>9, <1>10, <1>11, <1>12, StillKeeps

\* The clock adds to a silence, in memory and in the file.
LEMMA SilenceGrowsKeeps ==
  ASSUME SessionInv, SilenceGrows
  PROVE  SessionInv'
<1> DEFINE older(q) == IF q # NoSession /\ q[1].silent \in 0..Grace - 1
                       THEN <<[q[1] EXCEPT !.silent = @ + 1]>> ELSE q
<1>1. Typed
  BY DEF SessionInv
<1>2. ASSUME NEW q \in Sessions
      PROVE  /\ older(q) \in Sessions /\ Seen(older(q)) = Seen(q)
             /\ SessionSane(q) => SessionSane(older(q))
             /\ ShutOut(older(q)) <=> ShutOut(q)
             /\ older(q) = NoSession <=> q = NoSession
  <2>1. CASE older(q) = q
    BY <2>1
  <2>2. CASE older(q) # q
    <3>1. q # NoSession /\ q[1].silent \in 0..Grace - 1
      BY <2>2
    <3>2. PICK s \in SessionSet : q = <<s>> /\ s = q[1]
      BY <3>1 DEF Sessions
    <3>3. PICK n : n = [s EXCEPT !.silent = @ + 1]
      OBVIOUS
    <3>4. n \in SessionSet /\ n.rows = s.rows /\ n.span = s.span /\ n.silent >= 0 /\ s.silent >= 0
      BY <3>1, <3>2, <3>3, SessionsAssumption DEF SessionSet
    <3>5. older(q) = <<n>>
      BY <3>1, <3>2, <3>3
    <3>6. PICK o : o = older(q)
      OBVIOUS
    <3>7. o = <<n>> /\ o # NoSession /\ o[1] = n
      BY <3>5, <3>6 DEF NoSession
    <3>8. o \in Sessions
      BY <3>4, <3>7 DEF Sessions
    <3>9. Seen(o) = Seen(q)
      BY <3>1, <3>2, <3>4, <3>7 DEF Seen
    <3>10. SessionSane(q) => SessionSane(o)
      BY <3>1, <3>2, <3>4, <3>7, <3>9 DEF SessionSane
    <3>11. ShutOut(o) /\ ShutOut(q)
      BY <3>2, <3>4, <3>7 DEF ShutOut
    <3> QED
      BY <3>1, <3>6, <3>7, <3>8, <3>9, <3>10, <3>11
  <2> QED
    BY <2>1, <2>2
<1>3. tracker' = [tracker EXCEPT !.session = older(@)] /\ stored' = [stored EXCEPT !.session = older(@)]
  BY DEF SilenceGrows
<1>4. PICK q, d : q = older(tracker.session) /\ d = older(stored.session)
  OBVIOUS
<1>5. tracker' = [tracker EXCEPT !.session = q] /\ stored' = [stored EXCEPT !.session = d]
  BY <1>3, <1>4
<1>6. tracker.session \in Sessions /\ stored.session \in Sessions
  BY <1>1 DEF Typed
<1>7. /\ q \in Sessions /\ Seen(q) = Seen(tracker.session)
      /\ SessionSane(tracker.session) => SessionSane(q)
      /\ ShutOut(q) <=> ShutOut(tracker.session)
      /\ q = NoSession <=> tracker.session = NoSession
  BY <1>2, <1>4, <1>6
<1>8. /\ d \in Sessions /\ Seen(d) = Seen(stored.session)
      /\ SessionSane(stored.session) => SessionSane(d)
      /\ ShutOut(d) <=> ShutOut(stored.session)
      /\ d = NoSession <=> stored.session = NoSession
  BY <1>2, <1>4, <1>6
<1> HIDE DEF older
<1>9. /\ tracker'.session = q /\ stored'.session = d /\ stored'.jobs = stored.jobs
      /\ stored'.charging = stored.charging /\ jobs' = jobs /\ Archiving' = Archiving
  BY <1>1, <1>5 DEF Typed, SilenceGrows, Archiving
<1>10. /\ tracker' \in [session : Sessions, before : SUBSET RowSet]
       /\ stored' \in [session : Sessions, jobs : Seq(JobSet), charging : Ledgers]
  BY <1>1, <1>5, <1>7, <1>8 DEF Typed
<1>11. Still
  BY DEF SilenceGrows, Still
<1>12. Fits(q, d, jobs, Archiving)
  <2>1. Fits(tracker.session, stored.session, jobs, Archiving)
    BY FitsNow DEF SessionInv
  <2> QED
    BY <1>7, <1>8, <2>1 DEF Fits
<1>13. Records' /\ Apart'
  BY <1>1, <1>9, <1>11, <1>12, RecordsWritten
<1>14. Typed'
  BY <1>1, <1>10 DEF Typed, SilenceGrows, charge
<1>15. Filed'
  BY <1>9 DEF SessionInv, Filed
<1>16. Synced'
  <2>1. up' = up /\ pc' = pc
    BY DEF SilenceGrows
  <2>2. ShutOut(tracker.session)' <=> ShutOut(q)
    BY <1>9 DEF ShutOut
  <2>3. ShutOut(stored.session)' <=> ShutOut(d)
    BY <1>9 DEF ShutOut
  <2> QED
    BY <1>7, <1>8, <1>9, <2>1, <2>2, <2>3 DEF SessionInv, Synced
<1>17. Charged'
  BY <1>9, ChargedStays DEF SessionInv, SilenceGrows, charge
<1>18. (ShutOut(tracker.session) => ShutOut(tracker'.session))
       /\ (ShutOut(tracker.session) /\ ShutOut(stored.session) => ShutOut(stored'.session))
  BY <1>7, <1>8, <1>9
<1> QED
  BY <1>11, <1>13, <1>14, <1>15, <1>16, <1>17, <1>18, StillKeeps

LEMMA OneMoreMishap ==
  ASSUME Typed, truth' = [truth EXCEPT !.mishaps = @ + 1]
  PROVE  /\ truth' \in TruthFields
         /\ truth'.excused = truth.excused /\ truth'.interrupted = truth.interrupted
         /\ truth'.noticed = truth.noticed /\ truth'.lost = truth.lost
<1>1. truth \in TruthFields
  BY DEF Typed, TruthFields
<1>2. PICK m \in Int : m = truth.mishaps + 1
  BY <1>1 DEF TruthFields
<1>3. truth' = [truth EXCEPT !.mishaps = m]
  BY <1>2
<1> QED
  BY <1>1, <1>3 DEF TruthFields

\* The power went: the session is marked, or opened to be marked.
LEMMA PowerLostKeeps ==
  ASSUME SessionInv, PowerLost
  PROVE  SessionInv'
<1>1. Typed
  BY DEF SessionInv
<1>2. /\ up /\ ~owned /\ truth' = [truth EXCEPT !.mishaps = @ + 1] /\ alarm' = TRUE
      /\ UNCHANGED <<up, boots, robot, runs, owned, jobs, pc, charge, stored>>
  BY DEF PowerLost
<1>3. Fits(tracker.session, stored.session, jobs, Archiving)
  BY FitsNow DEF SessionInv
<1>4. /\ truth' \in TruthFields
      /\ truth'.excused = truth.excused /\ truth'.interrupted = truth.interrupted
  BY <1>1, <1>2, OneMoreMishap
<1>5. Still
  BY <1>2, <1>4 DEF Still
<1>6. \E q \in Sessions, B \in SUBSET RowSet :
        /\ tracker' = [session |-> q, before |-> B]
        /\ Fits(q, stored.session, jobs, Archiving)
        /\ q # NoSession
        /\ ShutOut(q) => ShutOut(tracker.session) /\ tracker.session # NoSession
  <2>1. CASE tracker.session # NoSession
    <3>1. tracker' = [tracker EXCEPT !.session = <<[tracker.session[1] EXCEPT !.power = TRUE]>>]
      BY <2>1 DEF PowerLost, Keeps
    <3>2. PICK s \in SessionSet : tracker.session = <<s>> /\ s = tracker.session[1]
      BY <2>1, <1>1 DEF Typed, Sessions
    <3>3. PICK n : n = [s EXCEPT !.power = TRUE]
      OBVIOUS
    <3>4. n \in SessionSet /\ n.rows = s.rows /\ n.span = s.span /\ n.silent = s.silent
      BY <3>3 DEF SessionSet
    <3>5. PICK q \in Sessions : q = <<n>>
      BY <3>4 DEF Sessions
    <3>6. q # NoSession /\ q[1] = n
      BY <3>5 DEF NoSession
    <3>7. Seen(q) = Seen(tracker.session)
      BY <2>1, <3>2, <3>4, <3>6 DEF Seen
    <3>8. SessionSane(q)
      BY <1>3, <2>1, <3>2, <3>4, <3>6, <3>7 DEF Fits, SessionSane
    <3>9. Fits(q, stored.session, jobs, Archiving)
      BY <1>3, <3>7, <3>8 DEF Fits
    <3>10. ShutOut(q) => ShutOut(tracker.session)
      BY <3>2, <3>4, <3>6 DEF ShutOut
    <3>11. PICK B \in SUBSET RowSet : tracker' = [session |-> q, before |-> B]
      BY <3>1, <3>2, <3>3, <3>5, <1>1 DEF Typed
    <3> QED
      BY <2>1, <3>6, <3>9, <3>10, <3>11
  <2>2. CASE tracker.session = NoSession
    <3>1. tracker' = [session |-> <<[Started({})[1] EXCEPT !.power = TRUE]>>, before |-> {}]
      BY <2>2 DEF PowerLost
    <3>2. PICK A \in SUBSET RowSet : A = {}
      OBVIOUS
    <3>3. PICK s \in SessionSet :
            /\ s = Started({})[1] /\ s.rows = A \cup Rows /\ s.span = {} /\ s.silent = -1
            /\ Known(FloorRuns(A)) /\ Hidden(FloorRuns(A))
            /\ \A i \in DOMAIN jobs : Disjoint(jobs[i].span, FloorRuns(A))
            /\ FloorRuns(A) = {}
      BY <3>2, OpenedSession
    <3>4. PICK n : n = [s EXCEPT !.power = TRUE]
      OBVIOUS
    <3>5. n \in SessionSet /\ n.rows = A \cup Rows /\ n.span = {} /\ n.silent = -1
      BY <3>3, <3>4 DEF SessionSet
    <3>6. PICK q \in Sessions : q = <<n>>
      BY <3>5 DEF Sessions
    <3>7. q # NoSession /\ q[1] = n /\ Seen(q) = FloorRuns(n.rows)
      BY <3>6 DEF NoSession, Seen
    <3>8. Known(FloorRuns(n.rows)) /\ Hidden(FloorRuns(n.rows))
      BY <1>2, <3>3, <3>5, MoreSeen
    <3>9. SessionSane(q)
      BY <3>5, <3>7, <3>8 DEF SessionSane
    <3>10. ASSUME NEW j, JobSane(j) PROVE Disjoint(j.span, Seen(q))
      <4>1. Disjoint(j.span, FloorRuns(A))
        BY <3>3 DEF Disjoint
      <4>2. Disjoint(j.span, FloorRuns(n.rows))
        BY <3>5, <3>10, <4>1, MoreApart
      <4> QED
        BY <3>7, <4>2
    <3>11. Fits(q, stored.session, jobs, Archiving)
      BY <1>3, <3>9, <3>10 DEF Fits
    <3>12. ~ShutOut(q)
      BY <3>5, <3>7 DEF ShutOut
    <3>13. tracker' = [session |-> q, before |-> {}]
      BY <3>1, <3>3, <3>4, <3>6
    <3> QED
      BY <3>7, <3>11, <3>12, <3>13
  <2> QED
    BY <2>1, <2>2
<1>7. PICK q \in Sessions, B \in SUBSET RowSet :
        /\ tracker' = [session |-> q, before |-> B]
        /\ Fits(q, stored.session, jobs, Archiving)
        /\ q # NoSession
        /\ ShutOut(q) => ShutOut(tracker.session) /\ tracker.session # NoSession
  BY <1>6
<1>8. tracker'.session = q /\ stored' = stored /\ jobs' = jobs /\ Archiving' = Archiving
  BY <1>2, <1>7 DEF Archiving
<1>9. Records' /\ Apart'
  BY <1>1, <1>5, <1>7, <1>8, RecordsWritten
<1>10. tracker' \in [session : Sessions, before : SUBSET RowSet]
  BY <1>7
<1>11. Typed'
  BY <1>1, <1>2, <1>4, <1>10 DEF Typed, charge, TruthFields
<1>12. Filed'
  BY <1>8 DEF SessionInv, Filed
<1>13. Synced'
  BY <1>2, <1>7, <1>8 DEF SessionInv, Synced, ShutOut
<1>14. Charged'
  BY <1>2, ChargedStays DEF SessionInv, charge
<1> QED
  BY <1>2, <1>5, <1>9, <1>11, <1>12, <1>13, <1>14, StillKeeps

\* The mark is saved, and the robot may have obeyed.
LEMMA AlarmSavedKeeps ==
  ASSUME SessionInv, AlarmSaved
  PROVE  SessionInv'
<1>1. Typed
  BY DEF SessionInv
<1>2. /\ alarm' = FALSE /\ UNCHANGED <<up, boots, runs, owned, tracker, jobs, pc, charge>>
      /\ truth' \in TruthFields
      /\ truth'.excused = truth.excused /\ truth'.interrupted = truth.interrupted
  BY <1>1, HistoryNoted DEF AlarmSaved
<1>3. /\ stored'.session = tracker.session /\ stored'.jobs \in {stored.jobs, jobs}
      /\ stored'.charging = stored.charging
      /\ stored' \in [session : Sessions, jobs : Seq(JobSet), charging : Ledgers]
  <2>1. PICK list \in {stored.jobs, jobs} :
          stored' = [stored EXCEPT !.session = tracker.session, !.jobs = list]
    BY DEF AlarmSaved
  <2>2. PICK x : x = [stored EXCEPT !.session = tracker.session]
    OBVIOUS
  <2>3. /\ x.session = tracker.session /\ x.charging = stored.charging
        /\ x \in [session : Sessions, jobs : Seq(JobSet), charging : Ledgers]
    BY <1>1, <2>2 DEF Typed
  <2>4. stored' = [x EXCEPT !.jobs = list] /\ list \in Seq(JobSet)
    BY <1>1, <2>1, <2>2 DEF Typed
  <2> QED
    BY <2>1, <2>3, <2>4
<1>4. robot \in RobotFields
  BY <1>1 DEF Typed, RobotFields
<1>5. /\ robot' \in RobotFields /\ robot'.seen = robot.seen
      /\ robot'.inRun => robot.inRun /\ robot'.status = robot.status
      /\ robot'.status \in Floor => robot'.inRun
  <2>1. "returning" \notin Floor
    BY SessionsAssumption
  <2>2. CASE robot' = robot
    BY <2>2, <1>4 DEF SessionInv, Sane
  <2>3. CASE robot' # robot
    <3>1. robot' = [robot EXCEPT !.status = "returning", !.inRun = FALSE]
      BY <2>3 DEF AlarmSaved
    <3>2. robot' \in RobotFields /\ robot'.seen = robot.seen /\ ~robot'.inRun /\ robot'.status = "returning"
      BY <1>4, <3>1 DEF RobotFields, Statuses
    <3> QED
      BY <2>1, <3>2
  <2> QED
    BY <2>2, <2>3
<1>6. Onward /\ Watched /\ ThisRun' = ThisRun
  <2>1. runs \in Seq({"outside", "scheduler"}) /\ Len(runs) \in Nat
    BY <1>1 DEF Typed
  <2>2. ThisRun' = ThisRun
    BY <1>2 DEF ThisRun
  <2>3. Onward
    BY <1>2, <1>5, <2>1 DEF Onward
  <2>4. Watched
    BY <1>2, <1>5, <2>2 DEF Watched, Hidden
  <2> QED
    BY <2>2, <2>3, <2>4
<1>7. Fits(tracker.session, tracker.session, jobs, Archiving)
  <2>1. Fits(tracker.session, stored.session, jobs, Archiving)
    BY FitsNow DEF SessionInv
  <2> QED
    BY <2>1 DEF Fits
<1>8. Records' /\ Apart'
  <2>1. Archiving' = Archiving /\ tracker'.session = tracker.session /\ jobs' = jobs
    BY <1>2 DEF Archiving
  <2> QED
    BY <1>1, <1>3, <1>6, <1>7, <2>1, RecordsCarried
<1>9. Typed'
  BY <1>1, <1>2, <1>3, <1>5 DEF Typed, charge, RobotFields
<1>10. Sane'
  BY <1>2, <1>5, <1>6 DEF SessionInv, Sane
<1>11. Filed'
  <2>1. Len(jobs) \in Nat
    BY <1>1 DEF Typed
  <2> QED
    BY <1>2, <1>3, <2>1 DEF SessionInv, Filed
<1>12. Synced'
  BY <1>2, <1>3 DEF Synced
<1>13. Closed'
  BY <1>2, <1>3, <1>5, <1>6 DEF SessionInv, Closed, ShutOut
<1>14. Charged'
  BY <1>2, <1>3, ChargedStays DEF SessionInv, charge
<1> QED
  BY <1>8, <1>9, <1>10, <1>11, <1>12, <1>13, <1>14 DEF SessionInv

-----------------------------------------------------------------------------
(* Home Assistant stops, dies and comes back *)

LEMMA CrashKeeps ==
  ASSUME SessionInv, HostDies
  PROVE  SessionInv'
<1>1. Typed
  BY DEF SessionInv
<1>2. /\ up' = FALSE /\ pc' = NoReconcile /\ alarm' = FALSE
      /\ UNCHANGED <<boots, robot, runs, owned, tracker, jobs, battery, charging, stored>>
  BY DEF HostDies
<1>3. /\ truth' \in TruthFields
      /\ truth'.excused = truth.excused /\ truth'.interrupted = truth.interrupted
  BY <1>1, HistoryLost DEF HostDies
<1>4. Still
  BY <1>2, <1>3 DEF Still
<1>5. Archiving' = <<>> /\ tracker' = tracker /\ stored' = stored /\ jobs' = jobs
  BY <1>2 DEF Archiving, NoReconcile
<1>6. Fits(tracker.session, stored.session, jobs, <<>>)
  <2>1. Fits(tracker.session, stored.session, jobs, Archiving)
    BY FitsNow DEF SessionInv
  <2> QED
    BY <2>1 DEF Fits
<1>7. Records' /\ Apart'
  BY <1>1, <1>4, <1>5, <1>6, RecordsWritten
<1>8. Typed'
  BY <1>1, <1>2, <1>3 DEF Typed, TruthFields, NoReconcile
<1>9. Filed'
  BY <1>5 DEF SessionInv, Filed
<1>10. Synced'
  BY <1>2 DEF Synced, NoReconcile
<1>11. Charged'
  BY <1>2, ChargedStays DEF SessionInv
<1>12. (ShutOut(tracker.session) => ShutOut(tracker'.session))
       /\ (ShutOut(tracker.session) /\ ShutOut(stored.session) => ShutOut(stored'.session))
  BY <1>5
<1> QED
  BY <1>4, <1>7, <1>8, <1>9, <1>10, <1>11, <1>12, StillKeeps

\* Everything is written, and the segment under way is closed.
LEMMA StopKeeps ==
  ASSUME SessionInv, Stop
  PROVE  SessionInv'
<1>1. Typed
  BY DEF SessionInv
<1>2. /\ up /\ up' = FALSE /\ alarm' = FALSE
      /\ charging' = Finalized(Observed(charging, boots), "integration_stop")
      /\ stored' = [session |-> tracker.session, jobs |-> jobs, charging |-> charging']
      /\ UNCHANGED <<boots, robot, runs, owned, tracker, jobs, pc, battery>>
  BY DEF Stop
<1>3. /\ truth' \in TruthFields
      /\ truth'.excused = truth.excused /\ truth'.interrupted = truth.interrupted
  BY <1>1, HistoryNoted DEF Stop
<1>4. Still
  BY <1>2, <1>3 DEF Still
<1>5. /\ Archiving' = Archiving /\ tracker' = tracker /\ jobs' = jobs
      /\ stored'.session = tracker.session /\ stored'.jobs = jobs /\ stored'.charging = charging'
  BY <1>2 DEF Archiving
<1>6. Fits(tracker.session, tracker.session, jobs, Archiving)
  <2>1. Fits(tracker.session, stored.session, jobs, Archiving)
    BY FitsNow DEF SessionInv
  <2> QED
    BY <2>1 DEF Fits
<1>7. Records' /\ Apart'
  BY <1>1, <1>4, <1>5, <1>6, RecordsWritten
<1>8. charging' \in Ledgers /\ charging'.active = <<>> /\ Whole(charging')
  <2>1. PICK c \in Ledgers :
          c = Observed(charging, boots) /\ Whole(c) /\ (c.active # <<>> => c.active[1].boots = {boots})
    BY <1>1, <1>2, ObservedWhole DEF SessionInv, Typed, Charged
  <2>2. "integration_stop" \in Reasons /\ boots \in Nat
    BY <1>1 DEF Reasons, Typed
  <2>3. Finalized(c, "integration_stop") \in Ledgers /\ Finalized(c, "integration_stop").active = <<>>
        /\ Whole(Finalized(c, "integration_stop"))
    BY <2>1, <2>2, FinalizedWhole DEF Whole, Unbroken
  <2> QED
    BY <1>2, <2>1, <2>3
<1>9. stored' \in [session : Sessions, jobs : Seq(JobSet), charging : Ledgers]
  BY <1>1, <1>2, <1>8 DEF Typed
<1>10. Typed'
  BY <1>1, <1>2, <1>3, <1>8, <1>9 DEF Typed, TruthFields
<1>11. Filed'
  <2>1. Len(jobs) \in Nat
    BY <1>1 DEF Typed
  <2> QED
    BY <1>5, <2>1 DEF Filed
<1>12. Synced'
  BY <1>5 DEF Synced
<1>13. Charged'
  <2>1. PICK c : c = charging'
    OBVIOUS
  <2>2. Whole(charging)' /\ Whole(stored.charging)'
    BY <2>1, <1>5, <1>8 DEF Whole, Unbroken
  <2> QED
    BY <1>2, <2>2 DEF Charged
<1>14. (ShutOut(tracker.session) => ShutOut(tracker'.session))
       /\ (ShutOut(tracker.session) /\ ShutOut(stored.session) => ShutOut(stored'.session))
  BY <1>5
<1> QED
  BY <1>4, <1>7, <1>10, <1>11, <1>12, <1>13, <1>14, StillKeeps

\* What the files hold is all that is left; charging begins anew.
LEMMA BootKeeps ==
  ASSUME SessionInv, Boot
  PROVE  SessionInv'
<1>1. Typed
  BY DEF SessionInv
<1>2. /\ up' = TRUE /\ boots' = boots + 1 /\ tracker' = [session |-> stored.session, before |-> {}]
      /\ jobs' = stored.jobs /\ pc' = NoReconcile
      /\ charging' = Observed(Resumed(stored.charging), boots')
      /\ stored' = [stored EXCEPT !.charging = charging']
      /\ UNCHANGED <<robot, runs, owned, alarm, battery>>
  BY DEF Boot
<1>3. truth' \in TruthFields /\ Still
  BY <1>1, <1>2, HistoryLost DEF Boot, Still
<1>4. PICK b \in Nat : b = boots + 1 /\ boots' = b
  BY <1>1, <1>2 DEF Typed
<1>5. PICK c \in Ledgers :
        /\ c = Observed(Resumed(stored.charging), b) /\ Whole(c)
        /\ c.active # <<>> => c.active[1].boots = {b}
  <2>1. "restart_boundary" \in Reasons /\ stored.charging \in Ledgers /\ battery.level \in Int
    BY <1>1 DEF Reasons, Typed
  <2>2. Whole(stored.charging)
    BY DEF SessionInv, Charged
  <2>3. PICK d \in Ledgers : d = Resumed(stored.charging) /\ d.active = <<>> /\ Whole(d)
    BY <2>1, <2>2, FinalizedWhole DEF Resumed, Whole, Unbroken
  <2> QED
    BY <2>1, <2>3, ObservedWhole
<1>6. charging' = c
  BY <1>2, <1>4, <1>5
<1>7. /\ Archiving' = <<>> /\ tracker'.session = stored.session /\ jobs' = stored.jobs
      /\ stored'.session = stored.session /\ stored'.jobs = stored.jobs /\ stored'.charging = c
      /\ stored' \in [session : Sessions, jobs : Seq(JobSet), charging : Ledgers]
  BY <1>1, <1>2, <1>5, <1>6 DEF Archiving, NoReconcile, Typed
<1>8. Fits(stored.session, stored.session, stored.jobs, <<>>)
  <2>1. Fits(tracker.session, stored.session, jobs, Archiving)
    BY FitsNow DEF SessionInv
  <2>2. stored.jobs \in Seq(JobSet) /\ jobs \in Seq(JobSet)
    BY <1>1 DEF Typed
  <2>3. Len(stored.jobs) <= Len(jobs) /\ \A i \in DOMAIN stored.jobs : stored.jobs[i] = jobs[i]
    BY DEF SessionInv, Filed
  <2>4. \A i \in DOMAIN stored.jobs : i \in DOMAIN jobs
    BY <2>2, <2>3
  <2> QED
    BY <2>1, <2>3, <2>4 DEF Fits
<1>9. Records' /\ Apart'
  BY <1>1, <1>3, <1>7, <1>8, RecordsWritten
<1>10. Typed'
  <2>1. tracker' \in [session : Sessions, before : SUBSET RowSet] /\ stored.jobs \in Seq(JobSet)
    BY <1>1, <1>2 DEF Typed
  <2> QED
    BY <1>1, <1>2, <1>3, <1>4, <1>5, <1>6, <1>7, <2>1 DEF Typed, NoReconcile
<1>11. Filed'
  <2>1. Len(stored.jobs) \in Nat
    BY <1>1 DEF Typed
  <2> QED
    BY <1>7, <2>1 DEF Filed
<1>12. Synced'
  BY <1>7 DEF Synced, ShutOut
<1>13. Charged'
  <2>1. Whole(charging)' /\ Whole(stored.charging)'
    BY <1>5, <1>6, <1>7 DEF Whole, Unbroken
  <2> QED
    BY <1>4, <1>5, <1>6, <2>1 DEF Charged
<1>14. Sane' /\ Closed'
  BY <1>3, <1>7 DEF SessionInv, Sane, Closed, Still, ThisRun, ShutOut
<1> QED
  BY <1>9, <1>10, <1>11, <1>12, <1>13, <1>14 DEF SessionInv

-----------------------------------------------------------------------------
(* The battery *)

\* The ledger of charging says nothing of the runs.
LEMMA LedgerKeeps ==
  ASSUME SessionInv, UNCHANGED <<up, boots, cleaning>>,
         truth' \in TruthFields, truth'.excused = truth.excused, truth'.interrupted = truth.interrupted,
         battery' \in [level : Int, docked : BOOLEAN, seen : BOOLEAN],
         charging' \in Ledgers,
         stored' \in [session : Sessions, jobs : Seq(JobSet), charging : Ledgers],
         stored'.session = stored.session, stored'.jobs = stored.jobs, Charged'
  PROVE  SessionInv'
<1>1. Typed /\ Still
  BY DEF SessionInv, Still, cleaning
<1>2. tracker' = tracker /\ jobs' = jobs /\ Archiving' = Archiving
  BY DEF cleaning, Archiving
<1>3. Fits(tracker.session, stored.session, jobs, Archiving)
  BY FitsNow DEF SessionInv
<1>4. Records' /\ Apart'
  BY <1>1, <1>2, <1>3, RecordsWritten
<1>5. Typed'
  BY <1>1 DEF Typed, cleaning, TruthFields
<1>6. Filed' /\ Synced'
  BY <1>2 DEF SessionInv, Filed, Synced, cleaning, ShutOut
<1>7. (ShutOut(tracker.session) => ShutOut(tracker'.session))
      /\ (ShutOut(tracker.session) /\ ShutOut(stored.session) => ShutOut(stored'.session))
  BY <1>2
<1> QED
  BY <1>1, <1>4, <1>5, <1>6, <1>7, StillKeeps

LEMMA ChargingIsKeeps ==
  ASSUME SessionInv, NEW c \in Ledgers, ChargingIs(c), Whole(c),
         up /\ c.active # <<>> => c.active[1].boots = {boots}
  PROVE  SessionInv'
<1>1. /\ charging' = c /\ stored' = [stored EXCEPT !.charging = c]
      /\ UNCHANGED <<up, boots, cleaning, battery, truth>>
  BY DEF ChargingIs
<1>2. Typed
  BY DEF SessionInv
<1>3. /\ stored'.session = stored.session /\ stored'.jobs = stored.jobs /\ stored'.charging = c
      /\ stored' \in [session : Sessions, jobs : Seq(JobSet), charging : Ledgers]
  BY <1>1, <1>2 DEF Typed
<1>4. Whole(charging)' /\ Whole(stored.charging)'
  BY <1>1, <1>3 DEF Whole, Unbroken
<1>5. Charged'
  BY <1>1, <1>4 DEF Charged
<1>6. truth' \in TruthFields /\ battery' \in [level : Int, docked : BOOLEAN, seen : BOOLEAN]
  BY <1>1, <1>2 DEF Typed, TruthFields
<1> QED
  BY <1>1, <1>3, <1>5, <1>6, LedgerKeeps

LEMMA BatteryMovesKeeps ==
  ASSUME SessionInv, BatteryMoves
  PROVE  SessionInv'
<1>1. Typed
  BY DEF SessionInv
<1>2. UNCHANGED <<up, boots, cleaning, charging, stored>>
  BY DEF BatteryMoves
<1>3. battery \in [level : Int, docked : BOOLEAN, seen : BOOLEAN] /\ truth \in TruthFields
  BY <1>1 DEF Typed, TruthFields
<1>4. battery' \in [level : Int, docked : BOOLEAN, seen : BOOLEAN]
  <2>1. \/ battery' = [battery EXCEPT !.level = battery.level + 1]
        \/ battery' = [battery EXCEPT !.level = battery.level - 1]
        \/ battery' = [battery EXCEPT !.docked = ~battery.docked]
        \/ battery' = [battery EXCEPT !.seen = ~battery.seen]
    BY DEF BatteryMoves
  <2>2. battery.level + 1 \in Int /\ battery.level - 1 \in Int
    BY <1>3
  <2>3. PICK docked, shown \in BOOLEAN : docked = ~battery.docked /\ shown = ~battery.seen
    OBVIOUS
  <2>4. CASE \/ battery' = [battery EXCEPT !.level = battery.level + 1]
             \/ battery' = [battery EXCEPT !.level = battery.level - 1]
    BY <2>2, <2>4, <1>3
  <2>5. CASE \/ battery' = [battery EXCEPT !.docked = docked]
             \/ battery' = [battery EXCEPT !.seen = shown]
    BY <2>5, <1>3
  <2> QED
    BY <2>1, <2>3, <2>4, <2>5
<1>5. /\ truth' \in TruthFields /\ truth'.excused = truth.excused /\ truth'.interrupted = truth.interrupted
  <2>1. truth' = truth \/ truth' = [truth EXCEPT !.drops = truth.drops + 1]
    BY DEF BatteryMoves
  <2> QED
    BY <2>1, <1>3 DEF TruthFields
<1>6. Charged'
  BY <1>2, ChargedStays DEF SessionInv
<1> QED
  BY <1>1, <1>2, <1>4, <1>5, <1>6, LedgerKeeps DEF Typed

LEMMA ObserveChargeKeeps ==
  ASSUME SessionInv, ObserveCharge
  PROVE  SessionInv'
<1>1. Typed
  BY DEF SessionInv
<1>2. PICK c \in Ledgers :
        /\ c = Observed(charging, boots) /\ Whole(c)
        /\ c.active # <<>> => c.active[1].boots = {boots}
  BY <1>1, ObservedWhole DEF SessionInv, Typed, Charged, ObserveCharge
<1>3. ChargingIs(c)
  BY <1>2 DEF ObserveCharge
<1> QED
  BY <1>2, <1>3, ChargingIsKeeps

LEMMA ClearChargesKeeps ==
  ASSUME SessionInv, ClearCharges
  PROVE  SessionInv'
<1>1. PICK c : c = [charging EXCEPT !.sessions = {}]
  OBVIOUS
<1>2. charging \in Ledgers /\ Charged
  BY DEF SessionInv, Typed
<1>3. c \in Ledgers /\ c.active = charging.active /\ c.sessions = {}
  BY <1>1, <1>2 DEF Ledgers
<1>4. Whole(c) /\ (up /\ c.active # <<>> => c.active[1].boots = {boots})
  BY <1>2, <1>3 DEF Charged, Whole
<1>5. ChargingIs(c)
  BY <1>1 DEF ClearCharges
<1> QED
  BY <1>3, <1>4, <1>5, ChargingIsKeeps

LEMMA SegmentAgesKeeps ==
  ASSUME SessionInv, SegmentAges
  PROVE  SessionInv'
<1>1. Typed /\ charging \in Ledgers /\ Charged
  BY DEF SessionInv, Typed
<1>2. /\ charging.active # <<>> /\ charging' = [charging EXCEPT !.active[1].age = 1]
      /\ UNCHANGED <<up, boots, cleaning, battery, stored, truth>>
  BY DEF SegmentAges
<1>3. PICK a \in SegmentSet : charging.active = <<a>> /\ a = charging.active[1]
  BY <1>1, <1>2, LedgerFields
<1>4. PICK n : n = [a EXCEPT !.age = 1]
  OBVIOUS
<1>5. n \in SegmentSet /\ n.boots = a.boots /\ n.dropped = a.dropped
  BY <1>4 DEF SegmentSet
<1>6. [charging.active EXCEPT ![1].age = 1] = <<n>>
  BY <1>3, <1>4
<1>7. charging' = [charging EXCEPT !.active = <<n>>]
  <2>1. charging' = [charging EXCEPT !.active = [charging.active EXCEPT ![1].age = 1]]
    BY <1>2
  <2> QED
    BY <2>1, <1>6
<1>8. /\ charging' \in Ledgers /\ charging'.active = <<n>> /\ charging'.sessions = charging.sessions
  BY <1>1, <1>5, <1>7 DEF Ledgers
<1>9. Whole(charging)' /\ Whole(stored.charging)'
  BY <1>1, <1>2, <1>3, <1>5, <1>8 DEF Charged, Whole, Unbroken
<1>10. Charged'
  BY <1>1, <1>2, <1>3, <1>5, <1>8, <1>9 DEF Charged
<1> QED
  BY <1>1, <1>2, <1>8, <1>10, LedgerKeeps DEF Typed, TruthFields

-----------------------------------------------------------------------------
(* No row is lost but in the one window *)

LEMMA KeptWritten ==
  ASSUME NEW q, NEW d, NEW archived, NEW filed, NEW waiting, NEW N, NEW L,
         tracker'.session = q, stored'.session = d, jobs' = archived, stored'.jobs = filed,
         pc'.job = waiting, truth'.noticed = N, truth'.lost = L,
         pc'.step # "save" => waiting = <<>>,
         up' /\ pc'.step = "idle" => filed = archived,
         Remembers(q), Remembers(d),
         N \subseteq Seen(d) \cup Spans(filed) \cup (Spans(archived) \cup Spans(waiting)) \cup L,
         up' \/ pc'.step # "idle" => N \subseteq Seen(q) \cup (Spans(archived) \cup Spans(waiting)) \cup L
  PROVE  Kept'
<1>1. Seen(tracker.session)' = Seen(q) /\ Seen(stored.session)' = Seen(d)
  BY DEF Seen, FloorRuns
<1>2. Spans(stored.jobs)' = Spans(filed) /\ Queued' = Spans(archived) \cup Spans(waiting)
  BY DEF Spans, Queued
<1>3. Remembers(tracker.session)' /\ Remembers(stored.session)'
  BY <1>1 DEF Remembers
<1> QED
  BY <1>1, <1>2, <1>3 DEF Kept

\* Most steps write nothing of the runs.
LEMMA KeptUntouched ==
  ASSUME Kept, up' = up, pc' = pc, jobs' = jobs, tracker'.session = tracker.session,
         stored'.session = stored.session, stored'.jobs = stored.jobs,
         truth'.noticed = truth.noticed, truth'.lost = truth.lost
  PROVE  Kept'
<1>1. Remembers(tracker.session) /\ Remembers(stored.session)
  BY DEF Kept
<1> QED
  BY <1>1, KeptWritten DEF Kept, Queued

LEMMA KeptOutside ==
  ASSUME SessionInv, Kept,
         \/ OutsideStarts \/ RunGoesOn \/ RunEnds \/ BetweenRuns \/ HidesOrShows
         \/ SchedulerStarts \/ AttemptEnds \/ Charging \/ UNCHANGED sessionVars
  PROVE  Kept'
<1>1. truth \in TruthFields /\ ThisRun \in Nat
  BY DEF SessionInv, Typed, ThisRun
<1>2. truth'.noticed = truth.noticed /\ truth'.lost = truth.lost
  <2>1. CASE RunGoesOn \/ HidesOrShows
    <3>1. PICK I : I = truth.interrupted \cup {ThisRun}
      OBVIOUS
    <3>2. I \in SUBSET Nat /\ truth.interrupted \in SUBSET Nat
      BY <1>1, <3>1 DEF TruthFields
    <3>3. truth' = truth \/ truth' = MishapOf(truth, I) \/ truth' = MishapOf(truth, truth.interrupted)
      BY <2>1, <3>1 DEF RunGoesOn, HidesOrShows, MishapOf
    <3> QED
      BY <1>1, <3>2, <3>3, Mishap
  <2>2. CASE SchedulerStarts \/ AttemptEnds
    BY <1>1, <2>2 DEF SchedulerStarts, AttemptEnds, TruthFields
  <2>3. CASE OutsideStarts \/ RunEnds \/ BetweenRuns \/ UNCHANGED sessionVars
    BY <2>3 DEF OutsideStarts, RunEnds, BetweenRuns, sessionVars
  <2>4. CASE Charging
    BY <1>1, <2>4 DEF Charging, BatteryMoves, ObserveCharge, ClearCharges, ChargingIs, SegmentAges, TruthFields
  <2> QED
    BY <2>1, <2>2, <2>3, <2>4
<1>3. UNCHANGED <<up, pc, jobs, tracker>>
  BY DEF OutsideStarts, RunGoesOn, RunEnds, BetweenRuns, HidesOrShows, RobotMoves, SchedulerStarts,
         AttemptEnds, Charging, BatteryMoves, ObserveCharge, ClearCharges, ChargingIs, SegmentAges,
         sessionVars, cleaning
<1>4. stored'.session = stored.session /\ stored'.jobs = stored.jobs
  <2>1. stored' = stored \/ stored' = [stored EXCEPT !.charging = charging']
    BY DEF OutsideStarts, RunGoesOn, RunEnds, BetweenRuns, HidesOrShows, RobotMoves, SchedulerStarts,
           AttemptEnds, Charging, BatteryMoves, ObserveCharge, ClearCharges, ChargingIs, SegmentAges,
           sessionVars
  <2> QED
    BY <2>1 DEF SessionInv, Typed
<1> QED
  BY <1>2, <1>3, <1>4, KeptUntouched

\* An observation forgets no run: the session goes on with it, or becomes a job
\* that has it.
LEMMA KeptObserved ==
  ASSUME Kept, up, pc.step = "idle", UNCHANGED <<up, jobs, stored, truth>>,
         NEW q, NEW waiting, tracker'.session = q, pc'.job = waiting, pc'.step # "idle",
         pc'.step # "save" => waiting = <<>>, Remembers(q),
         Seen(tracker.session) \subseteq Seen(q) \cup Spans(waiting)
  PROVE  Kept'
<1>1. pc.job = <<>> /\ stored.jobs = jobs /\ Remembers(stored.session)
  BY DEF Kept
<1>2. Queued = Spans(jobs)
  BY <1>1 DEF Queued, Spans
<1>3. /\ truth.noticed \subseteq Seen(stored.session) \cup Spans(stored.jobs) \cup Queued \cup truth.lost
      /\ truth.noticed \subseteq Seen(tracker.session) \cup Queued \cup truth.lost
  BY DEF Kept
<1> QED
  BY <1>1, <1>2, <1>3, KeptWritten

LEMMA KeptObserve ==
  ASSUME SessionInv, Kept, Observe
  PROVE  Kept'
<1>1. /\ up /\ pc.step = "idle" /\ pc.job = <<>> /\ UNCHANGED <<up, jobs, stored, truth>>
      /\ Remembers(tracker.session)
  BY DEF Observe, Kept
<1>2. Typed
  BY DEF SessionInv
<1>3. CASE tracker.session = NoSession
  <2>1. Seen(tracker.session) = {}
    BY <1>3 DEF Seen
  <2>2. CASE pc' = [pc EXCEPT !.step = "arbitrate"] /\ tracker'.session = tracker.session
    <3>1. pc'.step = "arbitrate" /\ pc'.job = <<>>
      BY <1>1, <1>2, <2>2 DEF Typed
    <3> QED
      BY <1>1, <2>1, <2>2, <3>1, KeptObserved
  <2>3. CASE StartSession(Buffered) /\ Saves(<<>>)
    <3>1. PICK A : tracker'.session = Started(A)
      BY <2>3 DEF StartSession
    <3>2. Started(A) # NoSession /\ Started(A)[1].silent = -1
      BY DEF Started, NoSession
    <3>3. pc'.step = "save" /\ pc'.job = <<>>
      BY <2>3 DEF Saves
    <3>4. Remembers(Started(A))
      BY <3>2 DEF Remembers
    <3> QED
      BY <1>1, <2>1, <3>1, <3>3, <3>4, KeptObserved
  <2> QED
    BY <1>2, <1>3, <2>2, <2>3 DEF Observe, Buffered, Typed
<1>4. CASE tracker.session # NoSession
  <2>1. PICK z \in SessionSet : tracker.session = <<z>> /\ z = tracker.session[1]
    BY <1>2, <1>4 DEF Typed, Sessions
  <2>2. PICK s \in SessionSet : s = Appended(z) /\ s.rows = z.rows \cup Rows /\ s.span = z.span /\ s.silent = z.silent
    BY AppendedFields
  <2>3. s.silent \in Int /\ z.rows \in SUBSET RowSet
    BY DEF SessionSet
  <2>4. Seen(tracker.session) = FloorRuns(z.rows)
    BY <1>4, <2>1 DEF Seen
  <2>5. s.silent >= 0 => FloorRuns(z.rows) \subseteq z.span
    BY <1>1, <1>4, <2>1, <2>2, <2>4 DEF Remembers
  <2>6. FloorRuns(s.rows) = FloorRuns(z.rows) \cup FloorRuns(Rows)
    BY <2>2, <2>3, RowsFields, FloorRunsOf
  <2>7. IF SchedulerOwned /\ s.silent >= 0 THEN Closes(s)
        ELSE IF Active THEN Keeps([s EXCEPT !.silent = -1]) /\ Saves(<<>>)
        ELSE IF s.silent < Grace THEN Keeps(Silent(s)) /\ Saves(<<>>)
        ELSE Closes(s)
    BY <1>4, <2>1, <2>2 DEF Observe
  <2>8. ASSUME NEW n \in SessionSet, Keeps(n), Saves(<<>>), n.rows = s.rows,
               n.silent >= 0 => FloorRuns(s.rows) \subseteq n.span
        PROVE  Kept'
    <3>1. PICK q : q = <<n>>
      OBVIOUS
    <3>2. q # NoSession /\ q[1] = n
      BY <3>1 DEF NoSession
    <3>3. tracker'.session = q
      BY <1>2, <2>8, <3>1 DEF Keeps, Typed
    <3>4. Seen(q) = FloorRuns(s.rows)
      BY <2>8, <3>2 DEF Seen
    <3>5. Remembers(q)
      BY <2>8, <3>2, <3>4 DEF Remembers
    <3>6. pc'.step = "save" /\ pc'.job = <<>>
      BY <2>8 DEF Saves
    <3> QED
      BY <1>1, <2>4, <2>6, <3>3, <3>4, <3>5, <3>6, KeptObserved
  <2>9. CASE Closes(s) /\ s.silent >= 0
    <3>1. PICK j \in JobSet : j = Job(s) /\ j.span = s.span
      BY JobFields
    <3>2. PICK waiting : waiting = <<j>>
      OBVIOUS
    <3>3. Spans(waiting) = j.span
      BY <3>2 DEF Spans
    <3>4. tracker'.session = NoSession /\ pc'.step = "save" /\ pc'.job = waiting
      BY <1>2, <2>9, <3>1, <3>2 DEF Closes, Saves, Typed
    <3>5. Remembers(NoSession)
      BY DEF Remembers
    <3> QED
      BY <1>1, <2>2, <2>4, <2>5, <2>9, <3>1, <3>3, <3>4, <3>5, KeptObserved
  <2>10. CASE ~(SchedulerOwned /\ s.silent >= 0) /\ Active
    <3>1. PICK n : n = [s EXCEPT !.silent = -1]
      OBVIOUS
    <3>2. n \in SessionSet /\ n.rows = s.rows /\ n.silent = -1
      BY <3>1 DEF SessionSet
    <3>3. Keeps(n) /\ Saves(<<>>)
      BY <2>7, <2>10, <3>1
    <3> QED
      BY <2>8, <3>2, <3>3
  <2>11. CASE ~(SchedulerOwned /\ s.silent >= 0) /\ ~Active /\ s.silent < Grace
    <3>1. PICK n \in SessionSet :
            /\ n = Silent(s) /\ n.rows = s.rows
            /\ n.span = IF s.silent < 0 THEN FloorRuns(s.rows) ELSE s.span
      BY SilentFields
    <3>2. Keeps(n) /\ Saves(<<>>)
      BY <2>7, <2>11, <3>1
    <3>3. FloorRuns(Rows) = {}
      BY <2>11, RowsFields DEF Active, Cleans
    <3>4. FloorRuns(s.rows) \subseteq n.span
      BY <2>2, <2>3, <2>5, <2>6, <3>1, <3>3
    <3> QED
      BY <2>8, <3>1, <3>2, <3>4
  <2> QED
    BY <2>3, <2>7, <2>9, <2>10, <2>11, SessionsAssumption
<1> QED
  BY <1>3, <1>4

\* A file that is told of the session in memory knows what it now owes.
LEMMA KeptSessionSaved ==
  ASSUME SessionInv, Kept, SessionSaved
  PROVE  Kept'
<1>1. Typed
  BY DEF SessionInv
<1>2. /\ pc.step = "save" /\ pc'.step = "arbitrate" /\ pc'.job = <<>> /\ jobs' = jobs \o pc.job
      /\ tracker'.session = tracker.session
  BY DEF SessionSaved
<1>3. stored'.session = tracker.session /\ stored'.jobs = stored.jobs
  BY <1>1 DEF SessionSaved, Typed
<1>4. truth'.noticed = truth.noticed \cup Seen(tracker.session) /\ truth'.lost = truth.lost
  BY <1>1, HistoryNoted DEF SessionSaved
<1>5. Spans(jobs \o pc.job) = Spans(jobs) \cup Spans(pc.job)
  <2>1. jobs \in Seq(JobSet) /\ (pc.job = <<>> \/ \E j \in JobSet : pc.job = <<j>>)
    BY <1>1 DEF Typed
  <2>2. CASE pc.job = <<>>
    BY <2>1, <2>2 DEF Spans
  <2>3. ASSUME NEW j \in JobSet, pc.job = <<j>> PROVE Spans(jobs \o pc.job) = Spans(jobs) \cup Spans(pc.job)
    <3>1. PICK all : all = jobs \o pc.job
      OBVIOUS
    <3>2. all = Append(jobs, j) /\ Len(jobs) \in Nat
      BY <2>1, <2>3, <3>1
    <3>3. DOMAIN all = DOMAIN jobs \cup {Len(jobs) + 1} /\ all[Len(jobs) + 1] = j /\ \A i \in DOMAIN jobs : all[i] = jobs[i]
      BY <2>1, <3>2
    <3>4. Spans(all) = Spans(jobs) \cup j.span
      BY <3>3 DEF Spans
    <3>5. Spans(pc.job) = j.span
      BY <2>3 DEF Spans
    <3> QED
      BY <3>1, <3>4, <3>5
  <2> QED
    BY <2>1, <2>2, <2>3
<1>6. Spans(<<>>) = {}
  BY DEF Spans
<1>7. /\ truth.noticed \subseteq Seen(tracker.session) \cup Queued \cup truth.lost
      /\ Remembers(tracker.session)
  BY <1>2 DEF Kept
<1>8. PICK all, N :
        /\ all = jobs \o pc.job /\ Spans(all) = Queued
        /\ N = truth.noticed \cup Seen(tracker.session)
  BY <1>5 DEF Queued
<1>9. /\ N \subseteq Seen(tracker.session) \cup Spans(stored.jobs) \cup (Spans(all) \cup Spans(<<>>)) \cup truth.lost
      /\ N \subseteq Seen(tracker.session) \cup (Spans(all) \cup Spans(<<>>)) \cup truth.lost
  BY <1>6, <1>7, <1>8
<1>10. jobs' = all /\ truth'.noticed = N
  BY <1>2, <1>4, <1>8
<1> QED
  BY <1>2, <1>3, <1>4, <1>7, <1>9, <1>10, KeptWritten

LEMMA KeptJobsSaved ==
  ASSUME SessionInv, Kept, JobsSaved
  PROVE  Kept'
<1>1. Typed
  BY DEF SessionInv
<1>2. /\ pc.step = "arbitrate" /\ pc'.step = "idle" /\ pc'.job = <<>> /\ jobs' = jobs /\ up' = up
      /\ tracker'.session = tracker.session /\ truth'.noticed = truth.noticed /\ truth'.lost = truth.lost
  BY DEF JobsSaved, NoReconcile
<1>3. stored'.session = stored.session /\ stored'.jobs = jobs
  BY <1>1 DEF JobsSaved, Typed
<1>4. /\ truth.noticed \subseteq Seen(tracker.session) \cup Queued \cup truth.lost
      /\ truth.noticed \subseteq Seen(stored.session) \cup Spans(stored.jobs) \cup Queued \cup truth.lost
      /\ Remembers(tracker.session) /\ Remembers(stored.session) /\ pc.job = <<>>
  BY <1>2 DEF Kept
<1>5. Spans(stored.jobs) \subseteq Spans(jobs)
  <2>1. stored.jobs \in Seq(JobSet) /\ jobs \in Seq(JobSet)
    BY <1>1 DEF Typed
  <2>2. Len(stored.jobs) <= Len(jobs) /\ \A i \in DOMAIN stored.jobs : stored.jobs[i] = jobs[i]
    BY DEF SessionInv, Filed
  <2>3. \A i \in DOMAIN stored.jobs : i \in DOMAIN jobs
    BY <2>1, <2>2
  <2> QED
    BY <2>2, <2>3 DEF Spans
<1> QED
  BY <1>2, <1>3, <1>4, <1>5, KeptWritten DEF Queued

LEMMA KeptPowerLost ==
  ASSUME SessionInv, Kept, PowerLost
  PROVE  Kept'
<1>1. Typed
  BY DEF SessionInv
<1>2. /\ up /\ up' = up /\ pc' = pc /\ jobs' = jobs /\ stored' = stored
      /\ Remembers(tracker.session) /\ Remembers(stored.session)
  BY DEF PowerLost, Kept
<1>3. truth'.noticed = truth.noticed /\ truth'.lost = truth.lost
  BY <1>1, OneMoreMishap DEF PowerLost
<1>4. PICK q : tracker'.session = q /\ Remembers(q) /\ Seen(tracker.session) \subseteq Seen(q)
  <2>1. CASE tracker.session # NoSession
    <3>1. tracker'.session = <<[tracker.session[1] EXCEPT !.power = TRUE]>>
      BY <1>1, <2>1 DEF PowerLost, Keeps, Typed
    <3>2. PICK s \in SessionSet : tracker.session = <<s>> /\ s = tracker.session[1]
      BY <1>1, <2>1 DEF Typed, Sessions
    <3>3. PICK n : n = [s EXCEPT !.power = TRUE]
      OBVIOUS
    <3>4. n.rows = s.rows /\ n.span = s.span /\ n.silent = s.silent
      BY <3>3 DEF SessionSet
    <3>5. PICK q : q = <<n>>
      OBVIOUS
    <3>6. q # NoSession /\ q[1] = n
      BY <3>5 DEF NoSession
    <3>7. Seen(q) = Seen(tracker.session)
      BY <2>1, <3>2, <3>4, <3>6 DEF Seen
    <3>8. Remembers(q)
      BY <1>2, <2>1, <3>2, <3>4, <3>6, <3>7 DEF Remembers
    <3> QED
      BY <3>1, <3>2, <3>3, <3>5, <3>7, <3>8
  <2>2. CASE tracker.session = NoSession
    <3>1. tracker'.session = <<[Started({})[1] EXCEPT !.power = TRUE]>>
      BY <2>2 DEF PowerLost
    <3>2. PICK n : n = [Started({})[1] EXCEPT !.power = TRUE]
      OBVIOUS
    <3>3. n.silent = -1
      BY <3>2 DEF Started
    <3>4. PICK q : q = <<n>>
      OBVIOUS
    <3>5. q # NoSession /\ q[1] = n
      BY <3>4 DEF NoSession
    <3>6. Remembers(q)
      BY <3>3, <3>5 DEF Remembers
    <3>7. Seen(tracker.session) = {}
      BY <2>2 DEF Seen
    <3> QED
      BY <3>1, <3>2, <3>4, <3>6, <3>7
  <2> QED
    BY <2>1, <2>2
<1> QED
  BY <1>2, <1>3, <1>4, KeptWritten DEF Kept, Queued

LEMMA KeptAlarmSaved ==
  ASSUME SessionInv, Kept, AlarmSaved
  PROVE  Kept'
<1>1. Typed
  BY DEF SessionInv
<1>2. /\ up /\ up' = up /\ pc' = pc /\ jobs' = jobs /\ tracker'.session = tracker.session
      /\ Remembers(tracker.session)
      /\ truth.noticed \subseteq Seen(tracker.session) \cup Queued \cup truth.lost
      /\ pc.step # "save" => pc.job = <<>>
      /\ pc.step = "idle" => stored.jobs = jobs
  BY DEF AlarmSaved, Kept
<1>3. truth'.noticed = truth.noticed \cup Seen(tracker.session) /\ truth'.lost = truth.lost
  BY <1>1, HistoryNoted DEF AlarmSaved
<1>4. stored'.session = tracker.session /\ stored'.jobs \in {stored.jobs, jobs}
  <2>1. PICK list \in {stored.jobs, jobs} :
          stored' = [stored EXCEPT !.session = tracker.session, !.jobs = list]
    BY DEF AlarmSaved
  <2> QED
    BY <1>1, <2>1 DEF Typed
<1> QED
  BY <1>2, <1>3, <1>4, KeptWritten DEF Queued

LEMMA KeptSilenceGrows ==
  ASSUME SessionInv, Kept, SilenceGrows
  PROVE  Kept'
<1> DEFINE older(q) == IF q # NoSession /\ q[1].silent \in 0..Grace - 1
                       THEN <<[q[1] EXCEPT !.silent = @ + 1]>> ELSE q
<1>1. Typed
  BY DEF SessionInv
<1>2. ASSUME NEW q \in Sessions, Remembers(q)
      PROVE  Remembers(older(q)) /\ Seen(older(q)) = Seen(q)
  <2>1. CASE older(q) = q
    BY <1>2, <2>1
  <2>2. CASE older(q) # q
    <3>1. q # NoSession /\ q[1].silent \in 0..Grace - 1
      BY <2>2
    <3>2. PICK s \in SessionSet : q = <<s>> /\ s = q[1]
      BY <3>1 DEF Sessions
    <3>3. PICK n : n = [s EXCEPT !.silent = @ + 1]
      OBVIOUS
    <3>4. n.rows = s.rows /\ n.span = s.span /\ s.silent >= 0
      BY <3>1, <3>2, <3>3, SessionsAssumption DEF SessionSet
    <3>5. older(q) = <<n>>
      BY <3>1, <3>2, <3>3
    <3>6. PICK o : o = older(q)
      OBVIOUS
    <3>7. o # NoSession /\ o[1] = n
      BY <3>5, <3>6 DEF NoSession
    <3>8. Seen(o) = Seen(q)
      BY <3>1, <3>2, <3>4, <3>7 DEF Seen
    <3>9. Seen(q) \subseteq s.span
      BY <1>2, <3>1, <3>2, <3>4 DEF Remembers
    <3>10. Remembers(o)
      BY <3>4, <3>7, <3>8, <3>9 DEF Remembers
    <3> QED
      BY <3>6, <3>8, <3>10
  <2> QED
    BY <2>1, <2>2
<1>3. tracker.session \in Sessions /\ stored.session \in Sessions
      /\ Remembers(tracker.session) /\ Remembers(stored.session)
  BY <1>1 DEF Typed, Kept
<1>4. PICK q, d : q = older(tracker.session) /\ d = older(stored.session)
  OBVIOUS
<1>5. /\ Remembers(q) /\ Seen(q) = Seen(tracker.session)
      /\ Remembers(d) /\ Seen(d) = Seen(stored.session)
  BY <1>2, <1>3, <1>4
<1>6. tracker' = [tracker EXCEPT !.session = q] /\ stored' = [stored EXCEPT !.session = d]
  BY <1>4 DEF SilenceGrows
<1> HIDE DEF older
<1>7. tracker'.session = q /\ stored'.session = d /\ stored'.jobs = stored.jobs
  BY <1>1, <1>6 DEF Typed
<1>8. up' = up /\ pc' = pc /\ jobs' = jobs /\ truth' = truth
  BY DEF SilenceGrows
<1> QED
  BY <1>5, <1>7, <1>8, KeptWritten DEF Kept, Queued

\* What is on disk is all that a start finds, and what is not is lost.
LEMMA KeptLifetime ==
  ASSUME SessionInv, Kept, Lifetime
  PROVE  Kept'
<1>1. Typed
  BY DEF SessionInv
<1>2. /\ Remembers(tracker.session) /\ Remembers(stored.session)
      /\ truth.noticed \subseteq Seen(stored.session) \cup Spans(stored.jobs) \cup Queued \cup truth.lost
  BY DEF Kept
<1>3. Spans(<<>>) = {}
  BY DEF Spans
<1>4. CASE Stop
  <2>1. /\ up /\ up' = FALSE /\ pc' = pc /\ jobs' = jobs /\ tracker' = tracker
        /\ stored'.session = tracker.session /\ stored'.jobs = jobs
    BY <1>4 DEF Stop
  <2>2. truth'.noticed = truth.noticed \cup Seen(tracker.session) /\ truth'.lost = truth.lost
    BY <1>1, <1>4, HistoryNoted DEF Stop
  <2>3. /\ truth.noticed \subseteq Seen(tracker.session) \cup Queued \cup truth.lost
        /\ pc.step # "save" => pc.job = <<>>
    BY <2>1 DEF Kept
  <2> QED
    BY <1>2, <2>1, <2>2, <2>3, KeptWritten DEF Queued
<1>5. CASE HostDies
  <2>1. /\ up' = FALSE /\ pc'.step = "idle" /\ pc'.job = <<>>
        /\ jobs' = jobs /\ tracker' = tracker /\ stored' = stored
    BY <1>5 DEF HostDies, NoReconcile
  <2>2. truth'.noticed = truth.noticed /\ truth'.lost = truth.lost \cup Unsaved
    BY <1>1, <1>5, HistoryLost DEF HostDies
  <2>3. truth.noticed \subseteq Seen(stored.session) \cup Spans(stored.jobs) \cup (truth.lost \cup Unsaved)
    BY <1>2 DEF Queued, Unsaved
  <2> QED
    BY <1>2, <1>3, <2>1, <2>2, <2>3, KeptWritten
<1>6. CASE Boot
  <2>1. /\ up' = TRUE /\ pc'.step = "idle" /\ pc'.job = <<>>
        /\ jobs' = stored.jobs /\ tracker'.session = stored.session
    BY <1>6 DEF Boot, NoReconcile
  <2>2. stored'.session = stored.session /\ stored'.jobs = stored.jobs
    BY <1>1, <1>6 DEF Boot, Typed
  <2>3. truth'.noticed = truth.noticed /\ truth'.lost = truth.lost \cup Unsaved
    BY <1>1, <1>6, HistoryLost DEF Boot
  <2>4. truth.noticed \subseteq Seen(stored.session) \cup Spans(stored.jobs) \cup (truth.lost \cup Unsaved)
    BY <1>2 DEF Queued, Unsaved
  <2> QED
    BY <1>2, <1>3, <2>1, <2>2, <2>3, <2>4, KeptWritten
<1> QED
  BY <1>4, <1>5, <1>6 DEF Lifetime

-----------------------------------------------------------------------------
(* The invariant *)

LEMMA InitInvariant ==
  ASSUME SessionsInit
  PROVE  SessionInv
<1>1. /\ up = TRUE /\ boots = 1
      /\ robot = [status |-> "idle", inRun |-> FALSE, seen |-> TRUE, ended |-> FALSE]
      /\ runs = <<>> /\ owned = FALSE
      /\ tracker = [session |-> NoSession, before |-> {}]
      /\ jobs = <<>> /\ pc = NoReconcile /\ alarm = FALSE
      /\ battery = [level |-> Full - 2, docked |-> TRUE, seen |-> TRUE]
      /\ charging = [active |-> <<>>, sessions |-> {}]
      /\ stored = [session |-> NoSession, jobs |-> <<>>, charging |-> charging]
      /\ truth = [excused |-> {}, interrupted |-> {}, noticed |-> {}, lost |-> {},
                  mishaps |-> 0, drops |-> 0]
  BY DEF SessionsInit
<1>2. charging \in Ledgers /\ NoSession \in Sessions
  BY <1>1 DEF Ledgers, Sessions
<1>3. battery \in [level : Int, docked : BOOLEAN, seen : BOOLEAN]
  BY <1>1, SessionsAssumption
<1>4. stored \in [session : Sessions, jobs : Seq(JobSet), charging : Ledgers]
  BY <1>1, <1>2
<1>5. Typed
  <2>1. robot \in [status : Statuses, inRun : BOOLEAN, seen : BOOLEAN, ended : BOOLEAN]
    BY <1>1 DEF Statuses
  <2>2. tracker \in [session : Sessions, before : SUBSET RowSet]
    BY <1>1, <1>2
  <2>3. pc \in [step : {"idle", "save", "arbitrate"}, job : {<<>>} \cup {<<j>> : j \in JobSet}]
    BY <1>1 DEF NoReconcile
  <2>4. truth \in TruthFields
    BY <1>1 DEF TruthFields
  <2>5. runs \in Seq({"outside", "scheduler"}) /\ jobs \in Seq(JobSet) /\ boots \in Nat
    BY <1>1
  <2>6. up \in BOOLEAN /\ owned \in BOOLEAN /\ alarm \in BOOLEAN
    BY <1>1
  <2> QED
    BY <1>2, <1>3, <1>4, <2>1, <2>2, <2>3, <2>4, <2>5, <2>6 DEF Typed
<1>6. Sane
  BY <1>1, SessionsAssumption DEF Sane
<1>7. Archiving = <<>> /\ Seen(NoSession) = {}
  BY <1>1 DEF Archiving, NoReconcile, Seen
<1>8. SessionSane(NoSession)
  BY <1>7 DEF SessionSane, Known, Hidden
<1>9. Records
  BY <1>1, <1>7, <1>8 DEF Records, Range
<1>10. Apart /\ Filed
  BY <1>1, <1>7 DEF Apart, Filed
<1>11. Synced /\ Closed
  BY <1>1 DEF Synced, Closed, ShutOut
<1>12. Charged
  BY <1>1 DEF Charged, Whole
<1> QED
  BY <1>5, <1>6, <1>9, <1>10, <1>11, <1>12 DEF SessionInv

LEMMA StutterKeeps ==
  ASSUME SessionInv, UNCHANGED sessionVars
  PROVE  SessionInv'
<1>1. /\ UNCHANGED <<up, boots, cleaning>> /\ battery' = battery /\ charging' = charging
      /\ stored' = stored /\ truth' = truth
  BY DEF sessionVars, cleaning
<1>2. Charged'
  BY <1>1, ChargedStays DEF SessionInv
<1>3. Typed
  BY DEF SessionInv
<1> QED
  BY <1>1, <1>2, <1>3, LedgerKeeps DEF Typed, TruthFields

LEMMA StepKeeps ==
  ASSUME SessionInv, [SessionsNext]_sessionVars
  PROVE  SessionInv'
<1>1. CASE Cleaning
  <2>1. CASE OutsideStarts
    BY <2>1, OutsideStartsKeeps
  <2>2. CASE RunGoesOn \/ RunEnds \/ BetweenRuns \/ HidesOrShows
    BY <2>2, RobotSteps
  <2>3. CASE SchedulerStarts
    BY <2>3, SchedulerStartsKeeps
  <2>4. CASE AttemptEnds
    BY <2>4, AttemptEndsKeeps
  <2>5. CASE Observe
    BY <2>5, ObserveKeeps
  <2>6. CASE SessionSaved
    BY <2>6, SessionSavedKeeps
  <2>7. CASE JobsSaved
    BY <2>7, JobsSavedKeeps
  <2>8. CASE PowerLost
    BY <2>8, PowerLostKeeps
  <2>9. CASE AlarmSaved
    BY <2>9, AlarmSavedKeeps
  <2>10. CASE SilenceGrows
    BY <2>10, SilenceGrowsKeeps
  <2> QED
    BY <1>1, <2>1, <2>2, <2>3, <2>4, <2>5, <2>6, <2>7, <2>8, <2>9, <2>10 DEF Cleaning
<1>2. CASE Charging
  BY <1>2, BatteryMovesKeeps, ObserveChargeKeeps, ClearChargesKeeps, SegmentAgesKeeps DEF Charging
<1>3. CASE Lifetime
  BY <1>3, StopKeeps, CrashKeeps, BootKeeps DEF Lifetime
<1>4. CASE UNCHANGED sessionVars
  BY <1>4, StutterKeeps
<1> QED
  BY <1>1, <1>2, <1>3, <1>4 DEF SessionsNext

\* Whatever the robot, the mains, the Scheduler and Home Assistant do, a record
\* tells only of runs it may know, a timed silence only of runs that are over,
\* and the files only what memory held (async_observe, mark_power_interruption
\* and async_start of external_execution.py, _async_observe of
\* charging_statistics.py).
THEOREM SessionInvariant == SessionsSpec => []SessionInv
<1>1. SessionsInit => SessionInv
  BY InitInvariant
<1>2. SessionInv /\ [SessionsNext]_sessionVars => SessionInv'
  BY StepKeeps
<1> QED
  BY <1>1, <1>2, PTL DEF SessionsSpec

\* Once a run is in the tracker's file it stays on record, as a session, as a job
\* on disk or on its way there, or it was lost with that job when the process died
\* or was unloaded and started again before the save (async_observe and
\* async_start of external_execution.py, _async_observe_external_execution and
\* async_reconcile of scheduler_engine.py).
THEOREM RunsAreKept == SessionsSpec => []Kept
<1>1. SessionsInit => Kept
  <2> SUFFICES ASSUME SessionsInit PROVE Kept
    OBVIOUS
  <2>1. /\ tracker.session = NoSession /\ stored.session = NoSession /\ stored.jobs = <<>> /\ jobs = <<>>
        /\ pc.job = <<>> /\ truth.noticed = {}
    BY DEF SessionsInit, NoReconcile
  <2>2. Remembers(NoSession)
    BY DEF Remembers
  <2> QED
    BY <2>1, <2>2 DEF Kept
<1>2. SessionInv /\ Kept /\ [SessionsNext]_sessionVars => Kept'
  BY KeptOutside, KeptObserve, KeptSessionSaved, KeptJobsSaved, KeptPowerLost, KeptAlarmSaved,
     KeptSilenceGrows, KeptLifetime
     DEF SessionsNext, Cleaning
<1> QED
  BY <1>1, <1>2, SessionInvariant, PTL DEF SessionsSpec

\* One cleaning somebody else started is at most one row of the history and of
\* the statistics, unless it was interrupted, and at least one once it is in the
\* tracker's file: whenever no reconcile is under way it is in that file or a row
\* on disk, unless the process died, or was unloaded and started again, between
\* the save of the ended session and that of its job (lost).  A cleaning of the
\* Scheduler is none, unless the Scheduler gave it up or started it before the
\* tracker saw the outside run end (_build_job after the completion candidate,
\* and the ownership check of async_observe).
THEOREM RowsComeFromOutsideRuns == SessionsSpec => []RowsAreOutsideRuns
<1>1. SessionInv /\ Kept => RowsAreOutsideRuns
  <2> SUFFICES ASSUME SessionInv, Kept PROVE RowsAreOutsideRuns
    OBVIOUS
  <2>1. \A i, k \in DOMAIN jobs : i # k => (jobs[i].span \cap jobs[k].span) \subseteq truth.interrupted
    BY DEF SessionInv, Apart, Disjoint
  <2>2. \A i \in DOMAIN jobs : Known(jobs[i].span)
    BY DEF SessionInv, Records, JobSane, Range
  <2>3. ASSUME up, pc.step = "idle"
        PROVE  truth.noticed \subseteq Seen(stored.session) \cup Spans(stored.jobs) \cup truth.lost
    <3>1. /\ stored.jobs = jobs /\ pc.job = <<>>
          /\ truth.noticed \subseteq Seen(stored.session) \cup Spans(stored.jobs) \cup Queued \cup truth.lost
      BY <2>3 DEF Kept
    <3>2. Queued = Spans(stored.jobs)
      BY <3>1 DEF Queued, Spans
    <3> QED
      BY <3>1, <3>2
  <2> QED
    BY <2>1, <2>2, <2>3 DEF RowsAreOutsideRuns, Known
<1> QED
  BY <1>1, SessionInvariant, RunsAreKept, PTL

\* A completed charging segment was watched by one run of Home Assistant, and
\* the level never fell in it before the robot left the dock: async_start closes
\* what the file held, and _async_observe closes a segment before it takes a
\* sample below its last one.
THEOREM SegmentsAreUnbroken == SessionsSpec => []SegmentsUnbroken
<1>1. SessionInv => SegmentsUnbroken
  <2> SUFFICES ASSUME SessionInv, NEW x \in charging.sessions \cup stored.charging.sessions
               PROVE  Cardinality(x.a.boots) = 1 /\ (x.a.dropped => x.reason = "left_dock")
    BY DEF SegmentsUnbroken
  <2>1. (\E b \in Nat : x.a.boots = {b}) /\ (x.a.dropped => x.reason = "left_dock")
    BY DEF SessionInv, Charged, Whole
  <2>2. PICK b \in Nat : x.a.boots = {b}
    BY <2>1
  <2>3. Cardinality({b}) = 1
    BY FS_Singleton
  <2> QED
    BY <2>1, <2>2, <2>3
<1> QED
  BY <1>1, SessionInvariant, PTL
==============================================================================
