----------------------------- MODULE ReadingStore -----------------------------
(***************************************************************************)
(* The hypertable reading, the imports that fill it (etl/mock_api_import,  *)
(* etl/historical_import) and the retention that exports its old chunks to *)
(* the object store, reads them back and drops them (etl/reading_retention)*)
(*                                                                         *)
(* The unit of time is the hour between two triggers of the hourly import: *)
(* between them the wall clock goes from one hour into the next.           *)
(***************************************************************************)
EXTENDS Naturals

CONSTANTS Sites,
          ChunkHours,   \* length of a chunk
          MaxHour,      \* bound on the clock
          Ages,         \* the ages retention runs may be launched with: whole days
          Windows,      \* the windows an import may be launched with by hand
          Dataset,      \* the readings of the historical file
          Jobs,         \* retention processes
          Nightly,      \* the one the DAG launches, the others being launched by hand
          Importers,    \* import processes
          MaxImports,   \* bound on the imports launched
          None

Hours == 0..MaxHour

Reading == [site : Sites, hour : Hours, source : {"csv", "api_history"}]

Chunk(r) == r.hour \div ChunkHours

Chunks == 0..(MaxHour \div ChunkHours)

RangeStart(c) == c * ChunkHours

RangeEnd(c) == (c + 1) * ChunkHours

\* The file of an object is a function of the rows and of their reading_id, that
\* is, of the rows and of which creation of the chunk they were inserted in.
File == [serial : Nat, rows : SUBSET Reading]

ASSUME HoursAssumption == ChunkHours \in Nat \ {0} /\ MaxHour \in Nat /\ MaxImports \in Nat
\* The setting asks for thirty days; the command line would take less than one.
ASSUME AgesAssumption == Ages \subseteq Nat \ {0}
ASSUME WindowsAssumption == Windows \subseteq [first : Hours, last : Nat]
ASSUME DatasetAssumption == Dataset \subseteq {r \in Reading : r.source = "csv"}
ASSUME NoneAssumption == None \notin Chunks /\ None \notin File

VARIABLES reading,   \* the rows of the hypertable
          exists,    \* the chunks the catalog lists
          serial,    \* how often each was created; its name
          object,    \* the archive, one key per chunk
          job,       \* retention runs
          importer,  \* import runs
          imports,   \* how many imports were launched
          now,       \* the hour of the last trigger
          imported,  \* history: every reading ever committed
          touched    \* history: chunks that got a row while exposed

vars == <<reading, exists, serial, object, job, importer, imports, now, imported, touched>>

RowsOf(c) == {r \in reading : Chunk(r) = c}

\* todo is the list of eligible chunks with their names (0: not in it), chunk the
\* one at hand and name its name in the list, file what was read of it.
Job == [at : {"idle", "read", "compare", "put", "reread", "drop"}, dry : BOOLEAN,
        todo : [Chunks -> Nat], chunk : Chunks \cup {None}, name : Nat, file : File]

NoJob == [at |-> "idle", dry |-> FALSE, todo |-> [c \in Chunks |-> 0], chunk |-> None,
          name |-> 0, file |-> [serial |-> 0, rows |-> {}]]

\* Window [first, last), as the code takes it.
Importer == [at : {"idle", "check", "fetch", "upsert", "commit"}, by : {"dag", "hand"},
             first : Nat, last : Nat, rows : SUBSET Reading]

NoImport == [at |-> "idle", by |-> "hand", first |-> 0, last |-> 0, rows |-> {}]

Init ==
  /\ reading = {}
  /\ exists = {}
  /\ serial = [c \in Chunks |-> 0]
  /\ object = [c \in Chunks |-> None]
  /\ job = [j \in Jobs |-> NoJob]
  /\ importer = [x \in Importers |-> NoImport]
  /\ imports = 0
  /\ now = 0
  /\ imported = {}
  /\ touched = {}

\* Some run has read the chunk to archive it, or has archived it.
Exposed(c) ==
  \/ object[c] # None
  \/ \E j \in Jobs : job[j].chunk = c /\ ~job[j].dry

-----------------------------------------------------------------------------
(* Retention *)

Move(j, r) ==
  /\ job' = [job EXCEPT ![j] = r]
  /\ UNCHANGED <<reading, exists, serial, importer, imports, now, imported, touched>>

\* Mutant: a chunk is taken as soon as its first hours are old enough.
EligibleByStart(c, age, hour) == c \in exists /\ RangeStart(c) + age <= hour

\* Entirely older than the bound, which is inclusive.
Eligible(c, age, hour) == c \in exists /\ RangeEnd(c) + age <= hour

\* The process starts: by the DAG, by its retry, or by hand, before or after the
\* hour strikes.
ArchiveReadingChunks(j, age, dry) ==
  \E hour \in {now, now + 1} :
    LET todo == [c \in Chunks |-> IF Eligible(c, age, hour) THEN serial[c] ELSE 0]
    IN /\ job[j] = NoJob
       /\ dry => j # Nightly
       /\ \E c \in Chunks : Eligible(c, age, hour)
       /\ Move(j, [NoJob EXCEPT !.at = "read", !.dry = dry, !.todo = todo])
       /\ UNCHANGED object

\* The next chunk of the list, or the end of the run.
Proceed(r) ==
  IF \E c \in Chunks : r.todo[c] # 0
  THEN [NoJob EXCEPT !.at = "read", !.dry = r.dry, !.todo = r.todo]
  ELSE NoJob

\* Mutant: an empty chunk is exported like the others.
ReadChunkRowsEvenNone(j) ==
  LET r == job[j]
  IN /\ r.at = "read"
     /\ \E c \in Chunks :
          /\ r.todo[c] # 0
          /\ \A d \in Chunks : d < c => r.todo[d] = 0
          /\ Move(j, [r EXCEPT !.at = "compare", !.todo[c] = 0, !.chunk = c,
                               !.name = r.todo[c],
                               !.file = [serial |-> serial[c], rows |-> RowsOf(c)]])
     /\ UNCHANGED object

\* Mutant: the end of the range is taken as inclusive.
ReadChunkRowsPastEnd(j) ==
  LET r == job[j]
  IN /\ r.at = "read"
     /\ \E c \in Chunks :
          LET rows == RowsOf(c) \cup {k \in reading : k.hour = RangeEnd(c)}
              s == [r EXCEPT !.todo[c] = 0, !.chunk = c, !.name = r.todo[c],
                             !.file = [serial |-> serial[c], rows |-> rows]]
          IN /\ r.todo[c] # 0
             /\ \A d \in Chunks : d < c => r.todo[d] = 0
             /\ Move(j, IF rows # {} THEN [s EXCEPT !.at = "compare"]
                        ELSE IF r.dry THEN Proceed(s) ELSE [s EXCEPT !.at = "drop"])
     /\ UNCHANGED object

\* The rows are read by the bounds of the chunk, whatever became of it since it
\* was listed. An empty one is dropped without an export.
ReadChunkRows(j) ==
  LET r == job[j]
  IN /\ r.at = "read"
     /\ \E c \in Chunks :
          LET rows == RowsOf(c)
              s == [r EXCEPT !.todo[c] = 0, !.chunk = c, !.name = r.todo[c],
                             !.file = [serial |-> serial[c], rows |-> rows]]
          IN /\ r.todo[c] # 0
             /\ \A d \in Chunks : d < c => r.todo[d] = 0
             /\ Move(j, IF rows # {} THEN [s EXCEPT !.at = "compare"]
                        ELSE IF r.dry THEN Proceed(s) ELSE [s EXCEPT !.at = "drop"])
     /\ UNCHANGED object

\* Mutant: a chunk that is in the archive already is left for what it is.
CompareAndSkip(j) ==
  LET r == job[j]
  IN /\ r.at = "compare"
     /\ Move(j, IF r.dry \/ object[r.chunk] = r.file THEN Proceed(r) ELSE [r EXCEPT !.at = "put"])
     /\ UNCHANGED object

\* An object with the same fingerprint is not written again.
Compare(j) ==
  LET r == job[j]
  IN /\ r.at = "compare"
     /\ Move(j, CASE r.dry -> Proceed(r)
                  [] ~r.dry /\ object[r.chunk] = r.file -> [r EXCEPT !.at = "drop"]
                  [] ~r.dry /\ object[r.chunk] # r.file -> [r EXCEPT !.at = "put"])
     /\ UNCHANGED object

\* Mutant: the answer of the store is believed.
PutAndTrust(j) ==
  LET r == job[j]
  IN /\ r.at = "put"
     /\ \E stored \in BOOLEAN :
          object' = IF stored THEN [object EXCEPT ![r.chunk] = r.file] ELSE object
     /\ Move(j, [r EXCEPT !.at = "drop"])

\* The store may acknowledge what it does not keep.
Put(j) ==
  LET r == job[j]
  IN /\ r.at = "put"
     /\ \E stored \in BOOLEAN :
          object' = IF stored THEN [object EXCEPT ![r.chunk] = r.file] ELSE object
     /\ Move(j, [r EXCEPT !.at = "reread"])

\* A difference ends the run and keeps the chunk.
Reread(j) ==
  LET r == job[j]
  IN /\ r.at = "reread"
     /\ Move(j, IF object[r.chunk] = r.file THEN [r EXCEPT !.at = "drop"] ELSE NoJob)
     /\ UNCHANGED object

\* drop_chunks takes the locks of every writer's tables. If it has not dropped the
\* chunk that was listed, and only it, the exception rolls the drop back and ends
\* the run.
DropChunk(j) ==
  LET r == job[j]
      c == r.chunk
  IN /\ r.at = "drop"
     /\ \A x \in Importers : importer[x].at # "commit"
     /\ IF c \in exists /\ serial[c] = r.name
        THEN /\ reading' = reading \ RowsOf(c)
             /\ exists' = exists \ {c}
             /\ job' = [job EXCEPT ![j] = Proceed(r)]
             /\ UNCHANGED <<serial, importer, imports, now, imported, touched>>
        ELSE Move(j, NoJob)
     /\ UNCHANGED object

\* An error of the store or of the database, the time limit of the task, a crash.
\* What was exported or dropped remains.
FailJob(j) ==
  /\ job[j] # NoJob
  /\ Move(j, NoJob)
  /\ UNCHANGED object

-----------------------------------------------------------------------------
(* Imports *)

Go(x, r) ==
  /\ importer' = [importer EXCEPT ![x] = r]
  /\ UNCHANGED <<reading, exists, serial, object, job, now, imported, touched>>

Launch(x, r) ==
  /\ importer[x] = NoImport
  /\ imports < MaxImports
  /\ imports' = imports + 1
  /\ Go(x, r)

InFlight == {x \in Importers : importer[x].at # "idle" /\ importer[x].by = "dag"}

\* The hourly DAG, or its retry: the hour that has just begun, one run at a time.
ScheduledImport(x) ==
  /\ InFlight = {}
  /\ Launch(x, [at |-> "check", by |-> "dag", first |-> now, last |-> now + 1, rows |-> {}])

\* The command line, with any window.
Backfill(x, w) ==
  /\ w.first < w.last
  /\ Launch(x, [at |-> "check", by |-> "hand", first |-> w.first, last |-> w.last,
                rows |-> {}])

\* The historical file goes straight to its transaction.
ImportHistorical(x) ==
  Launch(x, [NoImport EXCEPT !.at = "upsert", !.rows = Dataset])

\* The control has a connection of its own, closed before the readings are asked for.
RefuseIfOverlapsHistoricalDataset(x) ==
  LET r == importer[x]
  IN /\ r.at = "check"
     /\ Go(x, IF \E k \in reading : k.source = "csv" /\ r.first <= k.hour /\ k.hour < r.last
              THEN NoImport ELSE [r EXCEPT !.at = "fetch"])
     /\ UNCHANGED imports

\* The API answers with any of the readings asked for; those outside the window
\* are discarded.
FetchReadings(x) ==
  LET r == importer[x]
      window == {k \in Reading : k.source = "api_history" /\ r.first <= k.hour /\ k.hour < r.last}
  IN /\ r.at = "fetch"
     /\ \E rows \in SUBSET window : Go(x, [r EXCEPT !.at = "upsert", !.rows = rows])
     /\ UNCHANGED imports

SitesOf(x) == {k.site : k \in importer[x].rows}

\* The transaction locks the rows of its sites until it ends; those it has no
\* reading of are left out.
UpsertSites(x) ==
  /\ importer[x].at = "upsert"
  /\ \A y \in Importers \ {x} : importer[y].at = "commit" => SitesOf(x) \cap SitesOf(y) = {}
  /\ Go(x, [importer[x] EXCEPT !.at = "commit"])
  /\ UNCHANGED imports

\* INSERT ... ON CONFLICT DO NOTHING and COMMIT. Missing chunks are created.
InsertReadings(x) ==
  LET rows == importer[x].rows
      hit == {Chunk(k) : k \in rows \ reading}
  IN /\ importer[x].at = "commit"
     /\ reading' = reading \cup rows
     /\ exists' = exists \cup hit
     /\ serial' = [c \in Chunks |-> IF c \in hit \ exists THEN serial[c] + 1 ELSE serial[c]]
     /\ importer' = [importer EXCEPT ![x] = NoImport]
     /\ imported' = imported \cup rows
     /\ touched' = touched \cup {c \in hit : Exposed(c)}
     /\ UNCHANGED <<object, job, imports, now>>

\* A refused answer, a lost connection, a deadlock, the time limit of the task.
FailImport(x) ==
  /\ importer[x] # NoImport
  /\ Go(x, NoImport)
  /\ UNCHANGED imports

\* The attempts of the hourly import fit in its hour (PLAFOND_PAR_TENTATIVE).
Tick ==
  /\ now < MaxHour
  /\ InFlight = {}
  /\ now' = now + 1
  /\ UNCHANGED <<reading, exists, serial, object, job, importer, imports, imported, touched>>

-----------------------------------------------------------------------------

Retention(j) ==
  \/ ReadChunkRows(j)
  \/ Compare(j)
  \/ Put(j)
  \/ Reread(j)
  \/ DropChunk(j)

Import(x) ==
  \/ RefuseIfOverlapsHistoricalDataset(x)
  \/ FetchReadings(x)
  \/ UpsertSites(x)
  \/ InsertReadings(x)

Next ==
  \/ Tick
  \/ \E j \in Jobs :
       \/ \E age \in Ages, dry \in BOOLEAN : ArchiveReadingChunks(j, age, dry)
       \/ Retention(j)
       \/ FailJob(j)
  \/ \E x \in Importers :
       \/ ScheduledImport(x)
       \/ \E w \in Windows : Backfill(x, w)
       \/ ImportHistorical(x)
       \/ Import(x)
       \/ FailImport(x)

Spec == Init /\ [][Next]_vars

\* The DAG launches its run night after night and its failures are not for ever:
\* a step of it that keeps being possible is taken in the end. A transaction of an
\* import ends. Runs by hand may be abandoned anywhere.
FairSpec ==
  /\ Spec
  /\ SF_vars(\E age \in Ages : ArchiveReadingChunks(Nightly, age, FALSE))
  /\ SF_vars(ReadChunkRows(Nightly))
  /\ SF_vars(Compare(Nightly))
  /\ SF_vars(Put(Nightly) /\ object'[job[Nightly].chunk] = job[Nightly].file)
  /\ SF_vars(Reread(Nightly))
  /\ SF_vars(DropChunk(Nightly))
  /\ \A x \in Importers : WF_vars(InsertReadings(x))

-----------------------------------------------------------------------------
(* Properties *)

\* Every row lies in a chunk that exists and is never empty, a file holds rows of
\* its own chunk only, and a run at rest has no chunk at hand.
TypeOK ==
  /\ reading \subseteq imported /\ imported \subseteq Reading
  /\ exists = {Chunk(r) : r \in reading}
  /\ serial \in [Chunks -> Nat]
  /\ object \in [Chunks -> File \cup {None}]
  /\ job \in [Jobs -> Job]
  /\ importer \in [Importers -> Importer]
  /\ imports \in Nat
  /\ now \in Hours
  /\ touched \subseteq Chunks
  /\ \A j \in Jobs :
       /\ job[j].at \in {"idle", "read"} <=> job[j].chunk = None
       /\ \A r \in job[j].file.rows : Chunk(r) = job[j].chunk

\* No reading is lost, except where rows came into a chunk that a run had already
\* read or archived: imports by hand into old windows are the only danger.
NothingLost ==
  \A r \in imported :
    \/ r \in reading
    \/ object[Chunk(r)] # None /\ r \in object[Chunk(r)].rows
    \/ Chunk(r) \in touched

\* The hourly import never writes into a chunk that a retention run may have read,
\* however slow the run, and whatever the age of a day or more it was given.
ScheduleIsSafe ==
  [][\A x \in Importers : importer[x].by = "dag" /\ InsertReadings(x) => touched' = touched]_vars

\* An object is written once: failed runs, retries and concurrent runs export the
\* same file or nothing, unless late rows came into the chunk.
ExportedOnce ==
  [][\A c \in Chunks : object[c] # None /\ c \notin touched' => object'[c] = object[c]]_vars

\* A chunk entirely older than the bound leaves the database in the end.
OldChunksLeave ==
  \A c \in Chunks : (c \in exists /\ \A age \in Ages : Eligible(c, age, now)) ~> c \notin exists

\* etl/mock_api_import.py: the control by window is enough to prevent a reading of
\* the API beside one of the historical file at the same hour.
NoDuplicateOfHistorical ==
  [][\A x \in Importers : InsertReadings(x) =>
       \A r \in importer[x].rows : r.source = "api_history" =>
         [r EXCEPT !.source = "csv"] \notin reading]_vars

Archived == UNION {object[c].rows : c \in {d \in Chunks : object[d] # None}}

\* What the retention promises as long as only the DAG imports.
Archive == INSTANCE ReadingArchive
             WITH Readings <- Reading, ChunkOf <- Chunk,
                  hot <- reading, cold <- Archived \ reading

ArchiveSpec == Archive!Spec
=============================================================================
