-------------------------- MODULE ReadingStoreProofs --------------------------
(***************************************************************************)
(* Theorems about ReadingStore, for any number of sites, processes and     *)
(* imports, any windows and any historical file.                           *)
(***************************************************************************)
EXTENDS ReadingStore, Integers, TLAPS

\* What a retention run knows of the chunk at hand, as long as no late row came into it.
Current(c) == [serial |-> serial[c], rows |-> RowsOf(c)]

JobGood(r) ==
  /\ r \in Job
  /\ r.at \in {"idle", "read"} <=> r.chunk = None
  /\ \A k \in r.file.rows : Chunk(k) = r.chunk
  /\ \A c \in Chunks : r.todo[c] # 0 \/ r.chunk = c => RangeEnd(c) <= now
  /\ r.at \in {"compare", "put", "reread"} => r.file.rows # {}
  /\ r.at \in {"put", "reread", "drop"} => ~r.dry
  /\ r.chunk # None /\ ~r.dry /\ r.chunk \notin touched =>
       /\ r.chunk \in exists => r.file = Current(r.chunk)
       /\ r.chunk \notin exists => r.file.rows = {} \/ object[r.chunk] = r.file
       /\ r.at = "drop" => r.file.rows = {} \/ object[r.chunk] = r.file

ObjectGood(c) ==
  object[c] # None =>
    /\ RangeEnd(c) <= now
    /\ \A k \in object[c].rows : Chunk(k) = c
    /\ c \in exists /\ c \notin touched => object[c] = Current(c)

ImportGood(r) ==
  /\ r \in Importer
  /\ r.at = "idle" => r.by = "hand"
  /\ r.by = "dag" => /\ r.first = now /\ r.last = now + 1
                     /\ \A k \in r.rows : k.hour = now

\* The inductive invariant.
IInv ==
  /\ TypeOK
  /\ NothingLost
  /\ \A j \in Jobs : JobGood(job[j])
  /\ \A c \in Chunks : ObjectGood(c)
  /\ \A x \in Importers : ImportGood(importer[x])

-----------------------------------------------------------------------------
(* Chunks *)

LEMMA HourInRange ==
  ASSUME NEW h \in Nat
  PROVE  /\ h \div ChunkHours \in Nat
         /\ h < RangeEnd(h \div ChunkHours)
  <1> DEFINE n == ChunkHours
             q == h \div n
  <1>1. n \in Nat /\ n > 0
    BY HoursAssumption
  <1>2. q \in Int
    BY <1>1
  <1>3. n * q <= h /\ h < n * q + n
    BY <1>1
  <1>4. q >= 0
    BY <1>1, <1>2, <1>3
  <1>5. QED
    BY <1>1, <1>2, <1>3, <1>4 DEF RangeEnd

LEMMA ChunkTyped ==
  ASSUME NEW r \in Reading
  PROVE  Chunk(r) \in Chunks
  <1>1. r.hour \in Nat /\ MaxHour \in Nat /\ r.hour <= MaxHour
    BY HoursAssumption DEF Reading, Hours
  <1>2. ChunkHours \in Nat /\ ChunkHours > 0
    BY HoursAssumption
  <1>3. r.hour \div ChunkHours \in Nat /\ MaxHour \div ChunkHours \in Nat
    BY <1>1, HourInRange
  <1>4. r.hour \div ChunkHours <= MaxHour \div ChunkHours
    BY <1>1, <1>2, SMT
  <1>5. QED
    BY <1>3, <1>4 DEF Chunk, Chunks

LEMMA RangeEndTyped ==
  ASSUME NEW c \in Chunks
  PROVE  RangeEnd(c) \in Nat
  <1>1. MaxHour \div ChunkHours \in Nat
    BY HoursAssumption, HourInRange
  <1>2. c \in Nat
    BY <1>1 DEF Chunks
  <1>3. QED
    BY <1>2, HoursAssumption DEF RangeEnd

LEMMA NoJobTyped == NoJob \in Job
  BY DEF NoJob, Job, File

LEMMA NoImportTyped == NoImport \in Importer
  BY DEF NoImport, Importer

-----------------------------------------------------------------------------
(* Retention *)

LEMMA InitIInv == Init => IInv
  <1> SUFFICES ASSUME Init PROVE IInv
    OBVIOUS
  <1> USE DEF Init
  <1>1. TypeOK
    BY NoJobTyped, NoImportTyped, HoursAssumption DEF TypeOK, Hours, NoJob
  <1>2. NothingLost
    BY DEF NothingLost
  <1>3. ASSUME NEW j \in Jobs PROVE JobGood(job[j])
    BY NoJobTyped, NoneAssumption DEF JobGood, NoJob
  <1>4. \A c \in Chunks : ObjectGood(c)
    BY DEF ObjectGood
  <1>5. \A x \in Importers : ImportGood(importer[x])
    BY NoImportTyped DEF ImportGood, NoImport
  <1>6. QED
    BY <1>1, <1>2, <1>3, <1>4, <1>5 DEF IInv

LEMMA IdleIsGood == JobGood(NoJob)
  BY NoJobTyped, NoneAssumption DEF JobGood, NoJob

LEMMA ProceedIsGood ==
  ASSUME NEW r \in Job, \A c \in Chunks : r.todo[c] # 0 => RangeEnd(c) <= now
  PROVE  JobGood(Proceed(r))
  <1>1. CASE \E c \in Chunks : r.todo[c] # 0
    <2> DEFINE s == [NoJob EXCEPT !.at = "read", !.dry = r.dry, !.todo = r.todo]
    <2>1. s \in Job
      BY NoJobTyped DEF JobGood, Job, NoJob
    <2>2. /\ s.at = "read" /\ s.chunk = None /\ s.file.rows = {} /\ s.todo = r.todo
      BY DEF NoJob
    <2>3. JobGood(s)
      BY <2>1, <2>2, NoneAssumption DEF JobGood
    <2>4. QED
      BY <1>1, <2>3 DEF Proceed
  <1>2. CASE ~ \E c \in Chunks : r.todo[c] # 0
    BY <1>2, IdleIsGood DEF Proceed
  <1>3. QED
    BY <1>1, <1>2

\* A step that only moves a retention run on.
LEMMA Moving ==
  ASSUME IInv, NEW j \in Jobs, NEW r, JobGood(r), Move(j, r), UNCHANGED object
  PROVE  IInv'
  <1> USE DEF Move
  <1>1. job' \in [Jobs -> Job] /\ \A i \in Jobs : JobGood(job'[i])
    BY DEF IInv, TypeOK, JobGood
  <1>2. \A i \in Jobs : JobGood(job[i])'
    BY <1>1 DEF JobGood, Current, RowsOf
  <1>3. TypeOK'
    BY <1>1 DEF IInv, TypeOK, JobGood
  <1>4. NothingLost' /\ (\A c \in Chunks : ObjectGood(c)')
    BY DEF IInv, NothingLost, ObjectGood, Current, RowsOf
  <1>5. \A x \in Importers : ImportGood(importer[x])'
    BY DEF IInv, ImportGood
  <1>6. QED
    BY <1>2, <1>3, <1>4, <1>5 DEF IInv

LEMMA ArchiveReadingChunksStep ==
  ASSUME IInv, NEW j \in Jobs, NEW age \in Ages, NEW dry \in BOOLEAN,
         ArchiveReadingChunks(j, age, dry)
  PROVE  IInv'
  <1>0. PICK hour \in {now, now + 1} :
          Move(j, [NoJob EXCEPT !.at = "read", !.dry = dry,
                     !.todo = [c \in Chunks |-> IF Eligible(c, age, hour) THEN serial[c] ELSE 0]])
          /\ UNCHANGED object
    BY DEF ArchiveReadingChunks
  <1> DEFINE todo == [c \in Chunks |-> IF Eligible(c, age, hour) THEN serial[c] ELSE 0]
             r == [NoJob EXCEPT !.at = "read", !.dry = dry, !.todo = todo]
  <1>1. todo \in [Chunks -> Nat]
    BY DEF IInv, TypeOK
  <1>2. \A c \in Chunks : todo[c] # 0 => RangeEnd(c) <= now
    <2> TAKE c \in Chunks
    <2>1. age \in Nat \ {0} /\ RangeEnd(c) \in Nat /\ now \in Nat
      BY AgesAssumption, RangeEndTyped DEF IInv, TypeOK, Hours
    <2>2. QED
      BY <2>1 DEF Eligible
  <1>3. r \in Job
    BY <1>1, NoJobTyped DEF Job, NoJob
  <1>4. r.at = "read" /\ r.chunk = None /\ r.todo = todo /\ r.file.rows = {}
    BY DEF NoJob
  <1>5. JobGood(r)
    BY <1>2, <1>3, <1>4, NoneAssumption DEF JobGood
  <1>6. QED
    BY <1>0, <1>5, Moving

LEMMA ReadChunkRowsStep ==
  ASSUME IInv, NEW j \in Jobs, ReadChunkRows(j)
  PROVE  IInv'
  <1> DEFINE r == job[j]
  <1>1. JobGood(r) /\ r.at = "read"
    BY DEF IInv, ReadChunkRows
  <1>2. PICK c \in Chunks :
          LET s == [r EXCEPT !.todo[c] = 0, !.chunk = c, !.name = r.todo[c],
                             !.file = [serial |-> serial[c], rows |-> RowsOf(c)]]
          IN /\ r.todo[c] # 0
             /\ Move(j, IF RowsOf(c) # {} THEN [s EXCEPT !.at = "compare"]
                        ELSE IF r.dry THEN Proceed(s) ELSE [s EXCEPT !.at = "drop"])
    BY DEF ReadChunkRows
  <1> DEFINE s == [r EXCEPT !.todo[c] = 0, !.chunk = c, !.name = r.todo[c],
                            !.file = [serial |-> serial[c], rows |-> RowsOf(c)]]
             compare == [s EXCEPT !.at = "compare"]
             drop == [s EXCEPT !.at = "drop"]
  <1>3. Current(c) \in File /\ r \in Job
    BY <1>1 DEF IInv, TypeOK, JobGood, Current, RowsOf, File
  <1>4. /\ s \in Job /\ compare \in Job /\ drop \in Job
        /\ s.file = Current(c) /\ s.chunk = c /\ s.dry = r.dry
    BY <1>3 DEF Job, Current
  <1>5. RangeEnd(c) <= now /\ \A d \in Chunks : s.todo[d] # 0 => RangeEnd(d) <= now
    BY <1>1, <1>2, <1>3 DEF JobGood, Job
  <1>6. c \in exists <=> RowsOf(c) # {}
    BY DEF IInv, TypeOK, RowsOf
  <1>7. CASE RowsOf(c) # {}
    <2>1. JobGood(compare)
      BY <1>4, <1>5, <1>6, <1>7, NoneAssumption DEF JobGood, Current, RowsOf
    <2>2. QED
      BY <1>2, <1>7, <2>1, Moving DEF ReadChunkRows
  <1>8. CASE RowsOf(c) = {} /\ r.dry
    <2>1. JobGood(Proceed(s))
      BY <1>4, <1>5, ProceedIsGood
    <2>2. QED
      BY <1>2, <1>8, <2>1, Moving DEF ReadChunkRows
  <1>9. CASE RowsOf(c) = {} /\ ~r.dry
    <2>1. JobGood(drop)
      BY <1>4, <1>5, <1>6, <1>9, NoneAssumption DEF JobGood, Current, RowsOf
    <2>2. QED
      BY <1>2, <1>9, <2>1, Moving DEF ReadChunkRows
  <1>10. QED
    BY <1>7, <1>8, <1>9

LEMMA CompareStep ==
  ASSUME IInv, NEW j \in Jobs, Compare(j)
  PROVE  IInv'
  <1> DEFINE r == job[j]
             drop == [r EXCEPT !.at = "drop"]
             put == [r EXCEPT !.at = "put"]
  <1>1. JobGood(r) /\ r.at = "compare" /\ UNCHANGED object
    BY DEF IInv, Compare
  <1>2. /\ r \in Job /\ drop \in Job /\ put \in Job
        /\ drop.at = "drop" /\ put.at = "put"
        /\ drop.file = r.file /\ drop.chunk = r.chunk /\ drop.todo = r.todo /\ drop.dry = r.dry
        /\ put.file = r.file /\ put.chunk = r.chunk /\ put.todo = r.todo /\ put.dry = r.dry
    BY <1>1 DEF JobGood, Job
  <1>3. CASE r.dry
    BY <1>1, <1>2, <1>3, ProceedIsGood, Moving DEF Compare, JobGood
  <1>4. CASE ~r.dry /\ object[r.chunk] = r.file
    <2>1. JobGood(drop)
      BY <1>1, <1>2, <1>4 DEF JobGood
    <2>2. QED
      BY <1>1, <1>4, <2>1, Moving DEF Compare
  <1>5. CASE ~r.dry /\ object[r.chunk] # r.file
    <2>1. JobGood(put)
      BY <1>1, <1>2, <1>5 DEF JobGood
    <2>2. QED
      BY <1>1, <1>5, <2>1, Moving DEF Compare
  <1>6. QED
    BY <1>2, <1>3, <1>4, <1>5 DEF Job

LEMMA RereadStep ==
  ASSUME IInv, NEW j \in Jobs, Reread(j)
  PROVE  IInv'
  <1> DEFINE r == job[j]
             drop == [r EXCEPT !.at = "drop"]
  <1>1. JobGood(r) /\ r.at = "reread" /\ UNCHANGED object
    BY DEF IInv, Reread
  <1>2. /\ drop \in Job /\ drop.at = "drop" /\ drop.file = r.file
        /\ drop.chunk = r.chunk /\ drop.todo = r.todo /\ drop.dry = r.dry
    BY <1>1 DEF JobGood, Job
  <1>3. CASE object[r.chunk] = r.file
    <2>1. JobGood(drop)
      BY <1>1, <1>2, <1>3 DEF JobGood
    <2>2. QED
      BY <1>1, <1>3, <2>1, Moving DEF Reread
  <1>4. CASE object[r.chunk] # r.file
    BY <1>1, <1>4, IdleIsGood, Moving DEF Reread
  <1>5. QED
    BY <1>3, <1>4

LEMMA FailJobStep ==
  ASSUME IInv, NEW j \in Jobs, FailJob(j)
  PROVE  IInv'
  BY IdleIsGood, Moving DEF FailJob

\* The run that puts a file has read the rows of its chunk: unless a late row came,
\* the file is what the chunk holds, or what the object holds already.
LEMMA PutStep ==
  ASSUME IInv, NEW j \in Jobs, Put(j)
  PROVE  IInv'
  <1> DEFINE r == job[j]
             s == [r EXCEPT !.at = "reread"]
             c == r.chunk
  <1>1. JobGood(r) /\ r.at = "put"
    BY DEF IInv, Put
  <1>2. /\ s \in Job /\ s.at = "reread" /\ s.file = r.file
        /\ s.chunk = r.chunk /\ s.todo = r.todo /\ s.dry = r.dry
    BY <1>1 DEF JobGood, Job
  <1>3. JobGood(s)
    BY <1>1, <1>2 DEF JobGood
  <1>4. Move(j, s)
    BY DEF Put
  <1>5. CASE UNCHANGED object
    BY <1>3, <1>4, <1>5, Moving
  <1>6. CASE object' = [object EXCEPT ![c] = r.file]
    <2>1. c \in Chunks /\ ~r.dry /\ r.file \in File /\ r.file.rows # {} /\ RangeEnd(c) <= now
      BY <1>1 DEF JobGood, Job
    <2>2. /\ object'[c] = r.file
          /\ \A d \in Chunks \ {c} : object'[d] = object[d]
          /\ object' \in [Chunks -> File \cup {None}]
      BY <1>6, <2>1 DEF IInv, TypeOK
    <2>3. UNCHANGED <<reading, exists, serial, importer, imports, now, imported, touched>>
      BY <1>4 DEF Move
    <2>4. c \notin touched => IF c \in exists THEN r.file = Current(c) ELSE object[c] = r.file
      BY <1>1, <2>1, NoneAssumption DEF JobGood
    <2>5. job' = [job EXCEPT ![j] = s]
      BY <1>4 DEF Move
    <2>6. ASSUME NEW i \in Jobs PROVE JobGood(job[i])'
      <3>1. PICK t : t = job'[i]
        OBVIOUS
      <3>2. JobGood(t) /\ (i = j => t = s)
        BY <1>3, <2>5, <3>1 DEF IInv, TypeOK
      <3>3. t.at = "drop" /\ t.chunk = c /\ ~t.dry /\ c \notin touched =>
               t.file.rows = {} \/ r.file = t.file
        BY <2>1, <2>4, <3>2, NoneAssumption DEF JobGood
      <3>4. t.chunk = c /\ ~t.dry /\ c \notin touched /\ c \notin exists =>
               t.file.rows = {} \/ r.file = t.file
        BY <2>1, <2>4, <3>2, NoneAssumption DEF JobGood
      <3>5. t.chunk # None => t.chunk \in Chunks
        BY <3>2 DEF JobGood, Job
      <3>6. QED
        BY <2>2, <2>3, <3>1, <3>2, <3>3, <3>4, <3>5 DEF JobGood, Current, RowsOf
    <2>7. ASSUME NEW d \in Chunks PROVE ObjectGood(d)'
      <3>1. \A k \in r.file.rows : Chunk(k) = c
        BY <1>1 DEF JobGood
      <3>2. CASE d = c
        BY <2>1, <2>2, <2>3, <2>4, <3>1, <3>2 DEF ObjectGood, Current, RowsOf
      <3>3. CASE d # c
        BY <2>2, <2>3, <3>3 DEF IInv, ObjectGood, Current, RowsOf
      <3>4. QED
        BY <3>2, <3>3
    <2>8. NothingLost'
      <3>1. ASSUME NEW k \in imported, k \notin reading, Chunk(k) = c, c \notin touched
            PROVE  k \in r.file.rows
        <4>1. c \notin exists => object[c] = r.file
          BY <2>4, <3>1
        <4>2. k \in object[c].rows /\ object[c] # None
          BY <3>1 DEF IInv, NothingLost
        <4>3. c \in exists => object[c] = r.file
          BY <2>1, <2>4, <3>1, <4>2 DEF IInv, ObjectGood
        <4>4. QED
          BY <4>1, <4>2, <4>3
      <3>2. r.file # None
        BY <2>1, NoneAssumption
      <3>3. \A k \in imported : Chunk(k) \in Chunks
        BY ChunkTyped DEF IInv, TypeOK
      <3>4. QED
        BY <2>2, <2>3, <3>1, <3>2, <3>3 DEF IInv, NothingLost
    <2>9. TypeOK'
      BY <1>1, <1>2, <1>3, <2>2, <2>3, <2>5 DEF IInv, TypeOK, JobGood
    <2>10. \A x \in Importers : ImportGood(importer[x])'
      BY <2>3 DEF IInv, ImportGood
    <2>11. QED
      BY <2>6, <2>7, <2>8, <2>9, <2>10 DEF IInv
  <1>7. QED
    BY <1>5, <1>6 DEF Put

\* What the run drops is what it has read back from the archive, unless a late row
\* came into the chunk.
LEMMA DropChunkStep ==
  ASSUME IInv, NEW j \in Jobs, DropChunk(j)
  PROVE  IInv'
  <1> DEFINE r == job[j]
             c == r.chunk
             s == Proceed(r)
  <1>1. JobGood(r) /\ r.at = "drop" /\ UNCHANGED object
    BY DEF IInv, DropChunk
  <1>2. CASE Move(j, NoJob)
    BY <1>1, <1>2, IdleIsGood, Moving
  <1>3. CASE /\ c \in exists /\ serial[c] = r.name
             /\ reading' = reading \ RowsOf(c)
             /\ exists' = exists \ {c}
             /\ job' = [job EXCEPT ![j] = s]
             /\ UNCHANGED <<serial, importer, imports, now, imported, touched>>
    <2>1. c \in Chunks /\ ~r.dry
      BY <1>1, NoneAssumption DEF JobGood, Job
    <2>2. JobGood(s) /\ (s.chunk = None)
      BY <1>1, ProceedIsGood DEF JobGood, Proceed, NoJob
    <2>3. RowsOf(c) # {} /\ (c \notin touched => r.file = Current(c) /\ object[c] = r.file)
      BY <1>1, <1>3, <2>1, NoneAssumption DEF IInv, TypeOK, RowsOf, JobGood, Current
    <2>4. \A d \in Chunks \ {c} : RowsOf(d)' = RowsOf(d) /\ (d \in exists' <=> d \in exists)
      BY <1>3 DEF RowsOf
    <2>5. ASSUME NEW i \in Jobs PROVE JobGood(job[i])'
      <3>1. PICK t : t = job'[i]
        OBVIOUS
      <3>2. JobGood(t) /\ (i = j => t = s)
        BY <1>3, <2>2, <3>1 DEF IInv, TypeOK
      <3>3. t.chunk # None => t.chunk \in Chunks
        BY <3>2 DEF JobGood, Job
      <3>4. t.chunk = c /\ ~t.dry /\ c \notin touched => object[c] = t.file
        BY <1>3, <2>1, <2>3, <3>2, NoneAssumption DEF JobGood
      <3>5. CASE t.chunk = c
        BY <1>1, <1>3, <2>1, <3>1, <3>2, <3>4, <3>5 DEF JobGood
      <3>6. CASE t.chunk # c
        BY <1>1, <1>3, <2>4, <3>1, <3>2, <3>3, <3>6 DEF JobGood, Current
      <3>7. QED
        BY <3>5, <3>6
    <2>6. ASSUME NEW d \in Chunks PROVE ObjectGood(d)'
      BY <1>1, <1>3, <2>4 DEF IInv, ObjectGood, Current
    <2>7. NothingLost'
      <3> SUFFICES ASSUME NEW k \in imported, k \notin reading', Chunk(k) \notin touched
                   PROVE  object[Chunk(k)] # None /\ k \in object[Chunk(k)].rows
        BY <1>1, <1>3 DEF NothingLost
      <3>1. CASE k \in reading
        <4>1. k \in RowsOf(c) /\ Chunk(k) = c
          BY <1>3, <3>1 DEF RowsOf
        <4>2. r.file # None
          BY <1>1, NoneAssumption DEF JobGood, Job
        <4>3. QED
          BY <2>3, <4>1, <4>2 DEF Current
      <3>2. CASE k \notin reading
        BY <3>2 DEF IInv, NothingLost
      <3>3. QED
        BY <3>1, <3>2
    <2>8. TypeOK'
      <3>1. exists' = {Chunk(k) : k \in reading'}
        BY <1>3 DEF IInv, TypeOK, RowsOf
      <3>2. job' \in [Jobs -> Job]
        BY <1>3, <2>2 DEF IInv, TypeOK, JobGood
      <3>3. QED
        BY <1>1, <1>3, <2>2, <3>1, <3>2 DEF IInv, TypeOK, JobGood
    <2>9. \A x \in Importers : ImportGood(importer[x])'
      BY <1>3 DEF IInv, ImportGood
    <2>10. QED
      BY <2>5, <2>6, <2>7, <2>8, <2>9 DEF IInv
  <1>4. QED
    BY <1>2, <1>3 DEF DropChunk

-----------------------------------------------------------------------------
(* Imports *)

\* A step that only moves an import on.
LEMMA Going ==
  ASSUME IInv, NEW x \in Importers, NEW r, ImportGood(r), Go(x, r), imports' \in Nat
  PROVE  IInv'
  <1> USE DEF Go
  <1>1. importer' \in [Importers -> Importer]
    BY DEF IInv, TypeOK, ImportGood
  <1>2. \A y \in Importers : ImportGood(importer[y])'
    BY <1>1 DEF IInv, TypeOK, ImportGood
  <1>3. TypeOK' /\ NothingLost'
    BY <1>1 DEF IInv, TypeOK, NothingLost
  <1>4. \A j \in Jobs : JobGood(job[j])'
    BY DEF IInv, JobGood, Current, RowsOf
  <1>5. \A c \in Chunks : ObjectGood(c)'
    BY DEF IInv, ObjectGood, Current, RowsOf
  <1>6. QED
    BY <1>2, <1>3, <1>4, <1>5 DEF IInv

LEMMA LaunchStep ==
  ASSUME IInv, NEW x \in Importers,
         \/ ScheduledImport(x)
         \/ \E w \in Windows : Backfill(x, w)
         \/ ImportHistorical(x)
  PROVE  IInv'
  <1> USE DEF Launch
  <1>1. imports \in Nat /\ imports + 1 \in Nat /\ now \in Nat
    BY DEF IInv, TypeOK, Hours
  <1>2. CASE ScheduledImport(x)
    <2> DEFINE r == [at |-> "check", by |-> "dag", first |-> now, last |-> now + 1, rows |-> {}]
    <2>1. ImportGood(r)
      BY <1>1 DEF ImportGood, Importer
    <2>2. QED
      BY <1>1, <1>2, <2>1, Going DEF ScheduledImport
  <1>3. ASSUME NEW w \in Windows, Backfill(x, w) PROVE IInv'
    <2> DEFINE r == [at |-> "check", by |-> "hand", first |-> w.first, last |-> w.last,
                     rows |-> {}]
    <2>1. ImportGood(r)
      BY WindowsAssumption DEF ImportGood, Importer, Hours
    <2>2. QED
      BY <1>1, <1>3, <2>1, Going DEF Backfill
  <1>4. CASE ImportHistorical(x)
    <2> DEFINE r == [NoImport EXCEPT !.at = "upsert", !.rows = Dataset]
    <2>1. ImportGood(r)
      BY DatasetAssumption DEF ImportGood, Importer, NoImport
    <2>2. QED
      BY <1>1, <1>4, <2>1, Going DEF ImportHistorical
  <1>5. QED
    BY <1>2, <1>3, <1>4

LEMMA NoImportIsGood == ImportGood(NoImport)
  BY NoImportTyped DEF ImportGood, NoImport

LEMMA ImportingStep ==
  ASSUME IInv, NEW x \in Importers,
         \/ RefuseIfOverlapsHistoricalDataset(x)
         \/ FetchReadings(x)
         \/ UpsertSites(x)
         \/ FailImport(x)
  PROVE  IInv'
  <1> DEFINE r == importer[x]
  <1>1. ImportGood(r) /\ r \in Importer /\ imports \in Nat /\ now \in Nat
    BY DEF IInv, TypeOK, ImportGood, Hours
  <1>2. CASE RefuseIfOverlapsHistoricalDataset(x)
    <2>1. ImportGood([r EXCEPT !.at = "fetch"])
      BY <1>1 DEF ImportGood, Importer
    <2>2. QED
      BY <1>1, <1>2, <2>1, NoImportIsGood, Going DEF RefuseIfOverlapsHistoricalDataset
  <1>3. CASE FetchReadings(x)
    <2>1. PICK rows \in SUBSET {k \in Reading : /\ k.source = "api_history"
                                                /\ r.first <= k.hour /\ k.hour < r.last} :
            Go(x, [r EXCEPT !.at = "upsert", !.rows = rows]) /\ UNCHANGED imports
      BY <1>3 DEF FetchReadings
    <2> DEFINE s == [r EXCEPT !.at = "upsert", !.rows = rows]
    <2>2. /\ s \in Importer /\ s.by = r.by /\ s.first = r.first /\ s.last = r.last
          /\ s.rows = rows /\ s.at = "upsert"
      BY <1>1 DEF Importer
    <2>3. r.by = "dag" => \A k \in rows : k.hour = now
      <3> SUFFICES ASSUME r.by = "dag", NEW k \in rows PROVE k.hour = now
        OBVIOUS
      <3>1. k.hour \in Nat /\ r.first = now /\ r.last = now + 1
        BY <1>1 DEF ImportGood, Reading, Hours
      <3>2. QED
        BY <1>1, <3>1
    <2>4. ImportGood(s)
      BY <1>1, <2>2, <2>3 DEF ImportGood
    <2>5. QED
      BY <1>1, <2>1, <2>4, Going
  <1>4. CASE UpsertSites(x)
    <2>1. ImportGood([r EXCEPT !.at = "commit"])
      BY <1>1 DEF ImportGood, Importer
    <2>2. QED
      BY <1>1, <1>4, <2>1, Going DEF UpsertSites
  <1>5. CASE FailImport(x)
    BY <1>1, <1>5, NoImportIsGood, Going DEF FailImport
  <1>6. QED
    BY <1>2, <1>3, <1>4, <1>5

\* Rows that come into a chunk nobody has read or archived leave every run and every
\* object as good as before; the other chunks that got rows are touched.
LEMMA InsertReadingsStep ==
  ASSUME IInv, NEW x \in Importers, InsertReadings(x)
  PROVE  IInv'
  <1> DEFINE rows == importer[x].rows
             hit == {Chunk(k) : k \in rows \ reading}
  <1>1. /\ reading' = reading \cup rows /\ exists' = exists \cup hit
        /\ serial' = [c \in Chunks |-> IF c \in hit \ exists THEN serial[c] + 1 ELSE serial[c]]
        /\ importer' = [importer EXCEPT ![x] = NoImport] /\ imported' = imported \cup rows
        /\ touched' = touched \cup {c \in hit : Exposed(c)}
        /\ UNCHANGED <<object, job, imports, now>>
    BY DEF InsertReadings
  <1>2. rows \subseteq Reading /\ hit \subseteq Chunks
    BY ChunkTyped DEF IInv, TypeOK, Importer
  <1>3. \A c \in Chunks \ hit : Current(c)' = Current(c) /\ (c \in exists' <=> c \in exists)
    <2> TAKE c \in Chunks \ hit
    <2>1. RowsOf(c)' = RowsOf(c)
      BY <1>1 DEF RowsOf
    <2>2. QED
      BY <1>1, <2>1 DEF Current
  <1>4. \A c \in hit : c \notin touched' => ~Exposed(c)
    BY <1>1
  <1>5. ASSUME NEW j \in Jobs PROVE JobGood(job[j])'
    <2>1. PICK t : t = job[j] /\ t = job'[j]
      BY <1>1
    <2>2. JobGood(t)
      BY <2>1 DEF IInv
    <2>3. t.chunk # None /\ ~t.dry /\ t.chunk \notin touched' =>
             t.chunk \in Chunks \ hit /\ t.chunk \notin touched
      BY <1>1, <1>4, <2>1, <2>2 DEF JobGood, Job, Exposed
    <2>4. QED
      BY <1>1, <1>3, <2>1, <2>2, <2>3 DEF JobGood
  <1>6. ASSUME NEW c \in Chunks PROVE ObjectGood(c)'
    <2>1. CASE c \in hit
      BY <1>1, <1>4, <2>1 DEF IInv, ObjectGood, Exposed
    <2>2. CASE c \notin hit
      BY <1>1, <1>3, <2>2 DEF IInv, ObjectGood
    <2>3. QED
      BY <2>1, <2>2
  <1>7. NothingLost'
    BY <1>1 DEF IInv, NothingLost
  <1>8. \A y \in Importers : ImportGood(importer[y])'
    BY <1>1, NoImportIsGood DEF IInv, TypeOK, ImportGood
  <1>9. TypeOK'
    <2>1. exists' = {Chunk(k) : k \in reading'}
      BY <1>1 DEF IInv, TypeOK
    <2>2. serial' \in [Chunks -> Nat]
      BY <1>1 DEF IInv, TypeOK
    <2>3. importer' \in [Importers -> Importer]
      BY <1>1, NoImportTyped DEF IInv, TypeOK
    <2>4. QED
      BY <1>1, <1>2, <2>1, <2>2, <2>3 DEF IInv, TypeOK
  <1>10. QED
    BY <1>5, <1>6, <1>7, <1>8, <1>9 DEF IInv

LEMMA TickStep ==
  ASSUME IInv, Tick
  PROVE  IInv'
  <1>1. now \in Nat /\ now' = now + 1 /\ now' \in Hours
    BY HoursAssumption DEF IInv, TypeOK, Tick, Hours
  <1>2. \A c \in Chunks : RangeEnd(c) <= now => RangeEnd(c) <= now'
    BY <1>1, RangeEndTyped
  <1>3. \A x \in Importers : importer[x].by # "dag"
    BY DEF IInv, ImportGood, Tick, InFlight
  <1>4. TypeOK' /\ NothingLost'
    BY <1>1 DEF IInv, TypeOK, NothingLost, Tick
  <1>5. \A j \in Jobs : JobGood(job[j])'
    BY <1>2 DEF IInv, JobGood, Current, RowsOf, Tick
  <1>6. \A c \in Chunks : ObjectGood(c)'
    BY <1>2 DEF IInv, ObjectGood, Current, RowsOf, Tick
  <1>7. \A x \in Importers : ImportGood(importer[x])'
    BY <1>3 DEF IInv, ImportGood, Tick
  <1>8. QED
    BY <1>4, <1>5, <1>6, <1>7 DEF IInv

LEMMA Inductive == IInv /\ [Next]_vars => IInv'
  <1> SUFFICES ASSUME IInv, [Next]_vars PROVE IInv'
    OBVIOUS
  <1>1. CASE UNCHANGED vars
    BY <1>1 DEF vars, IInv, TypeOK, NothingLost, JobGood, ObjectGood, ImportGood, Current, RowsOf
  <1>2. CASE Tick
    BY <1>2, TickStep
  <1>3. ASSUME NEW j \in Jobs, NEW age \in Ages, NEW dry \in BOOLEAN,
               ArchiveReadingChunks(j, age, dry)
        PROVE  IInv'
    BY <1>3, ArchiveReadingChunksStep
  <1>4. ASSUME NEW j \in Jobs, Retention(j) \/ FailJob(j) PROVE IInv'
    BY <1>4, ReadChunkRowsStep, CompareStep, PutStep, RereadStep, DropChunkStep, FailJobStep
    DEF Retention
  <1>5. ASSUME NEW x \in Importers,
               \/ ScheduledImport(x)
               \/ \E w \in Windows : Backfill(x, w)
               \/ ImportHistorical(x)
               \/ Import(x)
               \/ FailImport(x)
        PROVE  IInv'
    BY <1>5, LaunchStep, ImportingStep, InsertReadingsStep DEF Import
  <1>6. QED
    BY <1>1, <1>2, <1>3, <1>4, <1>5 DEF Next

-----------------------------------------------------------------------------
(* Theorems *)

LEMMA InvariantHolds == Spec => []IInv
  BY InitIInv, Inductive, PTL DEF Spec

\* The tables, the runs and the history are well-formed: a row lies in a chunk of the
\* catalog, and a file holds rows of its own chunk.
THEOREM TypeCorrect == Spec => []TypeOK
  BY InvariantHolds, PTL DEF IInv

\* The retention loses no reading, whatever fails and however many runs overlap,
\* except in a chunk that got rows after a run had read or archived it.
THEOREM RetentionLosesNothing == Spec => []NothingLost
  BY InvariantHolds, PTL DEF IInv

\* The current hour is in no chunk a run may have listed, read or archived.
LEMMA ScheduledMissesExposed ==
  ASSUME IInv, NEW x \in Importers, importer[x].by = "dag", InsertReadings(x)
  PROVE  touched' = touched
  <1> DEFINE hit == {Chunk(k) : k \in importer[x].rows \ reading}
  <1>1. ASSUME NEW c \in hit PROVE c \in Chunks /\ now < RangeEnd(c) /\ now \in Nat
    <2>1. PICK k \in importer[x].rows : c = Chunk(k) /\ k.hour = now /\ k \in Reading
      BY DEF IInv, TypeOK, ImportGood, Importer
    <2>2. now \in Nat
      BY DEF IInv, TypeOK, Hours
    <2>3. QED
      BY <2>1, <2>2, HourInRange, ChunkTyped DEF Chunk
  <1>2. ASSUME NEW c \in hit PROVE ~Exposed(c)
    <2>1. ~(RangeEnd(c) <= now)
      BY <1>1, RangeEndTyped
    <2>2. QED
      BY <1>1, <2>1 DEF IInv, JobGood, ObjectGood, Exposed
  <1>3. QED
    BY <1>2 DEF InsertReadings

\* The hourly import never puts a row where the retention has been.
THEOREM ScheduleSafe == Spec => ScheduleIsSafe
  <1>1. IInv /\ [Next]_vars =>
          [\A x \in Importers : importer[x].by = "dag" /\ InsertReadings(x) => touched' = touched]_vars
    BY ScheduledMissesExposed
  <1>2. QED
    BY <1>1, InvariantHolds, PTL DEF Spec, ScheduleIsSafe

\* What a run puts where an object is already is that object, late rows excepted.
LEMMA PutKeepsObject ==
  ASSUME IInv, NEW j \in Jobs, Put(j), NEW c \in Chunks, object[c] # None, c \notin touched
  PROVE  object'[c] = object[c]
  <1>1. JobGood(job[j]) /\ ObjectGood(c) /\ job[j].at = "put"
    BY DEF IInv, Put
  <1>2. c = job[j].chunk => job[j].file = object[c]
    BY <1>1, NoneAssumption DEF JobGood, ObjectGood
  <1>3. QED
    BY <1>2 DEF Put, IInv, TypeOK

\* A failed, repeated or concurrent run exports the same file or nothing.
THEOREM ObjectsStay == Spec => ExportedOnce
  <1>1. ASSUME IInv, [Next]_vars
        PROVE  [\A c \in Chunks : object[c] # None /\ c \notin touched' =>
                                     object'[c] = object[c]]_vars
    <2>1. CASE UNCHANGED vars
      BY <2>1
    <2>2. ASSUME NEW j \in Jobs, Put(j)
          PROVE  \A c \in Chunks : object[c] # None /\ c \notin touched' => object'[c] = object[c]
      <3>1. touched' = touched
        BY <2>2 DEF Put, Move
      <3>2. QED
        BY <1>1, <2>2, <3>1, PutKeepsObject
    <2>3. CASE UNCHANGED object
      BY <2>3
    <2>4. QED
      BY <1>1, <2>1, <2>2, <2>3
      DEF Next, Tick, Retention, Import, ArchiveReadingChunks, ReadChunkRows, Compare, Reread,
          DropChunk, FailJob, ScheduledImport, Backfill, ImportHistorical, Launch, Go,
          RefuseIfOverlapsHistoricalDataset, FetchReadings, UpsertSites, InsertReadings, FailImport
  <1>2. QED
    BY <1>1, InvariantHolds, PTL DEF Spec, ExportedOnce

-----------------------------------------------------------------------------
(* Refinement of ReadingArchive when only the DAG imports *)

OnlyTheDag == Windows = {} /\ Dataset = {}

\* Then no chunk is ever touched.
Untouched ==
  /\ touched = {}
  /\ \A x \in Importers : importer[x].by = "hand" =>
       importer[x].rows = {} /\ importer[x].at \notin {"check", "fetch"}

LEMMA StaysUntouched ==
  ASSUME OnlyTheDag
  PROVE  IInv /\ Untouched /\ [Next]_vars => Untouched'
  <1> SUFFICES ASSUME IInv, Untouched, [Next]_vars PROVE Untouched'
    OBVIOUS
  <1>1. importer \in [Importers -> Importer]
    BY DEF IInv, TypeOK
  <1>2. CASE UNCHANGED <<importer, touched>>
    BY <1>2 DEF Untouched
  <1>3. ASSUME NEW x \in Importers, NEW r, importer' = [importer EXCEPT ![x] = r],
               r.by = "hand" => r.rows = {} /\ r.at \notin {"check", "fetch"},
               touched' = touched
        PROVE  Untouched'
    BY <1>1, <1>3 DEF Untouched
  <1>4. ASSUME NEW x \in Importers, InsertReadings(x) PROVE Untouched'
    <2>1. touched' = touched
      <3>1. importer[x].by \in {"dag", "hand"}
        BY <1>1 DEF Importer
      <3>2. CASE importer[x].by = "dag"
        BY <1>4, <3>2, ScheduledMissesExposed
      <3>3. CASE importer[x].by = "hand"
        BY <1>4, <3>3 DEF Untouched, InsertReadings
      <3>4. QED
        BY <3>1, <3>2, <3>3
    <2>2. importer' = [importer EXCEPT ![x] = NoImport] /\ NoImport.rows = {}
         /\ NoImport.at = "idle"
      BY <1>4 DEF InsertReadings, NoImport
    <2>3. QED
      BY <1>3, <2>1, <2>2
  <1>5. ASSUME NEW x \in Importers,
               \/ ScheduledImport(x)
               \/ \E w \in Windows : Backfill(x, w)
               \/ ImportHistorical(x)
        PROVE  Untouched'
    <2>1. CASE ScheduledImport(x)
      BY <1>3, <2>1 DEF ScheduledImport, Launch, Go
    <2>2. CASE ImportHistorical(x)
      <3>1. /\ [NoImport EXCEPT !.at = "upsert", !.rows = Dataset].rows = {}
            /\ [NoImport EXCEPT !.at = "upsert", !.rows = Dataset].at = "upsert"
        BY DEF OnlyTheDag, NoImport
      <3>2. QED
        BY <1>3, <2>2, <3>1 DEF ImportHistorical, Launch, Go
    <2>3. QED
      BY <1>5, <2>1, <2>2 DEF OnlyTheDag
  <1>6. ASSUME NEW x \in Importers,
               \/ RefuseIfOverlapsHistoricalDataset(x)
               \/ FetchReadings(x)
               \/ UpsertSites(x)
               \/ FailImport(x)
        PROVE  Untouched'
    <2> DEFINE r == importer[x]
    <2>1. /\ r \in Importer /\ NoImport.rows = {} /\ NoImport.at = "idle"
          /\ r.by = "hand" => r.rows = {} /\ r.at \notin {"check", "fetch"}
      BY <1>1 DEF Untouched, NoImport
    <2>2. CASE RefuseIfOverlapsHistoricalDataset(x)
      <3>1. [r EXCEPT !.at = "fetch"].by = r.by
        BY <2>1 DEF Importer
      <3>2. QED
        BY <1>3, <2>1, <2>2, <3>1 DEF RefuseIfOverlapsHistoricalDataset, Go
    <2>3. CASE FetchReadings(x)
      <3>1. PICK rows : Go(x, [r EXCEPT !.at = "upsert", !.rows = rows])
        BY <2>3 DEF FetchReadings
      <3>2. [r EXCEPT !.at = "upsert", !.rows = rows].by = r.by /\ r.by # "hand"
        BY <2>1, <2>3 DEF Importer, FetchReadings
      <3>3. QED
        BY <1>3, <3>1, <3>2 DEF Go
    <2>4. CASE UpsertSites(x)
      <3>1. LET s == [r EXCEPT !.at = "commit"]
            IN s.by = r.by /\ s.rows = r.rows /\ s.at = "commit"
        BY <2>1 DEF Importer
      <3>2. QED
        BY <1>3, <2>1, <2>4, <3>1 DEF UpsertSites, Go
    <2>5. CASE FailImport(x)
      BY <1>3, <2>1, <2>5 DEF FailImport, Go
    <2>6. QED
      BY <1>6, <2>2, <2>3, <2>4, <2>5
  <1>7. ASSUME NEW j \in Jobs,
               \/ \E age \in Ages, dry \in BOOLEAN : ArchiveReadingChunks(j, age, dry)
               \/ Retention(j)
               \/ FailJob(j)
        PROVE  Untouched'
    <2>1. UNCHANGED <<importer, touched>>
      BY <1>7 DEF ArchiveReadingChunks, Retention, ReadChunkRows, Compare, Put, Reread, DropChunk,
                  FailJob, Move
    <2>2. QED
      BY <1>2, <2>1
  <1>8. CASE Tick \/ UNCHANGED vars
    BY <1>2, <1>8 DEF Tick, vars
  <1>9. QED
    BY <1>4, <1>5, <1>6, <1>7, <1>8 DEF Next, Import

\* A chunk that still exists has nothing in the archive that the database has not.
LEMMA ColdChunksAreGone ==
  ASSUME IInv, Untouched, NEW k \in Archived \ reading
  PROVE  /\ Chunk(k) \in Chunks \ exists
         /\ object[Chunk(k)] # None /\ k \in object[Chunk(k)].rows
  <1>1. PICK c \in Chunks : object[c] # None /\ k \in object[c].rows
    BY DEF Archived
  <1>2. ObjectGood(c) /\ c \notin touched
    BY DEF IInv, Untouched
  <1>3. Chunk(k) = c
    BY <1>1, <1>2 DEF ObjectGood
  <1>4. c \notin exists
    BY <1>1, <1>2 DEF ObjectGood, Current, RowsOf
  <1>5. QED
    BY <1>1, <1>3, <1>4

LEMMA PutRefines ==
  ASSUME IInv, Untouched, NEW j \in Jobs, Put(j)
  PROVE  UNCHANGED <<reading, Archived \ reading>>
  <1> DEFINE r == job[j]
             c == r.chunk
  <1>1. JobGood(r) /\ r.at = "put" /\ UNCHANGED reading
    BY DEF IInv, Put, Move
  <1>2. c \in Chunks /\ r.file \in File /\ r.file # None /\ c \notin touched /\ ObjectGood(c)
    BY <1>1, NoneAssumption DEF JobGood, Job, Untouched, IInv
  <1>3. c \notin exists => object[c] = r.file
    BY <1>1, <1>2, NoneAssumption DEF JobGood
  <1>4. c \in exists => /\ r.file.rows \subseteq reading
                        /\ object[c] # None => object[c] = r.file
    BY <1>1, <1>2, NoneAssumption DEF JobGood, ObjectGood, Current, RowsOf
  <1>5. CASE UNCHANGED object
    BY <1>1, <1>5 DEF Archived
  <1>6. CASE object' = [object EXCEPT ![c] = r.file] /\ object[c] = r.file
    BY <1>1, <1>6 DEF Archived, IInv, TypeOK
  <1>7. CASE /\ object' = [object EXCEPT ![c] = r.file] /\ object[c] = None
             /\ r.file.rows \subseteq reading
    <2>1. object'[c] = r.file /\ \A d \in Chunks \ {c} : object'[d] = object[d]
      BY <1>2, <1>7 DEF IInv, TypeOK
    <2>2. Archived' = Archived \cup r.file.rows
      BY <1>2, <1>7, <2>1 DEF Archived
    <2>3. QED
      BY <1>1, <1>7, <2>2
  <1>8. QED
    BY <1>3, <1>4, <1>5, <1>6, <1>7 DEF Put
LEMMA DropRefines ==
  ASSUME IInv, Untouched, NEW j \in Jobs, DropChunk(j)
  PROVE  \/ UNCHANGED <<reading, Archived \ reading>>
         \/ \E c \in Chunks :
              /\ \A k \in Archived \ reading : Chunk(k) # c
              /\ reading' = reading \ RowsOf(c)
              /\ (Archived \ reading)' = (Archived \ reading) \cup RowsOf(c)
  <1> DEFINE r == job[j]
             c == r.chunk
  <1>1. JobGood(r) /\ r.at = "drop" /\ Archived' = Archived
    BY DEF IInv, DropChunk, Archived
  <1>2. CASE Move(j, NoJob)
    BY <1>1, <1>2 DEF Move
  <1>3. CASE c \in exists /\ reading' = reading \ RowsOf(c)
    <2>1. c \in Chunks /\ r.file # None /\ c \notin touched
      BY <1>1, NoneAssumption DEF JobGood, Job, Untouched
    <2>2. r.file = Current(c) /\ (r.file.rows = {} \/ object[c] = r.file)
      BY <1>1, <1>3, <2>1, NoneAssumption DEF JobGood
    <2>3. RowsOf(c) \subseteq Archived
      BY <2>1, <2>2 DEF Current, Archived
    <2>4. \A k \in Archived \ reading : Chunk(k) # c
      BY <1>3, ColdChunksAreGone
    <2>5. (Archived \ reading)' = (Archived \ reading) \cup RowsOf(c)
      BY <1>1, <1>3, <2>3 DEF RowsOf
    <2>6. QED
      BY <1>3, <2>1, <2>4, <2>5
  <1>4. QED
    BY <1>2, <1>3 DEF DropChunk

LEMMA InsertRefines ==
  ASSUME IInv, Untouched, Untouched', NEW x \in Importers, InsertReadings(x)
  PROVE  \E rows \in SUBSET Reading :
           /\ rows \cap (Archived \ reading) = {}
           /\ reading' = reading \cup rows
           /\ (Archived \ reading)' = Archived \ reading
  <1> DEFINE rows == importer[x].rows
  <1>1. rows \subseteq Reading
    BY DEF IInv, TypeOK, Importer
  <1>2. Archived' = Archived /\ reading' = reading \cup rows
    BY DEF InsertReadings, Archived
  <1>3. ASSUME NEW k \in rows, k \in Archived \ reading PROVE FALSE
    <2>1. object[Chunk(k)] # None
      BY <1>3, ColdChunksAreGone
    <2>2. Chunk(k) \in touched'
      BY <1>3, <2>1 DEF InsertReadings, Exposed
    <2>3. QED
      BY <2>2 DEF Untouched
  <1>4. (Archived \ reading)' = Archived \ reading
    BY <1>2, <1>3
  <1>5. QED
    BY <1>1, <1>2, <1>3, <1>4

LEMMA StepRefines ==
  ASSUME IInv, Untouched, Untouched', [Next]_vars
  PROVE  [Archive!Next]_<<reading, Archived \ reading>>
  <1>1. CASE UNCHANGED <<reading, object>>
    BY <1>1 DEF Archived
  <1>2. ASSUME NEW j \in Jobs, Put(j) PROVE UNCHANGED <<reading, Archived \ reading>>
    BY <1>2, PutRefines
  <1>3. ASSUME NEW j \in Jobs, DropChunk(j)
        PROVE  [Archive!Next]_<<reading, Archived \ reading>>
    BY <1>3, DropRefines DEF Archive!Next, Archive!Retire, RowsOf
  <1>4. ASSUME NEW x \in Importers, InsertReadings(x) PROVE Archive!Next
    BY <1>4, InsertRefines DEF Archive!Next, Archive!Import
  <1>5. ASSUME NEW j \in Jobs, NEW age \in Ages, NEW dry \in BOOLEAN,
               ArchiveReadingChunks(j, age, dry)
        PROVE  UNCHANGED <<reading, object>>
    BY <1>5 DEF ArchiveReadingChunks, Move
  <1>6. ASSUME NEW j \in Jobs, ReadChunkRows(j) \/ Compare(j) \/ Reread(j) \/ FailJob(j)
        PROVE  UNCHANGED <<reading, object>>
    BY <1>6 DEF ReadChunkRows, Compare, Reread, FailJob, Move
  <1>7. ASSUME NEW x \in Importers,
               \/ ScheduledImport(x)
               \/ \E w \in Windows : Backfill(x, w)
               \/ ImportHistorical(x)
               \/ RefuseIfOverlapsHistoricalDataset(x)
               \/ FetchReadings(x)
               \/ UpsertSites(x)
               \/ FailImport(x)
        PROVE  UNCHANGED <<reading, object>>
    BY <1>7 DEF ScheduledImport, Backfill, ImportHistorical, Launch, Go,
       RefuseIfOverlapsHistoricalDataset, FetchReadings, UpsertSites, FailImport
  <1>8. CASE Tick \/ UNCHANGED vars
    BY <1>1, <1>8 DEF Tick, vars
  <1>9. QED
    BY <1>1, <1>2, <1>3, <1>4, <1>5, <1>6, <1>7, <1>8 DEF Next, Retention, Import

\* As long as only the DAG imports, the retention is the abstract archive: a chunk moves
\* as a whole and once, and nothing that is archived comes back.
THEOREM RetentionRefinesArchive ==
  ASSUME OnlyTheDag
  PROVE  Spec => ArchiveSpec
  <1>1. Init => Untouched /\ Archive!Init
    BY DEF Init, Untouched, NoImport, Archive!Init, Archived
  <1>2. IInv /\ Untouched /\ [Next]_vars => Untouched'
    BY StaysUntouched
  <1>3. IInv /\ Untouched /\ Untouched' /\ [Next]_vars => [Archive!Next]_<<reading, Archived \ reading>>
    BY StepRefines
  <1>4. QED
    BY <1>1, <1>2, <1>3, InvariantHolds, PTL DEF Spec, ArchiveSpec, Archive!Spec
=============================================================================
