------------------------------- MODULE IngestRules -------------------------------
(***************************************************************************)
(* What the imports make of what they receive: mock_api_import.py of the   *)
(* reports of the API, which may hold anything, historical_import.py of    *)
(* the records of a file, of which measures may be missing.  A measure out *)
(* of its physical bounds becomes null and its name goes to null_reasons.  *)
(***************************************************************************)
EXTENDS Integers, Sequences, FiniteSets

CONSTANTS Sites,
          Ceiling,  \* the upper bound of every measure
          None

Qualities == {"good", "partial", "degraded", "critical"}
Sensors == {"consumption", "electrical", "temperature", "humidity", "network"}

\* Sites are numbered in the order of their identifiers; None is no number and no quality.
ASSUME IngestAssumption ==
  Sites \subseteq Nat /\ Ceiling \in Nat /\ None \notin Int /\ None \notin Qualities

\* A row of reading: id is the order of insertion, dataset 0 when the API has sent it, refused
\* when null_reasons names a measure out of bounds, dead the sensors whose fields are null or
\* which null_reasons names.
Reading == [id : Nat, site : Sites, hour : Int, dataset : Nat,
            kw : Nat \cup {None}, kwh : Nat \cup {None},
            quality : Qualities \cup {None}, refused : BOOLEAN, dead : SUBSET Sensors]

-----------------------------------------------------------------------------
(* Reports of the API *)

\* electrical stands for the voltage, the current and the power factor.
Measured == {"kw", "kwh", "electrical", "temperature", "humidity"}

\* What is not a number is a negative one.
Report == [value : [Measured -> Int \cup {None}], quality : STRING \cup {None},
           reasons : SUBSET Sensors]

CoerceMeasure(v) == IF v # None /\ v \in 0..Ceiling THEN v ELSE None

Rejected(report) ==
  {f \in Measured : report.value[f] # None /\ CoerceMeasure(report.value[f]) = None}

\* Mutant: the quality the API states is believed.
StatedQuality(q, rejected) == IF q \in Qualities THEN q ELSE None

ResolveQuality(q, rejected) ==
  CASE rejected = {} /\ q \in Qualities -> q
    [] rejected = {} /\ q \notin Qualities -> None
    [] rejected # {} -> IF q = "critical" THEN "critical" ELSE "degraded"

\* The sensors that a page takes for dead once these fields are null.
SensorsOf(nulls) ==
  {s \in {"consumption"} : "kw" \in nulls} \cup (nulls \cap {"electrical", "temperature", "humidity"})

FromReport(report, id, site, hour) ==
  LET value == [f \in Measured |-> CoerceMeasure(report.value[f])]
      rejected == Rejected(report)
  IN [id |-> id, site |-> site, hour |-> hour, dataset |-> 0,
      kw |-> value["kw"], kwh |-> value["kwh"],
      quality |-> ResolveQuality(report.quality, rejected), refused |-> rejected # {},
      dead |-> report.reasons \cup SensorsOf({f \in Measured : value[f] = None})]

\* The window of an hour of the API is refused when a file covers any of it, and a report of
\* an hour that the API has reported is dropped.
Imported(rows, site, hour) ==
  \E r \in rows : r.hour = hour /\ (r.dataset # 0 \/ r.site = site)

-----------------------------------------------------------------------------
(* Historical files *)

Columns == {"kwh", "euros", "temperature", "humidity", "irradiance"}

\* Hours are as the file writes them; ahead is how far its time zone is ahead of UTC, total
\* and sites are what the metadata declare.
File == [records : Seq([site : Sites, hour : Int, kwh : Nat \cup {None}, missing : SUBSET Columns]),
         ahead : Int, total : Nat, sites : SUBSET Sites]

ValidateSource(file) ==
  LET records == file.records
  IN /\ Len(records) = file.total
     /\ {records[i].site : i \in 1..Len(records)} = file.sites
     /\ \A i, j \in 1..Len(records) :
          records[i].site = records[j].site /\ records[i].hour = records[j].hour => i = j

ClassifyQuality(missing) ==
  CASE missing = {} -> "good"
    [] missing = Columns -> "critical"
    [] missing # Columns /\ "kwh" \in missing -> "degraded"
    [] missing # {} /\ "kwh" \notin missing -> "partial"

\* A file has neither the power nor the electrical measures.
FromRecord(file, record, id, dataset) ==
  [id |-> id, site |-> record.site, hour |-> record.hour - file.ahead, dataset |-> dataset,
   kw |-> None, kwh |-> IF "kwh" \in record.missing THEN None ELSE record.kwh,
   quality |-> ClassifyQuality(record.missing), refused |-> FALSE,
   dead |-> SensorsOf({"kw", "electrical"} \cup record.missing)]

\* The fingerprint of the records names the dataset, whatever the metadata and the time zone.
EnsureDataset(files, d) == CHOOSE e \in 1..Len(files) : files[e].records = files[d].records

\* The same file again adds nothing; another one adds its rows beside those that are there.
Loaded(rows, dataset, file) ==
  LET new == {i \in 1..Len(file.records) :
                ~\E r \in rows : /\ r.dataset = dataset /\ r.site = file.records[i].site
                                 /\ r.hour = file.records[i].hour - file.ahead}
      Id(i) == Cardinality(rows) + Cardinality({j \in new : j < i})
  IN rows \cup {FromRecord(file, file.records[i], Id(i), dataset) : i \in new}
=============================================================================
