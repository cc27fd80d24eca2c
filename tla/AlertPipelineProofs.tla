-------------------------- MODULE AlertPipelineProofs --------------------------
(***************************************************************************)
(* Proofs about AlertPipeline, for any sites, capacities, limits, reports  *)
(* and files, and without a bound on the rows.  That a silence is advised  *)
(* in the end is left to TLC.                                              *)
(***************************************************************************)
EXTENDS AlertPipeline, FiniteSetTheorems, TLAPS

-----------------------------------------------------------------------------
(* Rows are numbered in the order of their insertion *)

Numbered(rows) ==
  /\ IsFiniteSet(rows)
  /\ \A r \in rows : r.id \in Nat /\ r.id < Cardinality(rows)
  /\ \A q, r \in rows : q.id = r.id => q = r

\* A row that takes the next number.
LEMMA AddedIsNumbered ==
  ASSUME NEW rows, Numbered(rows), NEW r, r.id = Cardinality(rows)
  PROVE  Numbered(rows \cup {r})
<1>1. IsFiniteSet(rows) /\ Cardinality(rows) \in Nat
  BY FS_CardinalityType DEF Numbered
<1>2. r \notin rows
  BY <1>1 DEF Numbered
<1>3. IsFiniteSet(rows \cup {r}) /\ Cardinality(rows \cup {r}) = Cardinality(rows) + 1
  BY <1>1, <1>2, FS_AddElement
<1> QED  BY <1>1, <1>3 DEF Numbered

\* A file takes as many numbers as it adds rows.
LEMMA LoadedIsNumbered ==
  ASSUME NEW rows, Numbered(rows), NEW dataset, NEW file \in File
  PROVE  Numbered(Loaded(rows, dataset, file))
<1> DEFINE new == {i \in 1..Len(file.records) :
                     ~\E r \in rows : /\ r.dataset = dataset /\ r.site = file.records[i].site
                                      /\ r.hour = file.records[i].hour - file.ahead}
           Below(i) == {j \in new : j < i}
           Row(i) == FromRecord(file, file.records[i], Cardinality(rows) + Cardinality(Below(i)), dataset)
           added == {Row(i) : i \in new}
<1>0. Loaded(rows, dataset, file) = rows \cup added
  BY DEF Loaded
<1>1. IsFiniteSet(rows) /\ Cardinality(rows) \in Nat
  BY FS_CardinalityType DEF Numbered
<1>2. /\ IsFiniteSet(new) /\ Cardinality(new) \in Nat
      /\ new \subseteq Nat
  <2>1. Len(file.records) \in Nat
    BY DEF File
  <2>2. IsFiniteSet(1..Len(file.records))
    BY <2>1, FS_Interval
  <2> QED  BY <2>1, <2>2, FS_Subset, FS_CardinalityType
<1>3. ASSUME NEW i \in new
      PROVE  /\ IsFiniteSet(Below(i)) /\ Cardinality(Below(i)) \in Nat
             /\ Cardinality(Below(i)) < Cardinality(new)
  <2>1. Below(i) \in SUBSET new /\ i \notin Below(i)
    BY <1>2
  <2>2. /\ IsFiniteSet(Below(i)) /\ Cardinality(Below(i)) <= Cardinality(new)
        /\ Cardinality(new) = Cardinality(Below(i)) => new = Below(i)
    BY <1>2, <2>1, FS_Subset
  <2>3. Cardinality(Below(i)) \in Nat
    BY <2>2, FS_CardinalityType
  <2> QED  BY <1>2, <2>1, <2>2, <2>3
<1>4. ASSUME NEW i \in new, NEW k \in new, i < k
      PROVE  Cardinality(Below(i)) < Cardinality(Below(k))
  <2>1. Below(i) \in SUBSET Below(k) /\ i \in Below(k) /\ i \notin Below(i)
    BY <1>2, <1>4
  <2>2. /\ Cardinality(Below(i)) <= Cardinality(Below(k))
        /\ Cardinality(Below(k)) = Cardinality(Below(i)) => Below(k) = Below(i)
    BY <1>3, <2>1, FS_Subset
  <2>3. Cardinality(Below(i)) \in Nat /\ Cardinality(Below(k)) \in Nat
    BY <1>3
  <2> HIDE DEF Below
  <2> QED  BY <2>1, <2>2, <2>3
<1>5. \A i \in new : Row(i).id = Cardinality(rows) + Cardinality(Below(i))
  BY DEF FromRecord
<1> HIDE DEF Row, Below, new
<1>6. \A i, k \in new : Row(i).id = Row(k).id => i = k
  <2> SUFFICES ASSUME NEW i \in new, NEW k \in new, Row(i).id = Row(k).id, i # k
               PROVE  FALSE
    OBVIOUS
  <2>1. Cardinality(Below(i)) = Cardinality(Below(k))
    <3>1. /\ Row(i).id = Cardinality(rows) + Cardinality(Below(i))
          /\ Row(k).id = Cardinality(rows) + Cardinality(Below(k))
      BY <1>5
    <3>2. Cardinality(Below(i)) \in Nat /\ Cardinality(Below(k)) \in Nat
      BY <1>3
    <3>3. Cardinality(rows) + Cardinality(Below(i)) = Cardinality(rows) + Cardinality(Below(k))
      BY <3>1
    <3> QED  BY <1>1, <3>2, <3>3
  <2>2. i < k \/ k < i
    BY <1>2
  <2> QED  BY <1>3, <1>4, <2>1, <2>2
<1>7. IsFiniteSet(added) /\ Cardinality(added) = Cardinality(new)
  <2> DEFINE f == [i \in new |-> Row(i)]
  <2>1. f \in Bijection(new, added)
    BY <1>6 DEF Bijection, Injection, Surjection, IsInjective
  <2> QED  BY <1>2, <2>1, FS_Bijection DEF ExistsBijection
<1>8. rows \cap added = {}
  BY <1>1, <1>3, <1>5 DEF Numbered
<1>9. /\ IsFiniteSet(rows \cup added)
      /\ Cardinality(rows \cup added) = Cardinality(rows) + Cardinality(new)
  <2> HIDE DEF added
  <2>1. Cardinality(rows \cap added) = 0
    BY <1>8, FS_EmptySet
  <2> QED  BY <1>1, <1>2, <1>7, <2>1, FS_Union
<1>10. ASSUME NEW r \in rows \cup added
       PROVE  r.id \in Nat /\ r.id < Cardinality(rows \cup added)
  BY <1>1, <1>2, <1>3, <1>5, <1>9 DEF Numbered
<1>11. ASSUME NEW q \in rows \cup added, NEW r \in rows \cup added, q.id = r.id
       PROVE  q = r
  <2>1. CASE q \in rows /\ r \in rows  BY <2>1, <1>11 DEF Numbered
  <2>2. CASE q \in rows /\ r \in added  BY <2>2, <1>1, <1>3, <1>5, <1>11 DEF Numbered
  <2>3. CASE q \in added /\ r \in rows  BY <2>3, <1>1, <1>3, <1>5, <1>11 DEF Numbered
  <2>4. CASE q \in added /\ r \in added  BY <2>4, <1>6, <1>11
  <2> QED  BY <2>1, <2>2, <2>3, <2>4
<1> QED  BY <1>0, <1>9, <1>10, <1>11 DEF Numbered

-----------------------------------------------------------------------------
(* What the imports make of what they receive *)

\* A report of the API becomes a row.
LEMMA ReportIsARow ==
  ASSUME NEW report \in Report, NEW id \in Nat, NEW s \in Sites, NEW h \in Int
  PROVE  FromReport(report, id, s, h) \in Reading
<1>1. \A v \in Int \cup {None} : CoerceMeasure(v) \in Nat \cup {None}
  BY IngestAssumption DEF CoerceMeasure
<1>2. \A f \in Measured : report.value[f] \in Int \cup {None}
  BY DEF Report
<1>3. ASSUME NEW rejected  PROVE ResolveQuality(report.quality, rejected) \in Qualities \cup {None}
  BY DEF ResolveQuality, Qualities
<1>4. \A nulls : SensorsOf(nulls) \subseteq Sensors
  BY DEF SensorsOf, Sensors
<1>5. report.reasons \subseteq Sensors
  BY DEF Report
<1>6. "kw" \in Measured /\ "kwh" \in Measured
  BY DEF Measured
<1> QED  BY <1>1, <1>2, <1>3, <1>4, <1>5, <1>6 DEF FromReport, Reading

\* A record of a file becomes a row.
LEMMA RecordIsARow ==
  ASSUME NEW file \in File, NEW i \in 1..Len(file.records), NEW id \in Nat, NEW dataset \in Nat
  PROVE  FromRecord(file, file.records[i], id, dataset) \in Reading
<1> DEFINE record == file.records[i]
<1>1. /\ record.site \in Sites /\ record.hour \in Int /\ record.kwh \in Nat \cup {None}
      /\ record.missing \in SUBSET Columns /\ file.ahead \in Int
  <2> DEFINE R == [site : Sites, hour : Int, kwh : Nat \cup {None}, missing : SUBSET Columns]
  <2>1. file.records \in Seq(R) /\ file.ahead \in Int
    BY DEF File
  <2>2. record \in R
    <3> HIDE DEF R
    <3> QED  BY <2>1
  <2> QED  BY <2>1, <2>2
<1>2. ClassifyQuality(record.missing) \in Qualities
  BY <1>1 DEF ClassifyQuality, Qualities
<1>3. \A nulls : SensorsOf(nulls) \subseteq Sensors
  BY DEF SensorsOf, Sensors
<1> HIDE DEF record
<1> QED  BY <1>1, <1>2, <1>3 DEF FromRecord, Reading, record

\* A file adds rows, and takes none away.
LEMMA LoadedAreRows ==
  ASSUME NEW rows \in SUBSET Reading, Numbered(rows), NEW dataset \in Nat, NEW file \in File
  PROVE  rows \subseteq Loaded(rows, dataset, file) /\ Loaded(rows, dataset, file) \subseteq Reading
<1> DEFINE new == {i \in 1..Len(file.records) :
                     ~\E r \in rows : /\ r.dataset = dataset /\ r.site = file.records[i].site
                                      /\ r.hour = file.records[i].hour - file.ahead}
           Id(i) == Cardinality(rows) + Cardinality({j \in new : j < i})
<1>1. Len(file.records) \in Nat /\ IsFiniteSet(new)
  <2>1. Len(file.records) \in Nat
    BY DEF File
  <2>2. IsFiniteSet(1..Len(file.records)) /\ new \in SUBSET (1..Len(file.records))
    BY <2>1, FS_Interval
  <2> QED  BY <2>1, <2>2, FS_Subset
<1>2. ASSUME NEW i \in new  PROVE FromRecord(file, file.records[i], Id(i), dataset) \in Reading
  <2>1. Cardinality(rows) \in Nat
    BY FS_CardinalityType DEF Numbered
  <2>2. Cardinality({j \in new : j < i}) \in Nat
    BY <1>1, FS_Subset, FS_CardinalityType
  <2>3. Id(i) \in Nat /\ i \in 1..Len(file.records)
    BY <2>1, <2>2
  <2> QED  BY <2>3, RecordIsARow
<1> QED  BY <1>2 DEF Loaded

LEMMA DatasetsAreNumbers ==
  ASSUME NEW files \in Seq(File), NEW d \in 1..Len(files)
  PROVE  EnsureDataset(files, d) \in Nat
BY DEF EnsureDataset

-----------------------------------------------------------------------------
(* What the five rules draw *)

OneEach(alerts) == \A a, b \in alerts : KeyOf(a) = KeyOf(b) => a = b

\* Alerts of these types that rest on stored rows, one for each event.
Sound(alerts, types) ==
  /\ \A a \in alerts : a \in Alert /\ a.type \in types /\ Evidenced(a)
  /\ OneEach(alerts)

\* The tables the rules read.
Tables ==
  /\ reading \subseteq Reading /\ Numbered(reading)
  /\ prediction \subseteq Prediction /\ Numbered(prediction)

LEMMA SeverityIsOne ==
  ASSUME NEW num, NEW den
  PROVE  Severity(num, den) \in Severities
BY DEF Severity, Severities

LEMMA GapIsANumber ==
  ASSUME NEW a \in Nat, NEW b \in Nat
  PROVE  Gap(a, b) \in Nat
BY DEF Gap

\* A slot has one first row.
LEMMA FirstIsOne ==
  ASSUME Tables, NEW rows \in SUBSET reading,
         NEW q \in FirstOfSlot(rows), NEW r \in FirstOfSlot(rows),
         q.site = r.site, q.hour = r.hour
  PROVE  q = r
<1>1. q \in reading /\ r \in reading /\ q.id \in Nat /\ r.id \in Nat
  BY DEF FirstOfSlot, Tables, Reading
<1>2. r.id <= q.id /\ q.id <= r.id
  BY DEF FirstOfSlot, SameSlot
<1> QED  BY <1>1, <1>2 DEF Tables, Numbered

\* What all alerts drawn from a row have in common.
LEMMA RaisedIsAnAlert ==
  ASSUME NEW r \in Reading, NEW type \in Types, NEW severity \in Severities,
         NEW value \in Nat \cup {None}, NEW threshold \in Nat \cup {None}
  PROVE  Raised(r, type, severity, value, threshold) \in Alert
<1>1. r.site \in Sites /\ r.hour \in Int
  BY DEF Reading
<1> QED  BY <1>1 DEF Raised, Alert

LEMMA ThresholdsAreSound ==
  ASSUME Tables, NEW rows \in SUBSET reading
  PROVE  Sound(Thresholds(rows), {"threshold"})
<1> DEFINE over == {r \in rows : OverCapacity(r)}
           Draw(r) == Raised(r, "threshold", Severity(r.kw, Capacity[r.site]), r.kw, Capacity[r.site])
<1>1. Thresholds(rows) = {Draw(r) : r \in FirstOfSlot(over)}
  BY DEF Thresholds
<1>2. ASSUME NEW r \in FirstOfSlot(over)
      PROVE  Draw(r) \in Alert /\ Evidenced(Draw(r)) /\ Draw(r).type = "threshold"
  <2>1. r \in reading /\ r \in Reading /\ OverCapacity(r)
    BY DEF FirstOfSlot, Tables
  <2>2. r.kw \in Nat /\ Capacity[r.site] \in Nat
    BY <2>1, RulesAssumption DEF OverCapacity, Reading
  <2>3. Draw(r) \in Alert
    BY <2>1, <2>2, RaisedIsAnAlert, SeverityIsOne DEF Types
  <2>4. /\ Draw(r).site = r.site /\ Draw(r).ref = r.hour /\ Draw(r).type = "threshold"
        /\ Draw(r).severity = Severity(r.kw, Capacity[r.site])
        /\ Draw(r).value = r.kw /\ Draw(r).threshold = Capacity[r.site]
    BY DEF Raised
  <2> HIDE DEF Draw
  <2>5. Evidenced(Draw(r))
    BY <2>1, <2>4 DEF Evidenced, RowAt, OverCapacity
  <2> QED  BY <2>3, <2>4, <2>5
<1>3. ASSUME NEW q \in FirstOfSlot(over), NEW r \in FirstOfSlot(over), KeyOf(Draw(q)) = KeyOf(Draw(r))
      PROVE  q = r
  <2>1. q.site = r.site /\ q.hour = r.hour
    BY <1>3 DEF KeyOf, Raised
  <2> QED  BY <2>1, FirstIsOne
<1> HIDE DEF Draw, over
<1> QED  BY <1>1, <1>2, <1>3 DEF Sound, OneEach

LEMMA BadQualitiesAreSound ==
  ASSUME Tables, NEW rows \in SUBSET reading
  PROVE  Sound(BadQualities(rows), {"sensor"})
<1> DEFINE bad == {r \in rows : QualitySeverity(r.quality) # None}
           Draw(r) == Raised(r, "sensor", QualitySeverity(r.quality), None, None)
<1>1. BadQualities(rows) = {Draw(r) : r \in FirstOfSlot(bad)}
  BY DEF BadQualities
<1>2. ASSUME NEW r \in FirstOfSlot(bad)
      PROVE  Draw(r) \in Alert /\ Evidenced(Draw(r)) /\ Draw(r).type = "sensor"
  <2>1. r \in reading /\ r \in Reading /\ QualitySeverity(r.quality) # None
    BY DEF FirstOfSlot, Tables
  <2>2. /\ QualitySeverity(r.quality) \in Severities
        /\ r.quality \notin {"good", None}
    <3>1. None \notin {"good", "partial", "degraded", "critical"}
      BY IngestAssumption DEF Qualities
    <3>2. r.quality \in {"good", "partial", "degraded", "critical", None}
      BY <2>1 DEF Reading, Qualities
    <3>3. r.quality # "good" /\ r.quality # None
      BY <2>1, <3>1 DEF QualitySeverity
    <3> QED  BY <3>2, <3>3 DEF QualitySeverity, Severities
  <2>3. Draw(r) \in Alert
    BY <2>1, <2>2, RaisedIsAnAlert DEF Types
  <2>4. Draw(r).site = r.site /\ Draw(r).ref = r.hour /\ Draw(r).type = "sensor"
    BY DEF Raised
  <2> HIDE DEF Draw
  <2>5. Evidenced(Draw(r))
    BY <2>1, <2>2, <2>4 DEF Evidenced, RowAt
  <2> QED  BY <2>3, <2>4, <2>5
<1>3. ASSUME NEW q \in FirstOfSlot(bad), NEW r \in FirstOfSlot(bad), KeyOf(Draw(q)) = KeyOf(Draw(r))
      PROVE  q = r
  <2>1. q.site = r.site /\ q.hour = r.hour
    BY <1>3 DEF KeyOf, Raised
  <2> QED  BY <2>1, FirstIsOne
<1> HIDE DEF Draw, bad
<1> QED  BY <1>1, <1>2, <1>3 DEF Sound, OneEach

LEMMA SpikesAreSound ==
  ASSUME Tables, NEW rows \in SUBSET reading
  PROVE  Sound(Spikes(rows), {"spike"})
<1> DEFINE jumps == {p \in rows \X rows : Follows(rows, p[1], p[2]) /\ Jumps(p[1].kw, p[2].kw)}
           Draw(p) == Raised(p[2], "spike", JumpSeverity(p[1].kw, p[2].kw), p[2].kw, p[1].kw)
<1>1. Spikes(rows) = {Draw(p) : p \in jumps}
  BY DEF Spikes
<1>2. ASSUME NEW p \in jumps
      PROVE  Draw(p) \in Alert /\ Evidenced(Draw(p)) /\ Draw(p).type = "spike"
  <2>1. /\ p[1] \in reading /\ p[2] \in reading /\ p[1] \in Reading /\ p[2] \in Reading
        /\ Jumps(p[1].kw, p[2].kw) /\ p[1].site = p[2].site /\ p[1].hour < p[2].hour
    BY DEF Follows, Tables
  <2>2. JumpSeverity(p[1].kw, p[2].kw) \in Severities
    BY SeverityIsOne DEF JumpSeverity, Severities
  <2>3. p[1].kw \in Nat \cup {None} /\ p[2].kw \in Nat \cup {None}
    BY <2>1 DEF Reading
  <2>4. Draw(p) \in Alert
    BY <2>1, <2>2, <2>3, RaisedIsAnAlert DEF Types
  <2>5. /\ Draw(p).site = p[2].site /\ Draw(p).ref = p[2].hour /\ Draw(p).type = "spike"
        /\ Draw(p).severity = JumpSeverity(p[1].kw, p[2].kw)
        /\ Draw(p).value = p[2].kw /\ Draw(p).threshold = p[1].kw
    BY DEF Raised
  <2> HIDE DEF Draw
  <2>6. Evidenced(Draw(p))
    BY <2>1, <2>5 DEF Evidenced, RowAt
  <2> QED  BY <2>4, <2>5, <2>6
<1>3. ASSUME NEW p \in jumps, NEW d \in jumps, KeyOf(Draw(p)) = KeyOf(Draw(d))
      PROVE  p = d
  <2>1. p[2].site = d[2].site /\ p[2].hour = d[2].hour
    BY <1>3 DEF KeyOf, Raised
  <2>2. /\ Follows(rows, p[1], p[2]) /\ Follows(rows, d[1], d[2])
        /\ p[1] \in rows /\ p[2] \in rows /\ d[1] \in rows /\ d[2] \in rows
        /\ p = <<p[1], p[2]>> /\ d = <<d[1], d[2]>>
    OBVIOUS
  <2> HIDE DEF jumps, Draw
  <2>3. \A r \in rows : r.id \in Nat /\ r.hour \in Int
    BY DEF Tables, Reading
  <2>4. p[2].id = d[2].id
    BY <2>1, <2>2, <2>3 DEF Follows, SameSlot
  <2>5. p[1].hour = d[1].hour /\ p[1].site = d[1].site
    BY <2>1, <2>2, <2>3 DEF Follows
  <2>6. p[1].id = d[1].id
    BY <2>2, <2>3, <2>5 DEF Follows, SameSlot
  <2>7. p[1] = d[1] /\ p[2] = d[2]
    BY <2>2, <2>4, <2>6 DEF Tables, Numbered
  <2> QED  BY <2>2, <2>7
<1> HIDE DEF Draw, jumps
<1> QED  BY <1>1, <1>2, <1>3 DEF Sound, OneEach

LEMMA AnomaliesAreSound ==
  ASSUME Tables, NEW rows \in SUBSET reading, NEW preds \in SUBSET prediction
  PROVE  Sound(Anomalies(rows, preds), {"anomaly"})
<1> DEFINE gaps == {d \in rows \X LastOfSlot(preds) :
                      /\ Deviates(d[1], d[2])
                      /\ \A q \in rows : Deviates(q, d[2]) => d[1].id <= q.id}
           Draw(d) == Raised(d[1], "anomaly", Severity(10 * Gap(d[1].kwh, d[2].kwh), 3 * d[2].kwh),
                             d[1].kwh, d[2].kwh)
<1>1. Anomalies(rows, preds) = {Draw(d) : d \in gaps}
  BY DEF Anomalies
<1>2. ASSUME NEW d \in gaps
      PROVE  Draw(d) \in Alert /\ Evidenced(Draw(d)) /\ Draw(d).type = "anomaly"
  <2>1. /\ d[1] \in reading /\ d[1] \in Reading
        /\ d[2] \in prediction /\ d[2] \in Prediction /\ Deviates(d[1], d[2])
    BY DEF LastOfSlot, Tables
  <2>2. d[1].kwh \in Nat \cup {None} /\ d[2].kwh \in Nat \cup {None}
    BY <2>1 DEF Reading, Prediction
  <2>3. Draw(d) \in Alert
    BY <2>1, <2>2, RaisedIsAnAlert, SeverityIsOne DEF Types
  <2>4. /\ Draw(d).site = d[1].site /\ Draw(d).ref = d[1].hour /\ Draw(d).type = "anomaly"
        /\ Draw(d).severity = Severity(10 * Gap(d[1].kwh, d[2].kwh), 3 * d[2].kwh)
        /\ Draw(d).value = d[1].kwh /\ Draw(d).threshold = d[2].kwh
    BY DEF Raised
  <2> HIDE DEF Draw
  <2>5. Evidenced(Draw(d))
    BY <2>1, <2>4 DEF Evidenced, RowAt, Deviates, SameSlot
  <2> QED  BY <2>3, <2>4, <2>5
<1>3. ASSUME NEW c \in gaps, NEW d \in gaps, KeyOf(Draw(c)) = KeyOf(Draw(d))
      PROVE  c = d
  <2>1. c[1].site = d[1].site /\ c[1].hour = d[1].hour
    BY <1>3 DEF KeyOf, Raised
  <2>2. /\ Deviates(c[1], c[2]) /\ Deviates(d[1], d[2])
        /\ c[1] \in rows /\ d[1] \in rows /\ c[2] \in LastOfSlot(preds) /\ d[2] \in LastOfSlot(preds)
        /\ \A q \in rows : Deviates(q, c[2]) => c[1].id <= q.id
        /\ \A q \in rows : Deviates(q, d[2]) => d[1].id <= q.id
        /\ c = <<c[1], c[2]>> /\ d = <<d[1], d[2]>>
    OBVIOUS
  <2> HIDE DEF gaps, Draw
  <2>3. /\ \A r \in rows : r.id \in Nat
        /\ \A p \in preds : p.id \in Nat
    BY DEF Tables, Reading, Prediction
  <2>4. SameSlot(c[2], d[2]) /\ SameSlot(d[2], c[2])
    BY <2>1, <2>2 DEF Deviates, SameSlot
  <2>5. c[2] \in preds /\ d[2] \in preds /\ c[2].id = d[2].id
    BY <2>2, <2>3, <2>4 DEF LastOfSlot
  <2>6. c[2] = d[2]
    BY <2>5 DEF Tables, Numbered
  <2>7. c[1].id = d[1].id
    BY <2>2, <2>3, <2>6
  <2>8. c[1] = d[1]
    BY <2>2, <2>7 DEF Tables, Numbered
  <2> QED  BY <2>2, <2>6, <2>8
<1> HIDE DEF Draw, gaps
<1> QED  BY <1>1, <1>2, <1>3 DEF Sound, OneEach

LEMMA OutagesAreSound ==
  ASSUME Tables, NEW instant \in Int
  PROVE  Sound(Outages(reading, instant), {"outage"})
<1> DEFINE silent == {r \in reading : IsLast(reading, r) /\ instant - r.hour >= OutageAfter}
           never == {s \in Sites : \A r \in reading : r.site # s}
           Late(r) == Silent(r.site, r.hour, Severity(instant - r.hour, OutageAfter), instant)
           Never(s) == Silent(s, None, "critical", instant)
<1>1. Outages(reading, instant) = {Late(r) : r \in silent} \cup {Never(s) : s \in never}
  BY DEF Outages
<1>2. ASSUME NEW r \in silent
      PROVE  /\ Late(r) \in Alert /\ Evidenced(Late(r))
             /\ Late(r).type = "outage" /\ Late(r).site = r.site /\ Late(r).ref = r.hour
  <2>1. r \in reading /\ r.site \in Sites /\ r.hour \in Int /\ instant - r.hour >= OutageAfter
    BY DEF Tables, Reading
  <2>2. Late(r) \in Alert
    BY <2>1, SeverityIsOne DEF Silent, Alert, Types
  <2>3. /\ Late(r).site = r.site /\ Late(r).ref = r.hour /\ Late(r).type = "outage"
        /\ Late(r).at = instant /\ Late(r).severity = Severity(instant - r.hour, OutageAfter)
    BY DEF Silent
  <2> HIDE DEF Late
  <2>4. Evidenced(Late(r))
    BY <2>1, <2>3 DEF Evidenced, RowAt
  <2> QED  BY <2>2, <2>3, <2>4
<1>3. ASSUME NEW s \in never
      PROVE  /\ Never(s) \in Alert /\ Evidenced(Never(s))
             /\ Never(s).type = "outage" /\ Never(s).site = s /\ Never(s).ref = None
  <2>1. Never(s) \in Alert
    BY DEF Silent, Alert, Types, Severities
  <2>2. /\ Never(s).type = "outage" /\ Never(s).ref = None /\ Never(s).severity = "critical"
        /\ Never(s).site = s
    BY DEF Silent
  <2> HIDE DEF Never
  <2>3. Evidenced(Never(s))
    BY <2>2 DEF Evidenced
  <2> QED  BY <2>1, <2>2, <2>3
<1>4. ASSUME NEW q \in silent, NEW r \in silent, q.site = r.site, q.hour = r.hour
      PROVE  q = r
  <2>1. q \in reading /\ r \in reading /\ q.id \in Nat /\ r.id \in Nat /\ q.hour \in Int
    BY DEF Tables, Reading
  <2>2. q.id = r.id
    BY <1>4, <2>1 DEF IsLast
  <2> QED  BY <2>1, <2>2 DEF Tables, Numbered
<1>5. ASSUME NEW r \in silent  PROVE r.hour # None /\ r.site \notin never
  BY IngestAssumption DEF Tables, Reading
<1>6. ASSUME NEW a, NEW b, KeyOf(a) = KeyOf(b)  PROVE a.site = b.site /\ a.ref = b.ref
  BY <1>6 DEF KeyOf
<1> HIDE DEF silent, never, Late, Never
<1>7. OneEach(Outages(reading, instant))
  <2> SUFFICES ASSUME NEW a \in Outages(reading, instant), NEW b \in Outages(reading, instant),
                      KeyOf(a) = KeyOf(b)
               PROVE  a = b
    BY DEF OneEach
  <2>1. CASE a \in {Late(r) : r \in silent} /\ b \in {Late(r) : r \in silent}
    BY <1>2, <1>4, <1>6, <2>1
  <2>2. CASE a \in {Never(s) : s \in never} /\ b \in {Never(s) : s \in never}
    BY <1>3, <1>6, <2>2
  <2>3. CASE a \in {Late(r) : r \in silent} /\ b \in {Never(s) : s \in never}
    BY <1>2, <1>3, <1>5, <1>6, <2>3
  <2>4. CASE a \in {Never(s) : s \in never} /\ b \in {Late(r) : r \in silent}
    BY <1>2, <1>3, <1>5, <1>6, <2>4
  <2> QED  BY <1>1, <2>1, <2>2, <2>3, <2>4
<1> QED  BY <1>1, <1>2, <1>3, <1>7 DEF Sound

-----------------------------------------------------------------------------
(* The inductive invariant *)

\* What a detection may have drawn at each of its steps.
Drawn(step) ==
  CASE step = "readings" -> {}
    [] step = "predictions" -> {"threshold", "spike", "sensor"}
    [] step = "latest" -> {"threshold", "spike", "sensor", "anomaly"}
    [] OTHER -> Types

\* A detection holds sound alerts that nobody has committed, a generation committed ones; both
\* have inserted those that come before the ones to insert.
Working(r) ==
  /\ r.task = "idle" => r.step = "alerts" /\ r.todo = {}
  /\ r.task = "detection" =>
       /\ r.step \in {"readings", "predictions", "latest", "insert"}
       /\ Sound(r.todo \cup r.done, Drawn(r.step))
       /\ Keys(r.done) \cap Keys(alert) = {}
  /\ r.task = "recommendations" => r.step \in {"alerts", "insert"} /\ r.todo \cup r.done \subseteq alert
  /\ r.rows \subseteq reading
  /\ r.step # "insert" => r.done = {}
  /\ \A a \in r.done, b \in r.todo : Before(a, b)

\* Two runs of a task never hold one row.
Exclusive ==
  \A x, y \in Runs : x # y /\ run[x].task = run[y].task
                       => Keys(run[x].done) \cap Keys(run[y].done) = {}

\* The advice of an alert is whole, and of an alert that is there.
AdviceWhole ==
  /\ \A d \in advice : \E a \in alert : d \in Advised({a})
  /\ \A a \in alert : Advised({a}) \subseteq advice \/ \A d \in advice : d.alert # KeyOf(a)

IInv ==
  /\ TypeOK
  /\ Tables
  /\ \A x \in Runs : Working(run[x])
  /\ Exclusive
  /\ Sound(alert, Types)
  /\ AdviceWhole

-----------------------------------------------------------------------------
(* Facts the steps share *)

\* Alerts of different keys are inserted in one order.
LEMMA BeforeIsTotal ==
  ASSUME NEW a \in Alert, NEW b \in Alert, KeyOf(a) # KeyOf(b)
  PROVE  Before(a, b) \/ Before(b, a)
<1>1. /\ a.site \in Nat /\ b.site \in Nat /\ a.type \in Types /\ b.type \in Types
      /\ a.ref \in Int \cup {None} /\ b.ref \in Int \cup {None}
  BY IngestAssumption DEF Alert
<1>2. a.site # b.site \/ a.type # b.type \/ a.ref # b.ref
  BY DEF KeyOf
<1>3. /\ Rank(a) \in Int /\ Rank(b) \in Int
      /\ a.type # b.type => Rank(a) # Rank(b)
  BY <1>1 DEF Rank, Types
<1>4. a.ref # b.ref => Earlier(a.ref, b.ref) \/ Earlier(b.ref, a.ref)
  BY <1>1, IngestAssumption DEF Earlier
<1> QED  BY <1>1, <1>2, <1>3, <1>4 DEF Before

\* The order is one of keys.
LEMMA BeforeIsOfKeys ==
  ASSUME NEW a, NEW b, NEW c, KeyOf(a) = KeyOf(c)
  PROVE  Before(a, b) <=> Before(c, b)
<1>1. a.site = c.site /\ a.type = c.type /\ a.ref = c.ref
  BY DEF KeyOf
<1> QED  BY <1>1 DEF Before, Rank

LEMMA KeysAreOfAlerts ==
  ASSUME NEW alerts
  PROVE  /\ \A k \in Keys(alerts) : \E a \in alerts : k = KeyOf(a)
         /\ \A a \in alerts : KeyOf(a) \in Keys(alerts)
BY DEF Keys

\* The rows an alert rests on stay.
LEMMA EvidenceStays ==
  ASSUME reading \subseteq reading', prediction \subseteq prediction',
         NEW a, a.type \in Types, Evidenced(a)
  PROVE  Evidenced(a)'
<1>1. CASE a.type = "threshold"  BY <1>1 DEF Evidenced, RowAt
<1>2. CASE a.type = "spike"  BY <1>2 DEF Evidenced, RowAt
<1>3. CASE a.type = "anomaly"
  <2>1. PICK r \in reading, p \in prediction :
          /\ RowAt(r, a) /\ RowAt(p, a)
          /\ r.kwh = a.value /\ p.kwh = a.threshold /\ p.kwh > 0
          /\ 10 * Gap(r.kwh, p.kwh) >= 3 * p.kwh
          /\ a.severity = Severity(10 * Gap(r.kwh, p.kwh), 3 * p.kwh)
    BY <1>3 DEF Evidenced
  <2>2. r \in reading' /\ p \in prediction'
    OBVIOUS
  <2> QED  BY <1>3, <2>1, <2>2 DEF Evidenced, RowAt
<1>4. CASE a.type = "outage"  BY <1>4 DEF Evidenced, RowAt
<1>5. CASE a.type = "sensor"  BY <1>5 DEF Evidenced, RowAt
<1> QED  BY <1>1, <1>2, <1>3, <1>4, <1>5 DEF Types

LEMMA SoundStays ==
  ASSUME reading \subseteq reading', prediction \subseteq prediction',
         NEW alerts, NEW types, Sound(alerts, types)
  PROVE  Sound(alerts, types)'
BY EvidenceStays DEF Sound, OneEach, Alert

\* A run goes on whatever is added to the tables, but for an alert it has inserted itself.
LEMMA WorkingStays ==
  ASSUME NEW r, Working(r),
         reading \subseteq reading', prediction \subseteq prediction', alert \subseteq alert',
         r.task = "detection" => Keys(r.done) \cap Keys(alert') = {}
  PROVE  Working(r)'
<1>1. r.task = "detection" => Sound(r.todo \cup r.done, Drawn(r.step))'
  <2> DEFINE drawn == r.todo \cup r.done
             types == Drawn(r.step)
  <2>1. r.task = "detection" => Sound(drawn, types)
    BY DEF Working
  <2> HIDE DEF drawn, types
  <2>2. r.task = "detection" => Sound(drawn, types)'
    BY <2>1, SoundStays
  <2> QED  BY <2>2 DEF drawn, types
<1> QED  BY <1>1 DEF Working

\* A run that starts holds nothing.
LEMMA StartedWorks ==
  ASSUME NEW task \in {"idle", "detection", "recommendations"}, NEW tries \in 0..Retries,
         NEW instant \in Hours, NEW sites \in SUBSET Sites
  PROVE  /\ Started(task, tries, instant, sites) \in Run
         /\ Working(Started(task, tries, instant, sites))
         /\ Working(Started(task, tries, instant, sites))'
         /\ Started(task, tries, instant, sites).done = {}
<1> DEFINE s == Started(task, tries, instant, sites)
<1>1. /\ s.task = task /\ s.todo = {} /\ s.done = {} /\ s.rows = {}
      /\ s.step = IF task = "detection" THEN "readings" ELSE "alerts"
  BY DEF Started
<1>2. s \in Run
  BY DEF Started, Run
<1> HIDE DEF s
<1>3. Sound({}, Drawn(s.step)) /\ Sound({}, Drawn(s.step))'
  BY DEF Sound, OneEach
<1>4. Keys(s.done) = {}
  BY <1>1 DEF Keys
<1>5. Working(s) /\ Working(s)'
  BY <1>1, <1>3, <1>4 DEF Working
<1> QED  BY <1>1, <1>2, <1>5 DEF s

LEMMA IdleWorks ==
  /\ Idle \in Run /\ Working(Idle) /\ Working(Idle)' /\ Idle.done = {}
<1>1. 0 \in 0..Retries /\ 0 \in Hours
  BY PipelineAssumption DEF Hours
<1> QED  BY <1>1, StartedWorks DEF Idle

-----------------------------------------------------------------------------
(* The steps *)

LEMMA InitInvariant ==
  Init => IInv
<1> SUFFICES ASSUME Init  PROVE IInv
  OBVIOUS
<1>1. TypeOK
  BY IdleWorks, PipelineAssumption DEF Init, TypeOK, Hours
<1>2. Tables
  BY FS_EmptySet DEF Init, Tables, Numbered
<1>3. \A x \in Runs : Working(run[x]) /\ run[x].done = {}
  BY IdleWorks DEF Init
<1>4. Exclusive
  BY <1>3 DEF Exclusive, Keys
<1>5. Sound(alert, Types) /\ AdviceWhole
  BY DEF Init, Sound, OneEach, AdviceWhole
<1> QED  BY <1>1, <1>2, <1>3, <1>4, <1>5 DEF IInv

\* Rows are added to the tables the rules read.
LEMMA TablesGrow ==
  ASSUME IInv, Tables', reading \subseteq reading', prediction \subseteq prediction',
         UNCHANGED <<now, alert, advice, failures, mix>>, run' = Outdated
  PROVE  IInv'
<1>1. /\ run' \in [Runs -> Run]
      /\ \A x \in Runs : /\ run'[x].task = run[x].task /\ run'[x].step = run[x].step
                         /\ run'[x].rows = run[x].rows
                         /\ run'[x].todo = run[x].todo /\ run'[x].done = run[x].done
  <2>1. ASSUME NEW x \in Runs
        PROVE  /\ run'[x] = [run[x] EXCEPT !.fresh = (run[x].task # "detection")]
               /\ run[x] \in Run
    BY DEF IInv, TypeOK, Outdated
  <2>2. ASSUME NEW r \in Run, NEW v \in BOOLEAN
        PROVE  /\ [r EXCEPT !.fresh = v] \in Run
               /\ [r EXCEPT !.fresh = v].task = r.task /\ [r EXCEPT !.fresh = v].step = r.step
               /\ [r EXCEPT !.fresh = v].rows = r.rows
               /\ [r EXCEPT !.fresh = v].todo = r.todo /\ [r EXCEPT !.fresh = v].done = r.done
    BY DEF Run
  <2>3. run' = [x \in Runs |-> run'[x]]
    BY DEF Outdated
  <2>4. ASSUME NEW x \in Runs
        PROVE  /\ run'[x] \in Run
               /\ run'[x].task = run[x].task /\ run'[x].step = run[x].step
               /\ run'[x].rows = run[x].rows
               /\ run'[x].todo = run[x].todo /\ run'[x].done = run[x].done
    <3>1. PICK r \in Run, v \in BOOLEAN :
            r = run[x] /\ v = (run[x].task # "detection") /\ run'[x] = [r EXCEPT !.fresh = v]
      BY <2>1
    <3>2. /\ [r EXCEPT !.fresh = v] \in Run
          /\ [r EXCEPT !.fresh = v].task = r.task /\ [r EXCEPT !.fresh = v].step = r.step
          /\ [r EXCEPT !.fresh = v].rows = r.rows
          /\ [r EXCEPT !.fresh = v].todo = r.todo /\ [r EXCEPT !.fresh = v].done = r.done
      BY <2>2
    <3> QED  BY <3>1, <3>2
  <2> QED  BY <2>3, <2>4
<1>2. TypeOK'
  BY <1>1 DEF IInv, TypeOK, Tables
<1>3. ASSUME NEW x \in Runs  PROVE Working(run[x])'
  <2>1. PICK r \in Run : r = run[x]
    BY DEF IInv, TypeOK
  <2>2. PICK s \in Run : s = run'[x]
    BY <1>1
  <2>3. Working(r)'
    BY <2>1, WorkingStays DEF IInv, Working
  <2>4. /\ s.task = r.task /\ s.step = r.step /\ s.rows = r.rows
        /\ s.todo = r.todo /\ s.done = r.done
    BY <1>1, <2>1, <2>2
  <2>5. Working(s)'
    BY <2>3, <2>4 DEF Working
  <2> QED  BY <2>2, <2>5
<1>4. Exclusive'
  BY <1>1 DEF IInv, Exclusive, Keys
<1>5. Sound(alert, Types)'
  <2>1. PICK alerts : alerts = alert
    OBVIOUS
  <2>2. Sound(alerts, Types)'
    BY <2>1, SoundStays DEF IInv
  <2> QED  BY <2>1, <2>2
<1>6. AdviceWhole'
  BY DEF IInv, AdviceWhole
<1> QED  BY <1>2, <1>3, <1>4, <1>5, <1>6 DEF IInv, Tables

LEMMA IngestInvariant ==
  IInv /\ Ingest => IInv'
<1> SUFFICES ASSUME IInv, Ingest  PROVE IInv'
  OBVIOUS
<1>1. PICK s \in Sites, h \in 0..now, report \in mix.reports :
        reading' = reading \cup {FromReport(report, Cardinality(reading), s, h)}
  BY DEF Ingest
<1>2. Cardinality(reading) \in Nat
  BY FS_CardinalityType DEF IInv, Tables, Numbered
<1>3. report \in Report /\ h \in Int
  BY PipelineAssumption DEF IInv, TypeOK, Hours
<1>4. PICK n \in Nat, r \in Reading : n = Cardinality(reading) /\ r = FromReport(report, n, s, h)
  BY <1>2, <1>3, ReportIsARow
<1>5. r.id = n
  BY <1>4 DEF FromReport
<1>6. Numbered(reading \cup {r})
  BY <1>4, <1>5, AddedIsNumbered DEF IInv, Tables
<1>7. reading' = reading \cup {r}
  BY <1>1, <1>4
<1>8. Numbered(reading')
  BY <1>6, <1>7
<1>9. Tables'
  BY <1>7, <1>8 DEF IInv, Tables, Ingest, Numbered
<1> QED  BY <1>7, <1>9, TablesGrow DEF Ingest

LEMMA ImportHistoricalInvariant ==
  IInv /\ ImportHistorical => IInv'
<1> SUFFICES ASSUME IInv, ImportHistorical  PROVE IInv'
  OBVIOUS
<1>1. PICK d \in 1..Len(mix.files) :
        reading' = Loaded(reading, EnsureDataset(mix.files, d), mix.files[d])
  BY DEF ImportHistorical
<1>2. mix.files \in Seq(File)
  BY PipelineAssumption DEF IInv, TypeOK
<1>3. PICK file \in File : file = mix.files[d]
  BY <1>2
<1>4. PICK dataset \in Nat : dataset = EnsureDataset(mix.files, d)
  BY <1>2, DatasetsAreNumbers
<1>5. reading' = Loaded(reading, dataset, file)
  BY <1>1, <1>3, <1>4
<1>6. Numbered(Loaded(reading, dataset, file))
  BY LoadedIsNumbered DEF IInv, Tables
<1>7. reading \subseteq reading' /\ reading' \subseteq Reading
  BY <1>5, LoadedAreRows DEF IInv, Tables
<1>8. Numbered(reading')
  BY <1>5, <1>6
<1>9. Tables'
  BY <1>7, <1>8 DEF IInv, Tables, ImportHistorical, Numbered
<1> QED  BY <1>7, <1>9, TablesGrow DEF ImportHistorical

LEMMA PredictInvariant ==
  IInv /\ Predict => IInv'
<1> SUFFICES ASSUME IInv, Predict  PROVE IInv'
  OBVIOUS
<1>1. PICK s \in Sites, h \in Hours, v \in Forecasts :
        prediction' = prediction \cup {[id |-> Cardinality(prediction), site |-> s, hour |-> h, kwh |-> v]}
  BY DEF Predict
<1>2. Cardinality(prediction) \in Nat
  BY FS_CardinalityType DEF IInv, Tables, Numbered
<1>3. PICK p \in Prediction :
        p = [id |-> Cardinality(prediction), site |-> s, hour |-> h, kwh |-> v]
  <2>1. h \in Int /\ v \in Nat
    BY PipelineAssumption DEF Hours
  <2> QED  BY <1>2, <2>1 DEF Prediction
<1>4. Numbered(prediction \cup {p})
  BY <1>3, AddedIsNumbered DEF IInv, Tables
<1>5. prediction' = prediction \cup {p}
  BY <1>1, <1>3
<1>6. Numbered(prediction')
  BY <1>4, <1>5
<1>7. Tables'
  BY <1>5, <1>6 DEF IInv, Tables, Predict, Numbered
<1> QED  BY <1>5, <1>7, TablesGrow DEF Predict

\* One run goes on, and nothing is committed.
LEMMA OneRunGoesOn ==
  ASSUME IInv, NEW x \in Runs, NEW s \in Run, run' = [run EXCEPT ![x] = s],
         UNCHANGED <<reading, prediction, alert, advice, mix>>,
         now' \in Hours, failures' \in Nat,
         Working(s),
         \A y \in Runs : y # x /\ run[y].task = s.task => Keys(s.done) \cap Keys(run[y].done) = {}
  PROVE  IInv'
<1>1. TypeOK'
  BY DEF IInv, TypeOK
<1>2. \A y \in Runs : run'[y] = IF y = x THEN s ELSE run[y]
  BY DEF IInv, TypeOK
<1>3. ASSUME NEW y \in Runs  PROVE Working(run[y])'
  <2>1. PICK r : r = run'[y]
    OBVIOUS
  <2>2. Working(r)
    BY <1>2, <2>1 DEF IInv
  <2>3. Working(r)'
    BY <2>2, WorkingStays DEF Working
  <2> QED  BY <2>1, <2>3
<1>4. Exclusive'
  BY <1>2 DEF IInv, Exclusive, Keys
<1>5. Sound(alert, Types)'
  <2>1. PICK alerts : alerts = alert
    OBVIOUS
  <2>2. Sound(alerts, Types)'
    BY <2>1, SoundStays DEF IInv
  <2> QED  BY <2>1, <2>2
<1>6. AdviceWhole' /\ Tables'
  BY DEF IInv, AdviceWhole, Tables, Numbered
<1> QED  BY <1>1, <1>3, <1>4, <1>5, <1>6 DEF IInv

LEMMA TickInvariant ==
  IInv /\ Tick => IInv'
<1> SUFFICES ASSUME IInv, Tick  PROVE IInv'
  OBVIOUS
<1>1. now' \in Hours
  BY PipelineAssumption DEF IInv, TypeOK, Tick, Hours
<1>2. "dag" \in Runs
  BY DEF Runs
<1>3. PICK s \in Run : s = run["dag"]
  BY <1>2 DEF IInv, TypeOK
<1>4. run' = [run EXCEPT !["dag"] = s]
  BY <1>2, <1>3 DEF IInv, TypeOK, Tick
<1>5. Working(s) /\ \A y \in Runs : y # "dag" /\ run[y].task = s.task
                                      => Keys(s.done) \cap Keys(run[y].done) = {}
  BY <1>2, <1>3 DEF IInv, Exclusive
<1>6. failures' \in Nat
  BY DEF IInv, TypeOK, Tick
<1> QED  BY <1>1, <1>2, <1>4, <1>5, <1>6, OneRunGoesOn DEF Tick

\* A run starts: it holds nothing.
LEMMA OneRunStarts ==
  ASSUME IInv, NEW x \in Runs,
         NEW task \in {"idle", "detection", "recommendations"}, NEW tries \in 0..Retries,
         NEW instant \in Hours, NEW sites \in SUBSET Sites,
         run' = [run EXCEPT ![x] = Started(task, tries, instant, sites)],
         UNCHANGED <<now, reading, prediction, alert, advice, mix>>, failures' \in Nat
  PROVE  IInv'
<1>1. PICK s \in Run : /\ s = Started(task, tries, instant, sites)
                       /\ Working(s) /\ s.done = {}
  BY StartedWorks
<1>2. now' \in Hours
  BY DEF IInv, TypeOK
<1>3. run' = [run EXCEPT ![x] = s]
  BY <1>1
<1>4. \A y \in Runs : Keys(s.done) \cap Keys(run[y].done) = {}
  BY <1>1 DEF Keys
<1> QED  BY <1>1, <1>2, <1>3, <1>4, OneRunGoesOn

LEMMA TriggerInvariant ==
  IInv /\ Trigger => IInv'
<1> SUFFICES ASSUME IInv, Trigger  PROVE IInv'
  OBVIOUS
<1>1. PICK n \in Hours : n = now
  BY DEF IInv, TypeOK
<1>2. 0 \in 0..Retries /\ "dag" \in Runs /\ failures' \in Nat
  BY PipelineAssumption DEF Runs, IInv, TypeOK, Trigger
<1>3. run' = [run EXCEPT !["dag"] = Started("detection", 0, n, Sites)]
  BY <1>1 DEF Trigger
<1> QED  BY <1>2, <1>3, OneRunStarts DEF Trigger

LEMMA StartByHandInvariant ==
  IInv /\ StartByHand => IInv'
<1> SUFFICES ASSUME IInv, StartByHand  PROVE IInv'
  OBVIOUS
<1>1. 0 \in 0..Retries /\ "hand" \in Runs /\ failures' \in Nat /\ 0 \in Hours
  BY PipelineAssumption DEF Runs, IInv, TypeOK, StartByHand, Hours
<1>2. PICK sites \in SUBSET Sites :
        \/ \E instant \in mix.hand :
             run' = [run EXCEPT !["hand"] = Started("detection", 0, instant, sites)]
        \/ run' = [run EXCEPT !["hand"] = Started("recommendations", 0, 0, sites)]
  BY DEF StartByHand
<1>3. mix.hand \subseteq Hours
  BY PipelineAssumption DEF IInv, TypeOK, Hours
<1>4. CASE run' = [run EXCEPT !["hand"] = Started("recommendations", 0, 0, sites)]
  BY <1>1, <1>4, OneRunStarts DEF StartByHand
<1>5. CASE \E instant \in mix.hand :
             run' = [run EXCEPT !["hand"] = Started("detection", 0, instant, sites)]
  <2>1. PICK instant \in Hours : run' = [run EXCEPT !["hand"] = Started("detection", 0, instant, sites)]
    BY <1>3, <1>5
  <2> QED  BY <1>1, <2>1, OneRunStarts DEF StartByHand
<1> QED  BY <1>2, <1>4, <1>5

\* Alerts of different types have different keys.
LEMMA SoundUnion ==
  ASSUME NEW A, NEW B, NEW T, NEW U, NEW V, Sound(A, T), Sound(B, U), T \cap U = {}, T \cup U = V
  PROVE  Sound(A \cup B, V)
<1>1. \A a \in A, b \in B : KeyOf(a) # KeyOf(b)
  BY DEF Sound, KeyOf
<1> QED  BY <1>1 DEF Sound, OneEach

\* A detection reads on: it has inserted nothing, and draws alerts of other types.
LEMMA DetectionReads ==
  ASSUME IInv, NEW x \in Runs, NEW r \in Run, r = run[x], r.task = "detection", r.step # "insert",
         NEW step \in {"predictions", "latest", "insert"},
         NEW rows \in SUBSET reading, NEW drawn, NEW types,
         Sound(drawn, types), types \cap Drawn(r.step) = {}, Drawn(r.step) \cup types = Drawn(step)
  PROVE  LET s == [r EXCEPT !.step = step, !.rows = rows, !.todo = r.todo \cup drawn]
         IN /\ s \in Run /\ Working(s)
            /\ \A y \in Runs : Keys(s.done) \cap Keys(run[y].done) = {}
<1>1. /\ Working(r) /\ r.done = {} /\ Sound(r.todo, Drawn(r.step))
  <2>1. Working(r) /\ r.done = {}
    BY DEF IInv, Working
  <2>2. r.todo \cup r.done = r.todo
    BY <2>1
  <2> QED  BY <2>1, <2>2 DEF Working
<1>2. Sound(r.todo \cup drawn, Drawn(step))
  BY <1>1, SoundUnion
<1> DEFINE s == [r EXCEPT !.step = step, !.rows = rows, !.todo = r.todo \cup drawn]
<1>3. /\ s.task = "detection" /\ s.step = step /\ s.rows = rows /\ s.todo = r.todo \cup drawn
      /\ s.done = {}
  BY <1>1 DEF Run
<1>4. s \in Run
  <2>1. rows \in SUBSET Reading /\ r.todo \cup drawn \in SUBSET Alert
    BY <1>2 DEF IInv, Tables, Sound
  <2> QED  BY <2>1 DEF Run
<1> HIDE DEF s
<1>5. s.todo \cup s.done = s.todo /\ Keys(s.done) = {}
  BY <1>3 DEF Keys
<1>6. Working(s)
  BY <1>2, <1>3, <1>5 DEF Working
<1> QED  BY <1>4, <1>5, <1>6 DEF s

LEMMA ReadReadingsInvariant ==
  ASSUME IInv, NEW x \in Runs, ReadReadings(x)
  PROVE  IInv'
<1>1. PICK r \in Run : r = run[x]
  BY DEF IInv, TypeOK
<1>2. r.task = "detection" /\ r.step = "readings" /\ r.todo = {}
  <2>1. r.task = "detection" /\ r.step = "readings" /\ Working(r)
    BY <1>1 DEF ReadReadings, At, IInv
  <2> QED  BY <2>1 DEF Working, Sound, Drawn
<1>3. PICK rows \in SUBSET reading : rows = Since(x, reading)
  BY DEF Since
<1>4. PICK drawn : drawn = Thresholds(rows) \cup Spikes(rows) \cup BadQualities(rows)
  OBVIOUS
<1>5. PICK types : types = {"threshold", "spike", "sensor"}
  OBVIOUS
<1>6. Sound(drawn, types)
  <2>1. Sound(Thresholds(rows), {"threshold"}) /\ Sound(Spikes(rows), {"spike"})
    BY ThresholdsAreSound, SpikesAreSound DEF IInv
  <2>2. Sound(Thresholds(rows) \cup Spikes(rows), {"threshold", "spike"})
    BY <2>1, SoundUnion
  <2>3. Sound(BadQualities(rows), {"sensor"})
    BY BadQualitiesAreSound DEF IInv
  <2> QED  BY <1>4, <1>5, <2>2, <2>3, SoundUnion
<1> DEFINE s == [r EXCEPT !.step = "predictions", !.rows = rows, !.todo = r.todo \cup drawn]
<1>7. types \cap Drawn(r.step) = {} /\ Drawn(r.step) \cup types = Drawn("predictions")
  BY <1>2, <1>5 DEF Drawn
<1>8. s \in Run /\ Working(s) /\ \A y \in Runs : Keys(s.done) \cap Keys(run[y].done) = {}
  BY <1>1, <1>2, <1>6, <1>7, DetectionReads
<1>9. run' = [run EXCEPT ![x] = s]
  <2>1. r.todo \cup drawn = Thresholds(rows) \cup Spikes(rows) \cup BadQualities(rows)
    BY <1>2, <1>4
  <2> QED  BY <1>1, <1>3, <2>1 DEF ReadReadings
<1>10. now' \in Hours /\ failures' \in Nat
  BY DEF IInv, TypeOK, ReadReadings
<1> HIDE DEF s
<1> QED  BY <1>8, <1>9, <1>10, OneRunGoesOn DEF ReadReadings

LEMMA ReadPredictionsInvariant ==
  ASSUME IInv, NEW x \in Runs, ReadPredictions(x)
  PROVE  IInv'
<1>1. PICK r \in Run : r = run[x]
  BY DEF IInv, TypeOK
<1>2. r.task = "detection" /\ r.step = "predictions" /\ r.rows \subseteq reading
  BY <1>1 DEF ReadPredictions, At, IInv, Working
<1>3. PICK preds \in SUBSET prediction : preds = Since(x, prediction)
  BY DEF Since
<1>4. PICK drawn : drawn = Anomalies(r.rows, preds)
  OBVIOUS
<1>5. PICK types : types = {"anomaly"}
  OBVIOUS
<1>11. PICK none \in SUBSET reading : none = {}
  OBVIOUS
<1>6. Sound(drawn, types)
  BY <1>2, <1>4, <1>5, AnomaliesAreSound DEF IInv
<1> DEFINE s == [r EXCEPT !.step = "latest", !.rows = none, !.todo = r.todo \cup drawn]
<1>7. types \cap Drawn(r.step) = {} /\ Drawn(r.step) \cup types = Drawn("latest")
  BY <1>2, <1>5 DEF Drawn
<1>8. s \in Run /\ Working(s) /\ \A y \in Runs : Keys(s.done) \cap Keys(run[y].done) = {}
  BY <1>1, <1>2, <1>6, <1>7, DetectionReads
<1>9. run' = [run EXCEPT ![x] = s]
  BY <1>1, <1>3, <1>4, <1>11 DEF ReadPredictions
<1>10. now' \in Hours /\ failures' \in Nat
  BY DEF IInv, TypeOK, ReadPredictions
<1> HIDE DEF s
<1> QED  BY <1>8, <1>9, <1>10, OneRunGoesOn DEF ReadPredictions

LEMMA ReadLatestInvariant ==
  ASSUME IInv, NEW x \in Runs, ReadLatest(x)
  PROVE  IInv'
<1>1. PICK r \in Run : r = run[x]
  BY DEF IInv, TypeOK
<1>2. r.task = "detection" /\ r.step = "latest" /\ r.rows \subseteq reading /\ r.instant \in Int
  <2>1. r.task = "detection" /\ r.step = "latest" /\ r.rows \subseteq reading
    BY <1>1 DEF ReadLatest, At, IInv, Working
  <2>2. r.instant \in Hours
    BY DEF Run
  <2> QED  BY <2>1, <2>2 DEF Hours
<1>3. PICK drawn : drawn = {a \in Outages(reading, r.instant) : a.site \in r.sites}
  OBVIOUS
<1>4. PICK types : types = {"outage"}
  OBVIOUS
<1>5. Sound(drawn, types)
  <2>1. Sound(Outages(reading, r.instant), types)
    BY <1>2, <1>4, OutagesAreSound DEF IInv
  <2>2. drawn \subseteq Outages(reading, r.instant)
    BY <1>3
  <2> QED  BY <2>1, <2>2 DEF Sound, OneEach
<1> DEFINE s == [r EXCEPT !.step = "insert", !.rows = r.rows, !.todo = r.todo \cup drawn]
<1>6. types \cap Drawn(r.step) = {} /\ Drawn(r.step) \cup types = Drawn("insert")
  BY <1>2, <1>4 DEF Drawn, Types
<1>7. s \in Run /\ Working(s) /\ \A y \in Runs : Keys(s.done) \cap Keys(run[y].done) = {}
  BY <1>1, <1>2, <1>5, <1>6, DetectionReads
<1>8. run' = [run EXCEPT ![x] = s]
  <2>1. s = [r EXCEPT !.step = "insert", !.todo = r.todo \cup drawn]
    BY DEF Run
  <2> QED  BY <1>1, <1>3, <2>1 DEF ReadLatest
<1>9. now' \in Hours /\ failures' \in Nat
  BY DEF IInv, TypeOK, ReadLatest
<1> HIDE DEF s
<1> QED  BY <1>7, <1>8, <1>9, OneRunGoesOn DEF ReadLatest

LEMMA ReadAlertsInvariant ==
  ASSUME IInv, NEW x \in Runs, ReadAlerts(x)
  PROVE  IInv'
<1>1. PICK r \in Run : r = run[x]
  BY DEF IInv, TypeOK
<1>2. r.task = "recommendations" /\ r.step = "alerts" /\ r.done = {} /\ r.rows \subseteq reading
  BY <1>1 DEF ReadAlerts, At, IInv, Working
<1>3. PICK rows \in SUBSET alert : rows = {a \in alert : a.site \in run[x].sites}
  OBVIOUS
<1> DEFINE s == [r EXCEPT !.step = "insert", !.todo = rows]
<1>4. /\ s.task = "recommendations" /\ s.step = "insert" /\ s.todo = rows /\ s.done = {}
      /\ s.rows = r.rows
  BY <1>2 DEF Run
<1>5. s \in Run
  <2>1. rows \in SUBSET Alert
    BY DEF IInv, TypeOK
  <2> QED  BY <2>1 DEF Run
<1>6. run' = [run EXCEPT ![x] = s]
  BY <1>1, <1>3 DEF ReadAlerts
<1> HIDE DEF s
<1>7. Working(s)
  BY <1>2, <1>4 DEF Working
<1>8. now' \in Hours /\ failures' \in Nat
  BY DEF IInv, TypeOK, ReadAlerts
<1>9. \A y \in Runs : Keys(s.done) \cap Keys(run[y].done) = {}
  BY <1>4 DEF Keys
<1> QED  BY <1>5, <1>6, <1>7, <1>8, <1>9, OneRunGoesOn DEF ReadAlerts

\* What a run holds is of one key each, and stands in Alert.
LEMMA HeldIsOneEach ==
  ASSUME IInv, NEW x \in Runs, run[x].step = "insert"
  PROVE  /\ run[x].task \in {"detection", "recommendations"}
         /\ OneEach(run[x].todo \cup run[x].done)
         /\ run[x].todo \cup run[x].done \subseteq Alert
<1>1. PICK r \in Run : r = run[x]
  BY DEF IInv, TypeOK
<1>2. Working(r) /\ r.task \in {"detection", "recommendations"}
  BY <1>1 DEF IInv, Working, Run
<1>3. CASE r.task = "detection"
  BY <1>1, <1>2, <1>3 DEF Working, Sound
<1>4. CASE r.task = "recommendations"
  BY <1>1, <1>2, <1>4 DEF Working, IInv, Sound, OneEach
<1> QED  BY <1>1, <1>2, <1>3, <1>4

LEMMA InsertInvariant ==
  ASSUME IInv, NEW x \in Runs, Insert(x)
  PROVE  IInv'
<1>1. PICK r \in Run : r = run[x]
  BY DEF IInv, TypeOK
<1>2. PICK a \in NextOf(r.todo) :
        /\ \A y \in Runs : ~WaitsFor(x, y, a)
        /\ run' = [run EXCEPT ![x].todo = @ \ {a}, ![x].done = IF Present(x, a) THEN @ ELSE @ \cup {a}]
  BY <1>1 DEF Insert
<1>3. /\ r.step = "insert" /\ Working(r) /\ r.task \in {"detection", "recommendations"}
      /\ OneEach(r.todo \cup r.done) /\ r.todo \cup r.done \subseteq Alert
  BY <1>1, HeldIsOneEach DEF Insert, IInv
<1>4. PICK more \in SUBSET {a} : more = IF Present(x, a) THEN {} ELSE {a}
  OBVIOUS
<1> DEFINE s == [r EXCEPT !.todo = r.todo \ {a}, !.done = r.done \cup more]
<1>5. /\ s.task = r.task /\ s.step = "insert" /\ s.rows = r.rows
      /\ s.todo = r.todo \ {a} /\ s.done = r.done \cup more
  BY <1>3 DEF Run
<1>6. a \in r.todo /\ \A b \in r.todo : ~Before(b, a)
  BY <1>2 DEF NextOf
<1>7. s \in Run
  <2>1. r.todo \ {a} \in SUBSET Alert /\ r.done \cup more \in SUBSET Alert
    BY <1>3, <1>6
  <2> QED  BY <2>1 DEF Run
<1>8. run' = [run EXCEPT ![x] = s]
  <2>1. r.done \cup more = IF Present(x, a) THEN r.done ELSE r.done \cup {a}
    BY <1>4
  <2> QED  BY <1>1, <1>2, <2>1
<1> HIDE DEF s
<1>9. \A b \in s.done, c \in s.todo : Before(b, c)
  <2> SUFFICES ASSUME NEW b \in s.done, NEW c \in s.todo  PROVE Before(b, c)
    OBVIOUS
  <2>1. CASE b \in r.done
    BY <1>3, <1>5, <2>1 DEF Working
  <2>2. CASE b = a
    <3>1. c \in r.todo /\ c # a /\ c \in Alert /\ a \in Alert
      BY <1>3, <1>5, <1>6
    <3>2. KeyOf(a) # KeyOf(c)
      BY <1>3, <1>6, <3>1 DEF OneEach
    <3> QED  BY <1>6, <2>2, <3>1, <3>2, BeforeIsTotal
  <2> QED  BY <1>4, <1>5, <2>1, <2>2
<1>10. s.todo \cup s.done \subseteq r.todo \cup r.done
  BY <1>5, <1>6
<1>11. s.task = "detection" => Keys(s.done) \cap Keys(alert) = {}
  BY <1>1, <1>3, <1>4, <1>5 DEF Working, Present, Keys
<1>12. Working(s)
  <2>1. s.task = "detection" => Sound(s.todo \cup s.done, Drawn(s.step))
    BY <1>3, <1>5, <1>10 DEF Working, Sound, OneEach
  <2> QED  BY <1>3, <1>5, <1>9, <1>10, <1>11, <2>1 DEF Working
<1>13. \A y \in Runs : y # x /\ run[y].task = s.task => Keys(s.done) \cap Keys(run[y].done) = {}
  <2> SUFFICES ASSUME NEW y \in Runs, y # x, run[y].task = s.task
               PROVE  Keys(s.done) \cap Keys(run[y].done) = {}
    OBVIOUS
  <2>1. KeyOf(a) \notin Keys(run[y].done)
    BY <1>1, <1>2, <1>5 DEF WaitsFor
  <2>2. Keys(r.done) \cap Keys(run[y].done) = {}
    BY <1>1, <1>5 DEF IInv, Exclusive
  <2> QED  BY <1>4, <1>5, <2>1, <2>2 DEF Keys
<1>14. now' \in Hours /\ failures' \in Nat
  BY DEF IInv, TypeOK, Insert
<1> QED  BY <1>7, <1>8, <1>12, <1>13, <1>14, OneRunGoesOn DEF Insert

\* A run that has committed lets go of everything.
LEMMA CommittedRunEnds ==
  ASSUME IInv, NEW x \in Runs, NEW s \in Run, run' = [run EXCEPT ![x] = s],
         Working(s)', s.done = {}, Commit(x),
         UNCHANGED <<now, reading, prediction, mix>>, failures' \in Nat
  PROVE  IInv'
<1>1. PICK r \in Run : r = run[x]
  BY DEF IInv, TypeOK
<1>2. /\ Working(r) /\ r.step = "insert" /\ r.todo = {}
      /\ r.task \in {"detection", "recommendations"}
      /\ OneEach(r.done) /\ r.done \subseteq Alert
  <2>1. Working(r) /\ r.step = "insert" /\ r.todo = {}
    BY <1>1 DEF IInv, Commit
  <2>2. r.todo \cup r.done = r.done
    BY <2>1
  <2> QED  BY <1>1, <2>1, <2>2, HeldIsOneEach
<1>3. \A y \in Runs : run'[y] = IF y = x THEN s ELSE run[y]
  BY DEF IInv, TypeOK
<1>4. Exclusive'
  BY <1>3 DEF IInv, Exclusive, Keys
<1>5. Tables'
  BY DEF IInv, Tables, Numbered
<1>6. CASE r.task = "detection"
  <2>1. alert' = alert \cup r.done /\ advice' = advice
    BY <1>1, <1>6 DEF Commit
  <2>2. Sound(r.done, Types) /\ Keys(r.done) \cap Keys(alert) = {}
    <3>1. r.todo \cup r.done = r.done
      BY <1>2
    <3> QED  BY <1>2, <1>6, <3>1 DEF Working, Drawn
  <2>3. Sound(alert, Types)'
    <3>1. PICK alerts : alerts = alert \cup r.done
      OBVIOUS
    <3>2. Sound(alerts, Types)
      BY <2>2, <3>1 DEF IInv, Sound, OneEach, Keys
    <3>3. Sound(alerts, Types)'
      BY <3>2, SoundStays
    <3> QED  BY <2>1, <3>1, <3>3
  <2>4. TypeOK'
    BY <1>2, <2>1 DEF IInv, TypeOK
  <2>5. ASSUME NEW y \in Runs  PROVE Working(run[y])'
    <3>1. CASE y = x  BY <1>3, <3>1
    <3>2. CASE y # x
      <4>1. PICK q : q = run[y]
        OBVIOUS
      <4>2. q.task = "detection" => Keys(q.done) \cap Keys(alert') = {}
        <5> SUFFICES ASSUME q.task = "detection"  PROVE Keys(q.done) \cap Keys(alert') = {}
          OBVIOUS
        <5>1. Keys(q.done) \cap Keys(alert) = {}
          BY <4>1 DEF IInv, Working
        <5>2. Keys(q.done) \cap Keys(r.done) = {}
          BY <1>1, <1>6, <3>2, <4>1 DEF IInv, Exclusive
        <5> QED  BY <2>1, <5>1, <5>2 DEF Keys
      <4>3. Working(q)'
        BY <2>1, <4>1, <4>2, WorkingStays DEF IInv
      <4> QED  BY <1>3, <3>2, <4>1, <4>3
    <3> QED  BY <3>1, <3>2
  <2>6. AdviceWhole'
    <3>1. \A d \in advice : \E a \in alert' : d \in Advised({a})
      BY <2>1 DEF IInv, AdviceWhole
    <3>2. ASSUME NEW a \in alert'
          PROVE  Advised({a}) \subseteq advice \/ \A d \in advice : d.alert # KeyOf(a)
      <4>1. CASE a \in alert  BY <4>1 DEF IInv, AdviceWhole
      <4>2. CASE a \in r.done
        <5>1. \A d \in advice : d.alert \in Keys(alert)
          BY DEF IInv, AdviceWhole, Advised, Keys
        <5>2. KeyOf(a) \notin Keys(alert)
          BY <2>2, <4>2 DEF Keys
        <5> QED  BY <5>1, <5>2
      <4> QED  BY <2>1, <4>1, <4>2
    <3> QED  BY <2>1, <3>1, <3>2 DEF AdviceWhole, Advised
  <2> QED  BY <1>4, <1>5, <2>3, <2>4, <2>5, <2>6 DEF IInv
<1>7. CASE r.task = "recommendations"
  <2>1. alert' = alert /\ advice' = advice \cup Advised(r.done) /\ r.done \subseteq alert
    BY <1>1, <1>2, <1>7 DEF Commit, Working
  <2>2. Advised(r.done) \subseteq [alert : AlertKey, rule : Rules]
    <3>1. \A a \in Alert : KeyOf(a) \in AlertKey /\ RulesOf(a) \subseteq Rules
      BY DEF Alert, KeyOf, AlertKey, RulesOf, Rules, OfType, Types
    <3> QED  BY <1>2, <3>1 DEF Advised
  <2>3. TypeOK'
    BY <2>1, <2>2 DEF IInv, TypeOK
  <2>4. Sound(alert, Types)'
    <3>1. PICK alerts : alerts = alert
      OBVIOUS
    <3>2. Sound(alerts, Types)'
      BY <3>1, SoundStays DEF IInv
    <3> QED  BY <2>1, <3>1, <3>2
  <2>5. ASSUME NEW y \in Runs  PROVE Working(run[y])'
    <3>1. CASE y = x  BY <1>3, <3>1
    <3>2. CASE y # x
      <4>1. PICK q : q = run[y]
        OBVIOUS
      <4>2. Working(q)'
        BY <2>1, <4>1, WorkingStays DEF IInv, Working
      <4> QED  BY <1>3, <3>2, <4>1, <4>2
    <3> QED  BY <3>1, <3>2
  <2>6. AdviceWhole'
    <3>1. \A d \in Advised(r.done) : \E a \in r.done : d \in Advised({a}) /\ d.alert = KeyOf(a)
      BY DEF Advised
    <3>2. \A d \in advice' : \E a \in alert' : d \in Advised({a})
      BY <2>1, <3>1 DEF IInv, AdviceWhole
    <3>3. ASSUME NEW a \in alert
          PROVE  Advised({a}) \subseteq advice' \/ \A d \in advice' : d.alert # KeyOf(a)
      <4>1. CASE a \in r.done
        <5>1. Advised({a}) \subseteq Advised(r.done)
          BY <4>1 DEF Advised
        <5> QED  BY <2>1, <5>1
      <4>2. CASE a \notin r.done
        <5>1. \A b \in r.done : KeyOf(b) # KeyOf(a)
          BY <2>1, <4>2 DEF IInv, Sound, OneEach
        <5>2. \A d \in Advised(r.done) : d.alert # KeyOf(a)
          BY <3>1, <5>1
        <5>3. Advised({a}) \subseteq advice \/ \A d \in advice : d.alert # KeyOf(a)
          BY DEF IInv, AdviceWhole
        <5> QED  BY <2>1, <5>2, <5>3
      <4> QED  BY <4>1, <4>2
    <3> QED  BY <2>1, <3>2, <3>3 DEF AdviceWhole, Advised
  <2> QED  BY <1>4, <1>5, <2>3, <2>4, <2>5, <2>6 DEF IInv
<1> QED  BY <1>2, <1>6, <1>7

LEMMA SucceedInvariant ==
  ASSUME IInv, NEW x \in Runs, Succeed(x)
  PROVE  IInv'
<1>1. 0 \in 0..Retries /\ 0 \in Hours
  BY PipelineAssumption DEF Hours
<1>2. PICK s \in Run : /\ s = IF x = "dag" /\ run[x].task = "detection"
                             THEN Started("recommendations", 0, 0, Sites) ELSE Idle
                       /\ Working(s)' /\ s.done = {}
  BY <1>1, StartedWorks, IdleWorks
<1>3. run' = [run EXCEPT ![x] = s] /\ failures' \in Nat
  BY <1>2 DEF Succeed, IInv, TypeOK
<1> QED  BY <1>2, <1>3, CommittedRunEnds DEF Succeed

\* The attempt that follows a failed one holds nothing either.
LEMMA TryAgainStarts ==
  ASSUME IInv, NEW x \in Runs, TryAgain(x), run[x].task # "idle"
  PROVE  \E s \in Run : /\ run' = [run EXCEPT ![x] = s]
                        /\ Working(s) /\ Working(s)' /\ s.done = {}
<1>1. 0 \in Hours /\ now \in Hours /\ run[x] \in Run
  BY PipelineAssumption DEF Hours, IInv, TypeOK
<1>2. CASE x = "dag" /\ run[x].tries < Retries
  <2>1. PICK tries \in 0..Retries : tries = run[x].tries + 1
    BY <1>1, <1>2, PipelineAssumption DEF Run
  <2>2. PICK instant \in Hours : instant = IF run[x].task = "detection" THEN now ELSE 0
    BY <1>1
  <2>3. PICK task \in {"detection", "recommendations"} : task = run[x].task
    BY <1>1 DEF Run
  <2>4. PICK s \in Run : s = Started(task, tries, instant, Sites) /\ Working(s) /\ Working(s)' /\ s.done = {}
    BY StartedWorks
  <2>5. run' = [run EXCEPT ![x] = s]
    BY <1>2, <2>1, <2>2, <2>3, <2>4 DEF TryAgain
  <2> QED  BY <2>4, <2>5
<1>3. CASE ~(x = "dag" /\ run[x].tries < Retries)
  <2>1. run' = [run EXCEPT ![x] = Idle]
    BY <1>3 DEF TryAgain
  <2> QED  BY <2>1, IdleWorks
<1> QED  BY <1>2, <1>3

LEMMA FailInvariant ==
  ASSUME IInv, NEW x \in Runs, Fail(x) \/ FailCommitted(x)
  PROVE  IInv'
<1>1. run[x].task # "idle" /\ TryAgain(x)
  BY HeldIsOneEach DEF Fail, FailCommitted, Commit
<1>2. PICK s \in Run : run' = [run EXCEPT ![x] = s] /\ Working(s) /\ Working(s)' /\ s.done = {}
  BY <1>1, TryAgainStarts
<1>3. UNCHANGED <<now, reading, prediction, mix>> /\ failures' \in Nat /\ now' \in Hours
  BY <1>1 DEF TryAgain, IInv, TypeOK
<1>4. CASE Fail(x)
  <2>1. \A y \in Runs : Keys(s.done) \cap Keys(run[y].done) = {}
    BY <1>2 DEF Keys
  <2> QED  BY <1>2, <1>3, <1>4, <2>1, OneRunGoesOn DEF Fail
<1>5. CASE FailCommitted(x)
  BY <1>2, <1>3, <1>5, CommittedRunEnds DEF FailCommitted
<1> QED  BY <1>4, <1>5

LEMMA StutterInvariant ==
  IInv /\ UNCHANGED vars => IInv'
<1> SUFFICES ASSUME IInv, UNCHANGED vars  PROVE IInv'
  OBVIOUS
<1>1. "dag" \in Runs
  BY DEF Runs
<1>2. PICK s \in Run : s = run["dag"]
  BY <1>1 DEF IInv, TypeOK
<1>3. run' = [run EXCEPT !["dag"] = s]
  BY <1>1, <1>2 DEF IInv, TypeOK, vars
<1>4. Working(s) /\ \A y \in Runs : y # "dag" /\ run[y].task = s.task
                                      => Keys(s.done) \cap Keys(run[y].done) = {}
  BY <1>1, <1>2 DEF IInv, Exclusive
<1>5. failures' \in Nat /\ now' \in Hours /\ UNCHANGED <<reading, prediction, alert, advice, mix>>
  BY DEF IInv, TypeOK, vars
<1> QED  BY <1>1, <1>3, <1>4, <1>5, OneRunGoesOn

LEMMA InvariantHolds ==
  Spec => []IInv
<1>1. Init => IInv
  BY InitInvariant
<1>2. IInv /\ [Next]_vars => IInv'
  <2> SUFFICES ASSUME IInv, [Next]_vars  PROVE IInv'
    OBVIOUS
  <2>1. CASE Ingest  BY <2>1, IngestInvariant
  <2>2. CASE ImportHistorical  BY <2>2, ImportHistoricalInvariant
  <2>3. CASE Predict  BY <2>3, PredictInvariant
  <2>4. CASE Tick  BY <2>4, TickInvariant
  <2>5. CASE Trigger  BY <2>5, TriggerInvariant
  <2>6. CASE StartByHand  BY <2>6, StartByHandInvariant
  <2>7. CASE \E x \in Runs : Step(x)
    BY <2>7, ReadReadingsInvariant, ReadPredictionsInvariant, ReadLatestInvariant,
       ReadAlertsInvariant, InsertInvariant, SucceedInvariant DEF Step
  <2>8. CASE \E x \in Runs : Fail(x) \/ FailCommitted(x)
    BY <2>8, FailInvariant
  <2>9. CASE UNCHANGED vars  BY <2>9, StutterInvariant
  <2> QED  BY <2>1, <2>2, <2>3, <2>4, <2>5, <2>6, <2>7, <2>8, <2>9 DEF Next
<1> QED  BY <1>1, <1>2, PTL DEF Spec

-----------------------------------------------------------------------------
(* A detection that nothing has overtaken misses nothing *)

LEMMA LeastNatural ==
  ASSUME NEW T, T \subseteq Nat, T # {}
  PROVE  \E n \in T : \A m \in T : n <= m
<1> DEFINE R == OpToRel(<, Nat)
<1>1. IsWellFoundedOn(R, Nat)
  BY NatLessThanWellFounded
<1>2. \A m, n \in Nat : m < n => <<m, n>> \in R
  BY DEF OpToRel
<1> HIDE DEF R
<1>3. \E n \in T : \A m \in T : ~(<<m, n>> \in R)
  BY <1>1, WFMin
<1>4. PICK n \in T : \A m \in T : ~(<<m, n>> \in R)
  BY <1>3
<1>5. ASSUME NEW m \in T  PROVE n <= m
  <2>1. ~(m < n)
    BY <1>2, <1>4
  <2> QED  BY <2>1
<1> QED  BY <1>5

\* Some rows have a first one.
LEMMA FirstExists ==
  ASSUME Tables, NEW rows \in SUBSET reading, rows # {}
  PROVE  \E r \in rows : \A q \in rows : r.id <= q.id
<1> DEFINE T == {r.id : r \in rows}
<1>1. T \subseteq Nat /\ T # {}
  BY DEF Tables, Reading
<1>2. PICK n \in T : \A m \in T : n <= m
  <2> HIDE DEF T
  <2> QED  BY <1>1, LeastNatural
<1>3. PICK r \in rows : n = r.id
  BY <1>2
<1>4. \A q \in rows : r.id <= q.id
  BY <1>2, <1>3
<1> QED  BY <1>4

LEMMA SlotHasAFirst ==
  ASSUME Tables, NEW rows \in SUBSET reading, NEW r \in rows
  PROVE  \E q \in FirstOfSlot(rows) : SameSlot(q, r)
<1>1. PICK slot \in SUBSET reading : slot = {q \in rows : SameSlot(q, r)}
  OBVIOUS
<1>2. slot # {}
  BY <1>1 DEF SameSlot
<1>3. PICK q \in slot : \A p \in slot : q.id <= p.id
  BY <1>2, FirstExists
<1>4. q \in FirstOfSlot(rows) /\ SameSlot(q, r)
  BY <1>1, <1>3 DEF FirstOfSlot, SameSlot
<1> QED  BY <1>4

\* A site that has readings has a last one: the one that the fewest rows come after.
LEMMA LastExists ==
  ASSUME Tables, NEW s, \E r \in reading : r.site = s
  PROVE  \E r \in reading : r.site = s /\ IsLast(reading, r)
<1> DEFINE rows == {r \in reading : r.site = s}
           After(r) == {q \in rows : ~(q.hour < r.hour \/ (q.hour = r.hour /\ q.id <= r.id))}
           T == {Cardinality(After(r)) : r \in rows}
<1>1. IsFiniteSet(rows) /\ \A r \in rows : r.id \in Nat /\ r.hour \in Int
  <2>1. rows \in SUBSET reading
    OBVIOUS
  <2>2. \A r \in rows : r.id \in Nat /\ r.hour \in Int
    BY DEF Tables, Reading
  <2> HIDE DEF rows
  <2> QED  BY <2>1, <2>2, FS_Subset DEF Tables, Numbered
<1>2. \A r \in rows : IsFiniteSet(After(r)) /\ Cardinality(After(r)) \in Nat
  <2> SUFFICES ASSUME NEW r \in rows
               PROVE  IsFiniteSet(After(r)) /\ Cardinality(After(r)) \in Nat
    OBVIOUS
  <2>1. After(r) \in SUBSET rows
    OBVIOUS
  <2> HIDE DEF After
  <2> QED  BY <1>1, <2>1, FS_Subset, FS_CardinalityType
<1>3. T \subseteq Nat /\ T # {}
  <2>1. rows # {}
    OBVIOUS
  <2> HIDE DEF rows, After
  <2> QED  BY <1>2, <2>1
<1>4. PICK n \in T : \A m \in T : n <= m
  <2> HIDE DEF T
  <2> QED  BY <1>3, LeastNatural
<1>5. PICK r \in rows : n = Cardinality(After(r))
  BY <1>4
<1>6. ASSUME NEW q \in After(r)  PROVE FALSE
  <2>1. q \in rows
    OBVIOUS
  <2>2. After(q) \in SUBSET After(r) /\ q \notin After(q)
    BY <1>1, <2>1
  <2>3. n <= Cardinality(After(q))
    <3>1. Cardinality(After(q)) \in T
      BY <2>1
    <3> HIDE DEF T, After
    <3> QED  BY <1>4, <3>1
  <2> HIDE DEF After
  <2>4. IsFiniteSet(After(r)) /\ Cardinality(After(r)) \in Nat /\ Cardinality(After(q)) \in Nat
    BY <1>2, <2>1
  <2>5. /\ Cardinality(After(q)) <= Cardinality(After(r))
        /\ Cardinality(After(r)) = Cardinality(After(q)) => After(r) = After(q)
    BY <2>2, <2>4, FS_Subset
  <2> QED  BY <1>5, <1>6, <2>2, <2>3, <2>4, <2>5
<1>7. IsLast(reading, r)
  BY <1>6 DEF IsLast
<1> QED  BY <1>7

\* What the rules draw from the window of a run, were it to read the tables now.
Window(r, rows) == {q \in rows : q.site \in r.sites /\ q.hour + LookBack >= r.instant}
FromReadings(r) ==
  Thresholds(Window(r, reading)) \cup Spikes(Window(r, reading)) \cup BadQualities(Window(r, reading))
FromPredictions(r) == Anomalies(Window(r, reading), Window(r, prediction))
FromLatest(r) == {a \in Outages(reading, r.instant) : a.site \in r.sites}

Holds(r, alerts) == Keys(alerts) \subseteq Keys(r.todo \cup r.done \cup alert)

\* A detection that nothing has overtaken holds an alert for all that it has read so far.
Thorough(r) ==
  r.task = "detection" /\ r.fresh =>
    /\ r.step = "predictions" => r.rows = Window(r, reading)
    /\ r.step \in {"predictions", "latest", "insert"} => Holds(r, FromReadings(r))
    /\ r.step \in {"latest", "insert"} => Holds(r, FromPredictions(r))
    /\ r.step = "insert" => Holds(r, FromLatest(r))

\* A measure out of its bounds has spoilt the quality of its row.
RefusedShow == \A r \in reading : r.refused => r.quality \in {"degraded", "critical"}

DInv == RefusedShow /\ \A x \in Runs : Thorough(run[x])

\* What is held for a run only grows while nothing is written to the tables it reads.
LEMMA ThoroughStays ==
  ASSUME NEW r, Thorough(r), UNCHANGED <<reading, prediction>>, alert \subseteq alert'
  PROVE  Thorough(r)'
<1>1. /\ FromReadings(r)' = FromReadings(r) /\ FromPredictions(r)' = FromPredictions(r)
      /\ FromLatest(r)' = FromLatest(r) /\ Window(r, reading)' = Window(r, reading)
  BY DEF FromReadings, FromPredictions, FromLatest, Window
<1>2. ASSUME NEW A, Holds(r, A)  PROVE Keys(A) \subseteq Keys(r.todo \cup r.done \cup alert')
  BY <1>2 DEF Holds, Keys
<1>3. /\ Holds(r, FromReadings(r)) => Holds(r, FromReadings(r))'
      /\ Holds(r, FromPredictions(r)) => Holds(r, FromPredictions(r))'
      /\ Holds(r, FromLatest(r)) => Holds(r, FromLatest(r))'
  <2> HIDE DEF FromReadings, FromPredictions, FromLatest
  <2>1. PICK A, B, C : A = FromReadings(r) /\ B = FromPredictions(r) /\ C = FromLatest(r)
    OBVIOUS
  <2>2. Keys(A)' = Keys(A) /\ Keys(B)' = Keys(B) /\ Keys(C)' = Keys(C)
    BY DEF Keys
  <2> QED  BY <1>1, <1>2, <2>1, <2>2 DEF Holds, Keys
<1> QED  BY <1>1, <1>3 DEF Thorough

\* One run goes on, and nothing is written to the tables it reads.
LEMMA OneRunIsThorough ==
  ASSUME IInv, DInv, NEW x \in Runs, NEW s, run' = [run EXCEPT ![x] = s],
         UNCHANGED <<reading, prediction>>, alert \subseteq alert', Thorough(s)
  PROVE  DInv'
<1>1. RefusedShow'
  BY DEF DInv, RefusedShow
<1>2. \A y \in Runs : run'[y] = IF y = x THEN s ELSE run[y]
  BY DEF IInv, TypeOK
<1>3. ASSUME NEW y \in Runs  PROVE Thorough(run[y])'
  <2>1. PICK r : r = run'[y]
    OBVIOUS
  <2>2. Thorough(r)
    BY <1>2, <2>1 DEF DInv
  <2>3. Thorough(r)'
    BY <2>2, ThoroughStays
  <2> QED  BY <2>1, <2>3
<1> QED  BY <1>1, <1>3 DEF DInv

\* A run that has read nothing yet.
LEMMA StartedIsThorough ==
  ASSUME NEW task, NEW tries, NEW instant, NEW sites
  PROVE  Thorough(Started(task, tries, instant, sites))
<1>1. PICK s : s = Started(task, tries, instant, sites)
  OBVIOUS
<1>2. s.task = "detection" => s.step = "readings"
  BY <1>1 DEF Started
<1> QED  BY <1>1, <1>2 DEF Thorough

\* Whatever is written to the tables, the detections under way are overtaken.
LEMMA OutdatedIsThorough ==
  ASSUME IInv, run' = Outdated, RefusedShow'
  PROVE  DInv'
<1>1. ASSUME NEW x \in Runs  PROVE Thorough(run[x])'
  <2>1. run'[x] = [run[x] EXCEPT !.fresh = (run[x].task # "detection")] /\ run[x] \in Run
    BY DEF IInv, TypeOK, Outdated
  <2>2. PICK r \in Run : r = run[x]
    BY <2>1
  <2>3. PICK s : s = [r EXCEPT !.fresh = (r.task # "detection")]
    OBVIOUS
  <2>4. s.task = r.task /\ s.fresh = (r.task # "detection")
    BY <2>3 DEF Run
  <2>5. s = run'[x]
    BY <2>1, <2>2, <2>3
  <2> QED  BY <2>4, <2>5 DEF Thorough
<1> QED  BY <1>1 DEF DInv

LEMMA InitIsThorough ==
  Init => DInv
<1> SUFFICES ASSUME Init  PROVE DInv
  OBVIOUS
<1>1. \A x \in Runs : run[x].task # "detection"
  BY DEF Init, Idle, Started
<1> QED  BY <1>1 DEF DInv, RefusedShow, Thorough, Init

LEMMA IngestIsThorough ==
  IInv /\ DInv /\ Ingest => DInv'
<1> SUFFICES ASSUME IInv, DInv, Ingest  PROVE DInv'
  OBVIOUS
<1>1. PICK s \in Sites, h \in 0..now, report \in mix.reports :
        reading' = reading \cup {FromReport(report, Cardinality(reading), s, h)}
  BY DEF Ingest
<1>2. PICK r : r = FromReport(report, Cardinality(reading), s, h)
  OBVIOUS
<1>3. r.refused => r.quality \in {"degraded", "critical"}
  BY <1>2 DEF FromReport, ResolveQuality
<1>4. RefusedShow'
  BY <1>1, <1>2, <1>3 DEF DInv, RefusedShow
<1> QED  BY <1>4, OutdatedIsThorough DEF Ingest

LEMMA ImportHistoricalIsThorough ==
  IInv /\ DInv /\ ImportHistorical => DInv'
<1> SUFFICES ASSUME IInv, DInv, ImportHistorical  PROVE DInv'
  OBVIOUS
<1>1. PICK d \in 1..Len(mix.files) :
        reading' = Loaded(reading, EnsureDataset(mix.files, d), mix.files[d])
  BY DEF ImportHistorical
<1>2. PICK rows, file, dataset :
        rows = reading /\ file = mix.files[d] /\ dataset = EnsureDataset(mix.files, d)
  OBVIOUS
<1>3. \A r \in Loaded(rows, dataset, file) : r \in rows \/ ~r.refused
  <2>1. \A record, id : ~FromRecord(file, record, id, dataset).refused
    BY DEF FromRecord
  <2>2. \A r \in Loaded(rows, dataset, file) :
          r \in rows \/ \E record, id : r = FromRecord(file, record, id, dataset)
    BY DEF Loaded
  <2> QED  BY <2>1, <2>2
<1>4. RefusedShow'
  BY <1>1, <1>2, <1>3 DEF DInv, RefusedShow
<1> QED  BY <1>4, OutdatedIsThorough DEF ImportHistorical

LEMMA PredictIsThorough ==
  IInv /\ DInv /\ Predict => DInv'
BY OutdatedIsThorough DEF Predict, DInv, RefusedShow

\* The steps that leave the runs alone.
LEMMA OthersAreThorough ==
  IInv /\ DInv /\ (Tick \/ UNCHANGED vars) => DInv'
<1> SUFFICES ASSUME IInv, DInv, Tick \/ UNCHANGED vars  PROVE DInv'
  OBVIOUS
<1>1. UNCHANGED <<reading, prediction, alert, run>> /\ "dag" \in Runs
  BY DEF Tick, vars, Runs
<1>2. PICK s : s = run["dag"]
  OBVIOUS
<1>3. run' = [run EXCEPT !["dag"] = s]
  BY <1>1, <1>2 DEF IInv, TypeOK
<1> QED  BY <1>1, <1>2, <1>3, OneRunIsThorough DEF DInv

LEMMA StartsAreThorough ==
  IInv /\ DInv /\ (Trigger \/ StartByHand) => DInv'
<1> SUFFICES ASSUME IInv, DInv, Trigger \/ StartByHand  PROVE DInv'
  OBVIOUS
<1>1. PICK x \in Runs : \E s : run' = [run EXCEPT ![x] = s] /\ Thorough(s)
  <2>1. PICK x \in Runs : \E task, tries, instant, sites :
          run' = [run EXCEPT ![x] = Started(task, tries, instant, sites)]
    BY DEF Trigger, StartByHand, Runs
  <2> QED  BY <2>1, StartedIsThorough
<1> QED  BY <1>1, OneRunIsThorough DEF Trigger, StartByHand

LEMMA ReadReadingsIsThorough ==
  ASSUME IInv, DInv, NEW x \in Runs, ReadReadings(x)
  PROVE  DInv'
<1>1. PICK r \in Run : r = run[x]
  BY DEF IInv, TypeOK
<1>2. PICK rows : rows = Window(r, reading)
  OBVIOUS
<1>3. Since(x, reading) = rows
  BY <1>1, <1>2 DEF Since, Window
<1> DEFINE s == [r EXCEPT !.step = "predictions", !.rows = rows,
                          !.todo = Thresholds(rows) \cup Spikes(rows) \cup BadQualities(rows)]
<1>4. run' = [run EXCEPT ![x] = s]
  BY <1>1, <1>3 DEF ReadReadings
<1>5. /\ s.step = "predictions" /\ s.rows = rows /\ s.sites = r.sites /\ s.instant = r.instant
      /\ s.todo = Thresholds(rows) \cup Spikes(rows) \cup BadQualities(rows)
  BY DEF Run
<1> HIDE DEF s
<1>6. Window(s, reading) = rows
  BY <1>2, <1>5 DEF Window
<1>7. Holds(s, FromReadings(s))
  BY <1>5, <1>6 DEF Holds, FromReadings, Keys
<1>8. Thorough(s)
  BY <1>5, <1>6, <1>7 DEF Thorough
<1> QED  BY <1>4, <1>8, OneRunIsThorough DEF ReadReadings

Onward(r, step, rows, drawn) ==
  [r EXCEPT !.step = step, !.rows = rows, !.todo = r.todo \cup drawn]

\* A detection reads on: it keeps what it holds.
LEMMA ReadsOn ==
  ASSUME NEW r \in Run, NEW step, NEW rows, NEW drawn, NEW s, s = Onward(r, step, rows, drawn)
  PROVE  /\ s.task = r.task /\ s.step = step /\ s.fresh = r.fresh
         /\ FromReadings(s) = FromReadings(r) /\ FromPredictions(s) = FromPredictions(r)
         /\ FromLatest(s) = FromLatest(r)
         /\ \A A : Holds(r, A) => Holds(s, A)
         /\ Holds(s, drawn)
<1>1. /\ s.task = r.task /\ s.step = step /\ s.fresh = r.fresh /\ s.sites = r.sites
      /\ s.instant = r.instant /\ s.done = r.done /\ s.todo = r.todo \cup drawn
  BY DEF Run, Onward
<1>2. \A A : Window(s, A) = Window(r, A)
  BY <1>1 DEF Window
<1>3. /\ FromReadings(s) = FromReadings(r) /\ FromPredictions(s) = FromPredictions(r)
      /\ FromLatest(s) = FromLatest(r)
  BY <1>1, <1>2 DEF FromReadings, FromPredictions, FromLatest
<1>4. (\A A : Holds(r, A) => Holds(s, A)) /\ Holds(s, drawn)
  BY <1>1 DEF Holds, Keys
<1> QED  BY <1>1, <1>3, <1>4

LEMMA ReadPredictionsIsThorough ==
  ASSUME IInv, DInv, NEW x \in Runs, ReadPredictions(x)
  PROVE  DInv'
<1>1. PICK r \in Run : r = run[x]
  BY DEF IInv, TypeOK
<1>2. PICK drawn : drawn = Anomalies(r.rows, Since(x, prediction))
  OBVIOUS
<1>3. PICK s : s = Onward(r, "latest", {}, drawn)
  OBVIOUS
<1>4. run' = [run EXCEPT ![x] = s]
  BY <1>1, <1>2, <1>3 DEF ReadPredictions, Onward
<1>5. Thorough(r) /\ r.step = "predictions"
  BY <1>1 DEF DInv, ReadPredictions, At
<1>6. Since(x, prediction) = Window(r, prediction)
  BY <1>1 DEF Since, Window
<1>7. r.task = "detection" /\ r.fresh => drawn = FromPredictions(r) /\ Holds(r, FromReadings(r))
  BY <1>2, <1>5, <1>6 DEF Thorough, FromPredictions
<1>8. /\ s.task = r.task /\ s.step = "latest" /\ s.fresh = r.fresh
      /\ FromReadings(s) = FromReadings(r) /\ FromPredictions(s) = FromPredictions(r)
      /\ \A A : Holds(r, A) => Holds(s, A)
      /\ Holds(s, drawn)
  BY <1>3, ReadsOn
<1>9. Thorough(s)
  BY <1>7, <1>8 DEF Thorough
<1> QED  BY <1>4, <1>9, OneRunIsThorough DEF ReadPredictions

LEMMA ReadLatestIsThorough ==
  ASSUME IInv, DInv, NEW x \in Runs, ReadLatest(x)
  PROVE  DInv'
<1>1. PICK r \in Run : r = run[x]
  BY DEF IInv, TypeOK
<1>2. PICK drawn : drawn = FromLatest(r)
  OBVIOUS
<1>3. PICK s : s = Onward(r, "insert", r.rows, drawn)
  OBVIOUS
<1>4. run' = [run EXCEPT ![x] = s]
  <2>1. s = [r EXCEPT !.step = "insert", !.todo = r.todo \cup drawn]
    BY <1>3 DEF Run, Onward
  <2>2. run' = [run EXCEPT ![x] = [r EXCEPT !.step = "insert", !.todo = r.todo \cup drawn]]
    BY <1>1, <1>2 DEF ReadLatest, FromLatest
  <2> QED  BY <2>1, <2>2
<1>5. Thorough(r) /\ r.step = "latest"
  BY <1>1 DEF DInv, ReadLatest, At
<1>6. r.task = "detection" /\ r.fresh => Holds(r, FromReadings(r)) /\ Holds(r, FromPredictions(r))
  BY <1>5 DEF Thorough
<1>7. /\ s.task = r.task /\ s.step = "insert" /\ s.fresh = r.fresh
      /\ FromReadings(s) = FromReadings(r) /\ FromPredictions(s) = FromPredictions(r)
      /\ FromLatest(s) = FromLatest(r)
      /\ \A A : Holds(r, A) => Holds(s, A)
      /\ Holds(s, drawn)
  BY <1>3, ReadsOn
<1>8. Thorough(s)
  BY <1>2, <1>6, <1>7 DEF Thorough
<1> QED  BY <1>4, <1>8, OneRunIsThorough DEF ReadLatest

LEMMA ReadAlertsIsThorough ==
  ASSUME IInv, DInv, NEW x \in Runs, ReadAlerts(x)
  PROVE  DInv'
<1>1. PICK r \in Run : r = run[x]
  BY DEF IInv, TypeOK
<1>2. PICK s : s = [r EXCEPT !.step = "insert", !.todo = {a \in alert : a.site \in run[x].sites}]
  OBVIOUS
<1>3. run' = [run EXCEPT ![x] = s]
  BY <1>1, <1>2 DEF ReadAlerts
<1>4. s.task = "recommendations"
  BY <1>1, <1>2 DEF ReadAlerts, At, Run
<1> QED  BY <1>3, <1>4, OneRunIsThorough DEF ReadAlerts, Thorough

\* What is to be inserted has been, or is there already.
LEMMA InsertIsThorough ==
  ASSUME IInv, DInv, NEW x \in Runs, Insert(x)
  PROVE  DInv'
<1>1. PICK r \in Run : r = run[x]
  BY DEF IInv, TypeOK
<1>2. PICK a :
        run' = [run EXCEPT ![x].todo = @ \ {a}, ![x].done = IF Present(x, a) THEN @ ELSE @ \cup {a}]
  BY DEF Insert
<1>3. PICK done : done = IF Present(x, a) THEN r.done ELSE r.done \cup {a}
  OBVIOUS
<1> DEFINE s == [r EXCEPT !.todo = r.todo \ {a}, !.done = done]
<1>4. run' = [run EXCEPT ![x] = s]
  BY <1>1, <1>2, <1>3
<1>5. /\ s.task = r.task /\ s.step = r.step /\ s.fresh = r.fresh /\ s.sites = r.sites
      /\ s.instant = r.instant /\ s.done = done /\ s.todo = r.todo \ {a} /\ s.rows = r.rows
  BY DEF Run
<1> HIDE DEF s
<1>6. r.task = "detection" => Keys(r.todo \cup r.done \cup alert) \subseteq Keys(s.todo \cup s.done \cup alert)
  BY <1>1, <1>3, <1>5 DEF Present, Keys
<1>7. r.task = "detection" => \A A : Holds(r, A) => Holds(s, A)
  BY <1>6 DEF Holds
<1>8. \A A : Window(s, A) = Window(r, A)
  BY <1>5 DEF Window
<1>9. /\ FromReadings(s) = FromReadings(r) /\ FromPredictions(s) = FromPredictions(r)
      /\ FromLatest(s) = FromLatest(r)
  BY <1>5, <1>8 DEF FromReadings, FromPredictions, FromLatest
<1>10. Thorough(r)
  BY <1>1 DEF DInv
<1>11. Thorough(s)
  BY <1>5, <1>7, <1>8, <1>9, <1>10 DEF Thorough
<1> QED  BY <1>4, <1>11, OneRunIsThorough DEF Insert

\* An attempt ends, and another one may follow.
LEMMA EndsAreThorough ==
  ASSUME IInv, DInv, NEW x \in Runs, Succeed(x) \/ Fail(x) \/ FailCommitted(x)
  PROVE  DInv'
<1>1. PICK s : run' = [run EXCEPT ![x] = s] /\ Thorough(s)
  BY StartedIsThorough DEF Succeed, Fail, FailCommitted, TryAgain, Idle
<1>2. UNCHANGED <<reading, prediction>> /\ alert \subseteq alert'
  BY DEF Succeed, Fail, FailCommitted, TryAgain, Commit
<1> QED  BY <1>1, <1>2, OneRunIsThorough

LEMMA DetectionsAreThorough ==
  Spec => [](IInv /\ DInv)
<1>1. IInv /\ DInv /\ [Next]_vars => DInv'
  <2> SUFFICES ASSUME IInv, DInv, [Next]_vars  PROVE DInv'
    OBVIOUS
  <2>1. CASE Ingest  BY <2>1, IngestIsThorough
  <2>2. CASE ImportHistorical  BY <2>2, ImportHistoricalIsThorough
  <2>3. CASE Predict  BY <2>3, PredictIsThorough
  <2>4. CASE Tick \/ UNCHANGED vars  BY <2>4, OthersAreThorough
  <2>5. CASE Trigger \/ StartByHand  BY <2>5, StartsAreThorough
  <2>6. CASE \E x \in Runs : Step(x)
    BY <2>6, ReadReadingsIsThorough, ReadPredictionsIsThorough, ReadLatestIsThorough,
       ReadAlertsIsThorough, InsertIsThorough, EndsAreThorough DEF Step
  <2>7. CASE \E x \in Runs : Fail(x) \/ FailCommitted(x)
    BY <2>7, EndsAreThorough
  <2> QED  BY <2>1, <2>2, <2>3, <2>4, <2>5, <2>6, <2>7 DEF Next
<1> QED  BY <1>1, InitIsThorough, InvariantHolds, PTL DEF Spec

LEMMA KeyIsThere ==
  ASSUME NEW alerts, NEW drawn, Keys(drawn) \subseteq Keys(alerts), NEW a \in drawn
  PROVE  HasAlert(alerts, a.type, a.site, a.ref)
<1>1. PICK b \in alerts : KeyOf(b) = KeyOf(a)
  BY DEF Keys
<1>2. b.type = a.type /\ b.site = a.site /\ b.ref = a.ref
  BY <1>1 DEF KeyOf
<1> QED  BY <1>2 DEF HasAlert

\* A row over the capacity has its alert, or that of the first such row of its hour.
LEMMA ThresholdIsRaised ==
  ASSUME Tables, NEW rows \in SUBSET reading, NEW r \in rows, OverCapacity(r)
  PROVE  \E a \in Thresholds(rows) : a.type = "threshold" /\ a.site = r.site /\ a.ref = r.hour
<1>1. PICK over \in SUBSET reading : over = {q \in rows : OverCapacity(q)}
  OBVIOUS
<1>2. PICK q \in FirstOfSlot(over) : SameSlot(q, r)
  BY <1>1, SlotHasAFirst
<1>3. PICK a : a = Raised(q, "threshold", Severity(q.kw, Capacity[q.site]), q.kw, Capacity[q.site])
  OBVIOUS
<1>4. a \in Thresholds(rows)
  BY <1>1, <1>2, <1>3 DEF Thresholds
<1> QED  BY <1>2, <1>3, <1>4 DEF Raised, SameSlot

LEMMA BadQualityIsRaised ==
  ASSUME Tables, NEW rows \in SUBSET reading, NEW r \in rows,
         r.quality \in {"partial", "degraded", "critical"}
  PROVE  \E a \in BadQualities(rows) : a.type = "sensor" /\ a.site = r.site /\ a.ref = r.hour
<1>1. PICK bad \in SUBSET reading : bad = {q \in rows : QualitySeverity(q.quality) # None}
  OBVIOUS
<1>2. r \in bad
  <2>1. "low" # None /\ "medium" # None /\ "critical" # None
    BY RulesAssumption DEF Severities
  <2> QED  BY <1>1, <2>1 DEF QualitySeverity
<1>3. PICK q \in FirstOfSlot(bad) : SameSlot(q, r)
  BY <1>2, SlotHasAFirst
<1>4. PICK a : a = Raised(q, "sensor", QualitySeverity(q.quality), None, None)
  OBVIOUS
<1>5. a \in BadQualities(rows)
  BY <1>1, <1>3, <1>4 DEF BadQualities
<1> QED  BY <1>3, <1>4, <1>5 DEF Raised, SameSlot

\* Two rows of a site between which there is none are compared.
LEMMA SpikeIsRaised ==
  ASSUME Tables, NEW rows \in SUBSET reading, NEW q \in rows, NEW r \in rows,
         Consecutive(q, r), Jumps(q.kw, r.kw)
  PROVE  \E a \in Spikes(rows) : a.type = "spike" /\ a.site = r.site /\ a.ref = r.hour
<1>1. q \in reading /\ r \in reading /\ \A c \in reading : c.hour \in Int /\ c.id \in Nat
  BY DEF Tables, Reading
<1>2. q.site = r.site /\ q.hour < r.hour
  BY DEF Consecutive
<1>3. \A c \in reading : c.site = r.site /\ q.hour <= c.hour /\ c.hour <= r.hour => c = q \/ c = r
  BY <1>1 DEF Consecutive
<1>4. Follows(rows, q, r)
  BY <1>1, <1>2, <1>3 DEF Follows, SameSlot
<1>5. PICK p : p = <<q, r>>
  OBVIOUS
<1>6. p \in rows \X rows /\ p[1] = q /\ p[2] = r
  BY <1>5
<1>7. PICK a : a = Raised(p[2], "spike", JumpSeverity(p[1].kw, p[2].kw), p[2].kw, p[1].kw)
  OBVIOUS
<1>8. a \in Spikes(rows)
  BY <1>4, <1>6, <1>7 DEF Spikes
<1> QED  BY <1>6, <1>7, <1>8 DEF Raised

\* A row that deviates from the last forecast of its slot has the alert of the first such row.
LEMMA AnomalyIsRaised ==
  ASSUME Tables, NEW rows \in SUBSET reading, NEW preds \in SUBSET prediction,
         NEW r \in rows, NEW p \in LastOfSlot(preds), Deviates(r, p)
  PROVE  \E a \in Anomalies(rows, preds) : a.type = "anomaly" /\ a.site = r.site /\ a.ref = r.hour
<1>1. PICK off \in SUBSET reading : off = {q \in rows : Deviates(q, p)}
  OBVIOUS
<1>2. PICK q \in off : \A c \in off : q.id <= c.id
  BY <1>1, FirstExists
<1>3. PICK d : d = <<q, p>>
  OBVIOUS
<1>4. d \in rows \X LastOfSlot(preds) /\ d[1] = q /\ d[2] = p
  BY <1>1, <1>3
<1>5. PICK a : a = Raised(d[1], "anomaly", Severity(10 * Gap(d[1].kwh, d[2].kwh), 3 * d[2].kwh),
                          d[1].kwh, d[2].kwh)
  OBVIOUS
<1>6. a \in Anomalies(rows, preds)
  BY <1>1, <1>2, <1>4, <1>5 DEF Anomalies
<1>7. SameSlot(q, r)
  BY <1>1 DEF Deviates, SameSlot
<1> QED  BY <1>4, <1>5, <1>6, <1>7 DEF Raised, SameSlot

\* A silent site has an alert of its last row, or of none.
LEMMA OutageIsRaised ==
  ASSUME Tables, NEW s \in Sites, NEW instant,
         \A r \in reading : r.site = s => instant - r.hour >= OutageAfter
  PROVE  \E a \in Outages(reading, instant) : a.type = "outage" /\ a.site = s /\ NamesTheLast(a)
<1>1. CASE \A r \in reading : r.site # s
  <2>1. PICK a : a = Silent(s, None, "critical", instant)
    OBVIOUS
  <2>2. a \in Outages(reading, instant)
    BY <1>1, <2>1 DEF Outages
  <2>3. a.type = "outage" /\ a.site = s /\ a.ref = None
    BY <2>1 DEF Silent
  <2> QED  BY <1>1, <2>2, <2>3 DEF NamesTheLast
<1>2. CASE \E r \in reading : r.site = s
  <2>1. PICK r \in reading : r.site = s /\ IsLast(reading, r)
    BY <1>2, LastExists
  <2>2. PICK a : a = Silent(r.site, r.hour, Severity(instant - r.hour, OutageAfter), instant)
    OBVIOUS
  <2>3. a \in Outages(reading, instant)
    BY <2>1, <2>2 DEF Outages
  <2>4. a.type = "outage" /\ a.site = s /\ a.ref = r.hour
    BY <2>1, <2>2 DEF Silent
  <2>5. \A q \in reading : q.hour \in Int
    BY DEF Tables, Reading
  <2>6. a.ref # None
    BY <2>4, <2>5, IngestAssumption
  <2> QED  BY <2>1, <2>3, <2>4, <2>5, <2>6 DEF NamesTheLast, RowAt, IsLast
<1> QED  BY <1>1, <1>2

\* The page of the sensors takes a site for faulty because it is silent or its last row is bad.
LEMMA FaultIsRaised ==
  ASSUME Tables, NEW s \in Sites, Health(reading, s).overall # "ok",
         \A r \in reading : r.site = s => r.quality # None
  PROVE  \/ \A r \in reading : r.site # s
         \/ \E r \in reading : r.site = s /\ r.quality \in {"partial", "degraded", "critical"}
<1> SUFFICES ASSUME \E r \in reading : r.site = s
             PROVE  \E r \in reading : r.site = s /\ r.quality \in {"partial", "degraded", "critical"}
  OBVIOUS
<1>1. PICK last : last = CHOOSE r \in reading : r.site = s /\ IsLast(reading, r)
  OBVIOUS
<1>2. last \in reading /\ last.site = s
  BY <1>1, LastExists
<1>3. last.quality \in Qualities
  BY <1>2 DEF Tables, Reading
<1>4. Health(reading, s).overall = Overall(QualityOrCritical(last.quality))
  BY <1>1 DEF Health
<1>5. last.quality # "good"
  BY <1>2, <1>4 DEF Overall, QualityOrCritical
<1> QED  BY <1>2, <1>3, <1>5 DEF Qualities

LEMMA NothingIsMissed ==
  ASSUME Tables, RefusedShow, NEW r \in Run, NEW alerts,
         Keys(FromReadings(r)) \subseteq Keys(alerts),
         Keys(FromPredictions(r)) \subseteq Keys(alerts), Keys(FromLatest(r)) \subseteq Keys(alerts)
  PROVE  ~Missed(alerts, r.sites, r.instant)
<1> SUFFICES ASSUME NEW s \in r.sites  PROVE ~Missed(alerts, {s}, r.instant)
  BY DEF Missed
<1>1. PICK rows \in SUBSET reading : rows = Window(r, reading)
  BY DEF Window
<1>2. PICK preds \in SUBSET prediction : preds = Window(r, prediction)
  BY DEF Window
<1>3. /\ FromReadings(r) = Thresholds(rows) \cup Spikes(rows) \cup BadQualities(rows)
      /\ FromPredictions(r) = Anomalies(rows, preds)
  BY <1>1, <1>2 DEF FromReadings, FromPredictions
<1>4. /\ s \in Sites /\ r.instant \in Int /\ LookBack \in Nat
      /\ \A q \in reading : q.hour \in Int /\ q.site \in Sites
      /\ \A q \in prediction : q.hour \in Int /\ q.id \in Nat
  BY PipelineAssumption DEF Run, Hours, Tables, Reading, Prediction
<1> DEFINE window == {q \in reading : q.site = s /\ q.hour >= r.instant - LookBack}
<1>5. window \in SUBSET rows
  BY <1>1, <1>4 DEF Window
<1>6. ASSUME NEW q \in window
      PROVE  /\ OverCapacity(q) => HasAlert(alerts, "threshold", s, q.hour)
             /\ q.quality \in {"partial", "degraded", "critical"} => HasAlert(alerts, "sensor", s, q.hour)
             /\ q.refused => HasAlert(alerts, "sensor", s, q.hour)
  <2>1. q \in rows /\ q.site = s
    BY <1>5
  <2>2. OverCapacity(q) => HasAlert(alerts, "threshold", s, q.hour)
    BY <1>3, <2>1, ThresholdIsRaised, KeyIsThere
  <2>3. q.quality \in {"partial", "degraded", "critical"} => HasAlert(alerts, "sensor", s, q.hour)
    BY <1>3, <2>1, BadQualityIsRaised, KeyIsThere
  <2>4. q.refused => q.quality \in {"partial", "degraded", "critical"}
    BY DEF RefusedShow
  <2> QED  BY <2>2, <2>3, <2>4
<1>7. ASSUME NEW q \in window, NEW p \in window, Consecutive(p, q), Jumps(p.kw, q.kw)
      PROVE  HasAlert(alerts, "spike", s, q.hour)
  <2>1. q \in rows /\ p \in rows /\ q.site = s
    BY <1>5
  <2>2. PICK a \in Spikes(rows) : a.type = "spike" /\ a.site = s /\ a.ref = q.hour
    BY <1>7, <2>1, SpikeIsRaised
  <2>3. a \in FromReadings(r)
    BY <1>3
  <2> QED  BY <2>2, <2>3, KeyIsThere
<1>8. ASSUME NEW q \in window, NEW p \in prediction, Deviates(q, p),
             ~\E c \in prediction : SameSlot(c, p) /\ c.id > p.id
      PROVE  HasAlert(alerts, "anomaly", s, q.hour)
  <2>1. q \in rows /\ q.site = s
    BY <1>5
  <2>2. p \in preds
    BY <1>1, <1>2, <1>8, <2>1 DEF Window, Deviates, SameSlot
  <2>3. p \in LastOfSlot(preds)
    BY <1>4, <1>8, <2>2 DEF LastOfSlot
  <2> QED  BY <1>3, <1>8, <2>1, <2>3, AnomalyIsRaised, KeyIsThere
<1>9. ASSUME \A q \in reading : q.site = s => r.instant - q.hour >= OutageAfter
      PROVE  \E a \in alerts : a.type = "outage" /\ a.site = s /\ NamesTheLast(a)
  <2>1. PICK a \in Outages(reading, r.instant) : a.type = "outage" /\ a.site = s /\ NamesTheLast(a)
    BY <1>4, <1>9, OutageIsRaised
  <2>2. a \in FromLatest(r)
    BY <2>1 DEF FromLatest
  <2>3. PICK b \in alerts : b.type = "outage" /\ b.site = s /\ b.ref = a.ref
    <3>1. HasAlert(alerts, a.type, a.site, a.ref)
      BY <2>2, KeyIsThere
    <3> QED  BY <2>1, <3>1 DEF HasAlert
  <2>4. NamesTheLast(b)
    BY <2>1, <2>3 DEF NamesTheLast, RowAt
  <2> QED  BY <2>3, <2>4
<1>10. ASSUME Health(reading, s).overall # "ok",
              \A q \in reading : q.site = s => q.hour >= r.instant - LookBack /\ q.quality # None
       PROVE  \E a \in alerts : a.site = s /\ a.type \in {"sensor", "outage"}
  <2>1. CASE \A q \in reading : q.site # s
    BY <1>9, <2>1
  <2>2. CASE \E q \in reading : q.site = s /\ q.quality \in {"partial", "degraded", "critical"}
    <3>1. PICK q \in window : q.quality \in {"partial", "degraded", "critical"}
      BY <1>10, <2>2
    <3> QED  BY <1>6, <3>1 DEF HasAlert
  <2> QED  BY <1>4, <1>10, <2>1, <2>2, FaultIsRaised
<1>11. \A q \in window : Capacity[s] > 0 /\ q.kw # None /\ q.kw > Capacity[s] => OverCapacity(q)
  BY DEF OverCapacity
<1> QED  BY <1>6, <1>7, <1>8, <1>9, <1>10, <1>11 DEF Missed

-----------------------------------------------------------------------------
(* Theorems *)

\* Every row, alert, advice and run is of its type, whatever the API reports and the files hold.
THEOREM TypeCorrect ==
  Spec => []TypeOK
BY InvariantHolds, PTL DEF IInv

\* Every alert rests on rows that are stored, and no event has two alerts
\* (services/alert.py:111-323, repositories/alert.py:28-64).
THEOREM AlertsRestOnRows ==
  Spec => []AlertsAreEvidenced
<1>1. IInv => AlertsAreEvidenced
  BY DEF IInv, Sound, OneEach, AlertsAreEvidenced
<1> QED  BY <1>1, InvariantHolds, PTL

\* Two runs that insert the same rows never wait for each other (repositories/alert.py:52,
\* repositories/recommendation.py:42).
THEOREM RunsNeverDeadlock ==
  Spec => []NeverWaitOnEachOther
<1>1. IInv => NeverWaitOnEachOther
  <2> SUFFICES ASSUME IInv, NEW x \in Runs, NEW y \in Runs,
                      NEW a \in NextOf(run[x].todo), NEW b \in NextOf(run[y].todo),
                      WaitsFor(x, y, a), WaitsFor(y, x, b)
               PROVE  FALSE
    BY DEF NeverWaitOnEachOther
  <2>1. /\ a \in run[x].todo /\ \A c \in run[x].todo : ~Before(c, a)
        /\ b \in run[y].todo /\ \A c \in run[y].todo : ~Before(c, b)
    BY DEF NextOf
  <2>2. PICK p \in run[y].done : KeyOf(p) = KeyOf(a)
    BY DEF WaitsFor, Keys
  <2>3. PICK q \in run[x].done : KeyOf(q) = KeyOf(b)
    BY DEF WaitsFor, Keys
  <2>4. Working(run[x]) /\ Working(run[y])
    BY DEF IInv
  <2>5. run[x].step = "insert" /\ run[y].step = "insert"
    BY <2>2, <2>3, <2>4 DEF Working
  <2>6. Before(a, b)
    BY <2>1, <2>2, <2>4, BeforeIsOfKeys DEF Working
  <2>7. Before(b, a)
    BY <2>1, <2>3, <2>4, BeforeIsOfKeys DEF Working
  <2>8. a \in Alert /\ b \in Alert
    BY <2>1, <2>5, HeldIsOneEach
  <2>9. /\ a.site \in Nat /\ b.site \in Nat /\ a.type \in Types /\ b.type \in Types
        /\ a.ref \in Int \cup {None} /\ b.ref \in Int \cup {None}
    BY <2>8, IngestAssumption DEF Alert
  <2>10. Rank(a) \in Int /\ Rank(b) \in Int
    BY <2>9 DEF Rank, Types
  <2> QED  BY <2>6, <2>7, <2>9, <2>10, IngestAssumption DEF Before, Earlier
<1> QED  BY <1>1, InvariantHolds, PTL

\* An alert has all of its advice or none, and only an alert that is there has any
\* (services/recommendation.py:51-62, services/recommendation_rules.py:81-108).
THEOREM AdviceIsExact ==
  Spec => []AdviceExact
<1>1. IInv => AdviceExact
  <2> SUFFICES ASSUME IInv  PROVE AdviceExact
    OBVIOUS
  <2>1. \A d \in advice : d.alert \in Keys(alert)
    BY DEF IInv, AdviceWhole, Advised, Keys
  <2>2. ASSUME NEW a \in alert
        PROVE  LET rules == {d.rule : d \in {d \in advice : d.alert = KeyOf(a)}}
               IN rules = {} \/ rules = RulesOf(a)
    <3> DEFINE rules == {d.rule : d \in {d \in advice : d.alert = KeyOf(a)}}
    <3>1. CASE \A d \in advice : d.alert # KeyOf(a)
      BY <3>1
    <3>2. CASE Advised({a}) \subseteq advice
      <4>1. RulesOf(a) \subseteq rules
        <5> SUFFICES ASSUME NEW u \in RulesOf(a)  PROVE u \in rules
          OBVIOUS
        <5>1. PICK d : d = [alert |-> KeyOf(a), rule |-> u]
          OBVIOUS
        <5>2. d \in Advised({a}) /\ d.alert = KeyOf(a) /\ d.rule = u
          BY <5>1 DEF Advised
        <5> QED  BY <3>2, <5>2
      <4>2. ASSUME NEW d \in advice, d.alert = KeyOf(a)  PROVE d.rule \in RulesOf(a)
        <5>1. PICK b \in alert : d \in Advised({b})
          BY DEF IInv, AdviceWhole
        <5>2. d.alert = KeyOf(b) /\ d.rule \in RulesOf(b)
          BY <5>1 DEF Advised
        <5>3. b = a
          BY <4>2, <5>2 DEF IInv, Sound, OneEach
        <5> QED  BY <5>2, <5>3
      <4> QED  BY <4>1, <4>2
    <3> QED  BY <3>1, <3>2 DEF IInv, AdviceWhole
  <2>3. ASSUME NEW a \in alert
        PROVE  /\ ("escalade-astreinte-v1" \in RulesOf(a)) <=> a.severity = "critical"
               /\ ("contrat-puissance-v1" \in RulesOf(a)) <=> FarAbove(a)
               /\ RulesOf(a) \cap {OfType(t) : t \in Types} = {OfType(a.type)}
    <3>1. a.type \in Types
      BY DEF IInv, TypeOK, Alert
    <3>2. \A t \in Types : OfType(t) \notin {"escalade-astreinte-v1", "contrat-puissance-v1"}
      BY DEF OfType, Types
    <3> QED  BY <3>1, <3>2 DEF RulesOf
  <2> QED  BY <2>1, <2>2, <2>3 DEF AdviceExact
<1> QED  BY <1>1, InvariantHolds, PTL

\* A detection that nothing has overtaken leaves an alert for every fact of its window, rows
\* that another run has inserted included (services/alert.py:57-98).
THEOREM DetectionsMissNothing ==
  Spec => FreshRunsMissNothing
<1>1. ASSUME IInv, DInv, NEW x \in Runs, Commit(x), run[x].task = "detection", run[x].fresh
      PROVE  ~Missed(alert', run[x].sites, run[x].instant)
  <2>1. PICK r \in Run : r = run[x]
    BY <1>1 DEF IInv, TypeOK
  <2>2. PICK alerts : alerts = alert'
    OBVIOUS
  <2>3. r.step = "insert" /\ r.todo = {} /\ alerts = alert \cup r.done
    BY <1>1, <2>1, <2>2 DEF Commit
  <2>4. Holds(r, FromReadings(r)) /\ Holds(r, FromPredictions(r)) /\ Holds(r, FromLatest(r))
    BY <1>1, <2>1, <2>3 DEF DInv, Thorough
  <2>5. r.todo \cup r.done \cup alert = alerts
    BY <2>3
  <2>6. ~Missed(alerts, r.sites, r.instant)
    BY <1>1, <2>4, <2>5, NothingIsMissed DEF Holds, IInv, DInv
  <2> QED  BY <2>1, <2>2, <2>6
<1>2. IInv /\ DInv /\ [Next]_vars
        => [\A x \in Runs : Commit(x) /\ run[x].task = "detection" /\ run[x].fresh
                              => ~Missed(alert', run[x].sites, run[x].instant)]_vars
  BY <1>1
<1> QED  BY <1>2, DetectionsAreThorough, PTL DEF Spec, FreshRunsMissNothing
=============================================================================
