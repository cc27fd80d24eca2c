------------------------------- MODULE Forecasts -------------------------------
(***************************************************************************)
(* The training writes the model file in place, the hourly scoring loads   *)
(* it, fingerprints it and inserts a forecast for each site, the daily     *)
(* drift compares forecasts with the readings that have arrived since.     *)
(* Each is a process of its own (train.py, score.py, monitoring/drift.py), *)
(* of a DAG or by hand, and nothing but the database and the file is       *)
(* between them.                                                           *)
(***************************************************************************)
EXTENDS ForecastRules

CONSTANTS Values,    \* what readings and forecasts may be worth, in kWh
          Retries,   \* retries of the scoring task
          Mixes      \* a behaviour draws one: the hours it lasts (a scoring of the last one still
                     \* looks an hour ahead of the clock), the readings that come in any
                     \* order, whether a model is there, who scores and who watches the drift, the
                     \* instants and sites given by hand, bounds on the trainings, the drift runs
                     \* and the failures

Starters == {"dag", "hand"}

ASSUME ProcessAssumption ==
  /\ Values \subseteq Nat /\ Retries \in Nat
  /\ Mixes \subseteq [hours : Hours \ {MaxHour}, trained : BOOLEAN, trainings : Nat, runs : Nat,
                      failures : Nat, instants : SUBSET Hours, asked : SUBSET SUBSET Sites,
                      score : SUBSET Starters, drift : SUBSET Starters,
                      readings : SUBSET [site : Sites, hour : Hours, csv : BOOLEAN,
                                         kwh : Nat \cup {None}]]

VARIABLES now,
          reading,     \* committed rows of reading
          forecast,    \* the last committed row of prediction, of each site and hour
          report,      \* committed rows of drift_report
          model,       \* the model file
          training,    \* the training process
          scoring,     \* the scoring processes
          drift,       \* the drift processes
          runs,        \* drift runs so far
          failures,    \* failures so far
          mix

vars == <<now, reading, forecast, report, model, training, scoring, drift, runs, failures, mix>>

Scoring == [step : {"idle", "read", "load", "loaded", "insert"}, tries : 0..Retries,
            instant : Hours, sites : SUBSET Sites,
            frame : SUBSET [site : Sites, target : Hours], able : SUBSET Sites,
            maker : Model, reference : Model, raced : BOOLEAN]

\* fresh: nothing was written since the run started.
Drift == [step : {"idle", "recent", "former", "counts", "insert"}, instant : Hours,
          sites : SUBSET Sites,
          pairs : SUBSET [site : Sites, hour : Hours, predicted : Nat, actual : Nat, model : Model],
          former : SUBSET [site : Sites, hour : Hours, predicted : Nat, actual : Nat, model : Model],
          rows : SUBSET Report, fresh : BOOLEAN]

NoFile == [version |-> 0, whole |-> FALSE]

NoScoring == [step |-> "idle", tries |-> 0, instant |-> 0, sites |-> {}, frame |-> {}, able |-> {},
              maker |-> NoFile, reference |-> NoFile, raced |-> FALSE]

NoDrift == [step |-> "idle", instant |-> 0, sites |-> {}, pairs |-> {},
            former |-> {}, rows |-> {}, fresh |-> TRUE]

Init ==
  /\ now = 0
  /\ reading = {} /\ report = {}
  /\ forecast = [s \in Sites |-> [h \in Hours |-> None]]
  /\ mix \in Mixes
  /\ model = IF mix.trained THEN [version |-> 1, whole |-> TRUE] ELSE NoFile
  /\ training = "idle"
  /\ scoring = [x \in Starters |-> NoScoring]
  /\ drift = [x \in Starters |-> NoDrift]
  /\ runs = 0 /\ failures = 0

-----------------------------------------------------------------------------
(* Readings, and the training *)

Outdated == [x \in Starters |-> [drift[x] EXCEPT !.fresh = (drift[x].step = "idle")]]

\* One row per source, at its hour or late; the API does not report an hour of a file.
Ingest ==
  /\ \E m \in mix.readings :
       /\ m.hour <= now
       /\ \A r \in reading : r.hour = m.hour => ~(r.csv /\ ~m.csv) /\ ~(r.site = m.site /\ r.csv = m.csv)
       /\ reading' = reading \cup {[id |-> Cardinality(reading), site |-> m.site, hour |-> m.hour,
                                   csv |-> m.csv, kwh |-> m.kwh]}
  /\ drift' = Outdated
  /\ UNCHANGED <<now, forecast, report, model, training, scoring, runs, failures, mix>>

Tick ==
  /\ now < mix.hours
  /\ now' = now + 1
  /\ UNCHANGED <<reading, forecast, report, model, training, scoring, drift, runs, failures, mix>>

\* By hand, one at a time, on the database or on a file of its own; too few rows end it as any
\* failure does.
Train ==
  /\ training = "idle"
  /\ model.version < mix.trainings
  /\ training' = "fitting"
  /\ UNCHANGED <<now, reading, forecast, report, model, scoring, drift, runs, failures, mix>>

\* Whoever has loaded the file and not fingerprinted it will fingerprint another.
Rewritten == [x \in Starters |-> [scoring[x] EXCEPT !.raced = (scoring[x].step = "loaded") \/ @]]

\* save_model truncates the file and fills it.
BeginSave ==
  /\ training = "fitting"
  /\ training' = "saving"
  /\ model' = [version |-> model.version + 1, whole |-> FALSE]
  /\ scoring' = Rewritten
  /\ UNCHANGED <<now, reading, forecast, report, drift, runs, failures, mix>>

EndSave ==
  /\ training = "saving"
  /\ training' = "logging"
  /\ model' = [model EXCEPT !.whole = TRUE]
  /\ scoring' = Rewritten
  /\ UNCHANGED <<now, reading, forecast, report, drift, runs, failures, mix>>

\* The tracking of the training comes last: whether it fails or not, the model is in place.
LogToMlflow ==
  /\ training = "logging"
  /\ training' = "idle"
  /\ UNCHANGED <<now, reading, forecast, report, model, scoring, drift, runs, failures, mix>>

\* The training dies before its end, in the middle of the file maybe; nobody restarts it.
FailTraining ==
  /\ training \in {"fitting", "saving"}
  /\ failures < mix.failures
  /\ failures' = failures + 1
  /\ training' = "idle"
  /\ UNCHANGED <<now, reading, forecast, report, model, scoring, drift, runs, mix>>

-----------------------------------------------------------------------------
(* Scoring *)

Goes(x, r) ==
  /\ scoring' = [scoring EXCEPT ![x] = r]
  /\ UNCHANGED <<now, reading, report, model, training, runs, mix>>

\* By the DAG every hour, or by hand, for one site and another instant maybe.
Score(x) ==
  /\ scoring[x].step = "idle"
  /\ x \in mix.score
  /\ \E sites \in IF x = "dag" THEN {Sites} ELSE mix.asked,
        instant \in IF x = "dag" THEN {now} ELSE mix.instants :
       Goes(x, [NoScoring EXCEPT !.step = "read", !.instant = instant, !.sites = sites])
  /\ UNCHANGED <<forecast, drift, failures>>

\* A window without a row ends the scoring before the model is loaded, not before it is
\* fingerprinted.
LoadRecent(x) ==
  LET r == scoring[x]
      rows == {q \in Recent(reading, r.instant) : q.site \in r.sites}
      frame == ScoringFrame(rows)
  IN /\ r.step = "read"
     /\ Goes(x, [r EXCEPT !.step = IF frame = {} THEN "loaded" ELSE "load", !.frame = frame,
                          !.able = {f.site : f \in {f \in frame : Scorable(rows, f, r.instant)}}])
     /\ UNCHANGED <<forecast, drift, failures>>

\* LightGBM reads the file whole or cut short: where it was cut decides whether it is refused.
LoadModel(x) ==
  /\ scoring[x].step = "load"
  /\ model # NoFile
  /\ Goes(x, [scoring[x] EXCEPT !.step = "loaded", !.maker = model,
                                !.raced = (training = "saving")])
  /\ UNCHANGED <<forecast, drift, failures>>

\* Mutant: the name of the file, which every training writes again, stands for its bytes.
ReferenceByName(x) ==
  /\ scoring[x].step = "loaded"
  /\ model # NoFile
  /\ Goes(x, [scoring[x] EXCEPT !.step = "insert", !.reference = [version |-> 1, whole |-> TRUE]])
  /\ UNCHANGED <<forecast, drift, failures>>

\* The fingerprint is taken of the file as it is now.
ModelReference(x) ==
  /\ scoring[x].step = "loaded"
  /\ model # NoFile
  /\ Goes(x, [scoring[x] EXCEPT !.step = "insert", !.reference = model])
  /\ UNCHANGED <<forecast, drift, failures>>

\* One row for each site of the frame; the later rows of an hour hide the former ones.
WritePredictions(x) ==
  LET r == scoring[x]
      Row(s, v) ==
        [status |-> IF s \in r.able THEN "available" ELSE "insufficient_data",
         value |-> IF s \in r.able THEN v ELSE None,
         reference |-> r.reference, maker |-> r.maker, raced |-> r.raced]
  IN /\ r.step = "insert"
     /\ \E v \in Values :
          forecast' = [s \in Sites |-> [h \in Hours |->
            IF [site |-> s, target |-> h] \in r.frame THEN Row(s, v) ELSE forecast[s][h]]]
     /\ Goes(x, NoScoring)
     /\ drift' = Outdated
     /\ UNCHANGED failures

\* Mutant: one attempt too many.
OneMore(r) == r.tries <= Retries

\* Airflow tries again, with the readings of that moment.
TriesAgain(r) == r.tries < Retries

\* The model is missing or cut where LightGBM refuses it, the database lost or the time over.
FailScoring(x) ==
  /\ scoring[x].step # "idle"
  /\ \/ scoring[x].step = "load" /\ ~model.whole /\ UNCHANGED failures
     \/ scoring[x].step = "loaded" /\ model = NoFile /\ UNCHANGED failures
     \/ failures < mix.failures /\ failures' = failures + 1
  /\ Goes(x, IF x = "dag" /\ TriesAgain(scoring[x])
             THEN [NoScoring EXCEPT !.step = "read", !.instant = now, !.sites = Sites,
                                    !.tries = scoring[x].tries + 1]
             ELSE NoScoring)
  /\ UNCHANGED <<forecast, drift>>

-----------------------------------------------------------------------------
(* Drift *)

Watches(x, r) ==
  /\ drift' = [drift EXCEPT ![x] = r]
  /\ UNCHANGED <<now, reading, forecast, model, training, scoring, mix>>

End(r) == r.instant - Grace
From(r) == End(r) - Window

\* The DAG measures all sites, once a day; by hand, one site and another instant maybe.
Evaluate(x) ==
  /\ drift[x].step = "idle"
  /\ x \in mix.drift /\ runs < mix.runs
  /\ runs' = runs + 1
  /\ \E sites \in IF x = "dag" THEN {Sites} ELSE mix.asked,
        instant \in IF x = "dag" THEN {now} ELSE mix.instants :
       Watches(x, [NoDrift EXCEPT !.step = "recent", !.instant = instant, !.sites = sites])
  /\ UNCHANGED <<report, failures>>

ReadRecentPairs(x) ==
  LET r == drift[x]
  IN /\ r.step = "recent"
     /\ Watches(x, [r EXCEPT !.step = "former",
                             !.pairs = Pairs(forecast, reading, r.sites, From(r), End(r))])
     /\ UNCHANGED <<report, runs, failures>>

ReadFormerPairs(x) ==
  LET r == drift[x]
  IN /\ r.step = "former"
     /\ Watches(x, [r EXCEPT !.step = "counts",
                             !.former = Pairs(forecast, reading, r.sites, From(r) - Window, From(r))])
     /\ UNCHANGED <<report, runs, failures>>

ReadCounts(x) ==
  LET r == drift[x]
  IN /\ r.step = "counts"
     /\ Watches(x, [r EXCEPT !.step = "insert", !.pairs = {}, !.former = {},
                             !.rows = Reports(End(r), r.pairs, r.former,
                                              Counts(forecast, r.sites, From(r), End(r)))])
     /\ UNCHANGED <<report, runs, failures>>

\* uq_drift_report_window: the first row of a window and a site stays.
Record(x) ==
  /\ drift[x].step = "insert"
  /\ report' = report \cup
       {w \in drift[x].rows : ~\E k \in report : k.site = w.site /\ k.end = w.end}
  /\ Watches(x, NoDrift)
  /\ UNCHANGED <<runs, failures>>

\* It is not tried again.
FailDrift(x) ==
  /\ drift[x].step # "idle"
  /\ failures < mix.failures
  /\ failures' = failures + 1
  /\ Watches(x, NoDrift)
  /\ UNCHANGED <<report, runs>>

ScoringStep(x) ==
  LoadRecent(x) \/ LoadModel(x) \/ ModelReference(x) \/ WritePredictions(x) \/ FailScoring(x)
DriftStep(x) == ReadRecentPairs(x) \/ ReadFormerPairs(x) \/ ReadCounts(x) \/ Record(x)

Next ==
  \/ Ingest \/ Tick \/ Train \/ BeginSave \/ EndSave \/ LogToMlflow \/ FailTraining
  \/ \E x \in Starters : \/ Score(x) \/ ScoringStep(x)
                         \/ Evaluate(x) \/ DriftStep(x) \/ FailDrift(x)

\* The schedule comes round again, and a scoring that has started goes on or fails.
Fairness == WF_vars(Score("dag")) /\ WF_vars(ScoringStep("dag"))

Spec == Init /\ [][Next]_vars /\ Fairness

-----------------------------------------------------------------------------
(* Properties *)

TypeOK ==
  /\ now \in Hours /\ runs \in Nat /\ failures \in Nat /\ mix \in Mixes
  /\ reading \subseteq Reading
  /\ \A s \in Sites, h \in Hours : forecast[s][h] \in Forecast \cup {None}
  /\ report \subseteq Report
  /\ model \in Model
  /\ training \in {"idle", "fitting", "saving", "logging"}
  /\ scoring \in [Starters -> Scoring]
  /\ drift \in [Starters -> Drift]

\* A forecast that has a value is signed by the file it was computed with, whole or cut short,
\* unless a training was writing it from the loading to the fingerprint (score.py:65-70, 218-247).
OnlyTrainingsMissign ==
  \A s \in Sites, h \in Hours :
    LET f == forecast[s][h]
    IN f # None /\ f.status = "available" => f.reference = f.maker \/ f.raced

Verified(s, h) ==
  /\ forecast[s][h] # None /\ forecast[s][h].status = "available"
  /\ \E r \in reading : r.site = s /\ r.hour = h /\ r.kwh # None

LastMeasure(s, h) ==
  LET measures == {r \in reading : r.site = s /\ r.hour = h /\ r.kwh # None}
  IN CHOOSE r \in measures : \A q \in measures : q.id <= r.id

\* The forecast of site c[1] and hour c[2], and what was measured then.
Compared(c) ==
  [site |-> c[1], hour |-> c[2], predicted |-> forecast[c[1]][c[2]].value,
   actual |-> LastMeasure(c[1], c[2]).kwh, model |-> forecast[c[1]][c[2]].reference]

\* What a report must say of the tables, of one site or of all: each hour counts once, however
\* often it was scored or measured, and weighs its own error; enough hours and a covered week, or
\* no word of stability; no alarm on an exact model.
Exact(w) ==
  LET hours == Hours \cap (w.end - Window)..(w.end - 1)
      slots == {c \in (IF w.site = None THEN Sites ELSE {w.site}) \X hours : forecast[c[1]][c[2]] # None}
      seen == {c \in slots : Verified(c[1], c[2])}
      compared == {Compared(c) : c \in seen}
  IN /\ w.n = Cardinality(seen)
     /\ w.error = MapThenSumSet(ErrorOf, compared)
     /\ w.bias = MapThenSumSet(SignedErrorOf, compared)
     /\ w.n <= w.available
     /\ w.available + w.insufficient = Cardinality(slots)
     /\ (w.status = "indetermine") <=> (w.n < MinObservations)
     /\ w.status = "stable" => 10 * w.n >= 8 * w.available
     /\ w.status = "derive" => w.error > 0 \/ w.n < w.available
     /\ w.models = {forecast[c[1]][c[2]].reference : c \in seen}

\* A drift run during which nothing was written leaves an exact row for each of its sites that
\* has a forecast, and a global row, exact if it was asked for all sites, where no former run has
\* left its own (services/drift.py:96-175, repositories/drift.py:104-170).
FreshReportsAreExact ==
  [][\A x \in Starters :
       Record(x) /\ drift[x].fresh =>
         /\ \A w \in report' \ report : w.site # None \/ drift[x].sites = Sites => Exact(w)
         /\ \A s \in drift[x].sites \cup {None} :
              (s = None \/ \E h \in Hours : h \in From(drift[x])..(End(drift[x]) - 1) /\ forecast[s][h] # None)
                => \E w \in report' : w.site = s /\ w.end = End(drift[x])]_vars

Awaits(s, h) ==
  /\ model.whole
  /\ \E r \in reading : r.site = s /\ r.hour = h
  /\ \A r \in reading : r.site = s => r.hour <= h
  /\ now - h \in 0..MaxStaleness /\ now - h <= LookBack

\* A site whose last reading is not too old gets a forecast for the hour after it, or is told
\* why it has none, although attempts fail and models are replaced (score.py:73-156).
ForecastsCome ==
  \A s \in Sites, h \in Hours \ {MaxHour} :
    Awaits(s, h) ~> forecast[s][h + 1] # None \/ ~Awaits(s, h)
=============================================================================
