------------------------------ MODULE AlertPipeline ------------------------------
(***************************************************************************)
(* Alerts and recommendations: `alertes`, the hourly DAG, detects and then *)
(* advises; the scripts and POST /recommendations do the same by hand, at  *)
(* the same time.  Each run is one transaction of several statements; each *)
(* statement sees what has committed; a row of an INSERT ... ON CONFLICT   *)
(* DO NOTHING waits for an uncommitted row of the same key.  Readings and  *)
(* forecasts arrive meanwhile, late or twice for one hour.                 *)
(***************************************************************************)
EXTENDS AlertRules

CONSTANTS LookBack,        \* LOOKBACK, in hours
          Retries,         \* TENTATIVES of a task of the DAG
          Forecasts,       \* what a forecast may say, in kWh
          Mixes,           \* a behaviour draws one: the instants scripts are given by hand, what
                           \* the API may report, the historical files, how many hours, readings, forecasts and failures come
          MaxHour          \* bound of the clock

ASSUME PipelineAssumption ==
  /\ {LookBack, Retries, MaxHour} \subseteq Nat
  /\ Forecasts \subseteq Nat
  /\ Mixes \subseteq [hand : SUBSET (0..MaxHour), hours : 0..MaxHour,
                      readings : Nat, predictions : Nat, failures : Nat,
                      reports : SUBSET Report, files : Seq(File)]

VARIABLES now,         \* the hour it is
          reading,     \* committed rows of reading
          prediction,  \* committed rows of prediction whose status is available
          alert,       \* committed rows of alert, of source enervision
          advice,      \* committed rows of recommendation: [alert, rule]
          run,         \* the two processes
          failures,    \* attempts that have failed so far
          mix          \* the mix of this behaviour

vars == <<now, reading, prediction, alert, advice, run, failures, mix>>

Runs == {"dag", "hand"}
Hours == 0..MaxHour

\* A detection collects in todo the alerts it will insert, a generation the alerts whose
\* advice it will insert; done holds those it has inserted and not committed.
\* fresh: nothing has been written to its tables since it started.
Run == [task : {"idle", "detection", "recommendations"},
        step : {"readings", "predictions", "latest", "alerts", "insert"},
        tries : 0..Retries, instant : Hours, sites : SUBSET Sites, rows : SUBSET Reading,
        todo : SUBSET Alert, done : SUBSET Alert, fresh : BOOLEAN]

Started(task, tries, instant, sites) ==
  [task |-> task, step |-> IF task = "detection" THEN "readings" ELSE "alerts",
   tries |-> tries, instant |-> instant, sites |-> sites, rows |-> {}, todo |-> {}, done |-> {},
   fresh |-> TRUE]

Idle == Started("idle", 0, 0, {})

Init == /\ now = 0
        /\ reading = {} /\ prediction = {} /\ alert = {} /\ advice = {}
        /\ run = [x \in Runs |-> Idle]
        /\ failures = 0
        /\ mix \in Mixes

Keys(alerts) == {KeyOf(a) : a \in alerts}

\* The recommendations of some alerts.
Advised(alerts) == UNION {[alert : {KeyOf(a)}, rule : RulesOf(a)] : a \in alerts}

-----------------------------------------------------------------------------
(* What the runs read *)

Outdated == [x \in Runs |-> [run[x] EXCEPT !.fresh = (run[x].task # "detection")]]

\* The import from the API writes one row, of this hour or of a former one.
Ingest ==
  /\ Cardinality(reading) < mix.readings
  /\ \E s \in Sites, h \in 0..now, report \in mix.reports :
       /\ ~Imported(reading, s, h)
       /\ reading' = reading \cup {FromReport(report, Cardinality(reading), s, h)}
  /\ run' = Outdated
  /\ UNCHANGED <<now, prediction, alert, advice, failures, mix>>

\* A historical file is loaded as a whole, over whatever the API has sent, and again.
ImportHistorical ==
  /\ \E d \in 1..Len(mix.files) :
       /\ ValidateSource(mix.files[d])
       /\ reading' = Loaded(reading, EnsureDataset(mix.files, d), mix.files[d])
       /\ Cardinality(reading') <= mix.readings
  /\ run' = Outdated
  /\ UNCHANGED <<now, prediction, alert, advice, failures, mix>>

\* The scoring adds a row, even for an hour it has already forecast.
Predict ==
  /\ Cardinality(prediction) < mix.predictions
  /\ \E s \in Sites, h \in Hours, v \in Forecasts :
       prediction' = prediction \cup
         {[id |-> Cardinality(prediction), site |-> s, hour |-> h, kwh |-> v]}
  /\ run' = Outdated
  /\ UNCHANGED <<now, reading, alert, advice, failures, mix>>

Tick == /\ now < mix.hours
        /\ now' = now + 1
        /\ UNCHANGED <<reading, prediction, alert, advice, run, failures, mix>>

-----------------------------------------------------------------------------
(* Starting *)

\* Every hour, one run at a time.
Trigger ==
  /\ run["dag"].task = "idle"
  /\ run' = [run EXCEPT !["dag"] = Started("detection", 0, now, Sites)]
  /\ UNCHANGED <<now, reading, prediction, alert, advice, failures, mix>>

\* --now and --site-id of the scripts; the page of the recommendations asks for all sites.
StartByHand ==
  /\ mix.hand # {}
  /\ run["hand"].task = "idle"
  /\ \E sites \in {Sites} \cup {{s} : s \in Sites} :
       \/ \E instant \in mix.hand :
            run' = [run EXCEPT !["hand"] = Started("detection", 0, instant, sites)]
       \/ run' = [run EXCEPT !["hand"] = Started("recommendations", 0, 0, sites)]
  /\ UNCHANGED <<now, reading, prediction, alert, advice, failures, mix>>

-----------------------------------------------------------------------------
(* Statements *)

At(x, task, step) == run[x].task = task /\ run[x].step = step

Since(x, rows) ==
  {r \in rows : r.site \in run[x].sites /\ r.hour + LookBack >= run[x].instant}

ReadReadings(x) ==
  /\ At(x, "detection", "readings")
  /\ LET rows == Since(x, reading) IN
       run' = [run EXCEPT ![x].step = "predictions", ![x].rows = rows,
                          ![x].todo = Thresholds(rows) \cup Spikes(rows) \cup BadQualities(rows)]
  /\ UNCHANGED <<now, reading, prediction, alert, advice, failures, mix>>

ReadPredictions(x) ==
  /\ At(x, "detection", "predictions")
  /\ run' = [run EXCEPT ![x].step = "latest", ![x].rows = {},
                        ![x].todo = @ \cup Anomalies(run[x].rows, Since(x, prediction))]
  /\ UNCHANGED <<now, reading, prediction, alert, advice, failures, mix>>

\* Mutant: the last reading of a site is looked for in the window of the analysis.
ReadLatestInWindow(x) ==
  /\ At(x, "detection", "latest")
  /\ run' = [run EXCEPT ![x].step = "insert",
                        ![x].todo = @ \cup {a \in Outages(Since(x, reading), run[x].instant) :
                                              a.site \in run[x].sites}]
  /\ UNCHANGED <<now, reading, prediction, alert, advice, failures, mix>>

\* The last reading of each site, however old.
ReadLatest(x) ==
  /\ At(x, "detection", "latest")
  /\ run' = [run EXCEPT ![x].step = "insert",
                        ![x].todo = @ \cup {a \in Outages(reading, run[x].instant) :
                                              a.site \in run[x].sites}]
  /\ UNCHANGED <<now, reading, prediction, alert, advice, failures, mix>>

ReadAlerts(x) ==
  /\ At(x, "recommendations", "alerts")
  /\ run' = [run EXCEPT ![x].step = "insert", ![x].todo = {a \in alert : a.site \in run[x].sites}]
  /\ UNCHANGED <<now, reading, prediction, alert, advice, failures, mix>>

\* The rules run one after the other, each over the sites and hours in order.
Rank(a) == CASE a.type = "threshold" -> 0 [] a.type = "spike" -> 1 [] a.type = "anomaly" -> 2
             [] a.type = "outage" -> 3 [] a.type = "sensor" -> 4

Earlier(p, q) == q # None /\ (p = None \/ p < q)

Before(a, b) ==
  \/ Rank(a) < Rank(b)
  \/ Rank(a) = Rank(b) /\ a.site < b.site
  \/ Rank(a) = Rank(b) /\ a.site = b.site /\ Earlier(a.ref, b.ref)

\* Mutant: rows are inserted in no order.
FirstOfAny(rows) == rows

\* Every run of a task inserts in the same order.  (A generation goes from the last alert to
\* the first; this order stands for that one.)
NextOf(rows) == {a \in rows : \A b \in rows : ~Before(b, a)}

\* x waits for y to commit or to roll back the row it wants to insert.
WaitsFor(x, y, a) ==
  /\ x # y
  /\ run[y].task = run[x].task
  /\ KeyOf(a) \in Keys(run[y].done)

\* uq_alert_source_reference and uq_recommendation_alert_rule.
Present(x, a) == IF run[x].task = "detection" THEN KeyOf(a) \in Keys(alert) ELSE Advised({a}) \subseteq advice

Insert(x) ==
  /\ run[x].step = "insert"
  /\ \E a \in NextOf(run[x].todo) :
       /\ \A y \in Runs : ~WaitsFor(x, y, a)
       /\ run' = [run EXCEPT ![x].todo = @ \ {a},
                             ![x].done = IF Present(x, a) THEN @ ELSE @ \cup {a}]
  /\ UNCHANGED <<now, reading, prediction, alert, advice, failures, mix>>

-----------------------------------------------------------------------------
(* Ending *)

Commit(x) ==
  /\ run[x].step = "insert"
  /\ run[x].todo = {}
  /\ IF run[x].task = "detection"
     THEN alert' = alert \cup run[x].done /\ UNCHANGED advice
     ELSE advice' = advice \cup Advised(run[x].done) /\ UNCHANGED alert

\* detection >> recommendations.
Succeed(x) ==
  /\ Commit(x)
  /\ run' = [run EXCEPT ![x] = IF x = "dag" /\ run[x].task = "detection"
                               THEN Started("recommendations", 0, 0, Sites) ELSE Idle]
  /\ UNCHANGED <<now, reading, prediction, failures, mix>>

\* Airflow starts a failed attempt again, at the hour it is; after the last one the run of the
\* DAG is over.  Nobody starts a script again.
TryAgain(x) ==
  /\ failures < mix.failures
  /\ failures' = failures + 1
  /\ run' = [run EXCEPT ![x] =
       IF x = "dag" /\ run[x].tries < Retries
       THEN Started(run[x].task, run[x].tries + 1,
                    IF run[x].task = "detection" THEN now ELSE 0, Sites)
       ELSE Idle]
  /\ UNCHANGED <<now, reading, prediction, mix>>

\* The process dies, or execution_timeout kills it: what it has inserted is rolled back.
Fail(x) == /\ run[x].task # "idle"
           /\ TryAgain(x)
           /\ UNCHANGED <<alert, advice>>

\* It dies after its commit: the attempt has failed although its rows are there.
FailCommitted(x) == Commit(x) /\ TryAgain(x)

Step(x) == ReadReadings(x) \/ ReadPredictions(x) \/ ReadLatest(x) \/ ReadAlerts(x)
             \/ Insert(x) \/ Succeed(x)

Next == \/ Ingest \/ ImportHistorical \/ Predict \/ Tick \/ Trigger \/ StartByHand
        \/ \E x \in Runs : Step(x) \/ Fail(x) \/ FailCommitted(x)

\* The schedule comes round again and a process that is not blocked goes on.
Fairness == WF_vars(Trigger) /\ \A x \in Runs : WF_vars(Step(x))

Spec == Init /\ [][Next]_vars /\ Fairness

-----------------------------------------------------------------------------
(* Properties *)

TypeOK ==
  /\ now \in Hours
  /\ reading \subseteq Reading
  /\ prediction \subseteq Prediction
  /\ alert \subseteq Alert
  /\ advice \subseteq [alert : AlertKey, rule : Rules]
  /\ run \in [Runs -> Run]
  /\ failures \in Nat
  /\ mix \in Mixes

RowAt(r, a) == r.site = a.site /\ r.hour = a.ref

\* What the rules promise of an alert, said of the rows that have been stored.
Evidenced(a) ==
  CASE a.type = "threshold" ->
         /\ \E r \in reading : RowAt(r, a) /\ r.kw = a.value /\ r.kw > a.threshold
         /\ a.threshold = Capacity[a.site] /\ a.threshold > 0
         /\ a.severity = Severity(a.value, a.threshold)
    [] a.type = "spike" ->
         \E q, r \in reading :
           /\ RowAt(r, a) /\ q.site = r.site /\ q.hour < r.hour
           /\ q.kw = a.threshold /\ r.kw = a.value
           /\ Jumps(q.kw, r.kw) /\ a.severity = JumpSeverity(q.kw, r.kw)
    [] a.type = "anomaly" ->
         \E r \in reading, p \in prediction :
           /\ RowAt(r, a) /\ RowAt(p, a)
           /\ r.kwh = a.value /\ p.kwh = a.threshold /\ p.kwh > 0
           /\ 10 * Gap(r.kwh, p.kwh) >= 3 * p.kwh
           /\ a.severity = Severity(10 * Gap(r.kwh, p.kwh), 3 * p.kwh)
    [] a.type = "outage" ->
         \/ a.ref = None /\ a.severity = "critical"
         \/ /\ \E r \in reading : RowAt(r, a)
            /\ a.at - a.ref >= OutageAfter
            /\ a.severity = Severity(a.at - a.ref, OutageAfter)
    [] a.type = "sensor" ->
         \E r \in reading : RowAt(r, a) /\ r.quality \notin {"good", None}

\* Every alert rests on rows that are stored, measured against each other as its rule says,
\* and no event has two alerts, whatever run has drawn it and whatever has arrived since
\* (services/alert.py:111-323).
AlertsAreEvidenced ==
  /\ \A a \in alert : Evidenced(a)
  /\ \A a, b \in alert : KeyOf(a) = KeyOf(b) => a = b

\* Two runs that insert the same rows never wait for each other (repositories/alert.py:52,
\* repositories/recommendation.py:42).
NeverWaitOnEachOther ==
  \A x, y \in Runs : \A a \in NextOf(run[x].todo), b \in NextOf(run[y].todo) :
    ~(WaitsFor(x, y, a) /\ WaitsFor(y, x, b))

HasAlert(alerts, type, s, h) == \E a \in alerts : a.type = type /\ a.site = s /\ a.ref = h

Consecutive(q, r) ==
  q.site = r.site /\ q.hour < r.hour
    /\ ~\E c \in reading : c.site = r.site /\ c.hour \in q.hour..r.hour /\ c \notin {q, r}

\* An outage is told of the last reading there is, which a file may have put before the clock.
NamesTheLast(a) ==
  IF a.ref = None THEN \A r \in reading : r.site # a.site
  ELSE /\ \E r \in reading : RowAt(r, a)
       /\ \A r \in reading : r.site = a.site => r.hour <= a.ref

\* The facts an analysis of `sites` at `instant` must not miss, each with its alert.
Missed(alerts, sites, instant) ==
  \E s \in sites :
    LET window == {r \in reading : r.site = s /\ r.hour >= instant - LookBack}
    IN \/ \E r \in window :
            \/ /\ Capacity[s] > 0 /\ r.kw # None /\ r.kw > Capacity[s]
               /\ ~HasAlert(alerts, "threshold", s, r.hour)
            \/ r.refused /\ ~HasAlert(alerts, "sensor", s, r.hour)
            \/ r.quality \in {"partial", "degraded", "critical"} /\ ~HasAlert(alerts, "sensor", s, r.hour)
            \/ \E q \in window : /\ Consecutive(q, r) /\ Jumps(q.kw, r.kw)
                                 /\ ~HasAlert(alerts, "spike", s, r.hour)
            \/ \E p \in prediction :
                 /\ Deviates(r, p) /\ ~\E q \in prediction : SameSlot(q, p) /\ q.id > p.id
                 /\ ~HasAlert(alerts, "anomaly", s, r.hour)
       \/ /\ \A r \in reading : r.site = s => instant - r.hour >= OutageAfter
          /\ ~\E a \in alerts : a.type = "outage" /\ a.site = s /\ NamesTheLast(a)
       \* The page of the sensors shows a fault that no alert tells of, unless the quality
       \* of the last reading is null, which only the page takes for critical.
       \/ /\ Health(reading, s).overall # "ok"
          /\ \A r \in reading : r.site = s => r.hour >= instant - LookBack /\ r.quality # None
          /\ \A a \in alerts : a.site = s => a.type \notin {"sensor", "outage"}

\* A detection during which nothing has arrived leaves an alert for every fact of its window,
\* rows that another run has inserted meanwhile included (services/alert.py:57-98).
FreshRunsMissNothing ==
  [][\A x \in Runs :
       Commit(x) /\ run[x].task = "detection" /\ run[x].fresh
         => ~Missed(alert', run[x].sites, run[x].instant)]_vars

\* An alert has all of its advice or none, escalation for the critical ones and the contract
\* for those 20 % above their threshold included, and only an alert that is there has any,
\* however often its runs overlap, die or come again (services/recommendation.py:51-62).
AdviceExact ==
  /\ \A d \in advice : d.alert \in Keys(alert)
  /\ \A a \in alert :
       LET rules == {d.rule : d \in {d \in advice : d.alert = KeyOf(a)}}
       IN rules = {} \/
          /\ ("escalade-astreinte-v1" \in rules) <=> a.severity = "critical"
          /\ ("contrat-puissance-v1" \in rules) <=> FarAbove(a)
          /\ rules \cap {OfType(t) : t \in Types} = {OfType(a.type)}

Silence(s, h) ==
  /\ \E r \in reading : r.site = s /\ r.hour = h
  /\ \A r \in reading : r.site = s => r.hour <= h
  /\ now - h >= OutageAfter

\* The operator is told what to do about a site that stays silent, although attempts fail and
\* runs by hand hold the rows (dags/alertes.py:25-65).
SilenceIsAdvised ==
  \A s \in Sites, h \in Hours :
    Silence(s, h) ~> \/ ~Silence(s, h)
                     \/ \E d \in advice : d.alert = [site |-> s, type |-> "outage", ref |-> h]
=============================================================================
