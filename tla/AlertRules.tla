------------------------------- MODULE AlertRules -------------------------------
(***************************************************************************)
(* The pure rules of the alerts: services/alert.py draws alerts from       *)
(* readings and forecasts, recommendation_rules.py advice from an alert,   *)
(* sensor.py the health of a site from its last reading.  Ratios of the    *)
(* code are compared by multiplication; hours are whole.                   *)
(***************************************************************************)
EXTENDS IngestRules

CONSTANTS Capacity,     \* capacity_kw of each site, 0 when none is declared
          OutageAfter   \* OUTAGE_THRESHOLD, in hours

Severities == {"low", "medium", "high", "critical"}

ASSUME RulesAssumption ==
  OutageAfter \in Nat \ {0} /\ Capacity \in [Sites -> Nat] /\ None \notin Severities

Prediction == [id : Nat, site : Sites, hour : Int, kwh : Nat]

Types == {"threshold", "spike", "anomaly", "outage", "sensor"}

\* ref is what source_alert_id names with the type: the hour of a reading, or None ("jamais").
AlertKey == [site : Sites, type : Types, ref : Int \cup {None}]

Alert == [site : Sites, type : Types, ref : Int \cup {None}, at : Int, severity : Severities,
          value : Nat \cup {None}, threshold : Nat \cup {None}]

KeyOf(a) == [site |-> a.site, type |-> a.type, ref |-> a.ref]

\* What the null quality of a reading is read as, by the status of the sensors only.
QualityOrCritical(q) == IF q = None THEN "critical" ELSE q

-----------------------------------------------------------------------------
(* Severities *)

\* _severity_from_ratio of num / den.
Severity(num, den) ==
  CASE num >= 2 * den -> "critical"
    [] 2 * num >= 3 * den /\ num < 2 * den -> "high"
    [] 5 * num >= 6 * den /\ 2 * num < 3 * den -> "medium"
    [] OTHER -> "low"

QualitySeverity(q) ==
  CASE q = "partial" -> "low" [] q = "degraded" -> "medium" [] q = "critical" -> "critical"
    [] OTHER -> None

Gap(a, b) == IF a < b THEN b - a ELSE a - b

-----------------------------------------------------------------------------
(* The five rules, over the rows a run has read *)

SameSlot(a, b) == a.site = b.site /\ a.hour = b.hour

\* Two candidates of one slot have one reference: the first to be inserted wins.
FirstOfSlot(rows) == {r \in rows : \A q \in rows : SameSlot(q, r) => r.id <= q.id}

Raised(r, type, severity, value, threshold) ==
  [site |-> r.site, type |-> type, ref |-> r.hour, at |-> r.hour, severity |-> severity,
   value |-> value, threshold |-> threshold]

OverCapacity(r) == r.kw # None /\ Capacity[r.site] > 0 /\ r.kw > Capacity[r.site]

Thresholds(rows) ==
  {Raised(r, "threshold", Severity(r.kw, Capacity[r.site]), r.kw, Capacity[r.site]) :
     r \in FirstOfSlot({r \in rows : OverCapacity(r)})}

\* Mutant: the rows are sorted from the last hour to the first.
FollowsBackwards(rows, a, b) ==
  /\ a.site = b.site
  /\ b.hour < a.hour
  /\ ~\E c \in rows : c.site = a.site /\ b.hour < c.hour /\ c.hour < a.hour
  /\ ~\E c \in rows : SameSlot(c, a) /\ c.id < a.id
  /\ ~\E c \in rows : SameSlot(c, b) /\ c.id > b.id

\* b is compared with a: the last row of an hour with the first row of the next hour there is.
Follows(rows, a, b) ==
  /\ a.site = b.site
  /\ a.hour < b.hour
  /\ ~\E c \in rows : c.site = a.site /\ a.hour < c.hour /\ c.hour < b.hour
  /\ ~\E c \in rows : SameSlot(c, a) /\ c.id > a.id
  /\ ~\E c \in rows : SameSlot(c, b) /\ c.id < b.id

Jumps(before, after) ==
  /\ before # None /\ after # None
  /\ IF before = 0 THEN after > 0 ELSE 2 * Gap(before, after) >= before

JumpSeverity(before, after) ==
  IF before = 0 THEN "critical" ELSE Severity(2 * Gap(before, after), before)

Spikes(rows) ==
  {Raised(p[2], "spike", JumpSeverity(p[1].kw, p[2].kw), p[2].kw, p[1].kw) :
     p \in {p \in rows \X rows : Follows(rows, p[1], p[2]) /\ Jumps(p[1].kw, p[2].kw)}}

\* The dictionary of the forecasts keeps the last one of each slot.
LastOfSlot(preds) == {p \in preds : \A q \in preds : SameSlot(q, p) => q.id <= p.id}

Deviates(r, p) ==
  /\ SameSlot(r, p)
  /\ r.kwh # None /\ p.kwh > 0
  /\ 10 * Gap(r.kwh, p.kwh) >= 3 * p.kwh

Anomalies(rows, preds) ==
  {Raised(d[1], "anomaly", Severity(10 * Gap(d[1].kwh, d[2].kwh), 3 * d[2].kwh), d[1].kwh, d[2].kwh) :
     d \in {d \in rows \X LastOfSlot(preds) :
              /\ Deviates(d[1], d[2])
              /\ \A q \in rows : Deviates(q, d[2]) => d[1].id <= q.id}}

\* The last row of a site, by hour and then by insertion.
IsLast(rows, r) ==
  \A q \in rows : q.site = r.site => q.hour < r.hour \/ (q.hour = r.hour /\ q.id <= r.id)

Silent(s, ref, severity, instant) ==
  [site |-> s, type |-> "outage", ref |-> ref, at |-> instant, severity |-> severity,
   value |-> None, threshold |-> None]

Outages(rows, instant) ==
  {Silent(r.site, r.hour, Severity(instant - r.hour, OutageAfter), instant) :
     r \in {r \in rows : IsLast(rows, r) /\ instant - r.hour >= OutageAfter}}
  \cup {Silent(s, None, "critical", instant) : s \in {s \in Sites : \A r \in rows : r.site # s}}

\* Mutant: the readings of good quality are not left out.
AllQualities(rows) ==
  {Raised(r, "sensor", QualitySeverity(r.quality), None, None) : r \in FirstOfSlot(rows)}

BadQualities(rows) ==
  {Raised(r, "sensor", QualitySeverity(r.quality), None, None) :
     r \in FirstOfSlot({r \in rows : QualitySeverity(r.quality) # None})}

-----------------------------------------------------------------------------
(* Advice *)

Rules == {"spike-delestage-v1", "threshold-reduction-v1", "outage-secours-v1",
          "sensor-maintenance-v1", "anomaly-verification-v1", "escalade-astreinte-v1",
          "contrat-puissance-v1"}

OfType(type) ==
  CASE type = "spike" -> "spike-delestage-v1"
    [] type = "threshold" -> "threshold-reduction-v1"
    [] type = "outage" -> "outage-secours-v1"
    [] type = "sensor" -> "sensor-maintenance-v1"
    [] type = "anomaly" -> "anomaly-verification-v1"

FarAbove(a) ==
  /\ a.value # None /\ a.threshold # None
  /\ a.threshold > 0
  /\ 5 * a.value >= 6 * a.threshold

\* Mutant: the first rule that matches ends the search.
FirstRule(a) == {OfType(a.type)}

RulesOf(a) ==
  {OfType(a.type)}
  \cup {r \in {"escalade-astreinte-v1"} : a.severity = "critical"}
  \cup {r \in {"contrat-puissance-v1"} : FarAbove(a)}

-----------------------------------------------------------------------------
(* The health of a site, as the page of the sensors shows it *)

Overall(q) == CASE q = "good" -> "ok" [] q = "critical" -> "critical" [] OTHER -> "degraded"

Health(rows, s) ==
  IF \A r \in rows : r.site # s
  THEN [overall |-> "critical", failing |-> Sensors]
  ELSE LET last == CHOOSE r \in rows : r.site = s /\ IsLast(rows, r)
           overall == Overall(QualityOrCritical(last.quality))
       IN [overall |-> overall,
           failing |-> IF overall = "critical" THEN Sensors ELSE last.dead]
=============================================================================
