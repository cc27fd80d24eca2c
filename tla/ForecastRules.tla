----------------------------- MODULE ForecastRules -----------------------------
(***************************************************************************)
(* The rules of the forecasts: which sites score.py can score, and how     *)
(* services/drift.py judges a week of forecasts against the week before.   *)
(* Features are positional: a lag of n hours is the n-th row before, holes *)
(* of the measures or not.  The numbers of the model are left out: a       *)
(* forecast may have any value.                                            *)
(***************************************************************************)
EXTENDS Integers, FiniteSets, FiniteSetsExt

CONSTANTS Sites,
          MaxHour,          \* bound of the clock
          LookBack,         \* LOOKBACK of score.py, in hours
          MaxStaleness,     \* MAX_STALENESS, in hours
          Lag,              \* the longest lag of the features, in rows
          Window, Grace,    \* fenetre and grace of the drift, in hours
          MinObservations,  \* min_observations
          BiasThreshold,    \* seuil_biais, 0 to leave the bias alone
          None

ASSUME ForecastAssumption ==
  /\ {MaxHour, LookBack, MaxStaleness, Grace, BiasThreshold} \subseteq Nat
  /\ {Lag, Window, MinObservations} \subseteq Nat \ {0}
  /\ None \notin Int /\ None \notin Sites /\ IsFiniteSet(Sites)

Hours == 0..MaxHour

\* id is the order of insertion, csv whether a file holds it and not the API.
Reading == [id : Nat, site : Sites, hour : Hours, csv : BOOLEAN, kwh : Nat \cup {None}]

\* The bytes of the model file: the training that wrote it, 0 before any, and whether all of it
\* is there; the bytes a dead training leaves are one value, wherever it died.  Two files have one
\* fingerprint when they are equal.
Model == [version : Nat, whole : BOOLEAN]

\* maker is the file that has computed the value, reference what model_reference names, raced
\* whether the file was being written at the loading, or between it and the fingerprint.
Forecast == [status : {"available", "insufficient_data"}, value : Nat \cup {None},
             reference : Model, maker : Model, raced : BOOLEAN]

-----------------------------------------------------------------------------
(* Scoring *)

\* One row for an hour: a file prevails over the API, then the last inserted.
Distinct(rows) ==
  {r \in rows : \A q \in rows :
     q.site = r.site /\ q.hour = r.hour => q = r \/ (r.csv /\ ~q.csv) \/ (r.csv = q.csv /\ q.id < r.id)}

Recent(rows, instant) == Distinct({r \in rows : r.hour \in (instant - LookBack)..instant})

OfSite(rows, s) == {r \in rows : r.site = s}

\* The row that the longest lag of the hour after the last one falls on.
LagRow(rows, s) ==
  {r \in OfSite(rows, s) : Cardinality({q \in OfSite(rows, s) : q.hour >= r.hour}) = Lag}

\* Mutant: the hour after the last row that has a measure.
MeasuredFrame(rows) ==
  {[site |-> r.site, target |-> r.hour + 1] :
     r \in {r \in rows : r.kwh # None /\ \A q \in OfSite(rows, r.site) : q.kwh # None => q.hour <= r.hour}}

\* What a site is scored for: the hour after its last row.
ScoringFrame(rows) ==
  {[site |-> r.site, target |-> r.hour + 1] :
     r \in {r \in rows : \A q \in OfSite(rows, r.site) : q.hour <= r.hour}}

Scorable(rows, f, instant) ==
  /\ instant - (f.target - 1) <= MaxStaleness
  /\ \E r \in LagRow(rows, f.site) : r.kwh # None

-----------------------------------------------------------------------------
(* Drift *)

\* Mutant: the last inserted row is taken first, and left out when it has no measure.
ActualOrNothing(rows, s, h) ==
  {r \in rows : /\ r.site = s /\ r.hour = h /\ r.kwh # None
                /\ \A q \in rows : q.site = s /\ q.hour = h => q.id <= r.id}

\* The reading a forecast is compared with: the last inserted one that has a measure.
Actual(rows, s, h) ==
  {r \in rows : /\ r.site = s /\ r.hour = h /\ r.kwh # None
                /\ \A q \in rows : q.site = s /\ q.hour = h /\ q.kwh # None => q.id <= r.id}

\* forecasts holds the last row of each site and hour.
Pairs(forecasts, rows, sites, from, to) ==
  {[site |-> r.site, hour |-> r.hour, predicted |-> forecasts[r.site][r.hour].value,
    actual |-> r.kwh, model |-> forecasts[r.site][r.hour].reference] :
     r \in {r \in rows : /\ r.site \in sites /\ r.hour \in from..(to - 1)
                         /\ r \in Actual(rows, r.site, r.hour)
                         /\ forecasts[r.site][r.hour] # None
                         /\ forecasts[r.site][r.hour].status = "available"}}

Counts(forecasts, sites, from, to) ==
  {[site |-> c[1], hour |-> c[2], status |-> forecasts[c[1]][c[2]].status] :
     c \in {c \in sites \X (Hours \cap from..(to - 1)) : forecasts[c[1]][c[2]] # None}}

Distance(a, b) == IF a < b THEN b - a ELSE a - b

ErrorOf(p) == Distance(p.predicted, p.actual)
SignedErrorOf(p) == p.predicted - p.actual

\* Sums over the pairs; their means are these by n.
Measured(pairs) ==
  [n |-> Cardinality(pairs), error |-> MapThenSumSet(ErrorOf, pairs),
   bias |-> MapThenSumSet(SignedErrorOf, pairs), models |-> {p.model : p \in pairs}]

Available(counts) == Cardinality({c \in counts : c.status = "available"})

\* A share of 80 %, a mean error 25 % above the one before; without a reference, no ceiling.
PoorlyCovered(n, available) == available > 0 /\ 5 * n < 4 * available
Worse(m, ref) == ref.n > 0 /\ 4 * m.error * ref.n > 5 * ref.error * m.n
Biased(m) == BiasThreshold > 0 /\ Distance(m.bias, 0) > BiasThreshold * m.n

Verdict(m, ref, available) ==
  IF m.n < MinObservations THEN "indetermine"
  ELSE IF PoorlyCovered(m.n, available) \/ Worse(m, ref) \/ Biased(m) THEN "derive"
  ELSE "stable"

\* site is None on the row of all sites.
Report == [site : Sites \cup {None}, end : Int, n : Nat, error : Nat, bias : Int,
           models : SUBSET Model, available : Nat, insufficient : Nat,
           status : {"indetermine", "derive", "stable"}]

ReportOn(site, end, pairs, former, counts) ==
  LET m == Measured(pairs)
  IN [site |-> site, end |-> end, n |-> m.n, error |-> m.error, bias |-> m.bias,
      models |-> m.models, available |-> Available(counts),
      insufficient |-> Cardinality(counts) - Available(counts),
      status |-> Verdict(m, Measured(former), Available(counts))]

\* One row for each site that has a pair or a forecast, and one for all of them.
Reports(end, pairs, former, counts) ==
  {ReportOn(s, end, OfSite(pairs, s), OfSite(former, s), OfSite(counts, s)) :
     s \in {p.site : p \in pairs} \cup {c.site : c \in counts}}
  \cup {ReportOn(None, end, pairs, former, counts)}
=============================================================================
