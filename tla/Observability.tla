---------------------------- MODULE Observability ---------------------------
(***************************************************************************)
(* The observability manager (infrastructure/observability/manager.py):    *)
(* bounded metrics with a type per name and a cap on series, spans that    *)
(* record metrics of their own, and health checks, which run between two   *)
(* sections under the health lock.  Logs and spans are kept like metrics.  *)
(***************************************************************************)
EXTENDS Integers, FiniteSets, Sequences, SequencesExt

CONSTANTS
  Metrics,         \* metric names, the internal ones of spans among them
  Labels,          \* label sets
  MaxSeries,       \* maximum_metric_series
  MaxKept,         \* maximum_records_per_type
  HealthChecks,
  Runners          \* tasks inside run_health_checks

ASSUME ObservabilityAssumption ==
  /\ MaxSeries \in Nat \ {0} /\ MaxKept \in Nat \ {0}

VARIABLES
  points,       \* _metrics
  series,       \* _metric_series
  types,        \* _metric_types
  checked,      \* keys of _health_checks
  latestHealth, \* _latest_health
  running,      \* each runner: the checks it copied, if it runs
  late          \* history: checks unregistered while a run had a copy of them

obsVars == <<points, series, types, checked, latestHealth, running, late>>

MetricTypes == {"counter", "gauge", "histogram"}
Point == [name : Metrics, type : MetricTypes, labels : Labels]

ObsTypeOK ==
  /\ points \in Seq(Point) /\ Len(points) <= MaxKept
  /\ series \subseteq Metrics \X Labels
  /\ types \in [Metrics -> MetricTypes \cup {"none"}]
  /\ checked \subseteq HealthChecks
  /\ latestHealth \in [HealthChecks -> {"none", "healthy", "degraded", "unhealthy"}]
  /\ running \in [Runners -> [runs : BOOLEAN, copy : SUBSET HealthChecks]]
  /\ late \subseteq HealthChecks

ObsInit ==
  /\ points = <<>>
  /\ series = {}
  /\ types = [m \in Metrics |-> "none"]
  /\ checked = {}
  /\ latestHealth = [h \in HealthChecks |-> "none"]
  /\ running = [r \in Runners |-> [runs |-> FALSE, copy |-> {}]]
  /\ late = {}

UnchangedHealth == UNCHANGED <<checked, latestHealth, running, late>>

\* Mutant: nothing is ever dropped.
Unbounded(s, p) == Append(s, p)

(* _append_bounded: the oldest records go.                                 *)
Bounded(s, p) ==
  LET longer == Append(s, p) IN
  IF Len(longer) > MaxKept THEN Tail(longer) ELSE longer

TypeFits(m, type) == types[m] \in {"none", type}
SeriesFits(m, labels) == <<m, labels>> \in series \/ Cardinality(series) < MaxSeries

(* counter, gauge, histogram, and the metrics a span records when it ends, *)
(* which are dropped where a caller's are refused (_metric,                *)
(* _append_internal_metric_unlocked).  The type is claimed even if the cap *)
(* on series then refuses the point.                                       *)
Observe(m, type, labels) ==
  /\ TypeFits(m, type)
  /\ types' = [types EXCEPT ![m] = type]
  /\ IF SeriesFits(m, labels)
     THEN /\ series' = series \cup {<<m, labels>>}
          /\ points' = Bounded(points, [name |-> m, type |-> type, labels |-> labels])
     ELSE UNCHANGED <<series, points>>
  /\ UnchangedHealth

RegisterHealthCheck(h) ==
  /\ checked' = checked \cup {h}
  /\ UNCHANGED <<points, series, types, latestHealth, running, late>>

UnregisterHealthCheck(h) ==
  /\ checked' = checked \ {h}
  /\ latestHealth' = [latestHealth EXCEPT ![h] = "none"]
  /\ late' = IF \E r \in Runners : h \in running[r].copy THEN late \cup {h} ELSE late
  /\ UNCHANGED <<points, series, types, running>>

RunHealthChecks(r) ==
  /\ ~running[r].runs
  /\ running' = [running EXCEPT ![r] = [runs |-> TRUE, copy |-> checked]]
  /\ UNCHANGED <<points, series, types, checked, latestHealth, late>>

(* Every check of the copy has answered, raised or timed out, which are    *)
(* all a result; the results are written whatever was unregistered since.  *)
HealthChecksRan(r, result) ==
  /\ running[r].runs
  /\ latestHealth' = [h \in HealthChecks |->
       IF h \in running[r].copy THEN result[h] ELSE latestHealth[h]]
  /\ running' = [running EXCEPT ![r] = [runs |-> FALSE, copy |-> {}]]
  /\ UNCHANGED <<points, series, types, checked, late>>

Results == [HealthChecks -> {"healthy", "degraded", "unhealthy"}]

ObsNext ==
  \/ \E m \in Metrics, type \in MetricTypes, labels \in Labels : Observe(m, type, labels)
  \/ \E h \in HealthChecks : RegisterHealthCheck(h) \/ UnregisterHealthCheck(h)
  \/ \E r \in Runners :
       RunHealthChecks(r) \/ \E result \in Results : HealthChecksRan(r, result)

(* The kept points of a name have one type and a counted series, and the   *)
(* series stay within the cap, whichever of a caller and a span used the   *)
(* name first (_metric, _append_internal_metric_unlocked).                 *)
MetricsAgree ==
  /\ Cardinality(series) <= MaxSeries
  /\ \A i, j \in DOMAIN points : points[i].name = points[j].name => points[i].type = points[j].type
  /\ \A i \in DOMAIN points : <<points[i].name, points[i].labels>> \in series

(* Only a registered check has a latest result, unless it was unregistered *)
(* while a run that had copied it was under way (run_health_checks).       *)
HealthIsRegistered ==
  \A h \in HealthChecks : latestHealth[h] # "none" => h \in checked \cup late
=============================================================================
