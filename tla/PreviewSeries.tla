--------------------------- MODULE PreviewSeries ---------------------------
(***************************************************************************)
(* What the previews of a topic draw: AgHealthPreview, the redo of         *)
(* AgRedoSecondaryPreview, PleTrendPreview and TempdbMemoryPreview.  Each  *)
(* puts the findings of a range into buckets of a few minutes, draws lines *)
(* over them, may lay the line of an earlier range beside them, and sums   *)
(* the newest readings up in cards.                                        *)
(*                                                                         *)
(* f.m are the metrics of a finding, Null where it has none.  A series is  *)
(* a function from the numbers of its buckets, from 0, to points.  Times   *)
(* are minutes.  Colours, labels, units and the replica a card names are   *)
(* left out.                                                               *)
(***************************************************************************)
EXTENDS ConsoleStore

CONSTANTS Thresholds,  (* metric -> [warning, critical], where it has them   *)
          KeyOf        (* name -> the name with every run of characters that *)
                       (* are no letters or digits made one "_"              *)

-----------------------------------------------------------------------------
(* Buckets.                                                                *)

BucketMinutes(topic) == IF topic \in {"ag_health", "ag_redo_secondary"} THEN 2 ELSE 5

FloorToBucket(at, width) == at - (at % width)

CeilToBucket(at, width) ==
  IF at % width = 0 THEN at ELSE at + (width - (at % width))

\* A day back for today, a week for this week, else by the length of the
\* range.
ShiftBack(range, resolved) ==
  IF range = [mode |-> "preset", id |-> "today"] THEN 1440
  ELSE IF range = [mode |-> "preset", id |-> "this_week"] THEN 7 * 1440
  ELSE resolved.to - resolved.from

\* A custom range that is empty goes back by a millisecond: the minutes from
\* its begin to before its end, none.
CompareRange(range, resolved) ==
  LET by == ShiftBack(range, resolved)
  IN  IF by > 0 THEN [from |-> resolved.from - by, to |-> resolved.to - by]
      ELSE [from |-> resolved.from, to |-> resolved.to - 1]

\* Mutant: the series ends before the bucket that ends the range.
BucketsBefore(range, width) ==
  {k \in 0 .. (CeilToBucket(range.to, width) - FloorToBucket(range.from, width)) \div width :
     FloorToBucket(range.from, width) + k * width < CeilToBucket(range.to, width)}

\* The buckets of a range, numbered.
Buckets(range, width) ==
  0 .. (CeilToBucket(range.to, width) - FloorToBucket(range.from, width)) \div width

BucketOf(at, range, width) ==
  (FloorToBucket(at, width) - FloorToBucket(range.from, width)) \div width

\* The places of the findings of each bucket.
PlacesIn(items, places, range, width) ==
  [k \in Buckets(range, width) |->
     {i \in places : BucketOf(items[i].at, range, width) = k}]

\* The label of a bucket of the earlier range is that of the shown range.
DisplayedAt(k, displayFrom, width) == FloorToBucket(displayFrom, width) + k * width

\* The newest of some places: they are sorted by time, and of the same time
\* the later item comes later.
NewestPlace(items, places) ==
  CHOOSE i \in places :
    \A j \in places : \/ items[j].at < items[i].at
                      \/ items[j].at = items[i].at /\ j <= i

\* The newest value that is known, of those the places have.
LatestValue(items, values) ==
  LET known == {i \in DOMAIN values : values[i] # Null}
  IN  IF known = {} THEN Null ELSE values[NewestPlace(items, known)]

-----------------------------------------------------------------------------
(* The availability group: a line for each replica.                        *)

\* The node stands in for the name of the replica.
ReplicaOf(f) ==
  IF f.replica # "" THEN f.replica ELSE IF f.node # "" THEN f.node ELSE "unknown"

FilterByReplica(items, replica) ==
  {i \in DOMAIN items : replica \in {Null, items[i].replica}}

HealthReading(f) == f.m.queue # Null \/ f.m.rate # Null \/ f.suspended

\* The lines of replicas whose names have one key are drawn from one value:
\* that of the replica which the bucket was the last to hear of.
DrawnUnder(items, readings, key) ==
  LET firsts == {i \in readings :
                   /\ KeyOf[ReplicaOf(items[i])] = key
                   /\ \A j \in readings : ReplicaOf(items[j]) = ReplicaOf(items[i]) =>
                        \/ items[i].at < items[j].at
                        \/ items[i].at = items[j].at /\ i <= j}
  IN  ReplicaOf(items[NewestPlace(items, firsts)])

HealthPoint(items, places) ==
  LET readings == {i \in places : HealthReading(items[i])}
      NewestOf(r) == items[NewestPlace(items, {i \in readings : ReplicaOf(items[i]) = r})]
  IN  [ samples   |-> Cardinality(readings),
        suspended |-> Cardinality({i \in readings : items[i].suspended}),
        replicas  |-> [r \in {ReplicaOf(items[i]) : i \in readings} |->
                         [queue |-> NewestOf(r).m.queue, rate |-> NewestOf(r).m.rate]],
        drawn     |-> [key \in {KeyOf[ReplicaOf(items[i])] : i \in readings} |->
                         DrawnUnder(items, readings, key)] ]

\* A lag below zero is none.
RedoLag(f) == IF f.m.lag = Null \/ f.m.lag >= 0 THEN f.m.lag ELSE 0

RedoReading(f) == HealthReading(f) \/ RedoLag(f) # Null

RedoPoint(items, places) ==
  LET readings == {i \in places : RedoReading(items[i])}
      NewestOf(r) == items[NewestPlace(items, {i \in readings : ReplicaOf(items[i]) = r})]
  IN  [ samples   |-> Cardinality(readings),
        suspended |-> Cardinality({i \in readings : items[i].suspended}),
        replicas  |-> [r \in {ReplicaOf(items[i]) : i \in readings} |->
                         [ queue |-> NewestOf(r).m.queue, lag |-> RedoLag(NewestOf(r)),
                           rate |-> NewestOf(r).m.rate, suspended |-> NewestOf(r).suspended ]],
        drawn     |-> [key \in {KeyOf[ReplicaOf(items[i])] : i \in readings} |->
                         DrawnUnder(items, readings, key)] ]

ReplicaNames(series) == UNION {DOMAIN series[k].replicas : k \in DOMAIN series}

Reported(series) == {k \in DOMAIN series : DOMAIN series[k].replicas # {}}

\* The last bucket in which a replica reported.
NoSnapshot == [samples |-> 0, suspended |-> 0, replicas |-> <<>>, drawn |-> <<>>]

LatestSnapshot(series) ==
  IF Reported(series) = {} THEN NoSnapshot ELSE series[Max(Reported(series))]

Severity(value, metric) ==
  IF metric \notin DOMAIN Thresholds THEN "normal"
  ELSE IF value >= Thresholds[metric].critical THEN "critical"
  ELSE IF value >= Thresholds[metric].warning THEN "warning" ELSE "normal"

Tone(severity) ==
  CASE severity = "critical" -> "bad" [] severity = "warning" -> "warn" [] OTHER -> "good"

\* Of the memory metrics one is bad when it is low.
HigherIsWorse(value, metric) == IF value = Null THEN "good" ELSE Tone(Severity(value, metric))

LowerIsWorse(value, metric) ==
  IF value = Null \/ metric \notin DOMAIN Thresholds THEN "good"
  ELSE IF value <= Thresholds[metric].critical THEN "bad"
  ELSE IF value <= Thresholds[metric].warning THEN "warn" ELSE "good"

\* previous: what the hint compares the value with, or Null.
Card(value, previous, tone) == [value |-> value, previous |-> previous, tone |-> tone]

\* What the replicas of a point say of a metric, without the Nulls.
ValuesOf(point, replicas, metric) ==
  {point.replicas[r][metric] : r \in replicas \cap DOMAIN point.replicas} \ {Null}

Highest(values) == Max(values \cup {0})

Lowest(values) == IF values = {} THEN 0 ELSE Min(values)

HealthSummary(point, replicas) ==
  [ maxQueue  |-> Highest(ValuesOf(point, replicas, "queue")),
    minRate   |-> Lowest(ValuesOf(point, replicas, "rate")),
    suspended |-> point.suspended ]

Lags(p) ==
  \/ p.suspended
  \/ \E metric \in {"queue", "lag"} \cap DOMAIN Thresholds :
       p[metric] # Null /\ p[metric] >= Thresholds[metric].warning

RedoSummary(point, replicas) ==
  [ maxQueue |-> Highest(ValuesOf(point, replicas, "queue")),
    maxLag   |-> Highest(ValuesOf(point, replicas, "lag")),
    minRate  |-> Lowest(ValuesOf(point, replicas, "rate")),
    lagging  |-> Cardinality({r \in replicas \cap DOMAIN point.replicas :
                                Lags(point.replicas[r])}) ]

-----------------------------------------------------------------------------
(* Memory: one line for the cluster, and one for each NUMA node.           *)

\* A finding that brings its own deviation keeps it; percents are whole.
DeviationPct(f) ==
  IF f.m.deviation # Null THEN f.m.deviation
  ELSE IF f.m.ple = Null \/ f.m.baseline \in {Null, 0} THEN Null
  ELSE ((f.m.baseline - f.m.ple) * 100) \div f.m.baseline

NoPle == [ple |-> Null, baseline |-> Null, deviation |-> Null]

\* The last finding of a bucket is the bucket.
PlePoint(items, places) ==
  LET f == items[NewestPlace(items, places)]
  IN  IF places = {} THEN NoPle
      ELSE [ple |-> f.m.ple, baseline |-> f.m.baseline, deviation |-> DeviationPct(f)]

DeviationTone(deviation) ==
  IF deviation = Null THEN "good"
  ELSE IF deviation > 50 THEN "bad" ELSE IF deviation > 25 THEN "warn" ELSE "good"

PleReported(series) ==
  {k \in DOMAIN series : series[k].ple # Null \/ series[k].baseline # Null}

LatestPlePoint(series) ==
  IF PleReported(series) = {} THEN NoPle ELSE series[Max(PleReported(series))]

\* A NUMA node is known by the key of its name.
NodeOf(f) == IF f.numa = Null THEN Null ELSE KeyOf[f.numa]

OfNode(f, node) == IF NodeOf(f) = node THEN f.m.ple ELSE Null

LatestOf(items, places, metric) == LatestValue(items, [i \in places |-> items[i].m[metric]])

LatestPle(items, places, node) == LatestValue(items, [i \in places |-> OfNode(items[i], node)])

\* Each metric of a bucket is the last one that came, each NUMA node has
\* its own.
TempdbPoint(items, places) ==
  [ ple    |-> LatestPle(items, places, Null),
    grants |-> LatestOf(items, places, "grants"),
    used   |-> LatestOf(items, places, "used"),
    store  |-> LatestOf(items, places, "store"),
    nodes  |-> [n \in {NodeOf(items[i]) : i \in {j \in places : items[j].m.ple # Null}} \ {Null} |->
                  LatestPle(items, places, n)] ]

NumaNodes(series) == UNION {DOMAIN series[k].nodes : k \in DOMAIN series}

\* The cards are made of the findings, not of the series.
TempdbSnapshot(items, places) ==
  LET whole == LatestPle(items, places, Null)
  IN  [ ple    |-> IF whole # Null THEN whole ELSE LatestOf(items, places, "ple"),
        grants |-> LatestOf(items, places, "grants"),
        used   |-> LatestOf(items, places, "used"),
        store  |-> LatestOf(items, places, "store") ]

HasTempdbData(series) ==
  \E k \in DOMAIN series : \E metric \in {"ple", "used", "store", "grants"} :
    series[k][metric] # Null

-----------------------------------------------------------------------------
(* Lines.                                                                  *)

Series(topic, items, places, range) ==
  LET cells == PlacesIn(items, places, range, BucketMinutes(topic))
  IN  CASE topic = "ag_health" -> [k \in DOMAIN cells |-> HealthPoint(items, cells[k])]
        [] topic = "ag_redo_secondary" -> [k \in DOMAIN cells |-> RedoPoint(items, cells[k])]
        [] topic = "ple_trend" -> [k \in DOMAIN cells |-> PlePoint(items, cells[k])]
        [] topic = "tempdb_memory" -> [k \in DOMAIN cells |-> TempdbPoint(items, cells[k])]

\* The two series side by side, bucket by bucket: the earlier one has none
\* where it is shorter, and is cut where it is longer.
MergeCompare(current, past) ==
  [now |-> current, past |-> [k \in (DOMAIN current) \cap DOMAIN past |-> past[k]]]

\* when is "now" or "past"; who is a replica, the key of a NUMA node or Null.
\* A line finds its values by the key of its replica.
ReplicaLine(chart, metric, r, when) ==
  [ of |-> metric, who |-> r, when |-> when,
    values |-> [k \in DOMAIN chart.now |->
                  IF k \notin DOMAIN chart[when] \/ KeyOf[r] \notin DOMAIN chart[when][k].drawn THEN Null
                  ELSE LET point == chart[when][k] IN point.replicas[point.drawn[KeyOf[r]]][metric]] ]

PointLine(chart, metric, when) ==
  [ of |-> metric, who |-> Null, when |-> when,
    values |-> [k \in DOMAIN chart.now |->
                  IF k \notin DOMAIN chart[when] THEN Null ELSE chart[when][k][metric]] ]

NodeLine(chart, node) ==
  [ of |-> "ple", who |-> node, when |-> "now",
    values |-> [k \in DOMAIN chart.now |->
                  IF node \notin DOMAIN chart.now[k].nodes THEN Null ELSE chart.now[k].nodes[node]] ]

HealthQueueLines(chart, visible, whens) ==
  {ReplicaLine(chart, "queue", r, w) : r \in visible, w \in whens}

HealthRateLines(chart, visible, whens) ==
  {ReplicaLine(chart, "rate", r, w) : r \in visible, w \in whens}

RedoQueueLagLines(chart, visible, whens) ==
  {ReplicaLine(chart, metric, r, w) : metric \in {"queue", "lag"}, r \in visible, w \in whens}

RedoRateLines(chart, visible, whens) ==
  {ReplicaLine(chart, "rate", r, w) : r \in visible, w \in whens}

PleBaselineLines(chart, whens) ==
  {PointLine(chart, metric, w) : metric \in {"ple", "baseline"}, w \in whens}

DeviationLines(chart, whens) == {PointLine(chart, "deviation", w) : w \in whens}

TempdbPleLines(chart, nodes, whens) ==
  {PointLine(chart, "ple", w) : w \in whens} \cup {NodeLine(chart, n) : n \in nodes}

TempdbSpaceLines(chart, whens) ==
  {PointLine(chart, metric, w) : metric \in {"used", "store"}, w \in whens}

-----------------------------------------------------------------------------
(* The tooltip of a bucket: the lines of the chart that have a value there. *)

Tooltip(lines, k) ==
  {[of |-> l.of, who |-> l.who, when |-> l.when, value |-> l.values[k]] :
     l \in {m \in lines : m.values[k] # Null}}

\* That of the redo queue and lag has one row for a replica, which does not
\* tell the earlier range from the shown one: the earlier value stands where
\* the shown range has none.
RedoTooltip(lines, k) ==
  LET told == Tooltip(lines, k)
      Of(r, metric, when) == {t.value : t \in {u \in told : u.who = r /\ u.of = metric /\ u.when = when}}
      Shown(r, metric) ==
        LET now == Of(r, metric, "now")
        IN  IF now # {} THEN now ELSE Of(r, metric, "past")
  IN  [r \in {t.who : t \in told} |-> [queue |-> Shown(r, "queue"), lag |-> Shown(r, "lag")]]
=============================================================================
