------------------------------ MODULE Previews ------------------------------
(***************************************************************************)
(* The preview of a topic on the dashboard: it asks the API for all the    *)
(* findings of the shown range, a page after another, and for those of an  *)
(* earlier range when the DBA compares, and draws what PreviewSeries makes *)
(* of them.  While a new answer is on its way the old one is still drawn.  *)
(* AgHealthPreview, AgRedoSecondaryPreview, PleTrendPreview and            *)
(* TempdbMemoryPreview are mounted in turn, by the topic, and differ in    *)
(* what they draw.                                                         *)
(***************************************************************************)
EXTENDS Dashboard, PreviewSeries

CONSTANT PreviewRanges  (* ranges a DBA chooses: members of TimeRange        *)

Metrics == {"queue", "lag", "rate", "ple", "baseline", "deviation", "grants", "used", "store"}

\* A custom range has numbers for ends.  A metric of a finding is a number or
\* not there.  A finding with a deviation has what deviates: the detector of
\* Layer 1 writes the ple_sec it compared into each.  A replica has a name.
ASSUME ReadingsAssumption ==
  /\ Null \notin Int
  /\ \A r \in PreviewRanges :
       \/ r \in {Preset(id) : id \in Presets}
       \/ r.mode = "absolute" /\ r.from \in Int /\ r.to \in Int
  /\ \A f \in AllFindings :
       /\ \A metric \in Metrics : f.m[metric] \in Int \cup {Null}
       /\ f.m.deviation # Null => f.m.ple # Null \/ f.m.baseline # Null
       /\ ReplicaOf(f) # Null

\* hidden: replicas whose lines the legend turned off.  now, past: the
\* answers for the shown range and the earlier one.
VARIABLE preview

\* items: what is drawn; got: the pages of an answer so far;
\* asked: the query has no answer yet.
NoAnswer == [items |-> <<>>, got |-> <<>>, asked |-> TRUE]

NoPreview == [hidden |-> {}, now |-> NoAnswer, past |-> NoAnswer]

-----------------------------------------------------------------------------
(* What is asked for.                                                      *)

ResolvedNow(s) == ResolveTimeRange(s.range, s.anchor)

AskedRange(s, which) ==
  IF which = "now" THEN ResolvedNow(s) ELSE CompareRange(s.range, ResolvedNow(s))

QueryKey(s, which) == <<FindingsQuery(s), AskedRange(s, which)>>

\* A query with another key is asked anew; the items stay in place of its
\* answer.
UnderKey(s, which, answer) ==
  IF QueryKey(s, which) = QueryKey(store, which) THEN answer
  ELSE [answer EXCEPT !.got = <<>>, !.asked = TRUE]

Enabled(which) == which = "now" \/ store.compare

-----------------------------------------------------------------------------
(* What is drawn.                                                          *)

\* The places of the findings that are drawn.
Drawable(s, answer) ==
  IF s.topic \in ReplicaTopics THEN FilterByReplica(answer.items, s.filters.replica)
  ELSE DOMAIN answer.items

SeriesOf(s, p, which) ==
  Series(s.topic, p[which].items, Drawable(s, p[which]), AskedRange(s, which))

NowSeries(s, p)  == SeriesOf(s, p, "now")
PastSeries(s, p) == IF s.compare THEN SeriesOf(s, p, "past") ELSE <<>>

Chart == MergeCompare(NowSeries(store, preview), PastSeries(store, preview))

Whens == IF store.compare THEN {"now", "past"} ELSE {"now"}

LegendReplicas(s, p) ==
  IF s.topic \in ReplicaTopics THEN ReplicaNames(NowSeries(s, p)) ELSE {}

\* The buttons of the legend: on, unless hidden.
Legend == [r \in LegendReplicas(store, preview) |-> r \notin preview.hidden]

VisibleReplicas == {r \in DOMAIN Legend : Legend[r]}

\* No data, no charts: the page says so.
HasCharts ==
  LET now == NowSeries(store, preview)
  IN  CASE store.topic \in ReplicaTopics -> Reported(now) # {}
        [] store.topic = "ple_trend"     -> PleReported(now) # {}
        [] OTHER                         -> HasTempdbData(now)

Lines ==
  IF ~HasCharts THEN {}
  ELSE CASE store.topic = "ag_health" ->
              HealthQueueLines(Chart, VisibleReplicas, Whens)
                \cup HealthRateLines(Chart, VisibleReplicas, Whens)
         [] store.topic = "ag_redo_secondary" ->
              RedoQueueLagLines(Chart, VisibleReplicas, Whens)
                \cup RedoRateLines(Chart, VisibleReplicas, Whens)
         [] store.topic = "ple_trend" ->
              PleBaselineLines(Chart, Whens) \cup DeviationLines(Chart, Whens)
         [] OTHER ->
              TempdbPleLines(Chart, NumaNodes(NowSeries(store, preview)), Whens)
                \cup TempdbSpaceLines(Chart, Whens)

\* The cards of each preview: the last snapshot beside that of the earlier
\* range, of the same replicas.
HealthCards(now, past) ==
  LET current  == HealthSummary(LatestSnapshot(now), ReplicaNames(now))
      previous == HealthSummary(LatestSnapshot(past), ReplicaNames(now))
  IN  [ queue     |-> Card(current.maxQueue, previous.maxQueue, Tone(Severity(current.maxQueue, "queue"))),
        rate      |-> Card(current.minRate, previous.minRate, "good"),
        suspended |-> Card(current.suspended, previous.suspended,
                           Tone(Severity(current.suspended, "suspended"))) ]

\* samples: all that came, whichever replica is filtered.
RedoCards(now, past) ==
  LET current  == RedoSummary(LatestSnapshot(now), ReplicaNames(now))
      previous == RedoSummary(LatestSnapshot(past), ReplicaNames(now))
  IN  [ queue   |-> Card(current.maxQueue, previous.maxQueue, Tone(Severity(current.maxQueue, "queue"))),
        lag     |-> Card(current.maxLag, previous.maxLag, Tone(Severity(current.maxLag, "lag"))),
        rate    |-> Card(current.minRate, previous.minRate, "good"),
        samples |-> Card(Len(preview.now.items), LatestSnapshot(now).samples, "good") ]

PleCards(now) ==
  LET latest == LatestPlePoint(now)
      tone   == DeviationTone(latest.deviation)
  IN  [ ple |-> Card(latest.ple, Null, tone), baseline |-> Card(latest.baseline, Null, "good"),
        deviation |-> Card(latest.deviation, Null, tone) ]

TempdbCards ==
  LET latest == TempdbSnapshot(preview.now.items, Drawable(store, preview.now))
  IN  [metric \in {"ple", "grants", "used", "store"} |->
         Card(latest[metric], Null, IF metric = "ple" THEN LowerIsWorse(latest.ple, "ple")
                                    ELSE HigherIsWorse(latest[metric], metric))]

-----------------------------------------------------------------------------
(* Steps.                                                                  *)

\* The preview under what the step made of the store: queries with new keys
\* are asked, and an effect forgets hidden replicas that are not there.
Rerendered(p) ==
  LET under == [p EXCEPT !.now = UnderKey(store', "now", @), !.past = UnderKey(store', "past", @)]
  IN  [under EXCEPT !.hidden = @ \cap LegendReplicas(store', under)]

ChoosePreviewRange ==
  \E r \in PreviewRanges \ {store.range} : DashboardClick(SetTimeRange(store, r))

\* fetchAll...Findings: a page of the answer; the last one ends it.
FetchPreviewPage(which) ==
  LET answer == preview[which]
      query  == FindingsQuery(store)
      reply  == ListFindings(query, AskedRange(store, which), Len(answer.got) \div PageLimit)
      all    == answer.got \o reply.items
  IN  /\ Enabled(which) /\ answer.asked
      /\ preview' =
           Rerendered([preview EXCEPT ![which] =
             IF Len(all) >= reply.total \/ Len(reply.items) < PageLimit
             THEN [items |-> all, got |-> <<>>, asked |-> FALSE]
             ELSE [answer EXCEPT !.got = all]])

\* A page that fails takes the ones before it with it.
FailPreviewPage(which) ==
  /\ Enabled(which) /\ preview[which].got # <<>>
  /\ preview' = [preview EXCEPT ![which].got = <<>>]

\* ManualRefreshButton under an absolute range, or the window regains focus.
AskPreviewAgain(which) ==
  /\ Enabled(which) /\ ~preview[which].asked
  /\ LET items == preview[which].items
     IN  \/ ~IsInjective(items)
         \/ ToSet(items) # Matches(FindingsQuery(store), AskedRange(store, which))
  /\ preview' = [preview EXCEPT ![which].asked = TRUE]

ToggleReplica ==
  /\ HasCharts
  /\ dash.clicks < MaxDashboardClicks
  /\ \E r \in DOMAIN Legend :
       preview' = [preview EXCEPT !.hidden = IF r \in @ THEN @ \ {r} ELSE @ \cup {r}]
  /\ dash' = [dash EXCEPT !.clicks = @ + 1]

PreviewAnswers ==
  /\ UNCHANGED <<store, dash, clock>>
  /\ \E which \in {"now", "past"} :
       FetchPreviewPage(which) \/ FailPreviewPage(which) \/ AskPreviewAgain(which)

PreviewStep ==
  \/ PreviewAnswers
  \/ ToggleReplica /\ UNCHANGED <<store, clock>>
  \/ /\ \/ CompareWithPast \/ FilterReplica \/ ChoosePreviewRange
        \/ ManualRefresh \/ ToggleLive \/ LiveRefresh \/ TimePasses
     /\ preview' = Rerendered(preview)

-----------------------------------------------------------------------------
(* Properties.                                                             *)

\* All pages of the answer came, and nothing was detected between them.
Answered(which) ==
  /\ Enabled(which) /\ ~preview[which].asked
  /\ IsInjective(preview[which].items)
  /\ ToSet(preview[which].items) = Matches(FindingsQuery(store), AskedRange(store, which))

\* What the two previews of a group read of a finding.
Reads(topic, f) == IF topic = "ag_health" THEN HealthReading(f) ELSE RedoReading(f)

Reading(f, metric) == IF metric = "lag" THEN RedoLag(f) ELSE f.m[metric]

\* No other replica that is drawn has the key of r.
Alone(series, r) == \A q \in ReplicaNames(series) : KeyOf[q] = KeyOf[r] => q = r

\* A finding of the range with a reading is counted in one bucket.  What a
\* line tells of a bucket is what a replica with its key had there, and the
\* newest reading of a replica that is alone with its key is the last that
\* its lines tell of, though the range ends within a bucket or right at one.
ReadingsAreDrawn ==
  LET now   == NowSeries(store, preview)
      items == preview.now.items
      found == {i \in Drawable(store, preview.now) : Reads(store.topic, items[i])}
  IN  /\ SumOf([k \in DOMAIN now |-> now[k].samples]) = Cardinality({items[i] : i \in found})
      /\ \A line \in {l \in Lines : l.when = "now"} :
           LET newest == items[NewestPlace(items, {i \in found : ReplicaOf(items[i]) = line.who})]
               last   == BucketOf(newest.at, ResolvedNow(store), BucketMinutes(store.topic))
           IN  /\ \A k \in DOMAIN line.values : line.values[k] # Null =>
                    \E r \in DOMAIN now[k].replicas :
                      KeyOf[r] = KeyOf[line.who] /\ line.values[k] = now[k].replicas[r][line.of]
               /\ Alone(now, line.who) =>
                    /\ line.values[last] = Reading(newest, line.of)
                    /\ \A k \in DOMAIN line.values : k > last => line.values[k] = Null

\* The last value of a line.
EndOf(values) ==
  LET drawn == {k \in DOMAIN values : values[k] # Null}
  IN  IF drawn = {} THEN Null ELSE values[Max(drawn)]

GroupCard(topic, now, past, metric) ==
  (IF topic = "ag_health" THEN HealthCards(now, past) ELSE RedoCards(now, past))[metric].value

\* The cards are made from the findings, the lines from the series: a card
\* shows the value its line ends with, and those of a group are no better
\* than what any replica of the last bucket has.
CardsEndLines ==
  LET now == NowSeries(store, preview)
  IN  \A line \in {l \in Lines : l.when = "now"} :
        CASE store.topic = "ple_trend" ->
               PleCards(now)[line.of].value \in {Null, EndOf(line.values)}
          [] store.topic = "tempdb_memory" ->
               line.who = Null /\ EndOf(line.values) # Null =>
                 TempdbCards[line.of].value = EndOf(line.values)
          [] OTHER ->
               LET k    == Max(Reported(now))
                   card == GroupCard(store.topic, now, PastSeries(store, preview), line.of)
               IN  line.values[k] # Null =>
                     IF line.of = "rate" THEN card <= line.values[k] ELSE card >= line.values[k]

\* The tooltip of a bucket tells of each replica it names no more than what
\* the lines of that bucket have.
TooltipsTellLines ==
  store.topic = "ag_redo_secondary" =>
    \A k \in DOMAIN Chart.now :
      LET rows == RedoTooltip({l \in Lines : l.of # "rate"}, k)
      IN  /\ DOMAIN rows \subseteq VisibleReplicas
          /\ \A r \in DOMAIN rows : \A metric \in {"queue", "lag"} :
               \A v \in rows[r][metric] :
                 \E l \in Lines : l.who = r /\ l.of = metric /\ l.values[k] = v

\* A reading of the earlier range that is the last of its bucket has a place
\* under the current ones, in the bucket of the same distance from the start,
\* or in a neighbour of it where the ranges cut buckets differently.  The line
\* of a replica tells of it there, unless another has its key.
PastIsBelow ==
  LET width == BucketMinutes(store.topic)
      shown == ResolvedNow(store)
      range == AskedRange(store, "past")
      by    == shown.from - range.from
      past  == PastSeries(store, preview)
  IN  \A line \in {l \in Lines : l.when = "past"} : \A i \in Drawable(store, preview.past) :
        LET f    == preview.past.items[i]
            k    == BucketOf(f.at, range, width)
            here == DisplayedAt(k, shown.from, width)
            same == FloorToBucket(f.at + by, width)
        IN  /\ k \in DOMAIN line.values
            /\ here - same \in {-width, 0, width}
            /\ by % width = 0 => here = same
            /\ line.who = Null => line.values[k] = past[k][line.of]
            /\ line.who # Null /\ line.who \in DOMAIN past[k].replicas /\ Alone(past, line.who) =>
                 line.values[k] = past[k].replicas[line.who][line.of]
=============================================================================
