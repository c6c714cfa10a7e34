----------------------------- MODULE Dashboard -----------------------------
(***************************************************************************)
(* The dashboard (DashboardPage.tsx): the findings of a topic, a cluster   *)
(* and a time range, under the filters of the filter bar, as a list, as    *)
(* counts by severity, as a timeline and as statistics by query.           *)
(*                                                                         *)
(* The range, the filters, the topic and the page of the list live in the  *)
(* store; the bar keeps a draft of the query hash that a timer applies.    *)
(* Each view asks the API for itself (findings-service.ts).  Times are     *)
(* minutes of the wall clock, which is what findings are stored with, and  *)
(* minute 0 begins a Monday; days have 24 hours.                           *)
(***************************************************************************)
EXTENDS ConsoleStore

CONSTANTS AllFindings,   (* what Layer 1 detects, in the end                 *)
          Topics,        (* the topics, as the API lists them                *)
          StartMinute,   (* the first instant                                *)
          LastMinute,    (* bound: the last one                              *)
          TimeZone,      (* minutes the wall clock is ahead of UTC           *)
          CustomRanges,  (* what a DBA types: <<from, to>>                   *)
          MaxDashboardClicks  (* bound: clicks in one visit of the page      *)

\* Instants are numbers.
ASSUME InstantsAssumption ==
  /\ StartMinute \in Nat /\ \A f \in AllFindings : f.at \in Nat
  /\ TimeZone \in Int
  /\ \A r \in CustomRanges : r[1] \in Int /\ r[2] \in Int

VARIABLES clock,  (* the wall clock                                         *)
          dash    (* the page                                               *)

Severities == {"CRITICAL", "WARNING", "INFO"}

\* A database keeps finitely many findings, each of one of the severities and
\* with an id of its own.
ASSUME FindingsAssumption ==
  /\ IsFiniteSet(AllFindings)
  /\ \A f \in AllFindings : f.severity \in Severities /\ f.id \in Nat
  /\ \A f, g \in AllFindings : f.id = g.id => f = g
  /\ Null \notin Severities

\* detected_at is the instant a finding appears.
Detected == {f \in AllFindings : f.at <= clock}

-----------------------------------------------------------------------------
(* Time ranges.                                                            *)

Preset(id)             == [mode |-> "preset", id |-> id]
AbsoluteRange(from, to) == [mode |-> "absolute", from |-> from, to |-> to]

Day == 1440

StartOfDay(at)  == at - (at % Day)
StartOfWeek(at) == at - (at % (7 * Day))

\* The presets that go back by a number of minutes.
LengthOf ==
  [ last_1_minute |-> 1, last_15_minutes |-> 15, last_30_minutes |-> 30,
    last_1_hour |-> 60, last_24_hours |-> Day, last_7_days |-> 7 * Day,
    last_30_days |-> 30 * Day ]

Presets == DOMAIN LengthOf \cup {"today", "this_week"}

\* The last hour stands in for a preset that is not known.
ResolvePreset(id, anchor) ==
  [ from |-> IF id = "today" THEN StartOfDay(anchor)
             ELSE IF id = "this_week" THEN StartOfWeek(anchor)
             ELSE anchor - LengthOf[IF id \in Presets THEN id ELSE "last_1_hour"],
    to   |-> anchor ]

\* A range is a preset or absolute: nothing in the console makes a relative
\* one.
ResolveTimeRange(range, anchor) ==
  IF range.mode = "absolute" THEN [from |-> range.from, to |-> range.to]
  ELSE ResolvePreset(range.id, anchor)

ChooseTimelineIntervalMinutes(range) ==
  LET minutes == range.to - range.from
  IN  IF minutes <= 180 THEN 5
      ELSE IF minutes <= 1440 THEN 30
      ELSE IF minutes <= 4320 THEN 60
      ELSE IF minutes <= 20160 THEN 180
      ELSE IF minutes <= 64800 THEN 720 ELSE 1440

Shown == ResolveTimeRange(store.range, store.anchor)

-----------------------------------------------------------------------------
(* The API.  A field of a query that is Null is not asked for.             *)

\* buildFindingsQuery, buildTimelineQuery: the replica is no part of them.
FindingsQuery(s) ==
  [ cluster |-> s.cluster, topic |-> s.topic, severity |-> s.filters.severity,
    blocked |-> s.filters.blocking, hash |-> s.filters.queryHash ]

Wanted(f, query) ==
  \A field \in DOMAIN query : query[field] \in {Null, f[field]}

Matches(query, range) ==
  {f \in Detected : Wanted(f, query) /\ range.from <= f.at /\ f.at <= range.to}

\* Newest first; of the same minute by id.
ListFindings(query, range, page) ==
  LET found == Matches(query, range)
      Before(f) == {g \in found : g.at > f.at \/ (g.at = f.at /\ g.id < f.id)}
      all == [i \in 1 .. Cardinality(found) |->
                CHOOSE f \in found : Cardinality(Before(f)) = i - 1]
  IN  [total |-> Len(all), items |-> PageOf(all, page)]

\* Mutant: the buckets begin where the range begins.
TimelineUnfloored(query, range, interval) ==
  LET starts == {range.from + interval * k : k \in 0 .. ((range.to - range.from) \div interval)}
      found  == Matches(query, range)
      In(ts) == {f \in found : f.at - (f.at % interval) = ts}
  IN  [ts \in starts |->
         [s \in Severities |-> Cardinality({f \in In(ts) : f.severity = s})]]

\* getFindingTimeline: the findings of a bucket by severity, for every bucket
\* from the one the range begins in.
Timeline(query, range, interval) ==
  LET starts == {interval * k : k \in (range.from \div interval) .. (range.to \div interval)}
      found  == Matches(query, range)
      In(ts) == {f \in found : f.at - (f.at % interval) = ts}
  IN  [ts \in starts |->
         [s \in Severities |-> Cardinality({f \in In(ts) : f.severity = s})]]

\* getSlowQueryStats without its limit: how often each query was slow.
SlowQueryStats(query, range) ==
  LET found == {f \in Matches([query EXCEPT !.topic = "slow_sessions"], range) : f.hash # ""}
  IN  [h \in {f.hash : f \in found} |-> Cardinality({f \in found : f.hash = h})]

\* fetchReplicaOptions.
ReplicaOptions(cluster, topic) ==
  {f.replica : f \in {g \in Detected : g.topic = topic /\ cluster \in {Null, g.cluster}}} \ {""}

-----------------------------------------------------------------------------
(* What the page makes of it.                                              *)

\* KpiCards: a card asks for its severity whatever the filter says.
SeverityCount(s) ==
  Cardinality(Matches([FindingsQuery(store) EXCEPT !.severity = s], Shown))

TotalCount == Cardinality(Matches(FindingsQuery(store), Shown))

\* TimelineChart draws from local instants: the ends of the chart are
\* multiples of the interval in UTC, the buckets are so on the wall clock.
FloorTime(at, interval) == at - ((at - TimeZone) % interval)
CeilTime(at, interval)  == at + ((TimeZone - at) % interval)

Drawn(timeline, range, interval) ==
  {ts \in DOMAIN timeline : /\ ts + interval > FloorTime(range.from, interval)
                            /\ ts < CeilTime(range.to, interval)}

\* FindingsTable: the replica is filtered in the page of rows that came.
RowsShown(list) ==
  IF list = Null THEN <<>>
  ELSE SelectSeq(list.items, LAMBDA f : store.filters.replica \in {Null, f.replica})

TotalShown(list) ==
  IF list = Null THEN 0
  ELSE IF store.filters.replica # Null THEN Len(RowsShown(list))
  ELSE list.total

-----------------------------------------------------------------------------
(* The page.  draft: the text in the query hash input.  list: the answer   *)
(* the table shows, which may be that of an earlier query.                 *)

NoDashboard == [draft |-> "", statsOpen |-> FALSE, list |-> Null, clicks |-> 0]

ReplicaTopics == {"ag_health", "ag_redo_secondary"}
CompareTopics == ReplicaTopics \cup {"tempdb_memory", "ple_trend"}

TextOf(hash) == IF hash = Null THEN "" ELSE hash

\* The store becomes s; the draft follows a query hash that changes.
StoreBecomes(s, page) ==
  /\ store' = s
  /\ dash' = IF s.filters.queryHash = store.filters.queryHash THEN page
             ELSE [page EXCEPT !.draft = TextOf(s.filters.queryHash)]
  /\ UNCHANGED clock

DashboardClick(s) ==
  /\ dash.clicks < MaxDashboardClicks
  /\ StoreBecomes(s, [dash EXCEPT !.clicks = @ + 1])

\* The default topic, once the topics are there.
DefaultTopic ==
  /\ store.topic = Null
  /\ StoreBecomes(SetActiveTopicId(store, IF "slow_sessions" \in ToSet(Topics)
                                          THEN "slow_sessions" ELSE Topics[1]), dash)

SelectTopic == \E t \in ToSet(Topics) : DashboardClick(SetActiveTopicId(store, t))

\* The alert status is filtered as the severity is.
FilterSeverity ==
  \E v \in {Null, "CRITICAL"} \ {store.filters.severity} :
    DashboardClick(SetFilters(store, [store.filters EXCEPT !.severity = v]))

FilterBlocking ==
  /\ store.topic = "slow_sessions"
  /\ \E v \in {Null, TRUE} \ {store.filters.blocking} :
       DashboardClick(SetFilters(store, [store.filters EXCEPT !.blocking = v]))

FilterReplica ==
  /\ store.topic \in ReplicaTopics
  /\ \E v \in ({Null} \cup ReplicaOptions(store.cluster, store.topic)) \ {store.filters.replica} :
       DashboardClick(SetFilters(store, [store.filters EXCEPT !.replica = v]))

TypeQueryHash ==
  /\ store.topic = "slow_sessions"
  /\ dash.clicks < MaxDashboardClicks
  /\ \E text \in {"", "ab", "AB"} \ {dash.draft} :
       dash' = [dash EXCEPT !.draft = text, !.clicks = @ + 1]
  /\ UNCHANGED <<store, clock>>

\* What the draft asks for: trimmed, in capitals.
Asked(draft) == IF draft = "" THEN Null ELSE "AB"

\* The timer of 300 ms; it is there only with the input.
QueryHashTimer ==
  /\ store.topic = "slow_sessions"
  /\ Asked(dash.draft) # store.filters.queryHash
  /\ StoreBecomes(SetFilters(store, [store.filters EXCEPT !.queryHash = Asked(dash.draft)]), dash)

ClearFilters ==
  /\ store.filters # NoFilters
  /\ DashboardClick(SetFilters(store, NoFilters))

CompareWithPast ==
  /\ store.topic \in CompareTopics
  /\ DashboardClick([store EXCEPT !.compare = ~@])

ApplyPreset ==
  \E id \in Presets : DashboardClick(SetTimeRange(store, Preset(id)))

ApplyCustom ==
  \E r \in CustomRanges : DashboardClick(SetTimeRange(store, AbsoluteRange(r[1], r[2])))

\* Not beyond the days around now (a bound).
Shift ==
  LET length == IF Shown.to - Shown.from < 1 THEN 1 ELSE Shown.to - Shown.from
  IN  \E by \in {length, -length} :
        /\ Shown.from + by > 0 /\ Shown.to + by > 0
        /\ DashboardClick(SetTimeRange(store, AbsoluteRange(Shown.from + by, Shown.to + by)))

\* ManualRefreshButton; an absolute range has its queries run again instead.
ManualRefresh ==
  /\ ~store.live
  /\ store.range.mode # "absolute"
  /\ DashboardClick(RefreshNow(store, clock))

ToggleLive == DashboardClick([store EXCEPT !.live = ~@])

\* The interval of the LiveIndicator, which also runs when it starts.
LiveRefresh ==
  /\ store.live
  /\ store.range.mode # "absolute"
  /\ store.anchor # clock
  /\ StoreBecomes(RefreshNow(store, clock), dash)

ToggleSlowQueryStats ==
  /\ store.topic = "slow_sessions"
  /\ dash.clicks < MaxDashboardClicks
  /\ dash' = [dash EXCEPT !.statsOpen = ~@, !.clicks = @ + 1]
  /\ UNCHANGED <<store, clock>>

FetchFindings ==
  LET list == ListFindings(FindingsQuery(store), Shown, store.page)
  IN  /\ list # dash.list
      /\ dash' = [dash EXCEPT !.list = list]
      /\ UNCHANGED <<store, clock>>

\* The pager counts what is shown.
TurnFindingsPage ==
  LET pages == (TotalShown(dash.list) + PageLimit - 1) \div PageLimit
  IN  /\ TotalShown(dash.list) > PageLimit
      /\ \E p \in ((IF store.page > 0 THEN {0, store.page - 1} ELSE {})
                   \cup (IF store.page < pages - 1 THEN {store.page + 1, pages - 1} ELSE {})) :
           DashboardClick(SetPage(store, p))

TimePasses ==
  /\ clock < LastMinute
  /\ clock' = clock + 1
  /\ UNCHANGED <<store, dash>>

DashboardUser ==
  \/ SelectTopic \/ FilterSeverity \/ FilterBlocking \/ FilterReplica
  \/ TypeQueryHash \/ ClearFilters \/ CompareWithPast \/ ApplyPreset
  \/ ApplyCustom \/ Shift \/ ManualRefresh \/ ToggleLive
  \/ ToggleSlowQueryStats \/ TurnFindingsPage

DashboardStep ==
  \/ DashboardUser \/ DefaultTopic \/ QueryHashTimer \/ LiveRefresh \/ FetchFindings

-----------------------------------------------------------------------------
\* HiddenFiltersAreOff: a filter is in force only while the bar has its
\* control, and a replica only one that the selected cluster has.  Topics,
\* clusters, filters, the draft and its timer change the store one after
\* another, and a filter left behind would empty every view without a trace
\* (setActiveTopicId, setSelectedClusterId, FilterBar's timers).
HiddenFiltersAreOff ==
  LET f == store.filters
  IN  /\ f.blocking # Null \/ f.queryHash # Null => store.topic = "slow_sessions"
      /\ f.replica # Null =>
           /\ store.topic \in ReplicaTopics
           /\ \E g \in Detected : /\ g.replica = f.replica /\ g.topic = store.topic
                                  /\ store.cluster \in {Null, g.cluster}

\* All that is counted, in numbers by any key.
SumOf(counts) == Cardinality(UNION {{x} \X (1 .. counts[x]) : x \in DOMAIN counts})

\* The list is the answer to what the store asks for now.
ListIsNew ==
  /\ dash.list # Null
  /\ dash.list = ListFindings(FindingsQuery(store), Shown, store.page)

\* The views of the page tell of the same findings, though each is asked
\* for and cut by itself.  The buckets add up to the total card, the drawn
\* ones miss only what was detected at the last instant of the range, the
\* cards add up to the total card unless a severity is filtered, and the
\* queries count the slow sessions that have a hash.  The pager of the list,
\* once it is answered, counts them all too, unless a replica is filtered:
\* that is done in the rows of one page, and it counts what is left of them
\* (listFindings, getFindingTimeline, getSlowQueryStats, KpiCards,
\* FindingsTable).
SameFindings ==
  LET query    == FindingsQuery(store)
      found    == Matches(query, Shown)
      interval == ChooseTimelineIntervalMinutes(Shown)
      timeline == Timeline(query, Shown, interval)
      stats    == SlowQueryStats(query, Shown)
      InBuckets(B) == {f \in found : f.at - (f.at % interval) \in B}
  IN  /\ SumOf([b \in (DOMAIN timeline) \X Severities |-> timeline[b[1]][b[2]]]) = TotalCount
      /\ found \ InBuckets(Drawn(timeline, Shown, interval))
           \subseteq {f \in found : f.at = Shown.to}
      /\ IF store.filters.severity = Null
         THEN SumOf([s \in Severities |-> SeverityCount(s)]) = TotalCount
         ELSE SeverityCount(store.filters.severity) = TotalCount
      /\ store.topic = "slow_sessions" =>
           SumOf(stats) = Cardinality({f \in found : f.hash # ""})
      /\ ListIsNew /\ store.filters.replica = Null => TotalShown(dash.list) = TotalCount
=============================================================================
