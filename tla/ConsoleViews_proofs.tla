------------------------ MODULE ConsoleViews_proofs -------------------------
(***************************************************************************)
(* That the views of a page agree, for every set of findings and captures: *)
(*                                                                         *)
(*   ViewsAgreeAlways    the timeline, the cards, the statistics and,      *)
(*                       unless a replica is filtered, the pager of the    *)
(*                       list of the dashboard count the same;             *)
(*   ChartsAgreeAlways   the list row, the trend and the charts of a       *)
(*                       table tell the same of each capture;              *)
(*   PreviewsAgreeAlways the lines, cards, tooltips and the legend of a    *)
(*                       preview tell of the findings it was answered.     *)
(***************************************************************************)
EXTENDS Console_proofs, FiniteSetTheorems, SequenceTheorems

\* What is counted by a key adds up to all there is.
LEMMA PartsAddUp ==
  ASSUME NEW S, IsFiniteSet(S), NEW Keys, NEW part \in [S -> Keys], NEW counts,
         DOMAIN counts = Keys,
         \A x \in Keys : counts[x] = Cardinality({f \in S : part[f] = x})
  PROVE  SumOf(counts) = Cardinality(S)
<1> DEFINE PartOf(x) == {f \in S : part[f] = x}
<1>1. ASSUME NEW x \in Keys
      PROVE  counts[x] \in Nat /\ Bijection(1 .. counts[x], PartOf(x)) # {}
  <2>1. IsFiniteSet(PartOf(x))
    BY FS_Subset
  <2> QED
    BY <2>1, FS_CardinalityType DEF ExistsBijection
<1> DEFINE number == [x \in Keys |-> CHOOSE b : b \in Bijection(1 .. counts[x], PartOf(x))]
           Pairs == UNION {{x} \X (1 .. counts[x]) : x \in Keys}
           element == [p \in Pairs |-> number[p[1]][p[2]]]
<1>2. ASSUME NEW x \in Keys
      PROVE  /\ \A n \in 1 .. counts[x] : number[x][n] \in PartOf(x)
             /\ \A n, m \in 1 .. counts[x] : number[x][n] = number[x][m] => n = m
             /\ \A f \in PartOf(x) : \E n \in 1 .. counts[x] : number[x][n] = f
  <2>1. number[x] \in Bijection(1 .. counts[x], PartOf(x))
    BY <1>1
  <2> HIDE DEF number, PartOf
  <2>2. /\ number[x] \in [1 .. counts[x] -> PartOf(x)]
        /\ IsInjective(number[x])
        /\ \A f \in PartOf(x) : \E n \in 1 .. counts[x] : number[x][n] = f
    BY <2>1 DEF Bijection, Injection, Surjection
  <2> QED
    BY <2>2 DEF IsInjective
<1>3. \A p \in Pairs : /\ p[1] \in Keys /\ p[2] \in 1 .. counts[p[1]]
                       /\ p = <<p[1], p[2]>>
  OBVIOUS
<1>4. \A x \in Keys : \A n \in 1 .. counts[x] : <<x, n>> \in Pairs
  OBVIOUS
<1> HIDE DEF number, Pairs
<1>5. element \in [Pairs -> S]
  BY <1>2, <1>3
<1>6. \A p, q \in Pairs : element[p] = element[q] => p = q
  <2> SUFFICES ASSUME NEW p \in Pairs, NEW q \in Pairs, element[p] = element[q]
               PROVE  p = q
    OBVIOUS
  <2>1. part[element[p]] = p[1] /\ part[element[q]] = q[1]
    BY <1>2, <1>3
  <2> QED
    BY <2>1, <1>2, <1>3
<1>7. \A f \in S : \E p \in Pairs : element[p] = f
  <2> SUFFICES ASSUME NEW f \in S PROVE \E p \in Pairs : element[p] = f
    OBVIOUS
  <2>1. part[f] \in Keys /\ f \in PartOf(part[f])
    OBVIOUS
  <2>2. PICK n \in 1 .. counts[part[f]] : number[part[f]][n] = f
    BY <2>1, <1>2
  <2>3. <<part[f], n>> \in Pairs
    BY <2>1, <1>4
  <2>4. element[<<part[f], n>>] = f
    BY <2>2, <2>3
  <2> QED
    BY <2>3, <2>4
<1>8. element \in Injection(Pairs, S) /\ element \in Surjection(Pairs, S)
  BY <1>5, <1>6, <1>7 DEF Injection, Surjection, IsInjective
<1>9. Cardinality(Pairs) = Cardinality(S)
  BY <1>8, FS_Injection
<1> QED
  BY <1>9 DEF SumOf, Pairs

-----------------------------------------------------------------------------
(* The timeline.                                                           *)

Intervals == {5, 30, 60, 180, 720, 1440}

LEMMA IntervalIsOne ==
  ASSUME NEW range, range.from \in Int, range.to \in Int
  PROVE  ChooseTimelineIntervalMinutes(range) \in Intervals
  BY DEF ChooseTimelineIntervalMinutes, Intervals

\* The bucket of an instant of the range is one of those that are counted.
LEMMA BucketsCover ==
  ASSUME NEW i \in Intervals, NEW from \in Int, NEW to \in Int, NEW at \in Int,
         from <= at, at <= to
  PROVE  at - (at % i) \in {i * k : k \in (from \div i) .. (to \div i)}
<1>1. ASSUME NEW n \in Int PROVE n = (i * (n \div i)) + (n % i) /\ n % i \in 0 .. (i - 1) /\ n \div i \in Int
  <2>1. CASE i = 5    BY <2>1
  <2>2. CASE i = 30   BY <2>2
  <2>3. CASE i = 60   BY <2>3
  <2>4. CASE i = 180  BY <2>4
  <2>5. CASE i = 720  BY <2>5
  <2>6. CASE i = 1440 BY <2>6
  <2> QED BY <2>1, <2>2, <2>3, <2>4, <2>5, <2>6 DEF Intervals
<1>2. from \div i <= at \div i /\ at \div i <= to \div i
  <2>1. CASE i = 5    BY <2>1
  <2>2. CASE i = 30   BY <2>2
  <2>3. CASE i = 60   BY <2>3
  <2>4. CASE i = 180  BY <2>4
  <2>5. CASE i = 720  BY <2>5
  <2>6. CASE i = 1440 BY <2>6
  <2> QED BY <2>1, <2>2, <2>3, <2>4, <2>5, <2>6 DEF Intervals
<1>3. at \div i \in (from \div i) .. (to \div i)
  BY <1>1, <1>2
<1>4. i \in Int
  BY DEF Intervals
<1>5. at - (at % i) = i * (at \div i)
  BY <1>1, <1>4
<1> QED
  BY <1>3, <1>5

\* The ends of the drawn timeline lie outside of the range.
LEMMA EndsAreOutside ==
  ASSUME NEW i \in Intervals, NEW at \in Int
  PROVE  /\ at - (at % i) <= at /\ at < (at - (at % i)) + i /\ at - (at % i) \in Int
         /\ FloorTime(at, i) <= at /\ at <= CeilTime(at, i)
         /\ FloorTime(at, i) \in Int /\ CeilTime(at, i) \in Int
<1>1. ASSUME NEW n \in Int PROVE n % i \in 0 .. (i - 1)
  BY DEF Intervals
<1>2. TimeZone \in Int /\ i \in Int
  BY InstantsAssumption DEF Intervals
<1>3. (at - TimeZone) % i \in 0 .. (i - 1) /\ (TimeZone - at) % i \in 0 .. (i - 1)
  BY <1>1, <1>2
<1>4. at % i \in 0 .. (i - 1)
  BY <1>1
<1> QED
  BY <1>2, <1>3, <1>4 DEF FloorTime, CeilTime

LEMMA FoundFacts ==
  ASSUME NEW query, NEW range
  PROVE  /\ IsFiniteSet(Matches(query, range))
         /\ \A f \in Matches(query, range) :
              f.at \in Nat /\ f.severity \in Severities /\ range.from <= f.at /\ f.at <= range.to
<1>1. Matches(query, range) \subseteq AllFindings
  BY DEF Matches, Detected
<1>2. IsFiniteSet(Matches(query, range))
  BY <1>1, FindingsAssumption, FS_Subset
<1> QED
  BY <1>1, <1>2, FindingsAssumption, InstantsAssumption DEF Matches

LEMMA TimelineAddsUp ==
  ASSUME NEW query, NEW range, range.from \in Int, range.to \in Int, NEW i \in Intervals
  PROVE  LET timeline == Timeline(query, range, i)
         IN  SumOf([b \in (DOMAIN timeline) \X Severities |-> timeline[b[1]][b[2]]])
               = Cardinality(Matches(query, range))
<1> DEFINE timeline == Timeline(query, range, i)
           found == Matches(query, range)
           keys == (DOMAIN timeline) \X Severities
           counts == [b \in keys |-> timeline[b[1]][b[2]]]
           bucket(f) == f.at - (f.at % i)
           part == [f \in found |-> <<bucket(f), f.severity>>]
<1>1. DOMAIN timeline = {i * k : k \in (range.from \div i) .. (range.to \div i)}
  BY DEF Timeline
<1>2. \A f \in found : bucket(f) \in DOMAIN timeline /\ f.severity \in Severities
  BY <1>1, FoundFacts, BucketsCover
<1>3. part \in [found -> keys]
  BY <1>2
<1>4. ASSUME NEW ts \in DOMAIN timeline, NEW s \in Severities
      PROVE  timeline[ts][s] = Cardinality({f \in {g \in found : bucket(g) = ts} : f.severity = s})
  BY DEF Timeline
<1>5. ASSUME NEW b \in keys PROVE counts[b] = Cardinality({f \in found : part[f] = b})
  <2>1. b[1] \in DOMAIN timeline /\ b[2] \in Severities /\ b = <<b[1], b[2]>>
    OBVIOUS
  <2>2. {f \in {g \in found : bucket(g) = b[1]} : f.severity = b[2]} = {f \in found : part[f] = b}
    BY <2>1
  <2>3. counts[b] = timeline[b[1]][b[2]]
    OBVIOUS
  <2> QED
    BY <1>4, <2>1, <2>2, <2>3
<1>6. DOMAIN counts = keys /\ IsFiniteSet(found)
  BY FoundFacts
<1> HIDE DEF counts, part, keys, found
<1>7. SumOf(counts) = Cardinality(found)
  BY <1>3, <1>5, <1>6, PartsAddUp
<1> QED
  BY <1>7 DEF counts, keys, found

\* What is not drawn was detected at the end of the range.
LEMMA DrawnMissesTheEnd ==
  ASSUME NEW query, NEW range, range.from \in Int, range.to \in Int, NEW i \in Intervals,
         NEW f \in Matches(query, range), f.at # range.to
  PROVE  f.at - (f.at % i) \in Drawn(Timeline(query, range, i), range, i)
<1> DEFINE ts == f.at - (f.at % i)
<1>1. f.at \in Int /\ range.from <= f.at /\ f.at <= range.to
  BY FoundFacts
<1>2. ts \in DOMAIN Timeline(query, range, i)
  BY <1>1, BucketsCover DEF Timeline
<1>3. i \in Int
  BY DEF Intervals
<1>4. ts <= f.at /\ f.at < ts + i /\ ts \in Int
  BY <1>1, EndsAreOutside
<1>5. FloorTime(range.from, i) <= range.from /\ FloorTime(range.from, i) \in Int
  BY EndsAreOutside
<1>6. range.to <= CeilTime(range.to, i) /\ CeilTime(range.to, i) \in Int
  BY EndsAreOutside
<1> HIDE DEF ts
<1>7. ts + i > FloorTime(range.from, i) /\ ts < CeilTime(range.to, i)
  BY <1>1, <1>3, <1>4, <1>5, <1>6
<1> QED
  BY <1>2, <1>7 DEF Drawn, ts

-----------------------------------------------------------------------------
(* The cards and the statistics.                                           *)

LEMMA CardsAddUp ==
  ASSUME IsStore(store), store.filters.severity = Null
  PROVE  SumOf([s \in Severities |-> SeverityCount(s)]) = TotalCount
<1> DEFINE query == FindingsQuery(store)
           found == Matches(query, Shown)
           counts == [s \in Severities |-> SeverityCount(s)]
           part == [f \in found |-> f.severity]
<1>1. IsFiniteSet(found) /\ part \in [found -> Severities]
  BY FoundFacts
<1>2. ASSUME NEW s \in Severities PROVE SeverityCount(s) = Cardinality({f \in found : part[f] = s})
  <2> DEFINE asked == [query EXCEPT !.severity = s]
  <2>1. s # Null
    BY FindingsAssumption
  <2>2. /\ DOMAIN query = {"cluster", "topic", "severity", "blocked", "hash"}
        /\ query.severity = Null
    BY DEF FindingsQuery
  <2>3. /\ DOMAIN asked = DOMAIN query /\ asked.severity = s
        /\ \A field \in DOMAIN query : field # "severity" => asked[field] = query[field]
    BY <2>2
  <2> HIDE DEF asked, query
  <2>4. ASSUME NEW f PROVE Wanted(f, asked) <=> Wanted(f, query) /\ f.severity = s
    BY <2>1, <2>2, <2>3 DEF Wanted
  <2>5. Matches(asked, Shown) = {f \in found : f.severity = s}
    BY <2>4 DEF Matches
  <2> QED
    BY <2>5 DEF SeverityCount, asked, query
<1>3. DOMAIN counts = Severities /\ \A s \in Severities : counts[s] = SeverityCount(s)
  OBVIOUS
<1> HIDE DEF counts, part, found
<1>4. SumOf(counts) = Cardinality(found)
  BY <1>1, <1>2, <1>3, PartsAddUp
<1> QED
  BY <1>4 DEF counts, found, TotalCount

LEMMA StatisticsAddUp ==
  ASSUME IsStore(store), store.topic = "slow_sessions"
  PROVE  LET query == FindingsQuery(store)
         IN  SumOf(SlowQueryStats(query, Shown))
               = Cardinality({f \in Matches(query, Shown) : f.hash # ""})
<1> DEFINE query == FindingsQuery(store)
           found == {f \in Matches(query, Shown) : f.hash # ""}
           stats == SlowQueryStats(query, Shown)
           keys == {f.hash : f \in found}
           part == [f \in found |-> f.hash]
<1>1. [query EXCEPT !.topic = "slow_sessions"] = query
  BY DEF FindingsQuery
<1>2. stats = [h \in keys |-> Cardinality({f \in found : f.hash = h})]
  BY <1>1 DEF SlowQueryStats
<1>3. IsFiniteSet(found) /\ part \in [found -> keys]
  BY FoundFacts, FS_Subset
<1>4. DOMAIN stats = keys
  BY <1>2
<1>5. ASSUME NEW h \in keys PROVE stats[h] = Cardinality({f \in found : part[f] = h})
  <2>1. {f \in found : f.hash = h} = {f \in found : part[f] = h}
    OBVIOUS
  <2> QED
    BY <1>2, <2>1
<1> HIDE DEF stats, part, keys, found
<1>6. SumOf(stats) = Cardinality(found)
  BY <1>3, <1>4, <1>5, PartsAddUp
<1> QED
  BY <1>6 DEF stats, found

-----------------------------------------------------------------------------
(* The range that is shown.                                                *)

IsRange(r) ==
  r.mode = "preset" \/ (r.mode = "absolute" /\ r.from \in Int /\ r.to \in Int)

\* The dashboard's range has numbers for ends, whatever is typed, shifted or
\* refreshed.
RangeInv == route = "dashboard" => IsRange(store.range) /\ store.anchor \in Int

\* A change of the context that keeps the range and the instant it ends at,
\* or puts a range or an instant in their place.
RangeKept(s, t) ==
  /\ t.range = s.range \/ IsRange(t.range)
  /\ t.anchor = s.anchor \/ t.anchor = clock

LEMMA ResolvedIsNumbers ==
  ASSUME NEW range, IsRange(range), NEW anchor \in Int
  PROVE  ResolveTimeRange(range, anchor).from \in Int /\ ResolveTimeRange(range, anchor).to \in Int
<1>1. CASE range.mode = "absolute"
  BY <1>1 DEF ResolveTimeRange, IsRange
<1>2. CASE range.mode # "absolute"
  <2> DEFINE id  == range.id
             len == LengthOf[IF id \in Presets THEN id ELSE "last_1_hour"]
  <2>1. StartOfDay(anchor) \in Int /\ StartOfWeek(anchor) \in Int
    BY DEF StartOfDay, StartOfWeek, Day
  <2>2. \A p \in DOMAIN LengthOf : LengthOf[p] \in Int
    BY DEF LengthOf, Day
  <2>3. id # "today" /\ id # "this_week" => len \in Int
    <3>1. "last_1_hour" \in DOMAIN LengthOf
      BY DEF LengthOf
    <3> HIDE DEF id
    <3> QED
      BY <2>2, <3>1 DEF Presets
  <2> HIDE DEF id, len
  <2>4. ResolveTimeRange(range, anchor) =
          [ from |-> IF id = "today" THEN StartOfDay(anchor)
                     ELSE IF id = "this_week" THEN StartOfWeek(anchor) ELSE anchor - len,
            to   |-> anchor ]
    BY <1>2 DEF ResolveTimeRange, ResolvePreset, id, len
  <2> QED
    BY <2>1, <2>3, <2>4
<1> QED
  BY <1>1, <1>2

LEMMA ShownIsNumbers ==
  ASSUME RangeInv, route = "dashboard"
  PROVE  Shown.from \in Int /\ Shown.to \in Int
  BY ResolvedIsNumbers DEF RangeInv, Shown

LEMMA SettersKeepRange ==
  ASSUME NEW s, IsStore(s), NEW x
  PROVE  /\ \A t \in {SetSelectedClusterId(s, x), SetActiveTopicId(s, x), SetFilters(s, x),
                     SetPage(s, x), [s EXCEPT !.compare = ~@], [s EXCEPT !.live = ~@]} :
              t.range = s.range /\ t.anchor = s.anchor
         /\ SetTimeRange(s, x).range = x /\ SetTimeRange(s, x).anchor = s.anchor
         /\ RefreshNow(s, x).range = s.range /\ RefreshNow(s, x).anchor = x
         /\ Reloaded(s, x).range = s.range /\ Reloaded(s, x).anchor = x
<1> USE DEF IsStore
<1>1. /\ \A t \in {SetSelectedClusterId(s, x), SetActiveTopicId(s, x)} :
           t.range = s.range /\ t.anchor = s.anchor
  BY DEF SetSelectedClusterId, SetActiveTopicId
<1>2. \A t \in {SetFilters(s, x), SetPage(s, x), [s EXCEPT !.compare = ~@], [s EXCEPT !.live = ~@]} :
           t.range = s.range /\ t.anchor = s.anchor
  BY DEF SetFilters, SetPage
<1>3. /\ SetTimeRange(s, x).range = x /\ SetTimeRange(s, x).anchor = s.anchor
      /\ RefreshNow(s, x).range = s.range /\ RefreshNow(s, x).anchor = x
      /\ Reloaded(s, x).range = s.range /\ Reloaded(s, x).anchor = x
  BY DEF SetTimeRange, RefreshNow, Reloaded
<1> QED
  BY <1>1, <1>2, <1>3

\* A step of the dashboard.
LEMMA DashboardKeepsRange ==
  ASSUME IsStore(store), RangeInv, route = "dashboard", DashboardStep
  PROVE  RangeKept(store, store')
<1> USE DEF DashboardClick, StoreBecomes
<1>0. ASSUME store'.range = store.range, store'.anchor = store.anchor PROVE RangeKept(store, store')
  BY <1>0 DEF RangeKept
<1>1. CASE DefaultTopic \/ SelectTopic
  <2>1. PICK t : store' = SetActiveTopicId(store, t)
    BY <1>1 DEF DefaultTopic, SelectTopic
  <2> QED
    BY <2>1, <1>0, SettersKeepRange
<1>2. CASE FilterSeverity \/ FilterBlocking \/ FilterReplica \/ QueryHashTimer \/ ClearFilters
  <2>1. PICK f : store' = SetFilters(store, f)
    BY <1>2 DEF FilterSeverity, FilterBlocking, FilterReplica, QueryHashTimer, ClearFilters
  <2> QED
    BY <2>1, <1>0, SettersKeepRange
<1>3. CASE CompareWithPast \/ ToggleLive
  <2>1. store' = [store EXCEPT !.compare = ~@] \/ store' = [store EXCEPT !.live = ~@]
    BY <1>3 DEF CompareWithPast, ToggleLive
  <2>2. store'.range = store.range /\ store'.anchor = store.anchor
    BY <2>1 DEF IsStore
  <2> QED
    BY <2>2, <1>0
<1>7. CASE TurnFindingsPage
  <2>1. PICK p : store' = SetPage(store, p)
    BY <1>7 DEF TurnFindingsPage
  <2> QED
    BY <2>1, <1>0, SettersKeepRange
<1>4. CASE ApplyPreset \/ ApplyCustom \/ Shift
  <2>1. PICK range : store' = SetTimeRange(store, range) /\ IsRange(range)
    <3>1. CASE ApplyPreset
      BY <3>1 DEF ApplyPreset, Preset, IsRange
    <3>2. CASE ApplyCustom
      <4>1. PICK r \in CustomRanges : store' = SetTimeRange(store, AbsoluteRange(r[1], r[2]))
        BY <3>2 DEF ApplyCustom
      <4>2. IsRange(AbsoluteRange(r[1], r[2]))
        BY InstantsAssumption DEF IsRange, AbsoluteRange
      <4> QED
        BY <4>1, <4>2
    <3>3. CASE Shift
      <4> DEFINE length == IF Shown.to - Shown.from < 1 THEN 1 ELSE Shown.to - Shown.from
      <4>1. PICK by \in {length, -length} :
              store' = SetTimeRange(store, AbsoluteRange(Shown.from + by, Shown.to + by))
        BY <3>3 DEF Shift
      <4>2. Shown.from \in Int /\ Shown.to \in Int
        BY ShownIsNumbers
      <4>3. by \in Int
        BY <4>2
      <4>4. IsRange(AbsoluteRange(Shown.from + by, Shown.to + by))
        BY <4>2, <4>3 DEF IsRange, AbsoluteRange
      <4> QED
        BY <4>1, <4>4
    <3> QED
      BY <1>4, <3>1, <3>2, <3>3
  <2> QED
    BY <2>1, SettersKeepRange DEF RangeKept
<1>5. CASE ManualRefresh \/ LiveRefresh
  <2>1. store' = RefreshNow(store, clock)
    BY <1>5 DEF ManualRefresh, LiveRefresh
  <2> QED
    BY <2>1, SettersKeepRange DEF RangeKept
<1>6. CASE TypeQueryHash \/ ToggleSlowQueryStats \/ FetchFindings
  BY <1>6, <1>0 DEF TypeQueryHash, ToggleSlowQueryStats, FetchFindings
<1> QED
  BY <1>1, <1>2, <1>3, <1>4, <1>5, <1>6, <1>7 DEF DashboardStep, DashboardUser

LEMMA InitRange == Init => RangeInv
<1> SUFFICES ASSUME Init, route = "dashboard" PROVE IsRange(store.range) /\ store.anchor \in Int
  BY DEF RangeInv
<1>1. PICK s \in Starts[route] : store = KeptStore(s.kept)
  BY DEF Init
<1>2. store.range = Preset("last_1_hour") /\ store.anchor = StartMinute
  BY <1>1 DEF KeptStore, EmptyStore
<1> QED
  BY <1>2, InstantsAssumption DEF IsRange, Preset

LEMMA RangeStep == ASSUME StoreInv, RangeInv, [Next]_consoleVars PROVE RangeInv'
<1> SUFFICES ASSUME route' = "dashboard" PROVE IsRange(store'.range) /\ store'.anchor \in Int
  BY DEF RangeInv, IsRange
<1>1. IsStore(store) /\ clock \in Int
  BY DEF StoreInv
<1>2. CASE route = "dashboard" /\ RangeKept(store, store')
  BY <1>1, <1>2 DEF RangeInv, RangeKept
<1>3. CASE UNCHANGED <<store, route>>
  BY <1>2, <1>3 DEF RangeKept
<1>4. CASE OnDashboard(DashboardStep \/ TimePasses)
  <2>1. CASE DashboardStep
    BY <1>1, <1>2, <1>4, <2>1, DashboardKeepsRange DEF OnDashboard
  <2>2. CASE TimePasses
    BY <1>3, <1>4, <2>2 DEF OnDashboard, TimePasses
  <2> QED
    BY <1>4, <2>1, <2>2 DEF OnDashboard
<1>5. CASE SelectCluster \/ ClustersAnswer
  <2>1. PICK c : store' \in {SetSelectedClusterId(store, c), store}
    BY <1>5 DEF SelectCluster, ClustersAnswer, ClusterBecomes, WithClusters
  <2>2. route = "dashboard"
    BY <1>5 DEF SelectCluster, ClustersAnswer, ClusterBecomes
  <2> QED
    BY <1>1, <1>2, <2>1, <2>2, SettersKeepRange DEF RangeKept
<1>6. CASE ReloadPage
  BY <1>1, <1>2, <1>6, SettersKeepRange DEF RangeKept, ReloadPage
<1>7. CASE UNCHANGED consoleVars
  BY <1>3, <1>7 DEF consoleVars
<1>8. CASE ChartsPage \/ PreviewPage \/ Navigate
  BY <1>8 DEF ChartsPage, PreviewPage, Navigate
<1> QED
  BY <1>4, <1>5, <1>6, <1>7, <1>8 DEF Next, OnCatalog, OnForm, OnCampaign

THEOREM RangeInvariant == Spec => []RangeInv
<1>1. StoreInv /\ RangeInv /\ [Next]_consoleVars => RangeInv'
  BY RangeStep
<1> QED
  BY <1>1, InitRange, StoreInvariant, PTL DEF Spec

\* What the API counts for the pager.
LEMMA TotalOfList ==
  ASSUME NEW query, NEW range, NEW page
  PROVE  ListFindings(query, range, page).total = Cardinality(Matches(query, range))
<1> DEFINE found == Matches(query, range)
           all   == [i \in 1 .. Cardinality(found) |->
                       CHOOSE f \in found :
                         Cardinality({g \in found : g.at > f.at \/ (g.at = f.at /\ g.id < f.id)}) = i - 1]
<1>1. ListFindings(query, range, page).total = Len(all)
  BY DEF ListFindings
<1>2. Cardinality(found) \in Nat
  BY FoundFacts, FS_CardinalityType
<1> HIDE DEF found
<1>3. Len(all) = Cardinality(found)
  BY <1>2
<1> QED
  BY <1>1, <1>3 DEF found

LEMMA SameFindingsAreCounted ==
  ASSUME StoreInv, RangeInv, route = "dashboard" PROVE SameFindings
<1> DEFINE query == FindingsQuery(store)
           found == Matches(query, Shown)
           interval == ChooseTimelineIntervalMinutes(Shown)
           timeline == Timeline(query, Shown, interval)
<1>1. Shown.from \in Int /\ Shown.to \in Int /\ IsStore(store)
  BY ShownIsNumbers DEF StoreInv
<1>2. interval \in Intervals
  BY <1>1, IntervalIsOne
<1>3. SumOf([b \in (DOMAIN timeline) \X Severities |-> timeline[b[1]][b[2]]]) = TotalCount
  BY <1>1, <1>2, TimelineAddsUp DEF TotalCount
<1>4. \A f \in found : f.at # Shown.to => f.at - (f.at % interval) \in Drawn(timeline, Shown, interval)
  BY <1>1, <1>2, DrawnMissesTheEnd
<1>5. IF store.filters.severity = Null
      THEN SumOf([s \in Severities |-> SeverityCount(s)]) = TotalCount
      ELSE SeverityCount(store.filters.severity) = TotalCount
  <2>1. [query EXCEPT !.severity = store.filters.severity] = query
    BY DEF FindingsQuery
  <2> QED
    BY <1>1, <2>1, CardsAddUp DEF SeverityCount, TotalCount
<1>6. store.topic = "slow_sessions" =>
        SumOf(SlowQueryStats(query, Shown)) = Cardinality({f \in found : f.hash # ""})
  BY <1>1, StatisticsAddUp
<1>7. found \ {f \in found : f.at - (f.at % interval) \in Drawn(timeline, Shown, interval)}
        \subseteq {f \in found : f.at = Shown.to}
  BY <1>4
<1>8. ListIsNew /\ store.filters.replica = Null => TotalShown(dash.list) = TotalCount
  <2>1. ListFindings(query, Shown, store.page).total = Cardinality(found)
    BY TotalOfList
  <2> HIDE DEF query, found
  <2> QED
    BY <2>1 DEF ListIsNew, TotalShown, TotalCount, query, found
<1> HIDE DEF query, found, interval, timeline
<1> QED
  BY <1>3, <1>5, <1>6, <1>7, <1>8 DEF SameFindings, query, found, interval, timeline

\* ViewsAgree: whatever the range and the filters are, the buckets of the
\* timeline, the cards of the severities and the statistics of the queries add
\* up to the total card, and the drawn buckets miss only the last instant.  The
\* pager of an answered list shows that total where no replica is filtered;
\* where one is, the table counts rows of one page and nothing is said of it
\* (listFindings, getFindingTimeline, getSlowQueryStats, KpiCards,
\* FindingsTable).
THEOREM ViewsAgreeAlways == Spec => []ViewsAgree
<1>1. StoreInv /\ RangeInv => ViewsAgree
  BY SameFindingsAreCounted DEF ViewsAgree
<1> QED
  BY <1>1, StoreInvariant, RangeInvariant, PTL

-----------------------------------------------------------------------------
(* The greatest of some values.                                            *)

LEMMA GreatestExists ==
  ASSUME NEW S \in SUBSET Int, S # {}, NEW bound \in Int, \A v \in S : v <= bound
  PROVE  \E m \in S : \A v \in S : m >= v
<1> DEFINE below == {d \in Nat : bound - d \in S}
<1>1. below \subseteq Nat /\ below # {}
  <2>1. PICK v \in S : TRUE
    OBVIOUS
  <2>2. bound - v \in Nat /\ bound - (bound - v) = v
    BY <2>1
  <2> QED
    BY <2>1, <2>2
<1> DEFINE Less == {ss \in Nat \X Nat : ss[1] < ss[2]}
<1>2. IsWellFoundedOn(Less, Nat)
  BY NatLessThanWellFounded DEF OpToRel
<1> HIDE DEF below, Less
<1>3. PICK d \in below : \A e \in below : ~ (<<e, d>> \in Less)
  BY <1>1, <1>2, WFMin
<1>4. ASSUME NEW e \in below PROVE d <= e /\ d \in Nat
  <2>1. e \in Nat /\ d \in Nat
    BY <1>1
  <2>2. e < d => <<e, d>> \in Less
    BY <2>1 DEF Less
  <2> QED
    BY <1>3, <2>1, <2>2
<1>5. ASSUME NEW v \in S PROVE bound - d >= v
  <2>1. bound - v \in Nat /\ bound - (bound - v) = v /\ v \in Int
    OBVIOUS
  <2>2. bound - v \in below
    BY <2>1 DEF below
  <2>3. d <= bound - v /\ d \in Int
    BY <1>4, <2>2
  <2> QED
    BY <2>1, <2>3
<1> QED
  BY <1>5 DEF below

\* What a fragmentation is: a percentage, or not known.
Percents == (0 .. 100) \cup {Null}

LEMMA HighestIs ==
  ASSUME NEW values \in SUBSET Percents
  PROVE  /\ Charts!Highest(values) \in Percents
         /\ values \ {Null} = {} => Charts!Highest(values) = Null
         /\ values \ {Null} # {} =>
              /\ Charts!Highest(values) \in values \ {Null}
              /\ \A v \in values \ {Null} : v <= Charts!Highest(values)
<1> DEFINE known == values \ {Null}
<1>1. known \subseteq 0 .. 100
  BY DEF Percents
<1>2. CASE known = {}
  BY <1>2 DEF Charts!Highest, Percents
<1>3. CASE known # {}
  <2>1. \E m \in known : \A v \in known : m >= v
    <3>1. known \in SUBSET Int /\ 100 \in Int /\ \A v \in known : v <= 100
      BY <1>1
    <3> HIDE DEF known
    <3> QED
      BY <1>3, <3>1, GreatestExists
  <2> HIDE DEF known
  <2>2. /\ Charts!Max(known) \in known
        /\ \A v \in known : Charts!Max(known) >= v
    BY <2>1 DEF Charts!Max
  <2>3. Charts!Highest(values) = Charts!Max(known)
    BY <1>3 DEF Charts!Highest, known
  <2>4. \A v \in known : v <= Charts!Max(known)
    BY <1>1, <2>2
  <2> QED
    BY <1>3, <2>2, <2>3, <2>4 DEF known
<1> QED
  BY <1>2, <1>3

\* The highest of the highest of some parts is the highest of all.
LEMMA HighestOfParts ==
  ASSUME NEW K, NEW part \in [K -> SUBSET Percents]
  PROVE  Charts!Highest({Charts!Highest(part[x]) : x \in K}) = Charts!Highest(UNION {part[x] : x \in K})
<1> DEFINE all == UNION {part[x] : x \in K}
           tops == {Charts!Highest(part[x]) : x \in K}
<1>1. all \in SUBSET Percents /\ tops \in SUBSET Percents
  BY HighestIs
<1>2. ASSUME NEW x \in K
      PROVE  /\ part[x] \in SUBSET Percents /\ part[x] \subseteq all
             /\ Charts!Highest(part[x]) \in tops
  OBVIOUS
<1>3. \A h \in tops \ {Null} : h \in all \ {Null}
  <2> SUFFICES ASSUME NEW x \in K, Charts!Highest(part[x]) # Null
               PROVE  Charts!Highest(part[x]) \in all
    OBVIOUS
  <2> QED
    BY <1>2, HighestIs
<1>4. \A v \in all \ {Null} : \E h \in tops \ {Null} : v <= h
  <2> SUFFICES ASSUME NEW x \in K, NEW v \in part[x], v # Null
               PROVE  \E h \in tops \ {Null} : v <= h
    OBVIOUS
  <2>1. Charts!Highest(part[x]) # Null /\ v <= Charts!Highest(part[x])
    BY <1>2, HighestIs
  <2> QED
    BY <1>2, <2>1
<1> HIDE DEF all, tops
<1>5. CASE all \ {Null} = {}
  <2>1. tops \ {Null} = {}
    BY <1>3, <1>5
  <2> QED
    BY <1>1, <1>5, <2>1, HighestIs DEF all, tops
<1>6. CASE all \ {Null} # {}
  <2> DEFINE m == Charts!Highest(all)
             h == Charts!Highest(tops)
  <2>1. m \in all \ {Null} /\ \A v \in all \ {Null} : v <= m
    BY <1>1, <1>6, HighestIs
  <2>2. tops \ {Null} # {}
    BY <1>4, <1>6
  <2>3. h \in tops \ {Null} /\ \A v \in tops \ {Null} : v <= h
    BY <1>1, <2>2, HighestIs
  <2> HIDE DEF m, h
  <2>4. h <= m
    BY <1>3, <2>1, <2>3
  <2>5. PICK g \in tops \ {Null} : m <= g
    BY <1>4, <2>1
  <2>6. g <= h
    BY <2>3
  <2>7. m \in Int /\ g \in Int /\ h \in Int
    BY <1>1, <2>1, <2>3 DEF Percents
  <2>8. m = h
    BY <2>4, <2>5, <2>6, <2>7
  <2> QED
    BY <2>8 DEF m, h, all, tops
<1> QED
  BY <1>5, <1>6

-----------------------------------------------------------------------------
(* Documents and histories of a table.                                     *)

IsEntry(e) ==
  /\ e.frag \in Percents
  /\ \A p \in DOMAIN e.partitions : e.partitions[p] \in Percents
  /\ DOMAIN e.partitions # {} =>
       e.frag = Charts!Highest({e.partitions[p] : p \in DOMAIN e.partitions})

Docs ==
  {Charts!Document(run, found.indexes, found.stats) :
     run \in Nat \cup {Null}, found \in UNION {Shapes[t] : t \in ChartTables}}

LEMMA DocsFacts ==
  ASSUME NEW d \in Docs
  PROVE  /\ d.run \in Nat \cup {Null}
         /\ \A i \in DOMAIN d.indexes : IsEntry(d.indexes[i])
<1>1. PICK run \in Nat \cup {Null}, found \in UNION {Shapes[t] : t \in ChartTables} :
        d = Charts!Document(run, found.indexes, found.stats)
  BY DEF Docs
<1>2. /\ d.run = run
      /\ d.indexes = [i \in DOMAIN found.indexes |-> Charts!IndexEntry(found.indexes[i])]
  BY <1>1 DEF Charts!Document
<1>3. ASSUME NEW i \in DOMAIN found.indexes PROVE IsEntry(Charts!IndexEntry(found.indexes[i]))
  <2> DEFINE frags == found.indexes[i]
             values == {frags[p] : p \in DOMAIN frags}
             e == Charts!IndexEntry(frags)
  <2>1. \A p \in DOMAIN frags : frags[p] \in Percents
    BY ChartsAssumption DEF Percents
  <2>2. values \in SUBSET Percents
    BY <2>1
  <2>3. e.frag = Charts!Highest(values) /\ e.partitions \in {frags, <<>>}
    BY DEF Charts!IndexEntry
  <2>4. e.frag \in Percents
    BY <2>2, <2>3, HighestIs
  <2>5. CASE e.partitions = frags
    BY <2>1, <2>3, <2>4, <2>5 DEF IsEntry
  <2>6. CASE e.partitions = <<>>
    BY <2>4, <2>6 DEF IsEntry
  <2> QED
    BY <2>3, <2>5, <2>6
<1> QED
  BY <1>1, <1>2, <1>3

OneEach(h) ==
  \A j, k \in DOMAIN h : Charts!ResolvedRun(h[j]) = Charts!ResolvedRun(h[k]) => j = k

\* The tables' documents: no two of a table are of one run.
HistoriesOK(d) == d \in [ChartTables -> Seq(Docs)] /\ \A t \in ChartTables : OneEach(d[t])

DocsInv == HistoriesOK(docs)

LEMMA ResolvedRunsDiffer ==
  ASSUME NEW d \in Docs, NEW e \in Docs, Charts!ResolvedRun(d) = Charts!ResolvedRun(e)
  PROVE  d.run = e.run
  BY DocsFacts, ChartsAssumption DEF Charts!ResolvedRun

LEMMA WithRunKeeps ==
  ASSUME NEW d, HistoriesOK(d), NEW found \in Charts!Findings, NEW run \in Nat \cup {Null},
         \A t \in ChartTables : \A k \in DOMAIN d[t] : d[t][k].run # run
  PROVE  HistoriesOK(Charts!WithRun(d, found, run))
<1> DEFINE new == Charts!WithRun(d, found, run)
<1>1. ASSUME NEW t \in ChartTables PROVE new[t] \in Seq(Docs) /\ OneEach(new[t])
  <2>1. d[t] \in Seq(Docs) /\ OneEach(d[t])
    BY DEF HistoriesOK
  <2>2. CASE found[t] = Null
    <3>1. new[t] = d[t]
      BY <2>2 DEF Charts!WithRun
    <3> QED
      BY <2>1, <3>1
  <2>3. CASE found[t] # Null
    <3> DEFINE doc == Charts!Document(run, found[t].indexes, found[t].stats)
    <3>1. new[t] = Append(d[t], doc)
      BY <2>3 DEF Charts!WithRun
    <3>2. found[t] \in Shapes[t]
      BY <2>3 DEF Charts!Findings
    <3>3. doc \in Docs
      <4>1. found[t] \in UNION {Shapes[u] : u \in ChartTables}
        BY <3>2
      <4> QED
        BY <4>1 DEF Docs
    <3>8. doc.run = run
      BY DEF Charts!Document
    <3> HIDE DEF doc, new
    <3>4. /\ new[t] \in Seq(Docs) /\ Len(new[t]) = Len(d[t]) + 1
          /\ \A k \in 1 .. Len(d[t]) : new[t][k] = d[t][k]
          /\ new[t][Len(d[t]) + 1] = doc
      BY <2>1, <3>1, <3>3
    <3>5. DOMAIN new[t] = 1 .. (Len(d[t]) + 1) /\ DOMAIN d[t] = 1 .. Len(d[t]) /\ Len(d[t]) \in Nat
      BY <2>1, <3>4
    <3>6. \A k \in DOMAIN d[t] : Charts!ResolvedRun(d[t][k]) # Charts!ResolvedRun(doc)
      <4> SUFFICES ASSUME NEW k \in DOMAIN d[t], Charts!ResolvedRun(d[t][k]) = Charts!ResolvedRun(doc)
                   PROVE  FALSE
        OBVIOUS
      <4>1. d[t][k] \in Docs
        BY <2>1
      <4> QED
        BY <3>3, <3>8, <4>1, ResolvedRunsDiffer
    <3>7. \A k \in DOMAIN new[t] : k \in DOMAIN d[t] \/ k = Len(d[t]) + 1
      BY <3>5
    <3> QED
      BY <2>1, <3>4, <3>5, <3>6, <3>7 DEF OneEach
  <2> QED
    BY <2>2, <2>3
<1>2. new = [t \in ChartTables |-> new[t]]
  BY DEF Charts!WithRun
<1> HIDE DEF new
<1> QED
  BY <1>1, <1>2 DEF HistoriesOK, new

LEMMA InitDocs == Init => DocsInv
<1> SUFFICES ASSUME Init PROVE DocsInv
  OBVIOUS
<1> DEFINE none == [t \in ChartTables |-> <<>>]
<1>1. HistoriesOK(none)
  BY DEF HistoriesOK, OneEach
<1>2. CASE route = "charts"
  <2>1. PICK found \in Charts!Findings : docs = Charts!WithRun(none, found, Null)
    BY <1>2 DEF Init, Charts!ChartsInit
  <2>2. \A t \in ChartTables : \A k \in DOMAIN none[t] : none[t][k].run # Null
    OBVIOUS
  <2> HIDE DEF none
  <2> QED
    BY <1>1, <2>1, <2>2, WithRunKeeps DEF DocsInv
<1>3. CASE route # "charts"
  BY <1>1, <1>3 DEF Init, DocsInv
<1> QED
  BY <1>2, <1>3

LEMMA DocsStep == ASSUME DocsInv, [Next]_consoleVars PROVE DocsInv'
<1>1. CASE UNCHANGED docs
  BY <1>1 DEF DocsInv, HistoriesOK, OneEach
<1>2. CASE ChartsPage
  <2>1. CASE Charts!Capture
    <3>1. PICK run \in (1 .. MaxRuns) \ Charts!RunsSoFar, found \in Charts!Findings :
            docs' = Charts!WithRun(docs, found, run)
      BY <2>1 DEF Charts!Capture
    <3>2. run \in Nat \cup {Null}
      BY <3>1, ChartsAssumption
    <3>3. \A t \in ChartTables : \A k \in DOMAIN docs[t] : docs[t][k].run # run
      BY <3>1 DEF Charts!RunsSoFar
    <3> QED
      BY <3>1, <3>2, <3>3, WithRunKeeps DEF DocsInv
  <2>2. CASE UNCHANGED docs
    BY <1>1, <2>2
  <2> QED
    BY <1>2, <2>1, <2>2 DEF ChartsPage, Charts!ChartsNext, Charts!SelectTable, Charts!ChooseView,
         Charts!ClickLine, Charts!ClickGroup, Charts!ClickPartition, Charts!ShowAllLines,
         Charts!SwitchAutoCreated, Charts!ClickStatistic, Charts!ShowAllStatistics, Charts!SetHidden
<1>3. CASE UNCHANGED chartsPart
  BY <1>1, <1>3 DEF chartsPart
<1>4. CASE SelectCluster \/ ClustersAnswer
  BY <1>3, <1>4 DEF SelectCluster, ClustersAnswer, ClusterBecomes
<1>5. CASE ReloadPage \/ Navigate \/ PreviewPage
  BY <1>3, <1>5 DEF ReloadPage, Navigate, PreviewPage
<1>6. CASE UNCHANGED consoleVars
  BY <1>3, <1>6 DEF consoleVars
<1> QED
  BY <1>2, <1>3, <1>4, <1>5, <1>6 DEF Next, OnCatalog, OnForm, OnCampaign, OnDashboard

THEOREM DocsInvariant == Spec => []DocsInv
  BY InitDocs, DocsStep, PTL DEF Spec

-----------------------------------------------------------------------------
(* What is drawn of a document.                                            *)

\* A history of a table, and the place of the only document of run r.
IsHistory(h) == h \in Seq(Docs) /\ OneEach(h)

LEMMA OnlyOfRun ==
  ASSUME NEW h, IsHistory(h), NEW k \in DOMAIN h, NEW r, Charts!ResolvedRun(h[k]) = r,
         NEW own \in SUBSET DOMAIN h
  PROVE  /\ k \in own => Charts!LastOf(h, own \cap Charts!OfRun(h, r)) = h[k]
         /\ r \in {Charts!ResolvedRun(h[j]) : j \in own} <=> k \in own
         /\ Charts!LastOf(h, Charts!OfRun(h, r)) = h[k]
<1>1. Charts!OfRun(h, r) = {k}
  BY DEF IsHistory, OneEach, Charts!OfRun
<1>2. k \in Int
  BY DEF IsHistory
<1>3. Charts!Max({k}) = k
  BY <1>2 DEF Charts!Max
<1>4. Charts!LastOf(h, {k}) = h[k]
  BY <1>3 DEF Charts!LastOf
<1>5. k \in own => own \cap Charts!OfRun(h, r) = {k}
  BY <1>1
<1>6. r \in {Charts!ResolvedRun(h[j]) : j \in own} <=> k \in own
  BY DEF IsHistory, OneEach
<1> QED
  BY <1>1, <1>4, <1>5, <1>6

\* A point of the trend tells of the one document of its run.
LEMMA TrendPoints ==
  ASSUME NEW h, IsHistory(h), NEW r \in DOMAIN Charts!TableHistory(h)
  PROVE  \E k \in DOMAIN h :
           /\ Charts!ResolvedRun(h[k]) = r
           /\ Charts!TableHistory(h)[r] = Charts!Summary(h[k])
           /\ Charts!Summary(Charts!LastOf(h, Charts!OfRun(h, r))) = Charts!Summary(h[k])
<1> DEFINE newest == Charts!NewestOf(h, TrendLimit)
<1>1. r \in Charts!RunsOf(newest)
  BY DEF Charts!TableHistory
<1>2. PICK j \in DOMAIN newest : r = Charts!ResolvedRun(newest[j])
  BY <1>1 DEF Charts!RunsOf
<1>3. \E k \in DOMAIN h : newest[j] = h[k]
  <2> DEFINE first == IF Len(h) > TrendLimit THEN Len(h) - TrendLimit + 1 ELSE 1
  <2>1. Len(h) \in Nat /\ TrendLimit \in Nat /\ DOMAIN h = 1 .. Len(h)
    BY ChartsAssumption DEF IsHistory
  <2>2. first \in Nat /\ first >= 1
    BY <2>1
  <2>3. newest = SubSeq(h, first, Len(h))
    BY DEF Charts!NewestOf
  <2> DEFINE place == (first + j) - 1
  <2> HIDE DEF first, newest
  <2>4. /\ DOMAIN newest = 1 .. (Len(h) - first + 1)
        /\ newest[j] = h[place]
    BY <1>2, <2>1, <2>2, <2>3 DEF IsHistory
  <2>5. place \in DOMAIN h
    BY <2>1, <2>2, <2>4
  <2> HIDE DEF place
  <2> QED
    BY <2>4, <2>5
<1>4. PICK k \in DOMAIN h : newest[j] = h[k]
  BY <1>3
<1>5. Charts!ResolvedRun(h[k]) = r
  BY <1>2, <1>4
<1>6. Charts!LastOf(h, Charts!OfRun(h, r)) = h[k]
  BY <1>5, OnlyOfRun
<1>7. Charts!TableHistory(h)[r] = Charts!Summary(h[k])
  BY <1>1, <1>6 DEF Charts!TableHistory, Charts!Summary, Charts!Highest
<1> QED
  BY <1>5, <1>6, <1>7

\* The series of the indexes and of the statistics have that document's entries.
LEMMA IndexPoints ==
  ASSUME NEW h, IsHistory(h), NEW k \in DOMAIN h, NEW r, Charts!ResolvedRun(h[k]) = r
  PROVE  LET series == Charts!IndexHistory(h)
         IN  /\ {i \in DOMAIN series : r \in DOMAIN series[i].points} = DOMAIN h[k].indexes
             /\ \A i \in DOMAIN h[k].indexes : series[i].points[r] = h[k].indexes[i]
<1> DEFINE series == Charts!IndexHistory(h)
           Own(i) == {j \in DOMAIN h : i \in DOMAIN h[j].indexes}
<1>1. DOMAIN series = UNION {DOMAIN h[j].indexes : j \in DOMAIN h}
  BY DEF Charts!IndexHistory
<1>2. ASSUME NEW i \in DOMAIN series
      PROVE  series[i].points =
               [q \in {Charts!ResolvedRun(h[j]) : j \in Own(i)} |->
                  Charts!LastOf(h, Own(i) \cap Charts!OfRun(h, q)).indexes[i]]
  BY DEF Charts!IndexHistory
<1>3. DOMAIN h[k].indexes \subseteq DOMAIN series
  BY <1>1
<1> HIDE DEF series
<1>4. ASSUME NEW i \in DOMAIN series
      PROVE  /\ r \in DOMAIN series[i].points <=> i \in DOMAIN h[k].indexes
             /\ i \in DOMAIN h[k].indexes => series[i].points[r] = h[k].indexes[i]
  <2>1. k \in Own(i) <=> i \in DOMAIN h[k].indexes
    OBVIOUS
  <2>2. Own(i) \in SUBSET DOMAIN h
    OBVIOUS
  <2> HIDE DEF Own
  <2>3. /\ r \in {Charts!ResolvedRun(h[j]) : j \in Own(i)} <=> k \in Own(i)
        /\ k \in Own(i) => Charts!LastOf(h, Own(i) \cap Charts!OfRun(h, r)) = h[k]
    BY <2>2, OnlyOfRun
  <2> DEFINE runs == {Charts!ResolvedRun(h[j]) : j \in Own(i)}
             last(q) == Charts!LastOf(h, Own(i) \cap Charts!OfRun(h, q))
  <2>4. series[i].points = [q \in runs |-> last(q).indexes[i]]
    BY <1>2
  <2>5. /\ r \in runs <=> k \in Own(i)
        /\ k \in Own(i) => last(r) = h[k]
    BY <2>3
  <2> HIDE DEF runs, last
  <2> QED
    BY <2>1, <2>4, <2>5
<1> QED
  BY <1>3, <1>4 DEF series

LEMMA StatsPoints ==
  ASSUME NEW h, IsHistory(h), NEW k \in DOMAIN h, NEW r, Charts!ResolvedRun(h[k]) = r
  PROVE  LET series == Charts!StatsHistory(h)
         IN  /\ {s \in DOMAIN series : r \in DOMAIN series[s]} = DOMAIN h[k].stats
             /\ \A s \in DOMAIN h[k].stats : series[s][r] = h[k].stats[s]
<1> DEFINE series == Charts!StatsHistory(h)
           Own(s) == {j \in DOMAIN h : s \in DOMAIN h[j].stats}
<1>1. DOMAIN series = UNION {DOMAIN h[j].stats : j \in DOMAIN h}
  BY DEF Charts!StatsHistory
<1>2. ASSUME NEW s \in DOMAIN series
      PROVE  series[s] =
               [q \in {Charts!ResolvedRun(h[j]) : j \in Own(s)} |->
                  Charts!LastOf(h, Own(s) \cap Charts!OfRun(h, q)).stats[s]]
  BY DEF Charts!StatsHistory
<1>3. DOMAIN h[k].stats \subseteq DOMAIN series
  BY <1>1
<1> HIDE DEF series
<1>4. ASSUME NEW s \in DOMAIN series
      PROVE  /\ r \in DOMAIN series[s] <=> s \in DOMAIN h[k].stats
             /\ s \in DOMAIN h[k].stats => series[s][r] = h[k].stats[s]
  <2>1. k \in Own(s) <=> s \in DOMAIN h[k].stats
    OBVIOUS
  <2>2. Own(s) \in SUBSET DOMAIN h
    OBVIOUS
  <2> HIDE DEF Own
  <2>3. /\ r \in {Charts!ResolvedRun(h[j]) : j \in Own(s)} <=> k \in Own(s)
        /\ k \in Own(s) => Charts!LastOf(h, Own(s) \cap Charts!OfRun(h, r)) = h[k]
    BY <2>2, OnlyOfRun
  <2> DEFINE runs == {Charts!ResolvedRun(h[j]) : j \in Own(s)}
             last(q) == Charts!LastOf(h, Own(s) \cap Charts!OfRun(h, q))
  <2>4. series[s] = [q \in runs |-> last(q).stats[s]]
    BY <1>2
  <2>5. /\ r \in runs <=> k \in Own(s)
        /\ k \in Own(s) => last(r) = h[k]
    BY <2>3
  <2> HIDE DEF runs, last
  <2> QED
    BY <2>1, <2>4, <2>5
<1> QED
  BY <1>3, <1>4 DEF series

\* In every view the cells of an entry have its fragmentation for the highest.
LEMMA CellsOfEntry ==
  ASSUME NEW e, IsEntry(e), NEW i, NEW series, NEW view
  PROVE  LET values == {c[2] : c \in Charts!PointCells(i, series, e, view)}
         IN  values \in SUBSET Percents /\ Charts!Highest(values) = e.frag
<1> DEFINE cells == Charts!PointCells(i, series, e, view)
           values == {c[2] : c \in cells}
<1>1. \/ values = {e.frag}
      \/ DOMAIN e.partitions # {} /\ values = {e.partitions[p] : p \in DOMAIN e.partitions}
  <2>1. \/ cells = {<<<<"index", i>>, e.frag>>}
        \/ cells = {<<<<"partition", 1>>, e.frag>>}
        \/ /\ DOMAIN e.partitions # {}
           /\ \/ cells = {<<<<"index", i, p>>, e.partitions[p]>> : p \in DOMAIN e.partitions}
              \/ cells = {<<<<"partition", p>>, e.partitions[p]>> : p \in DOMAIN e.partitions}
    BY DEF Charts!PointCells, Charts!PartitionCells, Charts!IndexCells
  <2>2. CASE cells = {<<<<"index", i>>, e.frag>>}
    BY <2>2
  <2>3. CASE cells = {<<<<"partition", 1>>, e.frag>>}
    BY <2>3
  <2>4. CASE /\ DOMAIN e.partitions # {}
             /\ cells = {<<<<"index", i, p>>, e.partitions[p]>> : p \in DOMAIN e.partitions}
    <3>1. ASSUME NEW p \in DOMAIN e.partitions PROVE e.partitions[p] \in values
      <4>1. <<<<"index", i, p>>, e.partitions[p]>> \in cells
        BY <2>4
      <4> QED
        BY <4>1
    <3>2. \A c \in cells : c[2] \in {e.partitions[p] : p \in DOMAIN e.partitions}
      BY <2>4
    <3>3. values = {e.partitions[p] : p \in DOMAIN e.partitions}
      BY <3>1, <3>2
    <3> QED
      BY <2>4, <3>3
  <2>5. CASE /\ DOMAIN e.partitions # {}
             /\ cells = {<<<<"partition", p>>, e.partitions[p]>> : p \in DOMAIN e.partitions}
    <3>1. ASSUME NEW p \in DOMAIN e.partitions PROVE e.partitions[p] \in values
      <4>1. <<<<"partition", p>>, e.partitions[p]>> \in cells
        BY <2>5
      <4> QED
        BY <4>1
    <3>2. \A c \in cells : c[2] \in {e.partitions[p] : p \in DOMAIN e.partitions}
      BY <2>5
    <3>3. values = {e.partitions[p] : p \in DOMAIN e.partitions}
      BY <3>1, <3>2
    <3> QED
      BY <2>5, <3>3
  <2> QED
    BY <2>1, <2>2, <2>3, <2>4, <2>5
<1>2. CASE values = {e.frag}
  <2>1. values \in SUBSET Percents
    BY <1>2 DEF IsEntry
  <2> QED
    BY <1>2, <2>1, HighestIs
<1>3. CASE DOMAIN e.partitions # {} /\ values = {e.partitions[p] : p \in DOMAIN e.partitions}
  BY <1>3 DEF IsEntry
<1> QED
  BY <1>1, <1>2, <1>3

\* The highest of a row of the chart is the highest of what its indexes have.
LEMMA RowsAgree ==
  ASSUME NEW history, NEW view, NEW r, NEW entries,
         {i \in DOMAIN history : r \in DOMAIN history[i].points} = DOMAIN entries,
         \A i \in DOMAIN entries : history[i].points[r] = entries[i] /\ IsEntry(entries[i])
  PROVE  LET row == Charts!ChartRow(history, view, r)
         IN  Charts!Highest({row[line] : line \in DOMAIN row})
               = Charts!Highest({entries[i].frag : i \in DOMAIN entries})
<1> DEFINE ids == DOMAIN entries
           cellsOf == [i \in ids |-> Charts!PointCells(i, history[i], history[i].points[r], view)]
           cells == Charts!ChartCells(history, view, r)
           row == Charts!ChartRow(history, view, r)
           lines == {c[1] : c \in cells}
           byIndex == [i \in ids |-> {c[2] : c \in cellsOf[i]}]
           byLine == [line \in lines |-> {c[2] : c \in {x \in cells : x[1] = line}}]
<1>1. cells = UNION {cellsOf[i] : i \in ids}
  BY DEF Charts!ChartCells
<1>2. ASSUME NEW i \in ids
      PROVE  byIndex[i] \in SUBSET Percents /\ Charts!Highest(byIndex[i]) = entries[i].frag
  <2>1. cellsOf[i] = Charts!PointCells(i, history[i], entries[i], view)
    OBVIOUS
  <2> QED
    BY <2>1, CellsOfEntry
<1>3. DOMAIN row = lines /\ \A line \in lines : row[line] = Charts!Highest(byLine[line])
  BY DEF Charts!ChartRow
<1> HIDE DEF cells, cellsOf, row
<1>4. UNION {byIndex[i] : i \in ids} = {c[2] : c \in cells}
  BY <1>1
<1>5. UNION {byLine[line] : line \in lines} = {c[2] : c \in cells}
  <2>1. ASSUME NEW c \in cells PROVE c[2] \in UNION {byLine[line] : line \in lines}
    <3>1. c[1] \in lines /\ c[2] \in byLine[c[1]]
      OBVIOUS
    <3> QED
      BY <3>1
  <2>2. ASSUME NEW line \in lines PROVE byLine[line] \subseteq {c[2] : c \in cells}
    OBVIOUS
  <2> QED
    BY <2>1, <2>2
<1>6. byIndex \in [ids -> SUBSET Percents]
  BY <1>2
<1>7. {c[2] : c \in cells} \subseteq Percents
  BY <1>4, <1>6
<1>8. byLine \in [lines -> SUBSET Percents]
  BY <1>7
<1>9. {Charts!Highest(byIndex[i]) : i \in ids} = {entries[i].frag : i \in ids}
  BY <1>2
<1>10. {Charts!Highest(byLine[line]) : line \in lines} = {row[line] : line \in DOMAIN row}
  BY <1>3
<1> HIDE DEF byIndex, byLine, lines, ids
<1>11. Charts!Highest({Charts!Highest(byIndex[i]) : i \in ids}) = Charts!Highest({c[2] : c \in cells})
  BY <1>4, <1>6, HighestOfParts
<1>12. Charts!Highest({Charts!Highest(byLine[line]) : line \in lines}) = Charts!Highest({c[2] : c \in cells})
  BY <1>5, <1>8, HighestOfParts
<1> QED
  BY <1>9, <1>10, <1>11, <1>12 DEF row, ids

LEMMA HistoriesAgree ==
  ASSUME NEW h, IsHistory(h), NEW r \in DOMAIN Charts!TableHistory(h)
  PROVE  LET trend   == Charts!TableHistory(h)
             indexes == Charts!IndexHistory(h)
             stats   == Charts!StatsHistory(h)
         IN  /\ trend[r] = Charts!Summary(Charts!LastOf(h, Charts!OfRun(h, r)))
             /\ \A view \in Charts!ViewModes :
                  LET row == Charts!ChartRow(indexes, view, r)
                  IN  Charts!Highest({row[line] : line \in DOMAIN row}) = trend[r].frag
             /\ trend[r].stale = Charts!Cardinality(
                  {s \in DOMAIN stats : r \in DOMAIN stats[s] /\ stats[s][r] > 0})
<1> DEFINE trend == Charts!TableHistory(h)
           indexes == Charts!IndexHistory(h)
           stats == Charts!StatsHistory(h)
<1>1. PICK k \in DOMAIN h :
        /\ Charts!ResolvedRun(h[k]) = r
        /\ trend[r] = Charts!Summary(h[k])
        /\ Charts!Summary(Charts!LastOf(h, Charts!OfRun(h, r))) = Charts!Summary(h[k])
  BY TrendPoints
<1>2. h[k] \in Docs
  BY DEF IsHistory
<1>3. /\ trend[r].frag = Charts!Highest({h[k].indexes[i].frag : i \in DOMAIN h[k].indexes})
      /\ trend[r].stale = Charts!Cardinality({s \in DOMAIN h[k].stats : h[k].stats[s] > 0})
  BY <1>1 DEF Charts!Summary
<1>4. /\ {i \in DOMAIN indexes : r \in DOMAIN indexes[i].points} = DOMAIN h[k].indexes
      /\ \A i \in DOMAIN h[k].indexes :
           indexes[i].points[r] = h[k].indexes[i] /\ IsEntry(h[k].indexes[i])
  BY <1>1, <1>2, IndexPoints, DocsFacts
<1>5. /\ {s \in DOMAIN stats : r \in DOMAIN stats[s]} = DOMAIN h[k].stats
      /\ \A s \in DOMAIN h[k].stats : stats[s][r] = h[k].stats[s]
  BY <1>1, StatsPoints
<1> HIDE DEF trend, indexes, stats
<1>6. ASSUME NEW view
      PROVE  LET row == Charts!ChartRow(indexes, view, r)
             IN  Charts!Highest({row[line] : line \in DOMAIN row}) = trend[r].frag
  BY <1>3, <1>4, RowsAgree
<1>7. {s \in DOMAIN stats : r \in DOMAIN stats[s] /\ stats[s][r] > 0}
        = {s \in DOMAIN h[k].stats : h[k].stats[s] > 0}
  BY <1>5
<1> QED
  BY <1>1, <1>3, <1>6, <1>7 DEF trend, indexes, stats

\* ChartsAgree: the row of the table list, the point of the trend and the three
\* views of the indexes have one highest fragmentation for a capture, and row,
\* trend and statistics one number of stale ones (mapCatalogTableSummary,
\* getCatalogIndexHistory, buildIndexChartModel).
THEOREM ChartsAgreeAlways == Spec => []ChartsAgree
<1>1. DocsInv => ChartsAgree
  <2> SUFFICES ASSUME DocsInv PROVE Charts!ChartsAgree
    BY DEF ChartsAgree
  <2>1. \A t \in ChartTables : IsHistory(docs[t])
    BY DEF DocsInv, HistoriesOK, IsHistory
  <2> QED
    BY <2>1, HistoriesAgree DEF Charts!ChartsAgree
<1> QED
  BY <1>1, DocsInvariant, PTL

-----------------------------------------------------------------------------
(* Buckets of the previews.                                                *)

Widths == {2, 5}

LEMMA WidthIsOne ==
  ASSUME NEW topic PROVE BucketMinutes(topic) \in Widths
  BY DEF BucketMinutes, Widths

\* What lies in a range is in one of its buckets, and what is later is in no
\* earlier one.
LEMMA BucketsOfRange ==
  ASSUME NEW range, range.from \in Int, range.to \in Int, NEW w \in Widths
  PROVE  /\ Buckets(range, w) \subseteq Nat
         /\ IsFiniteSet(Buckets(range, w))
         /\ \A at \in Int :
              /\ BucketOf(at, range, w) \in Int
              /\ range.from <= at /\ at <= range.to => BucketOf(at, range, w) \in Buckets(range, w)
         /\ \A s, t \in Int : s <= t => BucketOf(s, range, w) <= BucketOf(t, range, w)
<1>1. CASE w = 2
  <2> USE <1>1 DEF Buckets, BucketOf, FloorToBucket, CeilToBucket
  <2>1. (CeilToBucket(range.to, w) - FloorToBucket(range.from, w)) \div w \in Int
    OBVIOUS
  <2>2. Buckets(range, w) \subseteq Nat /\ IsFiniteSet(Buckets(range, w))
    BY <2>1, FS_Interval
  <2>3. ASSUME NEW at \in Int PROVE BucketOf(at, range, w) \in Int
    OBVIOUS
  <2>4. ASSUME NEW at \in Int, range.from <= at, at <= range.to
        PROVE  BucketOf(at, range, w) \in Buckets(range, w)
    BY <2>4
  <2>5. ASSUME NEW s \in Int, NEW t \in Int, s <= t
        PROVE  BucketOf(s, range, w) <= BucketOf(t, range, w)
    BY <2>5
  <2> QED
    BY <2>2, <2>3, <2>4, <2>5
<1>2. CASE w = 5
  <2> USE <1>2 DEF Buckets, BucketOf, FloorToBucket, CeilToBucket
  <2>1. (CeilToBucket(range.to, w) - FloorToBucket(range.from, w)) \div w \in Int
    OBVIOUS
  <2>2. Buckets(range, w) \subseteq Nat /\ IsFiniteSet(Buckets(range, w))
    BY <2>1, FS_Interval
  <2>3. ASSUME NEW at \in Int PROVE BucketOf(at, range, w) \in Int
    OBVIOUS
  <2>4. ASSUME NEW at \in Int, range.from <= at, at <= range.to
        PROVE  BucketOf(at, range, w) \in Buckets(range, w)
    BY <2>4
  <2>5. ASSUME NEW s \in Int, NEW t \in Int, s <= t
        PROVE  BucketOf(s, range, w) <= BucketOf(t, range, w)
    BY <2>5
  <2> QED
    BY <2>2, <2>3, <2>4, <2>5
<1> QED
  BY <1>1, <1>2 DEF Widths

LEMMA Divided ==
  ASSUME NEW at \in Int
  PROVE  /\ \E a, r, u \in Int : /\ 0 <= r /\ r < 2 /\ at = 2 * a + r
                                 /\ (r = 0 /\ u = a) \/ (r > 0 /\ u = a + 1)
                                 /\ FloorToBucket(at, 2) = 2 * a
                                 /\ CeilToBucket(at, 2) = 2 * u
         /\ \E a, r, u \in Int : /\ 0 <= r /\ r < 5 /\ at = 5 * a + r
                                 /\ (r = 0 /\ u = a) \/ (r > 0 /\ u = a + 1)
                                 /\ FloorToBucket(at, 5) = 5 * a
                                 /\ CeilToBucket(at, 5) = 5 * u
<1>1. \E a, r, u \in Int : /\ 0 <= r /\ r < 2 /\ at = 2 * a + r
                           /\ (r = 0 /\ u = a) \/ (r > 0 /\ u = a + 1)
                           /\ FloorToBucket(at, 2) = 2 * a
                           /\ CeilToBucket(at, 2) = 2 * u
  <2>1. /\ at = 2 * (at \div 2) + (at % 2) /\ at \div 2 \in Int /\ at % 2 \in Int
        /\ 0 <= at % 2 /\ at % 2 < 2
    OBVIOUS
  <2>2. FloorToBucket(at, 2) = 2 * (at \div 2)
    BY <2>1 DEF FloorToBucket
  <2>3. CASE at % 2 = 0
    <3>1. CeilToBucket(at, 2) = 2 * (at \div 2)
      BY <2>1, <2>3 DEF CeilToBucket
    <3> WITNESS at \div 2 \in Int, at % 2 \in Int, at \div 2 \in Int
    <3> QED
      BY <2>1, <2>2, <2>3, <3>1
  <2>4. CASE at % 2 # 0
    <3>1. CeilToBucket(at, 2) = 2 * ((at \div 2) + 1) /\ (at \div 2) + 1 \in Int
      BY <2>1, <2>4 DEF CeilToBucket
    <3> WITNESS at \div 2 \in Int, at % 2 \in Int, (at \div 2) + 1 \in Int
    <3> QED
      BY <2>1, <2>2, <2>4, <3>1
  <2> QED
    BY <2>3, <2>4
<1>2. \E a, r, u \in Int : /\ 0 <= r /\ r < 5 /\ at = 5 * a + r
                           /\ (r = 0 /\ u = a) \/ (r > 0 /\ u = a + 1)
                           /\ FloorToBucket(at, 5) = 5 * a
                           /\ CeilToBucket(at, 5) = 5 * u
  <2>1. /\ at = 5 * (at \div 5) + (at % 5) /\ at \div 5 \in Int /\ at % 5 \in Int
        /\ 0 <= at % 5 /\ at % 5 < 5
    OBVIOUS
  <2>2. FloorToBucket(at, 5) = 5 * (at \div 5)
    BY <2>1 DEF FloorToBucket
  <2>3. CASE at % 5 = 0
    <3>1. CeilToBucket(at, 5) = 5 * (at \div 5)
      BY <2>1, <2>3 DEF CeilToBucket
    <3> WITNESS at \div 5 \in Int, at % 5 \in Int, at \div 5 \in Int
    <3> QED
      BY <2>1, <2>2, <2>3, <3>1
  <2>4. CASE at % 5 # 0
    <3>1. CeilToBucket(at, 5) = 5 * ((at \div 5) + 1) /\ (at \div 5) + 1 \in Int
      BY <2>1, <2>4 DEF CeilToBucket
    <3> WITNESS at \div 5 \in Int, at % 5 \in Int, (at \div 5) + 1 \in Int
    <3> QED
      BY <2>1, <2>2, <2>4, <3>1
  <2> QED
    BY <2>3, <2>4
<1> QED
  BY <1>1, <1>2

\* What is as far from the start of an earlier range is in a bucket of the
\* later one, at most one off.
LEMMA BucketsBelow ==
  ASSUME NEW shown, shown.from \in Int, shown.to \in Int, NEW by \in Int,
         NEW range, range.from = shown.from - by, range.to = shown.to - by,
         NEW w \in Widths, NEW at \in Int, range.from <= at, at <= range.to
  PROVE  LET k    == BucketOf(at, range, w)
             here == DisplayedAt(k, shown.from, w)
             same == FloorToBucket(at + by, w)
         IN  /\ k \in Buckets(shown, w)
             /\ here - same \in {-w, 0, w}
             /\ by % w = 0 => here = same
<1> DEFINE k    == BucketOf(at, range, w)
           here == DisplayedAt(k, shown.from, w)
           same == FloorToBucket(at + by, w)
<1>3. at + by \in Int /\ range.from \in Int
  OBVIOUS
<1>1. CASE w = 2
  <2>1. PICK a, ra \in Int : /\ 0 <= ra /\ ra < 2 /\ range.from = 2 * a + ra
                            /\ FloorToBucket(range.from, 2) = 2 * a
    BY <1>3, Divided
  <2>2. PICK b, rb \in Int : /\ 0 <= rb /\ rb < 2 /\ at = 2 * b + rb
                            /\ FloorToBucket(at, 2) = 2 * b
    BY <1>3, Divided
  <2>3. PICK c, rc \in Int : /\ 0 <= rc /\ rc < 2 /\ shown.from = 2 * c + rc
                            /\ FloorToBucket(shown.from, 2) = 2 * c
    BY <1>3, Divided
  <2>4. PICK d, rd \in Int : /\ 0 <= rd /\ rd < 2 /\ at + by = 2 * d + rd
                            /\ FloorToBucket(at + by, 2) = 2 * d
    BY <1>3, Divided
  <2>5. PICK e, re, u \in Int :
          /\ 0 <= re /\ re < 2 /\ shown.to = 2 * e + re
          /\ (re = 0 /\ u = e) \/ (re > 0 /\ u = e + 1)
          /\ FloorToBucket(shown.to, 2) = 2 * e
          /\ CeilToBucket(shown.to, 2) = 2 * u
    BY Divided, Zenon
  <2>6. k = b - a
    BY <1>1, <2>1, <2>2 DEF BucketOf
  <2>7. here = 2 * c + 2 * (b - a)
    BY <1>1, <2>3, <2>6 DEF DisplayedAt
  <2>8. Buckets(shown, w) = 0 .. (u - c)
    <3>1. (2 * u - 2 * c) \div 2 = u - c
      OBVIOUS
    <3> QED
      BY <1>1, <2>3, <2>5, <3>1 DEF Buckets
  <2>9. b - a >= 0 /\ b - a <= u - c
    BY <2>1, <2>2, <2>3, <2>5
  <2>10. here - same \in {-2, 0, 2}
    <3>1. 2 * c + 2 * (b - a) - 2 * d = rd + ra - rb - rc
      BY <2>1, <2>2, <2>3, <2>4
    <3>2. c + (b - a) - d \in {-1, 0, 1}
      BY <2>1, <2>2, <2>3, <2>4, <3>1
    <3>3. here - same = 2 * (c + (b - a) - d)
      BY <1>1, <2>4, <2>7
    <3>4. 2 * (c + (b - a) - d) \in {-2, 0, 2}
      BY <3>2
    <3> QED
      BY <1>1, <3>3, <3>4
  <2>11. by % w = 0 => here = same
    <3> SUFFICES ASSUME by % 2 = 0 PROVE here = same
      BY <1>1
    <3>1. ra = rc
      BY <2>1, <2>3
    <3>2. rb = rd
      BY <2>2, <2>4
    <3> QED
      BY <1>1, <2>1, <2>2, <2>3, <2>4, <2>7, <3>1, <3>2
  <2> QED
    BY <1>1, <2>6, <2>8, <2>9, <2>10, <2>11
<1>2. CASE w = 5
  <2>1. PICK a, ra \in Int : /\ 0 <= ra /\ ra < 5 /\ range.from = 5 * a + ra
                            /\ FloorToBucket(range.from, 5) = 5 * a
    BY <1>3, Divided
  <2>2. PICK b, rb \in Int : /\ 0 <= rb /\ rb < 5 /\ at = 5 * b + rb
                            /\ FloorToBucket(at, 5) = 5 * b
    BY <1>3, Divided
  <2>3. PICK c, rc \in Int : /\ 0 <= rc /\ rc < 5 /\ shown.from = 5 * c + rc
                            /\ FloorToBucket(shown.from, 5) = 5 * c
    BY <1>3, Divided
  <2>4. PICK d, rd \in Int : /\ 0 <= rd /\ rd < 5 /\ at + by = 5 * d + rd
                            /\ FloorToBucket(at + by, 5) = 5 * d
    BY <1>3, Divided
  <2>5. PICK e, re, u \in Int :
          /\ 0 <= re /\ re < 5 /\ shown.to = 5 * e + re
          /\ (re = 0 /\ u = e) \/ (re > 0 /\ u = e + 1)
          /\ FloorToBucket(shown.to, 5) = 5 * e
          /\ CeilToBucket(shown.to, 5) = 5 * u
    BY Divided, Zenon
  <2>6. k = b - a
    BY <1>2, <2>1, <2>2 DEF BucketOf
  <2>7. here = 5 * c + 5 * (b - a)
    BY <1>2, <2>3, <2>6 DEF DisplayedAt
  <2>8. Buckets(shown, w) = 0 .. (u - c)
    <3>1. (5 * u - 5 * c) \div 5 = u - c
      OBVIOUS
    <3> QED
      BY <1>2, <2>3, <2>5, <3>1 DEF Buckets
  <2>9. b - a >= 0 /\ b - a <= u - c
    BY <2>1, <2>2, <2>3, <2>5
  <2>10. here - same \in {-5, 0, 5}
    <3>1. 5 * c + 5 * (b - a) - 5 * d = rd + ra - rb - rc
      BY <2>1, <2>2, <2>3, <2>4
    <3>2. c + (b - a) - d \in {-1, 0, 1}
      BY <2>1, <2>2, <2>3, <2>4, <3>1
    <3>3. here - same = 5 * (c + (b - a) - d)
      BY <1>2, <2>4, <2>7
    <3>4. 5 * (c + (b - a) - d) \in {-5, 0, 5}
      BY <3>2
    <3> QED
      BY <1>2, <3>3, <3>4
  <2>11. by % w = 0 => here = same
    <3> SUFFICES ASSUME by % 5 = 0 PROVE here = same
      BY <1>2
    <3>1. ra = rc
      BY <2>1, <2>3
    <3>2. rb = rd
      BY <2>2, <2>4
    <3> QED
      BY <1>2, <2>1, <2>2, <2>3, <2>4, <2>7, <3>1, <3>2
  <2> QED
    BY <1>2, <2>6, <2>8, <2>9, <2>10, <2>11
<1> QED
  BY <1>1, <1>2 DEF Widths

-----------------------------------------------------------------------------
(* The newest of some places, the greatest and the least of some numbers.  *)

LEMMA LeastExists ==
  ASSUME NEW S \in SUBSET Nat, S # {}
  PROVE  \E m \in S : \A v \in S : m <= v
<1> DEFINE Less == {ss \in Nat \X Nat : ss[1] < ss[2]}
<1>1. IsWellFoundedOn(Less, Nat)
  BY NatLessThanWellFounded DEF OpToRel
<1>2. \A v, m \in S : v < m => <<v, m>> \in Less
  OBVIOUS
<1> HIDE DEF Less
<1>3. PICK m \in S : \A v \in S : ~ (<<v, m>> \in Less)
  BY <1>1, WFMin
<1>4. ASSUME NEW v \in S PROVE m <= v
  <2>1. ~ (v < m)
    BY <1>2, <1>3
  <2>2. v \in Nat /\ m \in Nat
    OBVIOUS
  <2> QED
    BY <2>1, <2>2
<1> QED
  BY <1>4

\* Places whose findings have instants, and the one that is sorted last.
Stamped(items, places) ==
  IsFiniteSet(places) /\ places \subseteq Int /\ \A i \in places : items[i].at \in Int

Before(items, i, j) ==
  items[i].at < items[j].at \/ (items[i].at = items[j].at /\ i < j)

IsNewest(items, places, n) ==
  n \in places /\ \A i \in places : i = n \/ Before(items, i, n)

LEMMA StampedPart ==
  ASSUME NEW items, NEW places, Stamped(items, places), NEW part \in SUBSET places
  PROVE  Stamped(items, part)
  BY FS_Subset DEF Stamped

LEMMA BeforeIsAnOrder ==
  ASSUME NEW items, NEW places, Stamped(items, places),
         NEW i \in places, NEW j \in places, NEW k \in places
  PROVE  /\ ~ Before(items, i, i)
         /\ i # j => Before(items, i, j) \/ Before(items, j, i)
         /\ Before(items, i, j) /\ Before(items, j, k) => Before(items, i, k)
<1>1. /\ i \in Int /\ j \in Int /\ k \in Int
      /\ items[i].at \in Int /\ items[j].at \in Int /\ items[k].at \in Int
  BY DEF Stamped
<1>2. ~ Before(items, i, i)
  BY <1>1 DEF Before
<1>3. i # j => Before(items, i, j) \/ Before(items, j, i)
  BY <1>1 DEF Before
<1>4. Before(items, i, j) /\ Before(items, j, k) => Before(items, i, k)
  BY <1>1 DEF Before
<1> QED
  BY <1>2, <1>3, <1>4

LEMMA NewestIsLast ==
  ASSUME NEW items, NEW places, Stamped(items, places), NEW n, IsNewest(items, places, n)
  PROVE  NewestPlace(items, places) = n
<1> DEFINE AfterAll(i) ==
             \A j \in places : \/ items[j].at < items[i].at
                               \/ items[j].at = items[i].at /\ j <= i
<1>1. n \in places /\ AfterAll(n)
  <2>1. n \in places /\ n \in Int
    BY DEF IsNewest, Stamped
  <2>2. ASSUME NEW j \in places
        PROVE  items[j].at < items[n].at \/ (items[j].at = items[n].at /\ j <= n)
    <3>1. j = n \/ Before(items, j, n)
      BY DEF IsNewest
    <3>2. j \in Int /\ items[j].at \in Int
      BY DEF Stamped
    <3> QED
      BY <2>1, <3>1, <3>2 DEF Before
  <2> QED
    BY <2>1, <2>2
<1>2. ASSUME NEW i \in places, AfterAll(i) PROVE i = n
  <2>1. items[n].at < items[i].at \/ (items[n].at = items[i].at /\ n <= i)
    BY <1>1, <1>2
  <2>2. items[i].at < items[n].at \/ (items[i].at = items[n].at /\ i <= n)
    BY <1>1
  <2>3. i \in Int /\ n \in Int /\ items[i].at \in Int /\ items[n].at \in Int
    BY <1>1 DEF Stamped
  <2> HIDE DEF AfterAll
  <2> QED
    BY <2>1, <2>2, <2>3
<1>3. NewestPlace(items, places) = CHOOSE i \in places : AfterAll(i)
  BY DEF NewestPlace
<1> HIDE DEF AfterAll
<1> QED
  BY <1>1, <1>2, <1>3, Zenon

LEMMA NewestExists ==
  ASSUME NEW items, NEW places, Stamped(items, places), places # {}
  PROVE  IsNewest(items, places, NewestPlace(items, places))
<1> DEFINE Later(i) == {j \in places : Before(items, i, j)}
           counts == {Cardinality(Later(i)) : i \in places}
<1>1. ASSUME NEW i \in places PROVE IsFiniteSet(Later(i)) /\ Cardinality(Later(i)) \in Nat
  <2>1. IsFiniteSet(Later(i))
    BY FS_Subset DEF Stamped
  <2> QED
    BY <2>1, FS_CardinalityType
<1>2. counts \in SUBSET Nat /\ counts # {}
  BY <1>1
<1>3. PICK n \in counts : \A m \in counts : n <= m
  BY <1>2, LeastExists
<1>4. PICK i \in places : Cardinality(Later(i)) = n
  OBVIOUS
<1>5. ASSUME NEW j \in Later(i) PROVE FALSE
  <2>1. j \in places /\ Before(items, i, j)
    BY <1>5
  <2>2. Later(j) \in SUBSET Later(i)
    BY <2>1, BeforeIsAnOrder
  <2>3. j \notin Later(j)
    BY <2>1, BeforeIsAnOrder
  <2>4. Cardinality(Later(j)) \in counts /\ Cardinality(Later(i)) \in Nat
    BY <1>1, <2>1
  <2> HIDE DEF Later, counts
  <2>5. Cardinality(Later(j)) <= Cardinality(Later(i)) /\ Cardinality(Later(j)) # Cardinality(Later(i))
    BY <1>1, <1>5, <2>2, <2>3, FS_Subset
  <2>6. n <= Cardinality(Later(j)) /\ Cardinality(Later(j)) \in Nat
    BY <1>1, <1>3, <2>1, <2>4
  <2> QED
    BY <1>4, <2>4, <2>5, <2>6
<1>6. IsNewest(items, places, i)
  <2>1. ASSUME NEW j \in places PROVE j = i \/ Before(items, j, i)
    BY <1>5, BeforeIsAnOrder
  <2> QED
    BY <2>1 DEF IsNewest
<1> QED
  BY <1>6, NewestIsLast

LEMMA OldestExists ==
  ASSUME NEW items, NEW places, Stamped(items, places), places # {}
  PROVE  \E i \in places : \A j \in places : j = i \/ Before(items, i, j)
<1> DEFINE Earlier(i) == {j \in places : Before(items, j, i)}
           counts == {Cardinality(Earlier(i)) : i \in places}
<1>1. ASSUME NEW i \in places PROVE IsFiniteSet(Earlier(i)) /\ Cardinality(Earlier(i)) \in Nat
  <2>1. IsFiniteSet(Earlier(i))
    BY FS_Subset DEF Stamped
  <2> QED
    BY <2>1, FS_CardinalityType
<1>2. counts \in SUBSET Nat /\ counts # {}
  BY <1>1
<1>3. PICK n \in counts : \A m \in counts : n <= m
  BY <1>2, LeastExists
<1>4. PICK i \in places : Cardinality(Earlier(i)) = n
  OBVIOUS
<1>5. ASSUME NEW j \in Earlier(i) PROVE FALSE
  <2>1. j \in places /\ Before(items, j, i)
    BY <1>5
  <2>2. Earlier(j) \in SUBSET Earlier(i)
    BY <2>1, BeforeIsAnOrder
  <2>3. j \notin Earlier(j)
    BY <2>1, BeforeIsAnOrder
  <2>4. Cardinality(Earlier(j)) \in counts /\ Cardinality(Earlier(i)) \in Nat
    BY <1>1, <2>1
  <2> HIDE DEF Earlier, counts
  <2>5. Cardinality(Earlier(j)) <= Cardinality(Earlier(i)) /\ Cardinality(Earlier(j)) # Cardinality(Earlier(i))
    BY <1>1, <1>5, <2>2, <2>3, FS_Subset
  <2>6. n <= Cardinality(Earlier(j)) /\ Cardinality(Earlier(j)) \in Nat
    BY <1>1, <1>3, <2>1, <2>4
  <2> QED
    BY <1>4, <2>4, <2>5, <2>6
<1>6. ASSUME NEW j \in places PROVE j = i \/ Before(items, i, j)
  BY <1>5, BeforeIsAnOrder
<1> QED
  BY <1>6

\* The newest of all is the newest of a part it is in.
LEMMA NewestOfPart ==
  ASSUME NEW items, NEW places, Stamped(items, places), NEW part \in SUBSET places,
         NewestPlace(items, places) \in part
  PROVE  NewestPlace(items, part) = NewestPlace(items, places)
<1>1. IsNewest(items, places, NewestPlace(items, places))
  BY NewestExists
<1>2. IsNewest(items, part, NewestPlace(items, places))
  BY <1>1 DEF IsNewest
<1> QED
  BY <1>2, StampedPart, NewestIsLast

\* The places of a bucket.
InBucket(items, places, range, w, k) == {i \in places : BucketOf(items[i].at, range, w) = k}

\* The bucket of the newest is the last that has one, and it is the newest
\* there.
LEMMA NewestInBucket ==
  ASSUME NEW items, NEW places, Stamped(items, places), places # {},
         NEW range, range.from \in Int, range.to \in Int, NEW w \in Widths
  PROVE  LET n == NewestPlace(items, places)
             k == BucketOf(items[n].at, range, w)
         IN  /\ n \in places /\ k \in Int
             /\ n \in InBucket(items, places, range, w, k)
             /\ NewestPlace(items, InBucket(items, places, range, w, k)) = n
             /\ \A j \in Int : j > k => InBucket(items, places, range, w, j) = {}
<1> DEFINE n == NewestPlace(items, places)
           k == BucketOf(items[n].at, range, w)
<1>1. IsNewest(items, places, n) /\ n \in places /\ items[n].at \in Int
  BY NewestExists DEF IsNewest, Stamped
<1>2. k \in Int /\ n \in InBucket(items, places, range, w, k)
  BY <1>1, BucketsOfRange DEF InBucket
<1>3. NewestPlace(items, InBucket(items, places, range, w, k)) = n
  BY <1>2, NewestOfPart DEF InBucket
<1>4. ASSUME NEW j \in Int, j > k, NEW i \in InBucket(items, places, range, w, j) PROVE FALSE
  <2>1. i \in places /\ BucketOf(items[i].at, range, w) = j
    BY <1>4 DEF InBucket
  <2>2. items[i].at <= items[n].at /\ items[i].at \in Int
    BY <1>1, <2>1 DEF IsNewest, Before, Stamped
  <2>3. j <= k
    BY <1>1, <2>1, <2>2, BucketsOfRange
  <2> QED
    BY <1>2, <1>4, <2>3
<1> QED
  BY <1>1, <1>2, <1>3, <1>4

LEMMA GreatestIs ==
  ASSUME NEW S \in SUBSET Int, NEW m \in S, \A v \in S : v <= m
  PROVE  Max(S) = m
<1>1. \A v \in S : m >= v
  OBVIOUS
<1>2. \A x \in S : (\A y \in S : x >= y) => x = m
  OBVIOUS
<1> QED
  BY <1>1, <1>2, Zenon DEF Max

LEMMA LeastIs ==
  ASSUME NEW S \in SUBSET Int, NEW m \in S, \A v \in S : m <= v
  PROVE  Min(S) = m
<1>1. \A x \in S : (\A y \in S : x <= y) => x = m
  OBVIOUS
<1> QED
  BY <1>1, Zenon DEF Min

LEMMA EndsOfNumbers ==
  ASSUME NEW S \in SUBSET Int, IsFiniteSet(S), S # {}
  PROVE  /\ Max(S) \in S /\ \A v \in S : v <= Max(S)
         /\ Min(S) \in S /\ \A v \in S : Min(S) <= v
<1> DEFINE up   == [v \in S |-> [at |-> v]]
           down == [v \in S |-> [at |-> -v]]
<1>1. \A v \in S : up[v].at = v /\ down[v].at = -v
  OBVIOUS
<1> HIDE DEF up, down
<1>2. Stamped(up, S) /\ Stamped(down, S)
  BY <1>1 DEF Stamped
<1>3. IsNewest(up, S, NewestPlace(up, S)) /\ IsNewest(down, S, NewestPlace(down, S))
  BY <1>2, NewestExists
<1>4. NewestPlace(up, S) \in S /\ \A v \in S : v <= NewestPlace(up, S)
  <2>1. NewestPlace(up, S) \in S
    BY <1>3 DEF IsNewest
  <2>2. ASSUME NEW v \in S PROVE v <= NewestPlace(up, S)
    <3>1. v = NewestPlace(up, S) \/ Before(up, v, NewestPlace(up, S))
      BY <1>3 DEF IsNewest
    <3>2. PICK n \in Int : n = NewestPlace(up, S) /\ up[n].at = n
      BY <1>1, <2>1
    <3>3. v \in Int /\ up[v].at = v
      BY <1>1
    <3> QED
      BY <3>1, <3>2, <3>3 DEF Before
  <2> QED
    BY <2>1, <2>2
<1>5. NewestPlace(down, S) \in S /\ \A v \in S : NewestPlace(down, S) <= v
  <2>1. NewestPlace(down, S) \in S
    BY <1>3 DEF IsNewest
  <2>2. ASSUME NEW v \in S PROVE NewestPlace(down, S) <= v
    <3>1. v = NewestPlace(down, S) \/ Before(down, v, NewestPlace(down, S))
      BY <1>3 DEF IsNewest
    <3>2. PICK n \in Int : n = NewestPlace(down, S) /\ down[n].at = -n
      BY <1>1, <2>1
    <3>3. v \in Int /\ down[v].at = -v
      BY <1>1
    <3> QED
      BY <3>1, <3>2, <3>3 DEF Before
  <2> QED
    BY <2>1, <2>2
<1>6. Max(S) = NewestPlace(up, S) /\ Min(S) = NewestPlace(down, S)
  BY <1>4, <1>5, GreatestIs, LeastIs
<1> QED
  BY <1>4, <1>5, <1>6

-----------------------------------------------------------------------------
(* The availability group.                                                 *)

\* The metrics that have lines.
GroupMetrics(topic) == IF topic = "ag_health" THEN {"queue", "rate"} ELSE {"queue", "lag", "rate"}

ReadingsOf(topic, items, places) == {i \in places : Reads(topic, items[i])}

ReplicaReadings(topic, items, places, r) ==
  {i \in ReadingsOf(topic, items, places) : ReplicaOf(items[i]) = r}

\* A series has a point for each bucket of the range.
LEMMA SeriesHasBuckets ==
  ASSUME NEW topic \in CompareTopics, NEW items, NEW places, NEW range
  PROVE  DOMAIN Series(topic, items, places, range) = Buckets(range, BucketMinutes(topic))
  BY DEF CompareTopics, ReplicaTopics, Series, PlacesIn

LEMMA GroupPoints ==
  ASSUME NEW topic \in ReplicaTopics, NEW items, NEW places, NEW range,
         NEW k \in Buckets(range, BucketMinutes(topic))
  PROVE  LET point == Series(topic, items, places, range)[k]
             cell  == InBucket(items, places, range, BucketMinutes(topic), k)
         IN  /\ point.samples = Cardinality(ReadingsOf(topic, items, cell))
             /\ DOMAIN point.replicas = {ReplicaOf(items[i]) : i \in ReadingsOf(topic, items, cell)}
             /\ \A r \in DOMAIN point.replicas : \A metric \in GroupMetrics(topic) :
                  point.replicas[r][metric] =
                    Reading(items[NewestPlace(items, ReplicaReadings(topic, items, cell, r))], metric)
<1> DEFINE point == Series(topic, items, places, range)[k]
           cell  == InBucket(items, places, range, BucketMinutes(topic), k)
           newest(r) == items[NewestPlace(items, ReplicaReadings(topic, items, cell, r))]
<1>1. cell = PlacesIn(items, places, range, BucketMinutes(topic))[k]
  BY DEF PlacesIn, InBucket
<1>2. CASE topic = "ag_health"
  <2>1. point = HealthPoint(items, cell)
    BY <1>1, <1>2 DEF Series, PlacesIn
  <2>2. ReadingsOf(topic, items, cell) = {i \in cell : HealthReading(items[i])}
    BY <1>2 DEF ReadingsOf, Reads
  <2> HIDE DEF cell, point
  <2>3. /\ point.samples = Cardinality(ReadingsOf(topic, items, cell))
        /\ point.replicas = [r \in {ReplicaOf(items[i]) : i \in ReadingsOf(topic, items, cell)} |->
                               [queue |-> newest(r).m.queue, rate |-> newest(r).m.rate]]
    BY <2>1, <2>2 DEF HealthPoint, ReplicaReadings
  <2> HIDE DEF newest
  <2>4. \A r \in DOMAIN point.replicas : \A metric \in {"queue", "rate"} :
          point.replicas[r][metric] = Reading(newest(r), metric)
    BY <2>3 DEF Reading
  <2> QED
    BY <1>2, <2>3, <2>4 DEF GroupMetrics, cell, point, newest
<1>3. CASE topic = "ag_redo_secondary"
  <2>1. point = RedoPoint(items, cell)
    BY <1>1, <1>3 DEF Series, PlacesIn
  <2>2. ReadingsOf(topic, items, cell) = {i \in cell : RedoReading(items[i])}
    BY <1>3 DEF ReadingsOf, Reads
  <2> HIDE DEF cell, point
  <2>3. /\ point.samples = Cardinality(ReadingsOf(topic, items, cell))
        /\ point.replicas = [r \in {ReplicaOf(items[i]) : i \in ReadingsOf(topic, items, cell)} |->
                               [queue |-> newest(r).m.queue, lag |-> RedoLag(newest(r)),
                                rate |-> newest(r).m.rate, suspended |-> newest(r).suspended]]
    BY <2>1, <2>2 DEF RedoPoint, ReplicaReadings
  <2> HIDE DEF newest
  <2>4. \A r \in DOMAIN point.replicas : \A metric \in {"queue", "lag", "rate"} :
          point.replicas[r][metric] = Reading(newest(r), metric)
    BY <2>3 DEF Reading
  <2> QED
    BY <1>3, <2>3, <2>4 DEF GroupMetrics, cell, point, newest
<1> QED
  BY <1>2, <1>3 DEF ReplicaTopics

\* A line is drawn from a replica that the bucket heard of and that has its
\* key.
LEMMA DrawnIsReported ==
  ASSUME NEW items, NEW readings, Stamped(items, readings), NEW i \in readings
  PROVE  LET key == KeyOf[ReplicaOf(items[i])]
             q   == DrawnUnder(items, readings, key)
         IN  q \in {ReplicaOf(items[j]) : j \in readings} /\ KeyOf[q] = key
<1> DEFINE key    == KeyOf[ReplicaOf(items[i])]
           mine   == {j \in readings : ReplicaOf(items[j]) = ReplicaOf(items[i])}
           firsts == {o \in readings :
                        /\ KeyOf[ReplicaOf(items[o])] = key
                        /\ \A j \in readings : ReplicaOf(items[j]) = ReplicaOf(items[o]) =>
                             \/ items[o].at < items[j].at
                             \/ items[o].at = items[j].at /\ o <= j}
<1>0. mine \in SUBSET readings /\ i \in mine
  OBVIOUS
<1>1. PICK o \in mine : \A j \in mine : j = o \/ Before(items, o, j)
  <2> HIDE DEF mine
  <2> QED
    BY <1>0, StampedPart, OldestExists
<1>2. o \in firsts
  <2>1. ASSUME NEW j \in readings, ReplicaOf(items[j]) = ReplicaOf(items[o])
        PROVE  items[o].at < items[j].at \/ (items[o].at = items[j].at /\ o <= j)
    <3>1. j = o \/ Before(items, o, j)
      BY <1>1, <2>1
    <3>2. j \in Int /\ o \in Int /\ items[j].at \in Int
      BY DEF Stamped
    <3> QED
      BY <3>1, <3>2 DEF Before
  <2> QED
    BY <2>1
<1>3. firsts \in SUBSET readings /\ \A p \in firsts : KeyOf[ReplicaOf(items[p])] = key
  OBVIOUS
<1>4. DrawnUnder(items, readings, key) = ReplicaOf(items[NewestPlace(items, firsts)])
  BY DEF DrawnUnder
<1> HIDE DEF firsts, key
<1>5. NewestPlace(items, firsts) \in firsts
  BY <1>2, <1>3, StampedPart, NewestExists DEF IsNewest
<1> QED
  BY <1>3, <1>4, <1>5 DEF key

\* What a point keeps for its lines: for each key a replica that has it.
IsDrawn(point) ==
  /\ DOMAIN point.drawn = {KeyOf[q] : q \in DOMAIN point.replicas}
  /\ \A key \in DOMAIN point.drawn :
       point.drawn[key] \in DOMAIN point.replicas /\ KeyOf[point.drawn[key]] = key

LEMMA GroupDrawn ==
  ASSUME NEW topic \in ReplicaTopics, NEW items, NEW places, Stamped(items, places), NEW range,
         NEW k \in Buckets(range, BucketMinutes(topic))
  PROVE  IsDrawn(Series(topic, items, places, range)[k])
<1> DEFINE point == Series(topic, items, places, range)[k]
           cell  == InBucket(items, places, range, BucketMinutes(topic), k)
           readings == ReadingsOf(topic, items, cell)
           keys == {KeyOf[ReplicaOf(items[i])] : i \in readings}
<1>1. cell = PlacesIn(items, places, range, BucketMinutes(topic))[k]
  BY DEF PlacesIn, InBucket
<1>2. point.drawn = [key \in keys |-> DrawnUnder(items, readings, key)]
  <2>1. CASE topic = "ag_health"
    <3>1. point = HealthPoint(items, cell)
      BY <1>1, <2>1 DEF Series, PlacesIn
    <3>2. readings = {i \in cell : HealthReading(items[i])}
      BY <2>1 DEF ReadingsOf, Reads
    <3> HIDE DEF cell, point, readings
    <3> QED
      BY <3>1, <3>2 DEF HealthPoint
  <2>2. CASE topic = "ag_redo_secondary"
    <3>1. point = RedoPoint(items, cell)
      BY <1>1, <2>2 DEF Series, PlacesIn
    <3>2. readings = {i \in cell : RedoReading(items[i])}
      BY <2>2 DEF ReadingsOf, Reads
    <3> HIDE DEF cell, point, readings
    <3> QED
      BY <3>1, <3>2 DEF RedoPoint
  <2> QED
    BY <2>1, <2>2 DEF ReplicaTopics
<1>3. readings \in SUBSET places
  BY DEF ReadingsOf, InBucket
<1>4. Stamped(items, readings)
  BY <1>3, StampedPart
<1>5. DOMAIN point.replicas = {ReplicaOf(items[i]) : i \in readings}
  BY GroupPoints
<1> HIDE DEF point, readings
<1>6. ASSUME NEW key \in keys
      PROVE  point.drawn[key] \in DOMAIN point.replicas /\ KeyOf[point.drawn[key]] = key
  <2>1. PICK i \in readings : key = KeyOf[ReplicaOf(items[i])]
    OBVIOUS
  <2>2. point.drawn[key] = DrawnUnder(items, readings, key)
    BY <1>2
  <2> QED
    BY <1>4, <1>5, <2>1, <2>2, DrawnIsReported
<1>7. DOMAIN point.drawn = keys
  BY <1>2
<1>8. keys = {KeyOf[q] : q \in {ReplicaOf(items[i]) : i \in readings}}
  OBVIOUS
<1> HIDE DEF keys
<1> QED
  BY <1>5, <1>6, <1>7, <1>8 DEF point, IsDrawn

\* What is read in a range.
InRange(items, places, range) ==
  /\ Stamped(items, places)
  /\ range.from \in Int /\ range.to \in Int
  /\ \A i \in places : range.from <= items[i].at /\ items[i].at <= range.to

\* Each reading is a sample of one bucket.
LEMMA SamplesAddUp ==
  ASSUME NEW topic \in ReplicaTopics, NEW items, NEW places, NEW range, InRange(items, places, range)
  PROVE  LET series == Series(topic, items, places, range)
         IN  SumOf([k \in DOMAIN series |-> series[k].samples])
               = Cardinality(ReadingsOf(topic, items, places))
<1> DEFINE series == Series(topic, items, places, range)
           w    == BucketMinutes(topic)
           Keys == Buckets(range, w)
           S    == ReadingsOf(topic, items, places)
           part == [i \in S |-> BucketOf(items[i].at, range, w)]
           counts == [k \in Keys |-> series[k].samples]
<1>1. DOMAIN series = Keys
  BY SeriesHasBuckets DEF CompareTopics
<1>2. S \in SUBSET places /\ IsFiniteSet(S)
  BY FS_Subset DEF ReadingsOf, InRange, Stamped
<1>3. part \in [S -> Keys]
  BY <1>2, WidthIsOne, BucketsOfRange DEF InRange, Stamped
<1>4. ASSUME NEW k \in Keys PROVE counts[k] = Cardinality({i \in S : part[i] = k})
  <2>1. ReadingsOf(topic, items, InBucket(items, places, range, w, k)) = {i \in S : part[i] = k}
    BY DEF ReadingsOf, InBucket
  <2>2. series[k].samples
          = Cardinality(ReadingsOf(topic, items, InBucket(items, places, range, w, k)))
    BY GroupPoints
  <2>3. counts[k] = series[k].samples
    BY Zenon
  <2> QED
    BY <2>1, <2>2, <2>3
<1> HIDE DEF S, Keys, part
<1>5. SumOf(counts) = Cardinality(S)
  BY <1>2, <1>3, <1>4, PartsAddUp
<1> QED
  BY <1>1, <1>5 DEF S

\* Different places have different findings.
LEMMA CountedOnce ==
  ASSUME NEW items, IsInjective(items), NEW S \in SUBSET DOMAIN items, IsFiniteSet(S)
  PROVE  Cardinality({items[i] : i \in S}) = Cardinality(S)
<1> DEFINE at == [i \in S |-> items[i]]
           T  == {items[i] : i \in S}
<1>1. at \in Surjection(S, T)
  BY DEF Surjection
<1>2. at \in Injection(S, T)
  BY DEF Injection, IsInjective
<1> QED
  BY <1>1, <1>2, FS_Surjection

LEMMA LineIs ==
  ASSUME NEW chart, NEW metric, NEW r, NEW when
  PROVE  LET line == ReplicaLine(chart, metric, r, when)
         IN  /\ line.of = metric /\ line.who = r /\ line.when = when
             /\ DOMAIN line.values = DOMAIN chart.now
  BY DEF ReplicaLine

\* What a line tells of a bucket.
LEMMA ReplicaLineValues ==
  ASSUME NEW metric, NEW chart, NEW r, NEW k \in DOMAIN chart.now, IsDrawn(chart.now[k])
  PROVE  \/ ReplicaLine(chart, metric, r, "now").values[k] = Null
         \/ \E q \in DOMAIN chart.now[k].replicas :
              /\ KeyOf[q] = KeyOf[r]
              /\ ReplicaLine(chart, metric, r, "now").values[k] = chart.now[k].replicas[q][metric]
<1> DEFINE point == chart.now[k]
           value == ReplicaLine(chart, metric, r, "now").values[k]
<1>1. value = IF KeyOf[r] \notin DOMAIN point.drawn THEN Null
              ELSE point.replicas[point.drawn[KeyOf[r]]][metric]
  BY DEF ReplicaLine
<1>2. ASSUME KeyOf[r] \in DOMAIN point.drawn
      PROVE  point.drawn[KeyOf[r]] \in DOMAIN point.replicas
               /\ KeyOf[point.drawn[KeyOf[r]]] = KeyOf[r]
  BY <1>2 DEF IsDrawn
<1> HIDE DEF point, value
<1> QED
  BY <1>1, <1>2 DEF point, value

\* That is its own replica's, where no other has its key.
LEMMA AloneLineValues ==
  ASSUME NEW metric, NEW chart, NEW when, NEW r, Alone(chart[when], r), NEW k \in DOMAIN chart.now,
         k \in DOMAIN chart[when], IsDrawn(chart[when][k])
  PROVE  ReplicaLine(chart, metric, r, when).values[k] =
           IF r \notin DOMAIN chart[when][k].replicas THEN Null ELSE chart[when][k].replicas[r][metric]
<1> DEFINE point == chart[when][k]
           value == ReplicaLine(chart, metric, r, when).values[k]
<1>1. value = IF KeyOf[r] \notin DOMAIN point.drawn THEN Null
              ELSE point.replicas[point.drawn[KeyOf[r]]][metric]
  BY DEF ReplicaLine
<1>2. /\ DOMAIN point.drawn = {KeyOf[q] : q \in DOMAIN point.replicas}
      /\ \A key \in DOMAIN point.drawn :
           point.drawn[key] \in DOMAIN point.replicas /\ KeyOf[point.drawn[key]] = key
  BY DEF IsDrawn
<1>3. \A q \in DOMAIN point.replicas : KeyOf[q] = KeyOf[r] => q = r
  BY DEF Alone, ReplicaNames
<1> HIDE DEF point, value
<1>4. KeyOf[r] \in DOMAIN point.drawn <=> r \in DOMAIN point.replicas
  BY <1>2, <1>3
<1>5. KeyOf[r] \in DOMAIN point.drawn => point.drawn[KeyOf[r]] = r
  BY <1>2, <1>3
<1> QED
  BY <1>1, <1>4, <1>5 DEF point, value

\* The newest reading of a replica that is alone with its key is the last
\* point of its lines.
LEMMA ReplicaLineEnds ==
  ASSUME NEW topic \in ReplicaTopics, NEW items, NEW places, NEW range, InRange(items, places, range),
         NEW metric \in GroupMetrics(topic), NEW chart,
         chart.now = Series(topic, items, places, range),
         NEW r \in ReplicaNames(chart.now), Alone(chart.now, r)
  PROVE  LET line   == ReplicaLine(chart, metric, r, "now")
             newest == items[NewestPlace(items, ReplicaReadings(topic, items, places, r))]
             last   == BucketOf(newest.at, range, BucketMinutes(topic))
         IN  /\ line.values[last] = Reading(newest, metric)
             /\ \A k \in DOMAIN line.values : k > last => line.values[k] = Null
<1> DEFINE w    == BucketMinutes(topic)
           mine == ReplicaReadings(topic, items, places, r)
           n    == NewestPlace(items, mine)
           last == BucketOf(items[n].at, range, w)
           line == ReplicaLine(chart, metric, r, "now")
           cell(k) == InBucket(items, places, range, w, k)
<1>0. DOMAIN chart.now = Buckets(range, w) /\ w \in Widths
  BY SeriesHasBuckets, WidthIsOne DEF CompareTopics
<1>1. mine \in SUBSET places /\ Stamped(items, mine)
  BY StampedPart DEF ReplicaReadings, ReadingsOf, InRange
<1>2. \A k : ReplicaReadings(topic, items, cell(k), r) = InBucket(items, mine, range, w, k)
  BY DEF ReplicaReadings, ReadingsOf, InBucket
<1>3. ASSUME NEW k \in Buckets(range, w)
      PROVE  /\ r \in DOMAIN chart.now[k].replicas <=> InBucket(items, mine, range, w, k) # {}
             /\ r \in DOMAIN chart.now[k].replicas =>
                  chart.now[k].replicas[r][metric]
                    = Reading(items[NewestPlace(items, InBucket(items, mine, range, w, k))], metric)
  <2>1. r \in DOMAIN chart.now[k].replicas <=> ReplicaReadings(topic, items, cell(k), r) # {}
    BY GroupPoints DEF ReplicaReadings
  <2>2. r \in DOMAIN chart.now[k].replicas =>
          chart.now[k].replicas[r][metric]
            = Reading(items[NewestPlace(items, ReplicaReadings(topic, items, cell(k), r))], metric)
    BY GroupPoints
  <2> QED
    BY <1>2, <2>1, <2>2
<1>4. mine # {}
  <2>1. PICK k \in DOMAIN chart.now : r \in DOMAIN chart.now[k].replicas
    BY DEF ReplicaNames
  <2> QED
    BY <1>0, <1>3, <2>1 DEF InBucket
<1>5. /\ n \in mine /\ last \in Int
      /\ n \in InBucket(items, mine, range, w, last)
      /\ NewestPlace(items, InBucket(items, mine, range, w, last)) = n
      /\ \A k \in Int : k > last => InBucket(items, mine, range, w, k) = {}
  BY <1>0, <1>1, <1>4, NewestInBucket DEF InRange
<1>6. last \in Buckets(range, w)
  BY <1>0, <1>1, <1>5, BucketsOfRange DEF InRange, Stamped
<1>7. /\ DOMAIN line.values = Buckets(range, w)
      /\ \A k \in Buckets(range, w) :
           line.values[k] = IF r \notin DOMAIN chart.now[k].replicas THEN Null
                            ELSE chart.now[k].replicas[r][metric]
  <2>1. DOMAIN line.values = Buckets(range, w)
    BY <1>0 DEF ReplicaLine
  <2>2. Alone(chart["now"], r)
    OBVIOUS
  <2>3. \A k \in DOMAIN chart["now"] : IsDrawn(chart["now"][k])
    BY <1>0, GroupDrawn DEF InRange
  <2> QED
    BY <1>0, <2>1, <2>2, <2>3, AloneLineValues
<1> HIDE DEF mine, n, last, line
<1>8. line.values[last] = Reading(items[n], metric)
  BY <1>3, <1>5, <1>6, <1>7
<1>9. ASSUME NEW k \in DOMAIN line.values, k > last PROVE line.values[k] = Null
  <2>1. k \in Int /\ k \in Buckets(range, w)
    BY <1>0, <1>7, BucketsOfRange DEF InRange
  <2> QED
    BY <1>3, <1>5, <1>7, <1>9, <2>1
<1> QED
  BY <1>8, <1>9 DEF line, last, n, mine

-----------------------------------------------------------------------------
(* The cards of a group.                                                   *)

LEMMA FiniteImage ==
  ASSUME NEW f, IsFiniteSet(DOMAIN f)
  PROVE  IsFiniteSet({f[x] : x \in DOMAIN f})
<1> DEFINE g == [x \in DOMAIN f |-> f[x]]
<1>1. g \in Surjection(DOMAIN f, {f[x] : x \in DOMAIN f})
  BY DEF Surjection
<1> QED
  BY <1>1, FS_Surjection

\* The places of findings that Layer 1 detected.
OfFindings(items, places) == \A i \in places : items[i] \in AllFindings

LEMMA ReadingIsNumber ==
  ASSUME NEW f \in AllFindings, NEW metric \in {"queue", "lag", "rate"}
  PROVE  Reading(f, metric) \in Int \cup {Null}
<1>1. f.m.queue \in Int \cup {Null} /\ f.m.rate \in Int \cup {Null} /\ f.m.lag \in Int \cup {Null}
  BY ReadingsAssumption DEF Metrics
<1>2. RedoLag(f) \in Int \cup {Null}
  BY <1>1, ReadingsAssumption DEF RedoLag
<1> QED
  BY <1>1, <1>2 DEF Reading

\* What the replicas of a point say of a metric are finitely many numbers.
LEMMA ValuesAreNumbers ==
  ASSUME NEW topic \in ReplicaTopics, NEW items, NEW places, Stamped(items, places),
         OfFindings(items, places), NEW range,
         NEW k \in Buckets(range, BucketMinutes(topic)),
         NEW replicas, NEW metric \in GroupMetrics(topic)
  PROVE  LET values == ValuesOf(Series(topic, items, places, range)[k], replicas, metric)
         IN  values \in SUBSET Int /\ IsFiniteSet(values)
<1> DEFINE point == Series(topic, items, places, range)[k]
           cell  == InBucket(items, places, range, BucketMinutes(topic), k)
           readings == ReadingsOf(topic, items, cell)
           values == ValuesOf(point, replicas, metric)
           told   == [r \in DOMAIN point.replicas |-> point.replicas[r][metric]]
<1>1. readings \in SUBSET places /\ IsFiniteSet(readings)
  BY FS_Subset DEF ReadingsOf, InBucket, Stamped
<1>2. DOMAIN point.replicas = {ReplicaOf(items[i]) : i \in readings}
  BY GroupPoints
<1>3. IsFiniteSet(DOMAIN point.replicas)
  <2> DEFINE who == [i \in readings |-> ReplicaOf(items[i])]
  <2>1. DOMAIN who = readings /\ {who[i] : i \in DOMAIN who} = DOMAIN point.replicas
    BY <1>2
  <2> HIDE DEF who
  <2> QED
    BY <1>1, <2>1, FiniteImage
<1>4. metric \in {"queue", "lag", "rate"}
  BY DEF GroupMetrics
<1>5. ASSUME NEW r \in DOMAIN point.replicas PROVE told[r] \in Int \cup {Null}
  <2> DEFINE mine == ReplicaReadings(topic, items, cell, r)
             n    == NewestPlace(items, mine)
  <2>1. mine \in SUBSET places /\ mine # {}
    BY <1>1, <1>2 DEF ReplicaReadings
  <2>2. n \in mine
    BY <2>1, StampedPart, NewestExists DEF IsNewest
  <2>3. told[r] = Reading(items[n], metric)
    BY GroupPoints
  <2>4. items[n] \in AllFindings
    BY <2>1, <2>2 DEF OfFindings
  <2> QED
    BY <1>4, <2>3, <2>4, ReadingIsNumber
<1>6. IsFiniteSet({told[r] : r \in DOMAIN told})
  BY <1>3, FiniteImage
<1>7. values \in SUBSET {told[r] : r \in DOMAIN told} /\ Null \notin values
  BY DEF ValuesOf
<1> HIDE DEF told, values
<1>8. values \in SUBSET Int
  <2>1. DOMAIN told = DOMAIN point.replicas
    BY DEF told
  <2> QED
    BY <1>5, <1>7, <2>1
<1>9. IsFiniteSet(values)
  BY <1>6, <1>7, FS_Subset
<1> QED
  BY <1>8, <1>9 DEF values

LEMMA HighestIsAbove ==
  ASSUME NEW values \in SUBSET Int, IsFiniteSet(values), NEW v \in values
  PROVE  Highest(values) >= v /\ Lowest(values) <= v
<1>1. values \cup {0} \in SUBSET Int /\ IsFiniteSet(values \cup {0}) /\ v \in values \cup {0}
  BY FS_AddElement
<1>2. Max(values \cup {0}) \in Int /\ v <= Max(values \cup {0})
  BY <1>1, EndsOfNumbers
<1>3. Min(values) \in Int /\ Min(values) <= v
  BY EndsOfNumbers
<1> QED
  BY <1>2, <1>3 DEF Highest, Lowest

\* A card of a group is made from the last point that has a replica.
LEMMA GroupCards ==
  ASSUME NEW now, NEW past, NEW topic \in ReplicaTopics, NEW metric \in GroupMetrics(topic)
  PROVE  LET values == ValuesOf(LatestSnapshot(now), ReplicaNames(now), metric)
         IN  GroupCard(topic, now, past, metric) = IF metric = "rate" THEN Lowest(values) ELSE Highest(values)
<1>1. CASE topic = "ag_health"
  BY <1>1 DEF GroupCard, GroupMetrics, HealthCards, HealthSummary, Card
<1>2. CASE topic # "ag_health"
  BY <1>2 DEF GroupCard, GroupMetrics, RedoCards, RedoSummary, Card
<1> QED
  BY <1>1, <1>2

\* No replica of the last point is worse than its card.
LEMMA GroupCardsEndLines ==
  ASSUME NEW topic \in ReplicaTopics, NEW items, NEW places, Stamped(items, places),
         OfFindings(items, places), NEW range, range.from \in Int, range.to \in Int,
         NEW metric \in GroupMetrics(topic), NEW chart, NEW past, NEW r,
         chart.now = Series(topic, items, places, range),
         Reported(chart.now) # {}
  PROVE  LET line == ReplicaLine(chart, metric, r, "now")
             k    == Max(Reported(chart.now))
             card == GroupCard(topic, chart.now, past, metric)
         IN  line.values[k] # Null =>
               IF metric = "rate" THEN card <= line.values[k] ELSE card >= line.values[k]
<1> DEFINE now  == chart.now
           k    == Max(Reported(now))
           line == ReplicaLine(chart, metric, r, "now")
           values == ValuesOf(now[k], ReplicaNames(now), metric)
<1>1. DOMAIN now = Buckets(range, BucketMinutes(topic))
  BY SeriesHasBuckets DEF CompareTopics
<1>2. Reported(now) \in SUBSET Int /\ IsFiniteSet(Reported(now))
  <2>1. DOMAIN now \subseteq Nat /\ IsFiniteSet(DOMAIN now)
    BY <1>1, WidthIsOne, BucketsOfRange
  <2> QED
    BY <2>1, FS_Subset DEF Reported
<1>3. k \in DOMAIN now
  BY <1>2, EndsOfNumbers DEF Reported
<1>4. LatestSnapshot(now) = now[k]
  BY DEF LatestSnapshot
<1> SUFFICES ASSUME line.values[k] # Null
             PROVE  LET card == GroupCard(topic, now, past, metric)
                    IN  IF metric = "rate" THEN card <= line.values[k] ELSE card >= line.values[k]
  OBVIOUS
<1>5. PICK q \in DOMAIN now[k].replicas : line.values[k] = now[k].replicas[q][metric]
  <2>1. k \in DOMAIN chart.now
    BY <1>3
  <2>2. IsDrawn(chart.now[k])
    BY <1>1, <1>3, GroupDrawn
  <2> HIDE DEF k
  <2>3. \/ ReplicaLine(chart, metric, r, "now").values[k] = Null
        \/ \E q \in DOMAIN chart.now[k].replicas :
             ReplicaLine(chart, metric, r, "now").values[k] = chart.now[k].replicas[q][metric]
    BY <2>1, <2>2, ReplicaLineValues
  <2> QED
    BY <2>3
<1>6. line.values[k] \in values
  BY <1>3, <1>5 DEF ValuesOf, ReplicaNames
<1>7. values \in SUBSET Int /\ IsFiniteSet(values)
  BY <1>1, <1>3, ValuesAreNumbers
<1> HIDE DEF values, line, k
<1>8. Highest(values) >= line.values[k] /\ Lowest(values) <= line.values[k]
  BY <1>6, <1>7, HighestIsAbove
<1>9. GroupCard(topic, now, past, metric) = IF metric = "rate" THEN Lowest(values) ELSE Highest(values)
  BY <1>4, GroupCards DEF values
<1> QED
  BY <1>8, <1>9

-----------------------------------------------------------------------------
(* Where the lines of the memory previews end.                             *)

LEMMA EndIs ==
  ASSUME NEW values, DOMAIN values \in SUBSET Int, NEW k \in DOMAIN values, values[k] # Null,
         \A j \in DOMAIN values : j > k => values[j] = Null
  PROVE  EndOf(values) = values[k]
<1> DEFINE drawn == {j \in DOMAIN values : values[j] # Null}
<1>1. drawn \in SUBSET Int /\ k \in drawn
  OBVIOUS
<1>2. ASSUME NEW j \in drawn PROVE j <= k
  <2>1. ~ (j > k) /\ j \in Int /\ k \in Int
    BY <1>1
  <2> QED
    BY <2>1
<1> HIDE DEF drawn
<1>3. Max(drawn) = k
  BY <1>1, <1>2, GreatestIs
<1> QED
  BY <1>1, <1>3 DEF EndOf, drawn

\* The point of a bucket and those of the page life expectancy.
LEMMA PlePoints ==
  ASSUME NEW items, NEW places, Stamped(items, places), OfFindings(items, places),
         NEW range, NEW k \in Buckets(range, BucketMinutes("ple_trend"))
  PROVE  LET point == Series("ple_trend", items, places, range)[k]
         IN  point.ple = Null /\ point.baseline = Null => point.deviation = Null
<1> DEFINE point == Series("ple_trend", items, places, range)[k]
           cell  == InBucket(items, places, range, BucketMinutes("ple_trend"), k)
           f     == items[NewestPlace(items, cell)]
<1>1. cell = PlacesIn(items, places, range, BucketMinutes("ple_trend"))[k]
  BY DEF PlacesIn, InBucket
<1>2. point = PlePoint(items, cell)
  BY <1>1 DEF Series, PlacesIn
<1>3. CASE cell = {}
  BY <1>2, <1>3 DEF PlePoint, NoPle
<1>4. CASE cell # {}
  <2>1. cell \in SUBSET places
    BY DEF InBucket
  <2>2. NewestPlace(items, cell) \in cell
    BY <1>4, <2>1, StampedPart, NewestExists DEF IsNewest
  <2>3. f \in AllFindings
    BY <2>1, <2>2 DEF OfFindings
  <2> HIDE DEF cell, point
  <2>4. point = [ple |-> f.m.ple, baseline |-> f.m.baseline, deviation |-> DeviationPct(f)]
    BY <1>2, <1>4 DEF PlePoint
  <2> HIDE DEF f
  <2>5. f.m.ple = Null /\ f.m.baseline = Null => f.m.deviation = Null
    BY <2>3, ReadingsAssumption
  <2>6. f.m.ple = Null /\ f.m.baseline = Null => DeviationPct(f) = Null
    BY <2>5 DEF DeviationPct
  <2> QED
    BY <2>4, <2>6 DEF point
<1> QED
  BY <1>3, <1>4

LEMMA PleCardsEndLines ==
  ASSUME NEW items, NEW places, Stamped(items, places), OfFindings(items, places),
         NEW range, range.from \in Int, range.to \in Int,
         NEW metric \in {"ple", "baseline", "deviation"}, NEW chart,
         chart.now = Series("ple_trend", items, places, range), PleReported(chart.now) # {}
  PROVE  PleCards(chart.now)[metric].value
           \in {Null, EndOf(PointLine(chart, metric, "now").values)}
<1> DEFINE now == chart.now
           k   == Max(PleReported(now))
           values == PointLine(chart, metric, "now").values
<1>1. DOMAIN now = Buckets(range, BucketMinutes("ple_trend"))
  BY SeriesHasBuckets DEF CompareTopics
<1>2. DOMAIN now \in SUBSET Int /\ IsFiniteSet(DOMAIN now)
  BY <1>1, WidthIsOne, BucketsOfRange
<1>3. PleReported(now) \in SUBSET DOMAIN now /\ IsFiniteSet(PleReported(now))
  BY <1>2, FS_Subset DEF PleReported
<1>4. k \in PleReported(now) /\ \A j \in PleReported(now) : j <= k
  BY <1>2, <1>3, EndsOfNumbers
<1>5. PleCards(now)[metric].value = now[k][metric]
  BY DEF PleCards, LatestPlePoint, Card
<1>6. DOMAIN values = DOMAIN now /\ \A j \in DOMAIN now : values[j] = now[j][metric]
  BY DEF PointLine
<1>7. ASSUME NEW j \in DOMAIN now, j > k PROVE now[j][metric] = Null
  <2>1. j \notin PleReported(now)
    BY <1>2, <1>3, <1>4, <1>7
  <2>2. now[j].ple = Null /\ now[j].baseline = Null
    BY <2>1 DEF PleReported
  <2>3. now[j].deviation = Null
    BY <1>1, <2>2, PlePoints
  <2> QED
    BY <2>2, <2>3
<1> HIDE DEF now, k, values
<1>8. CASE now[k][metric] # Null
  <2>1. k \in DOMAIN values /\ values[k] # Null /\ \A j \in DOMAIN values : j > k => values[j] = Null
    BY <1>3, <1>4, <1>6, <1>7, <1>8
  <2>2. EndOf(values) = values[k]
    BY <1>2, <1>6, <2>1, EndIs
  <2> QED
    BY <1>5, <1>6, <2>1, <2>2 DEF values, now
<1>9. CASE now[k][metric] = Null
  BY <1>5, <1>9 DEF now
<1> QED
  BY <1>8, <1>9

\* The newest value that is known of a range is that of the last bucket where
\* one is known.
LEMMA LatestIsLast ==
  ASSUME NEW items, NEW places, NEW range, InRange(items, places, range), NEW w \in Widths,
         NEW vals, DOMAIN vals = places, NEW of,
         of = [k \in Buckets(range, w) |->
                 LatestValue(items, [i \in InBucket(items, places, range, w, k) |-> vals[i]])],
         EndOf(of) # Null
  PROVE  EndOf(of) = LatestValue(items, vals)
<1> DEFINE known == {i \in places : vals[i] # Null}
           cell(k) == InBucket(items, places, range, w, k)
           n == NewestPlace(items, known)
           last == BucketOf(items[n].at, range, w)
<1>1. known \in SUBSET places /\ Stamped(items, known)
  BY StampedPart DEF InRange
<1>2. ASSUME NEW k \in Buckets(range, w)
      PROVE  of[k] = IF InBucket(items, known, range, w, k) = {} THEN Null
                     ELSE vals[NewestPlace(items, InBucket(items, known, range, w, k))]
  <2> DEFINE here == [i \in cell(k) |-> vals[i]]
  <2>1. {i \in DOMAIN here : here[i] # Null} = InBucket(items, known, range, w, k)
    BY DEF InBucket
  <2>2. of[k] = LatestValue(items, here)
    OBVIOUS
  <2>3. InBucket(items, known, range, w, k) # {} =>
          NewestPlace(items, InBucket(items, known, range, w, k)) \in cell(k)
    <3>1. InBucket(items, known, range, w, k) \in SUBSET known
      BY DEF InBucket
    <3>2. InBucket(items, known, range, w, k) \in SUBSET cell(k)
      BY DEF InBucket
    <3> QED
      BY <1>1, <3>1, <3>2, StampedPart, NewestExists DEF IsNewest
  <2> HIDE DEF known
  <2> QED
    BY <2>1, <2>2, <2>3 DEF LatestValue
<1>3. known # {}
  <2>1. PICK k \in DOMAIN of : of[k] # Null
    BY DEF EndOf
  <2>2. InBucket(items, known, range, w, k) # {}
    BY <1>2, <2>1
  <2> QED
    BY <2>2 DEF InBucket
<1>4. /\ n \in known /\ last \in Int
      /\ n \in InBucket(items, known, range, w, last)
      /\ NewestPlace(items, InBucket(items, known, range, w, last)) = n
      /\ \A k \in Int : k > last => InBucket(items, known, range, w, k) = {}
  BY <1>1, <1>3, NewestInBucket DEF InRange
<1>5. last \in Buckets(range, w)
  BY <1>1, <1>4, BucketsOfRange DEF InRange, Stamped
<1>6. vals[n] # Null
  BY <1>4
<1>7. LatestValue(items, vals) = vals[n]
  BY <1>3 DEF LatestValue
<1>8. DOMAIN of = Buckets(range, w) /\ DOMAIN of \in SUBSET Int
  BY BucketsOfRange DEF InRange
<1> HIDE DEF known, n, last
<1>9. of[last] = vals[n]
  BY <1>2, <1>4, <1>5
<1>10. \A k \in DOMAIN of : k > last => of[k] = Null
  BY <1>2, <1>4, <1>8
<1>11. EndOf(of) = of[last]
  BY <1>5, <1>6, <1>8, <1>9, <1>10, EndIs
<1> QED
  BY <1>7, <1>9, <1>11

LEMMA TempdbCardsEndLines ==
  ASSUME NEW range, NEW metric \in {"ple", "used", "store"}, NEW chart,
         store.topic = "tempdb_memory",
         InRange(preview.now.items, DOMAIN preview.now.items, range),
         chart.now = Series("tempdb_memory", preview.now.items, DOMAIN preview.now.items, range),
         EndOf(PointLine(chart, metric, "now").values) # Null
  PROVE  TempdbCards[metric].value = EndOf(PointLine(chart, metric, "now").values)
<1> DEFINE items  == preview.now.items
           places == DOMAIN items
           w      == BucketMinutes("tempdb_memory")
           vals   == IF metric = "ple" THEN [i \in places |-> OfNode(items[i], Null)]
                     ELSE [i \in places |-> items[i].m[metric]]
           of     == [k \in Buckets(range, w) |->
                        LatestValue(items, [i \in InBucket(items, places, range, w, k) |-> vals[i]])]
           values == PointLine(chart, metric, "now").values
<1>1. DOMAIN chart.now = Buckets(range, w)
  BY SeriesHasBuckets DEF CompareTopics
<1>2. ASSUME NEW k \in Buckets(range, w) PROVE chart.now[k][metric] = of[k]
  <2> DEFINE cell == InBucket(items, places, range, w, k)
  <2>1. cell = PlacesIn(items, places, range, w)[k] /\ cell \in SUBSET places
    BY DEF PlacesIn, InBucket
  <2>2. chart.now[k] = TempdbPoint(items, cell)
    BY <2>1 DEF Series, PlacesIn
  <2> HIDE DEF cell
  <2>3. CASE metric = "ple"
    <3>1. chart.now[k].ple = LatestValue(items, [i \in cell |-> OfNode(items[i], Null)])
      BY <2>2 DEF TempdbPoint, LatestPle
    <3>2. [i \in cell |-> OfNode(items[i], Null)] = [i \in cell |-> vals[i]]
      BY <2>1, <2>3
    <3> QED
      BY <2>3, <3>1, <3>2 DEF cell
  <2>4. CASE metric \in {"used", "store"}
    <3>1. chart.now[k][metric] = LatestValue(items, [i \in cell |-> items[i].m[metric]])
      BY <2>2, <2>4 DEF TempdbPoint, LatestOf
    <3>2. [i \in cell |-> items[i].m[metric]] = [i \in cell |-> vals[i]]
      BY <2>1, <2>4
    <3> QED
      BY <3>1, <3>2 DEF cell
  <2> QED
    BY <2>3, <2>4
<1>3. values = of
  <2>1. values = [k \in Buckets(range, w) |-> chart.now[k][metric]]
    BY <1>1 DEF PointLine
  <2> HIDE DEF of, values
  <2>2. of = [k \in Buckets(range, w) |-> of[k]]
    BY DEF of
  <2> QED
    BY <1>2, <2>1, <2>2
<1>4. EndOf(values) = LatestValue(items, vals)
  <2>1. DOMAIN vals = places
    OBVIOUS
  <2>2. w \in Widths /\ EndOf(of) # Null
    BY <1>3, WidthIsOne
  <2> HIDE DEF vals, values, w, items
  <2> QED
    BY <1>3, <2>1, <2>2, LatestIsLast DEF items
<1>5. Drawable(store, preview.now) = places
  BY DEF Drawable, ReplicaTopics
<1>6. CASE metric = "ple"
  <2>1. LatestPle(items, places, Null) = LatestValue(items, vals)
    BY <1>6 DEF LatestPle
  <2> HIDE DEF vals, values
  <2>2. TempdbSnapshot(items, places).ple = LatestValue(items, vals)
    BY <1>4, <2>1 DEF TempdbSnapshot, values
  <2> QED
    BY <1>4, <1>5, <1>6, <2>2 DEF TempdbCards, Card, values
<1>7. CASE metric \in {"used", "store"}
  <2>1. LatestOf(items, places, metric) = LatestValue(items, vals)
    BY <1>7 DEF LatestOf
  <2> HIDE DEF vals, values
  <2>2. TempdbSnapshot(items, places)[metric] = LatestValue(items, vals)
    BY <1>7, <2>1 DEF TempdbSnapshot
  <2> QED
    BY <1>4, <1>5, <1>7, <2>2 DEF TempdbCards, Card, values
<1> QED
  BY <1>6, <1>7

-----------------------------------------------------------------------------
(* The lines of each preview.                                              *)

LEMMA GroupLines ==
  ASSUME store.topic \in ReplicaTopics, NEW l \in Lines
  PROVE  /\ HasCharts
         /\ \E metric \in GroupMetrics(store.topic), r \in VisibleReplicas, w \in Whens :
              l = ReplicaLine(Chart, metric, r, w)
<1>0. HasCharts
  BY DEF Lines
<1>1. CASE store.topic = "ag_health"
  <2>1. l \in HealthQueueLines(Chart, VisibleReplicas, Whens)
             \cup HealthRateLines(Chart, VisibleReplicas, Whens)
    BY <1>0, <1>1 DEF Lines
  <2>2. PICK metric \in {"queue", "rate"}, r \in VisibleReplicas, w \in Whens :
          l = ReplicaLine(Chart, metric, r, w)
    BY <2>1 DEF HealthQueueLines, HealthRateLines
  <2> QED
    BY <1>0, <1>1, <2>2 DEF GroupMetrics
<1>2. CASE store.topic = "ag_redo_secondary"
  <2>1. l \in RedoQueueLagLines(Chart, VisibleReplicas, Whens)
             \cup RedoRateLines(Chart, VisibleReplicas, Whens)
    BY <1>0, <1>2 DEF Lines
  <2>2. PICK metric \in {"queue", "lag", "rate"}, r \in VisibleReplicas, w \in Whens :
          l = ReplicaLine(Chart, metric, r, w)
    BY <2>1 DEF RedoQueueLagLines, RedoRateLines
  <2> QED
    BY <1>0, <1>2, <2>2 DEF GroupMetrics
<1> QED
  BY <1>1, <1>2 DEF ReplicaTopics

LEMMA PleLines ==
  ASSUME store.topic = "ple_trend", NEW l \in Lines
  PROVE  /\ HasCharts
         /\ \E metric \in {"ple", "baseline", "deviation"}, w \in Whens : l = PointLine(Chart, metric, w)
<1>1. HasCharts
  BY DEF Lines
<1>2. l \in PleBaselineLines(Chart, Whens) \cup DeviationLines(Chart, Whens)
  BY <1>1 DEF Lines
<1>3. PICK metric \in {"ple", "baseline", "deviation"}, w \in Whens : l = PointLine(Chart, metric, w)
  BY <1>2 DEF PleBaselineLines, DeviationLines
<1> QED
  BY <1>1, <1>3

LEMMA TempdbLines ==
  ASSUME store.topic = "tempdb_memory", NEW l \in Lines
  PROVE  \/ \E metric \in {"ple", "used", "store"}, w \in Whens : l = PointLine(Chart, metric, w)
         \/ \E n \in NumaNodes(NowSeries(store, preview)) : l = NodeLine(Chart, n)
  BY DEF Lines, TempdbPleLines, TempdbSpaceLines

LEMMA ChartIs ==
  /\ Chart.now = Series(store.topic, preview.now.items, Drawable(store, preview.now), ResolvedNow(store))
  /\ Chart.now = NowSeries(store, preview)
  /\ Chart.past = [k \in (DOMAIN Chart.now) \cap DOMAIN PastSeries(store, preview) |->
                     PastSeries(store, preview)[k]]
  BY DEF Chart, MergeCompare, NowSeries, SeriesOf, AskedRange

-----------------------------------------------------------------------------
(* The tooltip of the redo queue and lag.                                  *)

LEMMA RedoRows ==
  ASSUME NEW lines, NEW k, NEW r \in DOMAIN RedoTooltip(lines, k)
  PROVE  /\ \E l \in lines : l.who = r
         /\ \A metric \in {"queue", "lag"} : \A v \in RedoTooltip(lines, k)[r][metric] :
              \E l \in lines : l.who = r /\ l.of = metric /\ l.values[k] = v
<1> DEFINE told == Tooltip(lines, k)
           With(metric, when) ==
             {t.value : t \in {u \in told : u.who = r /\ u.of = metric /\ u.when = when}}
           ShownIn(metric) ==
             IF With(metric, "now") # {} THEN With(metric, "now") ELSE With(metric, "past")
<1>1. \A t \in told : \E l \in lines : l.who = t.who /\ l.of = t.of /\ l.values[k] = t.value
  BY DEF Tooltip
<1>2. RedoTooltip(lines, k) =
        [q \in {t.who : t \in told} |->
           LET By(metric, when) ==
                 {t.value : t \in {u \in told : u.who = q /\ u.of = metric /\ u.when = when}}
               Said(metric) == IF By(metric, "now") # {} THEN By(metric, "now") ELSE By(metric, "past")
           IN  [queue |-> Said("queue"), lag |-> Said("lag")]]
  BY DEF RedoTooltip
<1>3. r \in {t.who : t \in told}
  BY <1>2
<1>4. RedoTooltip(lines, k)[r] = [queue |-> ShownIn("queue"), lag |-> ShownIn("lag")]
  BY <1>2, <1>3
<1> HIDE DEF told
<1>5. ASSUME NEW metric \in {"queue", "lag"}, NEW v \in RedoTooltip(lines, k)[r][metric]
      PROVE  \E l \in lines : l.who = r /\ l.of = metric /\ l.values[k] = v
  <2>1. v \in ShownIn(metric)
    BY <1>4, <1>5
  <2>2. v \in With(metric, "now") \cup With(metric, "past")
    BY <2>1
  <2>3. PICK t \in told : t.who = r /\ t.of = metric /\ t.value = v
    BY <2>2
  <2> QED
    BY <1>1, <2>3
<1> QED
  BY <1>1, <1>3, <1>5

LEMMA TooltipsTell == TooltipsTellLines
<1> SUFFICES ASSUME store.topic = "ag_redo_secondary", NEW k \in DOMAIN Chart.now
             PROVE  LET rows == RedoTooltip({l \in Lines : l.of # "rate"}, k)
                    IN  /\ DOMAIN rows \subseteq VisibleReplicas
                        /\ \A r \in DOMAIN rows : \A metric \in {"queue", "lag"} :
                             \A v \in rows[r][metric] :
                               \E l \in Lines : l.who = r /\ l.of = metric /\ l.values[k] = v
  BY DEF TooltipsTellLines
<1> DEFINE lines == {l \in Lines : l.of # "rate"}
           rows  == RedoTooltip(lines, k)
<1>1. \A l \in Lines : l.who \in VisibleReplicas
  <2> SUFFICES ASSUME NEW l \in Lines PROVE l.who \in VisibleReplicas
    OBVIOUS
  <2>1. PICK metric \in GroupMetrics(store.topic), r \in VisibleReplicas, w \in Whens :
          l = ReplicaLine(Chart, metric, r, w)
    BY GroupLines DEF ReplicaTopics
  <2> QED
    BY <2>1 DEF ReplicaLine
<1>2. ASSUME NEW r \in DOMAIN rows
      PROVE  /\ r \in VisibleReplicas
             /\ \A metric \in {"queue", "lag"} : \A v \in rows[r][metric] :
                  \E l \in Lines : l.who = r /\ l.of = metric /\ l.values[k] = v
  <2> HIDE DEF lines
  <2>1. /\ \E l \in lines : l.who = r
        /\ \A metric \in {"queue", "lag"} : \A v \in rows[r][metric] :
             \E l \in lines : l.who = r /\ l.of = metric /\ l.values[k] = v
    BY RedoRows
  <2> QED
    BY <1>1, <2>1 DEF lines
<1> QED
  BY <1>2

-----------------------------------------------------------------------------
(* The answers of a preview.                                               *)

IsList(s) == s \in Seq(ToSet(s))

IsAnswer(a) ==
  /\ a = [items |-> a.items, got |-> a.got, asked |-> a.asked]
  /\ IsList(a.items) /\ IsList(a.got)

\* The answers are lists, the preview is that of a topic that has one, under
\* a range with numbers for ends, and the legend hides what it can show.
PreviewInv ==
  /\ preview = [hidden |-> preview.hidden, now |-> preview.now, past |-> preview.past]
  /\ IsAnswer(preview.now) /\ IsAnswer(preview.past)
  /\ route = "preview" =>
       /\ store.topic \in CompareTopics
       /\ IsRange(store.range) /\ store.anchor \in Int
       /\ preview.hidden \subseteq LegendReplicas(store, preview)

LEMMA AskedIsNumbers ==
  ASSUME IsRange(store.range), store.anchor \in Int
  PROVE  LET shown == ResolvedNow(store)
             past  == AskedRange(store, "past")
             by    == shown.from - past.from
         IN  /\ shown.from \in Int /\ shown.to \in Int /\ by \in Int
             /\ past.from \in Int /\ past.to \in Int
             /\ past.from <= past.to => past.from = shown.from - by /\ past.to = shown.to - by
<1> DEFINE shown == ResolvedNow(store)
           past  == AskedRange(store, "past")
           by    == ShiftBack(store.range, shown)
<1>1. shown.from \in Int /\ shown.to \in Int
  BY ResolvedIsNumbers DEF ResolvedNow
<1>2. by \in Int /\ (by > 0 \/ by = shown.to - shown.from)
  BY <1>1 DEF ShiftBack
<1>3. past = IF by > 0 THEN [from |-> shown.from - by, to |-> shown.to - by]
             ELSE [from |-> shown.from, to |-> shown.to - 1]
  BY DEF AskedRange, CompareRange
<1> HIDE DEF shown, past, by
<1>4. CASE by > 0
  BY <1>1, <1>2, <1>3, <1>4 DEF shown, past
<1>5. CASE ~(by > 0)
  <2>1. past.from = shown.from /\ past.to = shown.to - 1
    BY <1>3, <1>5
  <2>2. past.to < past.from
    BY <1>1, <1>2, <1>5, <2>1
  <2> QED
    BY <1>1, <2>1, <2>2 DEF shown, past
<1> QED
  BY <1>4, <1>5

\* An answered query has brought findings of the range it asked for.
LEMMA AnswersAreInRange ==
  ASSUME PreviewInv, route = "preview", NEW which \in {"now", "past"}, Answered(which)
  PROVE  /\ InRange(preview[which].items, DOMAIN preview[which].items, AskedRange(store, which))
         /\ OfFindings(preview[which].items, DOMAIN preview[which].items)
         /\ IsInjective(preview[which].items)
<1> DEFINE items == preview[which].items
           range == AskedRange(store, which)
<1>1. range.from \in Int /\ range.to \in Int
  <2>1. IsRange(store.range) /\ store.anchor \in Int
    BY DEF PreviewInv
  <2>2. /\ ResolvedNow(store).from \in Int /\ ResolvedNow(store).to \in Int
        /\ AskedRange(store, "past").from \in Int /\ AskedRange(store, "past").to \in Int
    BY <2>1, AskedIsNumbers
  <2> QED
    BY <2>2 DEF AskedRange
<1>2. IsFiniteSet(DOMAIN items) /\ DOMAIN items \subseteq Int
  <2>1. items \in Seq(ToSet(items))
    BY DEF PreviewInv, IsAnswer, IsList
  <2>2. DOMAIN items = 1 .. Len(items) /\ Len(items) \in Nat
    BY <2>1, LenProperties
  <2> QED
    BY <2>2, FS_Interval
<1>3. ASSUME NEW i \in DOMAIN items PROVE items[i] \in Matches(FindingsQuery(store), range)
  <2>1. items[i] \in ToSet(items)
    BY DEF ToSet
  <2> QED
    BY <2>1 DEF Answered
<1>4. \A f \in Matches(FindingsQuery(store), range) :
        f \in AllFindings /\ f.at \in Int /\ range.from <= f.at /\ f.at <= range.to
  <2>1. Matches(FindingsQuery(store), range) \subseteq AllFindings
    BY DEF Matches, Detected
  <2>2. \A f \in Matches(FindingsQuery(store), range) :
          f.at \in Nat /\ range.from <= f.at /\ f.at <= range.to
    BY FoundFacts
  <2> QED
    BY <2>1, <2>2
<1>5. IsInjective(items)
  BY DEF Answered
<1> HIDE DEF items, range
<1>6. /\ InRange(items, DOMAIN items, range)
      /\ OfFindings(items, DOMAIN items)
  BY <1>1, <1>2, <1>3, <1>4 DEF InRange, Stamped, OfFindings
<1> QED
  BY <1>5, <1>6 DEF items, range

LEMMA DrawableInRange ==
  ASSUME PreviewInv, route = "preview", NEW which \in {"now", "past"}, Answered(which)
  PROVE  LET items == preview[which].items
             found == Drawable(store, preview[which])
         IN  /\ found \in SUBSET DOMAIN items
             /\ InRange(items, found, AskedRange(store, which))
             /\ OfFindings(items, found)
<1> DEFINE items == preview[which].items
           found == Drawable(store, preview[which])
<1>1. found \in SUBSET DOMAIN items
  BY DEF Drawable, FilterByReplica
<1>2. /\ InRange(items, DOMAIN items, AskedRange(store, which))
      /\ OfFindings(items, DOMAIN items)
  BY AnswersAreInRange
<1> HIDE DEF items, found
<1>3. InRange(items, found, AskedRange(store, which)) /\ OfFindings(items, found)
  BY <1>1, <1>2, StampedPart DEF InRange, OfFindings
<1> QED
  BY <1>1, <1>3 DEF items, found

-----------------------------------------------------------------------------
(* What is drawn of an answer.                                             *)

LEMMA ReadingsDrawn ==
  ASSUME PreviewInv, route = "preview", store.topic \in ReplicaTopics, Answered("now")
  PROVE  ReadingsAreDrawn
<1> DEFINE topic == store.topic
           items == preview.now.items
           all   == Drawable(store, preview.now)
           range == ResolvedNow(store)
           found == {i \in all : Reads(topic, items[i])}
           now   == NowSeries(store, preview)
<1>1. all \in SUBSET DOMAIN items /\ InRange(items, all, range) /\ IsInjective(items)
  BY DrawableInRange, AnswersAreInRange DEF AskedRange
<1>2. now = Series(topic, items, all, range) /\ Chart.now = now
  BY ChartIs
<1>3. found = ReadingsOf(topic, items, all)
  BY DEF ReadingsOf
<1>4. SumOf([k \in DOMAIN now |-> now[k].samples]) = Cardinality({items[i] : i \in found})
  <2> HIDE DEF topic, items, all, range, found, now
  <2>1. SumOf([k \in DOMAIN now |-> now[k].samples]) = Cardinality(found)
    BY <1>1, <1>2, <1>3, SamplesAddUp DEF topic
  <2>2. found \in SUBSET DOMAIN items /\ IsFiniteSet(found)
    BY <1>1, <1>3, FS_Subset DEF ReadingsOf, InRange, Stamped
  <2> QED
    BY <1>1, <2>1, <2>2, CountedOnce
<1>5. ASSUME NEW line \in Lines, line.when = "now"
      PROVE  LET newest == items[NewestPlace(items, {i \in found : ReplicaOf(items[i]) = line.who})]
                 last   == BucketOf(newest.at, range, BucketMinutes(topic))
             IN  /\ \A k \in DOMAIN line.values : line.values[k] # Null =>
                      \E r \in DOMAIN now[k].replicas :
                        KeyOf[r] = KeyOf[line.who] /\ line.values[k] = now[k].replicas[r][line.of]
                 /\ Alone(now, line.who) =>
                      /\ line.values[last] = Reading(newest, line.of)
                      /\ \A k \in DOMAIN line.values : k > last => line.values[k] = Null
  <2>1. PICK metric \in GroupMetrics(topic), r \in VisibleReplicas, w \in Whens :
          line = ReplicaLine(Chart, metric, r, w)
    BY GroupLines
  <2>2. /\ line = ReplicaLine(Chart, metric, r, "now") /\ line.who = r /\ line.of = metric
        /\ DOMAIN line.values = DOMAIN Chart.now
    BY <1>5, <2>1, LineIs
  <2>3. r \in ReplicaNames(Chart.now)
    BY <1>2, <2>1 DEF VisibleReplicas, Legend, LegendReplicas
  <2>4. {i \in found : ReplicaOf(items[i]) = r} = ReplicaReadings(topic, items, all, r)
    BY DEF ReplicaReadings, ReadingsOf
  <2> HIDE DEF topic, items, all, range, found, now
  <2> DEFINE newest == items[NewestPlace(items, ReplicaReadings(topic, items, all, r))]
             last   == BucketOf(newest.at, range, BucketMinutes(topic))
  <2>5. ASSUME Alone(now, r)
        PROVE  /\ line.values[last] = Reading(newest, metric)
               /\ \A k \in DOMAIN line.values : k > last => line.values[k] = Null
    <3>1. Alone(Chart.now, r) /\ Chart.now = Series(topic, items, all, range)
      BY <1>2, <2>5
    <3>2. topic \in ReplicaTopics
      BY DEF topic
    <3> HIDE DEF last, newest
    <3> QED
      BY <1>1, <2>1, <2>2, <2>3, <3>1, <3>2, ReplicaLineEnds DEF last, newest
  <2>6. ASSUME NEW k \in DOMAIN line.values, line.values[k] # Null
        PROVE  \E q \in DOMAIN now[k].replicas :
                 KeyOf[q] = KeyOf[r] /\ line.values[k] = now[k].replicas[q][metric]
    <3>1. DOMAIN Chart.now = Buckets(range, BucketMinutes(topic)) /\ topic \in ReplicaTopics
      BY <1>2, SeriesHasBuckets DEF topic, CompareTopics
    <3>2. k \in DOMAIN Chart.now /\ Stamped(items, all)
      BY <1>1, <1>2, <2>2, <2>6 DEF InRange
    <3>3. IsDrawn(Chart.now[k])
      BY <1>2, <3>1, <3>2, GroupDrawn
    <3>4. \E q \in DOMAIN Chart.now[k].replicas :
            KeyOf[q] = KeyOf[r] /\ line.values[k] = Chart.now[k].replicas[q][metric]
      BY <2>2, <2>6, <3>2, <3>3, ReplicaLineValues
    <3> QED
      BY <1>2, <3>4
  <2> HIDE DEF last, newest
  <2> QED
    BY <2>2, <2>4, <2>5, <2>6 DEF last, newest
<1> QED
  BY <1>4, <1>5 DEF ReadingsAreDrawn

LEMMA CardsEnd ==
  ASSUME PreviewInv, route = "preview", Answered("now")
  PROVE  CardsEndLines
<1> DEFINE topic == store.topic
           items == preview.now.items
           all   == Drawable(store, preview.now)
           range == ResolvedNow(store)
           now   == NowSeries(store, preview)
<1>1. /\ InRange(items, all, range) /\ OfFindings(items, all) /\ Stamped(items, all)
      /\ range.from \in Int /\ range.to \in Int
  BY DrawableInRange DEF AskedRange, InRange
<1>2. now = Series(topic, items, all, range) /\ Chart.now = now
  BY ChartIs
<1>3. topic \in CompareTopics
  BY DEF PreviewInv
<1> SUFFICES ASSUME NEW line \in Lines, line.when = "now"
             PROVE  CASE topic = "ple_trend" ->
                           PleCards(now)[line.of].value \in {Null, EndOf(line.values)}
                      [] topic = "tempdb_memory" ->
                           line.who = Null /\ EndOf(line.values) # Null =>
                             TempdbCards[line.of].value = EndOf(line.values)
                      [] OTHER ->
                           LET k    == Max(Reported(now))
                               card == GroupCard(topic, now, PastSeries(store, preview), line.of)
                           IN  line.values[k] # Null =>
                                 IF line.of = "rate" THEN card <= line.values[k] ELSE card >= line.values[k]
  BY DEF CardsEndLines
<1>4. CASE topic = "ple_trend"
  <2>1. HasCharts /\ \E metric \in {"ple", "baseline", "deviation"}, w \in Whens :
                        line = PointLine(Chart, metric, w)
    BY <1>4, PleLines
  <2>2. PICK metric \in {"ple", "baseline", "deviation"} : line = PointLine(Chart, metric, "now")
    BY <2>1 DEF PointLine
  <2>3. PleReported(Chart.now) # {}
    BY <1>2, <1>4, <2>1 DEF HasCharts, ReplicaTopics
  <2> HIDE DEF items, all, range, now
  <2>4. PleCards(now)[metric].value \in {Null, EndOf(PointLine(Chart, metric, "now").values)}
    BY <1>1, <1>2, <1>4, <2>3, PleCardsEndLines
  <2>5. line.of = metric
    BY <2>2 DEF PointLine
  <2> QED
    BY <1>4, <2>2, <2>4, <2>5
<1>5. CASE topic = "tempdb_memory"
  <2> SUFFICES ASSUME line.who = Null, EndOf(line.values) # Null
               PROVE  TempdbCards[line.of].value = EndOf(line.values)
    BY <1>5
  <2>1. all = DOMAIN items
    BY <1>5 DEF Drawable, ReplicaTopics
  <2>2. PICK metric \in {"ple", "used", "store"} : line = PointLine(Chart, metric, "now")
    <3>1. CASE \E metric \in {"ple", "used", "store"}, w \in Whens : line = PointLine(Chart, metric, w)
      BY <3>1 DEF PointLine
    <3>2. CASE \E n \in NumaNodes(now) : line = NodeLine(Chart, n)
      <4>1. PICK n \in NumaNodes(now) : line = NodeLine(Chart, n)
        BY <3>2
      <4>2. line.who = n
        BY <4>1 DEF NodeLine
      <4>3. PICK k \in DOMAIN now : n \in DOMAIN now[k].nodes
        BY DEF NumaNodes
      <4> DEFINE cell == PlacesIn(items, all, range, BucketMinutes(topic))[k]
      <4>4. now[k] = TempdbPoint(items, cell)
        BY <1>2, <1>5, <4>3 DEF Series, PlacesIn
      <4>5. n # Null
        <5> HIDE DEF cell
        <5> QED
          BY <4>3, <4>4 DEF TempdbPoint
      <4> QED
        BY <4>2, <4>5
    <3> QED
      BY <1>5, <3>1, <3>2, TempdbLines
  <2>3. line.of = metric
    BY <2>2 DEF PointLine
  <2> HIDE DEF range, now
  <2>4. TempdbCards[metric].value = EndOf(PointLine(Chart, metric, "now").values)
    BY <1>1, <1>2, <1>5, <2>1, <2>2, TempdbCardsEndLines
  <2> QED
    BY <2>2, <2>3, <2>4
<1>6. CASE topic \in ReplicaTopics
  <2>1. HasCharts /\ \E metric \in GroupMetrics(topic), r \in VisibleReplicas, w \in Whens :
                        line = ReplicaLine(Chart, metric, r, w)
    BY <1>6, GroupLines
  <2>2. PICK metric \in GroupMetrics(topic), r \in VisibleReplicas : line = ReplicaLine(Chart, metric, r, "now")
    BY <2>1, LineIs
  <2>3. Reported(Chart.now) # {}
    BY <1>2, <1>6, <2>1 DEF HasCharts, ReplicaTopics
  <2>4. line.of = metric
    BY <2>2 DEF ReplicaLine
  <2> DEFINE k    == Max(Reported(now))
             past == PastSeries(store, preview)
             card == GroupCard(topic, now, past, metric)
  <2> HIDE DEF items, all, range, now, past
  <2>5. line.values[k] # Null =>
          IF metric = "rate" THEN card <= line.values[k] ELSE card >= line.values[k]
    BY <1>1, <1>2, <1>6, <2>2, <2>3, GroupCardsEndLines
  <2>6. topic # "ple_trend" /\ topic # "tempdb_memory"
    BY <1>6 DEF ReplicaTopics
  <2> QED
    BY <2>4, <2>5, <2>6 DEF past
<1> QED
  BY <1>3, <1>4, <1>5, <1>6 DEF CompareTopics

\* A replica that has a line has a name.
LEMMA VisibleIsNamed ==
  ASSUME PreviewInv, route = "preview", Answered("now"), NEW r \in VisibleReplicas
  PROVE  r # Null
<1> DEFINE topic == store.topic
           items == preview.now.items
           all   == Drawable(store, preview.now)
           range == ResolvedNow(store)
           now   == NowSeries(store, preview)
<1>1. topic \in ReplicaTopics /\ r \in ReplicaNames(now)
  BY DEF VisibleReplicas, Legend, LegendReplicas
<1>2. now = Series(topic, items, all, range) /\ OfFindings(items, all)
  BY ChartIs, DrawableInRange
<1>3. PICK k \in DOMAIN now : r \in DOMAIN now[k].replicas
  BY <1>1 DEF ReplicaNames
<1>4. k \in Buckets(range, BucketMinutes(topic))
  BY <1>1, <1>2, <1>3, SeriesHasBuckets DEF CompareTopics
<1> HIDE DEF topic, items, all, range, now
<1> DEFINE cell == InBucket(items, all, range, BucketMinutes(topic), k)
<1>5. DOMAIN now[k].replicas = {ReplicaOf(items[i]) : i \in ReadingsOf(topic, items, cell)}
  BY <1>1, <1>2, <1>4, GroupPoints
<1>6. PICK i \in all : r = ReplicaOf(items[i])
  BY <1>3, <1>5 DEF ReadingsOf, InBucket
<1> QED
  BY <1>2, <1>6, ReadingsAssumption DEF OfFindings

LEMMA PastBelow ==
  ASSUME PreviewInv, route = "preview", Answered("now"), Answered("past")
  PROVE  PastIsBelow
<1> DEFINE topic == store.topic
           width == BucketMinutes(topic)
           shown == ResolvedNow(store)
           range == AskedRange(store, "past")
           by    == shown.from - range.from
           past  == PastSeries(store, preview)
           items == preview.past.items
           all   == Drawable(store, preview.past)
<1>0. /\ shown.from \in Int /\ shown.to \in Int /\ by \in Int
      /\ range.from \in Int /\ range.to \in Int
      /\ range.from <= range.to => range.from = shown.from - by /\ range.to = shown.to - by
  BY AskedIsNumbers DEF PreviewInv
<1>2. topic \in CompareTopics /\ width \in Widths
  BY WidthIsOne DEF PreviewInv
<1>3. InRange(items, all, range) /\ OfFindings(items, all)
  BY DrawableInRange
<1>4. DOMAIN Chart.now = Buckets(shown, width)
  <2>1. Chart.now = Series(topic, preview.now.items, Drawable(store, preview.now), shown)
    BY ChartIs
  <2> QED
    BY <1>2, <2>1, SeriesHasBuckets
<1> SUFFICES ASSUME NEW line \in Lines, line.when = "past", NEW i \in all
             PROVE  LET f    == items[i]
                        k    == BucketOf(f.at, range, width)
                        here == DisplayedAt(k, shown.from, width)
                        same == FloorToBucket(f.at + by, width)
                    IN  /\ k \in DOMAIN line.values
                        /\ here - same \in {-width, 0, width}
                        /\ by % width = 0 => here = same
                        /\ line.who = Null => line.values[k] = past[k][line.of]
                        /\ line.who # Null /\ line.who \in DOMAIN past[k].replicas /\ Alone(past, line.who) =>
                             line.values[k] = past[k].replicas[line.who][line.of]
  BY DEF PastIsBelow
<1> DEFINE f    == items[i]
           k    == BucketOf(f.at, range, width)
           here == DisplayedAt(k, shown.from, width)
           same == FloorToBucket(f.at + by, width)
<1>5. f.at \in Int /\ range.from <= f.at /\ f.at <= range.to
  BY <1>3 DEF InRange, Stamped
<1>1. /\ shown.from \in Int /\ shown.to \in Int /\ by \in Int
      /\ range.from = shown.from - by /\ range.to = shown.to - by
      /\ range.from \in Int /\ range.to \in Int
  <2> HIDE DEF shown, range, by, f
  <2> QED
    BY <1>0, <1>5
<1>6. /\ k \in Buckets(shown, width)
      /\ here - same \in {-width, 0, width}
      /\ by % width = 0 => here = same
  <2> HIDE DEF shown, range, by, width, f
  <2> QED
    BY <1>1, <1>2, <1>5, BucketsBelow
<1>7. \/ \E metric \in {"ple", "baseline", "deviation", "used", "store"}, w \in Whens :
           line = PointLine(Chart, metric, w)
      \/ \E metric \in GroupMetrics(topic), r \in VisibleReplicas, w \in Whens :
           line = ReplicaLine(Chart, metric, r, w)
  <2>1. CASE topic \in ReplicaTopics
    BY <2>1, GroupLines
  <2>2. CASE topic = "ple_trend"
    BY <2>2, PleLines
  <2>3. CASE topic = "tempdb_memory"
    <3>1. ASSUME NEW n, line = NodeLine(Chart, n) PROVE FALSE
      BY <3>1 DEF NodeLine
    <3> QED
      BY <2>3, <3>1, TempdbLines
  <2> QED
    BY <1>2, <2>1, <2>2, <2>3 DEF CompareTopics
<1>8. store.compare
  <2>1. "past" \in Whens
    BY <1>7, LineIs DEF PointLine
  <2> QED
    BY <2>1 DEF Whens
<1>9. /\ past = Series(topic, items, all, range)
      /\ DOMAIN past = Buckets(range, width)
  <2>1. past = Series(topic, items, all, range)
    BY <1>8 DEF PastSeries, SeriesOf
  <2> QED
    BY <1>2, <2>1, SeriesHasBuckets
<1>10. k \in Buckets(range, width)
  <2> HIDE DEF range, width, f
  <2> QED
    BY <1>1, <1>2, <1>5, BucketsOfRange
<1>11. k \in DOMAIN Chart.now /\ k \in DOMAIN Chart.past /\ Chart.past[k] = past[k]
  <2>1. k \in (DOMAIN Chart.now) \cap DOMAIN past
    BY <1>4, <1>6, <1>9, <1>10
  <2> HIDE DEF k, past
  <2> QED
    BY <2>1, ChartIs DEF past
<1>12. /\ k \in DOMAIN line.values
       /\ line.who = Null => line.values[k] = past[k][line.of]
       /\ line.who # Null /\ line.who \in DOMAIN past[k].replicas /\ Alone(past, line.who) =>
            line.values[k] = past[k].replicas[line.who][line.of]
  <2> HIDE DEF k, past
  <2>1. CASE \E metric \in {"ple", "baseline", "deviation", "used", "store"}, w \in Whens :
               line = PointLine(Chart, metric, w)
    <3>0. PICK metric, w : line = PointLine(Chart, metric, w)
      BY <2>1
    <3>1. line = PointLine(Chart, metric, "past")
      BY <3>0 DEF PointLine
    <3>2. line.who = Null /\ line.of = metric /\ k \in DOMAIN line.values /\ line.values[k] = past[k][metric]
      BY <1>11, <3>1 DEF PointLine
    <3> QED
      BY <3>2
  <2>2. CASE \E metric \in GroupMetrics(topic), r \in VisibleReplicas, w \in Whens :
               line = ReplicaLine(Chart, metric, r, w)
    <3>1. PICK metric \in GroupMetrics(topic), r \in VisibleReplicas : line = ReplicaLine(Chart, metric, r, "past")
      BY <2>2, LineIs
    <3>2. line.who = r /\ line.of = metric /\ k \in DOMAIN line.values
      BY <1>11, <3>1, LineIs
    <3>3. r # Null
      BY VisibleIsNamed
    <3>4. ASSUME r \in DOMAIN past[k].replicas, Alone(past, r)
          PROVE  line.values[k] = past[k].replicas[r][metric]
      <4>1. topic \in ReplicaTopics /\ Stamped(items, all)
        BY <1>3, <3>1 DEF InRange, VisibleReplicas, Legend, LegendReplicas
      <4>2. Alone(Chart["past"], r)
        <5>1. ReplicaNames(Chart.past) \subseteq ReplicaNames(past)
          <6>1. Chart.past = [j \in (DOMAIN Chart.now) \cap DOMAIN past |-> past[j]]
            BY ChartIs DEF past
          <6> HIDE DEF past
          <6> QED
            BY <6>1 DEF ReplicaNames
        <5> HIDE DEF past
        <5> QED
          BY <3>4, <5>1 DEF Alone
      <4>3. /\ k \in DOMAIN Chart["past"] /\ k \in DOMAIN Chart.now
            /\ Chart["past"][k] = past[k]
        BY <1>11
      <4>4. IsDrawn(past[k])
        <5> HIDE DEF topic, items, all, range, k, past
        <5> QED
          BY <1>9, <1>10, <4>1, GroupDrawn DEF width
      <4> HIDE DEF topic, items, all, range, k, past
      <4> QED
        BY <3>1, <3>4, <4>2, <4>3, <4>4, AloneLineValues
    <3> QED
      BY <3>2, <3>3, <3>4
  <2> QED
    BY <1>7, <2>1, <2>2
<1> QED
  BY <1>6, <1>12

-----------------------------------------------------------------------------
(* The preview keeps its answers lists and its legend true.                *)

LEMMA SeqOfItsOwn ==
  ASSUME NEW S, NEW s \in Seq(S)
  PROVE  s \in Seq(ToSet(s))
<1>1. Len(s) \in Nat /\ s \in [1 .. Len(s) -> S] /\ DOMAIN s = 1 .. Len(s)
  BY LenProperties
<1>2. s \in [1 .. Len(s) -> ToSet(s)]
  BY <1>1 DEF ToSet
<1> QED
  BY <1>1, <1>2, SeqDef

LEMMA InitPreview == Init => PreviewInv
<1> SUFFICES ASSUME Init PROVE PreviewInv
  OBVIOUS
<1>1. preview = NoPreview
  BY DEF Init
<1>2. IsList(<<>>)
  BY EmptySeq DEF IsList
<1>3. IsAnswer(NoAnswer)
  BY <1>2 DEF IsAnswer, NoAnswer
<1>4. ASSUME route = "preview"
      PROVE  store.topic \in CompareTopics /\ IsRange(store.range) /\ store.anchor \in Int
  <2>1. PICK t \in CompareTopics : store = [KeptStore(PreviewCluster) EXCEPT !.topic = t]
    BY <1>4 DEF Init
  <2>2. store.topic = t /\ store.range = Preset("last_1_hour") /\ store.anchor = StartMinute
    BY <2>1 DEF KeptStore, EmptyStore
  <2> QED
    BY <2>2, InstantsAssumption DEF IsRange, Preset
<1> QED
  BY <1>1, <1>3, <1>4 DEF PreviewInv, NoPreview

\* The legend is that of what is drawn.
LEMMA LegendIsDrawn ==
  ASSUME NEW s, NEW p, NEW q, q.now.items = p.now.items
  PROVE  LegendReplicas(s, q) = LegendReplicas(s, p)
  BY DEF LegendReplicas, NowSeries, SeriesOf, Drawable

\* The parts of a preview.
IsPreview(p) ==
  /\ p = [hidden |-> p.hidden, now |-> p.now, past |-> p.past]
  /\ IsAnswer(p.now) /\ IsAnswer(p.past)

LEMMA UnderKeyKeeps ==
  ASSUME NEW a, IsAnswer(a), NEW which
  PROVE  IsAnswer(UnderKey(store', which, a))
<1>1. IsList(<<>>)
  BY EmptySeq DEF IsList
<1>2. [a EXCEPT !.got = <<>>, !.asked = TRUE] = [items |-> a.items, got |-> <<>>, asked |-> TRUE]
  <2>1. PICK items, got, asked : a = [items |-> items, got |-> got, asked |-> asked]
    BY DEF IsAnswer
  <2>2. a.items = items
    BY <2>1
  <2> DEFINE b == [a EXCEPT !.got = <<>>]
  <2>3. b = [items |-> items, got |-> <<>>, asked |-> asked]
    BY <2>1
  <2> HIDE DEF b
  <2>4. \A v : [b EXCEPT !.asked = v] = [items |-> items, got |-> <<>>, asked |-> v]
    BY <2>3
  <2> QED
    BY <2>2, <2>4 DEF b
<1>3. IsAnswer([a EXCEPT !.got = <<>>, !.asked = TRUE])
  BY <1>1, <1>2 DEF IsAnswer
<1> QED
  BY <1>3 DEF UnderKey

LEMMA RerenderedKeeps ==
  ASSUME NEW p, IsPreview(p)
  PROVE  IsPreview(Rerendered(p)) /\ Rerendered(p).hidden \subseteq LegendReplicas(store', Rerendered(p))
<1> DEFINE now   == UnderKey(store', "now", p.now)
           past  == UnderKey(store', "past", p.past)
           under == [hidden |-> p.hidden, now |-> now, past |-> past]
           hidden == p.hidden \cap LegendReplicas(store', under)
<1>1. [p EXCEPT !.now = UnderKey(store', "now", @), !.past = UnderKey(store', "past", @)] = under
  <2>1. PICK h, n, q : p = [hidden |-> h, now |-> n, past |-> q]
    BY DEF IsPreview
  <2>2. now = UnderKey(store', "now", n) /\ past = UnderKey(store', "past", q) /\ p.hidden = h
    BY <2>1
  <2> HIDE DEF now, past
  <2>3. [p EXCEPT !.now = now] = [hidden |-> h, now |-> now, past |-> q]
    BY <2>1
  <2> DEFINE b == [p EXCEPT !.now = now]
  <2>4. b = [hidden |-> h, now |-> now, past |-> q]
    BY <2>3
  <2> HIDE DEF b
  <2>6. [b EXCEPT !.past = past] = [hidden |-> h, now |-> now, past |-> past]
    BY <2>4
  <2>5. [p EXCEPT !.now = UnderKey(store', "now", @), !.past = UnderKey(store', "past", @)]
          = [[p EXCEPT !.now = now] EXCEPT !.past = past]
    <3>1. p.now = n /\ [p EXCEPT !.now = now].past = p.past
      BY <2>1, <2>3
    <3> QED
      BY <3>1 DEF now, past
  <2> QED
    BY <2>2, <2>5, <2>6 DEF b
<1>2. Rerendered(p) = [hidden |-> hidden, now |-> now, past |-> past]
  <2>1. Rerendered(p) = [under EXCEPT !.hidden = @ \cap LegendReplicas(store', under)]
    BY <1>1 DEF Rerendered
  <2> HIDE DEF now, past
  <2> QED
    BY <2>1
<1>3. IsAnswer(now) /\ IsAnswer(past)
  BY UnderKeyKeeps DEF IsPreview
<1> HIDE DEF now, past
<1>4. IsPreview(Rerendered(p))
  BY <1>2, <1>3 DEF IsPreview
<1>5. LegendReplicas(store', Rerendered(p)) = LegendReplicas(store', under)
  BY <1>2, LegendIsDrawn
<1> QED
  BY <1>2, <1>4, <1>5

\* A page of an answer is a list.
LEMMA PagesAreLists ==
  ASSUME NEW query, NEW range, NEW page \in Int
  PROVE  IsList(ListFindings(query, range, page).items)
<1> DEFINE found == Matches(query, range)
           list  == [i \in 1 .. Cardinality(found) |->
                       CHOOSE f \in found :
                         Cardinality({g \in found : g.at > f.at \/ (g.at = f.at /\ g.id < f.id)}) = i - 1]
           from  == page * PageLimit + 1
           last  == (page + 1) * PageLimit
           to    == IF last < Len(list) THEN last ELSE Len(list)
           items == SubSeq(list, from, to)
<1>1. ListFindings(query, range, page).items = items
  BY DEF ListFindings, PageOf
<1>2. Cardinality(found) \in Nat
  BY FoundFacts, FS_CardinalityType
<1>3. Len(list) \in Nat
  <2> HIDE DEF found
  <2> QED
    BY <1>2
<1>4. from \in Int /\ to \in Int
  <2>1. page * PageLimit \in Int /\ (page + 1) * PageLimit \in Int
    BY PageAssumption
  <2> HIDE DEF list
  <2> QED
    BY <1>3, <2>1
<1> DEFINE S == {list[i] : i \in from .. to}
<1> HIDE DEF list, from, to
<1>5. items \in Seq(S) /\ \A i \in from .. to : list[i] \in S
  BY <1>4, SubSeqProperties
<1>6. items \in Seq(ToSet(items))
  BY <1>5, SeqOfItsOwn
<1> HIDE DEF items
<1> QED
  BY <1>1, <1>6 DEF IsList

LEMMA JoinedLists ==
  ASSUME NEW s, IsList(s), NEW t, IsList(t)
  PROVE  IsList(s \o t)
<1> DEFINE S == ToSet(s) \cup ToSet(t)
<1>1. s \in Seq(S) /\ t \in Seq(S)
  BY SeqMonotonic DEF IsList
<1>2. s \o t \in Seq(S)
  BY <1>1, ConcatProperties
<1> QED
  BY <1>2, SeqOfItsOwn DEF IsList

\* The context under a preview: the topic stays, the range has numbers.
LEMMA PreviewKeepsRange ==
  ASSUME IsStore(store), PreviewStep
  PROVE  store'.topic = store.topic /\ RangeKept(store, store')
<1> USE DEF DashboardClick, StoreBecomes
<1>1. CASE store' = store
  BY <1>1 DEF RangeKept
<1>2. CASE ChoosePreviewRange
  <2>1. PICK r \in PreviewRanges : store' = SetTimeRange(store, r)
    BY <1>2 DEF ChoosePreviewRange
  <2>2. IsRange(r)
    BY <2>1, ReadingsAssumption DEF IsRange, Preset
  <2>3. store'.topic = store.topic
    BY <2>1 DEF SetTimeRange, IsStore
  <2> QED
    BY <2>1, <2>2, <2>3, SettersKeepRange DEF RangeKept
<1>3. CASE FilterReplica
  <2>1. PICK f : store' = SetFilters(store, f)
    BY <1>3 DEF FilterReplica
  <2>2. store'.topic = store.topic
    BY <2>1 DEF SetFilters, IsStore
  <2> QED
    BY <2>1, <2>2, SettersKeepRange DEF RangeKept
<1>4. CASE CompareWithPast \/ ToggleLive
  <2>1. store' = [store EXCEPT !.compare = ~@] \/ store' = [store EXCEPT !.live = ~@]
    BY <1>4 DEF CompareWithPast, ToggleLive
  <2>2. store'.topic = store.topic /\ store'.range = store.range /\ store'.anchor = store.anchor
    BY <2>1 DEF IsStore
  <2> QED
    BY <2>2 DEF RangeKept
<1>5. CASE ManualRefresh \/ LiveRefresh
  <2>1. store' = RefreshNow(store, clock)
    BY <1>5 DEF ManualRefresh, LiveRefresh
  <2>2. store'.topic = store.topic
    BY <2>1 DEF RefreshNow, IsStore
  <2> QED
    BY <2>1, <2>2, SettersKeepRange DEF RangeKept
<1> QED
  BY <1>1, <1>2, <1>3, <1>4, <1>5 DEF PreviewStep, PreviewAnswers, TimePasses

\* A step of the preview.
LEMMA PreviewPageKeeps ==
  ASSUME IsPreview(preview), preview.hidden \subseteq LegendReplicas(store, preview), PreviewStep
  PROVE  IsPreview(preview') /\ preview'.hidden \subseteq LegendReplicas(store', preview')
<1> DEFINE Kept == IsPreview(preview') /\ preview'.hidden \subseteq LegendReplicas(store', preview')
<1>0. PICK h, n, q : preview = [hidden |-> h, now |-> n, past |-> q]
  BY DEF IsPreview
<1>1. IsAnswer(n) /\ IsAnswer(q) /\ h \subseteq LegendReplicas(store, preview)
  BY <1>0 DEF IsPreview
<1>2. ASSUME NEW which \in {"now", "past"}, NEW a, IsAnswer(a),
             preview' = Rerendered([preview EXCEPT ![which] = a])
      PROVE  Kept
  <2>1. IsPreview([preview EXCEPT ![which] = a])
    <3>1. [preview EXCEPT ![which] = a] \in {[hidden |-> h, now |-> a, past |-> q], [hidden |-> h, now |-> n, past |-> a]}
      BY <1>0, <1>2
    <3> QED
      BY <1>1, <1>2, <3>1 DEF IsPreview
  <2> QED
    BY <1>2, <2>1, RerenderedKeeps
<1>3. ASSUME NEW which \in {"now", "past"}, NEW a, IsAnswer(a), a.items = preview[which].items,
             preview' = [preview EXCEPT ![which] = a], store' = store
      PROVE  Kept
  <2>1. preview' \in {[hidden |-> h, now |-> a, past |-> q], [hidden |-> h, now |-> n, past |-> a]}
    BY <1>0, <1>3
  <2>2. preview'.now.items = preview.now.items /\ preview'.hidden = preview.hidden
    BY <1>0, <1>3
  <2>3. LegendReplicas(store, preview') = LegendReplicas(store, preview)
    BY <2>2, LegendIsDrawn
  <2> QED
    BY <1>0, <1>1, <1>3, <2>1, <2>2, <2>3 DEF IsPreview
<1>4. ASSUME NEW which \in {"now", "past"}
      PROVE  /\ IsAnswer(preview[which])
             /\ \E items, got, asked : preview[which] = [items |-> items, got |-> got, asked |-> asked]
  <2>1. IsAnswer(preview[which])
    BY <1>0, <1>1
  <2> QED
    BY <2>1 DEF IsAnswer
<1>5. IsList(<<>>)
  BY EmptySeq DEF IsList
<1>6. ASSUME NEW which \in {"now", "past"}, FetchPreviewPage(which) PROVE Kept
  <2> DEFINE answer == preview[which]
             page   == Len(answer.got) \div PageLimit
             reply  == ListFindings(FindingsQuery(store), AskedRange(store, which), page)
             all    == answer.got \o reply.items
             whole  == [items |-> all, got |-> <<>>, asked |-> FALSE]
             more   == [answer EXCEPT !.got = all]
  <2>1. page \in Int
    <3>1. Len(answer.got) \in Nat
      BY <1>4, LenProperties DEF IsAnswer, IsList
    <3> QED
      BY <3>1, PageAssumption
  <2>2. IsList(all)
    <3>1. IsList(answer.got) /\ IsList(reply.items)
      BY <1>4, <2>1, PagesAreLists DEF IsAnswer
    <3> HIDE DEF answer, reply
    <3> QED
      BY <3>1, JoinedLists
  <2>3. \/ preview' = Rerendered([preview EXCEPT ![which] = whole])
        \/ preview' = Rerendered([preview EXCEPT ![which] = more])
    BY <1>6 DEF FetchPreviewPage
  <2> HIDE DEF all
  <2>4. IsAnswer(whole)
    BY <1>5, <2>2 DEF IsAnswer
  <2>5. IsAnswer(more)
    <3>1. PICK items, got, asked : answer = [items |-> items, got |-> got, asked |-> asked]
      BY <1>4
    <3>2. more = [items |-> items, got |-> all, asked |-> asked] /\ IsList(items)
      BY <1>4, <3>1 DEF IsAnswer
    <3> QED
      BY <2>2, <3>2 DEF IsAnswer
  <2> HIDE DEF whole, more
  <2> QED
    BY <1>2, <2>3, <2>4, <2>5
<1>7. ASSUME NEW which \in {"now", "past"}, FailPreviewPage(which) \/ AskPreviewAgain(which), store' = store
      PROVE  Kept
  <2>1. PICK items, got, asked : preview[which] = [items |-> items, got |-> got, asked |-> asked]
    BY <1>4
  <2>2. IsList(items) /\ IsList(got)
    BY <1>4, <2>1 DEF IsAnswer
  <2>3. PICK a \in {[items |-> items, got |-> <<>>, asked |-> asked], [items |-> items, got |-> got, asked |-> TRUE]} :
          preview' = [preview EXCEPT ![which] = a]
    BY <1>0, <1>7, <2>1 DEF FailPreviewPage, AskPreviewAgain
  <2>4. IsAnswer(a) /\ a.items = preview[which].items
    BY <1>5, <2>1, <2>2 DEF IsAnswer
  <2> QED
    BY <1>3, <1>7, <2>3, <2>4
<1>8. ASSUME ToggleReplica, store' = store PROVE Kept
  <2>1. PICK r \in LegendReplicas(store, preview) :
          \E g \in {h \ {r}, h \cup {r}} : preview' = [hidden |-> g, now |-> n, past |-> q]
    BY <1>0, <1>8 DEF ToggleReplica, Legend
  <2>2. PICK g \in {h \ {r}, h \cup {r}} : preview' = [hidden |-> g, now |-> n, past |-> q]
    BY <2>1
  <2>3. LegendReplicas(store, preview') = LegendReplicas(store, preview)
    BY <1>0, <2>2, LegendIsDrawn
  <2> QED
    BY <1>1, <1>8, <2>2, <2>3 DEF IsPreview
<1>9. ASSUME preview' = Rerendered(preview) PROVE Kept
  BY <1>9, RerenderedKeeps
<1> QED
  BY <1>6, <1>7, <1>8, <1>9 DEF PreviewStep, PreviewAnswers

LEMMA PreviewInvStep == ASSUME StoreInv, PreviewInv, [Next]_consoleVars PROVE PreviewInv'
<1>1. IsStore(store) /\ clock \in Int
  BY DEF StoreInv
<1>2. CASE UNCHANGED preview /\ route # "preview" /\ route' # "preview"
  BY <1>2 DEF PreviewInv, IsAnswer, IsList
<1>3. CASE UNCHANGED <<route, store, preview>>
  <2>1. LegendReplicas(store, preview)' = LegendReplicas(store', preview')
    OBVIOUS
  <2> QED
    BY <1>3, <2>1 DEF PreviewInv, IsAnswer, IsList
<1>4. CASE PreviewPage
  <2>1. route = "preview" /\ route' = "preview" /\ PreviewStep
    BY <1>4 DEF PreviewPage
  <2>2. IsPreview(preview) /\ preview.hidden \subseteq LegendReplicas(store, preview)
    BY <2>1 DEF PreviewInv, IsPreview
  <2>3. IsPreview(preview') /\ preview'.hidden \subseteq LegendReplicas(store', preview')
    BY <2>1, <2>2, PreviewPageKeeps
  <2>4. store'.topic = store.topic /\ RangeKept(store, store')
    BY <1>1, <2>1, PreviewKeepsRange
  <2>5. store'.topic \in CompareTopics /\ IsRange(store'.range) /\ store'.anchor \in Int
    BY <1>1, <2>1, <2>4 DEF PreviewInv, RangeKept
  <2> QED
    BY <2>3, <2>5 DEF PreviewInv, IsPreview, IsAnswer, IsList, IsRange
<1>5. CASE ChartsPage \/ OnCatalog(CatalogStep) \/ OnCatalog(\E c \in DOMAIN Contents : ContentChanges(c))
           \/ OnForm(FormStep) \/ OnForm(\E c \in DOMAIN Contents : ContentChanges(c) /\ UNCHANGED form)
           \/ OnCampaign(CampaignStep \/ CampaignElsewhere)
  BY <1>2, <1>5 DEF ChartsPage, OnCatalog, OnForm, OnCampaign, dashboardPart
<1>6. CASE OnDashboard(DashboardStep \/ TimePasses)
  BY <1>2, <1>6 DEF OnDashboard
<1>7. CASE SelectCluster \/ ClustersAnswer \/ ReloadPage \/ Navigate
  <2>1. UNCHANGED preview
    BY <1>7 DEF SelectCluster, ClustersAnswer, ClusterBecomes, ReloadPage, Navigate, dashboardPart
  <2>2. route # "preview"
    BY <1>7 DEF SelectCluster, ClustersAnswer, ReloadPage, Navigate, ClickAbove
  <2>3. route' # "preview"
    BY <1>7, <2>2 DEF SelectCluster, ClustersAnswer, ClusterBecomes, ReloadPage, Navigate
  <2> QED
    BY <1>2, <2>1, <2>2, <2>3
<1>8. CASE UNCHANGED consoleVars
  BY <1>3, <1>8 DEF consoleVars, dashboardPart
<1> QED
  BY <1>4, <1>5, <1>6, <1>7, <1>8 DEF Next

THEOREM PreviewInvariant == Spec => []PreviewInv
<1>1. StoreInv /\ PreviewInv /\ [Next]_consoleVars => PreviewInv'
  BY PreviewInvStep
<1> QED
  BY <1>1, InitPreview, StoreInvariant, PTL DEF Spec

\* PreviewsAgree: of answered queries a preview draws what was detected, the
\* line of a replica that shares its key with no other ends with its newest
\* reading, cards and tooltips tell what the lines do, the earlier range lies
\* under the shown one, and a hidden replica can be shown again
\* (aggregate...Series, mergeCompareSeries, getLatestSnapshot,
\* fetchAll...Findings).
THEOREM PreviewsAgreeAlways == Spec => []PreviewsAgree
<1>1. ASSUME PreviewInv PROVE PreviewsAgree
  <2>1. route = "preview" => preview.hidden \subseteq LegendReplicas(store, preview)
    BY <1>1 DEF PreviewInv
  <2>2. route = "preview" /\ Answered("now") =>
          (store.topic \in ReplicaTopics => ReadingsAreDrawn) /\ CardsEndLines /\ TooltipsTellLines
    BY <1>1, ReadingsDrawn, CardsEnd, TooltipsTell
  <2>3. route = "preview" /\ Answered("now") /\ Answered("past") => PastIsBelow
    BY <1>1, PastBelow
  <2> QED
    BY <2>1, <2>2, <2>3 DEF PreviewsAgree
<1> QED
  BY <1>1, PreviewInvariant, PTL
=============================================================================
