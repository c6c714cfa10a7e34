--------------------------- MODULE Console_proofs ---------------------------
(***************************************************************************)
(* What Console promises, for every set of clusters, contents, findings    *)
(* and bounds:                                                             *)
(*                                                                         *)
(*   HiddenFilters   a filter is in force only while the bar shows it;     *)
(*   BulkInCluster   a bulk action changes items of its cluster only;      *)
(*   RequestsListed  what the console asks for was listed to it.           *)
(*                                                                         *)
(* The first follows from StoreInv, an invariant of the context that all   *)
(* pages share.  The last needs that every list on a page is one that the  *)
(* API gave for the key the page shows now: CatalogInv and FormInv, joined *)
(* in RequestsInv.  A choice is sent only when the effects of the page     *)
(* have nothing to correct, so that it is one of its list.                 *)
(***************************************************************************)
EXTENDS Console, TLAPS

\* The fields of the filters and of the context.
IsFilters(f) ==
  f = [field \in {"severity", "alert", "blocking", "replica", "queryHash"} |-> f[field]]

IsStore(s) ==
  /\ s = [field \in {"cluster", "topic", "range", "filters", "compare", "page",
                     "live", "anchor"} |-> s[field]]
  /\ IsFilters(s.filters)

\* HiddenFiltersAreOff, of the context s and the findings seen.
FiltersOff(s, seen) ==
  /\ s.filters.blocking # Null \/ s.filters.queryHash # Null => s.topic = "slow_sessions"
  /\ s.filters.replica # Null =>
       /\ s.topic \in ReplicaTopics
       /\ \E g \in seen : /\ g.replica = s.filters.replica /\ g.topic = s.topic
                          /\ s.cluster \in {Null, g.cluster}

\* The setters of the context.
LEMMA NoFiltersAreOff ==
  ASSUME NEW s, s.filters = NoFilters, NEW seen PROVE FiltersOff(s, seen)
  BY DEF FiltersOff, NoFilters

LEMMA SetClusterKeeps ==
  ASSUME NEW s, IsStore(s), NEW c, NEW seen, FiltersOff(s, seen)
  PROVE  /\ IsStore(SetSelectedClusterId(s, c))
         /\ FiltersOff(SetSelectedClusterId(s, c), seen)
         /\ SetSelectedClusterId(s, c).cluster = c
  BY DEF IsStore, IsFilters, FiltersOff, SetSelectedClusterId

LEMMA SetTopicKeeps ==
  ASSUME NEW s, IsStore(s), NEW t, NEW seen, FiltersOff(s, seen)
  PROVE  /\ IsStore(SetActiveTopicId(s, t))
         /\ FiltersOff(SetActiveTopicId(s, t), seen)
         /\ SetActiveTopicId(s, t).cluster = s.cluster
  BY DEF IsStore, IsFilters, FiltersOff, SetActiveTopicId, NoFilters

LEMMA SetFiltersKeeps ==
  ASSUME NEW s, IsStore(s), NEW f, IsFilters(f)
  PROVE  /\ IsStore(SetFilters(s, f))
         /\ SetFilters(s, f).filters = f
         /\ SetFilters(s, f).topic = s.topic
         /\ SetFilters(s, f).cluster = s.cluster
  BY DEF IsStore, IsFilters, SetFilters

LEMMA OtherSettersKeep ==
  ASSUME NEW s, IsStore(s), NEW x
  PROVE  \A t \in {SetTimeRange(s, x), SetPage(s, x), RefreshNow(s, x),
                   [s EXCEPT !.compare = ~@], [s EXCEPT !.live = ~@]} :
           /\ IsStore(t) /\ t.filters = s.filters /\ t.topic = s.topic /\ t.cluster = s.cluster
  BY DEF IsStore, IsFilters, SetTimeRange, SetPage, RefreshNow

LEMMA ReloadedIsOff ==
  ASSUME NEW s, IsStore(s), NEW now
  PROVE  /\ IsStore(Reloaded(s, now))
         /\ Reloaded(s, now).filters = NoFilters
         /\ Reloaded(s, now).cluster = s.cluster
  BY DEF IsStore, IsFilters, Reloaded, NoFilters

LEMMA KeptStoreIsOff ==
  ASSUME NEW c
  PROVE  /\ IsStore(KeptStore(c))
         /\ KeptStore(c).filters = NoFilters
         /\ KeptStore(c).cluster = c
         /\ \A t : LET s == [KeptStore(c) EXCEPT !.topic = t]
                   IN  IsStore(s) /\ s.filters = NoFilters
  BY DEF IsStore, IsFilters, KeptStore, EmptyStore, NoFilters, Preset

-----------------------------------------------------------------------------
\* One step of the dashboard: the cluster stays, the filters stay shown.
StoreKept(s, t, seen) ==
  IsStore(t) /\ FiltersOff(t, seen) /\ t.cluster = s.cluster

LEMMA SameFiltersKeep ==
  ASSUME NEW s, NEW t, NEW seen, FiltersOff(s, seen), IsStore(t),
         t.filters = s.filters, t.topic = s.topic, t.cluster = s.cluster
  PROVE  StoreKept(s, t, seen)
  BY DEF StoreKept, FiltersOff

LEMMA DashboardKeeps ==
  ASSUME IsStore(store), FiltersOff(store, Detected), DashboardStep \/ ChoosePreviewRange
  PROVE  StoreKept(store, store', Detected) /\ clock' = clock
<1> USE DEF DashboardClick, StoreBecomes
<1> DEFINE Kept == StoreKept(store, store', Detected) /\ clock' = clock
<1> SUFFICES Kept
  OBVIOUS
<1>0. ASSUME store' = store, clock' = clock PROVE Kept
  BY <1>0, SameFiltersKeep
<1>1. ASSUME DefaultTopic \/ SelectTopic PROVE Kept
  <2>1. PICK t : store' = SetActiveTopicId(store, t) /\ clock' = clock
    BY <1>1 DEF DefaultTopic, SelectTopic
  <2> QED
    BY <2>1, SetTopicKeeps DEF StoreKept
<1>2. ASSUME FilterSeverity PROVE Kept
  <2>1. PICK v : store' = SetFilters(store, [store.filters EXCEPT !.severity = v]) /\ clock' = clock
    BY <1>2 DEF FilterSeverity
  <2> DEFINE f == [store.filters EXCEPT !.severity = v]
  <2>3. /\ IsFilters(f) /\ f.blocking = store.filters.blocking
        /\ f.queryHash = store.filters.queryHash /\ f.replica = store.filters.replica
    BY DEF IsStore, IsFilters
  <2>4. f.severity = v
    BY DEF IsStore, IsFilters
  <2>5. store' = SetFilters(store, f) /\ clock' = clock
    BY <2>1
  <2> HIDE DEF f
  <2>6. FiltersOff(SetFilters(store, f), Detected)
    BY <2>3, <2>4, SetFiltersKeeps DEF FiltersOff
  <2> QED
    BY <2>3, <2>5, <2>6, SetFiltersKeeps DEF StoreKept
<1>3. ASSUME FilterBlocking PROVE Kept
  <2>1. PICK v : store' = SetFilters(store, [store.filters EXCEPT !.blocking = v]) /\ clock' = clock
    BY <1>3 DEF FilterBlocking
  <2> DEFINE f == [store.filters EXCEPT !.blocking = v]
  <2>3. IsFilters(f) /\ f.queryHash = store.filters.queryHash /\ f.replica = store.filters.replica
    BY DEF IsStore, IsFilters
  <2>4. f.blocking = v
    BY DEF IsStore, IsFilters
  <2>5. store' = SetFilters(store, f) /\ clock' = clock
    BY <2>1
  <2> HIDE DEF f
  <2>6. FiltersOff(SetFilters(store, f), Detected)
    BY <1>3, <2>3, <2>4, SetFiltersKeeps DEF FiltersOff, FilterBlocking
  <2> QED
    BY <2>3, <2>5, <2>6, SetFiltersKeeps DEF StoreKept
<1>4. ASSUME FilterReplica PROVE Kept
  <2>1. PICK v \in {Null} \cup ReplicaOptions(store.cluster, store.topic) :
          store' = SetFilters(store, [store.filters EXCEPT !.replica = v]) /\ clock' = clock
    BY <1>4 DEF FilterReplica
  <2>2. v # Null => \E g \in Detected : /\ g.replica = v /\ g.topic = store.topic
                                         /\ store.cluster \in {Null, g.cluster}
    BY DEF ReplicaOptions
  <2> DEFINE f == [store.filters EXCEPT !.replica = v]
  <2>3. IsFilters(f) /\ f.blocking = store.filters.blocking /\ f.queryHash = store.filters.queryHash
    BY DEF IsStore, IsFilters
  <2>4. f.replica = v
    BY DEF IsStore, IsFilters
  <2>5. store' = SetFilters(store, f) /\ clock' = clock
    BY <2>1
  <2> HIDE DEF f
  <2>6. FiltersOff(SetFilters(store, f), Detected)
    BY <1>4, <2>2, <2>3, <2>4, SetFiltersKeeps DEF FiltersOff, FilterReplica
  <2> QED
    BY <2>3, <2>5, <2>6, SetFiltersKeeps DEF StoreKept
<1>5. ASSUME QueryHashTimer PROVE Kept
  <2>1. PICK v : store' = SetFilters(store, [store.filters EXCEPT !.queryHash = v]) /\ clock' = clock
    BY <1>5 DEF QueryHashTimer
  <2> DEFINE f == [store.filters EXCEPT !.queryHash = v]
  <2>3. IsFilters(f) /\ f.blocking = store.filters.blocking /\ f.replica = store.filters.replica
    BY DEF IsStore, IsFilters
  <2>4. f.queryHash = v
    BY DEF IsStore, IsFilters
  <2>5. store' = SetFilters(store, f) /\ clock' = clock
    BY <2>1
  <2> HIDE DEF f
  <2>6. FiltersOff(SetFilters(store, f), Detected)
    BY <1>5, <2>3, <2>4, SetFiltersKeeps DEF FiltersOff, QueryHashTimer
  <2> QED
    BY <2>3, <2>5, <2>6, SetFiltersKeeps DEF StoreKept
<1>6. ASSUME ClearFilters PROVE Kept
  <2>1. store' = SetFilters(store, NoFilters) /\ clock' = clock
    BY <1>6 DEF ClearFilters
  <2>2. IsFilters(NoFilters)
    BY DEF IsFilters, NoFilters
  <2> QED
    BY <2>1, <2>2, SetFiltersKeeps, NoFiltersAreOff DEF StoreKept
<1>7. ASSUME CompareWithPast \/ ToggleLive PROVE Kept
  <2>1. /\ store' \in {[store EXCEPT !.compare = ~@], [store EXCEPT !.live = ~@]}
        /\ clock' = clock
    BY <1>7 DEF CompareWithPast, ToggleLive
  <2>2. /\ IsStore(store') /\ store'.filters = store.filters
        /\ store'.topic = store.topic /\ store'.cluster = store.cluster
    BY <2>1, OtherSettersKeep
  <2> QED
    BY <2>1, <2>2, SameFiltersKeep
<1>8. ASSUME ApplyPreset \/ ApplyCustom \/ Shift \/ ChoosePreviewRange PROVE Kept
  <2>1. PICK range : store' = SetTimeRange(store, range) /\ clock' = clock
    BY <1>8 DEF ApplyPreset, ApplyCustom, Shift, ChoosePreviewRange
  <2>2. /\ IsStore(store') /\ store'.filters = store.filters
        /\ store'.topic = store.topic /\ store'.cluster = store.cluster
    BY <2>1, OtherSettersKeep
  <2> QED
    BY <2>1, <2>2, SameFiltersKeep
<1>9. ASSUME ManualRefresh \/ LiveRefresh PROVE Kept
  <2>1. store' = RefreshNow(store, clock) /\ clock' = clock
    BY <1>9 DEF ManualRefresh, LiveRefresh
  <2>2. /\ IsStore(store') /\ store'.filters = store.filters
        /\ store'.topic = store.topic /\ store'.cluster = store.cluster
    BY <2>1, OtherSettersKeep
  <2> QED
    BY <2>1, <2>2, SameFiltersKeep
<1>10. ASSUME TurnFindingsPage PROVE Kept
  <2>1. PICK p : store' = SetPage(store, p) /\ clock' = clock
    BY <1>10 DEF TurnFindingsPage
  <2>2. /\ IsStore(store') /\ store'.filters = store.filters
        /\ store'.topic = store.topic /\ store'.cluster = store.cluster
    BY <2>1, OtherSettersKeep
  <2> QED
    BY <2>1, <2>2, SameFiltersKeep
<1>11. ASSUME TypeQueryHash \/ ToggleSlowQueryStats \/ FetchFindings PROVE Kept
  BY <1>11, <1>0 DEF TypeQueryHash, ToggleSlowQueryStats, FetchFindings
<1> QED
  BY <1>1, <1>2, <1>3, <1>4, <1>5, <1>6, <1>7, <1>8, <1>9, <1>10, <1>11
  DEF DashboardStep, DashboardUser

\* More is detected as time passes, nothing less.
LEMMA TimeKeeps ==
  ASSUME IsStore(store), FiltersOff(store, Detected), clock \in Nat, TimePasses
  PROVE  StoreKept(store, store', Detected') /\ clock' \in Nat
<1>1. store' = store /\ clock' = clock + 1
  BY DEF TimePasses
<1>2. Detected \subseteq Detected'
  BY <1>1, InstantsAssumption DEF Detected
<1> QED
  BY <1>1, <1>2 DEF StoreKept, FiltersOff

\* A preview uses the context as the dashboard does.
LEMMA PreviewKeeps ==
  ASSUME IsStore(store), FiltersOff(store, Detected), clock \in Nat, PreviewStep
  PROVE  StoreKept(store, store', Detected') /\ clock' \in Nat
<1>1. CASE TimePasses
  BY <1>1, TimeKeeps
<1>2. CASE store' = store /\ clock' = clock
  <2>1. Detected' = Detected
    BY <1>2 DEF Detected
  <2> QED
    BY <1>2, <2>1, SameFiltersKeep
<1>3. CASE DashboardStep \/ ChoosePreviewRange
  <2>1. clock' = clock /\ StoreKept(store, store', Detected)
    BY <1>3, DashboardKeeps
  <2>2. Detected' = Detected
    BY <2>1 DEF Detected
  <2> QED
    BY <2>1, <2>2
<1> QED
  BY <1>1, <1>2, <1>3 DEF PreviewStep, PreviewAnswers, DashboardStep, DashboardUser

-----------------------------------------------------------------------------
\* The maintenance pages read the context and leave it alone.
LEMMA CatalogLeavesStore ==
  ASSUME CatalogStep PROVE store' = store /\ version' = version
<1> USE DEF CatalogClick, AnswerComes
<1>1. CASE CatalogEffects \/ CommandStored
  BY <1>1 DEF CatalogEffects, CommandStored
<1>2. CASE CatalogFetch
  BY <1>2 DEF CatalogFetch, FetchDatabases, FetchConfig, FetchSchemas, FetchTables, FetchSnapshots
<1>3. CASE CatalogUser
  BY <1>3 DEF CatalogUser, ChooseDatabase, ChooseSchema, ChooseTable, OpenDetails, CloseDetails,
       SelectTab, SelectSnapshot, RunFiltered
<1> QED
  BY <1>1, <1>2, <1>3 DEF CatalogStep

LEMMA FormLeavesStore ==
  ASSUME FormStep PROVE store' = store /\ version' = version /\ catalog' = catalog
<1> USE DEF FormClick, FormAnswer, FormSame
<1>1. CASE FormEffects \/ FormAnswered
  BY <1>1 DEF FormEffects, FormAnswered
<1>2. CASE FetchFormDatabases \/ FetchFormSchemas \/ FetchFormTables \/ FetchReadiness
  BY <1>2 DEF FetchFormDatabases, FetchFormSchemas, FetchFormTables, FetchReadiness
<1>3. CASE FormUser
  BY <1>3 DEF FormUser, OpenForm, CloseForm, SelectFormDatabase, SelectFormSchema,
       SelectTableMode, ToggleTable, ToggleType, FillIn, SubmitForm
<1> QED
  BY <1>1, <1>2, <1>3 DEF FormStep

LEMMA CampaignLeavesStore ==
  ASSUME CampaignStep \/ CampaignElsewhere PROVE store' = store
<1> USE DEF CampaignClick, PageClick, Arrives, Elsewhere
<1>1. CASE CampaignEffects \/ CampaignFetch
  BY <1>1 DEF CampaignEffects, CampaignFetch, FetchCampaigns, FetchSummary, FetchTable
<1>2. CASE CampaignApi \/ CampaignElsewhere
  BY <1>2 DEF CampaignApi, CampaignElsewhere, ItemIsChecked, ItemIsWritten, BulkIsWritten,
       DiscoveryIsQueued, CampaignMoves, ItemMoves
<1>3. CASE CampaignUser
  BY <1>3 DEF CampaignUser, SelectCampaign, ChooseChip, SelectSubTab, FilterTable, TurnPage,
       ToggleStatement, ActOnRow, AskToConfirm, Confirm, CancelConfirm, ApproveAll, RunDiscovery
<1> QED
  BY <1>1, <1>2, <1>3 DEF CampaignStep

\* What holds of the context on every page.  A setter keeps HiddenFiltersAreOff
\* only for a store that has the fields of one, and a cluster is one that has
\* contents on the pages that ask for them.
StoreInv ==
  /\ route \in {"charts", "preview", "catalog", "form", "campaign", "dashboard"}
  /\ IsStore(store)
  /\ FiltersOff(store, Detected)
  /\ clock \in Nat
  /\ route \notin {"charts", "preview"} =>
       /\ store.cluster \in DOMAIN Contents \cup {Null}
       /\ fleet \in Seq(DOMAIN Contents)

LEMMA InitStore == Init => StoreInv
<1> SUFFICES ASSUME Init PROVE StoreInv
  OBVIOUS
<1>1. clock \in Nat
  BY InstantsAssumption DEF Init
<1>2. IsStore(store) /\ store.filters = NoFilters
  <2>1. CASE route = "charts"
    BY <2>1, KeptStoreIsOff DEF Init
  <2>2. CASE route = "preview"
    <3>1. PICK t : store = [KeptStore(PreviewCluster) EXCEPT !.topic = t]
      BY <2>2 DEF Init
    <3> QED
      BY <3>1, KeptStoreIsOff
  <2>3. CASE route \notin {"charts", "preview"}
    <3>1. PICK s \in Starts[route] : store = KeptStore(s.kept)
      BY <2>3 DEF Init
    <3> QED
      BY <3>1, KeptStoreIsOff
  <2> QED
    BY <2>1, <2>2, <2>3
<1>3. route \notin {"charts", "preview"} =>
        /\ store.cluster \in DOMAIN Contents \cup {Null}
        /\ fleet \in Seq(DOMAIN Contents)
  <2> SUFFICES ASSUME route \notin {"charts", "preview"}
               PROVE  /\ store.cluster \in DOMAIN Contents \cup {Null}
                      /\ fleet \in Seq(DOMAIN Contents)
    OBVIOUS
  <2>1. PICK s \in Starts[route] : store = KeptStore(s.kept) /\ fleet = s.enabled
    BY DEF Init
  <2>2. route \in {"catalog", "campaign", "dashboard", "form"}
    BY DEF Init
  <2> QED
    BY <2>1, <2>2, KeptStoreIsOff, StartsAssumption
<1>4. route \in {"charts", "preview", "catalog", "form", "campaign", "dashboard"}
  BY DEF Init
<1> QED
  BY <1>1, <1>2, <1>3, <1>4, NoFiltersAreOff DEF StoreInv

\* The selection of another cluster switches the replica off.
LEMMA ClusterKept ==
  ASSUME StoreInv, NEW s, NEW used, ClusterBecomes(s, used), UNCHANGED clock,
         s \in {SetSelectedClusterId(store, c) : c \in DOMAIN Contents} \cup {store},
         route \notin {"charts", "preview"}
  PROVE  StoreInv'
<1>1. /\ store' = s /\ route' = route /\ fleet' = fleet
      /\ Detected' = Detected
  BY DEF ClusterBecomes, Detected
<1>2. IsStore(s) /\ FiltersOff(s, Detected) /\ s.cluster \in DOMAIN Contents \cup {Null}
  BY SetClusterKeeps DEF StoreInv
<1> QED
  BY <1>1, <1>2 DEF StoreInv

LEMMA StoreStep ==
  ASSUME StoreInv, [Next]_consoleVars PROVE StoreInv'
<1>1. CASE UNCHANGED <<store, clock, route, fleet>>
  BY <1>1 DEF StoreInv, Detected
<1>2. CASE ChartsPage
  BY <1>1, <1>2 DEF ChartsPage, dashboardPart
<1>3. CASE OnCatalog(CatalogStep)
  BY <1>1, <1>3, CatalogLeavesStore DEF OnCatalog, dashboardPart
<1>4. CASE OnCatalog(\E c \in DOMAIN Contents : ContentChanges(c))
  BY <1>1, <1>4 DEF OnCatalog, dashboardPart, ContentChanges
<1>5. CASE OnForm(FormStep)
  BY <1>1, <1>5, FormLeavesStore DEF OnForm, dashboardPart
<1>6. CASE OnForm(\E c \in DOMAIN Contents : ContentChanges(c) /\ UNCHANGED form)
  BY <1>1, <1>6 DEF OnForm, dashboardPart, ContentChanges
<1>7. CASE OnCampaign(CampaignStep \/ CampaignElsewhere)
  BY <1>1, <1>7, CampaignLeavesStore DEF OnCampaign, dashboardPart
<1>8. CASE OnDashboard(DashboardStep \/ TimePasses)
  <2>1. route' = route /\ fleet' = fleet /\ (DashboardStep \/ TimePasses)
    BY <1>8 DEF OnDashboard
  <2>2. StoreKept(store, store', Detected') /\ clock' \in Nat
    <3>1. CASE TimePasses
      BY <3>1, TimeKeeps DEF StoreInv
    <3>2. CASE DashboardStep
      <4>1. StoreKept(store, store', Detected) /\ clock' = clock
        BY <3>2, DashboardKeeps DEF StoreInv
      <4> QED
        BY <4>1 DEF StoreInv, Detected
    <3> QED
      BY <2>1, <3>1, <3>2
  <2> QED
    BY <2>1, <2>2 DEF StoreInv, StoreKept
<1>9. CASE PreviewPage
  <2>1. route' = route /\ fleet' = fleet /\ PreviewStep
    BY <1>9 DEF PreviewPage
  <2> QED
    BY <2>1, PreviewKeeps DEF StoreInv, StoreKept
<1>10. CASE SelectCluster
  <2>1. PICK c \in ToSet(fleet) : ClusterBecomes(SetSelectedClusterId(store, c), 1)
    BY <1>10 DEF SelectCluster
  <2>2. route \notin {"charts", "preview"}
    BY <1>10 DEF SelectCluster, ClickAbove
  <2>3. c \in DOMAIN Contents
    BY <2>1, <2>2 DEF StoreInv, ToSet
  <2> QED
    BY <2>1, <2>2, <2>3, ClusterKept DEF ClusterBecomes
<1>11. CASE ClustersAnswer
  <2>1. WithClusters(store, fleet) \in
          {SetSelectedClusterId(store, c) : c \in DOMAIN Contents} \cup {store}
    BY <1>11 DEF ClustersAnswer, WithClusters, StoreInv
  <2> QED
    BY <1>11, <2>1, ClusterKept DEF ClustersAnswer, ClusterBecomes
<1>12. CASE ReloadPage
  <2>1. /\ store' = Reloaded(store, clock) /\ route' = route /\ fleet' = fleet
        /\ clock' = clock
    BY <1>12 DEF ReloadPage
  <2> QED
    BY <2>1, ReloadedIsOff, NoFiltersAreOff DEF StoreInv
<1>13. CASE Navigate
  <2>1. /\ store' = store /\ fleet' = fleet /\ clock' = clock
        /\ route \in {"catalog", "campaign"} /\ route' \in {"catalog", "campaign"}
    BY <1>13 DEF Navigate, dashboardPart
  <2> QED
    BY <2>1 DEF StoreInv, Detected
<1>14. CASE UNCHANGED consoleVars
  BY <1>1, <1>14 DEF consoleVars, dashboardPart
<1> QED
  BY <1>2, <1>3, <1>4, <1>5, <1>6, <1>7, <1>8, <1>9, <1>10, <1>11, <1>12, <1>13, <1>14
  DEF Next

\* The shared context keeps its form, its filters stay shown and its cluster is
\* one of the fleet, whichever page is mounted (dashboard.store.ts).
THEOREM StoreInvariant == Spec => []StoreInv
  BY InitStore, StoreStep, PTL DEF Spec

\* HiddenFiltersAreOff: a filter is in force only while the bar has its control,
\* and a replica only one that the selected cluster has (setActiveTopicId,
\* setSelectedClusterId, the timers of FilterBar).
THEOREM HiddenFilters == Spec => []HiddenFiltersAreOff
<1>1. StoreInv => HiddenFiltersAreOff
  BY DEF StoreInv, FiltersOff, HiddenFiltersAreOff
<1> QED
  BY <1>1, StoreInvariant, PTL

-----------------------------------------------------------------------------
\* The step that BulkStaysInCluster allows.
BulkStep ==
  \A i \in AllItems :
    /\ cpage.request # Null /\ cpage.request.kind = "bulk"
    /\ item'[i] # item[i] /\ cpage'.request = Null
    => /\ ClusterOf(CampaignOf(i)) = cpage.request.cluster
       /\ item[i] = "awaiting_approval"

LEMMA BulkChangesOfCluster ==
  ASSUME BulkIsWritten PROVE BulkStep
<1> SUFFICES ASSUME NEW i \in AllItems, item'[i] # item[i]
             PROVE  /\ ClusterOf(CampaignOf(i)) = cpage.request.cluster
                    /\ item[i] = "awaiting_approval"
  BY DEF BulkStep
<1>1. i \in BulkFilter(cpage.request)
  BY DEF BulkIsWritten
<1> QED
  BY <1>1 DEF BulkFilter, Matching

LEMMA CampaignBulk ==
  ASSUME CampaignStep \/ CampaignElsewhere PROVE BulkStep
<1> USE DEF CampaignClick, PageClick, Arrives, Elsewhere
<1>1. CASE UNCHANGED item
  BY <1>1 DEF BulkStep
<1>2. CASE CampaignEffects \/ CampaignFetch
  BY <1>1, <1>2 DEF CampaignEffects, CampaignFetch, FetchCampaigns, FetchSummary, FetchTable, world
<1>3. CASE CampaignUser
  BY <1>1, <1>3 DEF CampaignUser, SelectCampaign, ChooseChip, SelectSubTab, FilterTable, TurnPage,
       ToggleStatement, ActOnRow, AskToConfirm, Confirm, CancelConfirm, ApproveAll, RunDiscovery, world
<1>4. CASE ItemIsWritten
  BY <1>4 DEF ItemIsWritten, BulkStep
<1>5. CASE ItemIsChecked \/ DiscoveryIsQueued
  BY <1>1, <1>5 DEF ItemIsChecked, DiscoveryIsQueued, world
<1>6. CASE BulkIsWritten
  BY <1>6, BulkChangesOfCluster
<1>7. CASE CampaignElsewhere
  <2>1. cpage' = cpage
    BY <1>7 DEF CampaignElsewhere, CampaignMoves, ItemMoves
  <2> QED
    BY <2>1 DEF BulkStep
<1> QED
  BY <1>2, <1>3, <1>4, <1>5, <1>6, <1>7 DEF CampaignStep, CampaignApi

\* BulkStaysInCluster: a bulk action changes items that await approval, of
\* campaigns of the cluster that was confirmed, and no other, also when another
\* cluster is selected while the request is on its way (handleApproveAll).
THEOREM BulkInCluster == Spec => BulkStaysInCluster
<1>1. [Next]_consoleVars => [BulkStep]_<<store, world, cpage>>
  <2> SUFFICES ASSUME [Next]_consoleVars, <<store, world, cpage>>' # <<store, world, cpage>>
               PROVE  BulkStep
    OBVIOUS
  <2>1. CASE OnCampaign(CampaignStep \/ CampaignElsewhere)
    BY <2>1, CampaignBulk DEF OnCampaign
  <2>2. CASE ~OnCampaign(CampaignStep \/ CampaignElsewhere)
    <3>1. UNCHANGED item
      BY <2>2 DEF Next, consoleVars, ChartsPage, OnCatalog, OnForm, OnDashboard, PreviewPage,
           SelectCluster, ClustersAnswer, ClusterBecomes, ReloadPage, Navigate, campaignPart, world
    <3> QED
      BY <3>1 DEF BulkStep
  <2> QED
    BY <2>1, <2>2
<1> QED
  BY <1>1, PTL DEF Spec, BulkStaysInCluster, BulkStep

-----------------------------------------------------------------------------
\* The fields of the catalog page.
IsPage(p) ==
  p = [field \in {"database", "schema", "table", "databases", "schemas", "tables",
                  "config", "dialog", "command", "clicks"} |-> p[field]]

\* The tables on the page p are those of its scope, as they were in a content in known.
TablesListed(p, c, known) ==
  p.tables # Null => \E v \in known : p.tables = Tables(c, v, p.database, p.schema)

\* CommandsAreListed, of a command k.
CommandListed(k) ==
  k # Null =>
    /\ k.cluster \in DOMAIN Contents
    /\ \E v \in Versions(k.cluster) :
         k.table \in ToSet(Tables(k.cluster, v, k.database, k.schema))

\* Each cluster has one of its contents.
VersionInv ==
  /\ version \in [DOMAIN Contents -> Nat]
  /\ \A c \in DOMAIN Contents : version[c] \in 1 .. Len(Contents[c])

\* The list of tables is one for the scope that is shown, however the answers
\* and the choices were ordered, and so is the table of a capture on its way.
CatalogInv ==
  /\ IsPage(catalog)
  /\ TablesListed(catalog, store.cluster, Versions(store.cluster))
  /\ CommandListed(catalog.command)

\* Lists of names.
LEMMA TablesAreSequences ==
  ASSUME VersionInv, NEW c \in DOMAIN Contents, NEW v \in Versions(c), NEW db, NEW s
  PROVE  Tables(c, v, db, s) \in Seq(STRING) /\ Schemas(c, v, db) \in Seq(STRING)
<1>1. v \in 1 .. Len(Contents[c])
  <2>1. version[c] \in 1 .. Len(Contents[c]) /\ Len(Contents[c]) \in Nat
    BY ContentsAssumption DEF VersionInv
  <2>2. v \in 1 .. version[c]
    BY DEF Versions
  <2> QED
    BY <2>1, <2>2
<1>2. \A lists \in {Contents[c][v].schemas, Contents[c][v].tables} :
        \A key \in DOMAIN lists : lists[key] \in Seq(STRING)
  BY <1>1, ContentsAssumption
<1>3. <<>> \in Seq(STRING)
  OBVIOUS
<1> QED
  BY <1>2, <1>3 DEF Tables, Schemas, Of

LEMMA FirstIsListed ==
  ASSUME NEW list \in Seq(STRING), list # <<>> PROVE list[1] \in ToSet(list)
  BY DEF ToSet

\* A content that was listed stays one that was.
LEMMA VersionsGrow ==
  ASSUME VersionInv, NEW c \in DOMAIN Contents, ContentChanges(c)
  PROVE  /\ VersionInv'
         /\ \A d \in DOMAIN Contents \cup {Null} : Versions(d) \subseteq Versions(d)'
<1>1. version' = [version EXCEPT ![c] = @ + 1] /\ version[c] < Len(Contents[c])
  BY DEF ContentChanges
<1>2. \A d \in DOMAIN Contents : Len(Contents[d]) \in Nat
  BY ContentsAssumption
<1>3. VersionInv'
  BY <1>1, <1>2 DEF VersionInv
<1> QED
  BY <1>1, <1>3 DEF VersionInv, Versions

\* The queries after a render: lists at a new key are asked for again.
LEMMA RequeriedLists ==
  ASSUME NEW c, NEW old, NEW new, IsPage(new), NEW moved \in BOOLEAN,
         ~moved => TablesListed(old, c, Versions(c)),
         NEW q \in Requeried(c, old, new, moved)
  PROVE  /\ IsPage(q) /\ q.command = new.command
         /\ TablesListed(q, c, Versions(c))
<1> DEFINE same == ~(moved \/ new.database # old.database) /\ new.schema = old.schema
<1>1. PICK t \in TablesAtKey(c, new, old.tables, same) : \E s, d : q = WithAnswers(new, s, t, d)
  BY DEF Requeried
<1>2. /\ IsPage(q) /\ q.command = new.command /\ q.tables = t
      /\ q.database = new.database /\ q.schema = new.schema
  BY <1>1 DEF IsPage, WithAnswers
<1>3. CASE same
  BY <1>1, <1>2, <1>3 DEF TablesAtKey, TablesListed
<1>4. CASE ~same
  BY <1>1, <1>2, <1>4 DEF TablesAtKey, AtNewKey, TablesListed
<1> QED
  BY <1>2, <1>3, <1>4

LEMMA RequeriedHere ==
  ASSUME NEW c, NEW old, NEW new, IsPage(new), TablesListed(old, c, Versions(c)),
         NEW q \in Requeried(c, old, new, FALSE)
  PROVE  /\ IsPage(q) /\ q.command = new.command
         /\ TablesListed(q, c, Versions(c))
<1> DEFINE moved == FALSE
<1>1. moved \in BOOLEAN /\ q \in Requeried(c, old, new, moved)
  OBVIOUS
<1> HIDE DEF moved
<1> QED
  BY <1>1, RequeriedLists

LEMMA RequeriedMoved ==
  ASSUME NEW c, NEW old, NEW new, IsPage(new), NEW q \in Requeried(c, old, new, TRUE)
  PROVE  /\ IsPage(q) /\ q.command = new.command
         /\ TablesListed(q, c, Versions(c))
<1> DEFINE moved == TRUE
<1>1. moved \in BOOLEAN /\ q \in Requeried(c, old, new, moved) /\ moved
  OBVIOUS
<1> HIDE DEF moved
<1> QED
  BY <1>1, RequeriedLists

\* A page that is mounted has no table and no command.
LEMMA MountedLists ==
  ASSUME NEW c, NEW p \in Mounted(c)
  PROVE  IsPage(p) /\ p.tables = Null /\ p.command = Null
<1>1. PICK d, k : p = MountedWith(d, k)
  BY DEF Mounted, AtNewKey
<1> QED
  BY <1>1 DEF IsPage, NoCatalog, MountedWith

LEMMA PageSet ==
  ASSUME NEW p, IsPage(p), NEW x
  PROVE  \A q \in {[p EXCEPT !.database = x], [p EXCEPT !.schema = x], [p EXCEPT !.table = x],
                   [p EXCEPT !.dialog = x], [p EXCEPT !.clicks = x]} :
           IsPage(q) /\ q.command = p.command
  BY DEF IsPage

\* A click whose change keeps the command one of a listed table.
LEMMA ClickKeeps ==
  ASSUME CatalogInv, NEW new, IsPage(new), CommandListed(new.command), CatalogClick(new)
  PROVE  CatalogInv'
<1> DEFINE p == [new EXCEPT !.clicks = @ + 1]
<1>1. IsPage(p) /\ p.command = new.command
  BY DEF IsPage
<1>2. catalog' \in Requeried(store.cluster, catalog, p, FALSE) /\ store' = store /\ version' = version
  BY DEF CatalogClick
<1> HIDE DEF p
<1>3. TablesListed(catalog, store.cluster, Versions(store.cluster))
  BY DEF CatalogInv
<1>4. /\ IsPage(catalog') /\ catalog'.command = new.command
      /\ TablesListed(catalog', store.cluster, Versions(store.cluster))
  <2>1. \A q \in Requeried(store.cluster, catalog, p, FALSE) :
          /\ IsPage(q) /\ q.command = p.command
          /\ TablesListed(q, store.cluster, Versions(store.cluster))
    BY <1>1, <1>3, RequeriedHere, Zenon
  <2> QED
    BY <1>1, <1>2, <2>1
<1>5. /\ Versions(store.cluster)' = Versions(store.cluster)
      /\ CommandListed(catalog.command)' = CommandListed(catalog'.command)
  BY <1>2 DEF Versions, CommandListed
<1> QED
  BY <1>2, <1>4, <1>5 DEF CatalogInv

\* The chosen table of a page at rest is one of its list.
LEMMA ChosenIsListed ==
  ASSUME VersionInv, CatalogInv, StoreInv, CatalogRested, catalog.table # "",
         store.cluster \in DOMAIN Contents \cup {Null}
  PROVE  /\ store.cluster \in DOMAIN Contents
         /\ \E v \in Versions(store.cluster) :
              catalog.table \in ToSet(Tables(store.cluster, v, catalog.database, catalog.schema))
<1>1. catalog.table = ChosenTable(catalog)
  BY DEF CatalogRested, AfterEffects, CatalogInv, IsPage
<1>2. HasItems(catalog.tables)
  BY <1>1 DEF ChosenTable
<1>3. PICK v \in Versions(store.cluster) :
        catalog.tables = Tables(store.cluster, v, catalog.database, catalog.schema)
  BY <1>2 DEF HasItems, CatalogInv, TablesListed
<1>4. store.cluster \in DOMAIN Contents
  BY <1>3 DEF Versions
<1>5. catalog.tables \in Seq(STRING)
  BY <1>3, <1>4, TablesAreSequences
<1>6. catalog.table \in ToSet(catalog.tables)
  BY <1>1, <1>2, <1>5, FirstIsListed DEF ChosenTable, HasItems
<1> QED
  BY <1>3, <1>4, <1>6

\* Every step of the page keeps its lists those of its scope.
LEMMA CatalogKeeps ==
  ASSUME VersionInv, CatalogInv, StoreInv, route = "catalog", CatalogStep
  PROVE  CatalogInv'
<1> DEFINE c == store.cluster
<1>0. /\ store' = store /\ version' = version /\ Versions(c)' = Versions(c)
      /\ \A k : CommandListed(k)' = CommandListed(k)
  BY CatalogLeavesStore DEF Versions, CommandListed
<1>1. CASE CatalogEffects
  <2>1. catalog' \in Requeried(c, catalog, AfterEffects(catalog), FALSE)
    BY <1>1 DEF CatalogEffects
  <2>2. IsPage(AfterEffects(catalog)) /\ AfterEffects(catalog).command = catalog.command
    BY DEF CatalogInv, IsPage, AfterEffects
  <2>3. TablesListed(catalog, c, Versions(c))
    BY DEF CatalogInv
  <2>4. /\ IsPage(catalog') /\ catalog'.command = catalog.command
        /\ TablesListed(catalog', c, Versions(c))
    <3> DEFINE new == AfterEffects(catalog)
    <3>1. \A q \in Requeried(c, catalog, new, FALSE) :
            IsPage(q) /\ q.command = new.command /\ TablesListed(q, c, Versions(c))
      BY <2>2, <2>3, RequeriedHere, Zenon
    <3> QED
      BY <2>1, <2>2, <3>1
  <2> QED
    BY <1>0, <2>4 DEF CatalogInv
<1>2. ASSUME NEW field \in {"databases", "config", "dialog", "schemas"}, NEW answer,
             AnswerComes(field, answer)
      PROVE  CatalogInv'
  <2>1. catalog' = [catalog EXCEPT ![field] = answer]
    BY <1>2 DEF AnswerComes
  <2>2. /\ IsPage(catalog') /\ catalog'.command = catalog.command /\ catalog'.tables = catalog.tables
        /\ catalog'.database = catalog.database /\ catalog'.schema = catalog.schema
    BY <2>1 DEF CatalogInv, IsPage
  <2> QED
    BY <1>0, <2>2 DEF CatalogInv, TablesListed
<1>3. CASE FetchTables
  <2>1. /\ catalog' = [catalog EXCEPT !["tables"] = Tables(c, version[c], catalog.database, catalog.schema)]
        /\ c # Null
    BY <1>3 DEF FetchTables, AnswerComes, Newest
  <2>2. version[c] \in Versions(c)
    BY <2>1, ContentsAssumption DEF StoreInv, VersionInv, Versions
  <2>3. /\ IsPage(catalog') /\ catalog'.command = catalog.command
        /\ catalog'.tables = Tables(c, version[c], catalog.database, catalog.schema)
        /\ catalog'.database = catalog.database /\ catalog'.schema = catalog.schema
    BY <2>1 DEF CatalogInv, IsPage
  <2> QED
    BY <1>0, <2>2, <2>3 DEF CatalogInv, TablesListed
<1>4. CASE CatalogFetch
  BY <1>2, <1>3, <1>4
  DEF CatalogFetch, FetchDatabases, FetchConfig, FetchSchemas, FetchSnapshots
<1>5. CASE CatalogUser /\ ~RunFiltered
  <2>1. PICK new : CatalogClick(new) /\ IsPage(new) /\ new.command = catalog.command
    <3>1. CASE SelectTab
      <4>1. PICK tab : CatalogClick([catalog EXCEPT !.dialog.tab = tab])
        BY <3>1 DEF SelectTab
      <4>2. IsPage([catalog EXCEPT !.dialog.tab = tab])
            /\ [catalog EXCEPT !.dialog.tab = tab].command = catalog.command
        BY DEF CatalogInv, IsPage
      <4> QED
        BY <4>1, <4>2
    <3>2. CASE SelectSnapshot
      <4>1. PICK r : CatalogClick([catalog EXCEPT !.dialog.run = r])
        BY <3>2 DEF SelectSnapshot
      <4>2. IsPage([catalog EXCEPT !.dialog.run = r])
            /\ [catalog EXCEPT !.dialog.run = r].command = catalog.command
        BY DEF CatalogInv, IsPage
      <4> QED
        BY <4>1, <4>2
    <3>3. \A x : CatalogClick([catalog EXCEPT !.database = x]) \/ CatalogClick([catalog EXCEPT !.schema = x])
                \/ CatalogClick([catalog EXCEPT !.table = x]) \/ CatalogClick([catalog EXCEPT !.dialog = x])
                => \E new : CatalogClick(new) /\ IsPage(new) /\ new.command = catalog.command
      BY PageSet DEF CatalogInv
    <3> QED
      BY <1>5, <3>1, <3>2, <3>3
      DEF CatalogUser, ChooseDatabase, ChooseSchema, ChooseTable, OpenDetails, CloseDetails
  <2> QED
    BY <2>1, ClickKeeps DEF CatalogInv
<1>6. CASE CatalogUser /\ RunFiltered
  <2> DEFINE k == [ cluster |-> c, database |-> catalog.database,
                    schema |-> catalog.schema, table |-> catalog.table ]
             new == [catalog EXCEPT !.command = k]
  <2>1. CommandListed(k)
    BY <1>6, ChosenIsListed DEF CatalogUser, RunFiltered, CommandListed, StoreInv
  <2>2. IsPage(new) /\ new.command = k
    BY DEF CatalogInv, IsPage
  <2>3. CatalogClick(new)
    BY <1>6 DEF RunFiltered
  <2> HIDE DEF new, k
  <2> QED
    BY <2>1, <2>2, <2>3, ClickKeeps
<1>7. CASE CommandStored
  <2>1. catalog' = [catalog EXCEPT !.command = Null]
    BY <1>7 DEF CommandStored
  <2>2. /\ IsPage(catalog') /\ catalog'.command = Null /\ catalog'.tables = catalog.tables
        /\ catalog'.database = catalog.database /\ catalog'.schema = catalog.schema
    BY <2>1 DEF CatalogInv, IsPage
  <2> QED
    BY <1>0, <2>2 DEF CatalogInv, TablesListed, CommandListed
<1> QED
  BY <1>1, <1>4, <1>5, <1>6, <1>7 DEF CatalogStep

-----------------------------------------------------------------------------
\* The fields of the campaign form.
IsForm(f) ==
  f = [field \in {"open", "mode", "edited", "database", "schema", "tableMode", "selected",
                  "types", "filled", "error", "databases", "schemas", "tables", "ready",
                  "sent", "clicks"} |-> f[field]]

\* The schemas of the form are those of its database.
SchemasListed(f, c, known) ==
  f.schemas # Null => /\ f.database # ""
                      /\ \E v \in known : f.schemas = Schemas(c, v, f.database)

\* The tables of the form are those of its database and schema.
FormTablesListed(f, c, known) ==
  /\ f.tables # Null => f.database # "" /\ f.schema # ""
  /\ TablesListed(f, c, known)

\* The scope that the edited campaign had.
KeptScope(f) ==
  /\ f.mode = "edit" /\ f.edited # Null
  /\ f.edited.database = f.database /\ f.edited.schema = f.schema

\* The scope that the form has: what is chosen was listed, or belongs to the
\* campaign that is edited, and nothing is chosen below a level left open.
ScopeListed(f, c, known) ==
  /\ f.mode \in {"create", "edit", "extend"}
  /\ f.edited \in ScopesToEdit \cup {Null}
  /\ f.database = "" => f.schema = ""
  /\ f.schema = "" => f.selected = {}
  /\ f.mode # "extend" /\ f.schema # "" =>
       KeptScope(f) \/ \E v \in known : f.schema \in ToSet(Schemas(c, v, f.database))
  /\ f.mode # "extend" => \A t \in f.selected :
       \/ KeptScope(f) /\ t \in f.edited.tables
       \/ \E v \in known : t \in ToSet(Tables(c, v, f.database, f.schema))

\* The scopes of f and g are alike.
SameScope(f, g) ==
  /\ g.mode = f.mode /\ g.edited = f.edited /\ g.database = f.database
  /\ g.schema = f.schema /\ g.selected = f.selected

LEMMA SameScopeListed ==
  ASSUME NEW f, NEW g, NEW c, NEW known, SameScope(f, g), ScopeListed(f, c, known)
  PROVE  ScopeListed(g, c, known)
  BY DEF SameScope, ScopeListed, KeptScope

\* Answers change the lists alone.
LEMMA FormAnswers ==
  ASSUME NEW f, IsForm(f), NEW s, NEW t
  PROVE  LET g == WithLists(f, s, t)
         IN  /\ IsForm(g) /\ SameScope(f, g) /\ g.sent = f.sent
             /\ g.schemas = s /\ g.tables = t
  BY DEF IsForm, WithLists, SameScope

\* The queries of the form at a new key.
LEMMA FormAskedLists ==
  ASSUME NEW c, NEW f, IsForm(f), ScopeListed(f, c, Versions(c)),
         NEW sameDb \in BOOLEAN, NEW same \in BOOLEAN,
         sameDb => SchemasListed(f, c, Versions(c)),
         same => FormTablesListed(f, c, Versions(c)),
         NEW g \in FormAsked(c, f, sameDb, same)
  PROVE  /\ IsForm(g) /\ g.sent = f.sent
         /\ ScopeListed(g, c, Versions(c))
         /\ SchemasListed(g, c, Versions(c))
         /\ FormTablesListed(g, c, Versions(c))
<1>1. PICK s \in SchemasAtKey(c, f, f.schemas, sameDb), t \in TablesAtKey(c, f, f.tables, same) :
        g = WithLists(f, s, t)
  BY DEF FormAsked
<1>2. /\ IsForm(g) /\ SameScope(f, g) /\ g.sent = f.sent /\ g.schemas = s /\ g.tables = t
  BY <1>1, FormAnswers
<1>3. SchemasListed(g, c, Versions(c))
  <2>1. CASE sameDb
    BY <1>1, <1>2, <2>1 DEF SchemasAtKey, SchemasListed, SameScope
  <2>2. CASE ~sameDb
    BY <1>1, <1>2, <2>2 DEF SchemasAtKey, AtNewKey, SchemasListed, SameScope
  <2> QED
    BY <2>1, <2>2
<1>4. FormTablesListed(g, c, Versions(c))
  <2>1. CASE same
    BY <1>1, <1>2, <2>1 DEF TablesAtKey, FormTablesListed, TablesListed, SameScope
  <2>2. CASE ~same
    BY <1>1, <1>2, <2>2 DEF TablesAtKey, AtNewKey, FormTablesListed, TablesListed, SameScope
  <2> QED
    BY <2>1, <2>2
<1> QED
  BY <1>2, <1>3, <1>4, SameScopeListed

LEMMA FormRequeriedLists ==
  ASSUME NEW c, NEW old, NEW f, IsForm(f), ScopeListed(f, c, Versions(c)),
         f.database = old.database => SchemasListed(f, c, Versions(c)),
         f.database = old.database /\ f.schema = old.schema => FormTablesListed(f, c, Versions(c)),
         NEW g \in FormRequeried(c, old, f)
  PROVE  /\ IsForm(g) /\ g.sent = f.sent
         /\ ScopeListed(g, c, Versions(c))
         /\ SchemasListed(g, c, Versions(c))
         /\ FormTablesListed(g, c, Versions(c))
<1> DEFINE sameDb == f.database = old.database
           same == sameDb /\ f.schema = old.schema
<1>1. /\ sameDb \in BOOLEAN /\ same \in BOOLEAN
      /\ sameDb => SchemasListed(f, c, Versions(c))
      /\ same => FormTablesListed(f, c, Versions(c))
  OBVIOUS
<1>2. g \in FormAsked(c, f, sameDb, same)
  BY DEF FormRequeried
<1> HIDE DEF sameDb, same
<1> QED
  BY <1>1, <1>2, FormAskedLists

\* A form is emptied, then filled in with the campaign that is edited.
LEMMA BlankForm ==
  ASSUME NEW f, IsForm(f)
  PROVE  LET g == Blank(f)
         IN  /\ IsForm(g)
             /\ g.mode = f.mode /\ g.edited = f.edited
             /\ g.database = "" /\ g.schema = "" /\ g.selected = {}
             /\ g.schemas = f.schemas /\ g.tables = f.tables /\ g.sent = f.sent
  BY DEF IsForm, Blank, EmptyForm

LEMMA FilledForm ==
  ASSUME NEW f, IsForm(f), f.mode \in {"create", "edit", "extend"},
         f.edited \in ScopesToEdit \cup {Null}, NEW c, NEW known
  PROVE  LET g == FilledIn(f)
         IN  /\ IsForm(g) /\ ScopeListed(g, c, known)
             /\ g.schemas = f.schemas /\ g.tables = f.tables /\ g.sent = f.sent
<1> DEFINE b == Blank(f)
<1>1. /\ IsForm(b) /\ b.mode = f.mode /\ b.edited = f.edited
      /\ b.database = "" /\ b.schema = "" /\ b.selected = {}
      /\ b.schemas = f.schemas /\ b.tables = f.tables /\ b.sent = f.sent
  BY BlankForm
<1>2. CASE ~f.open
  BY <1>1, <1>2 DEF FilledIn, ScopeListed
<1> HIDE DEF b
<1>3. CASE f.open /\ (f.mode = "create" \/ f.edited = Null)
  <2> DEFINE g == FilledIn(f)
  <2>1. PICK x, y : g \in {[b EXCEPT !.database = x], [b EXCEPT !.filled = y, !.database = x]}
    BY <1>3 DEF FilledIn, b
  <2> HIDE DEF g
  <2>2. /\ IsForm(g) /\ g.mode = b.mode /\ g.edited = b.edited
        /\ g.schema = b.schema /\ g.selected = b.selected
        /\ g.schemas = b.schemas /\ g.tables = b.tables /\ g.sent = b.sent
    BY <1>1, <2>1 DEF IsForm
  <2>3. ScopeListed(g, c, known)
    BY <1>1, <2>2 DEF ScopeListed
  <2> QED
    BY <1>1, <2>2, <2>3 DEF g
<1>4. CASE f.open /\ f.mode # "create" /\ f.edited # Null
  <2> DEFINE g == FilledIn(f)
  <2>1. g = [b EXCEPT !.filled = TRUE, !.database = f.edited.database, !.schema = f.edited.schema,
                      !.selected = f.edited.tables,
                      !.tableMode = IF f.edited.tables = {} THEN "all" ELSE "specific"]
    BY <1>4 DEF FilledIn, b
  <2> HIDE DEF g
  <2>2. /\ IsForm(g) /\ g.mode = b.mode /\ g.edited = b.edited
        /\ g.database = f.edited.database /\ g.schema = f.edited.schema
        /\ g.selected = f.edited.tables
        /\ g.schemas = b.schemas /\ g.tables = b.tables /\ g.sent = b.sent
    BY <1>1, <2>1 DEF IsForm
  <2>3. f.edited.database # "" /\ f.edited.schema # ""
    BY <1>4, ScopesAssumption
  <2>4. ScopeListed(g, c, known)
    BY <1>1, <1>4, <2>2, <2>3 DEF ScopeListed, KeptScope
  <2> QED
    BY <1>1, <2>2, <2>4 DEF g
<1> QED
  BY <1>2, <1>3, <1>4

\* ScopesAreListed, of a request r.
SentListed(r) ==
  r.scope # Null =>
    LET Kept == /\ r.mode = "edit" /\ r.edited # Null
                /\ r.edited.database = r.scope.database /\ r.edited.schema = r.scope.schema
    IN  /\ r.cluster \in DOMAIN Contents
        /\ \/ Kept
           \/ \E v \in Versions(r.cluster) :
                r.scope.schema \in ToSet(Schemas(r.cluster, v, r.scope.database))
        /\ \A t \in r.scope.tables :
             \/ \E v \in Versions(r.cluster) :
                  t \in ToSet(Tables(r.cluster, v, r.scope.database, r.scope.schema))
             \/ Kept /\ t \in r.edited.tables
        /\ r.scope.mode = "specific" => r.scope.tables # {}

\* The scope and the lists of the form fit, and so did the one that was sent.
FormInv ==
  /\ IsForm(form)
  /\ ScopeListed(form, store.cluster, Versions(store.cluster))
  /\ SchemasListed(form, store.cluster, Versions(store.cluster))
  /\ FormTablesListed(form, store.cluster, Versions(store.cluster))
  /\ SentListed(form.sent)

\* A change of the form, with the queries that follow it.
LEMMA FormBecomesKeeps ==
  ASSUME NEW f, IsForm(f), ScopeListed(f, store.cluster, Versions(store.cluster)),
         f.database = form.database => SchemasListed(f, store.cluster, Versions(store.cluster)),
         f.database = form.database /\ f.schema = form.schema =>
           FormTablesListed(f, store.cluster, Versions(store.cluster)),
         SentListed(f.sent), FormBecomes(f), FormSame
  PROVE  FormInv'
<1> DEFINE c == store.cluster
<1>1. /\ IsForm(form') /\ form'.sent = f.sent
      /\ ScopeListed(form', c, Versions(c))
      /\ SchemasListed(form', c, Versions(c))
      /\ FormTablesListed(form', c, Versions(c))
  BY FormRequeriedLists DEF FormBecomes
<1>2. Versions(c)' = Versions(c) /\ store' = store
  BY DEF FormSame, Versions
<1>3. SentListed(form.sent)'
  <2>1. \A r : SentListed(r)' = SentListed(r)
    BY DEF FormSame, SentListed, Versions
  <2> QED
    BY <1>1, <2>1 DEF SentListed, Versions, FormSame
<1> QED
  BY <1>1, <1>2, <1>3 DEF FormInv

\* The lists stay those of the form.
SameLists(f, g) == g.schemas = f.schemas /\ g.tables = f.tables

LEMMA FormChangeKeeps ==
  ASSUME FormInv, NEW f, IsForm(f), ScopeListed(f, store.cluster, Versions(store.cluster)),
         SameLists(form, f), SentListed(f.sent), FormBecomes(f), FormSame
  PROVE  FormInv'
<1> DEFINE c == store.cluster
<1>1. f.database = form.database => SchemasListed(f, c, Versions(c))
  BY DEF FormInv, SchemasListed, SameLists
<1>2. f.database = form.database /\ f.schema = form.schema => FormTablesListed(f, c, Versions(c))
  BY DEF FormInv, FormTablesListed, TablesListed, SameLists
<1> QED
  BY <1>1, <1>2, FormBecomesKeeps

LEMMA FormClickKeeps ==
  ASSUME FormInv, NEW f, IsForm(f), ScopeListed(f, store.cluster, Versions(store.cluster)),
         SameLists(form, f), SentListed(f.sent), FormClick(f)
  PROVE  FormInv'
<1> DEFINE g == [f EXCEPT !.clicks = @ + 1]
<1>1. IsForm(g) /\ SameScope(f, g) /\ SameLists(f, g) /\ g.sent = f.sent
  BY DEF IsForm, SameScope, SameLists
<1>2. FormBecomes(g) /\ FormSame
  BY DEF FormClick
<1> HIDE DEF g
<1>3. ScopeListed(g, store.cluster, Versions(store.cluster)) /\ SameLists(form, g)
  BY <1>1, SameScopeListed DEF SameLists
<1> QED
  BY <1>1, <1>2, <1>3, FormChangeKeeps

\* The first schema, which the effects choose, was listed.
LEMMA FirstSchemaIsListed ==
  ASSUME VersionInv, FormInv, HasItems(form.schemas),
         store.cluster \in DOMAIN Contents \cup {Null}
  PROVE  /\ form.database # ""
         /\ \E v \in Versions(store.cluster) :
              form.schemas[1] \in ToSet(Schemas(store.cluster, v, form.database))
<1>1. form.database # ""
  BY DEF FormInv, SchemasListed, HasItems
<1>2. PICK v \in Versions(store.cluster) : form.schemas = Schemas(store.cluster, v, form.database)
  BY DEF FormInv, SchemasListed, HasItems
<1>3. store.cluster \in DOMAIN Contents
  BY <1>2 DEF Versions
<1>4. form.schemas \in Seq(STRING)
  BY <1>2, <1>3, TablesAreSequences
<1> QED
  BY <1>1, <1>2, <1>4, FirstIsListed DEF HasItems

LEMMA FormEffectsKeep ==
  ASSUME VersionInv, FormInv, FormEffects, store.cluster \in DOMAIN Contents \cup {Null}
  PROVE  FormInv'
<1> DEFINE f == FirstChosen(form)
<1>1. /\ IsForm(f) /\ SameLists(form, f) /\ f.sent = form.sent
      /\ f.mode = form.mode /\ f.edited = form.edited /\ f.selected = form.selected
      /\ f.database = (IF form.database = "" THEN FirstOrNone(form.databases) ELSE form.database)
      /\ f.schema = (IF form.schema = "" THEN FirstOrNone(form.schemas) ELSE form.schema)
  BY DEF FormInv, IsForm, FirstChosen, SameLists
<1>2. FormBecomes(f) /\ FormSame
  BY DEF FormEffects
<1> HIDE DEF f
<1>3. ScopeListed(f, store.cluster, Versions(store.cluster))
  <2>1. CASE form.schema # ""
    BY <1>1, <2>1 DEF FormInv, ScopeListed, KeptScope
  <2>2. CASE form.schema = "" /\ HasItems(form.schemas)
    BY <1>1, <2>2, FirstSchemaIsListed DEF FormInv, ScopeListed, KeptScope, FirstOrNone
  <2>3. CASE form.schema = "" /\ ~HasItems(form.schemas)
    BY <1>1, <2>3 DEF FormInv, ScopeListed, KeptScope, FirstOrNone
  <2> QED
    BY <2>1, <2>2, <2>3
<1> QED
  BY <1>1, <1>2, <1>3, FormChangeKeeps DEF FormInv

LEMMA FormFetchKeeps ==
  ASSUME VersionInv, FormInv, store.cluster \in DOMAIN Contents \cup {Null},
         FetchFormDatabases \/ FetchFormSchemas \/ FetchFormTables \/ FetchReadiness
  PROVE  FormInv'
<1> DEFINE c == store.cluster
           newest == version[c]
<1>1. c # Null => newest \in Versions(c)
  BY ContentsAssumption DEF VersionInv, Versions
<1>2. CASE FetchFormDatabases
  <2>1. PICK d : FormAnswer(FilledIn([form EXCEPT !.databases = d]))
    BY <1>2 DEF FetchFormDatabases
  <2> DEFINE e == [form EXCEPT !.databases = d]
             f == FilledIn(e)
  <2>2. /\ IsForm(e) /\ SameLists(form, e) /\ e.sent = form.sent
        /\ e.mode = form.mode /\ e.edited = form.edited
    BY DEF FormInv, IsForm, SameLists
  <2>3. FormBecomes(f) /\ FormSame
    BY <2>1 DEF FormAnswer
  <2> HIDE DEF e
  <2>4. /\ IsForm(f) /\ ScopeListed(f, c, Versions(c))
        /\ SameLists(form, f) /\ f.sent = form.sent
    BY <2>2, FilledForm DEF FormInv, ScopeListed, SameLists
  <2> HIDE DEF f
  <2> QED
    BY <2>3, <2>4, FormChangeKeeps DEF FormInv
<1>3. CASE FetchFormSchemas
  <2> DEFINE f == [form EXCEPT !.schemas = Schemas(c, newest, form.database)]
  <2>1. FormBecomes(f) /\ FormSame /\ c # Null /\ form.database # ""
    BY <1>3 DEF FetchFormSchemas, FormAnswer, Newest
  <2>2. /\ IsForm(f) /\ SameScope(form, f) /\ f.sent = form.sent /\ f.tables = form.tables
        /\ f.schemas = Schemas(c, newest, form.database)
    BY DEF FormInv, IsForm, SameScope
  <2> HIDE DEF f
  <2>3. ScopeListed(f, c, Versions(c))
    BY <2>2, SameScopeListed DEF FormInv
  <2>4. SchemasListed(f, c, Versions(c))
    BY <1>1, <2>1, <2>2 DEF SchemasListed, SameScope
  <2>5. FormTablesListed(f, c, Versions(c))
    BY <2>2 DEF FormInv, FormTablesListed, TablesListed, SameScope
  <2> QED
    BY <2>1, <2>2, <2>3, <2>4, <2>5, FormBecomesKeeps DEF FormInv
<1>4. CASE FetchFormTables
  <2> DEFINE f == [form EXCEPT !.tables = Tables(c, newest, form.database, form.schema)]
  <2>1. FormBecomes(f) /\ FormSame /\ c # Null /\ form.database # "" /\ form.schema # ""
    BY <1>4 DEF FetchFormTables, FormAnswer, Newest
  <2>2. /\ IsForm(f) /\ SameScope(form, f) /\ f.sent = form.sent /\ f.schemas = form.schemas
        /\ f.tables = Tables(c, newest, form.database, form.schema)
    BY DEF FormInv, IsForm, SameScope
  <2> HIDE DEF f
  <2>3. ScopeListed(f, c, Versions(c))
    BY <2>2, SameScopeListed DEF FormInv
  <2>4. SchemasListed(f, c, Versions(c))
    BY <2>2 DEF FormInv, SchemasListed, SameScope
  <2>5. FormTablesListed(f, c, Versions(c))
    BY <1>1, <2>1, <2>2 DEF FormTablesListed, TablesListed, SameScope
  <2> QED
    BY <2>1, <2>2, <2>3, <2>4, <2>5, FormBecomesKeeps DEF FormInv
<1>5. CASE FetchReadiness
  <2>1. PICK ready : FormAnswer([form EXCEPT !.ready = ready])
    BY <1>5 DEF FetchReadiness
  <2> DEFINE f == [form EXCEPT !.ready = ready]
  <2>2. /\ IsForm(f) /\ SameScope(form, f) /\ SameLists(form, f) /\ f.sent = form.sent
    BY DEF FormInv, IsForm, SameScope, SameLists
  <2>3. FormBecomes(f) /\ FormSame
    BY <2>1 DEF FormAnswer
  <2> HIDE DEF f
  <2> QED
    BY <2>2, <2>3, SameScopeListed, FormChangeKeeps DEF FormInv
<1> QED
  BY <1>2, <1>3, <1>4, <1>5

\* What the DBA says of the scope.
LEMMA FormScopeKeeps ==
  ASSUME FormInv, SelectFormDatabase \/ SelectFormSchema \/ ToggleTable
  PROVE  FormInv'
<1> DEFINE c == store.cluster
<1>1. CASE SelectFormDatabase
  <2>1. PICK db : FormClick(PickDatabase(form, db))
    BY <1>1 DEF SelectFormDatabase
  <2> DEFINE f == PickDatabase(form, db)
  <2>2. /\ IsForm(f) /\ SameLists(form, f) /\ f.sent = form.sent
        /\ f.mode = form.mode /\ f.edited = form.edited /\ f.schema = "" /\ f.selected = {}
    BY DEF FormInv, IsForm, SameLists, PickDatabase
  <2> HIDE DEF f
  <2>3. ScopeListed(f, c, Versions(c))
    BY <2>2 DEF FormInv, ScopeListed
  <2> QED
    BY <2>1, <2>2, <2>3, FormClickKeeps DEF FormInv, f
<1>2. CASE SelectFormSchema
  <2>1. PICK s \in ToSet(form.schemas) :
          form.schemas # Null /\ FormClick([form EXCEPT !.schema = s, !.selected = {}])
    BY <1>2 DEF SelectFormSchema
  <2> DEFINE f == [form EXCEPT !.schema = s, !.selected = {}]
  <2>2. /\ IsForm(f) /\ SameLists(form, f) /\ f.sent = form.sent
        /\ f.mode = form.mode /\ f.edited = form.edited /\ f.database = form.database
        /\ f.schema = s /\ f.selected = {}
    BY DEF FormInv, IsForm, SameLists
  <2>3. FormClick(f)
    BY <2>1
  <2> HIDE DEF f
  <2>4. form.database # "" /\ \E v \in Versions(c) : form.schemas = Schemas(c, v, form.database)
    BY <2>1 DEF FormInv, SchemasListed
  <2>5. ScopeListed(f, c, Versions(c))
    BY <2>1, <2>2, <2>4 DEF FormInv, ScopeListed
  <2> QED
    BY <2>2, <2>3, <2>5, FormClickKeeps DEF FormInv
<1>3. CASE ToggleTable
  <2>1. PICK t \in ToSet(form.tables) :
          form.tables # Null /\ FormClick([form EXCEPT !.selected = Toggled(@, t)])
    BY <1>3 DEF ToggleTable
  <2> DEFINE f == [form EXCEPT !.selected = Toggled(@, t)]
  <2>2. /\ IsForm(f) /\ SameLists(form, f) /\ f.sent = form.sent
        /\ f.mode = form.mode /\ f.edited = form.edited /\ f.database = form.database
        /\ f.schema = form.schema /\ f.selected = Toggled(form.selected, t)
    BY DEF FormInv, IsForm, SameLists
  <2>3. FormClick(f)
    BY <2>1
  <2> HIDE DEF f
  <2>4. /\ form.schema # ""
        /\ \E v \in Versions(c) : form.tables = Tables(c, v, form.database, form.schema)
    BY <2>1 DEF FormInv, FormTablesListed, TablesListed
  <2>5. f.selected \subseteq form.selected \cup {t}
    BY <2>2 DEF Toggled
  <2>6. ScopeListed(f, c, Versions(c))
    BY <2>1, <2>2, <2>4, <2>5 DEF FormInv, ScopeListed, KeptScope
  <2> QED
    BY <2>2, <2>3, <2>6, FormClickKeeps DEF FormInv
<1> QED
  BY <1>1, <1>2, <1>3

\* What the DBA says of the rest.
LEMMA FormRestKeeps ==
  ASSUME FormInv, SelectTableMode \/ ToggleType \/ FillIn PROVE FormInv'
<1>1. PICK x : \/ FormClick([form EXCEPT !.tableMode = x]) \/ FormClick([form EXCEPT !.types = x])
               \/ FormClick([form EXCEPT !.filled = x])
  BY DEF SelectTableMode, ToggleType, FillIn
<1>2. PICK f \in {[form EXCEPT !.tableMode = x], [form EXCEPT !.types = x],
                 [form EXCEPT !.filled = x]} : FormClick(f)
  BY <1>1
<1>3. IsForm(f) /\ SameScope(form, f) /\ SameLists(form, f) /\ f.sent = form.sent
  BY <1>2 DEF FormInv, IsForm, SameScope, SameLists
<1> QED
  BY <1>2, <1>3, SameScopeListed, FormClickKeeps DEF FormInv

\* A form that is filled in anew.
LEMMA FilledKeeps ==
  ASSUME FormInv, NEW e, IsForm(e), SameLists(form, e), SentListed(e.sent),
         e.mode \in {"create", "edit", "extend"}, e.edited \in ScopesToEdit \cup {Null}
  PROVE  /\ FormClick(FilledIn(e)) => FormInv'
         /\ FormBecomes(FilledIn(e)) /\ FormSame => FormInv'
<1> DEFINE f == FilledIn(e)
<1>1. /\ IsForm(f) /\ ScopeListed(f, store.cluster, Versions(store.cluster))
      /\ SameLists(form, f) /\ f.sent = e.sent
  BY FilledForm DEF SameLists
<1> HIDE DEF f
<1>2. FormClick(f) => FormInv'
  BY <1>1, FormClickKeeps
<1>3. FormBecomes(f) /\ FormSame => FormInv'
  BY <1>1, FormChangeKeeps
<1> QED
  BY <1>2, <1>3 DEF f

LEMMA FormOpensKeeps ==
  ASSUME FormInv, OpenForm \/ CloseForm \/ FormAnswered
  PROVE  FormInv'
<1>1. CASE OpenForm
  <2>1. PICK mode \in {"create", "edit", "extend"}, scope \in ScopesToEdit \cup {Null} :
          FormClick(FilledIn([form EXCEPT !.open = TRUE, !.mode = mode, !.edited = scope]))
    BY <1>1 DEF OpenForm
  <2> DEFINE e == [form EXCEPT !.open = TRUE, !.mode = mode, !.edited = scope]
  <2>2. /\ IsForm(e) /\ SameLists(form, e) /\ e.sent = form.sent
        /\ e.mode = mode /\ e.edited = scope
    BY DEF FormInv, IsForm, SameLists
  <2>3. FormClick(FilledIn(e))
    BY <2>1
  <2> HIDE DEF e
  <2>4. SentListed(e.sent)
    BY <2>2 DEF FormInv
  <2> QED
    BY <2>2, <2>3, <2>4, FilledKeeps
<1>2. CASE CloseForm
  <2> DEFINE e == [form EXCEPT !.open = FALSE]
  <2>1. /\ IsForm(e) /\ SameLists(form, e) /\ e.sent = form.sent
        /\ e.mode = form.mode /\ e.edited = form.edited
    BY DEF FormInv, IsForm, SameLists
  <2>2. FormClick(FilledIn(e))
    BY <1>2 DEF CloseForm
  <2> HIDE DEF e
  <2>3. /\ SentListed(e.sent)
        /\ e.mode \in {"create", "edit", "extend"} /\ e.edited \in ScopesToEdit \cup {Null}
    BY <2>1 DEF FormInv, ScopeListed
  <2> QED
    BY <2>1, <2>2, <2>3, FilledKeeps
<1>3. SentListed(NoSent)
  BY DEF SentListed, NoSent
<1>4. CASE FormBecomes([form EXCEPT !.sent = NoSent]) /\ FormSame
  <2> DEFINE f == [form EXCEPT !.sent = NoSent]
  <2>1. IsForm(f) /\ SameScope(form, f) /\ SameLists(form, f) /\ f.sent = NoSent
    BY DEF FormInv, IsForm, SameScope, SameLists
  <2>2. FormBecomes(f) /\ FormSame
    BY <1>4
  <2> HIDE DEF f
  <2> QED
    BY <1>3, <2>1, <2>2, SameScopeListed, FormChangeKeeps DEF FormInv
<1>5. CASE FormBecomes(FilledIn([form EXCEPT !.open = FALSE, !.sent = NoSent])) /\ FormSame
  <2> DEFINE e == [form EXCEPT !.open = FALSE, !.sent = NoSent]
  <2>1. /\ IsForm(e) /\ SameLists(form, e) /\ e.sent = NoSent
        /\ e.mode = form.mode /\ e.edited = form.edited
    BY DEF FormInv, IsForm, SameLists
  <2>2. FormBecomes(FilledIn(e)) /\ FormSame
    BY <1>5
  <2> HIDE DEF e
  <2> QED
    BY <1>3, <2>1, <2>2, FilledKeeps DEF FormInv, ScopeListed
<1> QED
  BY <1>1, <1>2, <1>4, <1>5 DEF FormAnswered

\* What is sent is what the form says when it may be submitted.
LEMMA SentIsListed ==
  ASSUME FormInv, MaySubmit, store.cluster \in DOMAIN Contents \cup {Null}
  PROVE  SentListed([ cluster |-> store.cluster, mode |-> form.mode,
                      scope |-> SentScope, edited |-> form.edited ])
<1> DEFINE c == store.cluster
           r == [cluster |-> c, mode |-> form.mode, scope |-> SentScope, edited |-> form.edited]
<1>1. CASE form.mode = "extend"
  BY <1>1 DEF SentListed, SentScope
<1>2. CASE form.mode # "extend"
  <2>1. /\ c \in DOMAIN Contents /\ form.schema # ""
        /\ form.tableMode = "specific" => form.selected # {}
    BY <1>2 DEF MaySubmit
  <2> DEFINE scope == [ database |-> form.database, schema |-> form.schema,
                        mode |-> form.tableMode,
                        tables |-> IF form.tableMode = "specific" THEN form.selected ELSE {} ]
  <2>2. SentScope = scope
    BY <1>2 DEF SentScope
  <2>3. scope.tables \subseteq form.selected /\ (scope.mode = "specific" => scope.tables # {})
    BY <2>1
  <2>4. KeptScope(form) \/ \E v \in Versions(c) : form.schema \in ToSet(Schemas(c, v, form.database))
    BY <1>2, <2>1 DEF FormInv, ScopeListed
  <2>5. \A t \in scope.tables :
          \/ KeptScope(form) /\ t \in form.edited.tables
          \/ \E v \in Versions(c) : t \in ToSet(Tables(c, v, form.database, form.schema))
    BY <1>2, <2>3 DEF FormInv, ScopeListed
  <2> QED
    BY <2>1, <2>2, <2>3, <2>4, <2>5 DEF SentListed, KeptScope
<1> QED
  BY <1>1, <1>2

LEMMA SubmitKeeps ==
  ASSUME FormInv, SubmitForm, store.cluster \in DOMAIN Contents \cup {Null}
  PROVE  FormInv'
<1>1. CASE MaySubmit
  <2> DEFINE r == [ cluster |-> store.cluster, mode |-> form.mode,
                    scope |-> SentScope, edited |-> form.edited ]
             f == [form EXCEPT !.error = FALSE, !.sent = r]
  <2>1. IsForm(f) /\ SameScope(form, f) /\ SameLists(form, f) /\ f.sent = r
    BY DEF FormInv, IsForm, SameScope, SameLists
  <2>2. FormClick(f)
    BY <1>1 DEF SubmitForm
  <2>3. SentListed(r)
    BY <1>1, SentIsListed
  <2> HIDE DEF f, r
  <2> QED
    BY <2>1, <2>2, <2>3, SameScopeListed, FormClickKeeps DEF FormInv
<1>2. CASE ~MaySubmit
  <2> DEFINE f == [form EXCEPT !.error = TRUE]
  <2>1. IsForm(f) /\ SameScope(form, f) /\ SameLists(form, f) /\ f.sent = form.sent
    BY DEF FormInv, IsForm, SameScope, SameLists
  <2>2. FormClick(f)
    BY <1>2 DEF SubmitForm
  <2> HIDE DEF f
  <2> QED
    BY <2>1, <2>2, SameScopeListed, FormClickKeeps DEF FormInv
<1> QED
  BY <1>1, <1>2

LEMMA FormKeeps ==
  ASSUME VersionInv, FormInv, FormStep, store.cluster \in DOMAIN Contents \cup {Null}
  PROVE  FormInv'
<1>1. CASE FormUser
  BY <1>1, FormScopeKeeps, FormRestKeeps, FormOpensKeeps, SubmitKeeps DEF FormUser
<1> QED
  BY <1>1, FormEffectsKeep, FormFetchKeeps, FormOpensKeeps DEF FormStep

-----------------------------------------------------------------------------
\* The cluster that is selected becomes another: c.

LEMMA UnderClusterLists ==
  ASSUME CatalogInv, NEW c, NEW p \in UnderCluster(c)
  PROVE  IsPage(p) /\ p.command = catalog.command /\ TablesListed(p, c, Versions(c))
<1>1. PICK m \in Mounted(c) :
        p \in Requeried(c, catalog, [catalog EXCEPT !.databases = m.databases, !.config = m.config], TRUE)
  BY DEF UnderCluster
<1> DEFINE new == [catalog EXCEPT !.databases = m.databases, !.config = m.config]
<1>2. IsPage(new) /\ new.command = catalog.command
  BY DEF CatalogInv, IsPage
<1>3. p \in Requeried(c, catalog, new, TRUE)
  BY <1>1
<1> HIDE DEF new
<1>4. \A q \in Requeried(c, catalog, new, TRUE) :
        IsPage(q) /\ q.command = new.command /\ TablesListed(q, c, Versions(c))
  BY <1>2, RequeriedMoved, Zenon
<1> QED
  BY <1>2, <1>3, <1>4

LEMMA FormUnderClusterLists ==
  ASSUME FormInv, NEW c, NEW g \in FormUnderCluster(c)
  PROVE  /\ IsForm(g) /\ g.sent = form.sent
         /\ ScopeListed(g, c, Versions(c))
         /\ SchemasListed(g, c, Versions(c))
         /\ FormTablesListed(g, c, Versions(c))
<1>1. PICK d : g \in FormAsked(c, FilledIn([form EXCEPT !.databases = d]), FALSE, FALSE)
  BY DEF FormUnderCluster
<1> DEFINE e == [form EXCEPT !.databases = d]
           f == FilledIn(e)
           same == FALSE
<1>2. IsForm(e) /\ e.mode = form.mode /\ e.edited = form.edited /\ e.sent = form.sent
  BY DEF FormInv, IsForm
<1>3. g \in FormAsked(c, f, same, same) /\ same \in BOOLEAN /\ ~same
  BY <1>1
<1> HIDE DEF e
<1>4. IsForm(f) /\ ScopeListed(f, c, Versions(c)) /\ f.sent = form.sent
  BY <1>2, FilledForm DEF FormInv, ScopeListed
<1> HIDE DEF f, same
<1> QED
  BY <1>3, <1>4, FormAskedLists

-----------------------------------------------------------------------------
\* A content of a cluster is followed by another.

LEMMA CatalogKeepsOnChange ==
  ASSUME VersionInv, CatalogInv, store.cluster \in DOMAIN Contents \cup {Null},
         NEW c \in DOMAIN Contents, ContentChanges(c)
  PROVE  CatalogInv'
<1>1. store' = store /\ catalog' = catalog
  BY DEF ContentChanges
<1>2. \A d \in DOMAIN Contents \cup {Null} : Versions(d) \subseteq Versions(d)'
  BY VersionsGrow
<1>3. CommandListed(catalog.command)'
  BY <1>1, <1>2 DEF CatalogInv, CommandListed
<1> QED
  BY <1>1, <1>2, <1>3 DEF CatalogInv, TablesListed

LEMMA FormKeepsOnChange ==
  ASSUME VersionInv, FormInv, store.cluster \in DOMAIN Contents \cup {Null},
         NEW c \in DOMAIN Contents, ContentChanges(c), UNCHANGED form
  PROVE  FormInv'
<1> DEFINE d == store.cluster
<1>1. store' = store
  BY DEF ContentChanges
<1>2. \A x \in DOMAIN Contents \cup {Null} : Versions(x) \subseteq Versions(x)'
  BY VersionsGrow
<1>3. Versions(d) \subseteq Versions(d)'
  BY <1>1, <1>2 DEF Versions
<1>4. \A known : Versions(d) \subseteq known =>
        /\ ScopeListed(form, d, known)
        /\ SchemasListed(form, d, known)
        /\ FormTablesListed(form, d, known)
  BY DEF FormInv, ScopeListed, SchemasListed, FormTablesListed, TablesListed
<1>5. SentListed(form.sent)'
  BY <1>2 DEF FormInv, SentListed
<1> QED
  BY <1>1, <1>3, <1>4, <1>5 DEF FormInv

-----------------------------------------------------------------------------
\* The inductive invariant: the page that is mounted has the lists of its keys,
\* and the two others are as they were mounted.
RequestsInv ==
  /\ StoreInv
  /\ VersionInv
  /\ IF route = "catalog" THEN CatalogInv ELSE catalog = NoCatalog
  /\ IF route = "form" THEN FormInv ELSE form = EmptyForm

\* A page that is mounted has lists for every cluster: none.
LEMMA MountedPage ==
  ASSUME NEW c, NEW m \in Mounted(c), NEW n, NEW p \in {m, [m EXCEPT !.clicks = n]}
  PROVE  \A known : \A d : /\ IsPage(p) /\ TablesListed(p, d, known)
                           /\ CommandListed(p.command)
<1>1. IsPage(m) /\ m.tables = Null /\ m.command = Null
  BY MountedLists
<1>2. IsPage(p) /\ p.tables = Null /\ p.command = Null
  BY <1>1 DEF IsPage
<1> QED
  BY <1>2 DEF TablesListed, CommandListed

LEMMA InitRequests == Init => RequestsInv
<1> SUFFICES ASSUME Init PROVE RequestsInv
  OBVIOUS
<1>1. StoreInv
  BY InitStore
<1>2. VersionInv
  BY ContentsAssumption DEF Init, VersionInv
<1>3. CASE route = "catalog"
  <2>1. catalog \in Mounted(store.cluster) /\ form = EmptyForm
    BY <1>3 DEF Init
  <2> QED
    BY <1>1, <1>2, <1>3, <2>1, MountedPage DEF RequestsInv, CatalogInv
<1>4. CASE route # "catalog"
  <2>1. catalog = NoCatalog /\ form = EmptyForm
    BY <1>4 DEF Init
  <2>2. /\ IsForm(EmptyForm) /\ EmptyForm.mode = "create" /\ EmptyForm.edited = Null
        /\ EmptyForm.database = "" /\ EmptyForm.schema = "" /\ EmptyForm.selected = {}
        /\ EmptyForm.schemas = Null /\ EmptyForm.tables = Null /\ EmptyForm.sent = NoSent
    BY DEF IsForm, EmptyForm
  <2>3. SentListed(NoSent)
    BY DEF SentListed, NoSent
  <2>4. \A c, known : /\ ScopeListed(EmptyForm, c, known)
                      /\ SchemasListed(EmptyForm, c, known)
                      /\ FormTablesListed(EmptyForm, c, known)
    BY <2>2 DEF ScopeListed, SchemasListed, FormTablesListed, TablesListed
  <2>5. FormInv
    BY <2>1, <2>2, <2>3, <2>4 DEF FormInv
  <2> QED
    BY <1>1, <1>2, <1>4, <2>1, <2>5 DEF RequestsInv
<1> QED
  BY <1>3, <1>4

LEMMA RequestsInvListed == RequestsInv => RequestsAreListed
<1> SUFFICES ASSUME RequestsInv PROVE RequestsAreListed
  OBVIOUS
<1>1. CommandListed(catalog.command)
  <2>1. NoCatalog.command = Null
    BY DEF NoCatalog
  <2>2. CASE route = "catalog"
    BY <2>2 DEF RequestsInv, CatalogInv
  <2>3. CASE route # "catalog"
    BY <2>1, <2>3 DEF RequestsInv, CommandListed
  <2> QED
    BY <2>2, <2>3
<1>2. SentListed(form.sent)
  <2>1. EmptyForm.sent = NoSent /\ NoSent.scope = Null
    BY DEF EmptyForm, NoSent
  <2>2. CASE route = "form"
    BY <2>2 DEF RequestsInv, FormInv
  <2>3. CASE route # "form"
    BY <2>1, <2>3 DEF RequestsInv, SentListed
  <2> QED
    BY <2>2, <2>3
<1>3. CommandsAreListed
  BY <1>1 DEF CommandListed, CommandsAreListed
<1>4. ScopesAreListed
  BY <1>2 DEF SentListed, ScopesAreListed
<1> QED
  BY <1>3, <1>4 DEF RequestsAreListed

\* The selection of another cluster, under each page.
LEMMA ClusterBecomesKeeps ==
  ASSUME RequestsInv, StoreInv', NEW s, NEW used, ClusterBecomes(s, used),
         route \notin {"charts", "preview"}
  PROVE  RequestsInv'
<1> DEFINE c == s.cluster
<1>1. /\ store' = s /\ route' = route /\ version' = version
      /\ route \in {"catalog", "form", "campaign", "dashboard"}
  BY DEF ClusterBecomes, RequestsInv, StoreInv
<1>2. VersionInv' /\ Versions(store.cluster)' = Versions(c)
  BY <1>1 DEF RequestsInv, VersionInv, Versions
<1>3. \A k : CommandListed(k)' = CommandListed(k)
  BY <1>1 DEF CommandListed, Versions
<1>4. \A r : SentListed(r)' = SentListed(r)
  BY <1>1 DEF SentListed, Versions
<1>5. CASE route = "catalog"
  <2>1. CatalogInv /\ form = EmptyForm
    BY <1>5 DEF RequestsInv
  <2>2. form' = form
    BY <1>5 DEF ClusterBecomes
  <2>3. PICK p \in UnderCluster(c) : catalog' = [p EXCEPT !.clicks = @ + used]
    BY <1>5 DEF ClusterBecomes
  <2>4. IsPage(p) /\ p.command = catalog.command /\ TablesListed(p, c, Versions(c))
    BY <2>1, UnderClusterLists
  <2>5. /\ IsPage(catalog') /\ catalog'.command = p.command /\ catalog'.tables = p.tables
        /\ catalog'.database = p.database /\ catalog'.schema = p.schema
    BY <2>3, <2>4 DEF IsPage
  <2>6. TablesListed(catalog', c, Versions(c))
    BY <2>4, <2>5 DEF TablesListed
  <2>7. CommandListed(catalog'.command)
    BY <2>1, <2>4, <2>5 DEF CatalogInv
  <2>8. CatalogInv'
    BY <1>1, <1>2, <1>3, <2>5, <2>6, <2>7 DEF CatalogInv
  <2> QED
    BY <1>1, <1>2, <1>5, <2>1, <2>2, <2>8 DEF RequestsInv
<1>6. CASE route = "form"
  <2>1. FormInv /\ catalog = NoCatalog
    BY <1>6 DEF RequestsInv
  <2>2. catalog' = catalog /\ form' \in FormUnderCluster(c)
    BY <1>6 DEF ClusterBecomes
  <2>3. /\ IsForm(form') /\ form'.sent = form.sent
        /\ ScopeListed(form', c, Versions(c))
        /\ SchemasListed(form', c, Versions(c))
        /\ FormTablesListed(form', c, Versions(c))
    BY <2>1, <2>2, FormUnderClusterLists
  <2>4. SentListed(form'.sent)
    BY <2>1, <2>3 DEF FormInv
  <2>5. FormInv'
    BY <1>1, <1>2, <1>4, <2>3, <2>4 DEF FormInv
  <2> QED
    BY <1>1, <1>2, <1>6, <2>1, <2>2, <2>5 DEF RequestsInv
<1>7. CASE route \in {"campaign", "dashboard"}
  <2>1. catalog' = catalog /\ form' = form
    BY <1>7 DEF ClusterBecomes
  <2> QED
    BY <1>1, <1>2, <1>7, <2>1 DEF RequestsInv
<1> QED
  BY <1>1, <1>5, <1>6, <1>7

\* Steps of the pages that have neither a catalog nor a form.
LEMMA ElsewhereKeeps ==
  ASSUME RequestsInv, StoreInv', UNCHANGED <<route, version, catalog, form>>,
         route \in {"catalog", "form"} => store' = store
  PROVE  RequestsInv'
<1>1. VersionInv'
  BY DEF RequestsInv, VersionInv
<1>2. CASE route = "catalog"
  BY <1>1, <1>2 DEF RequestsInv, CatalogInv, Versions, CommandListed
<1>3. CASE route = "form"
  BY <1>1, <1>3 DEF RequestsInv, FormInv, Versions, SentListed
<1>4. CASE route \notin {"catalog", "form"}
  BY <1>1, <1>4 DEF RequestsInv
<1> QED
  BY <1>2, <1>3, <1>4

LEMMA RequestsStep ==
  ASSUME RequestsInv, [Next]_consoleVars PROVE RequestsInv'
<1> DEFINE c == store.cluster
<1>1. StoreInv'
  BY StoreStep DEF RequestsInv
<1>2. route \in {"catalog", "form"} => c \in DOMAIN Contents \cup {Null}
  BY DEF RequestsInv, StoreInv
<1>3. CASE ChartsPage \/ PreviewPage
  BY <1>1, <1>3, ElsewhereKeeps DEF ChartsPage, PreviewPage, catalogPart
<1>4. CASE OnCatalog(CatalogStep)
  <2>1. /\ route = "catalog" /\ route' = "catalog" /\ form' = form /\ CatalogStep
        /\ CatalogInv /\ VersionInv /\ StoreInv /\ form = EmptyForm
    BY <1>4 DEF OnCatalog, RequestsInv
  <2>2. CatalogInv' /\ version' = version
    BY <2>1, CatalogKeeps, CatalogLeavesStore
  <2> QED
    BY <1>1, <2>1, <2>2 DEF RequestsInv, VersionInv
<1>5. CASE OnCatalog(\E d \in DOMAIN Contents : ContentChanges(d))
  <2>1. /\ route = "catalog" /\ route' = "catalog" /\ form' = form
        /\ CatalogInv /\ VersionInv /\ form = EmptyForm
    BY <1>5 DEF OnCatalog, RequestsInv
  <2>2. PICK d \in DOMAIN Contents : ContentChanges(d)
    BY <1>5 DEF OnCatalog
  <2>3. CatalogInv' /\ VersionInv'
    BY <1>2, <2>1, <2>2, CatalogKeepsOnChange, VersionsGrow
  <2> QED
    BY <1>1, <2>1, <2>3 DEF RequestsInv
<1>6. CASE OnForm(FormStep)
  <2>1. /\ route = "form" /\ route' = "form" /\ FormStep
        /\ FormInv /\ VersionInv /\ catalog = NoCatalog
    BY <1>6 DEF OnForm, RequestsInv
  <2>2. FormInv' /\ version' = version /\ catalog' = catalog
    BY <1>2, <2>1, FormKeeps, FormLeavesStore
  <2> QED
    BY <1>1, <2>1, <2>2 DEF RequestsInv, VersionInv
<1>7. CASE OnForm(\E d \in DOMAIN Contents : ContentChanges(d) /\ UNCHANGED form)
  <2>1. /\ route = "form" /\ route' = "form"
        /\ FormInv /\ VersionInv /\ catalog = NoCatalog
    BY <1>7 DEF OnForm, RequestsInv
  <2>2. PICK d \in DOMAIN Contents : ContentChanges(d) /\ UNCHANGED form
    BY <1>7 DEF OnForm
  <2>3. FormInv' /\ VersionInv' /\ catalog' = catalog
    BY <1>2, <2>1, <2>2, FormKeepsOnChange, VersionsGrow DEF ContentChanges
  <2> QED
    BY <1>1, <2>1, <2>3 DEF RequestsInv
<1>8. CASE OnCampaign(CampaignStep \/ CampaignElsewhere)
  BY <1>1, <1>8, ElsewhereKeeps DEF OnCampaign, catalogPart
<1>9. CASE OnDashboard(DashboardStep \/ TimePasses)
  BY <1>1, <1>9, ElsewhereKeeps DEF OnDashboard, catalogPart
<1>10. CASE SelectCluster
  BY <1>1, <1>10, ClusterBecomesKeeps DEF SelectCluster, ClickAbove
<1>11. CASE ClustersAnswer
  BY <1>1, <1>11, ClusterBecomesKeeps DEF ClustersAnswer
<1>12. CASE ReloadPage
  <2>1. /\ store' = Reloaded(store, clock) /\ route' = route /\ version' = version
        /\ form' = form /\ route \in {"catalog", "campaign", "dashboard"}
    BY <1>12 DEF ReloadPage, ClickAbove
  <2>2. VersionInv'
    BY <2>1 DEF RequestsInv, VersionInv
  <2>3. CASE route = "catalog"
    <3>1. \E m \in Mounted(c) : catalog' = [m EXCEPT !.clicks = catalog.clicks + 1]
      BY <1>12, <2>3 DEF ReloadPage
    <3>2. \A known : \A d : /\ IsPage(catalog') /\ TablesListed(catalog', d, known)
                            /\ CommandListed(catalog'.command)
      BY <3>1, MountedPage
    <3>3. CommandListed(catalog.command)'
      BY <2>1, <3>2 DEF CommandListed, Versions
    <3> QED
      BY <1>1, <2>1, <2>2, <2>3, <3>2, <3>3 DEF RequestsInv, CatalogInv
  <2>4. CASE route # "catalog"
    <3>1. catalog' = catalog
      BY <1>12, <2>4 DEF ReloadPage
    <3> QED
      BY <1>1, <2>1, <2>2, <2>4, <3>1 DEF RequestsInv
  <2> QED
    BY <2>3, <2>4
<1>13. CASE Navigate
  <2>1. store' = store /\ version' = version /\ form' = form
    BY <1>13 DEF Navigate
  <2>2. VersionInv'
    BY <2>1 DEF RequestsInv, VersionInv
  <2>3. CASE route = "catalog"
    <3>1. route' = "campaign" /\ catalog' = NoCatalog
      BY <1>13, <2>3 DEF Navigate
    <3> QED
      BY <1>1, <2>1, <2>2, <2>3, <3>1 DEF RequestsInv
  <2>4. CASE route # "catalog"
    <3>1. /\ route = "campaign" /\ route' = "catalog"
          /\ \E m \in Mounted(c) : catalog' = [m EXCEPT !.clicks = MaxCatalogClicks]
      BY <1>13, <2>4 DEF Navigate
    <3>2. \A known : \A d : /\ IsPage(catalog') /\ TablesListed(catalog', d, known)
                            /\ CommandListed(catalog'.command)
      BY <3>1, MountedPage
    <3>3. CommandListed(catalog.command)'
      BY <2>1, <3>2 DEF CommandListed, Versions
    <3> QED
      BY <1>1, <2>1, <2>2, <3>1, <3>2, <3>3 DEF RequestsInv, CatalogInv
  <2> QED
    BY <2>3, <2>4
<1>14. CASE UNCHANGED consoleVars
  BY <1>1, <1>14, ElsewhereKeeps DEF consoleVars, catalogPart
<1> QED
  BY <1>3, <1>4, <1>5, <1>6, <1>7, <1>8, <1>9, <1>10, <1>11, <1>12, <1>13, <1>14
  DEF Next

\* Every list of the catalog page and of the campaign form is one that the API
\* gave for the keys shown, and every choice but an edited one was listed.
THEOREM RequestsInvariant == Spec => []RequestsInv
  BY InitRequests, RequestsStep, PTL DEF Spec

\* RequestsAreListed: the table of a filtered capture and the scope of a campaign
\* were listed by the API for the cluster they are sent to ("Run filtered" of
\* CatalogView, handleSubmit of CampaignForm).
THEOREM RequestsListed == Spec => []RequestsAreListed
  BY RequestsInvariant, RequestsInvListed, PTL
=============================================================================
