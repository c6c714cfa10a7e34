------------------------------ MODULE Console ------------------------------
(***************************************************************************)
(* The console: the pages of web-v2 over the store they share.             *)
(*                                                                         *)
(* One page is mounted at a time.  The links of the Topbar load it anew,   *)
(* which is a behaviour that begins at that page with the store as the     *)
(* browser kept it; the two maintenance pages take turns without a reload. *)
(* The charts are a part of the catalog page; they share nothing with its  *)
(* selection but the table, and are a page of their own here, where a      *)
(* table of another cluster is another table.  So is the preview of a      *)
(* topic, which shares the store and the bar with the dashboard: it begins *)
(* with each topic that has one; and the dialog of a campaign, which is    *)
(* over the campaign page and shares nothing with it but the cluster.      *)
(***************************************************************************)
EXTENDS CampaignForm, CampaignPage, Previews

CONSTANTS TrendLimit, Legacy, ChartTables, Shapes, AutoCreated, MaxRuns,
          Starts,  (* Starts[r]: the clusters where route r begins: the one  *)
                   (* the browser kept, or Null, and those that are enabled  *)
          PreviewCluster  (* the one whose previews are looked at            *)

\* The clusters that are enabled, and the one the browser kept, which may not
\* be any more, are clusters that the API has answers for.
ASSUME StartsAssumption ==
  \A r \in {"catalog", "campaign", "dashboard", "form"} : \A s \in Starts[r] :
    /\ s.kept \in DOMAIN Contents \cup {Null}
    /\ s.enabled \in Seq(DOMAIN Contents)

\* A run is numbered or has no id, and a fragmentation is a percentage or not
\* known.
ASSUME ChartsAssumption ==
  /\ TrendLimit \in Nat /\ MaxRuns \in Nat /\ Null \notin Nat /\ Legacy \notin Nat
  /\ \A t \in ChartTables : \A found \in Shapes[t] : \A i \in DOMAIN found.indexes :
       \A p \in DOMAIN found.indexes[i] : found.indexes[i][p] \in 0 .. 100 \cup {Null}

VARIABLES route,  (* the page that is mounted                              *)
          fleet,  (* the enabled clusters                                  *)
          docs, panel

Charts == INSTANCE CatalogCharts

chartsPart    == <<docs, panel>>
catalogPart   == <<version, catalog>>
campaignPart  == <<world, cpage>>
dashboardPart == <<clock, dash, preview>>

consoleVars ==
  <<route, fleet, store, chartsPart, catalogPart, form, campaignPart, dashboardPart>>

-----------------------------------------------------------------------------
(* A page that is not mounted is empty.                                    *)

KeptStore(c) == [EmptyStore(Preset("last_1_hour")) EXCEPT !.cluster = c, !.anchor = StartMinute]

Init ==
  /\ route \in {"charts", "catalog", "campaign", "dashboard", "preview", "form"}
  /\ IF route = "charts" THEN Charts!ChartsInit
     ELSE docs = [t \in ChartTables |-> <<>>] /\ panel = Charts!EmptyPanel
  /\ CASE route = "charts"  -> fleet = <<>> /\ store = KeptStore(Null)
       [] route = "preview" -> /\ fleet = <<PreviewCluster>>
                               /\ \E t \in CompareTopics :
                                    store = [KeptStore(PreviewCluster) EXCEPT !.topic = t]
       [] OTHER             -> \E s \in Starts[route] : store = KeptStore(s.kept) /\ fleet = s.enabled
  /\ version = [c \in DOMAIN Contents |-> 1]
  /\ IF route = "catalog" THEN catalog \in Mounted(store.cluster) ELSE catalog = NoCatalog
  /\ form = EmptyForm
  /\ CampaignInit
  /\ cpage = NoCampaignPage
  /\ clock = StartMinute
  /\ dash = NoDashboard
  /\ preview = NoPreview

ChartsPage ==
  /\ route = "charts"
  /\ Charts!ChartsNext
  /\ UNCHANGED <<route, fleet, store, catalogPart, form, campaignPart, dashboardPart>>

OnCatalog(Step) ==
  /\ route = "catalog"
  /\ Step
  /\ UNCHANGED <<route, fleet, chartsPart, form, campaignPart, dashboardPart>>

OnForm(Step) ==
  /\ route = "form"
  /\ Step
  /\ UNCHANGED <<route, fleet, chartsPart, campaignPart, dashboardPart>>

OnCampaign(Step) ==
  /\ route = "campaign"
  /\ Step
  /\ UNCHANGED <<route, fleet, chartsPart, catalogPart, form, dashboardPart>>

OnDashboard(Step) ==
  /\ route = "dashboard"
  /\ Step
  /\ UNCHANGED <<route, fleet, chartsPart, catalogPart, form, campaignPart, preview>>

PreviewPage ==
  /\ route = "preview"
  /\ PreviewStep
  /\ UNCHANGED <<route, fleet, chartsPart, catalogPart, form, campaignPart>>

-----------------------------------------------------------------------------
(* Above the pages.                                                        *)

\* The selector gives the store another cluster; used is the number of
\* clicks it took.
ClusterBecomes(s, used) ==
  /\ s.cluster # store.cluster
  /\ store' = s
  /\ CASE route = "catalog" ->
            /\ catalog' \in {[p EXCEPT !.clicks = @ + used] : p \in UnderCluster(s.cluster)}
            /\ UNCHANGED <<form, cpage, dash>>
       [] route = "form" ->
            /\ form' \in FormUnderCluster(s.cluster)
            /\ UNCHANGED <<catalog, cpage, dash>>
       [] route = "campaign" ->
            /\ cpage' = [CampaignsUnderCluster EXCEPT !.clicks = @ + used]
            /\ UNCHANGED <<catalog, form, dash>>
       [] route = "dashboard" ->
            /\ dash' = [dash EXCEPT !.clicks = @ + used]
            /\ UNCHANGED <<catalog, form, cpage>>
  /\ UNCHANGED <<route, fleet, chartsPart, version, world, clock, preview>>

\* A click outside the page: no dialog is over the console and no effect of
\* the last render is to run.  Requests are answered before (a bound).
ClickAbove ==
  CASE route = "catalog"   -> /\ CatalogRested /\ catalog.dialog = Null
                           /\ catalog.command = Null
                           /\ catalog.clicks < MaxCatalogClicks
    [] route = "campaign"  -> /\ CampaignRested /\ cpage.confirm = Null
                           /\ cpage.request = Null
                           /\ cpage.clicks < MaxCampaignClicks
    [] route = "dashboard" -> dash.clicks < MaxDashboardClicks
    [] OTHER            -> FALSE

SelectCluster ==
  /\ ClickAbove
  /\ \E c \in ToSet(fleet) : ClusterBecomes(SetSelectedClusterId(store, c), 1)

ClustersAnswer ==
  /\ route \notin {"charts", "preview"}
  /\ ClusterBecomes(WithClusters(store, fleet), 0)

ReloadPage ==
  /\ ClickAbove
  /\ store' = Reloaded(store, clock)
  /\ catalog' \in (IF route # "catalog" THEN {catalog}
                   ELSE {[p EXCEPT !.clicks = catalog.clicks + 1] : p \in Mounted(store.cluster)})
  /\ cpage' = IF route # "campaign" THEN cpage
              ELSE [NoCampaignPage EXCEPT !.clicks = cpage.clicks + 1]
  /\ dash' = IF route # "dashboard" THEN dash
             ELSE [NoDashboard EXCEPT !.clicks = dash.clicks + 1]
  /\ UNCHANGED <<route, fleet, chartsPart, version, form, world, clock, preview>>

\* MaintenanceSubNav: from one maintenance page to the other, where nothing
\* more is clicked (a bound).
Navigate ==
  /\ ClickAbove
  /\ \/ /\ route = "catalog" /\ route' = "campaign"
        /\ cpage' = [NoCampaignPage EXCEPT !.clicks = MaxCampaignClicks]
        /\ catalog' = NoCatalog
     \/ /\ route = "campaign" /\ route' = "catalog"
        /\ catalog' \in {[p EXCEPT !.clicks = MaxCatalogClicks] : p \in Mounted(store.cluster)}
        /\ cpage' = NoCampaignPage
  /\ UNCHANGED <<fleet, store, chartsPart, version, form, world, dashboardPart>>

Next ==
  \/ ChartsPage
  \/ OnCatalog(CatalogStep)
  \/ OnCatalog(\E c \in DOMAIN Contents : ContentChanges(c))
  \/ OnForm(FormStep)
  \/ OnForm(\E c \in DOMAIN Contents : ContentChanges(c) /\ UNCHANGED form)
  \/ OnCampaign(CampaignStep \/ CampaignElsewhere)
  \/ OnDashboard(DashboardStep \/ TimePasses)
  \/ PreviewPage
  \/ SelectCluster \/ ClustersAnswer \/ ReloadPage \/ Navigate

\* React runs the effects of a render, and a query that has no answer for
\* its key is asked.
Settling ==
  \/ ClustersAnswer
  \/ OnCatalog(\/ CatalogEffects
               \/ DatabasesPending /\ FetchDatabases
               \/ SchemasPending /\ FetchSchemas
               \/ TablesPending /\ FetchTables
               \/ RunsPending /\ FetchSnapshots)
  \/ OnCampaign(\/ CampaignEffects
                \/ ListPending /\ FetchCampaigns
                \/ SummaryPending /\ FetchSummary
                \/ TablePending /\ FetchTable)

\* One of them happens as long as one can; nothing else need happen.
Fairness == WF_consoleVars(Settling)

Spec == Init /\ [][Next]_consoleVars /\ Fairness

-----------------------------------------------------------------------------
\* SelectionSettles: whatever the DBA chooses and in whatever order answers
\* come, the effects of the maintenance pages stop correcting each other:
\* once nothing more is clicked or changed, each choice is one of the list
\* it is made from, and what the campaign page shows and would act on is of
\* one campaign of the selected cluster (the effects of CatalogView,
\* CatalogTableDetailDialog, MaintenanceCampaignPage and ClusterSelector).
SelectionSettles ==
  []<>((route = "catalog" => CatalogSettled) /\ (route = "campaign" => CampaignSettled))

\* RequestsAreListed: what the console asks the runner for exists: the table
\* of a filtered capture and the scope of a campaign were listed by the API
\* for the cluster, as CatalogPage and CampaignForm state it.  The choices
\* and the lists they are made from change at different times.
RequestsAreListed == CommandsAreListed /\ ScopesAreListed

\* ChartsAgree: a row of the table list, a trend and every view of a chart
\* agree on each capture, as CatalogCharts states it
\* (mapCatalogTableSummary, getCatalogIndexHistory, buildIndexChartModel).
ChartsAgree == route = "charts" => Charts!ChartsAgree

\* ViewsAgree: the timeline, the cards, the statistics and, unless a replica
\* is filtered, the pager of the list of the dashboard tell of the same
\* findings, as Dashboard states it (listFindings, getFindingTimeline, getSlowQueryStats,
\* KpiCards, FindingsTable).
ViewsAgree == route = "dashboard" => SameFindings

\* PreviewsAgree: once its queries are answered, a preview draws what was
\* detected.  Each finding with a reading is in one bucket and the newest is
\* the end of its line, if no other replica has the key of that line, a card
\* and its line end alike, and the earlier range
\* lies under the shown one at the same distance from the start, whole; what
\* the legend hides can always be shown again (aggregate...Series,
\* mergeCompareSeries, getLatestSnapshot, fetchAll...Findings).
PreviewsAgree ==
  route = "preview" =>
    /\ preview.hidden \subseteq LegendReplicas(store, preview)
    /\ Answered("now") => /\ store.topic \in ReplicaTopics => ReadingsAreDrawn
                          /\ CardsEndLines
                          /\ TooltipsTellLines
    /\ Answered("now") /\ Answered("past") => PastIsBelow
=============================================================================
