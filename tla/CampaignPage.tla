---------------------------- MODULE CampaignPage ----------------------------
(***************************************************************************)
(* The campaign page (MaintenanceCampaignPage.tsx): a campaign is selected *)
(* by the DBA or by an effect; the summary, the queue and the history are  *)
(* those of the selected campaign; items are approved, rejected, skipped   *)
(* or reset by row, or approved all together.                              *)
(*                                                                         *)
(* Every query of this page shows the answer of its previous key until the *)
(* new one comes (placeholderData), so each answer carries the key it is   *)
(* of.  The queue and the history unmount when their tab is left.          *)
(* Campaigns and items also change elsewhere: by the runner, the bot and   *)
(* other pages.  Errors of queries are left out, and so are answers that   *)
(* the cache holds from before: such an answer comes as any other.         *)
(***************************************************************************)
EXTENDS ConsoleStore

CONSTANTS CampaignsOf,   (* CampaignsOf[c]: as the API lists them            *)
          ItemsOf,       (* ItemsOf[k]: the items of a campaign, by priority *)
          ToApprove,     (* the items that are to be approved                *)
          Running,       (* the campaigns that are active at first           *)
          MaxElsewhere,  (* bound: changes made elsewhere                    *)
          MaxCampaignClicks  (* bound: clicks in one visit of the page       *)

VARIABLES status,  (* status[k]: of each campaign                           *)
          item,    (* item[i]: status of each item                          *)
          events,  (* maintenance_history: <<item, outcome>>, oldest first  *)
          moves,   (* changes elsewhere so far                              *)
          cpage    (* the page                                              *)

world == <<status, item, events, moves>>

AllCampaigns == UNION {ToSet(CampaignsOf[c]) : c \in DOMAIN CampaignsOf}
AllItems     == UNION {ToSet(ItemsOf[k]) : k \in AllCampaigns}

ClusterOf(k) == CHOOSE c \in DOMAIN CampaignsOf : k \in ToSet(CampaignsOf[c])
CampaignOf(i) == CHOOSE k \in AllCampaigns : i \in ToSet(ItemsOf[k])

-----------------------------------------------------------------------------
(* What the API answers.                                                   *)

ListCampaigns(c) ==
  [i \in DOMAIN CampaignsOf[c] |->
     [campaign |-> CampaignsOf[c][i], status |-> status[CampaignsOf[c][i]]]]

\* getCampaignSummary, as far as the page's actions depend on it.
CampaignSummary(k) ==
  Cardinality({i \in ToSet(ItemsOf[k]) : item[i] = "awaiting_approval"})

\* Items the filters leave: of a cluster and, if one is given, a campaign.
Matching(c, k) ==
  {i \in AllItems : ClusterOf(CampaignOf(i)) = c /\ k \in {Null, CampaignOf(i)}}

QueueRank ==
  [approved |-> 2, awaiting_approval |-> 3, done |-> 4, failed |-> 5,
   skipped |-> 6, rejected |-> 7]

\* listMaintenanceQueue; the items of one status are in the order of AllItems.
ListQueue(c, k, wanted, page) ==
  LET Earlier(i, j) == \/ QueueRank[item[i]] < QueueRank[item[j]]
                       \/ item[i] = item[j] /\ i <= j
      rows == SetToSortSeq({i \in Matching(c, k) : wanted \in {"", item[i]}}, Earlier)
  IN  [ total |-> Len(rows),
        rows  |-> [r \in DOMAIN PageOf(rows, page) |->
                     [item |-> PageOf(rows, page)[r], status |-> item[PageOf(rows, page)[r]]]] ]

\* listMaintenanceHistory: newest first.  The page asks for an outcome in
\* capitals, the runner writes it in small letters, and the filter compares.
ListHistory(c, k, outcome, page) ==
  LET Wanted(e) == e[1] \in Matching(c, k) /\ outcome \in {"ALL", e[2]}
      rows      == Reverse(SelectSeq(events, Wanted))
  IN  [total |-> Len(rows), rows |-> PageOf(rows, page)]

-----------------------------------------------------------------------------
(* The page.                                                               *)

EmptyTable == [filter |-> "", page |-> 0, shown |-> Null]

\* list, summary, table.shown: an answer with the key it is of, or Null.
\* table: the queue or the history, whichever tab is open.  chip: the cards'
\* filter.  confirm: the row and action a dialog asks about.
NoCampaignPage ==
  [ tab |-> "queue", selected |-> Null, list |-> Null, summary |-> Null,
    table |-> EmptyTable, expanded |-> {}, chip |-> "ALL", confirm |-> Null,
    request |-> Null, clicks |-> 0 ]

Listed(p) == IF p.list = Null THEN <<>> ELSE p.list.campaigns
IsListed(p, k) == \E i \in DOMAIN Listed(p) : Listed(p)[i].campaign = k
StatusShown(p, k) == (CHOOSE r \in ToSet(Listed(p)) : r.campaign = k).status

LiveOrder == <<"ACTIVE", "DISCOVERING", "DISCOVERY_FAILED", "PENDING">>
OverOrder == <<"COMPLETED", "EXPIRED", "CANCELLED">>

\* hasLiveCampaign and the order of statuses that follows from it.
StatusOrder(rows) ==
  IF \E r \in ToSet(rows) : r.status \in ToSet(LiveOrder)
  THEN LiveOrder \o OverOrder ELSE OverOrder \o LiveOrder

\* The campaigns of the first status that occurs.
BestCampaigns(rows) ==
  LET order == StatusOrder(rows)
      OfStatus(s) == SelectSeq(rows, LAMBDA r : r.status = s)
      first == SelectInSeq(order, LAMBDA s : OfStatus(s) # <<>>)
  IN  IF rows = <<>> THEN <<>> ELSE OfStatus(order[first])

PickPrimaryCampaign(rows) ==
  IF rows = <<>> THEN Null ELSE BestCampaigns(rows)[1].campaign

\* The campaign that the queue, the history and the summary are of.
Context(p) ==
  IF p.selected # Null /\ IsListed(p, p.selected) THEN p.selected
  ELSE PickPrimaryCampaign(Listed(p))

\* The campaign that the cards and the header show: sortCampaigns puts the
\* last updated one first, which may be any of the best.
Headed(p) ==
  IF p.selected = Null THEN {r.campaign : r \in ToSet(BestCampaigns(Listed(p)))}
  ELSE IF IsListed(p, p.selected) THEN {p.selected} ELSE {}

SettledSelection(p) ==
  IF Listed(p) = <<>> THEN Null
  ELSE IF p.selected # Null /\ IsListed(p, p.selected) THEN p.selected
  ELSE PickPrimaryCampaign(Listed(p))

TableReset(p) ==
  [p EXCEPT !.table.filter = IF p.tab = "queue" THEN "" ELSE "ALL",
            !.table.page = 0, !.expanded = {}]

\* The tables start over when the campaign they are of is another.
WithContext(old, new) == IF Context(old) = Context(new) THEN new ELSE TableReset(new)

CampaignRested == SettledSelection(cpage) = cpage.selected

CampaignEffects ==
  /\ ~CampaignRested
  /\ cpage' = WithContext(cpage, [cpage EXCEPT !.selected = SettledSelection(cpage)])
  /\ UNCHANGED <<store, world>>

\* Another cluster is selected while the page is open.
CampaignsUnderCluster ==
  TableReset([cpage EXCEPT !.selected = Null,
                           !.table = IF cpage.tab = "queue" THEN @ ELSE EmptyTable,
                           !.tab = "queue"])

-----------------------------------------------------------------------------
(* Answers.                                                                *)

Arrives(new) ==
  /\ new # cpage
  /\ cpage' = new
  /\ UNCHANGED <<store, world>>

\* Another list may make another campaign the one the tables are of.
FetchCampaigns ==
  /\ store.cluster # Null
  /\ Arrives(WithContext(cpage, [cpage EXCEPT !.list =
       [cluster |-> store.cluster, campaigns |-> ListCampaigns(store.cluster)]]))

FetchSummary ==
  /\ Context(cpage) # Null
  /\ Arrives([cpage EXCEPT !.summary =
       [campaign |-> Context(cpage), awaiting |-> CampaignSummary(Context(cpage))]])

TableKey == <<store.cluster, Context(cpage), cpage.tab, cpage.table.filter, cpage.table.page>>

TableAnswer ==
  IF cpage.tab = "queue"
  THEN ListQueue(store.cluster, Context(cpage), cpage.table.filter, cpage.table.page)
  ELSE ListHistory(store.cluster, Context(cpage), cpage.table.filter, cpage.table.page)

FetchTable ==
  /\ store.cluster # Null
  /\ Arrives([cpage EXCEPT !.table.shown = [key |-> TableKey] @@ TableAnswer])

\* Queries on their way because what is shown is of another key, or nothing.
ListPending    == cpage.list = Null \/ cpage.list.cluster # store.cluster
SummaryPending == Context(cpage) # Null /\
                  (cpage.summary = Null \/ cpage.summary.campaign # Context(cpage))
TablePending   == cpage.table.shown = Null \/ cpage.table.shown.key # TableKey

-----------------------------------------------------------------------------
(* The DBA.                                                                *)

CampaignClick(new) ==
  /\ cpage' = [new EXCEPT !.clicks = @ + 1]
  /\ UNCHANGED <<store, world>>

\* A click on the page itself, with no dialog over it.
PageClick(new) == cpage.confirm = Null /\ CampaignClick(new)

Cards == {r.campaign : r \in {s \in ToSet(Listed(cpage)) : cpage.chip \in {"ALL", s.status}}}

SelectCampaign ==
  \E k \in Cards \ {cpage.selected} :
    PageClick(WithContext(cpage, [cpage EXCEPT !.selected = k]))

ChooseChip ==
  /\ Listed(cpage) # <<>>
  /\ \E chip \in {"ALL", "PENDING"} \ {cpage.chip} : PageClick([cpage EXCEPT !.chip = chip])

\* The other table mounts: its answer, its filter and its page start over.
SelectSubTab ==
  \E tab \in {"queue", "history"} \ {cpage.tab} :
    PageClick(TableReset([cpage EXCEPT !.tab = tab, !.table.shown = Null]))

\* One status for the tabs of the queue, one outcome for those of the history.
FilterTable ==
  \E f \in (IF cpage.tab = "queue" THEN {"", "awaiting_approval"} ELSE {"ALL", "DONE"})
             \ {cpage.table.filter} :
    PageClick([cpage EXCEPT !.table.filter = f, !.table.page = 0])

\* The pager: it is there while the total is over one page.
Pages == (cpage.table.shown.total + PageLimit - 1) \div PageLimit

TurnPage ==
  /\ cpage.table.shown # Null
  /\ cpage.table.shown.total > PageLimit
  /\ \E p \in ((IF cpage.table.page > 0 THEN {0, cpage.table.page - 1} ELSE {})
              \cup (IF cpage.table.page < Pages - 1 THEN {cpage.table.page + 1, Pages - 1} ELSE {})) :
       PageClick([cpage EXCEPT !.table.page = p])

Rows == IF cpage.table.shown = Null THEN {} ELSE ToSet(cpage.table.shown.rows)

ToggleStatement ==
  /\ cpage.tab = "history"
  /\ \E e \in Rows : PageClick([cpage EXCEPT !.expanded = SymDiff(@, {e})])

ItemRequest(i, action) == [kind |-> "item", item |-> i, action |-> action, checked |-> FALSE]

\* Approve and Reset ask at once; Reject and Skip ask for a confirmation.
ActOnRow ==
  /\ cpage.tab = "queue" /\ cpage.request = Null
  /\ \E r \in Rows :
       \/ /\ r.status = "awaiting_approval"
          /\ PageClick([cpage EXCEPT !.request = ItemRequest(r.item, "approve")])
       \/ /\ r.status \in {"failed", "rejected"}
          /\ PageClick([cpage EXCEPT !.request = ItemRequest(r.item, "reset")])

AskToConfirm ==
  /\ cpage.tab = "queue" /\ cpage.request = Null
  /\ \E r \in Rows :
       \/ /\ r.status = "awaiting_approval"
          /\ PageClick([cpage EXCEPT !.confirm = ItemRequest(r.item, "reject")])
       \/ /\ r.status = "approved"
          /\ PageClick([cpage EXCEPT !.confirm = ItemRequest(r.item, "skip")])

Confirm ==
  /\ cpage.confirm # Null
  /\ CampaignClick([cpage EXCEPT !.request = cpage.confirm, !.confirm = Null])

CancelConfirm ==
  /\ cpage.confirm # Null
  /\ CampaignClick([cpage EXCEPT !.confirm = Null])

\* The button is offered while the summary shown counts awaiting items,
\* whatever campaign that summary is of.
ApproveAll ==
  /\ cpage.request = Null
  /\ cpage.summary # Null /\ cpage.summary.awaiting > 0
  /\ \E k \in Headed(cpage) :
       PageClick([cpage EXCEPT !.request =
         [kind |-> "bulk", cluster |-> store.cluster, campaign |-> k]])

\* canRunDiscovery looks at the campaign shown; the command has a cluster only.
RunDiscovery ==
  /\ cpage.request = Null
  /\ \E k \in Headed(cpage) :
       /\ StatusShown(cpage, k) \in {"PENDING", "DISCOVERY_FAILED"}
       /\ PageClick([cpage EXCEPT !.request = [kind |-> "run_discovery", cluster |-> store.cluster]])

\* A click finds the effects of the last render done.
CampaignUser ==
  /\ cpage.clicks < MaxCampaignClicks
  /\ CampaignRested
  /\ \/ SelectCampaign \/ ChooseChip \/ SelectSubTab \/ FilterTable \/ TurnPage
     \/ ToggleStatement \/ ActOnRow \/ AskToConfirm \/ Confirm \/ CancelConfirm
     \/ ApproveAll \/ RunDiscovery

-----------------------------------------------------------------------------
(* The API and the others.                                                 *)

AllowedFrom(action) ==
  CASE action \in {"approve", "reject"} -> {"awaiting_approval"}
    [] action = "skip"  -> {"awaiting_approval", "approved"}
    [] action = "reset" -> {"failed", "rejected"}

Becomes(action) ==
  CASE action \in {"approve", "reset"} -> "approved"
    [] action = "reject" -> "rejected"
    [] action = "skip"   -> "skipped"

\* updateQueueItemAction reads the item and checks, then writes by item_id.
ItemIsChecked ==
  /\ cpage.request # Null /\ cpage.request.kind = "item" /\ ~cpage.request.checked
  /\ cpage' = [cpage EXCEPT !.request =
       IF item[@.item] \in AllowedFrom(@.action) THEN [@ EXCEPT !.checked = TRUE] ELSE Null]
  /\ UNCHANGED <<store, world>>

ItemIsWritten ==
  /\ cpage.request # Null /\ cpage.request.kind = "item" /\ cpage.request.checked
  /\ item' = [item EXCEPT ![cpage.request.item] = Becomes(cpage.request.action)]
  /\ cpage' = [cpage EXCEPT !.request = Null]
  /\ UNCHANGED <<store, status, events, moves>>

\* Mutant: the filter leaves the cluster out.
BulkFilterCampaignOnly(request) ==
  {i \in ToSet(ItemsOf[request.campaign]) : item[i] = "awaiting_approval"}

BulkFilter(request) ==
  {i \in Matching(request.cluster, request.campaign) : item[i] = "awaiting_approval"}

BulkIsWritten ==
  /\ cpage.request # Null /\ cpage.request.kind = "bulk"
  /\ item' = [i \in AllItems |-> IF i \in BulkFilter(cpage.request) THEN "approved" ELSE item[i]]
  /\ cpage' = [cpage EXCEPT !.request = Null]
  /\ UNCHANGED <<store, status, events, moves>>

DiscoveryIsQueued ==
  /\ cpage.request # Null /\ cpage.request.kind = "run_discovery"
  /\ cpage' = [cpage EXCEPT !.request = Null]
  /\ UNCHANGED <<store, world>>

Elsewhere ==
  /\ moves < MaxElsewhere
  /\ moves' = moves + 1
  /\ UNCHANGED <<store, cpage>>

\* Every move a campaign's status makes; Campaigns.tla has who makes it.
NextStatuses ==
  [PENDING |-> {"ACTIVE", "CANCELLED"}, ACTIVE |-> {"COMPLETED"},
   COMPLETED |-> {}, CANCELLED |-> {}]

CampaignMoves ==
  /\ Elsewhere
  /\ \E k \in AllCampaigns : \E s \in NextStatuses[status[k]] :
       status' = [status EXCEPT ![k] = s]
  /\ UNCHANGED <<item, events>>

\* The bot decides, or the runner runs the item and records the outcome.
ItemMoves ==
  /\ Elsewhere
  /\ \E i \in AllItems :
       \/ /\ item[i] = "awaiting_approval"
          /\ item' = [item EXCEPT ![i] = "approved"]
          /\ UNCHANGED events
       \/ /\ item[i] = "approved"
          /\ \E outcome \in {"done", "failed"} :
               /\ item' = [item EXCEPT ![i] = outcome]
               /\ events' = Append(events, <<i, outcome>>)
  /\ UNCHANGED status

CampaignInit ==
  /\ status = [k \in AllCampaigns |-> IF k \in Running THEN "ACTIVE" ELSE "PENDING"]
  /\ item = [i \in AllItems |-> IF i \in ToApprove THEN "awaiting_approval" ELSE "approved"]
  /\ events = <<>>
  /\ moves = 0

CampaignFetch == FetchCampaigns \/ FetchSummary \/ FetchTable

CampaignApi == ItemIsChecked \/ ItemIsWritten \/ BulkIsWritten \/ DiscoveryIsQueued

CampaignElsewhere == CampaignMoves \/ ItemMoves

CampaignStep == CampaignEffects \/ CampaignFetch \/ CampaignUser \/ CampaignApi

-----------------------------------------------------------------------------
\* The page has come to rest: what it heads, what it shows and what it would
\* act on are of one campaign of the selected cluster.
CampaignSettled ==
  /\ cpage.list # Null /\ cpage.list.cluster = store.cluster
  /\ CampaignRested
  /\ Headed(cpage) = (IF Context(cpage) = Null THEN {} ELSE {Context(cpage)})
  /\ Context(cpage) \in ToSet(CampaignsOf[store.cluster]) \cup {Null}
  /\ Context(cpage) # Null =>
       cpage.summary # Null /\ cpage.summary.campaign = Context(cpage)
  /\ cpage.table.shown # Null /\ cpage.table.shown.key = TableKey

\* BulkStaysInCluster: an approve-all changes items of the cluster that was
\* selected when it was clicked, and of no other: the campaign it names and
\* the count that offered it may be those of the cluster before
\* (handleApproveAll, useCampaigns' placeholderData, bulkQueueAction).
BulkStaysInCluster ==
  [][\A i \in AllItems :
       /\ cpage.request # Null /\ cpage.request.kind = "bulk"
       /\ item'[i] # item[i] /\ cpage'.request = Null
       => /\ ClusterOf(CampaignOf(i)) = cpage.request.cluster
          /\ item[i] = "awaiting_approval"]_<<store, world, cpage>>
=============================================================================
