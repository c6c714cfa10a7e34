---------------------------- MODULE ConsoleStore ----------------------------
(***************************************************************************)
(* The state the pages of the console share (dashboard.store.ts).  Each    *)
(* setter is one operator from a store to the next; the store outlives the *)
(* page that is mounted, and a reload of the browser keeps only the part   *)
(* that is persisted.  The theme is left out.                              *)
(***************************************************************************)
EXTENDS Naturals, Sequences, FiniteSets, SequencesExt

CONSTANTS PageLimit,  (* bound: rows of a page of a table; 50 and 15 there   *)
          Null

ASSUME PageAssumption == PageLimit \in Nat \ {0}

VARIABLE store

\* A filter that is not set is Null.  finding_id works as query_hash does.
NoFilters ==
  [ severity |-> Null, alert |-> Null, blocking |-> Null, replica |-> Null,
    queryHash |-> Null ]

\* cluster, topic, range: what a reload keeps, with compare and live.
\* anchor: the instant that relative ranges end at.
EmptyStore(range) ==
  [ cluster |-> Null, topic |-> Null, range |-> range, filters |-> NoFilters,
    compare |-> FALSE, page |-> 0, live |-> FALSE, anchor |-> 0 ]

SetSelectedClusterId(s, cluster) ==
  [s EXCEPT !.cluster = cluster, !.page = 0, !.filters.replica = Null]

\* Mutant: the filters of the topic before stay.
SetActiveTopicIdKeeping(s, topic) == [s EXCEPT !.topic = topic, !.page = 0]

SetActiveTopicId(s, topic) ==
  [s EXCEPT !.topic = topic, !.page = 0,
            !.filters = IF s.topic = topic THEN @ ELSE NoFilters]

SetTimeRange(s, range) == [s EXCEPT !.range = range, !.page = 0]

SetFilters(s, filters) == [s EXCEPT !.filters = filters, !.page = 0]

SetPage(s, page) == [s EXCEPT !.page = page]

RefreshNow(s, now) == [s EXCEPT !.anchor = now]

\* partialize.
Reloaded(s, now) ==
  [s EXCEPT !.filters = NoFilters, !.page = 0, !.anchor = now]

\* The rows of a page of a list, numbered from 0.
PageOf(list, page) ==
  LET last == (page + 1) * PageLimit
  IN  SubSeq(list, page * PageLimit + 1, IF last < Len(list) THEN last ELSE Len(list))

-----------------------------------------------------------------------------
\* ClusterSelector: the first enabled cluster, if none or a lost one is
\* selected.
WithClusters(s, enabled) ==
  IF enabled = <<>> \/ s.cluster \in ToSet(enabled) THEN s
  ELSE SetSelectedClusterId(s, enabled[1])
=============================================================================
