---------------------------- MODULE CatalogTrends ----------------------------
(***************************************************************************)
(* What the console draws of a table's captures.  A capture stores one     *)
(* document of the table (catalog_service.py).  The API reads it in three  *)
(* ways, as a row of the table list, as a point of the table's trend and   *)
(* as points of the series of its indexes and statistics                   *)
(* (catalog-service.ts), and CatalogCharts.tsx draws the series of the     *)
(* indexes in three views.                                                 *)
(*                                                                         *)
(* The documents of one table are a sequence in the order of their         *)
(* captured_at.  Names, sizes and dates are left out; a fragmentation is a *)
(* number or Null.  Documents written before runs had an id have the run   *)
(* Null; they were overwritten by the next capture, so a table has at most *)
(* one of them.  The histories look a number of days back, which each of   *)
(* the three queries counts from its own now: the documents are those of   *)
(* these days, taken to be the same for all three.                         *)
(***************************************************************************)
EXTENDS Naturals, Sequences, FiniteSets, SequencesExt

CONSTANTS TrendLimit,  (* points of the trend: 30 in the code              *)
          Legacy,      (* the id the API gives to documents without one    *)
          Null

NewestOf(s, n) == SubSeq(s, IF Len(s) > n THEN Len(s) - n + 1 ELSE 1, Len(s))

Highest(values) == IF values \ {Null} = {} THEN Null ELSE Max(values \ {Null})

-----------------------------------------------------------------------------
(* One document.                                                           *)

\* _query_indexes: the rows of one index, one per partition.
IndexEntry(frags) ==
  [ partitioned |-> Cardinality(DOMAIN frags) > 1,
    frag        |-> Highest({frags[p] : p \in DOMAIN frags}),
    partitions  |-> IF Cardinality(DOMAIN frags) > 1 THEN frags ELSE <<>> ]

\* indexes: the rows of every index; stats: the modification counters.
Document(run, indexes, stats) ==
  [ run     |-> run,
    indexes |-> [i \in DOMAIN indexes |-> IndexEntry(indexes[i])],
    stats   |-> stats ]

\* mapCatalogTableSummary: the row of the table list.
Summary(doc) ==
  [ frag  |-> Highest({doc.indexes[i].frag : i \in DOMAIN doc.indexes}),
    stale |-> Cardinality({s \in DOMAIN doc.stats : doc.stats[s] > 0}) ]

-----------------------------------------------------------------------------
(* The histories.                                                          *)

ResolvedRun(doc) == IF doc.run = Null THEN Legacy ELSE doc.run

RunsOf(docs) == {ResolvedRun(docs[k]) : k \in DOMAIN docs}

\* The places of the documents of a run, and the document among some places
\* that a $last keeps.
OfRun(docs, run)     == {k \in DOMAIN docs : ResolvedRun(docs[k]) = run}
LastOf(docs, places) == docs[Max(places)]

TableHistory(docs) ==
  LET Point(d) ==
        LET known == {d.indexes[i].frag : i \in DOMAIN d.indexes} \ {Null}
        IN  [ frag  |-> IF known = {} THEN Null ELSE Max(known),
              stale |-> Cardinality({s \in DOMAIN d.stats : d.stats[s] > 0}) ]
  IN  [r \in RunsOf(NewestOf(docs, TrendLimit)) |-> Point(LastOf(docs, OfRun(docs, r)))]

IndexHistory(docs) ==
  LET Own(i) == {k \in DOMAIN docs : i \in DOMAIN docs[k].indexes}
  IN  [i \in UNION {DOMAIN docs[k].indexes : k \in DOMAIN docs} |->
         [ partitioned |-> LastOf(docs, Own(i)).indexes[i].partitioned,
           points      |-> [r \in {ResolvedRun(docs[k]) : k \in Own(i)} |->
                              LastOf(docs, Own(i) \cap OfRun(docs, r)).indexes[i]] ]]

StatsHistory(docs) ==
  LET Own(s) == {k \in DOMAIN docs : s \in DOMAIN docs[k].stats}
  IN  [s \in UNION {DOMAIN docs[k].stats : k \in DOMAIN docs} |->
         [r \in {ResolvedRun(docs[k]) : k \in Own(s)} |->
            LastOf(docs, Own(s) \cap OfRun(docs, r)).stats[s]]]

-----------------------------------------------------------------------------
(* buildIndexChartModel.  A line is <<"index", i>>, one partition of an    *)
(* index is <<"index", i, p>>, and a partition of all is <<"partition", p>>. *)

ViewModes == {"by-index", "by-index-partition", "by-partition"}

HasPartitions(series) ==
  series.partitioned
    /\ \E r \in DOMAIN series.points : DOMAIN series.points[r].partitions # {}

\* What one point adds to its row, as pairs of a line and a value.
IndexCells(i, series, point, split) ==
  IF split /\ DOMAIN point.partitions # {}
  THEN {<<<<"index", i, p>>, point.partitions[p]>> : p \in DOMAIN point.partitions}
  ELSE {<<<<"index", i>>, point.frag>>}

\* Mutant: an index without partitions is left out of the view.
PartitionCellsOnly(point) ==
  {<<<<"partition", p>>, point.partitions[p]>> : p \in DOMAIN point.partitions}

PartitionCells(point) ==
  IF DOMAIN point.partitions # {}
  THEN {<<<<"partition", p>>, point.partitions[p]>> : p \in DOMAIN point.partitions}
  ELSE {<<<<"partition", 1>>, point.frag>>}

PointCells(i, series, point, view) ==
  IF view = "by-partition" THEN PartitionCells(point)
  ELSE IndexCells(i, series, point,
                  view = "by-index-partition" /\ HasPartitions(series))

ChartCells(history, view, run) ==
  UNION {PointCells(i, history[i], history[i].points[run], view) :
           i \in {j \in DOMAIN history : run \in DOMAIN history[j].points}}

ChartRuns(history) == UNION {DOMAIN history[i].points : i \in DOMAIN history}

ChartRow(history, view, run) ==
  LET cells == ChartCells(history, view, run)
  IN  [line \in {c[1] : c \in cells} |->
         Highest({c[2] : c \in {x \in cells : x[1] = line}})]

\* An index that is split has a line of its own only where a capture fell
\* back to it; every other index is registered even without points.
ChartLines(history, view) ==
  UNION {DOMAIN ChartRow(history, view, r) : r \in ChartRuns(history)}

\* The groups of the legend of the view "by-index-partition".
LineGroups(history) ==
  {{line \in ChartLines(history, "by-index-partition") : line[2] = i} :
      i \in DOMAIN history} \ {{}}
=============================================================================
