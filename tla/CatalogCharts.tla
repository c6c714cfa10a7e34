---------------------------- MODULE CatalogCharts ----------------------------
(***************************************************************************)
(* The charts of the catalog page: captures add documents to the tables,   *)
(* and a DBA looks at one table, in one view, with some lines hidden.  The *)
(* panel stays mounted when another table is selected, so its view and its *)
(* hidden lines outlive the table they were chosen for.                    *)
(***************************************************************************)
EXTENDS CatalogTrends

CONSTANTS ChartTables,  (* the tables a DBA may look at                    *)
          Shapes,       (* Shapes[t]: what a capture may find of t, its    *)
                        (* indexes and its statistics                      *)
          AutoCreated,  (* the statistics the server made itself           *)
          MaxRuns       (* bound: captures                                 *)

VARIABLES docs,   (* docs[t]: the documents of t, oldest first              *)
          panel   (* the charts                                             *)

chartVars == <<docs, panel>>

EmptyPanel ==
  [ table |-> Null, view |-> "by-index", hidden |-> {},
    hideAuto |-> TRUE, hiddenStats |-> {} ]

\* What one run may find: it need not reach every table.
Findings ==
  {f \in [ChartTables -> UNION {Shapes[t] : t \in ChartTables} \cup {Null}] :
     \A t \in ChartTables : f[t] \in Shapes[t] \cup {Null}}

WithRun(sofar, found, run) ==
  [t \in ChartTables |->
     IF found[t] = Null THEN sofar[t]
     ELSE Append(sofar[t], Document(run, found[t].indexes, found[t].stats))]

\* The tables may have documents of the time before runs had an id.
ChartsInit ==
  /\ \E found \in Findings : docs = WithRun([t \in ChartTables |-> <<>>], found, Null)
  /\ panel = EmptyPanel

RunsSoFar == UNION {{docs[t][k].run : k \in DOMAIN docs[t]} : t \in ChartTables}

\* A new run.
Capture ==
  /\ \E run \in (1 .. MaxRuns) \ RunsSoFar :
       \E found \in Findings : docs' = WithRun(docs, found, run)
  /\ UNCHANGED panel

-----------------------------------------------------------------------------
SelectTable(t) ==
  /\ t # panel.table
  /\ panel' = [panel EXCEPT !.table = t]
  /\ UNCHANGED docs

ShownIndexes == IndexHistory(docs[panel.table])

Lines == ChartLines(ShownIndexes, panel.view)

ChooseView(v) ==
  /\ panel.table # Null
  /\ ShownIndexes # <<>>
  /\ v # "by-index" => \E i \in DOMAIN ShownIndexes : HasPartitions(ShownIndexes[i])
  /\ panel' = [panel EXCEPT !.view = v, !.hidden = {}]
  /\ UNCHANGED docs

\* LegendToggles: the lines that are hidden after a click on one of them.
Toggled(lines, hidden, line) ==
  IF line \in hidden THEN lines \ {line}
  ELSE IF lines \ hidden = {line} THEN {}
  ELSE hidden \cup {line}

\* IndexGroupedLegend: a click on an index shows it alone, or all again.
Isolated(lines, hidden, group) ==
  LET solo == /\ group \cap hidden = {}
              /\ lines \ group \subseteq hidden
              /\ lines # group
  IN  IF solo THEN {} ELSE lines \ group

SetHidden(hidden) ==
  /\ panel' = [panel EXCEPT !.hidden = hidden]
  /\ UNCHANGED docs

ClickLine(line) ==
  /\ panel.view # "by-index-partition"
  /\ SetHidden(Toggled(Lines, panel.hidden, line))

ClickGroup(group) ==
  /\ panel.view = "by-index-partition"
  /\ SetHidden(Isolated(Lines, panel.hidden, group))

ClickPartition(line) ==
  /\ panel.view = "by-index-partition"
  /\ SetHidden(IF line \in panel.hidden THEN panel.hidden \ {line}
               ELSE panel.hidden \cup {line})

ShowAllLines ==
  /\ panel.hidden # {}
  /\ SetHidden({})

\* buildStatsChartModel.
StatsLines ==
  DOMAIN StatsHistory(docs[panel.table]) \ (IF panel.hideAuto THEN AutoCreated ELSE {})

SwitchAutoCreated ==
  /\ StatsLines # {}
  /\ panel' = [panel EXCEPT !.hideAuto = ~@]
  /\ UNCHANGED docs

ClickStatistic(s) ==
  /\ panel' = [panel EXCEPT !.hiddenStats = Toggled(StatsLines, @, s)]
  /\ UNCHANGED docs

ShowAllStatistics ==
  /\ panel.hiddenStats # {}
  /\ StatsLines # {}
  /\ panel' = [panel EXCEPT !.hiddenStats = {}]
  /\ UNCHANGED docs

ChartsNext ==
  \/ Capture
  \/ \E t \in ChartTables : SelectTable(t)
  \/ \E v \in ViewModes : ChooseView(v)
  \/ /\ panel.table # Null
     /\ \/ \E line \in Lines : ClickLine(line) \/ ClickPartition(line)
        \/ \E group \in LineGroups(ShownIndexes) : ClickGroup(group)
        \/ ShownIndexes # <<>> /\ ShowAllLines
        \/ SwitchAutoCreated
        \/ \E s \in StatsLines : ClickStatistic(s)
        \/ ShowAllStatistics

-----------------------------------------------------------------------------
\* ChartsAgree: what the console says of a capture does not depend on where
\* it says it.  For every point of a table's trend, the row of the table
\* list, the trend and the chart of the indexes in each of its three views
\* have the same highest fragmentation, and the row, the trend and the chart
\* of the statistics count the same stale ones (mapCatalogTableSummary,
\* getCatalogTableHistory, getCatalogIndexHistory, getCatalogStatsHistory,
\* buildIndexChartModel).
ChartsAgree ==
  \A t \in ChartTables :
    LET trend   == TableHistory(docs[t])
        indexes == IndexHistory(docs[t])
        stats   == StatsHistory(docs[t])
    IN  \A r \in DOMAIN trend :
          /\ trend[r] = Summary(LastOf(docs[t], OfRun(docs[t], r)))
          /\ \A view \in ViewModes :
               LET row == ChartRow(indexes, view, r)
               IN  Highest({row[line] : line \in DOMAIN row}) = trend[r].frag
          /\ trend[r].stale =
               Cardinality({s \in DOMAIN stats : r \in DOMAIN stats[s] /\ stats[s][r] > 0})
=============================================================================
