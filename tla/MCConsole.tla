----------------------------- MODULE MCConsole -----------------------------
EXTENDS Console

\* Two clusters that are enabled, and c3 that no longer is.  c1 has two
\* contents: its first database goes, and the one that is left gets another
\* schema, which its configuration prefers.
Content(dbs, schemas, tables, configured, runs) ==
  [ databases |-> dbs, schemas |-> schemas, tables |-> tables,
    configured |-> configured, runs |-> runs ]

MCContents ==
  ("c1" :> <<
     Content(<<"d1", "d2">>, "d1" :> <<"s1", "s2">> @@ "d2" :> <<"s1">>,
             (<<"d1", "s1">> :> <<"t1">>) @@ (<<"d1", "s2">> :> <<"t1", "t2">>)
               @@ (<<"d2", "s1">> :> <<"t3">>),
             "d1" :> <<"s2">>, "d1" :> <<"r1">>),
     Content(<<"d2">>, "d2" :> <<"s1", "s2">>,
             (<<"d2", "s1">> :> <<>>) @@ (<<"d2", "s2">> :> <<"t3">>),
             "d2" :> <<"s2">>, "d2" :> <<"r2", "r1">>) >>)
  @@ ("c2" :> <<
     Content(<<"d1">>, "d1" :> <<"s1">>, <<"d1", "s1">> :> <<"t2">>, <<>>, <<>>) >>)
  @@ ("c3" :> << Content(<<>>, <<>>, <<>>, <<>>, <<>>) >>)

\* The browser kept a cluster that is disabled now, or nothing.
MCStarts == [ r \in {"catalog", "campaign", "dashboard", "form"} |->
                { [kept |-> IF r \in {"catalog", "campaign"} THEN "c3" ELSE Null,
                   enabled |-> <<"c1", "c2">>] } ]

\* What is edited: a scope that is listed, one that is not any more, none.
MCScopesToEdit ==
  { [database |-> "d1", schema |-> "s2", tables |-> {"t2"}],
    [database |-> "d9", schema |-> "s1", tables |-> {}], Null }

MCCampaignsOf == "c1" :> <<"k1", "k2">> @@ "c2" :> <<"k3">> @@ "c3" :> <<>>
MCItemsOf     == "k1" :> <<1, 2>> @@ "k2" :> <<>> @@ "k3" :> <<3>>

NoMetrics == [m \in Metrics |-> Null]

F(id, cluster, topic, severity, at, blocked, hash, replica) ==
  [ id |-> id, cluster |-> cluster, topic |-> topic, severity |-> severity,
    at |-> at, blocked |-> blocked, hash |-> hash, replica |-> replica,
    node |-> "", numa |-> Null, suspended |-> FALSE, m |-> NoMetrics ]

\* A reading of c4, which only the previews look at.
R(id, topic, at, m) ==
  [F(id, "c4", topic, "INFO", at, FALSE, "", "") EXCEPT !.m = m @@ NoMetrics]

\* Three replicas, two of which have one key, one of them known by its node;
\* two readings of a replica in one bucket, two of one key in others, one at
\* the end of the range, one a minute after, and some of earlier ranges.
GroupReadings(topic, id) ==
  { [R(id, topic, 20140, "queue" :> 4 @@ "rate" :> 5) EXCEPT !.replica = "A-1"],
    [R(id + 1, topic, 20142, "rate" :> 6) EXCEPT !.replica = "R"],
    [R(id + 2, topic, 20143, "rate" :> 7 @@ "lag" :> 0 - 2) EXCEPT !.replica = "R"],
    [R(id + 3, topic, 20200, "queue" :> 9) EXCEPT !.node = "A_1", !.suspended = TRUE],
    [R(id + 4, topic, 20201, "rate" :> 3 @@ "lag" :> 8) EXCEPT !.replica = "A-1"],
    [R(id + 5, topic, 20083, "queue" :> 2) EXCEPT !.replica = "R"],
    [R(id + 6, topic, 10090, "queue" :> 1) EXCEPT !.replica = "A-1"],
    [R(id + 7, topic, 20082, "queue" :> 3) EXCEPT !.replica = "A-1"],
    [R(id + 8, topic, 20083, "queue" :> 5) EXCEPT !.node = "A_1"] }

MemoryReadings ==
  { R(31, "ple_trend", 20142, "ple" :> 4 @@ "baseline" :> 8),
    R(32, "ple_trend", 20143, "baseline" :> 8),
    R(33, "ple_trend", 20200, "ple" :> 9 @@ "baseline" :> 0),
    R(34, "ple_trend", 20083, "ple" :> 3 @@ "deviation" :> 50),
    [R(41, "tempdb_memory", 20142, "ple" :> 5) EXCEPT !.numa = "n-0"],
    [R(46, "tempdb_memory", 20143, "ple" :> 8) EXCEPT !.numa = "n_0"],
    R(42, "tempdb_memory", 20143, "ple" :> 6 @@ "used" :> 10),
    R(43, "tempdb_memory", 20143, "used" :> 12 @@ "store" :> 7),
    R(44, "tempdb_memory", 20200, "grants" :> 1),
    R(45, "tempdb_memory", 20083, "used" :> 9) }

\* One is detected right at the end of a range, one is of another severity.
MCFindings ==
  { F(1, "c1", "slow_sessions", "CRITICAL", 20142, TRUE, "AB", ""),
    F(2, "c1", "slow_sessions", "WARNING", 20200, FALSE, "", ""),
    F(3, "c2", "ag_health", "INFO", 20201, FALSE, "", "R"),
    F(4, "c1", "ag_health", "CRITICAL", 20150, FALSE, "", "S") }
  \cup GroupReadings("ag_health", 11) \cup GroupReadings("ag_redo_secondary", 21)
  \cup MemoryReadings

\* A range that no bucket fits, one that ends in what is to come, one that is
\* empty, and the week, which begins forty minutes before.
MCPreviewRanges ==
  {Preset("this_week"), [mode |-> "absolute", from |-> 20200, to |-> 20200],
   [mode |-> "absolute", from |-> 20141, to |-> 20144],
   [mode |-> "absolute", from |-> 20199, to |-> 20201]}

\* The names of replicas and of NUMA nodes.
MCKeyOf == [name \in {"R", "S"} |-> name] @@ [name \in {"A-1", "A_1"} |-> "A_1"]
             @@ [name \in {"n-0", "n_0"} |-> "n_0"]

MCThresholds == [m \in {"queue", "suspended", "ple"} |-> [warning |-> 5, critical |-> 9]]

MCTopics == <<"slow_sessions", "ag_health">>

MCCustomRanges == {<<19601, 20200>>, <<20200, 20190>>}

\* A heap, a partitioned index, an index that becomes partitioned; stale
\* statistics and others.
MCShapes ==
  ("B" :> {[indexes |-> (1 :> <<10, 40>>), stats |-> ("a" :> 1 @@ "m" :> 0)]})
  @@ ("A" :> {
       [indexes |-> (1 :> <<10, 40>>), stats |-> ("a" :> 1)],
       [indexes |-> (1 :> <<10, 20>> @@ 2 :> <<30>>), stats |-> ("a" :> 0)],
       [indexes |-> (1 :> <<20>> @@ 2 :> <<Null>>), stats |-> ("a" :> 0 @@ "m" :> 2)],
       [indexes |-> <<>>, stats |-> <<>>] })
=============================================================================
