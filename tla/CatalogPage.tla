---------------------------- MODULE CatalogPage ----------------------------
(***************************************************************************)
(* The selection of the catalog page (CatalogView.tsx): a database, a      *)
(* schema and a table, each chosen by the DBA or by an effect from a list  *)
(* that a query loads for the choices before it.  A change of a choice     *)
(* changes the key of the queries behind it: their data is gone until the  *)
(* answer comes, or is an earlier answer that the cache still holds.       *)
(*                                                                         *)
(* The effects of one render all run before the next click, from the       *)
(* values of that render: CatalogEffects is their joint result.  What the  *)
(* API tells of a cluster changes with captures and configurations:        *)
(* Contents[c] lists its contents one after another.  Errors of a query    *)
(* leave its data as it was.                                               *)
(***************************************************************************)
EXTENDS ConsoleStore

CONSTANTS Contents,       (* Contents[c]: what the API tells of c, in time   *)
          MaxCatalogClicks  (* bound: choices in one visit of the page       *)

\* What is listed is a list of names; a cluster has a content from the start.
ASSUME ContentsAssumption ==
  \A c \in DOMAIN Contents :
    /\ Len(Contents[c]) \in Nat \ {0}
    /\ \A v \in 1 .. Len(Contents[c]) :
         \A lists \in {Contents[c][v].schemas, Contents[c][v].tables} :
           \A key \in DOMAIN lists : lists[key] \in Seq(STRING)

VARIABLES version,  (* version[c]: how far Contents[c] has come              *)
          catalog   (* the page                                              *)

catalogVars == <<store, version, catalog>>

-----------------------------------------------------------------------------
(* What the API answers, under the v-th content of a cluster: the          *)
(* databases, schemas and tables, the schemas that the configuration       *)
(* lists, and the runs of a database, newest first.                        *)

Databases(c, v) == Contents[c][v].databases

Of(answers, key) == IF key \in DOMAIN answers THEN answers[key] ELSE <<>>

Schemas(c, v, db) == Of(Contents[c][v].schemas, db)

Tables(c, v, db, schema) == Of(Contents[c][v].tables, <<db, schema>>)

Runs(c, v, db) == Of(Contents[c][v].runs, db)

Versions(c) == IF c = Null THEN {} ELSE 1 .. version[c]

\* The data of a query right after its key has become another.
AtNewKey(c, enabled, Answer(_)) ==
  {Null} \cup (IF enabled THEN {Answer(v) : v \in Versions(c)} ELSE {})

-----------------------------------------------------------------------------
(* The page.  dialog: the details of a table, or Null.                     *)

NoCatalog ==
  [ database |-> "", schema |-> "", table |-> "",
    databases |-> Null, schemas |-> Null, tables |-> Null, config |-> Null,
    dialog |-> Null, command |-> Null, clicks |-> 0 ]

HasItems(list) == list # Null /\ list # <<>>

FirstOrNone(list) == IF HasItems(list) THEN list[1] ELSE ""

\* The tables of the page with the choices of p.
TablesAtKey(c, p, old, same) ==
  IF same THEN {old}
  ELSE AtNewKey(c, p.database # "" /\ p.schema # "",
                LAMBDA v : Tables(c, v, p.database, p.schema))

SchemasAtKey(c, p, old, same) ==
  IF same THEN {old}
  ELSE AtNewKey(c, p.database # "", LAMBDA v : Schemas(c, v, p.database))

RunsAtKey(c, p, old, same) ==
  IF same THEN {old}
  ELSE AtNewKey(c, p.database # "", LAMBDA v : Runs(c, v, p.database))

DialogWith(dialog, tab, runs) == [dialog EXCEPT !.tab = tab, !.runs = runs]

\* An open dialog shows the statistics of another database, and asks for its
\* runs when it is opened.
DialogsAtKey(c, old, new, newDb) ==
  LET opened   == old.dialog = Null
      shownTab == IF new.database # old.database THEN "statistics" ELSE new.dialog.tab
  IN  IF new.dialog = Null THEN {Null}
      ELSE {DialogWith(new.dialog, shownTab, r) :
              r \in RunsAtKey(c, new, new.dialog.runs, ~newDb /\ ~opened)}

WithAnswers(p, s, t, d) == [p EXCEPT !.schemas = s, !.tables = t, !.dialog = d]

\* The page with other choices, under another cluster or the same: each query
\* whose key changes starts again.
Requeried(c, old, new, moved) ==
  LET newDb == moved \/ new.database # old.database
  IN  {WithAnswers(new, s, t, d) :
         s \in SchemasAtKey(c, new, old.schemas, ~newDb),
         t \in TablesAtKey(c, new, old.tables, ~newDb /\ new.schema = old.schema),
         d \in DialogsAtKey(c, old, new, newDb)}

\* Mutant: the preferred schema is taken without a look at the list.
PreferredSchemaUnlisted(p) ==
  LET wanted == IF p.config = Null THEN <<>> ELSE Of(p.config, p.database)
  IN  IF wanted # <<>> THEN wanted[1] ELSE p.schemas[1]

\* The schema the effect prefers: a configured one that is listed.
PreferredSchema(p) ==
  LET Listed(s) == s \in ToSet(p.schemas)
      wanted == IF p.config = Null THEN <<>>
                ELSE SelectSeq(Of(p.config, p.database), Listed)
  IN  IF wanted # <<>> THEN wanted[1] ELSE p.schemas[1]

ChosenDatabase(p) ==
  IF p.database = "" THEN FirstOrNone(p.databases)
  ELSE IF p.databases # Null /\ p.database \notin ToSet(p.databases)
       THEN FirstOrNone(p.databases)
  ELSE p.database

ChosenSchema(p) ==
  IF p.database = "" \/ ~HasItems(p.schemas) THEN ""
  ELSE IF p.schema \in ToSet(p.schemas) THEN p.schema
  ELSE PreferredSchema(p)

ChosenTable(p) ==
  IF ~HasItems(p.tables) THEN ""
  ELSE IF p.table \in ToSet(p.tables) THEN p.table
  ELSE p.tables[1]

ChosenDialog(p) ==
  IF p.dialog = Null THEN Null
  ELSE IF HasItems(p.dialog.runs) /\ p.dialog.run \in ToSet(p.dialog.runs) THEN p.dialog
  ELSE [p.dialog EXCEPT !.run = FirstOrNone(p.dialog.runs)]

AfterEffects(p) ==
  [p EXCEPT !.database = ChosenDatabase(p), !.schema = ChosenSchema(p),
            !.table = ChosenTable(p), !.dialog = ChosenDialog(p)]

CatalogRested == AfterEffects(catalog) = catalog

CatalogEffects ==
  /\ ~CatalogRested
  /\ catalog' \in Requeried(store.cluster, catalog, AfterEffects(catalog), FALSE)
  /\ UNCHANGED <<store, version>>

\* The page as it is mounted.
MountedWith(d, k) == [NoCatalog EXCEPT !.databases = d, !.config = k]

Mounted(c) ==
  {MountedWith(d, k) :
     d \in AtNewKey(c, c # Null, LAMBDA v : Databases(c, v)),
     k \in AtNewKey(c, c # Null, LAMBDA v : Contents[c][v].configured)}

\* Every key holds the cluster: the choices stay and all the data goes.
UnderCluster(c) ==
  UNION {Requeried(c, catalog,
                   [catalog EXCEPT !.databases = m.databases, !.config = m.config], TRUE) :
         m \in Mounted(c)}

-----------------------------------------------------------------------------
(* Answers.  One that arrives is that of the cluster's present content.    *)

AnswerComes(field, answer) ==
  /\ catalog[field] # answer
  /\ catalog' = [catalog EXCEPT ![field] = answer]
  /\ UNCHANGED <<store, version>>

Newest(c) == version[c]

FetchDatabases ==
  store.cluster # Null /\ AnswerComes("databases", Databases(store.cluster, Newest(store.cluster)))

FetchConfig ==
  store.cluster # Null /\ AnswerComes("config", Contents[store.cluster][Newest(store.cluster)].configured)

FetchSchemas ==
  /\ store.cluster # Null /\ catalog.database # ""
  /\ AnswerComes("schemas", Schemas(store.cluster, Newest(store.cluster), catalog.database))

FetchTables ==
  /\ store.cluster # Null /\ catalog.database # "" /\ catalog.schema # ""
  /\ AnswerComes("tables", Tables(store.cluster, Newest(store.cluster), catalog.database, catalog.schema))

FetchSnapshots ==
  /\ store.cluster # Null /\ catalog.database # "" /\ catalog.dialog # Null
  /\ LET runs == Runs(store.cluster, Newest(store.cluster), catalog.database)
     IN  AnswerComes("dialog", [catalog.dialog EXCEPT !.runs = runs])

CatalogFetch ==
  FetchDatabases \/ FetchConfig \/ FetchSchemas \/ FetchTables \/ FetchSnapshots

\* A capture or a saved configuration of a cluster.
ContentChanges(c) ==
  /\ version[c] < Len(Contents[c])
  /\ version' = [version EXCEPT ![c] = @ + 1]
  /\ UNCHANGED <<store, catalog>>

-----------------------------------------------------------------------------
(* The DBA.                                                                *)

CatalogClick(new) ==
  /\ catalog' \in Requeried(store.cluster, catalog, [new EXCEPT !.clicks = @ + 1], FALSE)
  /\ UNCHANGED <<store, version>>

ChooseDatabase ==
  /\ catalog.dialog = Null /\ HasItems(catalog.databases)
  /\ \E db \in ToSet(catalog.databases) \ {catalog.database} :
       CatalogClick([catalog EXCEPT !.database = db])

ChooseSchema ==
  /\ catalog.dialog = Null /\ HasItems(catalog.schemas)
  /\ \E s \in ToSet(catalog.schemas) \ {catalog.schema} :
       CatalogClick([catalog EXCEPT !.schema = s])

\* By the filter bar or by a row: a row has the schema that is selected.
ChooseTable ==
  /\ catalog.dialog = Null /\ HasItems(catalog.tables)
  /\ \E t \in ToSet(catalog.tables) \ {catalog.table} :
       CatalogClick([catalog EXCEPT !.table = t])

OpenDetails ==
  /\ catalog.dialog = Null /\ HasItems(catalog.tables)
  /\ \E t \in ToSet(catalog.tables) :
       CatalogClick([catalog EXCEPT !.dialog =
         [schema |-> catalog.schema, table |-> t, tab |-> "statistics", run |-> "", runs |-> Null]])

CloseDetails ==
  /\ catalog.dialog # Null
  /\ CatalogClick([catalog EXCEPT !.dialog = Null])

\* "indexes" works as "statistics" and "history" as "overview".
SelectTab ==
  /\ catalog.dialog # Null
  /\ \E tab \in {"overview", "statistics"} \ {catalog.dialog.tab} :
       CatalogClick([catalog EXCEPT !.dialog.tab = tab])

SelectSnapshot ==
  /\ catalog.dialog # Null
  /\ catalog.dialog.tab = "statistics"
  /\ HasItems(catalog.dialog.runs)
  /\ \E r \in ToSet(catalog.dialog.runs) \ {catalog.dialog.run} :
       CatalogClick([catalog EXCEPT !.dialog.run = r])

\* "Run filtered": the command is on its way until the API has stored it.
RunFiltered ==
  /\ catalog.dialog = Null
  /\ catalog.command = Null
  /\ "" \notin {catalog.database, catalog.schema, catalog.table}
  /\ CatalogClick([catalog EXCEPT !.command =
       [ cluster |-> store.cluster, database |-> catalog.database,
         schema |-> catalog.schema, table |-> catalog.table ]])

CommandStored ==
  /\ catalog.command # Null
  /\ catalog' = [catalog EXCEPT !.command = Null]
  /\ UNCHANGED <<store, version>>

\* A click finds the effects of the last render done.
CatalogUser ==
  /\ catalog.clicks < MaxCatalogClicks
  /\ CatalogRested
  /\ \/ ChooseDatabase \/ ChooseSchema \/ ChooseTable \/ OpenDetails
     \/ CloseDetails \/ SelectTab \/ SelectSnapshot \/ RunFiltered

CatalogStep == CatalogEffects \/ CatalogFetch \/ CatalogUser \/ CommandStored

-----------------------------------------------------------------------------
\* CommandsAreListed: what "Run filtered" asks a capture of is a table that
\* the API has listed for that cluster, database and schema together.  The
\* three choices and the three lists change at different times, by clicks,
\* effects and answers in any order, and the cluster changes above them.
CommandsAreListed ==
  LET k == catalog.command
  IN  k # Null => \E v \in Versions(k.cluster) :
                    k.table \in ToSet(Tables(k.cluster, v, k.database, k.schema))

Follows(choice, list) == IF HasItems(list) THEN choice \in ToSet(list) ELSE choice = ""

\* The first answer to a key is on its way; later ones need a reason.
DatabasesPending == store.cluster # Null /\ catalog.databases = Null
SchemasPending   == store.cluster # Null /\ catalog.database # "" /\ catalog.schemas = Null
TablesPending    == store.cluster # Null /\ catalog.schema # "" /\ catalog.tables = Null
RunsPending      == catalog.dialog # Null /\ catalog.database # "" /\ catalog.dialog.runs = Null

\* The page has come to rest: every list is one that the API gave for the
\* choices before it, and each choice is one of its list.
CatalogSettled ==
  LET c == store.cluster
  IN  /\ catalog.databases \in {Databases(c, v) : v \in Versions(c)}
      /\ catalog.database # "" =>
           catalog.schemas \in {Schemas(c, v, catalog.database) : v \in Versions(c)}
      /\ catalog.schema # "" =>
           catalog.tables \in {Tables(c, v, catalog.database, catalog.schema) : v \in Versions(c)}
      /\ Follows(catalog.database, catalog.databases)
      /\ catalog.database # "" => Follows(catalog.schema, catalog.schemas)
      /\ catalog.schema # "" => Follows(catalog.table, catalog.tables)
      /\ catalog.dialog # Null /\ catalog.database # "" =>
           Follows(catalog.dialog.run, catalog.dialog.runs)
=============================================================================
