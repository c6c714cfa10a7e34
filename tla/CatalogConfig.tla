---------------------------- MODULE CatalogConfig ----------------------------
(***************************************************************************)
(* What is captured of a cluster's databases: the scope a DBA edits in the *)
(* console (ScopeEditor.tsx), the document the API stores                  *)
(* (putCatalogConfig), the captures the runner makes of it, by the nightly *)
(* job or by a command from the web, and the databases, schemas and tables *)
(* the API then lists for the forms of the console.                        *)
(*                                                                         *)
(* One page is modelled step by step; the pages of other DBAs only as the  *)
(* documents they save.  The checkbox "capture enabled" is left out: it    *)
(* makes a page dirty and stops the nightly job, and here a page may       *)
(* always be saved and the job need not run.                               *)
(***************************************************************************)
EXTENDS Naturals, Sequences, FiniteSets, SequencesExt

CONSTANTS Typed,     (* the scope entries a DBA may enter                 *)
          Folded,      (* Folded[n]: the name n in lower case               *)
          Server,      (* the tables of a database, as [schema, table]      *)
          MaxEntries,  (* bound: entries of one configuration               *)
          MaxPuts,     (* bound: writes of the configuration                *)
          MaxCommands, (* bound: commands that wait                         *)
          Null

VARIABLES
  stored,    (* the catalog configuration of the cluster, or Null           *)
  page,      (* the ScopeEditor of one DBA                                  *)
  commands,  (* the scopes of the run_catalog commands that are pending     *)
  capture,   (* what the run under the catalog lock still has to capture    *)
  latest     (* latest[db]: what the newest run of db captured, or Null     *)

vars == <<stored, page, commands, capture, latest>>

\* An entry without tables stands for all tables of its schema.
Databases == {e.db : e \in Typed}
Schemas   == {e.schema : e \in Typed} \cup {d.schema : d \in Server}
Tables    == (UNION {e.tables : e \in Typed}) \cup {d.table : d \in Server}

Scope == [db : Databases, schema : Schemas, tables : SUBSET Tables]

ASSUME CatalogAssumption ==
  /\ MaxEntries \in Nat /\ MaxPuts \in Nat /\ MaxCommands \in Nat
  /\ Typed \subseteq Scope
  /\ \A names \in SUBSET Tables : names # Null

-----------------------------------------------------------------------------
(* Entries that would capture the same table twice.                        *)

\* Mutant: an entry for all tables meets no list of tables.
TablesMeetByName(S, T) == \E s \in S, t \in T : Folded[s] = Folded[t]

TablesMeet(S, T) ==
  S = {} \/ T = {} \/ \E s \in S, t \in T : Folded[s] = Folded[t]

\* Mutant: databases are compared as they were typed.
SameSchemaAsTyped(e, f) == e.db = f.db /\ Folded[e.schema] = Folded[f.schema]

SameSchema(e, f) == Folded[e.db] = Folded[f.db] /\ Folded[e.schema] = Folded[f.schema]

\* The check of the modal, against every entry but the one it edits.
Conflict(entries, index, entry) ==
  \E i \in DOMAIN entries :
    /\ i # index
    /\ SameSchema(entries[i], entry)
    /\ TablesMeet(entries[i].tables, entry.tables)

\* The check of the API, within one database of the document.
Overlapping(entries) ==
  \E i, j \in DOMAIN entries :
    /\ i # j
    /\ entries[i].db = entries[j].db
    /\ Folded[entries[i].schema] = Folded[entries[j].schema]
    /\ TablesMeet(entries[i].tables, entries[j].tables)

\* entriesToConfig: the document groups the entries by database, in the order
\* in which the databases come first and with the entries of each in theirs.
BeforeDatabase(entries, i) ==
  Cardinality({j \in DOMAIN entries : \A g \in 1..j : entries[g].db # entries[i].db})

UpTo(entries, i) ==
  {j \in DOMAIN entries :
     \/ BeforeDatabase(entries, j) < BeforeDatabase(entries, i)
     \/ BeforeDatabase(entries, j) = BeforeDatabase(entries, i) /\ j <= i}

EntryAt(entries, k) == CHOOSE i \in DOMAIN entries : Cardinality(UpTo(entries, i)) = k

Grouped(entries) == [k \in DOMAIN entries |-> entries[EntryAt(entries, k)]]

-----------------------------------------------------------------------------
(* The lists the API answers with.                                         *)

ScopeOf(db) ==
  IF stored = Null THEN {} ELSE {e \in ToSet(stored.entries) : e.db = db}

ListCatalogDatabases ==
  IF stored # Null /\ stored.entries # <<>>
  THEN {e.db : e \in ToSet(stored.entries)}
  ELSE {db \in Databases : latest[db] # Null}

ListCatalogSchemas(db) ==
  IF ScopeOf(db) # {} THEN {e.schema : e \in ScopeOf(db)}
  ELSE IF latest[db] = Null THEN {} ELSE {d.schema : d \in latest[db]}

\* getConfigTableNames: Null as soon as one entry asks for all tables.
ConfigTableNames(db, schema) ==
  LET es == {e \in ScopeOf(db) : e.schema = schema}
  IN  IF es = {} \/ \E e \in es : e.tables = {} THEN Null
      ELSE UNION {e.tables : e \in es}

ListCatalogTables(db, schema) ==
  IF ConfigTableNames(db, schema) # Null THEN ConfigTableNames(db, schema)
  ELSE IF latest[db] = Null THEN {}
  ELSE {d.table : d \in {x \in latest[db] : x.schema = schema}}

\* validateScopeAgainstCatalogConfig, for the one database and schema a
\* campaign form chooses: the tables of the entries are merged, and an
\* empty merge stands for all tables.
ScopeIsValid(db, schema, tables) ==
  LET es     == {e \in ScopeOf(db) : e.schema = schema}
      merged == UNION {e.tables : e \in es}
  IN  /\ es # {}
      /\ merged = {} \/ tables = {} \/ tables \subseteq merged

-----------------------------------------------------------------------------
(* The page.  Its copy of the server's entries is that of the              *)
(* configuration it fetched last; an index of 0 is none.                   *)

ServerEntries(p) == IF p.config = Null THEN <<>> ELSE p.config.entries

\* Mutant: the modal goes on editing the index it was opened with.
SyncedKeepsIndex(config, p) ==
  [p EXCEPT !.config = config, !.entries = IF config = Null THEN <<>> ELSE config.entries]

Synced(config, p) ==
  LET q == [p EXCEPT !.config = config, !.index = 0]
  IN  [q EXCEPT !.entries = ServerEntries(q)]

EmptyPage == [config |-> Null, entries |-> <<>>, modal |-> FALSE, index |-> 0,
              sent |-> Null]


Init ==
  /\ stored = Null
  /\ page = EmptyPage
  /\ commands = {}
  /\ capture = {}
  /\ latest = [db \in Databases |-> Null]

runnerVars == <<commands, capture, latest>>

\* The query answers; new data replaces what was edited, not the modal.
Fetch ==
  /\ page.config # stored
  /\ page' = Synced(stored, page)
  /\ UNCHANGED <<stored, runnerVars>>

OpenModal ==
  /\ ~page.modal
  /\ \E i \in 0..Len(page.entries) :
       page' = [page EXCEPT !.modal = TRUE, !.index = i]
  /\ UNCHANGED <<stored, runnerVars>>

CloseModal ==
  /\ page.modal
  /\ page' = [page EXCEPT !.modal = FALSE, !.index = 0]
  /\ UNCHANGED <<stored, runnerVars>>

\* An entry replaces the one that is edited, or is appended.
SaveEntry(entry) ==
  /\ page.modal
  /\ ~Conflict(page.entries, page.index, entry)
  /\ page.index = 0 => Len(page.entries) < MaxEntries
  /\ page' = [page EXCEPT !.modal = FALSE, !.index = 0,
                          !.entries = IF page.index = 0 THEN Append(@, entry)
                                      ELSE [@ EXCEPT ![page.index] = entry]]
  /\ UNCHANGED <<stored, runnerVars>>

DeleteEntry ==
  /\ ~page.modal
  /\ \E i \in DOMAIN page.entries : page' = [page EXCEPT !.entries = RemoveAt(@, i)]
  /\ UNCHANGED <<stored, runnerVars>>

Discard ==
  /\ ~page.modal /\ page.sent = Null
  /\ page' = Synced(page.config, page)
  /\ UNCHANGED <<stored, runnerVars>>

SaveConfig ==
  /\ ~page.modal /\ page.sent = Null
  /\ page' = [page EXCEPT !.sent = Grouped(page.entries)]
  /\ UNCHANGED <<stored, runnerVars>>

-----------------------------------------------------------------------------
(* The API: the whole document is replaced and stamped.                    *)

Puts == IF stored = Null THEN 0 ELSE stored.updatedAt

Replace(entries) ==
  /\ Puts < MaxPuts
  /\ ~Overlapping(entries)
  /\ stored' = [entries |-> entries, updatedAt |-> Puts + 1]

PutCatalogConfig ==
  /\ page.sent # Null
  /\ Replace(page.sent)
  /\ page' = [page EXCEPT !.sent = Null]
  /\ UNCHANGED runnerVars

\* The request is refused or does not arrive; the edits are kept.
PutFails ==
  /\ page.sent # Null
  /\ page' = [page EXCEPT !.sent = Null]
  /\ UNCHANGED <<stored, runnerVars>>

\* Another DBA's page saves what it built, entry by entry, as this one does.
SavedElsewhere ==
  /\ \E n \in 0..MaxEntries : \E entries \in [1..n -> Typed] :
       /\ \A i \in 1..n : ~Conflict(entries, i, entries[i])
       /\ Replace(Grouped(entries))
  /\ UNCHANGED <<page, runnerVars>>

\* createMaintenanceCommand: a capture of one entry, or of one table.
Request(scope) ==
  /\ Cardinality(commands) < MaxCommands
  /\ commands' = commands \cup {scope}
  /\ UNCHANGED <<stored, page, capture, latest>>

\* entryIsDirty compares the first entries of that database and schema.
FirstOf(entries, e) ==
  LET same(f) == f.db = e.db /\ f.schema = e.schema
      found   == SelectSeq(entries, same)
  IN  IF found = <<>> THEN Null ELSE Head(found)

EntryIsDirty(e) ==
  \/ FirstOf(ServerEntries(page), e) = Null
  \/ FirstOf(page.entries, e) # FirstOf(ServerEntries(page), e)

RunCapture ==
  /\ ~page.modal
  /\ \E i \in DOMAIN page.entries : ~EntryIsDirty(page.entries[i])
                                    /\ Request(page.entries[i])

\* "Run filtered" of the catalog view, on what its three lists offer.
RunFiltered ==
  \E db \in ListCatalogDatabases : \E schema \in ListCatalogSchemas(db) :
    \E table \in ListCatalogTables(db, schema) :
      Request([db |-> db, schema |-> schema, tables |-> {table}])

-----------------------------------------------------------------------------
(* The runner: the nightly job and the thread that polls commands share    *)
(* the catalog lock of the cluster.                                        *)

JobBegins ==
  /\ capture = {} /\ stored # Null
  /\ capture' = ToSet(stored.entries)
  /\ UNCHANGED <<stored, page, commands, latest>>

\* The command is RUNNING from here on, whatever becomes of its capture; one
\* that finds the lock taken is PENDING again.  Its scope is captured
\* whatever the configuration says.
CommandBegins ==
  /\ capture = {}
  /\ \E scope \in commands : /\ capture' = {scope}
                             /\ commands' = commands \ {scope}
  /\ UNCHANGED <<stored, page, latest>>

\* The server compares names without regard to case and answers with its own.
OnServer(e) ==
  {d \in Server : /\ Folded[d.schema] = Folded[e.schema]
                  /\ e.tables = {} \/ \E t \in e.tables : Folded[t] = Folded[d.table]}

\* All entries of one database; a table that fails is left out, and what
\* was captured is stored at the end, under the database's configured name.
CaptureDatabase ==
  /\ \E db \in {e.db : e \in capture} :
       LET mine == {e \in capture : e.db = db}
       IN  /\ \E docs \in SUBSET UNION {OnServer(e) : e \in mine} :
                latest' = IF docs = {} THEN latest ELSE [latest EXCEPT ![db] = docs]
           /\ capture' = capture \ mine
  /\ UNCHANGED <<stored, page, commands>>

\* A connection raises and ends the run, or the runner dies.
CaptureFails ==
  /\ capture # {}
  /\ capture' = {}
  /\ UNCHANGED <<stored, page, commands, latest>>

-----------------------------------------------------------------------------
Editor ==
  \/ Fetch \/ OpenModal \/ CloseModal \/ DeleteEntry
  \/ Discard \/ SaveConfig \/ RunCapture \/ RunFiltered
  \/ \E entry \in Typed : SaveEntry(entry)

Api == PutCatalogConfig \/ PutFails \/ SavedElsewhere

Runner == JobBegins \/ CommandBegins \/ CaptureDatabase \/ CaptureFails

Next == Editor \/ Api \/ Runner

Spec == Init /\ [][Next]_vars

-----------------------------------------------------------------------------
(* Properties.                                                             *)

Disjoint(entries) ==
  \A i, j \in DOMAIN entries :
    i # j /\ Folded[entries[i].db] = Folded[entries[j].db]
          /\ Folded[entries[i].schema] = Folded[entries[j].schema]
      => /\ entries[i].tables # {} /\ entries[j].tables # {}
         /\ \A t \in entries[i].tables, u \in entries[j].tables : Folded[t] # Folded[u]

\* Types: an index names an entry, also after the entries were replaced
\* under an open modal.
CatalogTypeOK ==
  /\ stored # Null => /\ stored.entries \in Seq(Scope)
                      /\ stored.updatedAt \in 1..MaxPuts
  /\ page.entries \in Seq(Scope)
  /\ page.index \in 0..Len(page.entries)
  /\ commands \cup capture \subseteq Scope
  /\ \A db \in Databases : latest[db] = Null \/ latest[db] \subseteq Server

\* No table is in two entries of the stored configuration, whatever the
\* spelling of its database, schema or name (the key of an entry is
\* (database, schema, table), catalog-service.ts).  The API looks within one
\* spelling of a database only: the rest is up to the pages, whose entries
\* may be replaced by a fetch while one is being edited.
StoredEntriesDisjoint == stored # Null => Disjoint(stored.entries)

\* The campaign form offers what createCampaign then accepts: with a
\* configuration that names databases, every database, schema and choice of
\* tables the API lists passes the API's own validation, although the lists
\* fall back to captures where the validation merges the entries.
ListedIsAccepted ==
  stored # Null /\ stored.entries # <<>> =>
    \A db \in ListCatalogDatabases : \A schema \in ListCatalogSchemas(db) :
      \A tables \in SUBSET ListCatalogTables(db, schema) :
        ScopeIsValid(db, schema, tables)

=============================================================================
