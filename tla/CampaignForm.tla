---------------------------- MODULE CampaignForm ----------------------------
(***************************************************************************)
(* The scope a campaign is given in its dialog (CampaignForm.tsx): the     *)
(* first database and the first schema are chosen by effects, the others   *)
(* and the tables by the DBA, from the lists that CatalogPage describes.   *)
(* Another list of databases fills in the whole form anew, under the       *)
(* DBA's hands too.  What the form says of thresholds and dates, and what  *)
(* the API makes of it, is in Campaigns.                                   *)
(***************************************************************************)
EXTENDS CatalogPage

CONSTANTS ScopesToEdit,  (* first database and schema of campaigns, or Null  *)
          ExecutionTypes, (* index, statistic, heap; they work alike         *)
          MaxFormClicks  (* bound: what one DBA does in the dialog           *)

\* The API stores no campaign with an empty name in its scope.
ASSUME ScopesAssumption ==
  \A scope \in ScopesToEdit \ {Null} : scope.database # "" /\ scope.schema # ""

VARIABLE form

NoSent == [cluster |-> Null, mode |-> "none", scope |-> Null, edited |-> Null]

\* EMPTY_FORM.  filled: the name and the dates that the mode asks for are
\* there.  lists: databases, schemas, tables, each for its key.
EmptyForm ==
  [ open |-> FALSE, mode |-> "create", edited |-> Null,
    database |-> "", schema |-> "", tableMode |-> "all", selected |-> {},
    types |-> ExecutionTypes, filled |-> FALSE, error |-> FALSE,
    databases |-> Null, schemas |-> Null, tables |-> Null, ready |-> FALSE,
    sent |-> NoSent, clicks |-> 0 ]

-----------------------------------------------------------------------------
(* Filling in.                                                             *)

\* What no effect and no list has a say in.
Blank(f) ==
  LET kept == {"open", "mode", "edited", "databases", "schemas", "tables", "ready", "sent", "clicks"}
  IN  [field \in DOMAIN EmptyForm |-> IF field \in kept THEN f[field] ELSE EmptyForm[field]]

\* The effect on [campaign, open, databases].
FilledIn(f) ==
  IF ~f.open THEN Blank(f)
  ELSE IF f.mode = "create"
  THEN [Blank(f) EXCEPT !.database = IF HasItems(f.databases) THEN f.databases[1] ELSE f.database]
  ELSE IF f.edited = Null
  THEN [Blank(f) EXCEPT !.filled = TRUE, !.database = FirstOrNone(f.databases)]
  ELSE [Blank(f) EXCEPT !.filled = TRUE,
          !.database = f.edited.database, !.schema = f.edited.schema,
          !.selected = f.edited.tables,
          !.tableMode = IF f.edited.tables = {} THEN "all" ELSE "specific"]

WithLists(f, s, t) == [f EXCEPT !.schemas = s, !.tables = t]

\* The form f; the lists whose keys are not the same are asked for.
FormAsked(c, f, sameDb, same) ==
  {WithLists(f, s, t) : s \in SchemasAtKey(c, f, f.schemas, sameDb),
                        t \in TablesAtKey(c, f, f.tables, same)}

\* The form f after old.
FormRequeried(c, old, f) ==
  LET sameDb == f.database = old.database
  IN  FormAsked(c, f, sameDb, sameDb /\ f.schema = old.schema)

FormSame == UNCHANGED <<store, version, catalog>>

FormBecomes(f) == form' \in FormRequeried(store.cluster, form, f)

\* The effects that choose the first database and the first schema.
FirstChosen(f) ==
  [f EXCEPT !.database = IF @ = "" THEN FirstOrNone(f.databases) ELSE @,
            !.schema   = IF @ = "" THEN FirstOrNone(f.schemas) ELSE @]

FormRested == FirstChosen(form) = form

FormEffects == ~FormRested /\ FormBecomes(FirstChosen(form)) /\ FormSame

\* All the lists are those of another cluster; the summary stays until it
\* is answered.
FormUnderCluster(c) ==
  UNION {FormAsked(c, FilledIn([form EXCEPT !.databases = d]), FALSE, FALSE) :
           d \in AtNewKey(c, c # Null, LAMBDA v : Databases(c, v))}

-----------------------------------------------------------------------------
(* Answers.  Another list of databases runs the effect that fills in.      *)

FormAnswer(f) == f # form /\ FormBecomes(f) /\ FormSame

FetchFormDatabases ==
  /\ store.cluster # Null
  /\ LET d == Databases(store.cluster, Newest(store.cluster))
     IN  d # form.databases /\ FormAnswer(FilledIn([form EXCEPT !.databases = d]))

FetchFormSchemas ==
  /\ store.cluster # Null /\ form.database # ""
  /\ FormAnswer([form EXCEPT !.schemas =
       Schemas(store.cluster, Newest(store.cluster), form.database)])

FetchFormTables ==
  /\ store.cluster # Null /\ form.database # "" /\ form.schema # ""
  /\ FormAnswer([form EXCEPT !.tables =
       Tables(store.cluster, Newest(store.cluster), form.database, form.schema)])

\* catalogReady: a configuration, tables that were captured, and not more
\* than 25 hours ago, which may come to be at any time.
FetchReadiness ==
  /\ store.cluster # Null
  /\ LET content  == Contents[store.cluster][Newest(store.cluster)]
         captured == \E key \in DOMAIN content.tables : content.tables[key] # <<>>
     IN  \E ready \in {FALSE, content.configured # <<>> /\ captured} :
           FormAnswer([form EXCEPT !.ready = ready])

-----------------------------------------------------------------------------
(* The DBA.                                                                *)

FormClick(f) == FormBecomes([f EXCEPT !.clicks = @ + 1]) /\ FormSame

\* The button of an empty page or "Create"; a card's edit or extend.
OpenForm ==
  /\ ~form.open
  /\ \/ FormClick(FilledIn([form EXCEPT !.open = TRUE, !.mode = "create", !.edited = Null]))
     \/ \E mode \in {"edit", "extend"}, scope \in ScopesToEdit :
          FormClick(FilledIn([form EXCEPT !.open = TRUE, !.mode = mode, !.edited = scope]))

CloseForm == form.open /\ FormClick(FilledIn([form EXCEPT !.open = FALSE]))

\* Mutant: the schema of the database before stays.
PickDatabaseKeeping(f, db) == [f EXCEPT !.database = db, !.selected = {}]

PickDatabase(f, db) == [f EXCEPT !.database = db, !.schema = "", !.selected = {}]

SelectFormDatabase ==
  /\ form.open /\ form.mode # "extend" /\ form.databases # Null
  /\ \E db \in ToSet(form.databases) \ {form.database} : FormClick(PickDatabase(form, db))

SelectFormSchema ==
  /\ form.open /\ form.mode # "extend" /\ form.schemas # Null
  /\ \E s \in ToSet(form.schemas) \ {form.schema} :
       FormClick([form EXCEPT !.schema = s, !.selected = {}])

SelectTableMode ==
  /\ form.open /\ form.mode # "extend"
  /\ \E mode \in {"all", "specific"} \ {form.tableMode} :
       FormClick([form EXCEPT !.tableMode = mode])

Toggled(set, x) == IF x \in set THEN set \ {x} ELSE set \cup {x}

ToggleTable ==
  /\ form.open /\ form.mode # "extend" /\ form.tableMode = "specific" /\ form.tables # Null
  /\ \E t \in ToSet(form.tables) : FormClick([form EXCEPT !.selected = Toggled(@, t)])

ToggleType ==
  /\ form.open /\ form.mode # "extend"
  /\ \E t \in ExecutionTypes : FormClick([form EXCEPT !.types = Toggled(@, t)])

FillIn == form.open /\ FormClick([form EXCEPT !.filled = ~@])

\* handleSubmit's checks.
MaySubmit ==
  /\ store.cluster # Null
  /\ form.mode # "extend" =>
       /\ form.ready
       /\ form.database # "" /\ form.schema # ""
       /\ form.tableMode = "specific" => form.selected # {}
  /\ form.types # {}
  /\ form.filled

SentScope ==
  IF form.mode = "extend" THEN Null
  ELSE [ database |-> form.database, schema |-> form.schema, mode |-> form.tableMode,
         tables |-> IF form.tableMode = "specific" THEN form.selected ELSE {} ]

SubmitForm ==
  /\ form.open
  /\ IF MaySubmit
     THEN FormClick([form EXCEPT !.error = FALSE, !.sent =
            [ cluster |-> store.cluster, mode |-> form.mode,
              scope |-> SentScope, edited |-> form.edited ]])
     ELSE ~form.error /\ FormClick([form EXCEPT !.error = TRUE])

\* The dialog closes, but for an error.
FormAnswered ==
  /\ form.sent # NoSent
  /\ \/ FormBecomes([form EXCEPT !.sent = NoSent])
     \/ FormBecomes(FilledIn([form EXCEPT !.open = FALSE, !.sent = NoSent]))
  /\ FormSame

FormUser ==
  /\ form.clicks < MaxFormClicks
  /\ FormRested
  /\ form.sent = NoSent
  /\ \/ OpenForm \/ CloseForm \/ SelectFormDatabase \/ SelectFormSchema
     \/ SelectTableMode \/ ToggleTable \/ ToggleType \/ FillIn \/ SubmitForm

FormStep ==
  \/ FormEffects
  \/ FetchFormDatabases \/ FetchFormSchemas \/ FetchFormTables \/ FetchReadiness
  \/ FormUser \/ FormAnswered

-----------------------------------------------------------------------------
\* ScopesAreListed: what a campaign is told to work on was listed by the API
\* for that cluster, or is what the edited campaign said before: its schema
\* for its database, and every single table for both; and a list of tables
\* is never empty by accident, since an empty one means all of them.
ScopesAreListed ==
  LET r    == form.sent
      Kept == /\ r.mode = "edit" /\ r.edited # Null
              /\ r.edited.database = r.scope.database /\ r.edited.schema = r.scope.schema
      Listed(t) == \E v \in Versions(r.cluster) :
                     t \in ToSet(Tables(r.cluster, v, r.scope.database, r.scope.schema))
  IN  r.scope # Null =>
        /\ \/ Kept
           \/ \E v \in Versions(r.cluster) :
                r.scope.schema \in ToSet(Schemas(r.cluster, v, r.scope.database))
        /\ \A t \in r.scope.tables : Listed(t) \/ (Kept /\ t \in r.edited.tables)
        /\ r.scope.mode = "specific" => r.scope.tables # {}
=============================================================================
