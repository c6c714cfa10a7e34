---------------------------- MODULE WindowConfig ----------------------------
(***************************************************************************)
(* The maintenance_window document of each cluster and everybody who        *)
(* writes or reads it: the status bar and the configuration dialog of one   *)
(* browser (WindowStatusBar.tsx, WindowConfigDialog.tsx), the API behind    *)
(* them (maintenance-service.ts), other browsers and the DBA, and the tick  *)
(* of the executor, which reads the document afresh each time.              *)
(*                                                                         *)
(* The browser shows what it fetched last.  After the user selects another  *)
(* cluster it goes on showing the previous one's window until the new one   *)
(* has arrived (placeholderData), and its buttons act on the new one.       *)
(***************************************************************************)
EXTENDS WindowTime

CONSTANTS
  Clusters,
  NotLoaded,               (* a query that has no data yet                 *)
  WeekendSlot,             (* 00:00, 05:00, 280                            *)
  Drafts,                  (* slots the user can type into the dialog      *)
  MinBudget, MaxBudget,    (* 30 and 1440                                  *)
  Active,                  (* clusters with an active campaign             *)
  Overridden,              (* those whose campaign has a window_override   *)
  Seeded,                  (* clusters that had a document at the start    *)
  Times, Histories,        (* times and executed statements to compare at  *)
  MaxWrites                (* bound: writes of documents in one behaviour  *)

\* timePattern: the times of a slot lie within a day.
Slot == [start : 0..Day - 1, end : 0..Day - 1, budget : Nat]

\* What the API returns, and what a PUT carries.
Config == [enabled : BOOLEAN, kill : BOOLEAN, default : Slot,
           days : [Weekdays -> Slot \cup {Null}]]

Summary == [enabled : BOOLEAN, kill : BOOLEAN]

Doc == [enabled : BOOLEAN, kill : BOOLEAN, default : Slot,
        days : [Weekdays -> Slot \cup {Null}], health : {"default", "tuned"}]

ASSUME WindowAssumption ==
  /\ Active \subseteq Clusters /\ Overridden \subseteq Active
  /\ Seeded \subseteq Clusters
  /\ Drafts \subseteq Slot /\ WeekendSlot \in Slot
  /\ MaxWrites \in Nat

\* The statements compared at took no longer than Offset, which is 7 hours: one
\* that began before that and ended in the window is in no sum of the web.
ASSUME HistoriesAssumption ==
  /\ Times \subseteq Nat
  /\ \A history \in Histories :
       /\ IsFiniteSet(history)
       /\ \A h \in history : /\ h.start \in Nat /\ h.end \in Nat
                             /\ h.start <= h.end /\ h.end <= h.start + Offset

\* null and undefined are neither objects nor each other.
ASSUME NoDataAssumption ==
  /\ Null # NotLoaded
  /\ {Null, NotLoaded} \cap (Slot \cup Config \cup Summary \cup Doc) = {}

VARIABLES
  docs,        (* the collection: a document for each cluster, or Null      *)
  page,        (* the browser                                              *)
  puts,        (* PUT requests that have read the document they replace     *)
  tick,        (* the executor of each cluster, as far as its tick has got  *)
  begun,       (* history: items claimed since the kill switch was set      *)
  sent,        (* history: statements sent since then                       *)
  writes       (* how many writes there have been                           *)

vars == <<docs, page, puts, tick, begun, sent, writes>>

DefaultSlot == [start |-> DefaultStart, end |-> DefaultEnd, budget |-> DefaultBudget]

\* seed_maintenance.py: a slot of their own for Saturday and Sunday.
SeedDoc ==
  [enabled |-> TRUE, kill |-> FALSE, default |-> DefaultSlot,
   days |-> [d \in Weekdays |-> IF d \in {5, 6} THEN WeekendSlot ELSE Null], health |-> "default"]

-----------------------------------------------------------------------------
(* What the API returns.                                                   *)

WindowSummary(doc) ==
  IF doc = Null THEN Null ELSE [enabled |-> doc.enabled, kill |-> doc.kill]

\* getWindowConfig
GetWindowConfig(doc) ==
  IF doc = Null THEN Null
  ELSE [enabled |-> doc.enabled, kill |-> doc.kill,
        default |-> OrElse(MapWindowSlotConfig(doc.default), ResolveWindowSlot(doc.default)),
        days    |-> [d \in Weekdays |-> MapWindowSlotConfig(doc.days[d])]]

-----------------------------------------------------------------------------
(* The dialog.                                                             *)

Group(slot, fallback) == [on |-> slot # Null, slot |-> OrElse(slot, fallback)]

\* Mutant: Friday speaks for the weekend.
InitialFormFriday(config) ==
  IF config \in {Null, NotLoaded}
  THEN [enabled |-> TRUE, kill |-> FALSE, default |-> DefaultSlot,
        weekday |-> Group(Null, DefaultSlot), weekend |-> Group(Null, WeekendSlot)]
  ELSE [enabled |-> config.enabled, kill |-> config.kill, default |-> config.default,
        weekday |-> Group(config.days[0], DefaultSlot),
        weekend |-> Group(config.days[4], WeekendSlot)]

\* buildInitialState: Monday speaks for the week, Saturday for the weekend.
InitialForm(config) ==
  IF config \in {Null, NotLoaded}
  THEN [enabled |-> TRUE, kill |-> FALSE, default |-> DefaultSlot,
        weekday |-> Group(Null, DefaultSlot), weekend |-> Group(Null, WeekendSlot)]
  ELSE [enabled |-> config.enabled, kill |-> config.kill, default |-> config.default,
        weekday |-> Group(config.days[0], DefaultSlot),
        weekend |-> Group(config.days[5], WeekendSlot)]

ValidSlot(slot) == slot.budget >= MinBudget /\ slot.budget <= MaxBudget

\* handleSubmit: a group that is off is not looked at.
ValidForm(form) ==
  /\ ValidSlot(form.default)
  /\ form.weekday.on => ValidSlot(form.weekday.slot)
  /\ form.weekend.on => ValidSlot(form.weekend.slot)

GroupSlot(group) == IF group.on THEN group.slot ELSE Null

\* Mutant: Saturday counts as a weekday.
PayloadSaturday(form) ==
  [enabled |-> form.enabled, kill |-> form.kill, default |-> form.default,
   days |-> [d \in Weekdays |-> GroupSlot(IF d <= 5 THEN form.weekday ELSE form.weekend)]]

Payload(form) ==
  [enabled |-> form.enabled, kill |-> form.kill, default |-> form.default,
   days |-> [d \in Weekdays |-> GroupSlot(IF d <= 4 THEN form.weekday ELSE form.weekend)]]

\* Mutant: the body is the whole document.
ReplacementPlain(body, health) ==
  [enabled |-> body.enabled, kill |-> body.kill, default |-> body.default,
   days |-> body.days, health |-> "default"]

\* The document a PUT leaves: the body, and the health_monitor it read.
Replacement(body, health) ==
  [enabled |-> body.enabled, kill |-> body.kill, default |-> body.default,
   days |-> body.days, health |-> health]

-----------------------------------------------------------------------------
Init ==
  /\ docs = [c \in Clusters |-> IF c \in Seeded THEN SeedDoc ELSE Null]
  /\ \E c \in Clusters :
       page = [cluster |-> c, shown |-> NotLoaded, confirm |-> FALSE, open |-> FALSE,
               config |-> NotLoaded, form |-> InitialForm(Null)]
  /\ puts = {}
  /\ tick = [c \in Clusters |-> "idle"]
  /\ begun = [c \in Clusters |-> 0]
  /\ sent = [c \in Clusters |-> 0]
  /\ writes = 0

\* Every write of a document goes through here; begun and sent count from the
\* moment the kill switch was set.
Write(c, doc) ==
  /\ writes < MaxWrites
  /\ writes' = writes + 1
  /\ docs' = [docs EXCEPT ![c] = doc]
  /\ begun' = [begun EXCEPT ![c] = IF doc # Null /\ doc.kill THEN @ ELSE 0]
  /\ sent' = [sent EXCEPT ![c] = IF doc # Null /\ doc.kill THEN @ ELSE 0]

\* setWindowEnabled and setKillSwitch: updateOne, an error if nothing matched.
SetEnabled(c, value) ==
  IF docs[c] = Null THEN UNCHANGED <<docs, begun, sent, writes>>
  ELSE Write(c, [docs[c] EXCEPT !.enabled = value])

SetKillSwitch(c, value) ==
  IF docs[c] = Null THEN UNCHANGED <<docs, begun, sent, writes>>
  ELSE Write(c, [docs[c] EXCEPT !.kill = value])

-----------------------------------------------------------------------------
(* The browser.                                                            *)

BarShown == page.shown \notin {Null, NotLoaded}

\* The dialog is modal; confirmKill is not reset by another selection.  The
\* window shown stays until the summary of the new cluster arrives; what an
\* earlier visit left in the cache counts as arrived.
SelectCluster(c) ==
  /\ ~page.open /\ c # page.cluster
  /\ page' = [page EXCEPT !.cluster = c, !.config = NotLoaded]
  /\ UNCHANGED <<docs, puts, tick, begun, sent, writes>>

\* useMaintenanceSummary
FetchSummary ==
  /\ page' = [page EXCEPT !.shown = WindowSummary(docs[page.cluster])]
  /\ UNCHANGED <<docs, puts, tick, begun, sent, writes>>

\* useWindowConfig and the effect of the dialog: new data replaces the form.
FetchConfig ==
  LET new == GetWindowConfig(docs[page.cluster])
  IN /\ page' = [page EXCEPT
          !.config = new,
          !.form = IF page.open /\ new # page.config THEN InitialForm(new) ELSE @]
     /\ UNCHANGED <<docs, puts, tick, begun, sent, writes>>

ClickEnabled ==
  /\ BarShown /\ ~page.open
  /\ SetEnabled(page.cluster, ~page.shown.enabled)
  /\ UNCHANGED <<page, puts, tick>>

\* The kill switch is set in two clicks and cleared in one.
ClickKill ==
  /\ BarShown /\ ~page.open /\ ~page.confirm /\ ~page.shown.kill
  /\ page' = [page EXCEPT !.confirm = TRUE]
  /\ UNCHANGED <<docs, puts, tick, begun, sent, writes>>

CancelKill ==
  /\ BarShown /\ ~page.open /\ page.confirm
  /\ page' = [page EXCEPT !.confirm = FALSE]
  /\ UNCHANGED <<docs, puts, tick, begun, sent, writes>>

ConfirmKill ==
  /\ BarShown /\ ~page.open /\ page.confirm
  /\ page' = [page EXCEPT !.confirm = FALSE]
  /\ SetKillSwitch(page.cluster, TRUE)
  /\ UNCHANGED <<puts, tick>>

ClickKillOff ==
  /\ BarShown /\ ~page.open /\ ~page.confirm /\ page.shown.kill
  /\ SetKillSwitch(page.cluster, FALSE)
  /\ UNCHANGED <<page, puts, tick>>

\* Also offered when there is no window yet or its summary could not be read.
\* Closing forgets the form: opening it again starts from the data.
OpenDialog ==
  /\ ~page.open
  /\ page' = [page EXCEPT !.open = TRUE, !.form = InitialForm(page.config)]
  /\ UNCHANGED <<docs, puts, tick, begun, sent, writes>>

CloseDialog ==
  /\ page.open
  /\ page' = [page EXCEPT !.open = FALSE, !.form = InitialForm(Null)]
  /\ UNCHANGED <<docs, puts, tick, begun, sent, writes>>

\* No field of the dialog is the enabled flag or the kill switch.  Bound: one
\* edit, after which the form no longer is what the data say.
Unedited == page.open /\ page.form = InitialForm(page.config)

\* The three fields of the default slot.
EditDefaultSlot ==
  /\ Unedited
  /\ \E slot \in Drafts : page' = [page EXCEPT !.form.default = slot]
  /\ UNCHANGED <<docs, puts, tick, begun, sent, writes>>

\* The switch of a group, and its fields.  Bound: who switches a group on also
\* types its slot.
EditGroup ==
  /\ Unedited
  /\ \E slot \in Drafts \cup {Null}, group \in {"weekday", "weekend"} :
       page' = [page EXCEPT !.form[group] = Group(slot, @.slot)]
  /\ UNCHANGED <<docs, puts, tick, begun, sent, writes>>

\* handleSubmit, and upsertWindowConfig up to its findOne.
Submit ==
  /\ page.open /\ ValidForm(page.form) /\ puts = {}
  /\ puts' = {[cluster |-> page.cluster, body |-> Payload(page.form),
               health  |-> IF docs[page.cluster] = Null THEN "default"
                           ELSE docs[page.cluster].health,
               current |-> TRUE]}
  /\ UNCHANGED <<docs, page, tick, begun, sent, writes>>

\* replaceOne; the dialog closes when the answer has come.
PutWrite(p) ==
  /\ p \in puts
  /\ puts' = puts \ {p}
  /\ Write(p.cluster, Replacement(p.body, p.health))
  /\ page' = [page EXCEPT !.open = FALSE, !.form = InitialForm(Null)]
  /\ UNCHANGED <<tick>>

Browser ==
  \/ \E c \in Clusters : SelectCluster(c)
  \/ FetchSummary \/ FetchConfig
  \/ ClickEnabled \/ ClickKill \/ CancelKill \/ ConfirmKill \/ ClickKillOff
  \/ OpenDialog \/ CloseDialog \/ EditDefaultSlot \/ EditGroup \/ Submit
  \/ \E p \in puts : PutWrite(p)

-----------------------------------------------------------------------------
(* Everybody else.                                                         *)

\* The kill switch set or cleared from another browser.
KillElsewhere(c, value) ==
  /\ docs[c] # Null /\ docs[c].kill # value
  /\ SetKillSwitch(c, value)
  /\ UNCHANGED <<page, puts, tick>>

\* health_monitor has no editor: the DBA changes it in MongoDB.
DbaTunesHealth(c) ==
  /\ docs[c] # Null /\ docs[c].health = "default"
  /\ Write(c, [docs[c] EXCEPT !.health = "tuned"])
  /\ puts' = {[p EXCEPT !.current = @ /\ p.cluster # c] : p \in puts}
  /\ UNCHANGED <<page, tick>>

\* Mutant: the kill switch is not looked at.
AdmitsEnabled(c) == c \in Overridden \/ (docs[c] # Null /\ docs[c].enabled)

\* _resolve_window_state at a time when the clock and the budget allow it.
Admits(c) == c \in Overridden \/ (docs[c] # Null /\ docs[c].enabled /\ ~docs[c].kill)

TickReadsWindow(c) ==
  /\ c \in Active /\ tick[c] = "idle" /\ Admits(c)
  /\ tick' = [tick EXCEPT ![c] = "admitted"]
  /\ UNCHANGED <<docs, page, puts, begun, sent, writes>>

UnderKill(c, count, bound) ==
  IF docs[c] # Null /\ docs[c].kill /\ count < bound THEN count + 1 ELSE count

\* The tick reads the document once more, for the gates, and claims an item.
TickClaims(c) ==
  /\ tick[c] = "admitted" /\ docs[c] # Null
  /\ tick' = [tick EXCEPT ![c] = "claimed"]
  /\ begun' = [begun EXCEPT ![c] = UnderKill(c, @, 2)]
  /\ UNCHANGED <<docs, page, puts, sent, writes>>

\* _execute_item sends the statement; when the server refuses the ONLINE
\* option, _handle_execute_error sends it again offline, which is the last thing
\* a tick can do.  Neither looks at the document.
TickSends(c) ==
  /\ tick[c] \in {"claimed", "sent"}
  /\ tick' = [tick EXCEPT ![c] = IF @ = "claimed" THEN "sent" ELSE "idle"]
  /\ sent' = [sent EXCEPT ![c] = UnderKill(c, @, 3)]
  /\ UNCHANGED <<docs, page, puts, begun, writes>>

TickReturns(c) ==
  /\ tick[c] # "idle"
  /\ tick' = [tick EXCEPT ![c] = "idle"]
  /\ UNCHANGED <<docs, page, puts, begun, sent, writes>>

Elsewhere ==
  \/ \E c \in Clusters, value \in BOOLEAN : KillElsewhere(c, value)
  \/ \E c \in Clusters : DbaTunesHealth(c)
  \/ \E c \in Clusters : TickReadsWindow(c) \/ TickClaims(c) \/ TickSends(c) \/ TickReturns(c)

Next == Browser \/ Elsewhere

Spec == Init /\ [][Next]_vars

-----------------------------------------------------------------------------
\* Documents and requests keep their shape; a document the browser or the seed
\* wrote gives one slot to the weekdays and one to the weekend.
WindowTypeOK ==
  /\ docs \in [Clusters -> Doc \cup {Null}]
  /\ page.cluster \in Clusters
  /\ page.shown \in {Null, NotLoaded} \cup [enabled : BOOLEAN, kill : BOOLEAN]
  /\ page.confirm \in BOOLEAN /\ page.open \in BOOLEAN
  /\ tick \in [Clusters -> {"idle", "admitted", "claimed", "sent"}]
  /\ begun \in [Clusters -> 0..2] /\ sent \in [Clusters -> 0..3]
  /\ \A c \in Clusters : docs[c] # Null =>
       /\ \A d \in 0..4 : docs[c].days[d] = docs[c].days[0]
       /\ docs[c].days[5] = docs[c].days[6]

\* Days whose window is the default slot: the only one the web looks at.
OnDefaultSlot(doc, now) ==
  /\ doc.days[(now \div Day) % 7] = Null
  /\ doc.days[(now \div Day - 1) % 7] = Null
  /\ doc.default.start # doc.default.end

\* Whoever writes a document, a window that the web then shows open is one in
\* which the executor works, at any time and after any statements.  The web
\* counts too many minutes (it begins Offset before the window), never too few.
WebOpenIsExecutable ==
  [][\A c \in Clusters : docs'[c] \notin {docs[c], Null} =>
       \A now \in {t \in Times : OnDefaultSlot(docs'[c], t)}, history \in Histories :
         WebWindowState(docs'[c], history, now).open
           => ExecutorWindowState(docs'[c], history, now).open]_vars

\* Saving the dialog with fresh data and nothing edited leaves the document as
\* it was, although the form has two groups where the document has seven days.
UntouchedSaveKeeps ==
  \A c \in Clusters : docs[c] # Null =>
    Replacement(Payload(InitialForm(GetWindowConfig(docs[c]))), docs[c].health) = docs[c]

\* A PUT replaces the whole document; the health monitor's limits, which it does
\* not carry, survive it unless they were changed while it was under way.
HealthSurvives ==
  [][\A p \in puts : puts' = {} /\ p.current /\ docs[p.cluster] # Null
       => docs'[p.cluster].health = docs[p.cluster].health]_vars

\* When the campaign follows the cluster's window, at most one item is claimed
\* while the kill switch is on, the one whose tick had read the window before,
\* and at most two statements are sent, the second being the offline fallback of
\* the item in hand.
KillStopsInWindow == \A c \in Clusters \ Overridden : begun[c] <= 1 /\ sent[c] <= 2

\* maintenance-glossary.ts, kill_switch: once it is on, the runner takes no new
\* item (beyond the tick that is under way), whatever window the campaign has.
KillStopsNewItems == \A c \in Clusters : begun[c] <= 1
=============================================================================
