------------------------- MODULE WindowConfig_proofs --------------------------
(***************************************************************************)
(* What holds of the window document for any number of clusters and        *)
(* writes: its shape under every writer, the dialog that gives back what   *)
(* it was given, the limits of the health monitor that survive a PUT, the  *)
(* one statement that may still begin under the kill switch, and that a    *)
(* default window shown open on the web is one the executor works in.      *)
(***************************************************************************)
EXTENDS WindowConfig, FiniteSetTheorems, TLAPS

GroupState == [on : BOOLEAN, slot : Slot]

Form == [enabled : BOOLEAN, kill : BOOLEAN, default : Slot,
         weekday : GroupState, weekend : GroupState]

Health == {"default", "tuned"}

Put == [cluster : Clusters, body : Config, health : Health, current : BOOLEAN]

Page == [cluster : Clusters, shown : {Null, NotLoaded} \cup Summary, confirm : BOOLEAN,
         open : BOOLEAN, config : {Null, NotLoaded} \cup Config, form : Form]

\* One slot for the weekdays and one for the weekend.
TwoSlots(days) == (\A d \in 0..4 : days[d] = days[0]) /\ days[5] = days[6]

DocsOK ==
  /\ docs \in [Clusters -> Doc \cup {Null}]
  /\ \A c \in Clusters : docs[c] # Null => TwoSlots(docs[c].days)

PutsOK ==
  /\ puts \subseteq Put
  /\ \A p \in puts : TwoSlots(p.body.days)
  /\ \A p, q \in puts : p = q

RestOK ==
  /\ page \in Page
  /\ tick \in [Clusters -> {"idle", "admitted", "claimed", "sent"}]
  /\ begun \in [Clusters -> 0..2] /\ sent \in [Clusters -> 0..3]

\* A request under way carries the limits in force, unless they were changed.
HealthInv ==
  \A p \in puts : p.current /\ docs[p.cluster] # Null => p.health = docs[p.cluster].health

\* What has been claimed and sent under the kill switch in a tick that is idle,
\* tick, and so on: the item claimed took the only admission, and its first
\* statement leaves room for the fallback.
Counts(t, b, n) ==
  /\ b <= 1 /\ n <= 2
  /\ t = "admitted" => b = 0 /\ n = 0
  /\ t = "claimed" => n = 0
  /\ t = "sent" => n <= 1

KillInv ==
  \A c \in Clusters \ Overridden :
    /\ Counts(tick[c], begun[c], sent[c])
    /\ (docs[c] # Null /\ docs[c].kill) \/ (begun[c] = 0 /\ sent[c] = 0)

WindowInv == DocsOK /\ PutsOK /\ RestOK /\ HealthInv /\ KillInv

-----------------------------------------------------------------------------
(* From the document to the form and back.                                 *)

LEMMA NoData ==
  /\ Null # NotLoaded
  /\ \A x \in Slot \cup Config \cup Summary \cup Doc : x # Null /\ x # NotLoaded
BY NoDataAssumption

LEMMA DefaultSlots == DefaultSlot \in Slot /\ WeekendSlot \in Slot
BY DayAssumption, WindowAssumption DEF DefaultSlot, Slot

LEMMA SeedFacts == SeedDoc \in Doc /\ TwoSlots(SeedDoc.days)
<1>1. [d \in Weekdays |-> IF d \in {5, 6} THEN WeekendSlot ELSE Null]
        \in [Weekdays -> Slot \cup {Null}]
  BY DefaultSlots
<1>2. SeedDoc \in Doc
  BY <1>1, DefaultSlots DEF SeedDoc, Doc
<1>3. TwoSlots(SeedDoc.days)
  BY DEF SeedDoc, TwoSlots, Weekdays
<1> QED
  BY <1>2, <1>3

\* A slot of which no part is missing is read as it was stored.
LEMMA SlotRead ==
  ASSUME NEW slot \in Slot \cup {Null}
  PROVE  MapWindowSlotConfig(slot) = slot
BY DayAssumption DEF MapWindowSlotConfig, Slot

LEMMA ConfigRead ==
  ASSUME NEW doc \in Doc
  PROVE  GetWindowConfig(doc) = [enabled |-> doc.enabled, kill |-> doc.kill,
                                 default |-> doc.default, days |-> doc.days]
<1>1. doc # Null /\ doc.default \in Slot /\ doc.days \in [Weekdays -> Slot \cup {Null}]
  BY NoData DEF Doc
<1>2. OrElse(MapWindowSlotConfig(doc.default), ResolveWindowSlot(doc.default)) = doc.default
  BY <1>1, SlotRead, NoData DEF OrElse
<1>3. [d \in Weekdays |-> MapWindowSlotConfig(doc.days[d])] = doc.days
  BY <1>1, SlotRead
<1> QED
  BY <1>1, <1>2, <1>3 DEF GetWindowConfig

LEMMA ConfigOf ==
  ASSUME NEW doc \in Doc \cup {Null}
  PROVE  /\ GetWindowConfig(doc) \in {Null, NotLoaded} \cup Config
         /\ WindowSummary(doc) \in {Null, NotLoaded} \cup Summary
<1>1. CASE doc = Null
  BY <1>1 DEF GetWindowConfig, WindowSummary
<1>2. CASE doc \in Doc
  <2>1. GetWindowConfig(doc) \in Config
    BY <1>2, ConfigRead DEF Doc, Config
  <2>2. WindowSummary(doc) \in Summary
    BY <1>2, NoData DEF WindowSummary, Summary, Doc
  <2> QED
    BY <2>1, <2>2
<1> QED
  BY <1>1, <1>2

LEMMA GroupFacts ==
  ASSUME NEW slot \in Slot \cup {Null}, NEW fallback \in Slot
  PROVE  /\ Group(slot, fallback) \in GroupState
         /\ GroupSlot(Group(slot, fallback)) = slot
BY NoData DEF Group, GroupState, GroupSlot, OrElse

LEMMA FormFacts ==
  ASSUME NEW config \in {Null, NotLoaded} \cup Config
  PROVE  InitialForm(config) \in Form
<1>1. CASE config \in {Null, NotLoaded}
  BY <1>1, DefaultSlots, GroupFacts DEF InitialForm, Form
<1>2. CASE config \in Config
  <2>1. config \notin {Null, NotLoaded}
    BY <1>2, NoData
  <2>2. /\ config.days[0] \in Slot \cup {Null} /\ config.days[5] \in Slot \cup {Null}
        /\ config.enabled \in BOOLEAN /\ config.kill \in BOOLEAN /\ config.default \in Slot
    BY <1>2 DEF Config, Weekdays
  <2>3. /\ Group(config.days[0], DefaultSlot) \in GroupState
        /\ Group(config.days[5], WeekendSlot) \in GroupState
    BY <2>2, DefaultSlots, GroupFacts
  <2> QED
    BY <2>1, <2>2, <2>3 DEF InitialForm, Form
<1> QED
  BY <1>1, <1>2

LEMMA PayloadFacts ==
  ASSUME NEW form \in Form
  PROVE  Payload(form) \in Config /\ TwoSlots(Payload(form).days)
<1> DEFINE days == [d \in Weekdays |-> GroupSlot(IF d <= 4 THEN form.weekday ELSE form.weekend)]
<1>1. \A g \in GroupState : GroupSlot(g) \in Slot \cup {Null}
  BY DEF GroupSlot, GroupState
<1>2. form.weekday \in GroupState /\ form.weekend \in GroupState
  BY DEF Form
<1>3. days \in [Weekdays -> Slot \cup {Null}]
  BY <1>1, <1>2
<1>4. TwoSlots(days)
  BY DEF TwoSlots, Weekdays
<1>5. Payload(form) = [enabled |-> form.enabled, kill |-> form.kill,
                       default |-> form.default, days |-> days]
  BY DEF Payload
<1> HIDE DEF days
<1> QED
  BY <1>3, <1>4, <1>5 DEF Config, Form

LEMMA ReplacementFacts ==
  ASSUME NEW body \in Config, NEW health \in Health
  PROVE  /\ Replacement(body, health) \in Doc
         /\ Replacement(body, health).days = body.days
         /\ Replacement(body, health).health = health
BY DEF Replacement, Config, Doc, Health

\* What the dialog sends when nothing was edited is the document.
LEMMA UntouchedSave ==
  ASSUME NEW doc \in Doc, TwoSlots(doc.days)
  PROVE  Replacement(Payload(InitialForm(GetWindowConfig(doc))), doc.health) = doc
<1> DEFINE config == GetWindowConfig(doc)
           form   == InitialForm(config)
<1>1. /\ config = [enabled |-> doc.enabled, kill |-> doc.kill, default |-> doc.default,
                   days |-> doc.days]
      /\ config \in Config
  BY ConfigRead DEF Config, Doc
<1>2. config \notin {Null, NotLoaded}
  BY <1>1, NoData
<1>3. /\ form.enabled = doc.enabled /\ form.kill = doc.kill /\ form.default = doc.default
      /\ form.weekday = Group(doc.days[0], DefaultSlot)
      /\ form.weekend = Group(doc.days[5], WeekendSlot)
  BY <1>1, <1>2 DEF InitialForm
<1>4. doc.days \in [Weekdays -> Slot \cup {Null}]
  BY DEF Doc
<1>5. GroupSlot(form.weekday) = doc.days[0] /\ GroupSlot(form.weekend) = doc.days[5]
  BY <1>3, <1>4, GroupFacts, DefaultSlots DEF Weekdays
<1> HIDE DEF form
<1>6. [d \in Weekdays |-> GroupSlot(IF d <= 4 THEN form.weekday ELSE form.weekend)] = doc.days
  BY <1>4, <1>5 DEF TwoSlots, Weekdays
<1>7. Payload(form) = [enabled |-> doc.enabled, kill |-> doc.kill, default |-> doc.default,
                       days |-> doc.days]
  BY <1>3, <1>6 DEF Payload
<1>8. Replacement(Payload(form), doc.health) = doc
  BY <1>7 DEF Replacement, Doc
<1> QED
  BY <1>8 DEF form

-----------------------------------------------------------------------------
(* What a step does to the documents, to the requests, to the rest.        *)

NoWrite == UNCHANGED <<docs, begun, sent, writes>>

\* One document written, by a writer that keeps its two slots.
OneWrite(c, doc) ==
  c \in Clusters /\ doc \in Doc /\ TwoSlots(doc.days) /\ Write(c, doc)

LEMMA Switches ==
  ASSUME DocsOK, NEW c \in Clusters, NEW value \in BOOLEAN,
         SetEnabled(c, value) \/ SetKillSwitch(c, value)
  PROVE  NoWrite \/ \E doc : OneWrite(c, doc)
<1>1. CASE docs[c] = Null
  BY <1>1 DEF SetEnabled, SetKillSwitch, NoWrite
<1>2. CASE docs[c] # Null
  <2>1. docs[c] \in Doc /\ TwoSlots(docs[c].days)
    BY <1>2 DEF DocsOK
  <2>2. \A doc \in {[docs[c] EXCEPT !.enabled = value], [docs[c] EXCEPT !.kill = value]} :
          doc \in Doc /\ TwoSlots(doc.days)
    BY <2>1 DEF Doc
  <2>3. \E doc \in {[docs[c] EXCEPT !.enabled = value], [docs[c] EXCEPT !.kill = value]} :
          Write(c, doc)
    BY <1>2 DEF SetEnabled, SetKillSwitch
  <2> QED
    BY <2>2, <2>3 DEF OneWrite
<1> QED
  BY <1>1, <1>2

\* The browser and the tick: the steps that leave every document alone.
Quiet ==
  \/ \E c \in Clusters : SelectCluster(c)
  \/ FetchSummary \/ FetchConfig \/ ClickKill \/ CancelKill
  \/ OpenDialog \/ CloseDialog \/ EditDefaultSlot \/ EditGroup

Switching ==
  \/ ClickEnabled \/ ConfirmKill \/ ClickKillOff
  \/ \E c \in Clusters, value \in BOOLEAN : KillElsewhere(c, value)

Tick == \E c \in Clusters : TickReadsWindow(c) \/ TickClaims(c) \/ TickSends(c) \/ TickReturns(c)

LEMMA WindowCases ==
  ASSUME Next
  PROVE  \/ Quiet \/ Switching \/ Tick \/ Submit
         \/ \E p \in puts : PutWrite(p)
         \/ \E c \in Clusters : DbaTunesHealth(c)
BY DEF Next, Browser, Elsewhere, Quiet, Switching, Tick

LEMMA QuietStep ==
  ASSUME Quiet
  PROVE  NoWrite /\ UNCHANGED <<puts, tick>>
BY DEF Quiet, NoWrite, SelectCluster, FetchSummary, FetchConfig, ClickKill, CancelKill,
       OpenDialog, CloseDialog, EditDefaultSlot, EditGroup

\* The bar shows a window, and sends the opposite of what it shows.
LEMMA SwitchingStep ==
  ASSUME DocsOK, RestOK, Switching
  PROVE  /\ UNCHANGED <<puts, tick>>
         /\ NoWrite \/ \E c, doc : OneWrite(c, doc)
<1>1. page.cluster \in Clusters
  BY DEF RestOK, Page
<1>2. CASE ClickEnabled
  <2>1. page.shown \in Summary
    BY <1>2 DEF ClickEnabled, BarShown, RestOK, Page
  <2>2. (~page.shown.enabled) \in BOOLEAN
    BY <2>1 DEF Summary
  <2> QED
    BY <1>1, <1>2, <2>2, Switches DEF ClickEnabled
<1>3. CASE ConfirmKill
  BY <1>1, <1>3, Switches DEF ConfirmKill
<1>4. CASE ClickKillOff
  BY <1>1, <1>4, Switches DEF ClickKillOff
<1>5. ASSUME NEW c \in Clusters, NEW value \in BOOLEAN, KillElsewhere(c, value)
      PROVE  /\ UNCHANGED <<puts, tick>>
             /\ NoWrite \/ \E k, doc : OneWrite(k, doc)
  BY <1>5, Switches DEF KillElsewhere
<1> QED
  BY <1>2, <1>3, <1>4, <1>5 DEF Switching

LEMMA PutStep ==
  ASSUME PutsOK, NEW p \in puts, PutWrite(p)
  PROVE  /\ UNCHANGED tick /\ puts' = {}
         /\ OneWrite(p.cluster, Replacement(p.body, p.health))
<1>1. p \in Put /\ TwoSlots(p.body.days)
  BY DEF PutsOK
<1>2. Replacement(p.body, p.health) \in Doc /\ TwoSlots(Replacement(p.body, p.health).days)
  BY <1>1, ReplacementFacts DEF Put
<1>3. puts' = {}
  BY DEF PutsOK, PutWrite
<1> QED
  BY <1>1, <1>2, <1>3 DEF PutWrite, OneWrite, Put

LEMMA DbaStep ==
  ASSUME DocsOK, NEW c \in Clusters, DbaTunesHealth(c)
  PROVE  /\ UNCHANGED <<page, tick>>
         /\ puts' = {[p EXCEPT !.current = @ /\ p.cluster # c] : p \in puts}
         /\ OneWrite(c, [docs[c] EXCEPT !.health = "tuned"])
<1>1. docs[c] \in Doc /\ TwoSlots(docs[c].days)
  BY DEF DbaTunesHealth, DocsOK
<1>2. [docs[c] EXCEPT !.health = "tuned"] \in Doc
      /\ [docs[c] EXCEPT !.health = "tuned"].days = docs[c].days
  BY <1>1 DEF Doc
<1> QED
  BY <1>1, <1>2 DEF DbaTunesHealth, OneWrite

LEMMA TickStep ==
  ASSUME Tick
  PROVE  UNCHANGED <<docs, page, puts, writes>>
BY DEF Tick, TickReadsWindow, TickClaims, TickSends, TickReturns

LEMMA SubmitStep ==
  ASSUME Submit
  PROVE  NoWrite /\ UNCHANGED <<page, tick>>
BY DEF Submit, NoWrite

LEMMA DocumentsMove ==
  ASSUME DocsOK, PutsOK, RestOK, Next
  PROVE  \/ NoWrite
         \/ docs' = docs /\ Tick
         \/ UNCHANGED tick /\ \E c, doc : OneWrite(c, doc)
BY WindowCases, QuietStep, SwitchingStep, PutStep, DbaStep, TickStep, SubmitStep DEF NoWrite

-----------------------------------------------------------------------------
(* The invariants.                                                         *)

LEMMA DocsNext == DocsOK /\ PutsOK /\ RestOK /\ Next => DocsOK'
<1> SUFFICES ASSUME DocsOK, PutsOK, RestOK, Next PROVE DocsOK'
  OBVIOUS
<1>1. CASE docs' = docs
  BY <1>1 DEF DocsOK
<1>2. ASSUME NEW c, NEW doc, OneWrite(c, doc) PROVE DocsOK'
  BY <1>2 DEF OneWrite, Write, DocsOK
<1> QED
  BY <1>1, <1>2, DocumentsMove DEF NoWrite

LEMMA PutsNext == DocsOK /\ PutsOK /\ RestOK /\ Next => PutsOK'
<1> SUFFICES ASSUME DocsOK, PutsOK, RestOK, Next PROVE PutsOK'
  OBVIOUS
<1>1. CASE puts' \subseteq puts
  BY <1>1 DEF PutsOK
<1>2. CASE Submit
  <2>1. page.form \in Form /\ page.cluster \in Clusters
    BY DEF RestOK, Page
  <2>2. Payload(page.form) \in Config /\ TwoSlots(Payload(page.form).days)
    BY <2>1, PayloadFacts
  <2>3. docs[page.cluster] # Null => docs[page.cluster].health \in Health
    BY <2>1 DEF DocsOK, Doc, Health
  <2>4. PICK health \in Health :
          puts' = {[cluster |-> page.cluster, body |-> Payload(page.form),
                    health |-> health, current |-> TRUE]}
    BY <1>2, <2>3 DEF Submit, Health
  <2> QED
    BY <2>1, <2>2, <2>4 DEF PutsOK, Put
<1>3. ASSUME NEW c \in Clusters, DbaTunesHealth(c) PROVE PutsOK'
  <2>1. puts' = {[p EXCEPT !.current = @ /\ p.cluster # c] : p \in puts}
    BY <1>3, DbaStep
  <2>2. ASSUME NEW p \in puts
        PROVE  /\ [p EXCEPT !.current = @ /\ p.cluster # c] \in Put
               /\ TwoSlots([p EXCEPT !.current = @ /\ p.cluster # c].body.days)
    BY DEF PutsOK, Put
  <2> DEFINE marked(p) == [p EXCEPT !.current = @ /\ p.cluster # c]
  <2>3. puts' \subseteq Put /\ \A p \in puts' : TwoSlots(p.body.days)
    BY <2>1, <2>2
  <2>4. ASSUME NEW x \in puts', NEW y \in puts' PROVE x = y
    <3>1. PICK p \in puts : x = marked(p)
      BY <2>1
    <3>2. PICK q \in puts : y = marked(q)
      BY <2>1
    <3>3. p = q
      BY DEF PutsOK
    <3> QED
      BY <3>1, <3>2, <3>3
  <2> QED
    BY <2>3, <2>4 DEF PutsOK
<1> QED
  BY <1>1, <1>2, <1>3, WindowCases, QuietStep, SwitchingStep, PutStep, TickStep

LEMMA RestNext == DocsOK /\ PutsOK /\ RestOK /\ Next => RestOK'
<1> SUFFICES ASSUME DocsOK, PutsOK, RestOK, Next PROVE RestOK'
  OBVIOUS
<1> DEFINE counted == /\ tick \in [Clusters -> {"idle", "admitted", "claimed", "sent"}]
                      /\ begun \in [Clusters -> 0..2] /\ sent \in [Clusters -> 0..3]
<1>1. counted'
  <2>1. ASSUME UNCHANGED tick, NEW c, NEW doc, OneWrite(c, doc) PROVE counted'
    BY <2>1 DEF OneWrite, Write, RestOK
  <2>2. ASSUME NEW c \in Clusters, TickReadsWindow(c) \/ TickReturns(c) PROVE counted'
    BY <2>2 DEF TickReadsWindow, TickReturns, RestOK
  <2>3. ASSUME NEW c \in Clusters, TickClaims(c) PROVE counted'
    <3>1. UnderKill(c, begun[c], 2) \in 0..2
      BY DEF UnderKill, RestOK
    <3> QED
      BY <2>3, <3>1 DEF TickClaims, RestOK
  <2>4. ASSUME NEW c \in Clusters, TickSends(c) PROVE counted'
    <3>1. UnderKill(c, sent[c], 3) \in 0..3
      BY DEF UnderKill, RestOK
    <3> QED
      BY <2>4, <3>1 DEF TickSends, RestOK
  <2>5. CASE NoWrite /\ UNCHANGED tick
    BY <2>5 DEF NoWrite, RestOK
  <2> QED
    BY <2>1, <2>2, <2>3, <2>4, <2>5, WindowCases, QuietStep, SwitchingStep, PutStep, DbaStep,
       SubmitStep
       DEF Tick
<1>3. page' \in Page
  <2> USE DEF RestOK
  <2>1. CASE page' = page
    BY <2>1
  <2>a. /\ page.cluster \in Clusters /\ page.config \in {Null, NotLoaded} \cup Config
        /\ page.form \in Form /\ docs[page.cluster] \in Doc \cup {Null}
    BY DEF Page, DocsOK
  <2>b. \A config \in {Null, NotLoaded} \cup Config : InitialForm(config) \in Form
    BY FormFacts
  <2>2. ASSUME NEW c \in Clusters, SelectCluster(c) PROVE page' \in Page
    BY <2>2 DEF SelectCluster, Page
  <2>3. CASE FetchSummary
    BY <2>3, <2>a, ConfigOf DEF FetchSummary, Page
  <2>4. CASE FetchConfig
    <3>1. GetWindowConfig(docs[page.cluster]) \in {Null, NotLoaded} \cup Config
      BY <2>a, ConfigOf
    <3> QED
      BY <2>4, <2>a, <2>b, <3>1 DEF FetchConfig, Page
  <2>5. CASE ClickKill \/ CancelKill \/ ConfirmKill
    BY <2>5 DEF ClickKill, CancelKill, ConfirmKill, Page
  <2>6. CASE OpenDialog
    BY <2>6, <2>a, <2>b DEF OpenDialog, Page
  <2>7. ASSUME page' = [page EXCEPT !.open = FALSE, !.form = InitialForm(Null)]
        PROVE  page' \in Page
    BY <2>7, <2>b DEF Page
  <2>8. CASE EditDefaultSlot
    <3>1. PICK slot \in Slot : page' = [page EXCEPT !.form.default = slot]
      BY <2>8, WindowAssumption DEF EditDefaultSlot
    <3>2. [page.form EXCEPT !.default = slot] \in Form
      BY <2>a DEF Form
    <3> QED
      BY <3>1, <3>2 DEF Page
  <2>9. CASE EditGroup
    <3>1. PICK slot \in Slot \cup {Null}, group \in {"weekday", "weekend"} :
            page' = [page EXCEPT !.form[group] = Group(slot, @.slot)]
      BY <2>9, WindowAssumption DEF EditGroup
    <3>2. page.form[group] \in GroupState
      BY <2>a DEF Form
    <3>3. Group(slot, page.form[group].slot) \in GroupState
      BY <3>2, GroupFacts DEF GroupState
    <3>4. [page.form EXCEPT ![group] = Group(slot, page.form[group].slot)] \in Form
      BY <2>a, <3>3 DEF Form
    <3> QED
      BY <3>1, <3>4 DEF Page
  <2> QED
    BY <2>1, <2>2, <2>3, <2>4, <2>5, <2>6, <2>7, <2>8, <2>9
       DEF Next, Browser, Elsewhere, ClickEnabled, ClickKillOff, CloseDialog, Submit, PutWrite,
           KillElsewhere, DbaTunesHealth, TickReadsWindow, TickClaims, TickSends, TickReturns
<1> QED
  BY <1>1, <1>3 DEF RestOK

\* One document is written at a time, and only the DBA writes limits other than
\* those its request carried; he then marks the request.
LEMMA HealthNext == WindowInv /\ Next => HealthInv'
<1> SUFFICES ASSUME WindowInv, Next PROVE HealthInv'
  OBVIOUS
<1> USE DEF WindowInv
<1>1. CASE UNCHANGED <<docs, puts>>
  BY <1>1 DEF HealthInv
<1>2. CASE puts' = {}
  BY <1>2 DEF HealthInv
<1>3. CASE Submit
  BY <1>3 DEF Submit, HealthInv
<1>4. ASSUME NEW c \in Clusters, DbaTunesHealth(c) PROVE HealthInv'
  <2>1. /\ puts' = {[p EXCEPT !.current = @ /\ p.cluster # c] : p \in puts}
        /\ \A k \in Clusters : k # c => docs'[k] = docs[k]
    BY <1>4, DbaStep DEF OneWrite, Write, DocsOK
  <2>2. ASSUME NEW p \in puts, p.current, p.cluster # c, docs'[p.cluster] # Null
        PROVE  p.health = docs'[p.cluster].health
    BY <2>1, <2>2 DEF HealthInv, PutsOK, Put
  <2>3. ASSUME NEW x \in puts', x.current, docs'[x.cluster] # Null
        PROVE  x.health = docs'[x.cluster].health
    <3>1. PICK p \in puts : x = [p EXCEPT !.current = @ /\ p.cluster # c]
      BY <2>1
    <3>2. p \in Put
      BY DEF PutsOK
    <3>3. x.cluster = p.cluster /\ x.health = p.health
      BY <3>1, <3>2 DEF Put
    <3>4. p.current /\ p.cluster # c
      BY <2>3, <3>1, <3>2 DEF Put
    <3> QED
      BY <2>2, <2>3, <3>3, <3>4
  <2> QED
    BY <2>3 DEF HealthInv
<1>5. CASE Switching
  <2>1. puts' = puts
    BY <1>5, SwitchingStep
  <2>2. ASSUME NEW k \in Clusters, docs'[k] # Null
        PROVE  docs[k] # Null /\ docs'[k].health = docs[k].health
    <3>1. CASE docs' = docs
      BY <2>2, <3>1
    <3>2. PICK c \in Clusters, value \in BOOLEAN :
            \/ docs' = docs
            \/ /\ docs[c] # Null
               /\ docs' \in {[docs EXCEPT ![c] = [docs[c] EXCEPT !.enabled = value]],
                             [docs EXCEPT ![c] = [docs[c] EXCEPT !.kill = value]]}
      <4>a. page.cluster \in Clusters
        BY DEF RestOK, Page
      <4>b. page.shown \in Summary => (~page.shown.enabled) \in BOOLEAN
        BY DEF Summary
      <4>1. CASE ClickEnabled
        BY <4>1, <4>a, <4>b
           DEF ClickEnabled, SetEnabled, Write, BarShown, RestOK, Page
      <4>2. CASE ConfirmKill \/ ClickKillOff
        BY <4>2, <4>a DEF ConfirmKill, ClickKillOff, SetKillSwitch, Write
      <4>3. ASSUME NEW c \in Clusters, NEW value \in BOOLEAN, KillElsewhere(c, value)
            PROVE  /\ docs[c] # Null
                   /\ docs' = [docs EXCEPT ![c] = [docs[c] EXCEPT !.kill = value]]
        BY <4>3 DEF KillElsewhere, SetKillSwitch, Write
      <4> QED
        BY <1>5, <4>1, <4>2, <4>3 DEF Switching
    <3>3. docs[c] \in Doc \cup {Null}
      BY DEF DocsOK
    <3> QED
      BY <2>2, <3>1, <3>2, <3>3 DEF DocsOK, Doc
  <2> QED
    BY <2>1, <2>2 DEF HealthInv, PutsOK, Put
<1>6. Quiet \/ Tick => UNCHANGED <<docs, puts>>
  BY QuietStep, TickStep DEF NoWrite
<1> QED
  BY <1>1, <1>2, <1>3, <1>4, <1>5, <1>6, WindowCases, PutStep

LEMMA KillNext == WindowInv /\ Next => KillInv'
<1> DEFINE killed(c) == docs[c] # Null /\ docs[c].kill
<1> DEFINE fine(c) == /\ Counts(tick[c], begun[c], sent[c])
                      /\ killed(c) \/ (begun[c] = 0 /\ sent[c] = 0)
<1> SUFFICES ASSUME WindowInv, Next, NEW c \in Clusters \ Overridden PROVE fine(c)'
  BY DEF KillInv
<1> USE DEF WindowInv
<1>a. fine(c)
  BY DEF KillInv
<1>b. /\ begun \in [Clusters -> 0..2] /\ sent \in [Clusters -> 0..3]
      /\ tick \in [Clusters -> {"idle", "admitted", "claimed", "sent"}]
      /\ docs \in [Clusters -> Doc \cup {Null}]
  BY DEF RestOK, DocsOK
<1>1. ASSUME UNCHANGED tick, NEW k, NEW doc, OneWrite(k, doc) PROVE fine(c)'
  <2>1. CASE k # c
    BY <1>1, <1>a, <1>b, <2>1 DEF OneWrite, Write
  <2>2. CASE k = c /\ doc.kill
    BY <1>1, <1>a, <1>b, <2>2, NoData DEF OneWrite, Write
  <2>3. CASE k = c /\ ~doc.kill
    BY <1>1, <1>a, <1>b, <2>3, NoData DEF OneWrite, Write, Counts
  <2> QED
    BY <2>1, <2>2, <2>3
<1>2. ASSUME NEW k \in Clusters, TickReadsWindow(k) PROVE fine(c)'
  BY <1>2, <1>a, <1>b DEF TickReadsWindow, Admits, Counts
<1>3. ASSUME NEW k \in Clusters, TickClaims(k) PROVE fine(c)'
  BY <1>3, <1>a, <1>b DEF TickClaims, UnderKill, Counts
<1>4. ASSUME NEW k \in Clusters, TickSends(k) PROVE fine(c)'
  BY <1>4, <1>a, <1>b DEF TickSends, UnderKill, Counts
<1>5. ASSUME NEW k \in Clusters, TickReturns(k) PROVE fine(c)'
  BY <1>5, <1>a, <1>b DEF TickReturns, Counts
<1>6. CASE NoWrite /\ UNCHANGED tick
  BY <1>6, <1>a DEF NoWrite
<1> QED
  BY <1>1, <1>2, <1>3, <1>4, <1>5, <1>6, WindowCases, QuietStep, SwitchingStep, PutStep, DbaStep,
     SubmitStep
     DEF Tick

LEMMA WindowInit == Init => WindowInv
<1> SUFFICES ASSUME Init PROVE WindowInv
  OBVIOUS
<1>1. DocsOK
  BY SeedFacts DEF Init, DocsOK
<1>2. RestOK
  <2>1. InitialForm(Null) \in Form
    BY FormFacts
  <2> QED
    BY <2>1 DEF Init, RestOK, Page
<1>3. PutsOK /\ HealthInv /\ KillInv
  BY DEF Init, PutsOK, HealthInv, KillInv, Counts
<1> QED
  BY <1>1, <1>2, <1>3 DEF WindowInv

LEMMA WindowNext == WindowInv /\ [Next]_vars => WindowInv'
<1> SUFFICES ASSUME WindowInv, [Next]_vars PROVE WindowInv'
  OBVIOUS
<1>1. CASE Next
  BY <1>1, DocsNext, PutsNext, RestNext, HealthNext, KillNext DEF WindowInv
<1>2. CASE UNCHANGED vars
  BY <1>2 DEF vars, WindowInv, DocsOK, PutsOK, RestOK, HealthInv, KillInv
<1> QED
  BY <1>1, <1>2

-----------------------------------------------------------------------------
\* Documents and requests keep their shape: whoever writes a document, it has
\* one slot for the weekdays and one for the weekend.
THEOREM WindowTypes == Spec => []WindowTypeOK
<1>1. WindowInv => WindowTypeOK
  <2> SUFFICES ASSUME WindowInv PROVE WindowTypeOK
    OBVIOUS
  <2>1. page \in Page
    BY DEF WindowInv, RestOK
  <2>2. /\ page.cluster \in Clusters
        /\ page.shown \in {Null, NotLoaded} \cup [enabled : BOOLEAN, kill : BOOLEAN]
        /\ page.confirm \in BOOLEAN /\ page.open \in BOOLEAN
    BY <2>1 DEF Page, Summary
  <2> QED
    BY <2>2 DEF WindowInv, DocsOK, RestOK, TwoSlots, WindowTypeOK
<1> QED
  BY <1>1, WindowInit, WindowNext, PTL DEF Spec

\* Opening the dialog on fresh data and saving it unchanged gives back the
\* document, for every document any of the writers can leave.
THEOREM UntouchedSaves == Spec => []UntouchedSaveKeeps
<1>1. WindowInv => UntouchedSaveKeeps
  BY UntouchedSave DEF WindowInv, DocsOK, UntouchedSaveKeeps
<1> QED
  BY <1>1, WindowInit, WindowNext, PTL DEF Spec

\* A PUT puts back the limits of the health monitor it found, unless they were
\* changed between its read and its write.
THEOREM LimitsSurvive == Spec => HealthSurvives
<1>1. ASSUME WindowInv, Next, NEW p \in puts, puts' = {}, p.current, docs[p.cluster] # Null
      PROVE  docs'[p.cluster].health = docs[p.cluster].health
  <2>1. PICK q \in puts : PutWrite(q)
    <3>1. ~Submit
      BY <1>1 DEF Submit
    <3>2. \A c \in Clusters : ~DbaTunesHealth(c)
      BY <1>1 DEF DbaTunesHealth
    <3> QED
      BY <1>1, <3>1, <3>2, WindowCases, QuietStep, SwitchingStep, TickStep DEF WindowInv
  <2>2. q = p /\ p \in Put
    BY <1>1 DEF WindowInv, PutsOK
  <2>3. docs'[p.cluster] = Replacement(p.body, p.health)
    BY <1>1, <2>1, <2>2 DEF PutWrite, Write, WindowInv, DocsOK, Put
  <2>4. docs'[p.cluster].health = p.health
    BY <2>2, <2>3, ReplacementFacts DEF Put
  <2> QED
    BY <1>1, <2>4 DEF WindowInv, HealthInv
<1>2. WindowInv /\ [Next]_vars =>
        [\A p \in puts : puts' = {} /\ p.current /\ docs[p.cluster] # Null
           => docs'[p.cluster].health = docs[p.cluster].health]_vars
  BY <1>1
<1> QED
  BY <1>2, WindowInit, WindowNext, PTL DEF Spec, HealthSurvives

\* While the kill switch is on, at most one item is claimed on a cluster whose
\* campaign follows the cluster's window, and at most two statements are sent: the
\* item whose tick had read the window before, and its offline fallback.
THEOREM KillStops == Spec => []KillStopsInWindow
<1>1. WindowInv => KillStopsInWindow
  BY DEF WindowInv, KillInv, Counts, KillStopsInWindow
<1> QED
  BY <1>1, WindowInit, WindowNext, PTL DEF Spec
-----------------------------------------------------------------------------
(* The two computations of an open window.                                 *)

\* Of a longer list of statements the minutes are no fewer.
LEMMA MinutesGrow ==
  ASSUME NEW S, NEW T \in SUBSET S, IsFiniteSet(S), \A h \in S : h.start \in Nat /\ h.end \in Nat
  PROVE  /\ SumMinutes(T) \in Nat /\ SumMinutes(S) \in Nat
         /\ SumMinutes(T) <= SumMinutes(S)
<1> DEFINE Each == {{h} \X (1..Minutes(h)) : h \in S}
<1> DEFINE each == [h \in S |-> {h} \X (1..Minutes(h))]
<1>1. IsFiniteSet(Each)
  <2>1. Each = {each[h] : h \in S} /\ each \in [S -> Each]
    OBVIOUS
  <2> HIDE DEF each
  <2>2. each \in Surjection(S, Each)
    BY <2>1 DEF Surjection
  <2> HIDE DEF Each
  <2> QED
    BY <2>2, FS_Surjection
<1>2. \A E \in Each : IsFiniteSet(E)
  <2>1. ASSUME NEW h \in S PROVE IsFiniteSet({h} \X (1..Minutes(h)))
    <3>1. Minutes(h) \in Int
      BY DEF Minutes
    <3>2. IsFiniteSet(1..Minutes(h))
      BY <3>1, FS_Interval
    <3>3. IsFiniteSet({h})
      BY FS_Singleton
    <3> QED
      BY <3>2, <3>3, FS_Product
  <2> QED
    BY <2>1
<1>3. IsFiniteSet(UNION Each)
  BY <1>1, <1>2, FS_UNION
<1>4. UNION {{h} \X (1..Minutes(h)) : h \in T} \subseteq UNION Each
  OBVIOUS
<1> QED
  BY <1>3, <1>4, FS_Subset, FS_CardinalityType DEF SumMinutes

\* The day and the minute of a time.
LEMMA DayAndMinute ==
  ASSUME NEW now \in Nat
  PROVE  /\ now \div Day \in Int /\ now % Day \in 0..Day - 1
         /\ now = (now \div Day) * Day + (now % Day)
         /\ (now \div Day - 1) * Day = (now \div Day) * Day - Day
<1>1. Day \in Nat /\ Day > 0
  BY DayAssumption
<1>2. now \div Day \in Int
  BY <1>1
<1>3. now % Day \in 0..Day - 1
  BY <1>1
<1>4. now = (now \div Day) * Day + (now % Day)
  <2>1. \A n \in Int, d \in Int : d > 0 => n = d * (n \div d) + (n % d)
    BY Z3
  <2>2. \A m, n \in Int : m * n = n * m
    OBVIOUS
  <2>3. now = Day * (now \div Day) + (now % Day)
    BY <1>1, <2>1
  <2>4. Day * (now \div Day) = (now \div Day) * Day
    BY <1>1, <1>2, <2>2
  <2> QED
    BY <2>3, <2>4, Zenon
<1>5. \A k \in Int : (k - 1) * Day = k * Day - Day
  BY <1>1
<1> QED
  BY <1>2, <1>3, <1>4, <1>5

LEMMA BoundsFacts ==
  ASSUME NEW slot \in Slot, NEW now \in Nat,
         slot.start # slot.end, SlotContains(slot.start, slot.end, now % Day)
  PROVE  LET bounds == CurrentBounds(slot, slot, now)
         IN  /\ bounds # Null /\ bounds.slot = slot
             /\ bounds.start = WindowStart(now, slot.start) /\ bounds.start \in Int
             /\ bounds.end \in Int /\ now < bounds.end
<1> DEFINE q == (now \div Day) * Day
           m == now % Day
<1>0. now \div Day \in Int /\ (now \div Day - 1) * Day = q - Day
  BY DayAndMinute
<1>1. m \in 0..Day - 1 /\ q \in Int /\ now = q + m
  BY DayAndMinute, DayAssumption
<1>2. /\ slot.start \in 0..Day - 1 /\ slot.end \in 0..Day - 1 /\ slot.budget \in Nat
      /\ Day \in Nat
  BY DayAssumption DEF Slot
<1> DEFINE late == IF slot.start > slot.end THEN Day ELSE 0
           first  == [start |-> q + slot.start, end |-> q + slot.end + late, slot |-> slot]
           second == [start |-> q - Day + slot.start, end |-> q - Day + slot.end + late,
                      slot |-> slot]
           within(b) == b.start <= now /\ now < b.end
<1>3. /\ SlotBounds(now \div Day, slot) = first
      /\ SlotBounds(now \div Day - 1, slot) = second
  BY <1>0 DEF SlotBounds
<1>4. CurrentBounds(slot, slot, now)
        = IF within(first) THEN first ELSE IF within(second) THEN second ELSE Null
  BY <1>3 DEF CurrentBounds
<1>5. slot \in [start : Nat, end : Nat, budget : Nat]
  BY DEF Slot
<1>6. first # Null /\ second # Null
  BY <1>1, <1>2, <1>5, DayAssumption
<1>7. WindowStart(now, slot.start) = IF slot.start > m THEN q - Day + slot.start
                                                      ELSE q + slot.start
  <2> HIDE DEF q
  <2>1. WindowStart(now, slot.start)
          = IF now - m + slot.start > now THEN now - m + slot.start - Day
                                          ELSE now - m + slot.start
    BY <1>1, <1>2 DEF WindowStart
  <2> HIDE DEF m
  <2>2. slot.start \in Int /\ m \in Int /\ q \in Int /\ Day \in Int /\ now = q + m
    BY <1>1, <1>2
  <2>3. (now - m + slot.start > now) <=> (slot.start > m)
    BY <2>2
  <2>4. now - m + slot.start = q + slot.start /\ now - m + slot.start - Day = q - Day + slot.start
    BY <2>2
  <2> QED
    BY <2>1, <2>3, <2>4
<1> HIDE DEF q, m
<1>8. within(first) => slot.start <= m
  BY <1>1, <1>2
<1>9. ~within(first) => within(second) /\ slot.start > m
  BY <1>1, <1>2 DEF SlotContains, m
<1> QED
  BY <1>1, <1>2, <1>4, <1>6, <1>7, <1>8, <1>9

\* The bounds of the executor begin where the window of the web does, and the
\* minutes it counts from there on are among those the web counts.
LEMMA WebOpensLess ==
  ASSUME NEW doc \in Doc, NEW now \in Nat, OnDefaultSlot(doc, now),
         NEW history \in Histories, WebWindowState(doc, history, now).open
  PROVE  ExecutorWindowState(doc, history, now).open
<1> DEFINE slot    == doc.default
           bounds  == CurrentBounds(slot, slot, now)
           spent   == {h \in history : bounds.start <= h.end /\ h.end < now}
           counted == {h \in history : h.start >= WindowStart(now, slot.start) - Offset}
<1>1. slot \in Slot /\ slot \in [start : Nat, end : Nat, budget : Nat]
  BY DEF Doc, Slot
<1>2. ResolveWindowSlot(slot) = slot /\ ExecutorSlot(slot) = slot
  BY <1>1, DayAssumption DEF ResolveWindowSlot, ExecutorSlot, OrElse
<1>3. /\ doc.enabled /\ ~doc.kill
      /\ SlotContains(slot.start, slot.end, now % Day)
      /\ AtLeastZero(slot.budget - SumMinutes(counted)) > 0
  BY <1>2 DEF WebWindowState, BudgetUsed
<1>4. /\ now \div Day \in Int
      /\ SlotForDay(doc, now \div Day) = slot /\ SlotForDay(doc, now \div Day - 1) = slot
      /\ slot.start # slot.end
  BY <1>2, DayAndMinute DEF SlotForDay, OrElse, OnDefaultSlot
<1>5. /\ bounds # Null /\ bounds.slot = slot
      /\ bounds.start = WindowStart(now, slot.start) /\ bounds.start \in Int
      /\ bounds.end \in Int /\ now < bounds.end
  BY <1>1, <1>3, <1>4, BoundsFacts
<1>6. /\ IsFiniteSet(history) /\ Offset \in Nat
      /\ \A h \in history : /\ h.start \in Nat /\ h.end \in Nat
                            /\ h.start <= h.end /\ h.end <= h.start + Offset
  BY HistoriesAssumption, DayAssumption
<1> HIDE DEF bounds
<1>7. spent \subseteq counted /\ counted \subseteq history
  BY <1>5, <1>6
<1>8. /\ SumMinutes(spent) \in Nat /\ SumMinutes(counted) \in Nat
      /\ SumMinutes(spent) <= SumMinutes(counted)
  <2>1. IsFiniteSet(counted)
    BY <1>6, <1>7, FS_Subset
  <2> QED
    BY <1>6, <1>7, <2>1, MinutesGrow
<1>9. SmallerOf(bounds.slot.budget - SumMinutes(spent), bounds.end - now) > 0
  BY <1>1, <1>3, <1>5, <1>8 DEF AtLeastZero, SmallerOf
<1>10. ExecutorWindowState(doc, history, now)
         = OpenFor(SmallerOf(bounds.slot.budget - SumMinutes(spent), bounds.end - now))
  BY <1>3, <1>4, <1>5 DEF ExecutorWindowState, bounds
<1>11. SmallerOf(bounds.slot.budget - SumMinutes(spent), bounds.end - now) \in Int
  BY <1>1, <1>5, <1>8 DEF SmallerOf
<1> QED
  BY <1>9, <1>10, <1>11 DEF OpenFor

\* A window that the web shows open on a default slot is one the executor works
\* in, at any time of any day: the wall clock of the one and the converted
\* instants of the other come to the same window, over midnight too, and the
\* minutes the web counts include those the executor counts.
THEOREM WebOpensWhatExecutes == Spec => WebOpenIsExecutable
<1>1. ASSUME WindowInv', NEW c \in Clusters, docs'[c] # Null,
             NEW now \in Times, OnDefaultSlot(docs'[c], now), NEW history \in Histories,
             WebWindowState(docs'[c], history, now).open
      PROVE  ExecutorWindowState(docs'[c], history, now).open
  <2>1. docs'[c] \in Doc /\ now \in Nat
    BY <1>1, HistoriesAssumption DEF WindowInv, DocsOK
  <2> QED
    BY <1>1, <2>1, WebOpensLess
<1>2. WindowInv /\ [Next]_vars =>
        [\A c \in Clusters : docs'[c] \notin {docs[c], Null} =>
           \A now \in {t \in Times : OnDefaultSlot(docs'[c], t)}, history \in Histories :
             WebWindowState(docs'[c], history, now).open
               => ExecutorWindowState(docs'[c], history, now).open]_vars
  BY <1>1, WindowNext
<1> QED
  BY <1>2, WindowInit, WindowNext, PTL DEF Spec, WebOpenIsExecutable
=============================================================================
