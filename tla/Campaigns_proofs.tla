-------------------------- MODULE Campaigns_proofs --------------------------
(***************************************************************************)
(* Theorems about Campaigns.tla, for any number of campaigns, DBAs, tables *)
(* and days, and whatever forms the DBAs fill in.                          *)
(***************************************************************************)
EXTENDS Campaigns, FiniteSetTheorems, TLAPS

-----------------------------------------------------------------------------
(* Bodies of requests.                                                     *)

Fields == {"end", "scope", "types", "thresholds", "override"}

Values == 0..LastDay \cup Scopes \cup (SUBSET Types) \cup Limits \cup Overrides

WellTyped(b) ==
  /\ "end" \in DOMAIN b        => b["end"] \in 0..LastDay
  /\ "scope" \in DOMAIN b      => b["scope"] \in Scopes
  /\ "types" \in DOMAIN b      => b["types"] \in SUBSET Types /\ b["types"] # {}
  /\ "thresholds" \in DOMAIN b => b["thresholds"] \in Limits
  /\ "override" \in DOMAIN b   => b["override"] \in Overrides

Bodies == {b \in UNION {[S -> Values] : S \in SUBSET Fields} : WellTyped(b)}

LEMMA BodyFacts ==
  ASSUME NEW b \in Bodies
  PROVE  /\ b = [f \in DOMAIN b |-> b[f]]
         /\ DOMAIN b \subseteq Fields
         /\ "status" \notin DOMAIN b
         /\ WellTyped(b)
<1>1. PICK S \in SUBSET Fields : b \in [S -> Values]
  BY DEF Bodies
<1>2. WellTyped(b)
  BY DEF Bodies
<1> QED
  BY <1>1, <1>2 DEF Fields

LEMMA IsBody ==
  ASSUME NEW b, b = [f \in DOMAIN b |-> b[f]], DOMAIN b \subseteq Fields,
         WellTyped(b)
  PROVE  b \in Bodies
<1>1. \A f \in DOMAIN b : b[f] \in Values
  BY DEF Values, WellTyped, Fields
<1>2. b \in [DOMAIN b -> Values]
  BY <1>1
<1> QED
  BY <1>2 DEF Bodies

\* What the form sends, with the defaults of the schema: the scope is there,
\* whatever the mode.
LEMMA PayloadFacts ==
  ASSUME NEW form \in Forms, NEW mode, ValidForm(mode, form)
  PROVE  /\ FillDefaults(Payload(mode, form)) \in Bodies
         /\ "scope" \in DOMAIN FillDefaults(Payload(mode, form))
         /\ mode # "extend" => DOMAIN FillDefaults(Payload(mode, form)) = Fields
<1> DEFINE b == FillDefaults(Payload(mode, form))
           full == [end |-> form.end, scope |-> FormScope(form), types |-> form.types,
                    thresholds |-> BuildThresholds(form), override |-> FormOverride(form)]
           short == [end |-> form.end, scope |-> Null, thresholds |-> Null,
                     override |-> FormOverride(form)]
<1>1. /\ form.end \in 0..LastDay /\ form.types \in (SUBSET Types) \ {{}}
      /\ FormScope(form) \in Scopes /\ FormOverride(form) \in Overrides
      /\ form.inputs \in [Types -> Levels \cup {""}]
  BY DEF Forms, ValidForm, FormScope, FormOverride, Scopes, Overrides
<1>2. BuildThresholds(form) \in Limits
  <2>1. \A t \in form.types : (IF form.inputs[t] = "" THEN "default" ELSE form.inputs[t]) \in Levels
    BY <1>1 DEF Levels
  <2>2. BuildThresholds(form) \in [form.types -> Levels]
    BY <2>1 DEF BuildThresholds
  <2> QED
    BY <1>1, <2>2 DEF Limits
<1>3. CASE mode = "extend"
  <2>1. b = short
    BY <1>3 DEF FillDefaults, Payload
  <2>2. short \in Bodies
    BY <1>1, IsBody DEF Fields, WellTyped, Scopes, Limits
  <2> QED
    BY <2>1, <2>2, <1>3
<1>4. CASE mode # "extend"
  <2>1. b = full
    BY <1>4 DEF FillDefaults, Payload
  <2>2. full \in Bodies
    BY <1>1, <1>2, IsBody DEF Fields, WellTyped
  <2> QED
    BY <2>1, <2>2, <1>4 DEF Fields
<1> QED
  BY <1>3, <1>4

\* Normalising, and setting the fields of a body, in a document.
LEMMA NormalizedFacts ==
  ASSUME NEW b \in Bodies
  PROVE  Normalized(b) = b
  BY BodyFacts DEF Normalized, WellTyped, Fields

LEMMA UpdatedFacts ==
  ASSUME NEW d \in Docs, NEW b \in Bodies
  PROVE  /\ Updated(d, b) \in Docs
         /\ Updated(d, b).status = d.status
  BY BodyFacts DEF Updated, Docs, WellTyped, Fields

LEMMA CreatedFacts ==
  ASSUME NEW b \in Bodies, DOMAIN b = Fields
  PROVE  /\ NewCampaign(b) \in Docs
         /\ NewCampaign(b).status = "pending"
<1>1. NewCampaign(b) = [f \in Fields \cup {"status"} |-> IF f \in Fields THEN b[f] ELSE "pending"]
  BY NormalizedFacts DEF NewCampaign, WithStatus, Fields
<1>2. /\ b["end"] \in 0..LastDay /\ b["scope"] \in Scopes /\ b["thresholds"] \in Limits
      /\ b["types"] \in (SUBSET Types) \ {{}} /\ b["override"] \in Overrides
  BY BodyFacts DEF WellTyped, Fields
<1> QED
  BY <1>1, <1>2 DEF Docs, Fields, Statuses

\* updateCampaign accepts a body with a scope only for a pending campaign,
\* and then leaves its status alone.
LEMMA AcceptedFacts ==
  ASSUME NEW d \in Docs, NEW b \in Bodies, "scope" \in DOMAIN b, Accepts(d, b)
  PROVE  d.status = "pending" /\ SetFields(d, b) = b
  BY NormalizedFacts DEF Accepts, SetFields, NextStatus

\* The form a document is opened in.
LEMMA InitialFormFacts ==
  ASSUME NEW d \in Docs
  PROVE  InitialForm(d) \in Forms
<1>1. MapThresholdInputs(d.thresholds) \in [Types -> Levels \cup {""}]
  <2>1. d.thresholds = Null \/ \E S \in SUBSET Types : d.thresholds \in [S -> Levels]
    BY DEF Docs, Limits
  <2> QED
    BY <2>1 DEF MapThresholdInputs, Levels
<1>2. d.scope = Null \/ d.scope \in SUBSET Tables
  BY DEF Docs, Scopes
<1> QED
  BY <1>1, <1>2 DEF InitialForm, Forms, Docs

-----------------------------------------------------------------------------
(* Types.                                                                  *)

Pages == [pc : {"list", "dialog", "sent", "write", "refused"},
          mode : {"none", "create", "edit", "extend", "cancel"},
          id : Ids \cup {Null}, copy : Docs \cup {Null}, body : Bodies]

\* A dialog that is about a document knows one, and the body of a request is
\* what its mode makes of a form.
PageFits(p) ==
  /\ p.mode \in {"edit", "extend", "cancel"} => p.id \in Ids /\ camp[p.id] # Null
  /\ p.pc \in {"sent", "write"} /\ p.mode = "create" => DOMAIN p.body = Fields
  /\ p.pc = "sent" /\ p.mode \in {"edit", "extend"} => "scope" \in DOMAIN p.body

TypeInv ==
  /\ camp \in [Ids -> Docs \cup {Null}]
  /\ page \in [Users -> Pages]
  /\ disc \in [pc : {"idle", "live", "pending", "claim", "report"},
               id : Ids \cup {Null}, seen : Statuses \cup {Null}]
  /\ today \in 0..LastDay
  /\ \A u \in Users : PageFits(page[u])
  /\ disc.pc \in {"claim", "report"} =>
       disc.id \in Ids /\ camp[disc.id] # Null
       /\ disc.seen \in {"active", "pending", "discovery_failed"}

\* The steps that change the status of one document.
StatusMoves(c, status) ==
  /\ camp[c] # Null
  /\ camp' = [camp EXCEPT ![c].status = status]

LEMMA MovesFacts ==
  ASSUME camp \in [Ids -> Docs \cup {Null}], NEW c \in Ids, NEW status \in Statuses,
         StatusMoves(c, status)
  PROVE  /\ camp' \in [Ids -> Docs \cup {Null}]
         /\ \A e \in Ids : camp'[e] = Null <=> camp[e] = Null
         /\ \A e \in Ids : e # c => camp'[e] = camp[e]
         /\ camp'[c].status = status
  BY CampaignAssumption DEF StatusMoves, Docs

LEMMA NoBodyFacts == NoBody \in Bodies
  BY IsBody DEF NoBody, WellTyped, Fields

LEMMA ListingFacts == Listing \in Pages /\ PageFits(Listing)
  BY NoBodyFacts DEF Listing, Pages, PageFits

\* A page that shows something else fits it, and the others what they showed.
LEMMA ShowsFacts ==
  ASSUME TypeInv, NEW u \in Users, NEW p \in Pages, Shows(u, p), PageFits(p),
         camp' \in [Ids -> Docs \cup {Null}],
         \A c \in Ids : camp[c] # Null => camp'[c] # Null
  PROVE  /\ page' \in [Users -> Pages]
         /\ \A v \in Users : PageFits(page[v])'
<1>1. page' \in [Users -> Pages] /\ \A v \in Users : page'[v] = IF v = u THEN p ELSE page[v]
  BY DEF TypeInv, Shows
<1>2. \A v \in Users : PageFits(page'[v])
  BY <1>1 DEF TypeInv
<1>3. ASSUME NEW v \in Users PROVE PageFits(page[v])'
  BY <1>1, <1>2 DEF PageFits
<1> QED
  BY <1>1, <1>3

\* A failed request leaves its dialog open, without a body.
LEMMA FailedFacts ==
  ASSUME NEW p \in Pages, PageFits(p)
  PROVE  /\ Failed(p) \in Pages /\ PageFits(Failed(p))
         /\ [Failed(p) EXCEPT !.pc = "refused"] \in Pages
         /\ PageFits([Failed(p) EXCEPT !.pc = "refused"])
  BY NoBodyFacts DEF Failed, Pages, PageFits

\* The other variables of a step of one user.
UserStep(u, p) ==
  /\ Shows(u, p) /\ p \in Pages /\ PageFits(p)
  /\ disc' = disc /\ today' = today

LEMMA UserStepType ==
  ASSUME TypeInv, NEW u \in Users, NEW p, UserStep(u, p),
         camp' \in [Ids -> Docs \cup {Null}],
         \A c \in Ids : camp[c] # Null => camp'[c] # Null
  PROVE  TypeInv'
<1>1. page' \in [Users -> Pages] /\ \A v \in Users : PageFits(page[v])'
  BY ShowsFacts DEF UserStep
<1> QED
  BY <1>1 DEF TypeInv, UserStep

\* A dialog is opened or closed, a request is sent: documents stay.
LEMMA BrowserType ==
  ASSUME TypeInv, NEW u \in Users, Browser(u)
  PROVE  TypeInv' /\ camp' = camp /\ disc' = disc
<1>1. camp' = camp /\ disc' = disc /\ today' = today
  BY DEF Browser, OpenCreate, CloseDialog, ConfirmCancel, OpenAction, AskCancel, Submit
<1>2. page[u] \in Pages /\ PageFits(page[u])
  BY DEF TypeInv
<1>3. \E p : UserStep(u, p)
  <2>1. CASE OpenCreate(u)
    <3> DEFINE p == [Listing EXCEPT !.pc = "dialog", !.mode = "create"]
    <3>1. p \in Pages /\ PageFits(p)
      BY NoBodyFacts DEF Listing, Pages, PageFits
    <3> QED
      BY <1>1, <2>1, <3>1 DEF OpenCreate, UserStep
  <2>2. CASE CloseDialog(u)
    BY <1>1, <2>2, ListingFacts DEF CloseDialog, UserStep
  <2>3. CASE ConfirmCancel(u)
    <3> DEFINE p == [page[u] EXCEPT !.pc = "sent"]
    <3>1. p \in Pages /\ PageFits(p)
      BY <1>2, <2>3 DEF ConfirmCancel, Pages, PageFits
    <3> QED
      BY <1>1, <2>3, <3>1 DEF ConfirmCancel, UserStep
  <2>4. ASSUME NEW c \in Ids, OpenAction(u, c)
        PROVE  \E p : UserStep(u, p)
    <3> DEFINE p == [Listing EXCEPT !.pc = "dialog", !.mode = PrimaryAction(camp[c].status),
                                    !.id = c, !.copy = camp[c]]
    <3>1. camp[c] \in Docs /\ camp[c] # Null
      BY <2>4 DEF OpenAction, TypeInv
    <3>2. PrimaryAction(camp[c].status) \in {"edit", "extend", "none"}
      BY DEF PrimaryAction
    <3>3. p \in Pages /\ PageFits(p)
      BY <3>1, <3>2, NoBodyFacts DEF Listing, Pages, PageFits
    <3> QED
      BY <1>1, <2>4, <3>3 DEF OpenAction, UserStep
  <2>5. ASSUME NEW c \in Ids, AskCancel(u, c)
        PROVE  \E p : UserStep(u, p)
    <3> DEFINE p == [Listing EXCEPT !.pc = "dialog", !.mode = "cancel", !.id = c]
    <3>1. p \in Pages /\ PageFits(p)
      BY <2>5, NoBodyFacts DEF AskCancel, Listing, Pages, PageFits
    <3> QED
      BY <1>1, <2>5, <3>1 DEF AskCancel, UserStep
  <2>6. ASSUME NEW form, Submit(u, form)
        PROVE  \E p : UserStep(u, p)
    <3> DEFINE b == FillDefaults(Payload(page[u].mode, form))
               p == [page[u] EXCEPT !.pc = "sent", !.body = b]
    <3>1. form \in Forms
      BY <1>2, <2>6, CampaignAssumption, InitialFormFacts DEF Submit, Pages
    <3>2. /\ b \in Bodies /\ "scope" \in DOMAIN b
          /\ page[u].mode # "extend" => DOMAIN b = Fields
      BY <2>6, <3>1, PayloadFacts DEF Submit
    <3> HIDE DEF b
    <3>3. p \in Pages /\ PageFits(p)
      BY <1>2, <3>2 DEF Pages, PageFits
    <3> QED
      BY <1>1, <2>6, <3>3 DEF Submit, UserStep, b
  <2> QED
    BY <2>1, <2>2, <2>3, <2>4, <2>5, <2>6 DEF Browser
<1> QED
  BY <1>1, <1>3, UserStepType DEF TypeInv

-----------------------------------------------------------------------------
(* The API and the runner: types, and which campaigns come to life.        *)

NoneComesToLife == \A c \in Ids : Live(c)' => Live(c)

\* A write of the API leaves the status of a campaign, cancels it, or adds a
\* pending one: it brings none to life.
LEMMA ApiType ==
  ASSUME TypeInv, NEW u \in Users, Api(u)
  PROVE  TypeInv' /\ NoneComesToLife /\ disc' = disc
<1>1. page[u] \in Pages /\ PageFits(page[u]) /\ camp \in [Ids -> Docs \cup {Null}]
  BY DEF TypeInv
<1>2. /\ Failed(page[u]) \in Pages /\ PageFits(Failed(page[u]))
      /\ [Failed(page[u]) EXCEPT !.pc = "refused"] \in Pages
      /\ PageFits([Failed(page[u]) EXCEPT !.pc = "refused"])
  BY <1>1, FailedFacts
<1>3. disc' = disc /\ today' = today
  BY DEF Api, Refused, CreateChecks, UpdateChecks, CancelChecks, UpdateWrites,
         CancelWrites, CreateWrites
<1> DEFINE written == [page[u] EXCEPT !.pc = "write"]
<1>4. /\ written \in Pages
      /\ page[u].pc = "sent" => PageFits(written)
  BY <1>1 DEF Pages, PageFits
<1> HIDE DEF written
<1>5. ASSUME Answered(u) PROVE \E p : UserStep(u, p)
  BY <1>2, <1>3, <1>5, ListingFacts DEF Answered, UserStep
<1>6. ASSUME camp' = camp, \E p : UserStep(u, p)
      PROVE  TypeInv' /\ NoneComesToLife
  BY <1>1, <1>6, UserStepType DEF NoneComesToLife, Live
<1>7. CASE Refused(u)
  BY <1>2, <1>3, <1>6, <1>7 DEF Refused, UserStep
<1>8. CASE CreateChecks(u)
  BY <1>3, <1>4, <1>6, <1>8 DEF CreateChecks, UserStep, written
<1>9. CASE CancelChecks(u)
  BY <1>2, <1>3, <1>4, <1>6, <1>9 DEF CancelChecks, UserStep, written
<1>10. CASE UpdateChecks(u)
  <2> DEFINE d == camp[page[u].id]
             b == page[u].body
  <2>1. d \in Docs /\ b \in Bodies /\ "scope" \in DOMAIN b
    BY <1>1, <1>10 DEF UpdateChecks, PageFits, Pages
  <2>2. CASE Accepts(d, b)
    <3>1. SetFields(d, b) = b
      BY <2>1, <2>2, AcceptedFacts
    <3>2. [page[u] EXCEPT !.pc = "write", !.body = b] = written
      BY <1>1 DEF Pages, written
    <3> QED
      BY <1>3, <1>4, <1>6, <1>10, <2>2, <3>1, <3>2 DEF UpdateChecks, UserStep
  <2>3. CASE ~Accepts(d, b)
    BY <1>2, <1>3, <1>6, <1>10, <2>3 DEF UpdateChecks, UserStep
  <2> QED
    BY <2>2, <2>3
<1>11. ASSUME NEW c \in Ids, CreateWrites(u, c)
       PROVE  TypeInv' /\ NoneComesToLife
  <2>1. NewCampaign(page[u].body) \in Docs /\ NewCampaign(page[u].body).status = "pending"
    BY <1>1, <1>11, CreatedFacts DEF CreateWrites, PageFits, Pages
  <2>2. /\ camp' \in [Ids -> Docs \cup {Null}]
        /\ \A e \in Ids : camp[e] # Null => camp'[e] # Null
        /\ NoneComesToLife
    BY <1>1, <1>11, <2>1 DEF CreateWrites, NoneComesToLife, Live
  <2> QED
    BY <1>5, <1>11, <2>2, UserStepType DEF CreateWrites
<1>12. CASE UpdateWrites(u)
  <2> DEFINE d == camp[page[u].id]
             b == page[u].body
  <2>1. page[u].id \in Ids /\ d \in Docs /\ b \in Bodies
    BY <1>1, <1>12 DEF UpdateWrites, PageFits, Pages
  <2>2. Updated(d, b) \in Docs /\ Updated(d, b).status = d.status
    BY <2>1, UpdatedFacts
  <2>3. camp' = [camp EXCEPT ![page[u].id] = Updated(d, b)]
    BY <1>12 DEF UpdateWrites
  <2>4. d # Null
    BY <1>1, <1>12 DEF UpdateWrites, PageFits
  <2> HIDE DEF b
  <2>5. /\ camp' \in [Ids -> Docs \cup {Null}]
        /\ \A e \in Ids : camp[e] # Null => camp'[e] # Null
        /\ NoneComesToLife
    BY <1>1, <2>1, <2>2, <2>3, <2>4, CampaignAssumption DEF NoneComesToLife, Live
  <2> QED
    BY <1>5, <1>12, <2>5, UserStepType DEF UpdateWrites
<1>13. CASE CancelWrites(u)
  <2>1. page[u].id \in Ids /\ StatusMoves(page[u].id, "cancelled")
    BY <1>1, <1>13 DEF CancelWrites, PageFits, StatusMoves
  <2>2. /\ camp' \in [Ids -> Docs \cup {Null}]
        /\ \A e \in Ids : camp'[e] = Null <=> camp[e] = Null
        /\ NoneComesToLife
    BY <1>1, <2>1, MovesFacts DEF NoneComesToLife, Live, Statuses
  <2> QED
    BY <1>5, <1>13, <2>2, UserStepType DEF CancelWrites
<1> QED
  BY <1>3, <1>7, <1>8, <1>9, <1>10, <1>11, <1>12, <1>13 DEF Api

\* A document that changes its status keeps the rest well typed, as long as
\* the discovery's locals are.
LEMMA RunnerStepType ==
  ASSUME TypeInv, page' = page, today' = today,
         camp' \in [Ids -> Docs \cup {Null}],
         \A c \in Ids : camp[c] # Null => camp'[c] # Null,
         disc' \in [pc : {"idle", "live", "pending", "claim", "report"},
                    id : Ids \cup {Null}, seen : Statuses \cup {Null}],
         disc'.pc \in {"claim", "report"} =>
           /\ disc'.id \in Ids /\ camp[disc'.id] # Null
           /\ disc'.seen \in {"active", "pending", "discovery_failed"}
  PROVE  TypeInv'
<1>1. ASSUME NEW v \in Users PROVE PageFits(page[v])'
  BY DEF TypeInv, PageFits, Pages
<1> QED
  BY <1>1 DEF TypeInv

LEMMA SetStatusFacts ==
  ASSUME TypeInv, NEW c \in Ids, camp[c] # Null, NEW status \in Statuses, SetStatus(c, status)
  PROVE  StatusMoves(c, status)
  BY DEF SetStatus, StatusMoves

\* Only a discovery that has claimed a campaign brings one to life: its own.
LEMMA RunnerType ==
  ASSUME TypeInv, Runner
  PROVE  /\ TypeInv'
         /\ \/ NoneComesToLife
            \/ /\ disc.pc \in {"claim", "report"}
               /\ \A c \in Ids : Live(c)' => Live(c) \/ c = disc.id
<1> USE DEF TypeInv
<1>1. CASE DiscoveryExpires \/ TickExpires
  <2>1. /\ camp' \in [Ids -> Docs \cup {Null}]
        /\ \A c \in Ids : camp'[c] = Null <=> camp[c] = Null
        /\ NoneComesToLife
    <3>1. CASE camp' = camp
      BY <3>1 DEF NoneComesToLife, Live
    <3>2. ASSUME NEW c \in HasStatus({"active"}), SetStatus(c, "expired")
          PROVE  <2>1!:
      BY <3>2, SetStatusFacts, MovesFacts DEF HasStatus, NoneComesToLife, Live, Statuses
    <3> QED
      BY <1>1, <3>1, <3>2 DEF DiscoveryExpires, TickExpires, ExpireIfPastEndDate
  <2> QED
    BY <1>1, <2>1, RunnerStepType DEF DiscoveryExpires, TickExpires, Idle
<1>2. CASE DiscoveryFindsLive \/ DiscoveryFindsPending
  <2>1. camp' = camp /\ page' = page /\ today' = today
    BY <1>2 DEF DiscoveryFindsLive, DiscoveryFindsPending
  <2>2. NoneComesToLife
    BY <2>1 DEF NoneComesToLife, Live
  <2>3. /\ disc' \in [pc : {"idle", "live", "pending", "claim", "report"},
                      id : Ids \cup {Null}, seen : Statuses \cup {Null}]
        /\ disc'.pc \in {"claim", "report"} =>
             /\ disc'.id \in Ids /\ camp[disc'.id] # Null
             /\ disc'.seen \in {"active", "pending", "discovery_failed"}
    BY <1>2 DEF DiscoveryFindsLive, DiscoveryFindsPending, FindLive, FindPending,
                HasStatus, Idle, Statuses
  <2> QED
    BY <2>1, <2>2, <2>3, RunnerStepType
<1>3. CASE DiscoveryClaims
  <2>1. StatusMoves(disc.id, "discovering") /\ disc.id \in Ids
    BY <1>3, SetStatusFacts DEF DiscoveryClaims, Statuses
  <2>2. /\ camp' \in [Ids -> Docs \cup {Null}]
        /\ \A c \in Ids : camp'[c] = Null <=> camp[c] = Null
        /\ \A c \in Ids : Live(c)' => Live(c) \/ c = disc.id
    BY <2>1, MovesFacts DEF Live, Statuses
  <2> QED
    BY <1>3, <2>2, RunnerStepType DEF DiscoveryClaims
<1>4. CASE DiscoveryReports
  <2>1. PICK status \in Statuses : StatusMoves(disc.id, status) /\ disc.id \in Ids
    BY <1>4, SetStatusFacts DEF DiscoveryReports, Statuses
  <2>2. /\ camp' \in [Ids -> Docs \cup {Null}]
        /\ \A c \in Ids : camp'[c] = Null <=> camp[c] = Null
        /\ \A c \in Ids : Live(c)' => Live(c) \/ c = disc.id
    BY <2>1, MovesFacts DEF Live
  <2> QED
    BY <1>4, <2>2, RunnerStepType DEF DiscoveryReports, Idle
<1>5. CASE RunnerRestarts
  <2>1. /\ camp' \in [Ids -> Docs \cup {Null}]
        /\ \A c \in Ids : camp[c] # Null => camp'[c] # Null
        /\ NoneComesToLife
    BY <1>5, CampaignAssumption
       DEF RunnerRestarts, ResetStuck, NoneComesToLife, Live, Docs, Statuses
  <2> QED
    BY <1>5, <2>1, RunnerStepType DEF RunnerRestarts, Idle
<1>6. ASSUME NEW c \in Ids, ItemsAreDone(c)
      PROVE  TypeInv' /\ NoneComesToLife
  <2>1. StatusMoves(c, "completed")
    BY <1>6, SetStatusFacts DEF ItemsAreDone, HasStatus, Statuses
  <2>2. /\ camp' \in [Ids -> Docs \cup {Null}]
        /\ \A e \in Ids : camp'[e] = Null <=> camp[e] = Null
        /\ NoneComesToLife
    BY <2>1, MovesFacts DEF NoneComesToLife, Live, Statuses
  <2> QED
    BY <1>6, <2>2, RunnerStepType DEF ItemsAreDone
<1>7. CASE DiscoveryLost
  <2>1. camp' = camp /\ NoneComesToLife
    BY <1>7 DEF DiscoveryLost, NoneComesToLife, Live
  <2> QED
    BY <1>7, <2>1, RunnerStepType DEF DiscoveryLost, Idle
<1> QED
  BY <1>1, <1>2, <1>3, <1>4, <1>5, <1>6, <1>7 DEF Runner

-----------------------------------------------------------------------------
(* The theorems.                                                           *)

LEMMA TypeInit == Init => TypeInv
<1> SUFFICES ASSUME Init PROVE TypeInv
  OBVIOUS
<1>1. \A u \in Users : page[u] \in Pages /\ PageFits(page[u])
  BY ListingFacts DEF Init
<1> QED
  BY <1>1, CampaignAssumption DEF Init, TypeInv

LEMMA TypeNext ==
  ASSUME TypeInv, [Next]_vars
  PROVE  TypeInv'
<1>1. CASE UNCHANGED vars
  BY <1>1 DEF vars, TypeInv, PageFits
<1>2. CASE Midnight
  BY <1>2, CampaignAssumption DEF Midnight, TypeInv, PageFits
<1>3. CASE Runner
  BY <1>3, RunnerType
<1>4. ASSUME NEW u \in Users, Browser(u) \/ Api(u) PROVE TypeInv'
  BY <1>4, BrowserType, ApiType
<1> QED
  BY <1>1, <1>2, <1>3, <1>4 DEF Next

\* Which step brings a campaign to life: that of the discovery which holds it.
LEMMA LifeCases ==
  ASSUME TypeInv, [Next]_vars
  PROVE  \/ NoneComesToLife /\ (disc' = disc \/ Runner)
         \/ /\ Runner /\ disc.pc \in {"claim", "report"}
            /\ \A c \in Ids : Live(c)' => Live(c) \/ c = disc.id
<1>1. CASE UNCHANGED vars \/ Midnight
  BY <1>1 DEF vars, Midnight, NoneComesToLife, Live
<1>2. CASE Runner
  BY <1>2, RunnerType
<1>3. ASSUME NEW u \in Users, Browser(u)
      PROVE  NoneComesToLife /\ disc' = disc
  BY <1>3, BrowserType DEF NoneComesToLife, Live
<1>4. ASSUME NEW u \in Users, Api(u)
      PROVE  NoneComesToLife /\ disc' = disc
  BY <1>4, ApiType
<1> QED
  BY <1>1, <1>2, <1>3, <1>4 DEF Next

\* What the discovery has found out stays true until it writes: once it has
\* found none alive there is none, and what it holds is all that may live.
LiveInv ==
  /\ \A c, e \in Ids : Live(c) /\ Live(e) => c = e
  /\ disc.pc = "pending" => \A c \in Ids : ~Live(c)
  /\ disc.pc \in {"claim", "report"} => \A c \in Ids : Live(c) => c = disc.id

LEMMA LiveNext ==
  ASSUME TypeInv, LiveInv, [Next]_vars
  PROVE  LiveInv'
<1>1. CASE NoneComesToLife /\ disc' = disc
  BY <1>1 DEF LiveInv, NoneComesToLife
<1>2. CASE NoneComesToLife /\ Runner
  <2>1. \A c, e \in Ids : Live(c)' /\ Live(e)' => c = e
    BY <1>2 DEF LiveInv, NoneComesToLife
  <2>2. ASSUME disc'.pc = "pending" PROVE \A c \in Ids : ~Live(c)'
    <3>1. \A c \in Ids : ~Live(c)
      BY <1>2, <2>2 DEF Runner, DiscoveryExpires, DiscoveryFindsLive, DiscoveryFindsPending,
         DiscoveryClaims, DiscoveryReports, DiscoveryLost, TickExpires,
         ExpireIfPastEndDate, RunnerRestarts, ItemsAreDone, Idle, FindLive,
         HasStatus, Live, LiveInv, TypeInv
    <3> QED
      BY <1>2, <3>1 DEF NoneComesToLife
  <2>3. ASSUME disc'.pc \in {"claim", "report"} PROVE \A c \in Ids : Live(c)' => c = disc'.id
    <3>1. \A c \in Ids : Live(c) => c = disc'.id
      BY <1>2, <2>3 DEF Runner, DiscoveryExpires, DiscoveryFindsLive, DiscoveryFindsPending,
         DiscoveryClaims, DiscoveryReports, DiscoveryLost, TickExpires,
         ExpireIfPastEndDate, RunnerRestarts, ItemsAreDone, Idle, FindLive,
         HasStatus, Live, LiveInv, TypeInv
    <3> QED
      BY <1>2, <3>1 DEF NoneComesToLife
  <2> QED
    BY <2>1, <2>2, <2>3 DEF LiveInv
<1>3. CASE /\ Runner /\ disc.pc \in {"claim", "report"}
           /\ \A c \in Ids : Live(c)' => Live(c) \/ c = disc.id
  <2>1. \A c \in Ids : Live(c)' => c = disc.id
    BY <1>3 DEF LiveInv
  <2>2. disc'.pc # "pending" /\ (disc'.pc \in {"claim", "report"} => disc'.id = disc.id)
    BY <1>3 DEF Runner, DiscoveryExpires, DiscoveryFindsLive, DiscoveryFindsPending,
       DiscoveryClaims, DiscoveryReports, DiscoveryLost, TickExpires,
         ExpireIfPastEndDate, RunnerRestarts, ItemsAreDone, Idle, TypeInv
  <2> QED
    BY <2>1, <2>2 DEF LiveInv
<1> QED
  BY <1>1, <1>2, <1>3, LifeCases

\* CampaignTypeOK holds, whatever is sent when: documents, dialogs and
\* requests stay well formed (campaign-service.ts, campaigns.schema.ts).
THEOREM CampaignTypes == Spec => []CampaignTypeOK
<1>1. TypeInv => CampaignTypeOK
  BY DEF TypeInv, CampaignTypeOK, Pages, PageFits
<1> QED
  BY <1>1, TypeInit, TypeNext, PTL DEF Spec

\* OneLive holds for any number of campaigns and requests in flight, although
\* createCampaign checks and then writes.
THEOREM OneCampaignLives == Spec => []OneLive
<1> DEFINE Inv == TypeInv /\ LiveInv
<1>1. Init => LiveInv
  BY DEF Init, LiveInv, Live
<1>2. LiveInv => OneLive
  <2> SUFFICES ASSUME LiveInv PROVE OneLive
    OBVIOUS
  <2> DEFINE alive == {c \in Ids : Live(c)}
  <2>1. CASE alive = {}
    BY <2>1, FS_EmptySet DEF OneLive
  <2>2. CASE alive # {}
    <3>1. PICK c \in Ids : alive = {c}
      BY <2>2 DEF LiveInv
    <3> QED
      BY <3>1, FS_Singleton DEF OneLive
  <2> QED
    BY <2>1, <2>2
<1>3. Inv /\ [Next]_vars => Inv'
  BY TypeNext, LiveNext
<1> HIDE DEF Inv
<1>4. Init => Inv
  BY <1>1, TypeInit DEF Inv
<1>5. Inv => OneLive
  BY <1>2 DEF Inv
<1> QED
  BY <1>3, <1>4, <1>5, PTL DEF Spec

\* RevivedByDiscoveryOrExtension, and in its first case alone: no request of
\* the web, however stale, brings a campaign back that is over at present
\* (updateCampaign's branch for an extension, which is meant to, is closed by the
\* scope the schema fills in).
THEOREM RevivedAsMeant == Spec => RevivedByDiscoveryOrExtension
<1> DEFINE Revived(c) == camp[c] # Null /\ camp[c].status \in Over /\ Live(c)'
<1>1. ASSUME TypeInv, [Next]_vars, NEW c \in Ids, Revived(c)
      PROVE  disc.id = c /\ disc.seen \notin Over
  BY <1>1, LifeCases DEF NoneComesToLife, Live, Over, TypeInv
<1>2. TypeInv /\ [Next]_vars =>
        [\A c \in Ids : Revived(c) =>
           \/ disc.id = c /\ disc.seen \notin Over
           \/ \E u \in Users :
                /\ page[u].pc = "write" /\ page[u].mode = "extend" /\ page[u].id = c
                /\ "status" \in DOMAIN page[u].body]_vars
  BY <1>1
<1> QED
  BY <1>2, TypeInit, TypeNext, PTL DEF Spec, RevivedByDiscoveryOrExtension

-----------------------------------------------------------------------------
(* What the console can have stored, and what an untouched edit sends.     *)

\* A form sends all tables or some, never none given, and numbers for just
\* the types it names.
PlainBody(b) ==
  /\ DOMAIN b = Fields
  /\ b["scope"] \in SUBSET Tables
  /\ b["thresholds"] \in [b["types"] -> Levels]

PlainDoc(d) == d.scope \in SUBSET Tables /\ d.thresholds \in [d.types -> Levels]

\* An extension never gets as far as its write: what it was opened on is not
\* pending, and never becomes so again.
PageEdits(p) ==
  /\ p.pc \in {"sent", "write"} /\ p.mode \in {"create", "edit"} => PlainBody(p.body)
  /\ p.mode = "extend" => p.pc # "write" /\ camp[p.id].status # "pending"

EditInv ==
  /\ \A u \in Users : PageEdits(page[u])
  /\ \A c \in Ids : camp[c] # Null => PlainDoc(camp[c])

LEMMA PlainPayload ==
  ASSUME NEW form \in Forms, NEW mode, mode # "extend", ValidForm(mode, form)
  PROVE  PlainBody(FillDefaults(Payload(mode, form)))
<1> DEFINE b == FillDefaults(Payload(mode, form))
           full == [end |-> form.end, scope |-> FormScope(form), types |-> form.types,
                    thresholds |-> BuildThresholds(form), override |-> FormOverride(form)]
<1>1. b = full
  BY DEF FillDefaults, Payload
<1>2. FormScope(form) \in SUBSET Tables
  BY DEF Forms, FormScope
<1>3. BuildThresholds(form) \in [form.types -> Levels]
  BY DEF Forms, BuildThresholds, Levels
<1> QED
  BY <1>1, <1>2, <1>3 DEF PlainBody, Fields

LEMMA PlainWrites ==
  ASSUME NEW b \in Bodies, PlainBody(b)
  PROVE  /\ PlainDoc(NewCampaign(b))
         /\ \A d \in Docs : PlainDoc(Updated(d, b))
<1>1. NewCampaign(b) = [f \in Fields \cup {"status"} |-> IF f \in Fields THEN b[f] ELSE "pending"]
  BY NormalizedFacts DEF NewCampaign, WithStatus, Fields, PlainBody
<1>2. PlainDoc(NewCampaign(b))
  BY <1>1 DEF PlainBody, PlainDoc, Fields
<1>3. ASSUME NEW d \in Docs PROVE PlainDoc(Updated(d, b))
  BY DEF PlainBody, PlainDoc, Fields, Updated, Docs
<1> QED
  BY <1>2, <1>3

\* A campaign that is not pending does not become pending.
StaysDecided ==
  \A c \in Ids : camp[c] # Null /\ camp[c].status # "pending"
                   => camp'[c] # Null /\ camp'[c].status # "pending"

LEMMA EditStep ==
  ASSUME TypeInv, EditInv, StaysDecided,
         page' \in [Users -> Pages], \A u \in Users : PageEdits(page'[u]) /\ PageFits(page'[u]),
         \A c \in Ids : camp'[c] # Null => PlainDoc(camp'[c])
  PROVE  EditInv'
<1>1. ASSUME NEW u \in Users PROVE PageEdits(page[u])'
  BY <1>1 DEF PageEdits, PageFits, StaysDecided, Pages
<1> QED
  BY <1>1 DEF EditInv

LEMMA EditShows ==
  ASSUME TypeInv, EditInv, StaysDecided, NEW u \in Users, NEW p \in Pages,
         Shows(u, p), PageFits(p), PageEdits(p),
         \A c \in Ids : camp'[c] # Null => PlainDoc(camp'[c])
  PROVE  EditInv'
<1>1. page' \in [Users -> Pages] /\ \A v \in Users : page'[v] = IF v = u THEN p ELSE page[v]
  BY DEF TypeInv, Shows
<1>2. \A v \in Users : PageEdits(page'[v]) /\ PageFits(page'[v])
  BY <1>1 DEF TypeInv, EditInv
<1> QED
  BY <1>1, <1>2, EditStep

LEMMA EditBrowser ==
  ASSUME TypeInv, EditInv, NEW u \in Users, Browser(u)
  PROVE  EditInv'
<1>1. camp' = camp
  BY BrowserType
<1>2. StaysDecided /\ \A c \in Ids : camp'[c] # Null => PlainDoc(camp'[c])
  BY <1>1 DEF StaysDecided, EditInv
<1>3. page[u] \in Pages /\ PageFits(page[u]) /\ PageEdits(page[u])
  BY DEF TypeInv, EditInv
<1>4. ASSUME NEW p \in Pages, Shows(u, p), PageFits(p), PageEdits(p) PROVE EditInv'
  BY <1>2, <1>4, EditShows
<1>5. CASE OpenCreate(u)
  <2> DEFINE p == [Listing EXCEPT !.pc = "dialog", !.mode = "create"]
  <2>1. p \in Pages /\ PageFits(p) /\ PageEdits(p)
    BY NoBodyFacts DEF Listing, Pages, PageFits, PageEdits
  <2> QED
    BY <1>4, <1>5, <2>1 DEF OpenCreate
<1>6. CASE CloseDialog(u)
  BY <1>4, <1>6, ListingFacts DEF CloseDialog, PageEdits, Listing
<1>7. CASE ConfirmCancel(u)
  <2> DEFINE p == [page[u] EXCEPT !.pc = "sent"]
  <2>1. p \in Pages /\ PageFits(p) /\ PageEdits(p)
    BY <1>3, <1>7 DEF ConfirmCancel, Pages, PageFits, PageEdits
  <2> QED
    BY <1>4, <1>7, <2>1 DEF ConfirmCancel
<1>8. ASSUME NEW c \in Ids, OpenAction(u, c) PROVE EditInv'
  <2> DEFINE p == [Listing EXCEPT !.pc = "dialog", !.mode = PrimaryAction(camp[c].status),
                                  !.id = c, !.copy = camp[c]]
  <2>1. camp[c] \in Docs /\ camp[c] # Null
    BY <1>8 DEF OpenAction, TypeInv
  <2>2. /\ PrimaryAction(camp[c].status) \in {"edit", "extend", "none"}
        /\ PrimaryAction(camp[c].status) = "extend" => camp[c].status # "pending"
    BY <2>1 DEF PrimaryAction, Docs, Statuses
  <2>3. p \in Pages /\ PageFits(p) /\ PageEdits(p)
    BY <2>1, <2>2, NoBodyFacts DEF Listing, Pages, PageFits, PageEdits
  <2> QED
    BY <1>4, <1>8, <2>3 DEF OpenAction
<1>9. ASSUME NEW c \in Ids, AskCancel(u, c) PROVE EditInv'
  <2> DEFINE p == [Listing EXCEPT !.pc = "dialog", !.mode = "cancel", !.id = c]
  <2>1. p \in Pages /\ PageFits(p) /\ PageEdits(p)
    BY <1>9, NoBodyFacts DEF AskCancel, Listing, Pages, PageFits, PageEdits
  <2> QED
    BY <1>4, <1>9, <2>1 DEF AskCancel
<1>10. ASSUME NEW form, Submit(u, form) PROVE EditInv'
  <2> DEFINE b == FillDefaults(Payload(page[u].mode, form))
             p == [page[u] EXCEPT !.pc = "sent", !.body = b]
  <2>1. form \in Forms
    BY <1>3, <1>10, CampaignAssumption, InitialFormFacts DEF Submit, Pages
  <2>2. /\ b \in Bodies /\ "scope" \in DOMAIN b
        /\ page[u].mode # "extend" => DOMAIN b = Fields /\ PlainBody(b)
    BY <1>10, <2>1, PayloadFacts, PlainPayload DEF Submit
  <2> HIDE DEF b
  <2>3. p \in Pages /\ PageFits(p) /\ PageEdits(p)
    BY <1>3, <2>2 DEF Pages, PageFits, PageEdits
  <2> QED
    BY <1>4, <1>10, <2>3 DEF Submit, b
<1> QED
  BY <1>5, <1>6, <1>7, <1>8, <1>9, <1>10 DEF Browser

LEMMA MovesPlain ==
  ASSUME TypeInv, EditInv, NEW c \in Ids, NEW status \in Statuses, status # "pending",
         StatusMoves(c, status)
  PROVE  StaysDecided /\ \A e \in Ids : camp'[e] # Null => PlainDoc(camp'[e])
<1>1. /\ \A e \in Ids : camp'[e] = Null <=> camp[e] = Null
      /\ \A e \in Ids : e # c => camp'[e] = camp[e]
      /\ camp'[c].status = status
  BY MovesFacts DEF TypeInv
<1>2. camp[c] # Null /\ PlainDoc(camp'[c])
  BY DEF StatusMoves, PlainDoc, EditInv, TypeInv, Docs
<1> QED
  BY <1>1, <1>2 DEF StaysDecided, EditInv

LEMMA EditApi ==
  ASSUME TypeInv, EditInv, NEW u \in Users, Api(u)
  PROVE  EditInv'
<1>1. page[u] \in Pages /\ PageFits(page[u]) /\ PageEdits(page[u])
      /\ camp \in [Ids -> Docs \cup {Null}]
  BY DEF TypeInv, EditInv
<1>2. ASSUME NEW p \in Pages, Shows(u, p), PageFits(p), PageEdits(p), StaysDecided,
             \A c \in Ids : camp'[c] # Null => PlainDoc(camp'[c])
      PROVE  EditInv'
  BY <1>2, EditShows
<1>3. ASSUME camp' = camp
      PROVE  StaysDecided /\ \A c \in Ids : camp'[c] # Null => PlainDoc(camp'[c])
  BY <1>3 DEF StaysDecided, EditInv
<1>4. /\ Failed(page[u]) \in Pages /\ PageFits(Failed(page[u])) /\ PageEdits(Failed(page[u]))
      /\ [Failed(page[u]) EXCEPT !.pc = "refused"] \in Pages
      /\ PageFits([Failed(page[u]) EXCEPT !.pc = "refused"])
      /\ PageEdits([Failed(page[u]) EXCEPT !.pc = "refused"])
  <2>1. PageEdits(Failed(page[u])) /\ PageEdits([Failed(page[u]) EXCEPT !.pc = "refused"])
    BY <1>1 DEF Failed, Pages, PageEdits
  <2> QED
    BY <1>1, <2>1, FailedFacts
<1>5. ASSUME Answered(u), StaysDecided, \A c \in Ids : camp'[c] # Null => PlainDoc(camp'[c])
      PROVE  EditInv'
  <2>1. PageEdits(Listing)
    BY DEF PageEdits, Listing
  <2> QED
    BY <1>2, <1>4, <1>5, <2>1, ListingFacts DEF Answered
<1> DEFINE written == [page[u] EXCEPT !.pc = "write"]
<1>6. /\ written \in Pages
      /\ page[u].pc = "sent" => PageFits(written)
      /\ page[u].pc = "sent" /\ page[u].mode # "extend" => PageEdits(written)
  BY <1>1 DEF Pages, PageFits, PageEdits
<1> HIDE DEF written
<1>7. CASE Refused(u)
  BY <1>2, <1>3, <1>4, <1>7 DEF Refused
<1>8. CASE CreateChecks(u)
  BY <1>2, <1>3, <1>6, <1>8 DEF CreateChecks, written
<1>9. CASE CancelChecks(u)
  BY <1>2, <1>3, <1>4, <1>6, <1>9 DEF CancelChecks, written
<1>10. CASE UpdateChecks(u)
  <2> DEFINE d == camp[page[u].id]
             b == page[u].body
  <2>1. d \in Docs /\ b \in Bodies /\ "scope" \in DOMAIN b
    BY <1>1, <1>10 DEF UpdateChecks, PageFits, Pages
  <2>2. CASE Accepts(d, b)
    <3>1. d.status = "pending" /\ SetFields(d, b) = b
      BY <2>1, <2>2, AcceptedFacts
    <3>2. [page[u] EXCEPT !.pc = "write", !.body = b] = written
      BY <1>1 DEF Pages, written
    <3>3. page[u].mode # "extend" /\ page[u].pc = "sent"
      BY <1>1, <1>10, <3>1 DEF PageEdits, UpdateChecks
    <3> QED
      BY <1>2, <1>3, <1>6, <1>10, <2>2, <3>1, <3>2, <3>3 DEF UpdateChecks
  <2>3. CASE ~Accepts(d, b)
    BY <1>2, <1>3, <1>4, <1>10, <2>3 DEF UpdateChecks
  <2> QED
    BY <2>2, <2>3
<1>11. ASSUME NEW c \in Ids, CreateWrites(u, c) PROVE EditInv'
  <2>1. page[u].body \in Bodies /\ PlainBody(page[u].body)
    BY <1>1, <1>11 DEF CreateWrites, PageEdits, Pages
  <2>2. PlainDoc(NewCampaign(page[u].body))
    BY <2>1, PlainWrites
  <2>3. StaysDecided /\ \A e \in Ids : camp'[e] # Null => PlainDoc(camp'[e])
    BY <1>1, <1>11, <2>2 DEF CreateWrites, StaysDecided, EditInv
  <2> QED
    BY <1>5, <1>11, <2>3 DEF CreateWrites
<1>12. CASE UpdateWrites(u)
  <2> DEFINE d == camp[page[u].id]
             b == page[u].body
  <2>1. page[u].id \in Ids /\ d # Null /\ d \in Docs /\ b \in Bodies /\ PlainBody(b)
    BY <1>1, <1>12 DEF UpdateWrites, PageFits, PageEdits, Pages
  <2>2. /\ Updated(d, b) \in Docs /\ Updated(d, b).status = d.status
        /\ PlainDoc(Updated(d, b))
    BY <2>1, UpdatedFacts, PlainWrites
  <2>3. camp' = [camp EXCEPT ![page[u].id] = Updated(d, b)]
    BY <1>12 DEF UpdateWrites
  <2> HIDE DEF b
  <2>4. StaysDecided /\ \A e \in Ids : camp'[e] # Null => PlainDoc(camp'[e])
    BY <1>1, <2>1, <2>2, <2>3, CampaignAssumption DEF StaysDecided, EditInv
  <2> QED
    BY <1>5, <1>12, <2>4 DEF UpdateWrites
<1>13. CASE CancelWrites(u)
  <2>1. page[u].id \in Ids /\ StatusMoves(page[u].id, "cancelled")
    BY <1>1, <1>13 DEF CancelWrites, PageFits, StatusMoves
  <2>2. StaysDecided /\ \A e \in Ids : camp'[e] # Null => PlainDoc(camp'[e])
    BY <1>1, <2>1, MovesPlain DEF Statuses
  <2> QED
    BY <1>5, <1>13, <2>2 DEF CancelWrites
<1> QED
  BY <1>7, <1>8, <1>9, <1>10, <1>11, <1>12, <1>13 DEF Api

\* The runner moves documents, and none to pending.
LEMMA EditRunner ==
  ASSUME TypeInv, EditInv, Runner
  PROVE  EditInv'
<1>1. page' = page
  BY DEF Runner, DiscoveryExpires, DiscoveryFindsLive, DiscoveryFindsPending, DiscoveryClaims,
         DiscoveryReports, DiscoveryLost, TickExpires,
         ExpireIfPastEndDate, RunnerRestarts, ItemsAreDone
<1>2. ASSUME StaysDecided, \A c \in Ids : camp'[c] # Null => PlainDoc(camp'[c])
      PROVE  EditInv'
  BY <1>1, <1>2, EditStep DEF TypeInv, EditInv
<1>3. ASSUME camp' = camp PROVE EditInv'
  BY <1>2, <1>3 DEF StaysDecided, EditInv
<1>4. ASSUME NEW c \in Ids, NEW status \in Statuses, status # "pending",
             camp[c] # Null, SetStatus(c, status)
      PROVE  EditInv'
  BY <1>2, <1>4, SetStatusFacts, MovesPlain
<1>5. CASE DiscoveryExpires \/ TickExpires
  BY <1>3, <1>4, <1>5 DEF DiscoveryExpires, TickExpires, ExpireIfPastEndDate, HasStatus, Statuses
<1>6. CASE DiscoveryFindsLive \/ DiscoveryFindsPending \/ DiscoveryLost
  BY <1>3, <1>6 DEF DiscoveryFindsLive, DiscoveryFindsPending, DiscoveryLost
<1>7. CASE DiscoveryClaims \/ DiscoveryReports
  BY <1>4, <1>7 DEF DiscoveryClaims, DiscoveryReports, TypeInv, Statuses
<1>8. CASE RunnerRestarts
  <2>1. ASSUME NEW c \in Ids
        PROVE  /\ camp'[c] = Null <=> camp[c] = Null
               /\ camp'[c] # Null => PlainDoc(camp'[c])
               /\ camp'[c] # Null /\ camp'[c].status = "pending" => camp'[c] = camp[c]
    <3> DEFINE d == camp[c]
               new == [d EXCEPT !.status = "discovery_failed"]
    <3>1. camp'[c] = IF d # Null /\ d.status = "discovering" THEN new ELSE d
      BY <1>8 DEF RunnerRestarts, ResetStuck
    <3>2. CASE d # Null /\ d.status = "discovering"
      <4>1. d \in Docs /\ PlainDoc(d)
        BY <3>2 DEF TypeInv, EditInv
      <4>2. new \in Docs /\ new.status = "discovery_failed" /\ PlainDoc(new)
        BY <4>1 DEF Docs, Statuses, PlainDoc
      <4>3. new # Null
        BY <4>2, CampaignAssumption
      <4> QED
        BY <3>1, <3>2, <4>2, <4>3
    <3>3. CASE ~(d # Null /\ d.status = "discovering")
      BY <3>1, <3>3 DEF EditInv
    <3> QED
      BY <3>2, <3>3
  <2>2. StaysDecided /\ \A c \in Ids : camp'[c] # Null => PlainDoc(camp'[c])
    BY <2>1 DEF StaysDecided
  <2> QED
    BY <1>2, <2>2
<1>9. ASSUME NEW c \in Ids, ItemsAreDone(c) PROVE EditInv'
  BY <1>4, <1>9 DEF ItemsAreDone, HasStatus, Statuses
<1> QED
  BY <1>5, <1>6, <1>7, <1>8, <1>9 DEF Runner

LEMMA EditNext ==
  ASSUME TypeInv, EditInv, [Next]_vars
  PROVE  EditInv'
<1>1. CASE UNCHANGED vars
  BY <1>1 DEF vars, EditInv, PageEdits
<1>2. CASE Midnight
  BY <1>2 DEF Midnight, EditInv, PageEdits
<1>3. ASSUME NEW u \in Users, Browser(u) \/ Api(u) PROVE EditInv'
  BY <1>3, EditBrowser, EditApi
<1> QED
  BY <1>1, <1>2, <1>3, EditRunner DEF Next

\* The form, the payload, the schema's defaults and the API's normalisation
\* are inverse to each other on a pending plain document.
LEMMA UntouchedFacts ==
  ASSUME NEW d \in Docs, PlainDoc(d), d.status = "pending"
  PROVE  LET b == FillDefaults(Payload("edit", InitialForm(d)))
         IN  Updated(d, SetFields(d, b)) = d
<1> DEFINE form == InitialForm(d)
           b == FillDefaults(Payload("edit", form))
           full == [end |-> d.end, scope |-> d.scope, types |-> d.types,
                    thresholds |-> d.thresholds, override |-> d.override]
<1>1. d.types \in SUBSET Types /\ d.types # {} /\ d.end \in 0..LastDay
      /\ d.override \in Overrides
  BY DEF Docs
<1>2. FormScope(form) = d.scope
  BY CampaignAssumption DEF FormScope, InitialForm, PlainDoc
<1>3. BuildThresholds(form) = d.thresholds
  <2>1. d.thresholds # Null
    BY <1>1, CampaignAssumption DEF PlainDoc
  <2>2. \A t \in d.types : MapThresholdInputs(d.thresholds)[t] = d.thresholds[t]
    BY <1>1, <2>1 DEF MapThresholdInputs, PlainDoc
  <2>3. \A t \in d.types : d.thresholds[t] # ""
    BY DEF PlainDoc, Levels
  <2> QED
    BY <2>2, <2>3 DEF BuildThresholds, InitialForm, PlainDoc
<1>4. FormOverride(form) = d.override
  BY <1>1 DEF FormOverride, InitialForm, Overrides
<1>5. b = full
  BY <1>2, <1>3, <1>4 DEF FillDefaults, Payload, InitialForm
<1>6. SetFields(d, full) = full
  BY <1>1 DEF SetFields, NextStatus, Normalized
<1>7. Updated(d, full) = d
  BY DEF Updated, Docs
<1> QED
  BY <1>5, <1>6, <1>7

\* UntouchedEditKeeps holds for whatever forms were sent before, in whatever
\* order their requests were checked and written (CampaignForm.tsx,
\* campaigns.schema.ts, campaign-service.ts).
THEOREM UntouchedEditsKeep == Spec => []UntouchedEditKeeps
<1> DEFINE Inv == TypeInv /\ EditInv
<1>1. Init => EditInv
  BY DEF Init, EditInv, PageEdits, Listing
<1>2. Inv => UntouchedEditKeeps
  <2> SUFFICES ASSUME TypeInv, EditInv, NEW c \in HasStatus({"pending"})
               PROVE  LET body == FillDefaults(Payload("edit", InitialForm(camp[c])))
                      IN  Updated(camp[c], SetFields(camp[c], body)) = camp[c]
    BY DEF UntouchedEditKeeps
  <2>1. camp[c] \in Docs /\ PlainDoc(camp[c]) /\ camp[c].status = "pending"
    BY DEF HasStatus, TypeInv, EditInv
  <2> QED
    BY <2>1, UntouchedFacts
<1>3. Inv /\ [Next]_vars => Inv'
  BY TypeNext, EditNext
<1> HIDE DEF Inv
<1>4. Init => Inv
  BY <1>1, TypeInit DEF Inv
<1> QED
  BY <1>2, <1>3, <1>4, PTL DEF Spec
=============================================================================
