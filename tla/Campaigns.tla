------------------------------ MODULE Campaigns ------------------------------
(***************************************************************************)
(* The campaigns of one cluster: the web console that creates, edits,      *)
(* extends and cancels them (CampaignForm.tsx, CampaignList.tsx,           *)
(* CampaignControl.tsx), the API behind it (campaign-service.ts), and the  *)
(* discovery of the runner, which writes the same documents.               *)
(*                                                                         *)
(* Each request of the API is a read, checks, and a write by campaign_id   *)
(* alone; the runner works on the copy it found.  A user's page works on   *)
(* the copy of the campaign its list held when the dialog was opened.      *)
(***************************************************************************)
EXTENDS Naturals, FiniteSets

CONSTANTS Ids,        (* bound: the campaigns ever created                  *)
          Users,      (* the DBAs, each with a page                         *)
          Tables,     (* the tables of the schema a campaign works on       *)
          Types,      (* execution types: index, statistic, heap            *)
          Entries,    (* the forms a DBA may fill in                        *)
          LastDay,    (* bound: days that pass                              *)
          MayCrash,   (* may the runner die?                                *)
          Null

VARIABLES
  camp,   (* campaigns collection: camp[c] is a document or Null            *)
  page,   (* page[u]: dialog and request in flight of a user                *)
  disc,   (* the discovery thread of the runner and its locals              *)
  today

vars == <<camp, page, disc, today>>

Statuses == {"pending", "discovering", "discovery_failed", "active",
             "completed", "expired", "cancelled"}
Over     == {"completed", "expired", "cancelled"}

\* Every campaign starts on day 0; end_date is its midnight.
StartDay == 0

Scopes    == {Null} \cup SUBSET Tables    \* the empty set: all tables
Overrides == {"own window", Null}
Levels    == {"default", "tuned"}         \* the numbers of one group
Limits    == {Null} \cup UNION {[S -> Levels] : S \in (SUBSET Types) \ {{}}}

Docs == [status : Statuses, end : 0..LastDay, scope : Scopes, thresholds : Limits,
         types : (SUBSET Types) \ {{}}, override : Overrides]

Live(c) == camp[c] # Null /\ camp[c].status \in {"active", "discovering"}

-----------------------------------------------------------------------------
(* The form.  An input of a threshold group that is empty counts as its    *)
(* default.                                                                *)

Forms == [end : 0..LastDay, tableMode : {"all", "specific"}, selected : SUBSET Tables,
          types : SUBSET Types, inputs : [Types -> Levels \cup {""}],
          ownWindow : BOOLEAN]

ASSUME CampaignAssumption ==
  /\ LastDay \in Nat /\ MayCrash \in BOOLEAN
  /\ Entries \subseteq Forms
  /\ Null \notin Docs
  /\ \A S \in SUBSET Tables : Null # S
  /\ \A S \in SUBSET Types : Null \notin [S -> Levels]

\* Mutant: the numbers of the campaign are not looked up.
MapThresholdInputsDefault(limits) == [t \in Types |-> "default"]

MapThresholdInputs(limits) ==
  [t \in Types |-> IF limits # Null /\ t \in DOMAIN limits THEN limits[t] ELSE "default"]

InitialForm(d) ==
  [end |-> d.end,
   tableMode |-> IF d.scope \in {Null, {}} THEN "all" ELSE "specific",
   selected  |-> IF d.scope = Null THEN {} ELSE d.scope,
   types     |-> d.types,
   inputs    |-> MapThresholdInputs(d.thresholds),
   ownWindow |-> d.override # Null]

BuildThresholds(form) ==
  [t \in form.types |-> IF form.inputs[t] = "" THEN "default" ELSE form.inputs[t]]

FormScope(form) == IF form.tableMode = "specific" THEN form.selected ELSE {}

FormOverride(form) == IF form.ownWindow THEN "own window" ELSE Null

\* handleSubmit's checks; "extend" does not look at the scope.
ValidForm(mode, form) ==
  /\ form.types # {}
  /\ mode # "extend" => (form.tableMode = "specific" => form.selected # {})
  /\ mode = "create" => form.end > StartDay

Payload(mode, form) ==
  IF mode = "extend"
  THEN [end |-> form.end, override |-> FormOverride(form)]
  ELSE [end |-> form.end, scope |-> FormScope(form), types |-> form.types,
        thresholds |-> BuildThresholds(form), override |-> FormOverride(form)]

-----------------------------------------------------------------------------
(* The API.  A body is a function from the names of its fields.            *)

\* Fastify validates with useDefaults: what the schema gives a default and
\* the body leaves out is in the body the service gets.
FillDefaults(body) ==
  [f \in DOMAIN body \cup {"scope", "thresholds", "override"} |->
     IF f \in DOMAIN body THEN body[f] ELSE Null]

\* No execution type counts as all of them.  The other normalisations
\* (texts, names, the numbers missing in a threshold group) are the
\* identity on what the form can send.
Normalized(body) ==
  [f \in DOMAIN body |-> IF f = "types" /\ body[f] = {} THEN Types ELSE body[f]]

WithStatus(body, status) ==
  [f \in DOMAIN body \cup {"status"} |-> IF f = "status" THEN status ELSE body[f]]

\* Mutant: the status is stored in the spelling of the API.
NewCampaignApi(body) == WithStatus(Normalized(body), "PENDING")

NewCampaign(body) == WithStatus(Normalized(body), "pending")

\* updateCampaign: which status may change which field.
Accepts(d, body) ==
  /\ "scope" \in DOMAIN body      => d.status = "pending"
  /\ "types" \in DOMAIN body      => d.status = "pending"
  /\ "override" \in DOMAIN body   => d.status \in {"pending", "active"}
  /\ "thresholds" \in DOMAIN body => d.status \in {"pending", "active"}
  /\ "end" \in DOMAIN body =>
       /\ body.end > StartDay
       /\ d.status = "expired" /\ body.end > today => \A c \in Ids : ~Live(c)

\* A new end date revives an expired campaign and expires an active one.
NextStatus(d, body) ==
  IF "end" \notin DOMAIN body THEN d.status
  ELSE IF d.status = "expired" /\ body.end > today THEN "active"
  ELSE IF d.status = "active" /\ body.end <= today THEN "expired"
  ELSE d.status

\* What updateOne sets, computed from the document that was read: the
\* status only when the end date moves the campaign.
SetFields(d, body) ==
  IF NextStatus(d, body) = d.status THEN Normalized(body)
  ELSE WithStatus(Normalized(body), NextStatus(d, body))

Updated(d, fields) == [f \in DOMAIN d |-> IF f \in DOMAIN fields THEN fields[f] ELSE d[f]]

Cancellable == {"pending", "active", "discovery_failed"}

-----------------------------------------------------------------------------
(* The page of a user: a list, a dialog, a request in flight.              *)

\* An empty body stands for none.
NoBody == [f \in {} |-> Null]
Listing == [pc |-> "list", mode |-> "none", id |-> Null, copy |-> Null, body |-> NoBody]

Init ==
  /\ camp = [c \in Ids |-> Null]
  /\ page = [u \in Users |-> Listing]
  /\ disc = [pc |-> "idle", id |-> Null, seen |-> Null]
  /\ today = 0

Shows(u, p) == page' = [page EXCEPT ![u] = p]

OpenCreate(u) ==
  /\ page[u].pc = "list"
  /\ Shows(u, [Listing EXCEPT !.pc = "dialog", !.mode = "create"])
  /\ UNCHANGED <<camp, disc, today>>

\* primaryAction of the list, campaignEditMode of the cards.
PrimaryAction(status) ==
  CASE status \in {"pending", "discovery_failed"} -> "edit"
    [] status \in {"active", "expired"}           -> "extend"
    [] OTHER                                      -> "none"

OpenAction(u, c) ==
  /\ page[u].pc = "list" /\ camp[c] # Null
  /\ PrimaryAction(camp[c].status) # "none"
  /\ Shows(u, [Listing EXCEPT !.pc = "dialog", !.mode = PrimaryAction(camp[c].status),
                              !.id = c, !.copy = camp[c]])
  /\ UNCHANGED <<camp, disc, today>>

CanCancel(status) == status \in {"pending", "active", "discovery_failed"}

AskCancel(u, c) ==
  /\ page[u].pc = "list" /\ camp[c] # Null /\ CanCancel(camp[c].status)
  /\ Shows(u, [Listing EXCEPT !.pc = "dialog", !.mode = "cancel", !.id = c])
  /\ UNCHANGED <<camp, disc, today>>

IsOpen(u) == page[u].pc \in {"dialog", "refused"}

CloseDialog(u) ==
  /\ IsOpen(u)
  /\ Shows(u, Listing)
  /\ UNCHANGED <<camp, disc, today>>

\* The form as it was opened, or as the DBA filled it in.
Submit(u, form) ==
  /\ IsOpen(u) /\ page[u].mode # "cancel"
  /\ form \in Entries \/ (page[u].copy # Null /\ form = InitialForm(page[u].copy))
  /\ ValidForm(page[u].mode, form)
  /\ Shows(u, [page[u] EXCEPT !.pc = "sent",
                              !.body = FillDefaults(Payload(page[u].mode, form))])
  /\ UNCHANGED <<camp, disc, today>>

ConfirmCancel(u) ==
  /\ IsOpen(u) /\ page[u].mode = "cancel"
  /\ Shows(u, [page[u] EXCEPT !.pc = "sent"])
  /\ UNCHANGED <<camp, disc, today>>

-----------------------------------------------------------------------------
(* The request of a user at the API.                                       *)

\* The dialog stays open on an error.
Failed(p) == [p EXCEPT !.pc = "dialog", !.body = NoBody]

\* The API is down, limits the rate, or refuses the scope against the
\* catalog configuration, which CatalogConfig.tla models.
Refused(u) ==
  /\ page[u].pc = "sent"
  /\ Shows(u, Failed(page[u]))
  /\ UNCHANGED <<camp, disc, today>>

\* createCampaign looks for a live campaign, not for a pending one.
CreateChecks(u) ==
  /\ page[u].pc = "sent" /\ page[u].mode = "create"
  /\ \A c \in Ids : ~Live(c)
  /\ \E c \in Ids : camp[c] = Null
  /\ Shows(u, [page[u] EXCEPT !.pc = "write"])
  /\ UNCHANGED <<camp, disc, today>>

\* What the page shows once the write is done; the answer may be lost.
Answered(u) == \/ Shows(u, Listing)
               \/ Shows(u, Failed(page[u]))

CreateWrites(u, c) ==
  /\ page[u].pc = "write" /\ page[u].mode = "create"
  /\ camp[c] = Null
  /\ camp' = [camp EXCEPT ![c] = NewCampaign(page[u].body)]
  /\ Answered(u)
  /\ UNCHANGED <<disc, today>>

UpdateChecks(u) ==
  /\ page[u].pc = "sent" /\ page[u].mode \in {"edit", "extend"}
  /\ LET d == camp[page[u].id]
     IN  IF Accepts(d, page[u].body)
         THEN Shows(u, [page[u] EXCEPT !.pc = "write", !.body = SetFields(d, page[u].body)])
         ELSE Shows(u, [Failed(page[u]) EXCEPT !.pc = "refused"])
  /\ UNCHANGED <<camp, disc, today>>

UpdateWrites(u) ==
  /\ page[u].pc = "write" /\ page[u].mode \in {"edit", "extend"}
  /\ camp' = [camp EXCEPT ![page[u].id] = Updated(@, page[u].body)]
  /\ Answered(u)
  /\ UNCHANGED <<disc, today>>

CancelChecks(u) ==
  /\ page[u].pc = "sent" /\ page[u].mode = "cancel"
  /\ Shows(u, IF camp[page[u].id].status \in Cancellable
              THEN [page[u] EXCEPT !.pc = "write"] ELSE Failed(page[u]))
  /\ UNCHANGED <<camp, disc, today>>

CancelWrites(u) ==
  /\ page[u].pc = "write" /\ page[u].mode = "cancel"
  /\ camp' = [camp EXCEPT ![page[u].id].status = "cancelled"]
  /\ Answered(u)
  /\ UNCHANGED <<disc, today>>

-----------------------------------------------------------------------------
(* The runner.  One discovery at a time, under the discovery lock of the   *)
(* cluster; scan times, cooldown and captures only make it skip.           *)

HasStatus(S) == {c \in Ids : camp[c] # Null /\ camp[c].status \in S}

Idle == [pc |-> "idle", id |-> Null, seen |-> Null]

SetStatus(c, status) == camp' = [camp EXCEPT ![c].status = status]

\* expire_if_past_end_date is an update of one document.
ExpireIfPastEndDate ==
  LET late == {c \in HasStatus({"active"}) : camp[c].end <= today}
  IN  IF late = {} THEN UNCHANGED camp
      ELSE \E c \in late : SetStatus(c, "expired")

DiscoveryExpires ==
  /\ disc.pc = "idle"
  /\ ExpireIfPastEndDate
  /\ disc' = [Idle EXCEPT !.pc = "live"]
  /\ UNCHANGED <<page, today>>

\* The tick of the executor begins the same way, in a thread of its own:
\* between any two steps of a discovery.
TickExpires ==
  /\ ExpireIfPastEndDate
  /\ UNCHANGED <<page, disc, today>>

\* Mutant: a campaign being discovered is all that counts as live.
FindLiveDiscovering == HasStatus({"discovering"})

FindLive == HasStatus({"active", "discovering"})

\* An active campaign is discovered again when there is a newer capture.
DiscoveryFindsLive ==
  /\ disc.pc = "live"
  /\ \/ /\ FindLive = {}
        /\ disc' = [Idle EXCEPT !.pc = "pending"]
     \/ \E c \in FindLive : camp[c].status = "active"
                            /\ disc' = [pc |-> "claim", id |-> c, seen |-> camp[c].status]
     \/ FindLive # {} /\ disc' = Idle
  /\ UNCHANGED <<camp, page, today>>

\* Mutant: the filter takes any campaign that is not live.
FindPendingAny == HasStatus(Statuses \ {"active", "discovering"})

FindPending == HasStatus({"pending", "discovery_failed"})

DiscoveryFindsPending ==
  /\ disc.pc = "pending"
  /\ \/ disc' = Idle
     \/ \E c \in FindPending : disc' = [pc |-> "claim", id |-> c, seen |-> camp[c].status]
  /\ UNCHANGED <<camp, page, today>>

\* update_status has the campaign_id alone in its filter.
DiscoveryClaims ==
  /\ disc.pc = "claim"
  /\ SetStatus(disc.id, "discovering")
  /\ disc' = [disc EXCEPT !.pc = "report"]
  /\ UNCHANGED <<page, today>>

\* A first discovery that raises leaves discovery_failed, a later one active.
DiscoveryReports ==
  /\ disc.pc = "report"
  /\ \E status \in {"active", "completed"} \cup
                   (IF disc.seen = "active" THEN {} ELSE {"discovery_failed"}) :
       SetStatus(disc.id, status)
  /\ disc' = Idle
  /\ UNCHANGED <<page, today>>

\* The answer of the claim is lost, which is before the try, or the update of
\* the handler fails like the call it handles: the campaign stays DISCOVERING
\* and nobody works on it.
DiscoveryLost ==
  /\ disc.pc = "report"
  /\ disc' = Idle
  /\ UNCHANGED <<camp, page, today>>

\* The runner dies and starts again: reset_stuck_discovering.
ResetStuck(cs) ==
  [c \in Ids |-> IF cs[c] # Null /\ cs[c].status = "discovering"
                 THEN [cs[c] EXCEPT !.status = "discovery_failed"] ELSE cs[c]]

RunnerRestarts ==
  /\ MayCrash
  /\ disc # Idle \/ HasStatus({"discovering"}) # {}
  /\ disc' = Idle
  /\ camp' = ResetStuck(camp)
  /\ UNCHANGED <<page, today>>

\* increment_stats, once the counters have reached total_items.
ItemsAreDone(c) ==
  /\ c \in HasStatus({"active"})
  /\ SetStatus(c, "completed")
  /\ UNCHANGED <<page, disc, today>>

Midnight ==
  /\ today < LastDay
  /\ today' = today + 1
  /\ UNCHANGED <<camp, page, disc>>

-----------------------------------------------------------------------------
Browser(u) ==
  \/ OpenCreate(u) \/ CloseDialog(u) \/ ConfirmCancel(u)
  \/ \E c \in Ids : OpenAction(u, c) \/ AskCancel(u, c)
  \/ \E form \in Entries \cup (IF page[u].copy = Null THEN {} ELSE {InitialForm(page[u].copy)}) :
       Submit(u, form)

Api(u) ==
  \/ Refused(u)
  \/ CreateChecks(u) \/ UpdateChecks(u) \/ CancelChecks(u)
  \/ UpdateWrites(u) \/ CancelWrites(u)
  \/ \E c \in Ids : CreateWrites(u, c)

Runner ==
  \/ DiscoveryExpires \/ DiscoveryFindsLive \/ DiscoveryFindsPending
  \/ DiscoveryClaims \/ DiscoveryReports \/ DiscoveryLost
  \/ TickExpires \/ RunnerRestarts
  \/ \E c \in Ids : ItemsAreDone(c)

Next == Midnight \/ Runner \/ (\E u \in Users : Browser(u) \/ Api(u))

Spec == Init /\ [][Next]_vars

-----------------------------------------------------------------------------
(* Properties.                                                             *)

\* Types: documents, dialogs and requests are well formed; a request that
\* waits for its write names a document, except a creation.
CampaignTypeOK ==
  /\ \A c \in Ids : camp[c] # Null => camp[c] \in Docs
  /\ \A u \in Users :
       /\ page[u].pc \in {"list", "dialog", "sent", "write", "refused"}
       /\ page[u].mode \in {"none", "create", "edit", "extend", "cancel"}
       /\ page[u].mode \in {"edit", "extend", "cancel"} => camp[page[u].id] # Null
       /\ page[u].copy # Null => page[u].copy \in Docs
  /\ disc.pc \in {"idle", "live", "pending", "claim", "report"}
  /\ disc.pc \in {"claim", "report"} => camp[disc.id] # Null
  /\ today \in 0..LastDay

\* At most one campaign of a cluster is active or being discovered.  The
\* API does not ensure it: it lets pending campaigns pile up beside a live
\* one (it checks, then writes); only the order in which the one discovery
\* looks for a live campaign and then for a pending one does.
\* It also rests on ExtendAccepted being false: an extension that passed its
\* check could revive its campaign after a discovery had claimed another one.
OneLive == Cardinality({c \in Ids : Live(c)}) <= 1

\* A campaign that is over becomes live again either by the discovery that had
\* found it before it was over (update_status overwrites a cancel, an expiry or
\* a completion that came in between), or by the write of an extension whose
\* check had found it expired (CAMPAIGN_FLOW.md: extending an expired campaign
\* makes it active again).  ExtendAccepted shows that no extension passes its
\* check at present.
RevivedByDiscoveryOrExtension ==
  [][\A c \in Ids :
       camp[c] # Null /\ camp[c].status \in Over /\ Live(c)'
         => \/ disc.id = c /\ disc.seen \notin Over
            \/ \E u \in Users :
                 /\ page[u].pc = "write" /\ page[u].mode = "extend" /\ page[u].id = c
                 /\ "status" \in DOMAIN page[u].body]_vars

\* Opening a pending campaign for editing and saving it untouched changes
\* nothing: form, payload, defaults of the schema and normalisation of the
\* API are inverse to each other on what the console can have stored.
UntouchedEditKeeps ==
  \A c \in HasStatus({"pending"}) :
    LET body == FillDefaults(Payload("edit", InitialForm(camp[c])))
    IN  Updated(camp[c], SetFields(camp[c], body)) = camp[c]

\* CAMPAIGN_FLOW.md: an active or expired campaign can be extended, that is,
\* the API refuses an extension only if the status has changed meanwhile.
ExtendAccepted ==
  \A u \in Users :
    page[u].pc = "refused" /\ page[u].mode = "extend"
      => camp[page[u].id].status # page[u].copy.status

=============================================================================
