---------------------------- MODULE Maintenance -----------------------------
(***************************************************************************)
(* One campaign being executed: the executor of its cluster, the DBA who   *)
(* decides items in Telegram (or in bulk on the web, which is the same     *)
(* filtered update), the web API that cancels the campaign, and the TTL    *)
(* index of MongoDB.                                                       *)
(*                                                                         *)
(* The campaign has just left its first discovery: every item has been     *)
(* inserted and total_items counts them.  MaintenanceWeb.tla adds the      *)
(* web's single-item actions, Discovery.tla what discovery does.           *)
(***************************************************************************)
EXTENDS Executor

VARIABLES
  granted,        (* history: items somebody approved                       *)
  cancelling      (* a cancelCampaign request between its read and write    *)

coreVars == <<vars, granted, cancelling>>

Init ==
  /\ ExecutorInit
  /\ queue = [i \in Items |-> NewDoc]
  /\ campaign = [status |-> "active", ended |-> FALSE, total |-> Cardinality(Items),
                 done |-> 0, failed |-> 0, skipped |-> 0]
  /\ granted = {}
  /\ cancelling = FALSE

-----------------------------------------------------------------------------
\* _handle_item, _handle_batch and bulkQueueAction: the items of S that are
\* still awaiting, whatever the batch document says.  A batch decided in
\* several steps is several S.  The bot is a thread of the process; the web
\* bulk action is not, so proc is no guard.
Approve(S) ==
  /\ WithStatus(queue, {"awaiting_approval"}) \cap S # {}
  /\ queue' = Decide(queue, S, "approved")
  /\ granted' = granted \cup (WithStatus(queue, {"awaiting_approval"}) \cap S)
  /\ UNCHANGED <<campaign, tick, deferred, wasOpen, proc, window, server,
                 mishaps, started, finished, cancelling>>

\* Rejecting, and the bulk action "skip" of the web: no counter is touched.
Dismiss(S, decision) ==
  /\ WithStatus(queue, {"awaiting_approval"}) \cap S # {}
  /\ queue' = Decide(queue, S, decision)
  /\ UNCHANGED <<campaign, tick, deferred, wasOpen, proc, window, server,
                 mishaps, started, finished, granted, cancelling>>

\* cancelCampaign: findOne, check, updateOne without a filter on the status.
CancelRead ==
  /\ ~cancelling
  /\ campaign.status \in {"pending", "active", "discovery_failed"}
  /\ cancelling' = TRUE
  /\ UNCHANGED <<vars, granted>>

CancelWrite ==
  /\ cancelling
  /\ cancelling' = FALSE
  /\ campaign' = [campaign EXCEPT !.status = "cancelled"]
  /\ UNCHANGED <<queue, tick, deferred, wasOpen, proc, window, server,
                 mishaps, started, finished, granted>>

\* The TTL index deletes a document some time after terminal_at.
TtlExpires(i) ==
  /\ queue[i].ttl /\ queue[i].status # "absent"
  /\ queue' = TtlDelete(queue, i)
  /\ UNCHANGED <<campaign, tick, deferred, wasOpen, proc, window, server,
                 mishaps, started, finished, granted, cancelling>>

Operators ==
  \/ \E S \in SUBSET Items : Approve(S) \/ Dismiss(S, "rejected") \/ Dismiss(S, "skipped")
  \/ CancelRead \/ CancelWrite

Next ==
  \/ ExecutorNext /\ UNCHANGED <<granted, cancelling>>
  \/ Operators
  \/ \E i \in Items : TtlExpires(i)

Spec == Init /\ [][Next]_coreVars

-----------------------------------------------------------------------------
(* The queue as ItemLife tells of it.                                      *)

StageOf ==
  [s \in Status |->
     CASE s \in {"awaiting_approval", "approved"} -> "open"
       [] s = "running"         -> "worked_on"
       [] s = "paused"          -> "parked"
       [] s \in TerminalStatuses -> "over"
       [] s = "absent"          -> "gone"]

Life == INSTANCE ItemLife
          WITH life <- [i \in Items |-> StageOf[queue[i].status]],
               torn <- mishaps.raises > 0

\* ImplementsItemLife: through every interleaving of the tick, the operators,
\* the TTL index, deaths and failing calls, each step is one that ItemLife
\* allows or changes nothing of it: decided once, worked on only if granted
\* and one at a time, over for good; a call that raised half-way excepted.
ImplementsItemLife == Life!Spec

-----------------------------------------------------------------------------
(* Fairness: the scheduler starts the tick job again and again and the     *)
(* thread runs on; a statement ends; time passes; the container restarts.  *)
(* Nothing is assumed of the DBA, of deaths or of failing calls.           *)

\* Admission, refusal and the claims that continue a tick already begun.
Fairness ==
  /\ WF_coreVars(TickStep /\ UNCHANGED <<granted, cancelling>>)
  /\ WF_coreVars(Restart /\ UNCHANGED <<granted, cancelling>>)

LiveSpec == Spec /\ Fairness

-----------------------------------------------------------------------------
\* Every variable has its type: documents keep the statuses of WorkItemStatus,
\* the tick is at a point of the code, no counter is negative.
TypeOK ==
  /\ queue \in Queue
  /\ campaign \in Campaign
  /\ tick \in Tick
  /\ deferred \subseteq Items
  /\ wasOpen \in BOOLEAN
  /\ proc \in {"up", "stopping", "down"}
  /\ window \in Nat
  /\ server \in [Items -> {"none", "running", "paused"}]
  /\ mishaps \in [deaths : Nat, raises : Nat]
  /\ started \subseteq Items
  /\ finished \subseteq Items
  /\ granted \subseteq Items
  /\ cancelling \in BOOLEAN

InHand == {"bounce", "claimed", "running", "retry", "succeeded", "paused", "failed"}

\* The item a live tick works on is RUNNING in the database until the tick
\* itself writes the outcome, and no other item is RUNNING: no operator, TTL
\* deletion or earlier tick changes it under the statement, and no item is
\* left behind RUNNING (unless a write failed).  While the process is down the
\* items left RUNNING are those Start gives back.
RunningIsInHand ==
  mishaps.raises = 0 =>
    /\ tick.pc \in InHand => queue[cur].status = "running"
    /\ proc # "down" => WithStatus(queue, {"running"})
                          = IF tick.pc \in InHand THEN {cur} ELSE {}

\* A paused item carries the resume token: claim_paused_resumable asks for it
\* and claim_next_approved does not look at paused items, so one without it
\* would wait for ever.
PausedIsResumable ==
  \A i \in Items : queue[i].status = "paused" => queue[i].resume_token

\* No statement is ever sent for an item nobody approved, through retries,
\* deferrals, pauses, restarts and failing calls.
StartedOnlyIfGranted == started \subseteq granted

\* An item fails at most maint_max_attempts times: one that can still be
\* claimed has attempts left, and FAILED is written exactly at the last.
AttemptsBounded ==
  \A i \in Items :
    /\ queue[i].status \in OpenStatuses => queue[i].attempts < MaxAttempts
    /\ queue[i].status = "failed" <=> queue[i].attempts = MaxAttempts

\* A statement that ran to its end is not run again, unless the process died
\* (the item is then RUNNING in the database and is given back) or a write
\* failed.
NotRepeated ==
  mishaps = NoMishap =>
    \A i \in finished :
      \/ queue[i].status \in {"done", "absent"}
      \/ tick.pc = "succeeded" /\ cur = i

\* A campaign the counters closed has no item left to do: a death between the
\* write of an item and its count loses a count, and none is ever invented.
CompletedIsOver ==
  mishaps.raises = 0 /\ campaign.status = "completed" =>
    WithStatus(queue, OpenStatuses) = {}

-----------------------------------------------------------------------------
\* No step of the executor, of recovery or of an operator leaves a terminal
\* status; the TTL index deletes the document.  The one exception is the item
\* in hand whose write-back raised after it was marked DONE.
TerminalIsFinal ==
  [][\A i \in WithStatus(queue, TerminalStatuses) :
       \/ queue'[i].status \in {queue[i].status, "absent"}
       \/ /\ queue[i].status = "done" /\ mishaps.raises > 0
          /\ tick.pc = "failed" /\ i = cur]_queue

\* No item stays RUNNING: a death leaves one so, and the restart frees it.  A
\* call that raised does too, before the try of _execute_item or in its error
\* handler, and then nothing frees the item while the process lives on.
RunningEnds ==
  \A i \in Items :
    queue[i].status = "running" ~> (queue[i].status # "running" \/ mishaps.raises > 0)

\* When the executor has brought every item to an end, the campaign does not
\* stay ACTIVE, unless a death or a call that raised came between the write of
\* an item and its count: that count is never made up for.
ExecutedCompletes ==
  (\A i \in Items : queue[i].status \in {"done", "failed"})
    ~> (campaign.status # "active" \/ mishaps # NoMishap)
=============================================================================
