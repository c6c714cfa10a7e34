--------------------------- MODULE MaintenanceWeb ---------------------------
(***************************************************************************)
(* The web's actions on a single item (updateQueueItemAction in            *)
(* layer3/apps/api/src/services/queue-action-service.ts) beside the        *)
(* executor and the operators of Maintenance.tla.                          *)
(*                                                                         *)
(* A request reads the item, checks the transition, and then updates it by *)
(* item_id alone.  Between the two the executor, the bot or another        *)
(* request may have moved the item on.                                     *)
(***************************************************************************)
EXTENDS Maintenance

CONSTANT MaxRequests   (* bound: single-item requests in one behaviour *)

ASSUME RequestsAssumption == MaxRequests \in Nat

VARIABLES
  pending,    (* requests that have read their item and not yet written it  *)
  requests,   (* how many requests there have been                          *)
  overtaken   (* history: items written over a status the request had not read *)

webVars == <<coreVars, pending, requests, overtaken>>

Actions == {"approve", "reject", "skip", "reset"}

Allowed ==
  [approve |-> {"awaiting_approval"},
   reject  |-> {"awaiting_approval"},
   skip    |-> {"awaiting_approval", "approved"},
   reset   |-> {"failed", "rejected"}]

\* Mutant: reset for every item that is over.
AssertTransitionOver(action, status) ==
  status \in Allowed[action] \/ (action = "reset" /\ status \in TerminalStatuses)

AssertTransition(action, status) == status \in Allowed[action]

\* Mutant: reset leaves the attempts.
SingleUpdateKeeps(doc, action) ==
  CASE action \in {"approve", "reset"} -> [doc EXCEPT !.status = "approved"]
    [] action = "reject" -> [doc EXCEPT !.status = "rejected", !.ttl = TRUE]
    [] action = "skip"   -> [doc EXCEPT !.status = "skipped", !.ttl = TRUE]

\* buildSingleUpdate: reset sets no terminal_at, and leaves the one there is.
SingleUpdate(doc, action) ==
  CASE action = "approve" -> [doc EXCEPT !.status = "approved"]
    [] action = "reject"  -> [doc EXCEPT !.status = "rejected", !.ttl = TRUE]
    [] action = "skip"    -> [doc EXCEPT !.status = "skipped", !.ttl = TRUE]
    [] action = "reset"   -> [doc EXCEPT !.status = "approved", !.attempts = 0]

WebInit == Init /\ pending = {} /\ requests = 0 /\ overtaken = {}

WebRead(i, action) ==
  /\ requests < MaxRequests
  /\ AssertTransition(action, queue[i].status)
  /\ requests' = requests + 1
  /\ pending' = pending \cup {[id |-> requests, item |-> i, action |-> action,
                                seen |-> queue[i].status]}
  /\ UNCHANGED <<coreVars, overtaken>>

\* updateOne, which does nothing when the document is gone.
WebWrite(r) ==
  /\ r \in pending
  /\ pending' = pending \ {r}
  /\ IF queue[r.item].status = "absent" THEN UNCHANGED <<queue, granted, overtaken>>
     ELSE /\ queue' = [queue EXCEPT ![r.item] = SingleUpdate(@, r.action)]
          /\ granted' = IF r.action \in {"approve", "reset"} THEN granted \cup {r.item}
                        ELSE granted
          /\ overtaken' = IF queue[r.item].status = r.seen THEN overtaken
                          ELSE overtaken \cup {r.item}
  /\ UNCHANGED <<campaign, tick, deferred, wasOpen, proc, window, server,
                 mishaps, started, finished, cancelling, requests>>

WebStep ==
  \/ \E i \in Items, action \in Actions : WebRead(i, action)
  \/ \E r \in pending : WebWrite(r)

WebNext == WebStep \/ (Next /\ UNCHANGED <<pending, requests, overtaken>>)

WebSpec == WebInit /\ [][WebNext]_webVars

-----------------------------------------------------------------------------
\* Beside the executor, the bot and each other, the web's requests keep the
\* limits of the queue: an item that can be claimed has attempts left, also
\* after a reset, and a finished statement is not run again.  The one way out
\* is a request that writes over a status it has not read (an item claimed,
\* finished or given up meanwhile), and a call or process that fails.
KeptUnlessOvertaken ==
  mishaps = NoMishap =>
    \A i \in Items \ overtaken :
      /\ queue[i].status \in OpenStatuses => queue[i].attempts < MaxAttempts
      /\ i \in finished => \/ queue[i].status \in {"done", "absent"}
                           \/ tick.pc = "succeeded" /\ cur = i
=============================================================================
