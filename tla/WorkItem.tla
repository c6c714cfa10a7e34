------------------------------ MODULE WorkItem ------------------------------
(***************************************************************************)
(* The documents of the collection maintenance_queue and the operations of *)
(* QueueRepo on them (maintenance/models/work_item.py,                     *)
(* maintenance/repositories/queue_repo.py).                                *)
(*                                                                         *)
(* A queue is a function from item ids to documents; "absent" is the       *)
(* status of an id that has no document (not inserted yet, or deleted by   *)
(* the TTL index on terminal_at).  MongoDB changes one document at a time: *)
(* every operator below is one such change, its filter part of it.  An     *)
(* update_many is a row of them that others may come between.              *)
(***************************************************************************)
EXTENDS Integers, FiniteSets

CONSTANTS Items,   (* the item ids of one campaign                          *)
          Rank     (* Rank[i]: place in _CLAIM_SORT (priority desc, created) *)

ASSUME ItemsAssumption == IsFiniteSet(Items) /\ Items # {}
ASSUME RankAssumption  == Rank \in [Items -> Nat]

-----------------------------------------------------------------------------
TerminalStatuses ==
  {"rejected", "done", "failed", "skipped", "expired", "superseded"}

OpenStatuses == {"awaiting_approval", "approved", "running", "paused"}

Status == TerminalStatuses \cup OpenStatuses \cup {"absent"}

\* The fields of a WorkItem that decide its life; ttl stands for
\* "terminal_at is set", which makes the TTL index delete the document.
Doc == [status : Status, attempts : Nat, resume_token : BOOLEAN, ttl : BOOLEAN]

Queue == [Items -> Doc]

NewDoc == [status |-> "awaiting_approval", attempts |-> 0,
           resume_token |-> FALSE, ttl |-> FALSE]

AbsentDoc == [NewDoc EXCEPT !.status = "absent"]

WithStatus(q, S) == {i \in Items : q[i].status \in S}

-----------------------------------------------------------------------------
(* The claims: find_one_and_update with the sort _CLAIM_SORT.              *)

FirstIn(S, i) == i \in S /\ \A j \in S : Rank[i] <= Rank[j]

\* Mutant: the filter of the open items instead of the approved ones.
ApprovedOrAwaiting(q) == WithStatus(q, {"awaiting_approval", "approved"})

Approved(q) == WithStatus(q, {"approved"})

PausedResumable(q) == {i \in WithStatus(q, {"paused"}) : q[i].resume_token}

Claimed(q, i) == [q EXCEPT ![i].status = "running"]

-----------------------------------------------------------------------------
(* release and finalize filter on item_id alone: they overwrite whatever   *)
(* status the document has, and do nothing when there is no document.      *)

Release(q, i, status, attempts, token) ==
  IF q[i].status = "absent" THEN q
  ELSE [q EXCEPT ![i] = [@ EXCEPT !.status = status,
                                  !.attempts = attempts,
                                  !.resume_token = token]]

Finalize(q, i, status, attempts) ==
  IF q[i].status = "absent" THEN q
  ELSE [q EXCEPT ![i] = [@ EXCEPT !.status = status,
                                  !.attempts = attempts,
                                  !.ttl = TRUE]]

-----------------------------------------------------------------------------
(* The update_many operations filter on the status: items in any other are *)
(* left.  S is what one step of the operation comes to.                    *)

Moved(doc, to) ==
  IF to \in TerminalStatuses THEN [doc EXCEPT !.status = to, !.ttl = TRUE]
                             ELSE [doc EXCEPT !.status = to]

Bulk(q, S, from, to) ==
  [i \in Items |-> IF i \in S /\ q[i].status \in from THEN Moved(q[i], to) ELSE q[i]]

\* Mutant: the status left out of the filter.
DecideWhatever(q, S, decision) == Bulk(q, S, Status \ {"absent"}, decision)

\* decide_item and bulk_decide_batch.
Decide(q, S, decision) == Bulk(q, S, {"awaiting_approval"}, decision)

\* Mutants: recovery forgotten, to the wrong status, to a status of campaigns.
RecoverNothing(q, S)   == q
RecoverToPaused(q, S)  == Bulk(q, S, {"running"}, "paused")
RecoverToPending(q, S) == Bulk(q, S, {"running"}, "pending")

RecoverRunning(q, S) == Bulk(q, S, {"running"}, "approved")

\* Mutant: every open item, also those being worked on.
SupersedeAllOpen(q, S) == Bulk(q, S, OpenStatuses, "superseded")

SupersedeOpenItems(q, S) ==
  Bulk(q, S, {"awaiting_approval", "approved"}, "superseded")

ExpireStaleAwaiting(q, S) == Bulk(q, S, {"awaiting_approval"}, "expired")

CountOpen(q) == Cardinality(WithStatus(q, OpenStatuses))

\* An id that had a document keeps its ttl mark: it is never inserted again.
TtlDelete(q, i) == [q EXCEPT ![i] = [AbsentDoc EXCEPT !.ttl = TRUE]]
=============================================================================
