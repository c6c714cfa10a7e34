----------------------------- MODULE Discovery ------------------------------
(***************************************************************************)
(* ClusterDiscoveryService (maintenance/discovery/discovery_service.py)    *)
(* composed with the executor, the operators and the web of                *)
(* Maintenance.tla: the life of one campaign from "pending" on.            *)
(*                                                                         *)
(* Discovery is a job of its own, run by one thread per cluster (the       *)
(* discovery lock of runner.py).  It turns the objects of the catalog      *)
(* above their thresholds into items, the first time and again for every   *)
(* newer capture, while a tick may be in the middle of an item.  The       *)
(* choice of objects and actions is left open: any set of new items.       *)
(***************************************************************************)
EXTENDS Maintenance

CONSTANTS Object,           (* what an item works on                        *)
          DedupeKey,        (* dedupe_key: the object without its database  *)
          MaxCaptures,      (* bound: captures of the catalog               *)
          MaxFaults         (* bound: how often a call of discovery raises  *)

ASSUME DiscoveryAssumption ==
  /\ \A i, j \in Items : Object[i] = Object[j] => DedupeKey[i] = DedupeKey[j]
  /\ MaxCaptures \in Nat \ {0}
  /\ MaxFaults \in Nat

VARIABLES
  disc,      (* the discovery thread and its locals                         *)
  captured,  (* latest_run_ids, as the number of captures so far            *)
  known,     (* discovered_run_ids                                          *)
  faults     (* how often a call of discovery raised, and whether one left  *)
             (* the campaign DISCOVERING with nobody at work on it          *)

discoveryVars == <<disc, captured, known, faults>>
lifeVars      == <<coreVars, discoveryVars>>

DiscPc == {"idle", "read", "scan", "found", "dedupe", "insert", "send", "report",
           "final", "handler"}

\* counted: the counters in the campaign document read at the beginning;
\* todo: the items an update_many or insert_many has still to come to;
\* result: what _run_discovery returns, later the number of open items.
DiscIdle == [pc |-> "idle", first |-> FALSE, counted |-> 0, run |-> 0,
             found |-> {}, fresh |-> {}, todo |-> {}, result |-> 0]

LifeInit ==
  /\ ExecutorInit
  /\ queue = [i \in Items |-> AbsentDoc]
  /\ campaign = [status |-> "pending", ended |-> FALSE, total |-> 0,
                 done |-> 0, failed |-> 0, skipped |-> 0]
  /\ granted = {}
  /\ cancelling = FALSE
  /\ disc = DiscIdle
  /\ captured = 1
  /\ known = 0
  /\ faults = [raises |-> 0, lost |-> FALSE]

othersSame == UNCHANGED <<tick, deferred, wasOpen, proc, window, server, mishaps,
                          started, finished, granted, cancelling, captured>>

\* A MongoDB call of discovery raises; lost: nobody is left to tell of it.
Raise(lost) ==
  /\ faults.raises < MaxFaults
  /\ faults' = [raises |-> faults.raises + 1, lost |-> faults.lost \/ lost]

-----------------------------------------------------------------------------
(* run: expire, find the campaign, decide what to do.  scan_times and the  *)
(* cooldown only delay it.                                                 *)

DiscoveryExpires ==
  /\ proc = "up" /\ disc.pc = "idle"
  /\ campaign.status = "active" /\ campaign.ended
  /\ campaign' = [campaign EXCEPT !.status = "expired"]
  /\ othersSame /\ UNCHANGED <<queue, disc, known, faults>>

FindPending ==
  /\ proc = "up" /\ disc.pc = "idle"
  /\ campaign.status \in {"pending", "discovery_failed"}
  /\ disc' = [DiscIdle EXCEPT !.pc = "read", !.first = TRUE]
  /\ othersSame /\ UNCHANGED <<queue, campaign, known, faults>>

\* _maybe_rediscover: only for a capture it has not seen.
FindActive ==
  /\ proc = "up" /\ disc.pc = "idle"
  /\ campaign.status = "active" /\ ~campaign.ended
  /\ captured # known
  /\ disc' = [DiscIdle EXCEPT !.pc = "read", !.run = captured,
                              !.counted = TerminalCount(campaign)]
  /\ othersSame /\ UNCHANGED <<queue, campaign, known, faults>>

\* update_status is an update by campaign_id alone.
SetDiscovering ==
  /\ disc.pc = "read"
  /\ campaign' = [campaign EXCEPT !.status = "discovering"]
  /\ disc' = [disc EXCEPT !.pc = "scan"]
  /\ othersSame /\ UNCHANGED <<queue, known, faults>>

-----------------------------------------------------------------------------
(* _run_discovery.                                                         *)

\* expire_stale_awaiting: one that has waited longer than the limit, any one.
ExpireStale(i) ==
  /\ disc.pc = "scan"
  /\ queue[i].status = "awaiting_approval"
  /\ queue' = ExpireStaleAwaiting(queue, {i})
  /\ othersSame /\ UNCHANGED <<campaign, disc, known, faults>>

ScanCatalog(found) ==
  /\ disc.pc = "scan"
  /\ \A i \in found : queue[i] = AbsentDoc
  /\ \A i, j \in found : Object[i] = Object[j] => i = j
  /\ disc' = [disc EXCEPT !.pc = IF found = {} THEN "report"
                                 ELSE IF disc.first THEN "dedupe" ELSE "found",
                          !.found = found,
                          !.todo = IF disc.first THEN {} ELSE Items]
  /\ othersSame /\ UNCHANGED <<queue, campaign, known, faults>>

\* Only a re-discovery supersedes, and only once it has items to insert.  The
\* update_many comes to one item after the other, while the tick moves on.
Supersede(i) ==
  /\ disc.pc = "found" /\ i \in disc.todo
  /\ queue' = SupersedeOpenItems(queue, {i})
  /\ disc' = [disc EXCEPT !.pc = IF disc.todo = {i} THEN "dedupe" ELSE "found",
                          !.todo = @ \ {i}]
  /\ othersSame /\ UNCHANGED <<campaign, known, faults>>

OpenKeys(q) == {DedupeKey[i] : i \in WithStatus(q, OpenStatuses)}

\* Mutant: no deduplication.
FreshAll(q, found) == found

Fresh(q, found) == {i \in found : DedupeKey[i] \notin OpenKeys(q)}

Dedupe ==
  /\ disc.pc = "dedupe"
  /\ LET fresh == Fresh(queue, disc.found)
     IN  disc' = [disc EXCEPT !.pc = IF fresh = {} THEN "report" ELSE "insert",
                              !.fresh = fresh, !.todo = fresh]
  /\ othersSame /\ UNCHANGED <<queue, campaign, known, faults>>

\* Mutant: what is found again keeps the approval of its predecessor.
InsertedApproved(q, i) == [q EXCEPT ![i] = [NewDoc EXCEPT !.status = "approved"]]

Inserted(q, i) == [q EXCEPT ![i] = NewDoc]

\* One document of insert_many: if it raises, those before stay.
Insert(i) ==
  /\ disc.pc = "insert" /\ i \in disc.todo
  /\ queue' = Inserted(queue, i)
  /\ disc' = [disc EXCEPT !.pc = IF disc.todo = {i} THEN "send" ELSE "insert",
                          !.todo = @ \ {i}]
  /\ othersSame /\ UNCHANGED <<campaign, known, faults>>

\* The batch document and the approval message.
SendBatch ==
  /\ disc.pc = "send"
  /\ disc' = [disc EXCEPT !.pc = "report", !.result = Cardinality(disc.fresh)]
  /\ othersSame /\ UNCHANGED <<queue, campaign, known, faults>>

-----------------------------------------------------------------------------
(* The result goes into the campaign.                                      *)

\* An exception has only to know which handler is its own.
InHandler == [DiscIdle EXCEPT !.pc = "handler", !.first = disc.first]

\* The last call may also raise when its write has been made.
WriteReturns ==
  \/ disc' = DiscIdle /\ UNCHANGED faults
  \/ disc' = InHandler /\ Raise(FALSE)

ReportFirst ==
  /\ disc.pc = "report" /\ disc.first
  /\ campaign' = [campaign EXCEPT !.status = IF disc.result > 0 THEN "active" ELSE "completed",
                                  !.total = disc.result]
  /\ known' = captured
  /\ WriteReturns
  /\ othersSame /\ UNCHANGED queue

CountOpenItems ==
  /\ disc.pc = "report" /\ ~disc.first
  /\ disc' = [disc EXCEPT !.pc = "final", !.result = CountOpen(queue)]
  /\ othersSame /\ UNCHANGED <<queue, campaign, known, faults>>

ReportAgain ==
  /\ disc.pc = "final"
  /\ campaign' = [campaign EXCEPT !.status = IF disc.result > 0 THEN "active" ELSE "completed",
                                  !.total = disc.counted + disc.result]
  /\ known' = disc.run
  /\ WriteReturns
  /\ othersSame /\ UNCHANGED queue

-----------------------------------------------------------------------------
(* What raises.                                                            *)

DiscoveryRaises ==
  /\ disc.pc \in DiscPc \ {"idle", "read", "handler"}
  /\ Raise(FALSE)
  /\ disc' = InHandler
  /\ othersSame /\ UNCHANGED <<queue, campaign, known>>

\* The handlers: a first discovery fails, a later one leaves the campaign ACTIVE.
DiscoveryHandled ==
  /\ disc.pc = "handler"
  /\ campaign' = [campaign EXCEPT !.status = IF disc.first THEN "discovery_failed" ELSE "active"]
  /\ disc' = DiscIdle
  /\ othersSame /\ UNCHANGED <<queue, known, faults>>

\* Outside the try: DISCOVERING may have been written or not.  If it was, run()
\* passes over the campaign from now on.
MarkingRaises ==
  /\ disc.pc = "read"
  /\ campaign' \in {campaign, [campaign EXCEPT !.status = "discovering"]}
  /\ Raise(campaign'.status = "discovering")
  /\ disc' = DiscIdle
  /\ othersSame /\ UNCHANGED <<queue, known>>

\* The handler's own update_status.
HandlerRaises ==
  /\ disc.pc = "handler"
  /\ Raise(TRUE)
  /\ disc' = DiscIdle
  /\ othersSame /\ UNCHANGED <<queue, campaign, known>>

-----------------------------------------------------------------------------
DiscoveryStep ==
  \/ DiscoveryExpires \/ FindPending \/ FindActive \/ SetDiscovering
  \/ \E i \in Items : ExpireStale(i) \/ Supersede(i) \/ Insert(i)
  \/ \E found \in SUBSET Items : ScanCatalog(found)
  \/ Dedupe \/ SendBatch
  \/ ReportFirst \/ CountOpenItems \/ ReportAgain \/ DiscoveryHandled

DiscoveryFault == DiscoveryRaises \/ MarkingRaises \/ HandlerRaises

NewCapture ==
  /\ captured < MaxCaptures
  /\ captured' = captured + 1
  /\ UNCHANGED <<coreVars, disc, known, faults>>

\* The executor and the operators move; a death ends the discovery as well.
ExecutionStep ==
  /\ Next
  /\ disc' = IF proc' = "down" THEN DiscIdle ELSE disc
  /\ faults' = [faults EXCEPT !.lost = @ /\ proc' # "down"]
  /\ UNCHANGED <<captured, known>>

LifeNext == DiscoveryStep \/ DiscoveryFault \/ NewCapture \/ ExecutionStep

LifeSpec == LifeInit /\ [][LifeNext]_lifeVars

\* The discovery thread runs on once it has begun, and the container restarts.
LifeLiveSpec == LifeSpec /\ WF_lifeVars(DiscoveryStep)
                         /\ WF_lifeVars(ExecutionStep /\ Restart)

-----------------------------------------------------------------------------
(* The queue as ItemLife tells of it: an id that never had a document is   *)
(* yet to come.                                                            *)

Grown == INSTANCE ItemLife
           WITH life <- [i \in Items |-> IF queue[i] = AbsentDoc THEN "unborn"
                                         ELSE StageOf[queue[i].status]],
                torn <- mishaps.raises > 0

\* ImplementsGrowingLife: beside the tick, the operators, the TTL index, deaths
\* and failing calls, discovery adds new items, each once and undecided,
\* refuses those undecided for too long, and for a new capture withdraws what
\* nobody works on: never an item in hand, parked or over.
ImplementsGrowingLife == Grown!GrowingSpec

-----------------------------------------------------------------------------
\* Re-discovery and the executor do not queue the same object twice: between
\* an item in hand, an item put back and the items inserted for the new
\* capture at most one is open.  A write-back that raised after the item was
\* marked DONE may put it back beside the item a new capture brought.
OneOpenItemPerObject ==
  mishaps.raises = 0 =>
    \A i, j \in WithStatus(queue, OpenStatuses) : Object[i] = Object[j] => i = j

\* A campaign does not stay DISCOVERING: the discovery ends, its exceptions are
\* handled, a restart after a death resets it.  It stays so only if this very
\* process lost a discovery: a call raised outside the try, or in the handler.
DiscoveringEnds ==
  campaign.status = "discovering" ~> (campaign.status # "discovering" \/ faults.lost)
=============================================================================
