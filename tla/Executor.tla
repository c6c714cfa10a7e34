------------------------------ MODULE Executor ------------------------------
(***************************************************************************)
(* ClusterExecuteService.tick (maintenance/execute/execute_service.py):    *)
(* one scheduler thread per cluster (max_instances=1) that claims at most  *)
(* one item per tick, runs its T-SQL and writes the outcome back.          *)
(*                                                                         *)
(* A tick is not atomic.  Each action below ends at a MongoDB operation or *)
(* at the SQL statement, so that operators, the web API, discovery and the *)
(* death of the process can come between any two of them.                  *)
(*                                                                         *)
(* Not state of this module: the health state (HealthMonitor.tla), metrics *)
(* and history documents, notifications.                                   *)
(***************************************************************************)
EXTENDS WorkItem

CONSTANTS NoItem,
          Kind,           (* "rebuild", "partition" (REBUILD_PARTITION), "other" *)
          Est,            (* estimated_minutes of an item                   *)
          MaxAttempts,    (* maint_max_attempts                             *)
          ClaimLoopLimit, (* the literal 100 of _claim_next                 *)
          DryRun,         (* maint_dry_run                                  *)
          MaxWindow,      (* bound: minutes of an open window               *)
          MaxDeaths,      (* bound: how often the process dies              *)
          MaxRaises       (* bound: how often a MongoDB call raises         *)

ASSUME ExecutorAssumption ==
  /\ NoItem \notin Items
  /\ Kind \in [Items -> {"rebuild", "partition", "other"}]
  /\ Est \in [Items -> Nat \ {0}]
  /\ MaxAttempts \in Nat \ {0}
  /\ ClaimLoopLimit \in Nat \ {0}
  /\ DryRun \in BOOLEAN
  /\ MaxWindow \in Nat \ {0}
  /\ MaxDeaths \in Nat
  /\ MaxRaises \in Nat

VARIABLES
  queue,     (* maintenance_queue                                           *)
  campaign,  (* the document of the campaign the items belong to            *)
  tick,      (* the tick thread: where it is and what it holds in locals    *)
  deferred,  (* _deferred_item_ids                                          *)
  wasOpen,   (* _window_was_open                                            *)
  proc,      (* the process: "up", "stopping" (_stop_requested), "down"     *)
  window,    (* environment: minutes left in the open window, 0 when closed *)
  server,    (* environment: the resumable operation SQL Server holds       *)
  mishaps,   (* how often the process died, and a call of the tick raised   *)
  started,   (* history: items for which a statement was ever sent          *)
  finished   (* history: items whose statement ran to its end               *)

vars == <<queue, campaign, tick, deferred, wasOpen, proc, window, server,
          mishaps, started, finished>>

-----------------------------------------------------------------------------
CampaignStatus == {"pending", "discovering", "active", "completed",
                   "expired", "cancelled", "discovery_failed"}

Campaign == [status : CampaignStatus, ended : BOOLEAN,
             total : Nat, done : Nat, failed : Nat, skipped : Nat]

Bumps == {"done", "failed", "skipped"}

TickPc == {"idle", "gates", "claim", "bounce", "claimed", "running", "retry",
           "succeeded", "paused", "failed", "count", "check", "close"}

Modes == {"none", "resume", "resumable", "plain"}

Tick == [pc : TickPc, item : Items \cup {NoItem}, attempts : Nat,
         token : BOOLEAN, mode : Modes, left : Nat, tries : Nat, bump : Bumps]

Idle == [pc |-> "idle", item |-> NoItem, attempts |-> 0, token |-> FALSE,
         mode |-> "none", left |-> 0, tries |-> 0, bump |-> "done"]

cur == tick.item

NoMishap == [deaths |-> 0, raises |-> 0]

ExecutorInit ==
  /\ tick = Idle
  /\ deferred = {}
  /\ wasOpen = FALSE
  /\ proc = "up"
  /\ window = 0
  /\ server = [i \in Items |-> "none"]
  /\ mishaps = NoMishap
  /\ started = {}
  /\ finished = {}

-----------------------------------------------------------------------------
(* tick(): from the campaign and the window to the gates.                  *)

Ready == proc = "up" /\ tick.pc = "idle" /\ campaign.status = "active"

\* expire_if_past_end_date; the campaign is then no longer found.
TickExpiresCampaign ==
  /\ Ready /\ campaign.ended
  /\ campaign' = [campaign EXCEPT !.status = "expired"]
  /\ UNCHANGED <<queue, tick, deferred, wasOpen, proc, window, server,
                 mishaps, started, finished>>

TickWindowClosed ==
  /\ Ready /\ ~campaign.ended /\ window = 0
  /\ wasOpen
  /\ wasOpen' = FALSE
  /\ UNCHANGED <<queue, campaign, tick, deferred, proc, window, server,
                 mishaps, started, finished>>

\* How often _claim_next tries: once more than there are deferred items.
LoopLimit(S) == IF Cardinality(S) + 1 < ClaimLoopLimit THEN Cardinality(S) + 1
                ELSE ClaimLoopLimit

Looping(pc, left, tries) ==
  [Idle EXCEPT !.pc = pc, !.left = left, !.tries = tries]

\* remaining_minutes is read here, once for the whole tick.
TickWindowOpen ==
  /\ Ready /\ ~campaign.ended /\ window > 0
  /\ deferred' = IF wasOpen THEN deferred ELSE {}
  /\ wasOpen' = TRUE
  /\ tick' = Looping("gates", window, LoopLimit(deferred'))
  /\ UNCHANGED <<queue, campaign, proc, window, server, mishaps, started, finished>>

\* No primary, no window document, a gate that fails.
TickRefused ==
  /\ tick.pc = "gates"
  /\ tick' = Idle
  /\ UNCHANGED <<queue, campaign, deferred, wasOpen, proc, window, server,
                 mishaps, started, finished>>

-----------------------------------------------------------------------------
(* _claim_next: a paused rebuild first, else the first approved item; one  *)
(* that was deferred in this window goes back and the claim is repeated.   *)

TakeInHand(i, pc) ==
  /\ queue' = Claimed(queue, i)
  /\ tick' = [tick EXCEPT !.pc = pc, !.item = i, !.attempts = queue[i].attempts,
                          !.token = queue[i].resume_token]

ClaimPaused(i) ==
  /\ tick.pc = "gates"
  /\ FirstIn(PausedResumable(queue), i)
  /\ TakeInHand(i, "claimed")
  /\ UNCHANGED <<campaign, deferred, wasOpen, proc, window, server,
                 mishaps, started, finished>>

ClaimApproved(i) ==
  /\ tick.pc \in {"gates", "claim"}
  /\ tick.pc = "gates" => PausedResumable(queue) = {}
  /\ FirstIn(Approved(queue), i)
  /\ TakeInHand(i, IF i \in deferred THEN "bounce" ELSE "claimed")
  /\ UNCHANGED <<campaign, deferred, wasOpen, proc, window, server,
                 mishaps, started, finished>>

NothingToClaim ==
  /\ tick.pc \in {"gates", "claim"}
  /\ tick.pc = "gates" => PausedResumable(queue) = {}
  /\ Approved(queue) = {}
  /\ tick' = Idle
  /\ UNCHANGED <<queue, campaign, deferred, wasOpen, proc, window, server,
                 mishaps, started, finished>>

\* Mutant: the item is remembered as deferred, and not given back.
KeptBack(q, i) == q

\* release(item_id, APPROVED): attempts and resume_token stay as they are.
PutBack(q, i) == Release(q, i, "approved", q[i].attempts, q[i].resume_token)

BounceDeferred ==
  /\ tick.pc = "bounce"
  /\ queue' = PutBack(queue, cur)
  /\ tick' = IF tick.tries = 1 THEN Idle
             ELSE Looping("claim", tick.left, tick.tries - 1)
  /\ UNCHANGED <<campaign, deferred, wasOpen, proc, window, server,
                 mishaps, started, finished>>

-----------------------------------------------------------------------------
(* _process_item: the policy is reloaded for every item, so its answers    *)
(* (enabled; res: online and resumable) are chosen anew each time.         *)

PolicyDisabled ==
  /\ tick.pc = "claimed"
  /\ queue' = Finalize(queue, cur, "skipped", queue[cur].attempts)
  /\ tick' = [tick EXCEPT !.pc = "count", !.bump = "skipped"]
  /\ UNCHANGED <<campaign, deferred, wasOpen, proc, window, server,
                 mishaps, started, finished>>

RebuildActions == {"rebuild", "partition"}

IsResumableRebuild(i, res) == Kind[i] \in RebuildActions /\ res

Admitted(i, res) == IsResumableRebuild(i, res) \/ Est[i] <= tick.left

Defer ==
  /\ tick.pc = "claimed"
  /\ \E res \in BOOLEAN : ~Admitted(cur, res)
  /\ deferred' = deferred \cup {cur}
  /\ queue' = PutBack(queue, cur)
  /\ tick' = Idle
  /\ UNCHANGED <<campaign, wasOpen, proc, window, server, mishaps, started, finished>>

DryRunDone ==
  /\ tick.pc = "claimed" /\ DryRun
  /\ \E res \in BOOLEAN : Admitted(cur, res)
  /\ queue' = Finalize(queue, cur, "done", queue[cur].attempts)
  /\ tick' = [tick EXCEPT !.pc = "count", !.bump = "done"]
  /\ UNCHANGED <<campaign, deferred, wasOpen, proc, window, server,
                 mishaps, started, finished>>

-----------------------------------------------------------------------------
(* _execute_item and the statement builder.  A rebuild of one partition is *)
(* never RESUMABLE; an item with a resume token gets RESUME.               *)

ModeFor(i, token, res) ==
  IF token THEN "resume"
  ELSE IF Kind[i] = "rebuild" /\ res THEN "resumable" ELSE "plain"

\* What SQL Server accepts: RESUME needs a paused operation, and any other
\* statement on the index needs that there is none.
Accepts(i, mode) ==
  IF mode = "resume" THEN server[i] = "paused" ELSE server[i] = "none"

StartStatement(res) ==
  /\ tick.pc = "claimed" /\ ~DryRun
  /\ Admitted(cur, res)
  /\ LET mode == ModeFor(cur, tick.token, res)
     IN  /\ tick' = [tick EXCEPT !.pc = "running", !.mode = mode]
         /\ server' = IF mode # "plain" /\ Accepts(cur, mode)
                      THEN [server EXCEPT ![cur] = "running"] ELSE server
  /\ started' = started \cup {cur}
  /\ UNCHANGED <<queue, campaign, deferred, wasOpen, proc, window, mishaps, finished>>

\* The statement holds the server as the mode demands (else it cannot succeed).
Holds(i) == server[i] = IF tick.mode = "plain" THEN "none" ELSE "running"

StatementEnds(pc, outcomes) ==
  /\ tick' = [tick EXCEPT !.pc = pc]
  /\ \E after \in outcomes :
       server' = IF server[cur] = "running" THEN [server EXCEPT ![cur] = after]
                 ELSE server
  /\ UNCHANGED <<queue, campaign, deferred, wasOpen, proc, window, mishaps, started>>

StatementDone ==
  /\ tick.pc \in {"running", "retry"} /\ Holds(cur)
  /\ StatementEnds("succeeded", {"none"})
  /\ finished' = finished \cup {cur}

\* PAUSE by SIGTERM, by the health monitor or by a DBA, or MAX_DURATION; and,
\* as _is_pause_error looks at the text alone, any other error of a rebuild
\* that speaks of a pause, whatever was sent and is left on the server.
StatementPaused ==
  /\ tick.pc = "running" /\ Kind[cur] \in RebuildActions
  /\ StatementEnds("paused", {"none", "paused"})
  /\ UNCHANGED finished

\* Any other error; a timeout may leave the operation paused on the server.
StatementFails ==
  /\ tick.pc \in {"running", "retry"}
  /\ StatementEnds("failed", {"none", "paused"})
  /\ UNCHANGED finished

\* An ONLINE/RESUMABLE restriction: once more, offline, in the same tick.
RetryOffline ==
  /\ tick.pc = "running" /\ ~tick.token
  /\ tick' = [tick EXCEPT !.pc = "retry", !.mode = "plain"]
  /\ server' = IF server[cur] = "running" THEN [server EXCEPT ![cur] = "none"]
               ELSE server
  /\ UNCHANGED <<queue, campaign, deferred, wasOpen, proc, window, mishaps,
                 started, finished>>

-----------------------------------------------------------------------------
(* The outcome is written back, and counted in the campaign when terminal. *)

FinalizeDone ==
  /\ tick.pc = "succeeded"
  /\ queue' = Finalize(queue, cur, "done", queue[cur].attempts)
  /\ tick' = [tick EXCEPT !.pc = "count", !.bump = "done"]
  /\ UNCHANGED <<campaign, deferred, wasOpen, proc, window, server,
                 mishaps, started, finished>>

ReleasePaused ==
  /\ tick.pc = "paused"
  /\ queue' = Release(queue, cur, "paused", queue[cur].attempts, TRUE)
  /\ tick' = Idle
  /\ UNCHANGED <<campaign, deferred, wasOpen, proc, window, server,
                 mishaps, started, finished>>

\* Mutant: off by one.
LastAttemptLate(n) == n > MaxAttempts

LastAttempt(n) == n >= MaxAttempts

\* attempts counts from the value the claim returned.
RetryLater ==
  /\ tick.pc = "failed" /\ ~LastAttempt(tick.attempts + 1)
  /\ queue' = Release(queue, cur, "approved", tick.attempts + 1,
                      queue[cur].resume_token)
  /\ tick' = Idle
  /\ UNCHANGED <<campaign, deferred, wasOpen, proc, window, server,
                 mishaps, started, finished>>

GiveUp ==
  /\ tick.pc = "failed" /\ LastAttempt(tick.attempts + 1)
  /\ queue' = Finalize(queue, cur, "failed", tick.attempts + 1)
  /\ tick' = [tick EXCEPT !.pc = "count", !.bump = "failed"]
  /\ UNCHANGED <<campaign, deferred, wasOpen, proc, window, server,
                 mishaps, started, finished>>

\* increment_stats, first half: $inc.
Counted(c, bump) ==
  CASE bump = "done"    -> [c EXCEPT !.done = @ + 1]
    [] bump = "failed"  -> [c EXCEPT !.failed = @ + 1]
    [] bump = "skipped" -> [c EXCEPT !.skipped = @ + 1]

CountTerminal ==
  /\ tick.pc = "count"
  /\ campaign' = Counted(campaign, tick.bump)
  /\ tick' = [tick EXCEPT !.pc = "check"]
  /\ UNCHANGED <<queue, deferred, wasOpen, proc, window, server,
                 mishaps, started, finished>>

TerminalCount(c) == c.done + c.failed + c.skipped

\* Mutants: off by one in either direction.
AlmostAllOver(c) == c.total > 0 /\ TerminalCount(c) + 1 >= c.total
MoreThanAllOver(c) == c.total > 0 /\ TerminalCount(c) > c.total

AllOver(c) == c.total > 0 /\ TerminalCount(c) >= c.total

\* increment_stats, second part: find_by_id, and what it returned is compared.
ReadCounters ==
  /\ tick.pc = "check"
  /\ tick' = IF AllOver(campaign) THEN [tick EXCEPT !.pc = "close"] ELSE Idle
  /\ UNCHANGED <<queue, campaign, deferred, wasOpen, proc, window, server,
                 mishaps, started, finished>>

Closed(c) == IF c.status = "active" THEN [c EXCEPT !.status = "completed"] ELSE c

\* Last part: ACTIVE -> COMPLETED, filtered on the status.
CloseCampaign ==
  /\ tick.pc = "close"
  /\ campaign' = Closed(campaign)
  /\ tick' = Idle
  /\ UNCHANGED <<queue, deferred, wasOpen, proc, window, server,
                 mishaps, started, finished>>

-----------------------------------------------------------------------------
(* A call that raises.  Inside the try of _execute_item the exception goes *)
(* to _handle_execute_error, also after finalize(DONE); anywhere else it   *)
(* leaves the tick, and the item keeps the status it has.                  *)

InTry == tick.pc = "succeeded"
         \/ (tick.pc \in {"count", "check", "close"} /\ tick.bump = "done" /\ ~DryRun)

CallRaises ==
  /\ tick.pc \in TickPc \ {"idle", "gates", "running", "retry"}
  /\ mishaps.raises < MaxRaises
  /\ mishaps' = [mishaps EXCEPT !.raises = @ + 1]
  /\ tick' = IF InTry THEN [tick EXCEPT !.pc = "failed"] ELSE Idle
  /\ campaign' \in IF tick.pc = "close" THEN {campaign, Closed(campaign)}
                   ELSE {campaign}
  /\ UNCHANGED <<queue, deferred, wasOpen, proc, window, server, started, finished>>

-----------------------------------------------------------------------------
(* The process: stop(), death at any point, and start() on the remains.    *)

RequestStop ==
  /\ proc = "up"
  /\ proc' = "stopping"
  /\ UNCHANGED <<queue, campaign, tick, deferred, wasOpen, window, server,
                 mishaps, started, finished>>

\* The session is gone: SQL Server keeps a resumable operation, paused.
Die ==
  /\ proc \in {"up", "stopping"} /\ mishaps.deaths < MaxDeaths
  /\ proc' = "down"
  /\ mishaps' = [mishaps EXCEPT !.deaths = @ + 1]
  /\ tick' = Idle
  /\ server' = [i \in Items |-> IF server[i] = "running" THEN "paused" ELSE server[i]]
  /\ UNCHANGED <<queue, campaign, deferred, wasOpen, window, started, finished>>

\* Mutant: a campaign left DISCOVERING is not looked at.
ResetNothing(c) == c

\* reset_stuck_discovering.
ResetStuck(c) ==
  IF c.status = "discovering" THEN [c EXCEPT !.status = "discovery_failed"] ELSE c

\* recover_running, one document of its update_many.  A death that comes
\* before the last one leaves the process down and the rest for the next start.
Recover(i) ==
  /\ proc = "down"
  /\ queue[i].status = "running"
  /\ queue' = RecoverRunning(queue, {i})
  /\ UNCHANGED <<campaign, tick, deferred, wasOpen, proc, window, server,
                 mishaps, started, finished>>

\* recover_running has come to its end, and the threads begin.
Start ==
  /\ proc = "down"
  /\ WithStatus(queue, {"running"}) = {}
  /\ proc' = "up"
  /\ campaign' = ResetStuck(campaign)
  /\ deferred' = {}
  /\ wasOpen' = FALSE
  /\ UNCHANGED <<queue, tick, window, server, mishaps, started, finished>>

-----------------------------------------------------------------------------
(* The environment of the executor.                                        *)

WindowPasses ==
  /\ window' = IF window = 0 THEN MaxWindow ELSE window - 1
  /\ UNCHANGED <<queue, campaign, tick, deferred, wasOpen, proc, server,
                 mishaps, started, finished>>

EndDatePasses ==
  /\ ~campaign.ended
  /\ campaign' = [campaign EXCEPT !.ended = TRUE]
  /\ UNCHANGED <<queue, tick, deferred, wasOpen, proc, window, server,
                 mishaps, started, finished>>

\* A DBA aborts a paused operation.
AbortPaused(i) ==
  /\ server[i] = "paused"
  /\ server' = [server EXCEPT ![i] = "none"]
  /\ UNCHANGED <<queue, campaign, tick, deferred, wasOpen, proc, window,
                 mishaps, started, finished>>

-----------------------------------------------------------------------------
BeginTick == TickExpiresCampaign \/ TickWindowClosed \/ TickWindowOpen \/ TickRefused

ClaimNext ==
  \/ \E i \in Items : ClaimPaused(i) \/ ClaimApproved(i)
  \/ NothingToClaim
  \/ BounceDeferred

ProcessItem ==
  \/ PolicyDisabled
  \/ Defer
  \/ DryRunDone
  \/ \E res \in BOOLEAN : StartStatement(res)

Execute == StatementDone \/ StatementPaused \/ StatementFails \/ RetryOffline

WriteBack ==
  \/ FinalizeDone \/ ReleasePaused \/ RetryLater \/ GiveUp
  \/ CountTerminal \/ ReadCounters \/ CloseCampaign

Restart == Start \/ \E i \in Items : Recover(i)

Lifecycle == RequestStop \/ Die \/ Restart

Environment == WindowPasses \/ EndDatePasses \/ \E i \in Items : AbortPaused(i)

\* The work of one tick; CallRaises is the fault of the same thread.
TickStep == BeginTick \/ ClaimNext \/ ProcessItem \/ Execute \/ WriteBack

ExecutorNext == TickStep \/ CallRaises \/ Lifecycle \/ Environment
=============================================================================
