--------------------------- MODULE HealthMonitor ----------------------------
(***************************************************************************)
(* The health state of one cluster, shared by two threads:                 *)
(*   - HealthMonitorThread (maintenance/safety/health_monitor.py), which   *)
(*     checks the load gates and stops, pauses or resumes the executor;    *)
(*   - the tick of ClusterExecuteService, seen here only as far as it      *)
(*     reads the health state, publishes its current item and, when the    *)
(*     statement is over, marks the stop as done.  Executor.tla has the    *)
(*     rest of the tick.                                                   *)
(* Each access under _health_lock or _lock is one step; between two of     *)
(* them the other thread may move.  The monitor's loop reads the window    *)
(* once more after each check, outside its try: when that read fails the   *)
(* thread is gone for good.                                                *)
(***************************************************************************)
EXTENDS Naturals

CONSTANTS Kinds,       (* the items the tick may work on: see Pausable       *)
          AutoResume,  (* health_monitor.auto_resume                         *)
          MaxChanges   (* bound: how often the environment may change        *)

ASSUME HealthAssumption ==
  /\ Kinds # {} /\ Kinds \subseteq {"rebuild", "other"}
  /\ AutoResume \in BOOLEAN
  /\ MaxChanges \in Nat

VARIABLES
  health,   (* _health_state: healthy, stopping, stopped, recovering        *)
  current,  (* _current_item: none, or its kind                             *)
  tick,     (* the tick thread                                              *)
  paused,   (* the current statement was paused on the server               *)
  monitor,  (* the monitor thread: pc, and what it has read                 *)
  loadOk,   (* environment: would the gates pass?                           *)
  judged,   (* environment: does a check get as far as the gates?           *)
  changes,  (* how often loadOk or judged has changed                       *)
  passes,   (* history: gate checks passed in a row, up to 2                *)
  items,    (* history: items begun since the last stop request, up to 2    *)
  began     (* history: statements begun since then, up to 3                *)

vars == <<health, current, tick, paused, monitor, loadOk, judged, changes, passes,
          items, began>>

Waiting == [pc |-> "wait", ok |-> TRUE, seen |-> "healthy", item |-> "none"]

\* A check is over: the loop is about to read the interval from the window.
Checked == [Waiting EXCEPT !.pc = "interval"]

Init ==
  /\ health = "healthy"
  /\ current = "none"
  /\ tick = "idle"
  /\ paused = FALSE
  /\ monitor = Waiting
  /\ loadOk = TRUE
  /\ judged = TRUE
  /\ changes = 0
  /\ passes = 0
  /\ items = 0
  /\ began = 0

UpTo(bound, n) == IF n < bound THEN n ELSE bound

-----------------------------------------------------------------------------
(* The tick thread.                                                        *)

\* Mutant: only STOPPED keeps the tick from running.
RunnableUnlessStopped(h) == h # "stopped"

Runnable(h) == h = "healthy"

TickBegins ==
  /\ tick = "idle" /\ Runnable(health)
  /\ tick' = "gates"
  /\ UNCHANGED <<health, current, paused, monitor, loadOk, judged, changes, passes, items, began>>

\* No campaign, no window, no primary, a gate, nothing to claim, a deferral.
TickEndsEarly ==
  /\ tick = "gates"
  /\ tick' = "idle"
  /\ UNCHANGED <<health, current, paused, monitor, loadOk, judged, changes, passes, items, began>>

\* _current_item is published; the statement is sent.
StatementBegins(k) ==
  /\ tick = "gates"
  /\ tick' = "running"
  /\ current' = k
  /\ paused' = FALSE
  /\ items' = UpTo(2, items + 1)
  /\ began' = UpTo(3, began + 1)
  /\ UNCHANGED <<health, monitor, loadOk, judged, changes, passes>>

\* It ends by itself or because it was paused; the outcome is being written.
StatementEnds ==
  /\ tick = "running"
  /\ tick' = "ending"
  /\ UNCHANGED <<health, current, paused, monitor, loadOk, judged, changes, passes, items, began>>

\* The offline fallback of _handle_execute_error: the server refused the
\* ONLINE option, and the same item is sent once more without it.  Neither
\* the health state nor the gates are looked at again.
FallbackBegins ==
  /\ tick = "ending" /\ ~paused
  /\ tick' = "offline"
  /\ began' = UpTo(3, began + 1)
  /\ UNCHANGED <<health, current, paused, monitor, loadOk, judged, changes, passes, items>>

FallbackEnds ==
  /\ tick = "offline"
  /\ tick' = "ended"
  /\ UNCHANGED <<health, current, paused, monitor, loadOk, judged, changes, passes, items, began>>

\* Mutant: forgotten in the finally clause.
Unmarked(h) == h

\* mark_health_stopped.
Marked(h) == IF h = "stopping" THEN "stopped" ELSE h

\* The finally clause of _execute_item: two locks, two steps.
MarkStopped ==
  /\ tick \in {"ending", "ended"}
  /\ tick' = "marked"
  /\ health' = Marked(health)
  /\ UNCHANGED <<current, paused, monitor, loadOk, judged, changes, passes, items, began>>

ClearCurrent ==
  /\ tick = "marked"
  /\ tick' = "idle"
  /\ current' = "none"
  /\ UNCHANGED <<health, paused, monitor, loadOk, judged, changes, passes, items, began>>

-----------------------------------------------------------------------------
(* The monitor thread: _check_once.                                        *)

\* No window, the monitor disabled, no primary or an exception: the check
\* ends before the gates have been judged.
CheckSkipped ==
  /\ monitor.pc = "wait" /\ ~judged
  /\ monitor' = Checked
  /\ UNCHANGED <<health, current, tick, paused, loadOk, judged, changes, passes, items, began>>

CheckGates ==
  /\ monitor.pc = "wait" /\ judged
  /\ monitor' = [monitor EXCEPT !.pc = "read", !.ok = loadOk]
  /\ passes' = IF loadOk THEN UpTo(2, passes + 1) ELSE 0
  /\ UNCHANGED <<health, current, tick, paused, loadOk, judged, changes, items, began>>

ReadState ==
  /\ monitor.pc = "read"
  /\ monitor' = [monitor EXCEPT !.pc = "act", !.seen = health]
  /\ UNCHANGED <<health, current, tick, paused, loadOk, judged, changes, passes, items, began>>

\* Mutant: a failed recovery stays RECOVERING.
StopRequestedFrom(h) == IF h = "healthy" THEN "stopping" ELSE h

\* The switch of request_health_stop.
StopRequested(h) ==
  CASE h = "healthy"    -> "stopping"
    [] h = "recovering" -> "stopped"
    [] OTHER            -> h

RequestHealthStop ==
  /\ monitor.pc = "act" /\ ~monitor.ok
  /\ health' = StopRequested(health)
  /\ items' = IF health = "healthy" THEN 0 ELSE items
  /\ began' = IF health = "healthy" THEN 0 ELSE began
  /\ monitor' = [monitor EXCEPT !.pc = "look"]
  /\ UNCHANGED <<current, tick, paused, loadOk, judged, changes, passes>>

Pausable == {"rebuild"}

\* _pause_current_rebuild reads _current_item and opens a connection.
LookAtCurrent ==
  /\ monitor.pc = "look"
  /\ monitor' = IF current \in Pausable
                THEN [monitor EXCEPT !.pc = "pause", !.item = current] ELSE Checked
  /\ UNCHANGED <<health, current, tick, paused, loadOk, judged, changes, passes, items, began>>

\* ALTER INDEX PAUSE succeeds while the statement runs.
PauseSucceeds ==
  /\ monitor.pc = "pause"
  /\ tick = "running" /\ current \in Pausable /\ ~paused
  /\ paused' = TRUE
  /\ monitor' = [monitor EXCEPT !.pc = "paused"]
  /\ UNCHANGED <<health, current, tick, loadOk, judged, changes, passes, items, began>>

\* The statement is over or not resumable, or the server cannot be reached.
PauseFails ==
  /\ monitor.pc = "pause"
  /\ monitor' = Checked
  /\ UNCHANGED <<health, current, tick, paused, loadOk, judged, changes, passes, items, began>>

\* After the PAUSE: STOPPED, whatever the state is by now.
PauseDone ==
  /\ monitor.pc = "paused"
  /\ health' = "stopped"
  /\ monitor' = Checked
  /\ UNCHANGED <<current, tick, paused, loadOk, judged, changes, passes, items, began>>

\* Mutants: recovery not begun; recovery at the first passing check.
NothingRecovered(h, seen) == h

RecoveredAtOnce(h, seen) == IF seen \in {"stopped", "recovering"} THEN "healthy" ELSE h

\* notify_gates_recovered and confirm_recovery, by the state read before.
Recovered(h, seen) ==
  CASE seen = "stopped" /\ h = "stopped"       -> "recovering"
    [] seen = "recovering" /\ h = "recovering" -> "healthy"
    [] OTHER                                   -> h

GatesPassed ==
  /\ monitor.pc = "act" /\ monitor.ok
  /\ health' = IF AutoResume THEN Recovered(health, monitor.seen) ELSE health
  /\ monitor' = Checked
  /\ UNCHANGED <<current, tick, paused, loadOk, judged, changes, passes, items, began>>

\* The loop reads the interval and sleeps; or the read raises, which ends
\* the thread: nothing starts it again while the process lives.
IntervalRead ==
  /\ monitor.pc = "interval"
  /\ monitor' = Waiting
  /\ UNCHANGED <<health, current, tick, paused, loadOk, judged, changes, passes, items, began>>

IntervalReadFails ==
  /\ monitor.pc = "interval"
  /\ monitor' = [Waiting EXCEPT !.pc = "dead"]
  /\ UNCHANGED <<health, current, tick, paused, loadOk, judged, changes, passes, items, began>>

\* The environment: CPU, active requests, AG queues.
LoadChanges ==
  /\ changes < MaxChanges
  /\ changes' = changes + 1
  /\ loadOk' = ~loadOk
  /\ UNCHANGED <<health, current, tick, paused, monitor, judged, passes, items, began>>

\* An operator disables or enables the monitor; the primary or MongoDB is
\* lost or found again.
JudgedChanges ==
  /\ changes < MaxChanges
  /\ changes' = changes + 1
  /\ judged' = ~judged
  /\ UNCHANGED <<health, current, tick, paused, monitor, loadOk, passes, items, began>>

-----------------------------------------------------------------------------
TickStep ==
  \/ TickBegins \/ TickEndsEarly \/ StatementEnds \/ FallbackBegins \/ FallbackEnds
  \/ MarkStopped \/ ClearCurrent
  \/ \E k \in Kinds : StatementBegins(k)

MonitorStep ==
  \/ CheckSkipped \/ CheckGates \/ ReadState \/ RequestHealthStop \/ LookAtCurrent
  \/ PauseSucceeds \/ PauseFails \/ PauseDone \/ GatesPassed \/ IntervalRead

Next == TickStep \/ MonitorStep \/ IntervalReadFails \/ LoadChanges \/ JudgedChanges

Spec == Init /\ [][Next]_vars

\* The monitor loops as long as its thread lives, the tick thread runs on
\* once it has begun.
Fairness == WF_vars(TickStep) /\ WF_vars(MonitorStep)

LiveSpec == Spec /\ Fairness

-----------------------------------------------------------------------------
\* A tick that read HEALTHY before the stop request may still begin its item
\* after it, and that is the only item until the recovery; two statements at
\* most, for the item may be sent again offline.
AtMostOneItemBegins ==
  health \in {"stopping", "stopped", "recovering"} => items <= 1 /\ began <= 2

\* The unconditional STOPPED after a PAUSE never cuts off a recovery: at that
\* point the state is still STOPPING, or the tick has marked it already.
PauseKeepsStop == monitor.pc \in {"look", "pause", "paused"} => health \in {"stopping", "stopped"}

\* HEALTHY again only after two gate checks in a row that passed, one to
\* leave STOPPED and one to confirm.
RecoveryIsConfirmed ==
  [][health # "healthy" /\ health' = "healthy" => passes = 2]_vars

\* From STOPPED with the load back to normal the executor runs again, as long
\* as the monitor judges the gates and its thread has not been lost.
StoppedRecovers ==
  (health = "stopped" /\ AutoResume)
    ~> (health = "healthy" \/ ~loadOk \/ ~judged \/ monitor.pc = "dead")

\* A statement in hand when the stop was requested brings STOPPING to an end,
\* also when the item is sent again offline.
StoppingEndsWithItem ==
  (health = "stopping" /\ tick \in {"running", "ending", "offline", "ended"})
    ~> health # "stopping"
=============================================================================
