------------------------ MODULE HealthMonitor_proofs -------------------------
(***************************************************************************)
(* Proofs about the health state shared by the tick and the monitor.       *)
(* Only the monitor thread writes HEALTHY, STOPPING and RECOVERING; the    *)
(* tick writes STOPPED over STOPPING.  So what the monitor has in hand     *)
(* bounds the health state (MonitorKnows), and what the tick has in hand   *)
(* bounds the statements begun (BeginsCounted).                            *)
(***************************************************************************)
EXTENDS HealthMonitor, TLAPS

States == {"healthy", "stopping", "stopped", "recovering"}

TypeInv ==
  /\ health \in States
  /\ tick \in {"idle", "gates", "running", "ending", "offline", "ended", "marked"}
  /\ monitor \in [pc   : {"wait", "read", "act", "look", "pause", "paused", "interval", "dead"},
                  ok   : BOOLEAN,
                  seen : States,
                  item : {"none"} \cup Kinds]
  /\ current \in {"none"} \cup Kinds
  /\ loadOk \in BOOLEAN
  /\ judged \in BOOLEAN
  /\ passes \in 0..2
  /\ items \in 0..2
  /\ began \in 0..3

\* A stop request lets the tick begin at most the item it had already decided
\* to begin, and the fallback of the item it has in hand.
BeginsCounted ==
  health # "healthy" =>
    /\ items <= 1 /\ began <= 2
    /\ tick = "gates" => items = 0 /\ began = 0
    /\ tick \in {"running", "ending"} => began <= 1

\* Between the checks a RECOVERING state has seen one that passed, and a
\* check under way that passed makes it two.
MonitorKnows ==
  /\ monitor.pc \in {"read", "act"} /\ monitor.ok => passes >= 1
  /\ health = "recovering" /\ monitor.pc \in {"wait", "interval", "dead"} => passes >= 1
  /\ health = "recovering" /\ monitor.pc \in {"read", "act"} /\ monitor.ok => passes = 2

HealthInv == TypeInv /\ PauseKeepsStop /\ BeginsCounted /\ MonitorKnows

USE HealthAssumption

LEMMA HealthInit == Init => HealthInv
BY DEF Init, HealthInv, TypeInv, PauseKeepsStop, BeginsCounted, MonitorKnows, Waiting, States

\* The steps of the tick: of the health state they only write STOPPED over
\* STOPPING, and a statement begins only from the gates.
LEMMA TickKeeps ==
  ASSUME HealthInv, TickStep
  PROVE  HealthInv'
<1> USE DEF HealthInv
<1>1. CASE TickBegins
  BY <1>1 DEF TickBegins, Runnable, TypeInv, PauseKeepsStop, BeginsCounted, MonitorKnows
<1>2. CASE TickEndsEarly
  BY <1>2 DEF TickEndsEarly, TypeInv, PauseKeepsStop, BeginsCounted, MonitorKnows
<1>3. CASE StatementEnds
  BY <1>3 DEF StatementEnds, TypeInv, PauseKeepsStop, BeginsCounted, MonitorKnows
<1>4. CASE MarkStopped
  BY <1>4 DEF MarkStopped, Marked, TypeInv, States, PauseKeepsStop, BeginsCounted, MonitorKnows
<1>5. CASE ClearCurrent
  BY <1>5 DEF ClearCurrent, TypeInv, PauseKeepsStop, BeginsCounted, MonitorKnows
<1>6. ASSUME NEW k \in Kinds, StatementBegins(k) PROVE HealthInv'
  <2>1. /\ items' \in 0..2 /\ began' \in 0..3
        /\ items = 0 => items' = 1
        /\ began = 0 => began' = 1
    BY <1>6 DEF StatementBegins, UpTo, TypeInv
  <2>2. TypeInv' /\ PauseKeepsStop' /\ MonitorKnows'
    BY <1>6, <2>1 DEF StatementBegins, TypeInv, PauseKeepsStop, MonitorKnows
  <2>3. BeginsCounted'
    BY <1>6, <2>1 DEF StatementBegins, BeginsCounted
  <2> QED
    BY <2>2, <2>3
<1>7. CASE FallbackBegins
  <2>1. began' \in 0..3 /\ (began <= 1 => began' <= 2)
    BY <1>7 DEF FallbackBegins, UpTo, TypeInv
  <2>2. TypeInv' /\ PauseKeepsStop' /\ MonitorKnows'
    BY <1>7, <2>1 DEF FallbackBegins, TypeInv, PauseKeepsStop, MonitorKnows
  <2>3. BeginsCounted'
    BY <1>7, <2>1 DEF FallbackBegins, BeginsCounted
  <2> QED
    BY <2>2, <2>3
<1>8. CASE FallbackEnds
  BY <1>8 DEF FallbackEnds, TypeInv, PauseKeepsStop, BeginsCounted, MonitorKnows
<1> QED
  BY <1>1, <1>2, <1>3, <1>4, <1>5, <1>6, <1>7, <1>8 DEF TickStep

\* The steps of the monitor: it leaves HEALTHY only by a stop request, which
\* resets the count of statements, and RECOVERING only at its next check.
LEMMA MonitorKeeps ==
  ASSUME HealthInv, MonitorStep
  PROVE  HealthInv'
<1> USE DEF HealthInv
<1>1. CASE CheckGates
  <2>1. passes' \in 0..2 /\ (loadOk => passes' >= 1 /\ (passes >= 1 => passes' = 2))
    BY <1>1 DEF CheckGates, UpTo, TypeInv
  <2>2. monitor' = [monitor EXCEPT !.pc = "read", !.ok = loadOk]
        /\ monitor'.pc = "read" /\ monitor'.ok = loadOk /\ monitor.pc = "wait"
    BY <1>1 DEF CheckGates, TypeInv
  <2>3. TypeInv'
    BY <1>1, <2>1, <2>2 DEF CheckGates, TypeInv
  <2>4. PauseKeepsStop' /\ BeginsCounted' /\ MonitorKnows'
    BY <1>1, <2>1, <2>2 DEF CheckGates, PauseKeepsStop, BeginsCounted, MonitorKnows
  <2> QED
    BY <2>3, <2>4
<1>2. CASE ReadState
  BY <1>2 DEF ReadState, TypeInv, PauseKeepsStop, BeginsCounted, MonitorKnows
<1>3. CASE RequestHealthStop
  BY <1>3 DEF RequestHealthStop, StopRequested, TypeInv, States, PauseKeepsStop, BeginsCounted,
              MonitorKnows
<1>4. CASE LookAtCurrent
  <2>1. \/ monitor' = [monitor EXCEPT !.pc = "pause", !.item = current]
        \/ monitor' = Checked
    BY <1>4 DEF LookAtCurrent
  <2> QED
    BY <1>4, <2>1 DEF LookAtCurrent, Checked, Waiting, TypeInv, States, PauseKeepsStop, BeginsCounted,
                      MonitorKnows
<1>5. CASE PauseSucceeds
  BY <1>5 DEF PauseSucceeds, TypeInv, PauseKeepsStop, BeginsCounted, MonitorKnows
<1>6. CASE PauseFails
  BY <1>6 DEF PauseFails, Checked, Waiting, TypeInv, States, PauseKeepsStop, BeginsCounted, MonitorKnows
<1>7. CASE PauseDone
  BY <1>7 DEF PauseDone, Checked, Waiting, TypeInv, States, PauseKeepsStop, BeginsCounted, MonitorKnows
<1>8. CASE GatesPassed
  <2>1. /\ health' \in {health, Recovered(health, monitor.seen)}
        /\ monitor' = [pc |-> "interval", ok |-> TRUE, seen |-> "healthy", item |-> "none"]
        /\ monitor.pc = "act" /\ monitor.ok
        /\ UNCHANGED <<current, tick, loadOk, judged, passes, items, began>>
    BY <1>8 DEF GatesPassed, Checked, Waiting
  <2>2. /\ health' \in States
        /\ health' = "recovering" => health \in {"stopped", "recovering"}
        /\ health' # "healthy" => health # "healthy"
    BY <2>1 DEF Recovered, TypeInv, States
  <2>3. TypeInv' /\ PauseKeepsStop'
    BY <2>1, <2>2 DEF TypeInv, States, PauseKeepsStop
  <2>4. BeginsCounted' /\ MonitorKnows'
    BY <2>1, <2>2 DEF BeginsCounted, MonitorKnows
  <2> QED
    BY <2>3, <2>4
<1>9. CASE CheckSkipped
  BY <1>9 DEF CheckSkipped, Checked, Waiting, TypeInv, States, PauseKeepsStop, BeginsCounted,
              MonitorKnows
<1>10. CASE IntervalRead
  BY <1>10 DEF IntervalRead, Waiting, TypeInv, States, PauseKeepsStop, BeginsCounted,
               MonitorKnows
<1> QED
  BY <1>1, <1>2, <1>3, <1>4, <1>5, <1>6, <1>7, <1>8, <1>9, <1>10 DEF MonitorStep

LEMMA HealthNext == HealthInv /\ [Next]_vars => HealthInv'
<1> SUFFICES ASSUME HealthInv, [Next]_vars PROVE HealthInv'
  OBVIOUS
<1>1. CASE LoadChanges
  BY <1>1 DEF LoadChanges, HealthInv, TypeInv, PauseKeepsStop, BeginsCounted, MonitorKnows
<1>2. CASE JudgedChanges
  BY <1>2 DEF JudgedChanges, HealthInv, TypeInv, PauseKeepsStop, BeginsCounted, MonitorKnows
<1>3. CASE IntervalReadFails
  BY <1>3 DEF IntervalReadFails, Waiting, HealthInv, TypeInv, States, PauseKeepsStop,
              BeginsCounted, MonitorKnows
<1>4. CASE UNCHANGED vars
  BY <1>4 DEF vars, HealthInv, TypeInv, PauseKeepsStop, BeginsCounted, MonitorKnows
<1> QED
  BY <1>1, <1>2, <1>3, <1>4, TickKeeps, MonitorKeeps DEF Next

THEOREM HealthInvariant == Spec => []HealthInv
BY HealthInit, HealthNext, PTL DEF Spec

-----------------------------------------------------------------------------
\* After a stop request of the monitor at most one item begins until the
\* recovery, and at most two statements, the second being an item's offline
\* fallback: the tick reads _health_state once, before its gates.
THEOREM OneItemBeginsAfterStop == Spec => []AtMostOneItemBegins
<1>1. HealthInv => AtMostOneItemBegins
  BY DEF HealthInv, BeginsCounted, AtMostOneItemBegins
<1> QED
  BY <1>1, HealthInvariant, PTL

\* While the monitor is about to pause, or has paused, the statement in hand
\* the state is STOPPING or STOPPED, so its unconditional write of STOPPED
\* overwrites no recovery.
THEOREM PauseCutsNoRecovery == Spec => []PauseKeepsStop
<1>1. HealthInv => PauseKeepsStop
  BY DEF HealthInv
<1> QED
  BY <1>1, HealthInvariant, PTL

\* The state becomes HEALTHY again only in confirm_recovery, at the second
\* of two checks in a row whose gates passed.
THEOREM TwoPassesRecover == Spec => RecoveryIsConfirmed
<1> DEFINE Confirmed == health # "healthy" /\ health' = "healthy" => passes = 2
<1>1. ASSUME HealthInv, [Next]_vars, health # "healthy", health' = "healthy"
      PROVE  passes = 2
  <2>1. CASE GatesPassed
    <3>1. health = "recovering" /\ monitor.pc = "act" /\ monitor.ok
      BY <1>1, <2>1 DEF GatesPassed, Recovered
    <3> QED
      BY <1>1, <3>1 DEF HealthInv, MonitorKnows
  <2>2. CASE RequestHealthStop
    BY <1>1, <2>2 DEF RequestHealthStop, StopRequested, HealthInv, TypeInv, States
  <2>3. CASE MarkStopped
    BY <1>1, <2>3 DEF MarkStopped, Marked
  <2>4. CASE PauseDone
    BY <1>1, <2>4 DEF PauseDone
  <2>5. CASE UNCHANGED health
    BY <1>1, <2>5
  <2> QED
    BY <1>1, <2>1, <2>2, <2>3, <2>4, <2>5
       DEF Next, TickStep, MonitorStep, vars, TickBegins, TickEndsEarly, StatementBegins,
           StatementEnds, ClearCurrent, CheckGates, ReadState, LookAtCurrent, PauseSucceeds,
           PauseFails, LoadChanges, JudgedChanges, FallbackBegins, FallbackEnds, CheckSkipped,
           IntervalRead, IntervalReadFails
<1>2. HealthInv /\ [Next]_vars => [Confirmed]_vars
  BY <1>1
<1> QED
  BY <1>2, HealthInvariant, PTL DEF Spec, RecoveryIsConfirmed
=============================================================================
