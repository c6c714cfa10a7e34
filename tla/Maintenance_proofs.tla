------------------------- MODULE Maintenance_proofs -------------------------
(***************************************************************************)
(* Theorems about Maintenance.tla, for every set of items, every order,    *)
(* every kind and estimate, and every bound: its types, its safety         *)
(* invariants and its refinement of ItemLife.tla.  Each invariant rests on *)
(* type correctness and on a strengthening of its own; between the types   *)
(* and the invariants stands what the steps do to the queue.               *)
(***************************************************************************)
EXTENDS Maintenance, FiniteSetTheorems, TLAPS

-----------------------------------------------------------------------------
(* What the operations on the queue return.                                *)

\* release: one document changes, in three fields, if it exists.
LEMMA ReleaseFacts ==
  ASSUME NEW q \in Queue, NEW i \in Items, NEW s \in Status, NEW n \in Nat,
         NEW t \in BOOLEAN
  PROVE  /\ Release(q, i, s, n, t) \in Queue
         /\ \A j \in Items : j # i => Release(q, i, s, n, t)[j] = q[j]
         /\ q[i].status = "absent" => Release(q, i, s, n, t)[i] = q[i]
         /\ q[i].status # "absent" =>
              Release(q, i, s, n, t)[i] =
                [status |-> s, attempts |-> n, resume_token |-> t, ttl |-> q[i].ttl]
  BY DEF Release, Queue, Doc

\* finalize: the document, if it exists, gets its status and terminal_at.
LEMMA FinalizeFacts ==
  ASSUME NEW q \in Queue, NEW i \in Items, NEW s \in Status, NEW n \in Nat
  PROVE  /\ Finalize(q, i, s, n) \in Queue
         /\ \A j \in Items : j # i => Finalize(q, i, s, n)[j] = q[j]
         /\ q[i].status = "absent" => Finalize(q, i, s, n)[i] = q[i]
         /\ q[i].status # "absent" =>
              Finalize(q, i, s, n)[i] =
                [status |-> s, attempts |-> n,
                 resume_token |-> q[i].resume_token, ttl |-> TRUE]
  BY DEF Finalize, Queue, Doc

\* The bulk updates: the filtered documents change their status, and get
\* terminal_at when it is a terminal one.
LEMMA MovedFacts ==
  ASSUME NEW d \in Doc, NEW to \in Status
  PROVE  /\ Moved(d, to) \in Doc
         /\ Moved(d, to).status = to
         /\ Moved(d, to).attempts = d.attempts
         /\ Moved(d, to).resume_token = d.resume_token
         /\ to \notin TerminalStatuses => Moved(d, to).ttl = d.ttl
         /\ to \in TerminalStatuses => Moved(d, to).ttl = TRUE
  BY DEF Moved, Doc

LEMMA BulkFacts ==
  ASSUME NEW q \in Queue, NEW S, NEW from, NEW to \in Status
  PROVE  /\ Bulk(q, S, from, to) \in Queue
         /\ \A j \in Items :
              Bulk(q, S, from, to)[j] =
                IF j \in S /\ q[j].status \in from THEN Moved(q[j], to) ELSE q[j]
  BY MovedFacts DEF Bulk, Queue

LEMMA ClaimedFacts ==
  ASSUME NEW q \in Queue, NEW i \in Items
  PROVE  /\ Claimed(q, i) \in Queue
         /\ \A j \in Items : j # i => Claimed(q, i)[j] = q[j]
         /\ Claimed(q, i)[i] = [status |-> "running", attempts |-> q[i].attempts,
                                resume_token |-> q[i].resume_token, ttl |-> q[i].ttl]
  BY DEF Claimed, Queue, Doc, Status, OpenStatuses

LEMMA TtlDeleteFacts ==
  ASSUME NEW q \in Queue, NEW i \in Items
  PROVE  /\ TtlDelete(q, i) \in Queue
         /\ \A j \in Items : j # i => TtlDelete(q, i)[j] = q[j]
         /\ TtlDelete(q, i)[i] = [status |-> "absent", attempts |-> 0,
                                  resume_token |-> FALSE, ttl |-> TRUE]
  BY DEF TtlDelete, Queue, Doc, AbsentDoc, NewDoc, Status

-----------------------------------------------------------------------------
(* Type correctness.  It needs that a tick past its claim holds an item,   *)
(* and that the claim loop has an attempt left while it runs.              *)

Busy == TickPc \ {"idle", "gates", "claim"}

TypeInv ==
  /\ TypeOK
  /\ tick.pc \in Busy => cur \in Items
  /\ tick.pc \in {"gates", "claim", "bounce"} => tick.tries # 0

LEMMA FiniteSubset ==
  ASSUME NEW S, S \subseteq Items
  PROVE  Cardinality(S) \in Nat
  BY FS_Subset, FS_CardinalityType, ItemsAssumption

LEMMA IdleFacts == Idle \in Tick /\ Idle.pc = "idle"
  BY DEF Idle, Tick, TickPc, Modes, Bumps

\* The record of a tick that goes (back) to the claim loop.
LEMMA LoopingFacts ==
  ASSUME NEW pc \in TickPc, NEW left \in Nat, NEW tries \in Nat
  PROVE  /\ Looping(pc, left, tries) \in Tick
         /\ Looping(pc, left, tries).pc = pc
         /\ Looping(pc, left, tries).tries = tries
  BY DEF Looping, Idle, Tick, Modes, Bumps, TickPc

LEMMA LoopLimitFacts ==
  ASSUME NEW S, S \subseteq Items
  PROVE  LoopLimit(S) \in Nat \ {0}
  BY FiniteSubset, ExecutorAssumption DEF LoopLimit

\* The counters only grow, one of them by one.
LEMMA CountedFacts ==
  ASSUME NEW c \in Campaign, NEW bump \in Bumps
  PROVE  Counted(c, bump) \in Campaign
<1>1. CASE bump = "done"
  BY <1>1 DEF Counted, Campaign
<1>2. CASE bump = "failed"
  BY <1>2 DEF Counted, Campaign
<1>3. CASE bump = "skipped"
  BY <1>3 DEF Counted, Campaign
<1> QED
  BY <1>1, <1>2, <1>3 DEF Bumps

LEMMA TypeInit == Init => TypeInv
<1> SUFFICES ASSUME Init PROVE TypeInv
  OBVIOUS
<1>1. queue \in Queue
  BY DEF Init, Queue, Doc, NewDoc, Status, OpenStatuses
<1>2. campaign \in Campaign
  BY FiniteSubset DEF Init, Campaign, CampaignStatus
<1>3. tick \in Tick /\ tick.pc = "idle"
  BY IdleFacts DEF Init, ExecutorInit, Busy
<1> QED
  BY <1>1, <1>2, <1>3 DEF Init, ExecutorInit, TypeInv, TypeOK, Busy, NoMishap

\* Putting an item back changes its status to approved and nothing else.
LEMMA PutBackFacts ==
  ASSUME NEW q \in Queue, NEW i \in Items
  PROVE  /\ PutBack(q, i) \in Queue
         /\ \A j \in Items : j # i => PutBack(q, i)[j] = q[j]
         /\ q[i].status = "absent" => PutBack(q, i)[i] = q[i]
         /\ q[i].status # "absent" =>
              PutBack(q, i)[i] = [status |-> "approved", attempts |-> q[i].attempts,
                                  resume_token |-> q[i].resume_token, ttl |-> q[i].ttl]
<1>1. q[i].attempts \in Nat /\ q[i].resume_token \in BOOLEAN
  BY DEF Queue, Doc
<1>2. "approved" \in Status
  BY DEF Status, OpenStatuses
<1> QED
  BY <1>1, <1>2, ReleaseFacts DEF PutBack

\* The steps of a tick keep the types.
LEMMA TypeTickStep ==
  ASSUME TypeInv, TickStep, UNCHANGED <<granted, cancelling>>
  PROVE  TypeInv'
<1> USE DEF TypeInv, TypeOK, cur
<1>1. CASE TickExpiresCampaign
  BY <1>1 DEF TickExpiresCampaign, Ready, Campaign, CampaignStatus
<1>2. CASE TickWindowClosed
  BY <1>2 DEF TickWindowClosed
<1>3. CASE TickWindowOpen
  <2>1. deferred' \subseteq Items
    BY <1>3 DEF TickWindowOpen
  <2>2. LoopLimit(deferred') \in Nat \ {0}
    BY <2>1, LoopLimitFacts
  <2>3. tick' \in Tick /\ tick'.pc = "gates" /\ tick'.tries # 0
    <3>1. tick' = Looping("gates", window, LoopLimit(deferred'))
      BY <1>3 DEF TickWindowOpen
    <3>2. "gates" \in TickPc
      BY DEF TickPc
    <3> QED
      BY <3>1, <3>2, <2>2, LoopingFacts
  <2> QED
    BY <1>3, <2>1, <2>3 DEF TickWindowOpen, Busy
<1>4. CASE TickRefused
  BY <1>4, IdleFacts DEF TickRefused, Busy
<1>5. ASSUME NEW i \in Items, ClaimPaused(i) \/ ClaimApproved(i)
      PROVE  TypeInv'
  <2>1. PICK pc \in {"claimed", "bounce"} : TakeInHand(i, pc)
    BY <1>5, SMT DEF ClaimPaused, ClaimApproved
  <2>2. queue' \in Queue
    BY <2>1, ClaimedFacts DEF TakeInHand
  <2>3. queue[i] \in Doc
    BY DEF Queue
  <2>4. tick' \in Tick /\ tick'.item = i /\ tick'.tries = tick.tries
    BY <2>1, <2>3 DEF TakeInHand, Tick, TickPc, Doc
  <2> QED
    BY <1>5, <2>2, <2>4 DEF ClaimPaused, ClaimApproved
<1>6. CASE NothingToClaim
  BY <1>6, IdleFacts DEF NothingToClaim, Busy
<1>7. CASE BounceDeferred
  <2>1. cur \in Items
    BY <1>7 DEF BounceDeferred, Busy, TickPc
  <2>2. queue' \in Queue
    BY <1>7, <2>1, PutBackFacts DEF BounceDeferred
  <2>3. tick' \in Tick /\ (tick'.pc = "idle" \/ (tick'.pc = "claim" /\ tick'.tries # 0))
    <3>1. CASE tick.tries = 1
      <4>1. tick' = Idle
        BY <1>7, <3>1 DEF BounceDeferred
      <4> QED
        BY <4>1, IdleFacts
    <3>2. CASE tick.tries # 1
      <4>1. tick.left \in Nat /\ tick.tries \in Nat
        BY DEF Tick
      <4>2. tick' = Looping("claim", tick.left, tick.tries - 1)
        BY <1>7, <3>2 DEF BounceDeferred
      <4>3. "claim" \in TickPc
        BY DEF TickPc
      <4>4. tick.tries - 1 \in Nat \ {0}
        BY <1>7, <3>2, <4>1 DEF BounceDeferred
      <4> QED
        BY <4>1, <4>2, <4>3, <4>4, LoopingFacts
    <3> QED
      BY <3>1, <3>2
  <2> QED
    BY <1>7, <2>2, <2>3 DEF BounceDeferred, Busy
<1>8. CASE PolicyDisabled \/ DryRunDone \/ FinalizeDone \/ GiveUp
  <2>1. cur \in Items
    BY <1>8 DEF PolicyDisabled, DryRunDone, FinalizeDone, GiveUp, Busy, TickPc
  <2>2. queue' \in Queue
    <3>1. queue[cur].attempts \in Nat /\ tick.attempts + 1 \in Nat
      BY <2>1 DEF Queue, Doc, Tick
    <3>2. {"skipped", "done", "failed"} \subseteq Status
      BY DEF Status, TerminalStatuses
    <3>3. PICK s \in {"skipped", "done", "failed"}, n \in Nat :
            queue' = Finalize(queue, cur, s, n)
      BY <1>8, <3>1 DEF PolicyDisabled, DryRunDone, FinalizeDone, GiveUp
    <3> QED
      BY <2>1, <3>2, <3>3, FinalizeFacts
  <2>3. tick' \in Tick /\ tick'.item = cur /\ tick'.pc = "count"
    <3>1. CASE PolicyDisabled
      BY <3>1 DEF PolicyDisabled, Tick, TickPc, Bumps
    <3>2. CASE DryRunDone
      BY <3>2 DEF DryRunDone, Tick, TickPc, Bumps
    <3>3. CASE FinalizeDone
      BY <3>3 DEF FinalizeDone, Tick, TickPc, Bumps
    <3>4. CASE GiveUp
      BY <3>4 DEF GiveUp, Tick, TickPc, Bumps
    <3> QED
      BY <1>8, <3>1, <3>2, <3>3, <3>4
  <2>4. UNCHANGED <<campaign, deferred, wasOpen, proc, window, server, mishaps,
                    started, finished>>
    BY <1>8 DEF PolicyDisabled, DryRunDone, FinalizeDone, GiveUp
  <2>5. TypeOK'
    BY <2>2, <2>3, <2>4
  <2> HIDE DEF TypeOK
  <2> QED
    BY <2>1, <2>3, <2>5
<1>9. CASE Defer \/ ReleasePaused \/ RetryLater
  <2>1. cur \in Items
    BY <1>9 DEF Defer, ReleasePaused, RetryLater, Busy, TickPc
  <2>2. queue' \in Queue
    <3>1. queue[cur].attempts \in Nat /\ queue[cur].resume_token \in BOOLEAN
          /\ tick.attempts + 1 \in Nat
      BY <2>1 DEF Queue, Doc, Tick
    <3>2. {"paused", "approved"} \subseteq Status
      BY DEF Status, OpenStatuses
    <3>3. CASE Defer
      BY <2>1, <3>3, PutBackFacts DEF Defer
    <3>4. CASE ReleasePaused
      BY <2>1, <3>1, <3>2, <3>4, ReleaseFacts DEF ReleasePaused
    <3>5. CASE RetryLater
      BY <2>1, <3>1, <3>2, <3>5, ReleaseFacts DEF RetryLater
    <3> QED
      BY <1>9, <3>3, <3>4, <3>5
  <2> QED
    BY <1>9, <2>1, <2>2, IdleFacts DEF Defer, ReleasePaused, RetryLater, Busy
<1>10. ASSUME NEW res \in BOOLEAN, StartStatement(res)
       PROVE  TypeInv'
  <2>1. cur \in Items
    BY <1>10 DEF StartStatement, Busy, TickPc
  <2>2. tick' \in Tick /\ tick'.item = cur
    BY <1>10 DEF StartStatement, ModeFor, Tick, TickPc, Modes
  <2>3. server' \in [Items -> {"none", "running", "paused"}]
    BY <1>10 DEF StartStatement
  <2> QED
    BY <1>10, <2>1, <2>2, <2>3 DEF StartStatement
<1>11. CASE Execute
  <2>1. cur \in Items
    BY <1>11 DEF Execute, StatementDone, StatementPaused, StatementFails, RetryOffline,
                 Busy, TickPc
  <2>2. tick' \in Tick /\ tick'.item = cur
        /\ tick'.pc \in {"succeeded", "paused", "failed", "retry"}
    <3>1. CASE StatementDone
      BY <3>1 DEF StatementDone, StatementEnds, Tick, TickPc, Modes
    <3>2. CASE StatementPaused
      BY <3>2 DEF StatementPaused, StatementEnds, Tick, TickPc, Modes
    <3>3. CASE StatementFails
      BY <3>3 DEF StatementFails, StatementEnds, Tick, TickPc, Modes
    <3>4. CASE RetryOffline
      BY <3>4 DEF RetryOffline, Tick, TickPc, Modes
    <3> QED
      BY <1>11, <3>1, <3>2, <3>3, <3>4 DEF Execute
  <2>3. server' \in [Items -> {"none", "running", "paused"}]
    BY <1>11 DEF Execute, StatementDone, StatementPaused, StatementFails, RetryOffline,
                 StatementEnds
  <2> QED
    BY <1>11, <2>1, <2>2, <2>3
       DEF Execute, StatementDone, StatementPaused, StatementFails, RetryOffline,
           StatementEnds
<1>12. CASE CountTerminal
  <2>1. campaign' \in Campaign
    BY <1>12, CountedFacts DEF CountTerminal, Tick
  <2>2. tick' \in Tick /\ tick'.item = cur /\ cur \in Items
    BY <1>12 DEF CountTerminal, Tick, TickPc, Busy
  <2> QED
    BY <1>12, <2>1, <2>2 DEF CountTerminal
<1>13. CASE ReadCounters
  <2>1. CASE AllOver(campaign)
    <3>1. tick' \in Tick /\ tick'.item = cur /\ cur \in Items
      BY <1>13, <2>1 DEF ReadCounters, Tick, TickPc, Busy
    <3> QED
      BY <1>13, <2>1, <3>1 DEF ReadCounters
  <2>2. CASE ~AllOver(campaign)
    BY <1>13, <2>2, IdleFacts DEF ReadCounters, Busy
  <2> QED
    BY <2>1, <2>2
<1>14. CASE CloseCampaign
  BY <1>14, IdleFacts DEF CloseCampaign, Closed, Campaign, CampaignStatus, Busy
<1> QED
  BY <1>1, <1>2, <1>3, <1>4, <1>5, <1>6, <1>7, <1>8, <1>9, <1>10, <1>11, <1>12, <1>13,
     <1>14 DEF TickStep, BeginTick, ClaimNext, ProcessItem, WriteBack

\* So do the faults of the tick, the life of the process and its environment.
LEMMA TypeAround ==
  ASSUME TypeInv, CallRaises \/ Lifecycle \/ Environment, UNCHANGED <<granted, cancelling>>
  PROVE  TypeInv'
<1> USE DEF TypeInv, TypeOK, cur
<1>1. CASE CallRaises
  <2>1. campaign' \in Campaign
    BY <1>1 DEF CallRaises, Closed, Campaign, CampaignStatus
  <2>2. tick' \in Tick
        /\ (tick'.pc = "idle" \/ (tick'.pc = "failed" /\ tick'.item = cur /\ cur \in Items))
    <3>1. CASE InTry
      <4>1. tick' = [tick EXCEPT !.pc = "failed"]
        BY <1>1, <3>1 DEF CallRaises
      <4>2. cur \in Items
        BY <3>1 DEF InTry, Busy, TickPc
      <4> QED
        BY <4>1, <4>2 DEF Tick, TickPc
    <3>2. CASE ~InTry
      <4>1. tick' = Idle
        BY <1>1, <3>2 DEF CallRaises
      <4> QED
        BY <4>1, IdleFacts
    <3> QED
      BY <3>1, <3>2
  <2> QED
    BY <1>1, <2>1, <2>2 DEF CallRaises, Busy
<1>2. CASE RequestStop
  BY <1>2 DEF RequestStop
<1>3. CASE Die
  BY <1>3, IdleFacts DEF Die, Busy
<1>4. CASE Start
  <2>1. campaign' \in Campaign
    BY <1>4 DEF Start, ResetStuck, Campaign, CampaignStatus
  <2> QED
    BY <1>4, <2>1 DEF Start
<1>5. CASE WindowPasses
  BY <1>5, ExecutorAssumption DEF WindowPasses
<1>6. CASE EndDatePasses
  BY <1>6 DEF EndDatePasses, Campaign
<1>7. ASSUME NEW i \in Items, AbortPaused(i)
      PROVE  TypeInv'
  BY <1>7 DEF AbortPaused
<1>8. ASSUME NEW i \in Items, Recover(i)
      PROVE  TypeInv'
  <2>1. queue' \in Queue
    BY <1>8, BulkFacts DEF Recover, RecoverRunning, Status, OpenStatuses
  <2> QED
    BY <1>8, <2>1 DEF Recover
<1> QED
  BY <1>1, <1>2, <1>3, <1>4, <1>5, <1>6, <1>7, <1>8
     DEF Lifecycle, Restart, Environment

\* And the operators, the web and the TTL index.
LEMMA TypeOperators ==
  ASSUME TypeInv, Operators \/ \E i \in Items : TtlExpires(i)
  PROVE  TypeInv'
<1> USE DEF TypeInv, TypeOK, cur
<1>1. ASSUME NEW S \in SUBSET Items,
             Approve(S) \/ Dismiss(S, "rejected") \/ Dismiss(S, "skipped")
      PROVE  TypeInv'
  <2>1. queue' \in Queue
    BY <1>1, BulkFacts
       DEF Approve, Dismiss, Decide, Status, OpenStatuses, TerminalStatuses
  <2> QED
    BY <1>1, <2>1 DEF Approve, Dismiss
<1>2. CASE CancelRead
  BY <1>2 DEF CancelRead, vars
<1>3. CASE CancelWrite
  BY <1>3 DEF CancelWrite, Campaign, CampaignStatus
<1>4. ASSUME NEW i \in Items, TtlExpires(i)
      PROVE  TypeInv'
  BY <1>4, TtlDeleteFacts DEF TtlExpires
<1> QED
  BY <1>1, <1>2, <1>3, <1>4 DEF Operators

LEMMA TypeNext == TypeInv /\ [Next]_coreVars => TypeInv'
<1>1. ASSUME TypeInv, UNCHANGED coreVars PROVE TypeInv'
  BY <1>1 DEF TypeInv, TypeOK, coreVars, vars, cur
<1> QED
  BY <1>1, TypeTickStep, TypeAround, TypeOperators DEF Next, ExecutorNext

\* Every variable keeps its type, in every behaviour.
THEOREM TypeCorrect == Spec => []TypeOK
<1>1. TypeInv => TypeOK
  BY DEF TypeInv
<1> QED
  BY <1>1, TypeInit, TypeNext, PTL DEF Spec

-----------------------------------------------------------------------------
(* The steps that write the queue, item by item.                           *)

OtherItemsSame(i) == \A j \in Items : j # i => queue'[j] = queue[j]

\* A claim takes an approved item, or a paused one with its token.
LEMMA ClaimStep ==
  ASSUME TypeInv, NEW i \in Items, ClaimPaused(i) \/ ClaimApproved(i)
  PROVE  /\ queue[i].status \in {"approved", "paused"}
         /\ queue'[i].status = "running"
         /\ queue'[i].attempts = queue[i].attempts
         /\ queue'[i].resume_token = queue[i].resume_token
         /\ queue'[i].ttl = queue[i].ttl
         /\ OtherItemsSame(i)
         /\ tick.pc \in {"gates", "claim"}
         /\ tick'.pc \in {"claimed", "bounce"} /\ tick'.item = i
         /\ tick'.attempts = queue[i].attempts
         /\ UNCHANGED <<campaign, proc, mishaps, started, finished>>
<1>1. queue[i].status \in {"approved", "paused"}
  BY DEF ClaimPaused, ClaimApproved, FirstIn, PausedResumable, Approved, WithStatus
<1>2. PICK pc \in {"claimed", "bounce"} : TakeInHand(i, pc)
  BY SMT DEF ClaimPaused, ClaimApproved
<1>3. queue' = Claimed(queue, i) /\ queue \in Queue
  BY <1>2 DEF TakeInHand, TypeInv, TypeOK
<1>4. tick'.pc \in {"claimed", "bounce"} /\ tick'.item = i
      /\ tick'.attempts = queue[i].attempts
  BY <1>2 DEF TakeInHand, TypeInv, TypeOK, Tick
<1>5. tick.pc \in {"gates", "claim"}
      /\ UNCHANGED <<campaign, proc, mishaps, started, finished>>
  BY DEF ClaimPaused, ClaimApproved
<1>6. OtherItemsSame(i)
  BY <1>3, ClaimedFacts DEF OtherItemsSame
<1>7. queue'[i] = [status |-> "running", attempts |-> queue[i].attempts,
                   resume_token |-> queue[i].resume_token, ttl |-> queue[i].ttl]
  BY <1>3, ClaimedFacts
<1> QED
  BY <1>1, <1>4, <1>5, <1>6, <1>7

\* An item that goes back keeps its attempts, or has failed once more.
LEMMA ReleaseStep ==
  ASSUME TypeInv, BounceDeferred \/ Defer \/ ReleasePaused \/ RetryLater
  PROVE  /\ cur \in Items
         /\ OtherItemsSame(cur)
         /\ tick.pc \in InHand
         /\ tick'.pc \in {"idle", "claim"}
         /\ \/ queue[cur].status = "absent" /\ queue'[cur] = queue[cur]
            \/ /\ queue[cur].status # "absent"
               /\ ReleasePaused => /\ queue'[cur].status = "paused"
                                    /\ queue'[cur].resume_token = TRUE
               /\ ~ReleasePaused => /\ queue'[cur].status = "approved"
                                     /\ queue'[cur].resume_token = queue[cur].resume_token
               /\ RetryLater => queue'[cur].attempts = tick.attempts + 1
               /\ ~RetryLater => queue'[cur].attempts = queue[cur].attempts
               /\ queue'[cur].ttl = queue[cur].ttl
         /\ UNCHANGED <<campaign, proc, mishaps, started, finished>>
<1> USE DEF OtherItemsSame, cur
<1>1. cur \in Items /\ tick.pc \in InHand
  BY DEF TypeInv, TypeOK, BounceDeferred, Defer, ReleasePaused, RetryLater, Busy, TickPc,
         InHand
<1>2. queue \in Queue /\ queue[cur].attempts \in Nat /\ queue[cur].resume_token \in BOOLEAN
      /\ tick.attempts + 1 \in Nat
  BY <1>1 DEF TypeInv, TypeOK, Queue, Doc, Tick
<1>3. {"paused", "approved"} \subseteq Status
  BY DEF Status, OpenStatuses
<1>4. tick'.pc \in {"idle", "claim"}
  <2>1. CASE BounceDeferred
    <3>1. tick' = Idle \/ tick'.pc = "claim"
      BY <2>1 DEF BounceDeferred, Looping, Idle
    <3> QED
      BY <3>1, IdleFacts
  <2>2. CASE Defer \/ ReleasePaused \/ RetryLater
    BY <2>2, IdleFacts DEF Defer, ReleasePaused, RetryLater
  <2> QED
    BY <2>1, <2>2
<1>5. UNCHANGED <<campaign, proc, mishaps, started, finished>>
  BY DEF BounceDeferred, Defer, ReleasePaused, RetryLater
<1>6. CASE BounceDeferred \/ Defer
  <2>1. queue' = PutBack(queue, cur) /\ ~ReleasePaused /\ ~RetryLater
    BY <1>6 DEF BounceDeferred, Defer, ReleasePaused, RetryLater
  <2>2. /\ OtherItemsSame(cur)
        /\ queue[cur].status = "absent" => queue'[cur] = queue[cur]
        /\ queue[cur].status # "absent" =>
             queue'[cur] = [status |-> "approved", attempts |-> queue[cur].attempts,
                            resume_token |-> queue[cur].resume_token, ttl |-> queue[cur].ttl]
    BY <1>1, <1>2, <2>1, PutBackFacts
  <2> QED
    BY <1>1, <1>2, <1>4, <1>5, <2>1, <2>2
<1>7. CASE ReleasePaused
  <2>1. PICK t \in BOOLEAN : t = TRUE /\ queue' = Release(queue, cur, "paused",
                                                          queue[cur].attempts, t)
    BY <1>7 DEF ReleasePaused
  <2> DEFINE new == Release(queue, cur, "paused", queue[cur].attempts, t)
  <2>2. /\ \A j \in Items : j # cur => new[j] = queue[j]
        /\ queue[cur].status = "absent" => new[cur] = queue[cur]
        /\ queue[cur].status # "absent" =>
             new[cur] = [status |-> "paused", attempts |-> queue[cur].attempts,
                         resume_token |-> t, ttl |-> queue[cur].ttl]
    BY <1>1, <1>2, <1>3, ReleaseFacts
  <2>3. queue' = new
    BY <2>1
  <2>4. ~RetryLater
    BY <1>7 DEF ReleasePaused, RetryLater
  <2> HIDE DEF new
  <2>5. queue[cur].status # "absent" =>
          /\ queue'[cur].status = "paused"
          /\ queue'[cur].attempts = queue[cur].attempts
          /\ queue'[cur].ttl = queue[cur].ttl
    BY <2>2, <2>3
  <2>6. OtherItemsSame(cur) /\ (queue[cur].status = "absent" => queue'[cur] = queue[cur])
    BY <2>2, <2>3
  <2>7. queue[cur].status # "absent" => queue'[cur].resume_token = TRUE
    <3>1. queue[cur].status # "absent" => queue'[cur].resume_token = t
      BY <2>2, <2>3
    <3> QED
      BY <2>1, <3>1, Zenon
  <2> QED
    BY <1>1, <1>4, <1>5, <1>7, <2>4, <2>5, <2>6, <2>7
<1>8. CASE RetryLater
  <2>1. queue' = Release(queue, cur, "approved", tick.attempts + 1, queue[cur].resume_token)
        /\ ~ReleasePaused
    BY <1>8 DEF ReleasePaused, RetryLater
  <2>2. /\ OtherItemsSame(cur)
        /\ queue[cur].status = "absent" => queue'[cur] = queue[cur]
        /\ queue[cur].status # "absent" =>
             queue'[cur] = [status |-> "approved", attempts |-> tick.attempts + 1,
                            resume_token |-> queue[cur].resume_token, ttl |-> queue[cur].ttl]
    BY <1>1, <1>2, <1>3, <2>1, ReleaseFacts
  <2>3. queue[cur].status # "absent" =>
          /\ queue'[cur].status = "approved"
          /\ queue'[cur].attempts = tick.attempts + 1
          /\ queue'[cur].resume_token = queue[cur].resume_token
          /\ queue'[cur].ttl = queue[cur].ttl
    BY ONLY <2>2
  <2> HIDE DEF OtherItemsSame
  <2> QED
    BY <1>1, <1>4, <1>5, <1>8, <2>1, <2>2, <2>3
<1> QED
  BY <1>6, <1>7, <1>8

\* An item that has come to its end is marked for the TTL index and counted.
LEMMA FinalizeStep ==
  ASSUME TypeInv, PolicyDisabled \/ DryRunDone \/ FinalizeDone \/ GiveUp
  PROVE  /\ cur \in Items
         /\ OtherItemsSame(cur)
         /\ tick.pc \in InHand
         /\ tick'.pc = "count" /\ tick'.item = cur /\ tick'.attempts = tick.attempts
         /\ tick'.bump \in {"skipped", "done", "failed"}
         /\ tick'.bump = "failed" <=> GiveUp
         /\ \/ queue[cur].status = "absent" /\ queue'[cur] = queue[cur]
            \/ /\ queue[cur].status # "absent"
               /\ queue'[cur].status = tick'.bump
               /\ GiveUp => queue'[cur].attempts = tick.attempts + 1
               /\ ~GiveUp => queue'[cur].attempts = queue[cur].attempts
               /\ queue'[cur].resume_token = queue[cur].resume_token
               /\ queue'[cur].ttl = TRUE
         /\ UNCHANGED <<campaign, proc, mishaps, started, finished>>
<1> USE DEF OtherItemsSame, cur
<1>1. cur \in Items /\ tick.pc \in InHand
  BY DEF TypeInv, TypeOK, PolicyDisabled, DryRunDone, FinalizeDone, GiveUp, Busy, TickPc,
         InHand
<1>2. queue \in Queue /\ queue[cur].attempts \in Nat /\ tick.attempts + 1 \in Nat
      /\ tick \in Tick
  BY <1>1 DEF TypeInv, TypeOK, Queue, Doc, Tick
<1>3. {"skipped", "done", "failed"} \subseteq Status
  BY DEF Status, TerminalStatuses
<1>4. UNCHANGED <<campaign, proc, mishaps, started, finished>>
  BY DEF PolicyDisabled, DryRunDone, FinalizeDone, GiveUp
<1>5. /\ tick'.pc = "count" /\ tick'.item = cur /\ tick'.attempts = tick.attempts
      /\ tick'.bump \in {"skipped", "done", "failed"}
      /\ tick'.bump = "failed" <=> GiveUp
      /\ GiveUp => queue' = Finalize(queue, cur, tick'.bump, tick.attempts + 1)
      /\ ~GiveUp => queue' = Finalize(queue, cur, tick'.bump, queue[cur].attempts)
  <2>1. CASE PolicyDisabled
    BY <1>2, <2>1 DEF PolicyDisabled, GiveUp, Tick
  <2>2. CASE DryRunDone
    BY <1>2, <2>2 DEF DryRunDone, GiveUp, Tick
  <2>3. CASE FinalizeDone
    BY <1>2, <2>3 DEF FinalizeDone, GiveUp, Tick
  <2>4. CASE GiveUp
    BY <1>2, <2>4 DEF GiveUp, Tick
  <2> QED
    BY <2>1, <2>2, <2>3, <2>4
<1>6. tick'.bump \in Status
  BY <1>3, <1>5
<1>7. CASE GiveUp
  <2> DEFINE new == Finalize(queue, cur, tick'.bump, tick.attempts + 1)
  <2>1. /\ \A j \in Items : j # cur => new[j] = queue[j]
        /\ queue[cur].status = "absent" => new[cur] = queue[cur]
        /\ queue[cur].status # "absent" =>
             new[cur] = [status |-> tick'.bump, attempts |-> tick.attempts + 1,
                         resume_token |-> queue[cur].resume_token, ttl |-> TRUE]
    BY <1>1, <1>2, <1>6, FinalizeFacts
  <2>2. queue' = new
    BY <1>5, <1>7
  <2> HIDE DEF new
  <2> QED
    BY <1>1, <1>4, <1>5, <1>7, <2>1, <2>2
<1>8. CASE ~GiveUp
  <2> DEFINE new == Finalize(queue, cur, tick'.bump, queue[cur].attempts)
  <2>1. /\ \A j \in Items : j # cur => new[j] = queue[j]
        /\ queue[cur].status = "absent" => new[cur] = queue[cur]
        /\ queue[cur].status # "absent" =>
             new[cur] = [status |-> tick'.bump, attempts |-> queue[cur].attempts,
                         resume_token |-> queue[cur].resume_token, ttl |-> TRUE]
    BY <1>1, <1>2, <1>6, FinalizeFacts
  <2>2. queue' = new
    BY <1>5, <1>8
  <2> HIDE DEF new
  <2>3. OtherItemsSame(cur) /\ (queue[cur].status = "absent" => queue'[cur] = queue[cur])
    BY <2>1, <2>2
  <2>4. queue[cur].status # "absent" =>
          /\ queue'[cur].status = tick'.bump
          /\ queue'[cur].attempts = queue[cur].attempts
          /\ queue'[cur].resume_token = queue[cur].resume_token
          /\ queue'[cur].ttl = TRUE
    BY ONLY <2>1, <2>2
  <2> HIDE DEF OtherItemsSame
  <2> QED
    BY <1>1, <1>4, <1>5, <1>8, <2>3, <2>4
<1> QED
  BY <1>7, <1>8

-----------------------------------------------------------------------------
(* The steps sorted by what they do to the queue.                          *)

Claiming(i) == ClaimPaused(i) \/ ClaimApproved(i)

Releasing == BounceDeferred \/ Defer \/ ReleasePaused \/ RetryLater

Finalizing == PolicyDisabled \/ DryRunDone \/ FinalizeDone \/ GiveUp

TickQuiet ==
  \/ BeginTick \/ NothingToClaim \/ \E res \in BOOLEAN : StartStatement(res)
  \/ Execute \/ CountTerminal \/ ReadCounters \/ CloseCampaign

Around == RequestStop \/ Environment \/ CancelRead \/ CancelWrite

LEMMA StepCases ==
  ASSUME Next
  PROVE  \/ (\E i \in Items : Claiming(i)) /\ granted' = granted
         \/ Releasing /\ granted' = granted
         \/ Finalizing /\ granted' = granted
         \/ TickQuiet /\ granted' = granted
         \/ CallRaises /\ granted' = granted
         \/ Die /\ granted' = granted
         \/ Restart /\ granted' = granted
         \/ Around /\ granted' = granted
         \/ \E S \in SUBSET Items : Approve(S)
         \/ \E S \in SUBSET Items, d \in {"rejected", "skipped"} : Dismiss(S, d)
         \/ (\E i \in Items : TtlExpires(i)) /\ granted' = granted
<1>1. CASE ExecutorNext /\ UNCHANGED <<granted, cancelling>>
  BY <1>1 DEF ExecutorNext, TickStep, BeginTick, ClaimNext, ProcessItem, WriteBack,
              Lifecycle, Claiming, Releasing, Finalizing, TickQuiet, Around
<1>2. CASE Operators
  <2>1. CASE CancelRead \/ CancelWrite
    BY <2>1 DEF CancelRead, CancelWrite, Around
  <2>2. CASE \E S \in SUBSET Items :
               Approve(S) \/ Dismiss(S, "rejected") \/ Dismiss(S, "skipped")
    BY <2>2
  <2> QED
    BY <1>2, <2>1, <2>2 DEF Operators
<1>3. CASE \E i \in Items : TtlExpires(i)
  BY <1>3 DEF TtlExpires
<1> QED
  BY <1>1, <1>2, <1>3 DEF Next

\* Between claim and write-back a tick keeps its item and leaves the queue alone.
LEMMA QuietStep ==
  ASSUME TypeInv, TickQuiet
  PROVE  /\ queue' = queue
         /\ \/ tick' = tick
            \/ tick.pc \notin InHand /\ tick'.pc \notin InHand
               /\ (tick'.pc \in {"idle", "gates"}
                   \/ (tick.pc = "count" /\ tick'.pc = "check")
                   \/ (tick.pc = "check" /\ tick'.pc = "close"))
            \/ tick.pc \in InHand /\ tick'.pc \in InHand
         /\ tick'.pc \in Busy => /\ tick.pc \in Busy
                                 /\ tick'.item = cur
                                 /\ tick'.attempts = tick.attempts
                                 /\ tick'.bump = tick.bump
         /\ started' = started \/ (tick.pc \in Busy /\ started' = started \cup {cur})
         /\ UNCHANGED <<proc, mishaps>>
<1> USE DEF cur, InHand, Busy
<1>0. tick \in Tick
  BY DEF TypeInv, TypeOK
<1>1. CASE TickExpiresCampaign \/ TickWindowClosed
  BY <1>1 DEF TickExpiresCampaign, TickWindowClosed
<1>2. CASE TickWindowOpen
  <2>1. tick.pc = "idle" /\ tick'.pc = "gates"
    BY <1>2 DEF TickWindowOpen, Ready, Looping, Idle
  <2> QED
    BY <1>2, <2>1 DEF TickWindowOpen, TickPc
<1>3. CASE TickRefused \/ NothingToClaim \/ CloseCampaign
               \/ (ReadCounters /\ ~AllOver(campaign))
  BY <1>3, IdleFacts DEF TickRefused, NothingToClaim, CloseCampaign, ReadCounters
<1>4. ASSUME NEW res \in BOOLEAN, StartStatement(res)
      PROVE  /\ queue' = queue /\ UNCHANGED <<proc, mishaps>>
             /\ started' = started \cup {cur}
             /\ tick.pc = "claimed" /\ tick'.pc = "running" /\ tick'.item = cur
             /\ tick'.attempts = tick.attempts /\ tick'.bump = tick.bump
  BY <1>0, <1>4 DEF StartStatement, Tick
<1>5. CASE \E res \in BOOLEAN : StartStatement(res)
  BY <1>4, <1>5 DEF TickPc
<1>6. ASSUME Execute
      PROVE  /\ queue' = queue /\ UNCHANGED <<proc, mishaps, started>>
             /\ tick.pc \in {"running", "retry"}
             /\ tick'.pc \in {"succeeded", "paused", "failed", "retry"}
             /\ tick'.item = cur
             /\ tick'.attempts = tick.attempts /\ tick'.bump = tick.bump
  BY <1>0, <1>6 DEF Execute, StatementDone, StatementPaused, StatementFails, RetryOffline,
                    StatementEnds, Tick
<1>7. CASE Execute
  BY <1>6, <1>7 DEF TickPc
<1>8. CASE CountTerminal
  <2>1. /\ queue' = queue /\ UNCHANGED <<proc, mishaps, started>>
        /\ tick.pc = "count" /\ tick'.pc = "check" /\ tick'.item = cur
        /\ tick'.attempts = tick.attempts /\ tick'.bump = tick.bump
    BY <1>0, <1>8 DEF CountTerminal, Tick
  <2>2. tick.pc \notin InHand /\ tick'.pc \notin InHand /\ tick.pc \in Busy
    BY <2>1 DEF TickPc
  <2> QED
    BY <2>1, <2>2, Zenon
<1>9. CASE ReadCounters /\ AllOver(campaign)
  <2>1. /\ queue' = queue /\ UNCHANGED <<proc, mishaps, started>>
        /\ tick.pc = "check" /\ tick'.pc = "close" /\ tick'.item = cur
        /\ tick'.attempts = tick.attempts /\ tick'.bump = tick.bump
    BY <1>0, <1>9 DEF ReadCounters, Tick
  <2>2. tick.pc \notin InHand /\ tick'.pc \notin InHand /\ tick.pc \in Busy
    BY <2>1 DEF TickPc
  <2> QED
    BY <2>1, <2>2, Zenon
<1> QED
  BY <1>1, <1>2, <1>3, <1>5, <1>7, <1>8, <1>9, Zenon DEF TickQuiet, BeginTick

LEMMA AroundStep ==
  ASSUME Around
  PROVE  UNCHANGED <<queue, tick, mishaps, started, finished>>
         /\ (proc' = proc \/ (proc = "up" /\ proc' = "stopping"))
  BY DEF Around, RequestStop, Environment, WindowPasses, EndDatePasses, AbortPaused,
         CancelRead, CancelWrite, vars

\* Recovery gives one item back, and touches nothing else.
LEMMA RecoverStep ==
  ASSUME TypeInv, NEW i \in Items, Recover(i)
  PROVE  /\ OtherItemsSame(i)
         /\ queue[i].status = "running" /\ queue'[i].status = "approved"
         /\ queue'[i].attempts = queue[i].attempts
         /\ queue'[i].resume_token = queue[i].resume_token
         /\ queue'[i].ttl = queue[i].ttl
         /\ UNCHANGED <<campaign, tick, proc, mishaps, started, finished>>
<1>1. queue[i] \in Doc /\ queue \in Queue
  BY DEF TypeInv, TypeOK, Queue
<1>2. "approved" \in Status /\ "approved" \notin TerminalStatuses
  BY DEF Status, OpenStatuses, TerminalStatuses
<1>3. queue[i].status = "running"
      /\ UNCHANGED <<campaign, tick, proc, mishaps, started, finished>>
  BY DEF Recover
<1>4. \A j \in Items : queue'[j] = IF j = i THEN Moved(queue[i], "approved") ELSE queue[j]
  BY <1>1, <1>2, <1>3, BulkFacts DEF Recover, RecoverRunning
<1>5. OtherItemsSame(i)
  BY <1>4 DEF OtherItemsSame
<1> DEFINE new == Moved(queue[i], "approved")
<1>6. /\ new.attempts = queue[i].attempts
      /\ new.resume_token = queue[i].resume_token
      /\ new.ttl = queue[i].ttl
      /\ new.status = "approved"
  BY <1>1, <1>2, MovedFacts
<1>7. queue'[i] = new
  BY <1>4
<1> HIDE DEF new
<1> QED
  BY <1>3, <1>5, <1>6, <1>7

\* A restart: the item is given back or stays as it is.
LEMMA RestartStep ==
  ASSUME TypeInv, Restart, NEW i \in Items
  PROVE  /\ queue'[i].attempts = queue[i].attempts
         /\ queue'[i].resume_token = queue[i].resume_token
         /\ queue'[i].ttl = queue[i].ttl
         /\ \/ queue'[i].status = queue[i].status
            \/ queue[i].status = "running" /\ queue'[i].status = "approved"
         /\ UNCHANGED <<tick, mishaps, started, finished>>
         /\ proc = "down"
<1>1. CASE Start
  BY <1>1 DEF Start
<1>2. ASSUME NEW j \in Items, Recover(j)
      PROVE  /\ i # j => queue'[i] = queue[i]
             /\ i = j => /\ queue'[i].attempts = queue[i].attempts
                         /\ queue'[i].resume_token = queue[i].resume_token
                         /\ queue'[i].ttl = queue[i].ttl
                         /\ queue[i].status = "running" /\ queue'[i].status = "approved"
             /\ UNCHANGED <<tick, mishaps, started, finished>> /\ proc = "down"
  BY <1>2, RecoverStep DEF OtherItemsSame, Recover
<1>3. CASE \E j \in Items : Recover(j)
  BY <1>2, <1>3
<1> QED
  BY <1>1, <1>3 DEF Restart

-----------------------------------------------------------------------------
(* Only approved items are started.  The strengthening follows the grant   *)
(* from the decision to the statement: every status an item can have on    *)
(* the way, and the item in hand whatever its status.                      *)

OnTheWay == {"approved", "running", "paused"}

GrantInv ==
  /\ started \subseteq granted
  /\ WithStatus(queue, OnTheWay) \subseteq granted
  /\ tick.pc \in Busy => cur \in granted

LEMMA GrantInit == Init => GrantInv
BY IdleFacts DEF Init, ExecutorInit, GrantInv, WithStatus, OnTheWay, NewDoc, Busy

LEMMA HandIsBusy == InHand \subseteq Busy /\ {"count", "check", "close"} \subseteq Busy
BY DEF InHand, Busy, TickPc

LEMMA GrantNext == TypeInv /\ TypeInv' /\ GrantInv /\ [Next]_coreVars => GrantInv'
<1> SUFFICES ASSUME TypeInv, TypeInv', GrantInv, [Next]_coreVars PROVE GrantInv'
  OBVIOUS
<1> USE DEF GrantInv, WithStatus, cur, OtherItemsSame
<1>1. CASE UNCHANGED coreVars
  BY <1>1 DEF coreVars, vars
<1>2. ASSUME NEW i \in Items, Claiming(i), granted' = granted PROVE GrantInv'
  BY <1>2, ClaimStep DEF Claiming, OnTheWay
<1>3. CASE Releasing /\ granted' = granted
  <2>1. cur \in granted /\ tick'.pc \notin Busy
    BY <1>3, ReleaseStep, HandIsBusy DEF Releasing, Busy
  <2> QED
    BY <1>3, <2>1, ReleaseStep DEF Releasing
<1>4. CASE Finalizing /\ granted' = granted
  <2>1. cur \in granted /\ tick'.item = cur
    BY <1>4, FinalizeStep, HandIsBusy DEF Finalizing
  <2> QED
    BY <1>4, <2>1, FinalizeStep DEF Finalizing
<1>5. CASE TickQuiet /\ granted' = granted
  BY <1>5, QuietStep
<1>6. CASE CallRaises /\ granted' = granted
  <2>1. queue' = queue /\ started' = started
    BY <1>6 DEF CallRaises
  <2>2. tick'.pc \in Busy => tick.pc \in Busy /\ tick'.item = cur
    <3>1. CASE InTry
      BY <1>6, <3>1, HandIsBusy DEF CallRaises, InTry, InHand, TypeInv, TypeOK, Tick
    <3>2. CASE ~InTry
      BY <1>6, <3>2, IdleFacts DEF CallRaises, Busy
    <3> QED
      BY <3>1, <3>2
  <2> QED
    BY <1>6, <2>1, <2>2
<1>7. CASE Die /\ granted' = granted
  BY <1>7, IdleFacts DEF Die, Busy
<1>8. CASE Restart /\ granted' = granted
  <2>1. \A i \in Items : queue'[i].status \in OnTheWay => queue[i].status \in OnTheWay
    BY <1>8, RestartStep DEF OnTheWay
  <2>2. UNCHANGED <<tick, started>>
    BY <1>8 DEF Restart, Start, Recover
  <2> QED
    BY <1>8, <2>1, <2>2
<1>9. CASE Around /\ granted' = granted
  BY <1>9, AroundStep
<1>10. ASSUME NEW S \in SUBSET Items, Approve(S) PROVE GrantInv'
  <2>1. \A i \in Items : \/ queue[i].status = "awaiting_approval" /\ i \in S
                         \/ queue'[i] = queue[i]
    BY <1>10, BulkFacts DEF Approve, Decide, TypeInv, TypeOK, Status, OpenStatuses
  <2> QED
    BY <1>10, <2>1 DEF Approve
<1>11. ASSUME NEW S \in SUBSET Items, NEW d \in {"rejected", "skipped"}, Dismiss(S, d)
       PROVE  GrantInv'
  <2>1. d \in Status /\ d \notin OnTheWay
    BY DEF Status, TerminalStatuses, OnTheWay
  <2>2. \A i \in Items : queue'[i].status = d \/ queue'[i] = queue[i]
    <3>1. \A i \in Items : queue'[i] = Moved(queue[i], d) \/ queue'[i] = queue[i]
      BY <1>11, <2>1, BulkFacts DEF Dismiss, Decide, TypeInv, TypeOK
    <3>2. \A i \in Items : Moved(queue[i], d).status = d
      <4>1. queue \in [Items -> Doc]
        BY DEF TypeInv, TypeOK, Queue
      <4> QED
        BY ONLY <2>1, <4>1, MovedFacts
    <3> QED
      BY <3>1, <3>2
  <2> QED
    BY <1>11, <2>1, <2>2 DEF Dismiss
<1>12. ASSUME NEW i \in Items, TtlExpires(i), granted' = granted PROVE GrantInv'
  <2>1. \A j \in Items : j # i => queue'[j] = queue[j]
    BY <1>12, TtlDeleteFacts DEF TtlExpires, TypeInv, TypeOK
  <2>2. queue'[i].status \notin OnTheWay
    BY <1>12, TtlDeleteFacts DEF TtlExpires, TypeInv, TypeOK, OnTheWay
  <2> QED
    BY <1>12, <2>1, <2>2 DEF TtlExpires
<1> QED
  BY <1>1, <1>2, <1>3, <1>4, <1>5, <1>6, <1>7, <1>8, <1>9, <1>10, <1>11, <1>12, StepCases

\* No statement is sent for an item nobody approved: not after any number of
\* retries, deferrals, pauses, failing calls and restarts.
THEOREM GrantedBeforeStarted == Spec => []StartedOnlyIfGranted
<1>1. TypeInv /\ GrantInv /\ [Next]_coreVars => TypeInv' /\ GrantInv'
  BY TypeNext, GrantNext
<1>2. GrantInv => StartedOnlyIfGranted
  BY DEF GrantInv, StartedOnlyIfGranted
<1> QED
  BY <1>1, <1>2, TypeInit, GrantInit, PTL DEF Spec

-----------------------------------------------------------------------------
(* What a decision and the TTL index do to one item.                       *)

LEMMA DecideStep ==
  ASSUME TypeInv, NEW S, NEW d \in {"approved", "rejected", "skipped"},
         queue' = Decide(queue, S, d), NEW i \in Items
  PROVE  \/ queue'[i] = queue[i]
         \/ /\ queue[i].status = "awaiting_approval"
            /\ queue'[i].status = d
            /\ queue'[i].attempts = queue[i].attempts
            /\ queue'[i].resume_token = queue[i].resume_token
            /\ d = "approved" => queue'[i].ttl = queue[i].ttl
<1>1. queue[i] \in Doc /\ queue \in Queue
  BY DEF TypeInv, TypeOK, Queue
<1>2. d \in Status /\ "approved" \notin TerminalStatuses
  BY DEF Status, OpenStatuses, TerminalStatuses
<1>3. queue'[i] = IF i \in S /\ queue[i].status = "awaiting_approval"
                  THEN Moved(queue[i], d) ELSE queue[i]
  BY <1>1, <1>2, BulkFacts DEF Decide
<1> DEFINE new == Moved(queue[i], d)
<1>4. /\ new.status = d
      /\ new.attempts = queue[i].attempts
      /\ new.resume_token = queue[i].resume_token
  BY <1>1, <1>2, MovedFacts
<1>5. d = "approved" => new.ttl = queue[i].ttl
  <2>1. d \notin TerminalStatuses => new.ttl = queue[i].ttl
    BY <1>1, <1>2, MovedFacts
  <2> QED
    BY <1>2, <2>1
<1>6. queue'[i] = queue[i] \/ (queue[i].status = "awaiting_approval" /\ queue'[i] = new)
  BY <1>3
<1> HIDE DEF new
<1> QED
  BY <1>4, <1>5, <1>6

LEMMA TtlStep ==
  ASSUME TypeInv, NEW i \in Items, TtlExpires(i)
  PROVE  /\ queue[i].ttl
         /\ OtherItemsSame(i)
         /\ queue'[i] = [status |-> "absent", attempts |-> 0,
                         resume_token |-> FALSE, ttl |-> TRUE]
         /\ UNCHANGED <<campaign, tick, proc, mishaps, started, finished>>
BY TtlDeleteFacts DEF TtlExpires, OtherItemsSame, TypeInv, TypeOK

-----------------------------------------------------------------------------
(* A paused item can be claimed again: inductive by itself.                *)

LEMMA PausedNext ==
  TypeInv /\ PausedIsResumable /\ [Next]_coreVars => PausedIsResumable'
<1> SUFFICES ASSUME TypeInv, PausedIsResumable, [Next]_coreVars,
                    NEW i \in Items, queue'[i].status = "paused"
             PROVE  queue'[i].resume_token
  BY DEF PausedIsResumable
<1>0. queue[i].status = "paused" => queue[i].resume_token
  BY DEF PausedIsResumable
<1> USE DEF OtherItemsSame
<1>1. CASE queue' = queue
  BY <1>0, <1>1
<1>2. ASSUME NEW j \in Items, Claiming(j) PROVE queue'[i].resume_token
  <2>1. queue'[j].status = "running" /\ OtherItemsSame(j)
    BY <1>2, ClaimStep DEF Claiming
  <2> QED
    BY <1>0, <2>1
<1>3. CASE Releasing
  <2>1. CASE i # cur
    BY <1>0, <1>3, <2>1, ReleaseStep DEF Releasing
  <2>2. CASE i = cur
    <3>1. queue'[cur] = queue[cur] \/ queue'[cur].resume_token = TRUE
      BY <1>3, <2>2, ReleaseStep DEF Releasing
    <3> QED
      BY <1>0, <2>2, <3>1
  <2> QED
    BY <2>1, <2>2
<1>4. CASE Finalizing
  BY <1>0, <1>4, FinalizeStep DEF Finalizing
<1>5. CASE Restart
  BY <1>0, <1>5, RestartStep
<1>6. ASSUME NEW S \in SUBSET Items, NEW d \in {"rejected", "skipped"},
             Approve(S) \/ Dismiss(S, d)
      PROVE  queue'[i].resume_token
  BY <1>0, <1>6, DecideStep DEF Approve, Dismiss
<1>7. ASSUME NEW j \in Items, TtlExpires(j) PROVE queue'[i].resume_token
  BY <1>0, <1>7, TtlStep
<1>8. TickQuiet \/ CallRaises \/ Die \/ Around \/ UNCHANGED coreVars => queue' = queue
  BY QuietStep, AroundStep DEF CallRaises, Die, coreVars, vars
<1> QED
  BY <1>1, <1>2, <1>3, <1>4, <1>5, <1>6, <1>7, <1>8, StepCases

\* A paused rebuild always carries its resume token, so that a later tick
\* finds it.
THEOREM PausedCanResume == Spec => []PausedIsResumable
<1>1. Init => PausedIsResumable
  BY DEF Init, PausedIsResumable, NewDoc
<1>2. TypeInv /\ PausedIsResumable /\ [Next]_coreVars => TypeInv' /\ PausedIsResumable'
  BY TypeNext, PausedNext
<1> QED
  BY <1>1, <1>2, TypeInit, PTL DEF Spec

-----------------------------------------------------------------------------
(* Attempts.  While the tick may still send its item to the error handler, *)
(* both the attempts it claimed with and those in the document leave one.  *)

Trying == \/ tick.pc \in InHand
          \/ tick.pc \in {"count", "check", "close"} /\ tick.bump = "done"

ItemBounded(i) ==
  /\ queue[i].status \in OpenStatuses => queue[i].attempts < MaxAttempts
  /\ queue[i].status = "failed" <=> queue[i].attempts = MaxAttempts

AttemptInv ==
  /\ \A i \in Items : ItemBounded(i)
  /\ Trying => tick.attempts < MaxAttempts /\ queue[cur].attempts < MaxAttempts

LEMMA AttemptInit == Init => AttemptInv
<1> SUFFICES ASSUME Init PROVE AttemptInv
  OBVIOUS
<1>1. tick.pc = "idle"
  BY IdleFacts DEF Init, ExecutorInit
<1> QED
  BY <1>1, ExecutorAssumption
     DEF Init, AttemptInv, ItemBounded, Trying, InHand, NewDoc, OpenStatuses

LEMMA AttemptNext == TypeInv /\ TypeInv' /\ AttemptInv /\ [Next]_coreVars => AttemptInv'
<1> SUFFICES ASSUME TypeInv, TypeInv', AttemptInv, [Next]_coreVars PROVE AttemptInv'
  OBVIOUS
<1> USE DEF cur, OtherItemsSame
<1>a. MaxAttempts \in Nat \ {0} /\ (\A i \in Items : queue[i].attempts \in Nat)
      /\ tick.attempts \in Nat
  BY ExecutorAssumption DEF TypeInv, TypeOK, Queue, Doc, Tick
<1>b. \A i \in Items : ItemBounded(i)
  BY DEF AttemptInv
<1>c. Trying => tick.attempts < MaxAttempts /\ queue[cur].attempts < MaxAttempts
  BY DEF AttemptInv
<1>d. Trying => cur \in Items
  BY HandIsBusy DEF Trying, TypeInv
<1>e. ASSUME queue' = queue,
             Trying' => Trying /\ tick'.item = cur /\ tick'.attempts = tick.attempts
      PROVE  AttemptInv'
  BY <1>b, <1>c, <1>e DEF AttemptInv, ItemBounded
<1>f. ASSUME NEW i \in Items, queue'[i].attempts = queue[i].attempts,
             \/ queue[i].status \in OpenStatuses /\ queue'[i].status # "failed"
             \/ queue'[i].status = queue[i].status
      PROVE  ItemBounded(i)'
  BY <1>a, <1>b, <1>f DEF ItemBounded, OpenStatuses
<1>1. CASE UNCHANGED coreVars
  BY <1>1, <1>e DEF coreVars, vars, Trying
<1>2. ASSUME NEW i \in Items, Claiming(i) PROVE AttemptInv'
  <2>1. /\ queue[i].status \in OpenStatuses
        /\ queue'[i].status = "running"
        /\ queue'[i].attempts = queue[i].attempts
        /\ \A j \in Items : j # i => queue'[j] = queue[j]
        /\ tick'.item = i /\ tick'.attempts = queue[i].attempts
    BY <1>2, ClaimStep DEF Claiming, OpenStatuses
  <2>2. \A j \in Items : ItemBounded(j)'
    BY <1>f, <2>1
  <2>3. queue[i].attempts < MaxAttempts
    BY <1>b, <2>1 DEF ItemBounded
  <2> QED
    BY <2>1, <2>2, <2>3 DEF AttemptInv
<1>3. CASE Releasing
  <2>1. /\ cur \in Items /\ Trying
        /\ \A j \in Items : j # cur => queue'[j] = queue[j]
        /\ tick'.pc \in {"idle", "claim"}
    BY <1>3, ReleaseStep DEF Releasing, Trying
  <2>2. ~Trying'
    BY <2>1 DEF Trying, InHand
  <2> PICK i \in Items : i = cur
    BY <2>1
  <2>3. ItemBounded(i)'
    <3>1. CASE queue'[i] = queue[i]
      BY <1>f, <2>1, <3>1
    <3>2. CASE queue'[i] # queue[i]
      <4>1. /\ queue'[i].status \in {"approved", "paused"}
            /\ RetryLater => queue'[i].attempts = tick.attempts + 1
            /\ ~RetryLater => queue'[i].attempts = queue[i].attempts
        BY <1>3, <3>2, ReleaseStep DEF Releasing
      <4>2. RetryLater => tick.attempts + 1 < MaxAttempts
        BY <1>a DEF RetryLater, LastAttempt
      <4>3. queue'[i].attempts < MaxAttempts
        BY <1>c, <2>1, <4>1, <4>2
      <4>4. queue'[i].status # "failed" /\ queue'[i].attempts # MaxAttempts
        BY <1>a, <4>1, <4>3
      <4> QED
        BY <4>3, <4>4 DEF ItemBounded
    <3> QED
      BY <3>1, <3>2
  <2> QED
    BY <1>f, <2>1, <2>2, <2>3 DEF AttemptInv
<1>4. CASE Finalizing
  <2>1. /\ cur \in Items /\ Trying
        /\ \A j \in Items : j # cur => queue'[j] = queue[j]
        /\ tick'.pc = "count" /\ tick'.item = cur /\ tick'.attempts = tick.attempts
        /\ tick'.bump \in {"skipped", "done", "failed"}
        /\ tick'.bump = "failed" <=> GiveUp
    BY <1>4, FinalizeStep DEF Finalizing, Trying
  <2>2. \/ queue'[cur] = queue[cur]
        \/ /\ queue'[cur].status = tick'.bump
           /\ GiveUp => queue'[cur].attempts = tick.attempts + 1
           /\ ~GiveUp => queue'[cur].attempts = queue[cur].attempts
    BY <1>4, FinalizeStep DEF Finalizing
  <2>3. GiveUp => tick.attempts + 1 = MaxAttempts
    BY <1>a, <1>c, <2>1 DEF GiveUp, LastAttempt
  <2>4. ItemBounded(cur)'
    <3>1. CASE queue'[cur] = queue[cur]
      BY <1>f, <2>1, <3>1
    <3>2. CASE queue'[cur] # queue[cur]
      <4>1. queue'[cur].status \notin OpenStatuses
        BY <2>1, <2>2, <3>2 DEF OpenStatuses
      <4>2. GiveUp => queue'[cur].attempts = MaxAttempts
        BY <2>2, <2>3, <3>2
      <4>3. ~GiveUp => queue'[cur].attempts # MaxAttempts
        BY <1>a, <1>c, <2>1, <2>2, <3>2
      <4> QED
        BY <2>1, <2>2, <3>2, <4>1, <4>2, <4>3 DEF ItemBounded
    <3> QED
      BY <3>1, <3>2
  <2>5. Trying' => tick'.attempts < MaxAttempts /\ queue'[tick'.item].attempts < MaxAttempts
    <3>1. Trying' => ~GiveUp
      BY <2>1 DEF Trying, InHand
    <3> QED
      BY <1>c, <2>1, <2>2, <3>1
  <2> QED
    BY <1>f, <2>1, <2>4, <2>5 DEF AttemptInv
<1>5. CASE TickQuiet
  <2>1. Trying' => Trying
    BY <1>5, QuietStep, HandIsBusy DEF Trying, InHand
  <2>2. Trying' => tick'.item = cur /\ tick'.attempts = tick.attempts
    BY <1>5, QuietStep, HandIsBusy DEF Trying
  <2> QED
    BY <1>5, <1>e, <2>1, <2>2, QuietStep
<1>6. CASE CallRaises
  <2>1. CASE InTry
    <3>1. tick'.item = cur /\ tick'.attempts = tick.attempts
      BY <1>6, <2>1 DEF CallRaises, TypeInv, TypeOK, Tick
    <3>2. Trying
      BY <2>1 DEF InTry, Trying, InHand
    <3> QED
      BY <1>6, <1>e, <3>1, <3>2 DEF CallRaises
  <2>2. CASE ~InTry
    <3>1. ~Trying'
      BY <1>6, <2>2, IdleFacts DEF CallRaises, Trying, InHand
    <3> QED
      BY <1>6, <1>e, <3>1 DEF CallRaises
  <2> QED
    BY <2>1, <2>2
<1>7. CASE Die
  <2>1. ~Trying'
    BY <1>7, IdleFacts DEF Die, Trying, InHand
  <2> QED
    BY <1>7, <1>e, <2>1 DEF Die
<1>8. CASE Restart
  <2>1. tick' = tick /\ \A i \in Items : queue'[i].attempts = queue[i].attempts
    <3>1. tick' = tick
      BY <1>8 DEF Restart, Start, Recover
    <3> QED
      BY <1>8, <3>1, RestartStep
  <2>2. \A i \in Items : ItemBounded(i)'
    BY <1>8, <1>f, RestartStep DEF OpenStatuses
  <2> QED
    BY <1>c, <1>d, <2>1, <2>2 DEF AttemptInv, Trying
<1>9. CASE Around
  BY <1>9, <1>e, AroundStep DEF Trying
<1>10. ASSUME NEW S \in SUBSET Items, NEW d \in {"rejected", "skipped"},
              Approve(S) \/ Dismiss(S, d)
       PROVE  AttemptInv'
  <2>1. PICK e \in {"approved", "rejected", "skipped"} : queue' = Decide(queue, S, e)
    BY <1>10 DEF Approve, Dismiss
  <2>2. tick' = tick
    BY <1>10 DEF Approve, Dismiss
  <2>3. \A i \in Items : queue'[i].attempts = queue[i].attempts
    BY <2>1, DecideStep
  <2>4. \A i \in Items : ItemBounded(i)'
    BY <1>f, <2>1, <2>3, DecideStep DEF OpenStatuses
  <2> QED
    BY <1>c, <1>d, <2>2, <2>3, <2>4 DEF AttemptInv, Trying
<1>11. ASSUME NEW i \in Items, TtlExpires(i) PROVE AttemptInv'
  <2>1. /\ queue'[i].status = "absent" /\ queue'[i].attempts = 0 /\ tick' = tick
        /\ \A j \in Items : j # i => queue'[j] = queue[j]
    BY <1>11, TtlStep
  <2>2. ItemBounded(i)'
    BY <1>a, <2>1 DEF ItemBounded, OpenStatuses
  <2>3. \A j \in Items : ItemBounded(j)'
    BY <1>f, <2>1, <2>2
  <2>4. Trying' => tick'.attempts < MaxAttempts /\ queue'[tick'.item].attempts < MaxAttempts
    BY <1>a, <1>c, <1>d, <2>1 DEF Trying
  <2> QED
    BY <2>3, <2>4 DEF AttemptInv
<1> QED
  BY <1>1, <1>2, <1>3, <1>4, <1>5, <1>6, <1>7, <1>8, <1>9, <1>10, <1>11, StepCases

\* An item fails at most maint_max_attempts times, and FAILED is written at the
\* last one, also when calls of the write-back raise.
THEOREM AttemptsAreBounded == Spec => []AttemptsBounded
<1>1. TypeInv /\ AttemptInv /\ [Next]_coreVars => TypeInv' /\ AttemptInv'
  BY TypeNext, AttemptNext
<1>2. AttemptInv => AttemptsBounded
  BY DEF AttemptInv, ItemBounded, AttemptsBounded
<1> QED
  BY <1>1, <1>2, TypeInit, AttemptInit, PTL DEF Spec

-----------------------------------------------------------------------------
(* The item in hand.  As long as no call raised, RUNNING and in hand are   *)
(* the same; this needs that no open item is marked for the TTL index and  *)
(* that a dead process has no tick.  HeldInv is what remains true of the   *)
(* item in hand whatever raised, and is why terminal is final.             *)

TtlInv == \A i \in Items : queue[i].ttl => queue[i].status \in TerminalStatuses \cup {"absent"}

InHandIsRunning == tick.pc \in InHand => queue[cur].status = "running"

RunningIsHeld ==
  proc # "down" => \A i \in Items : queue[i].status = "running" => tick.pc \in InHand /\ i = cur

HandInv ==
  /\ proc = "down" => tick.pc = "idle"
  /\ mishaps.raises = 0 => TtlInv /\ InHandIsRunning /\ RunningIsHeld

LEMMA HandInit == Init => HandInv
<1> SUFFICES ASSUME Init PROVE HandInv
  OBVIOUS
<1>1. tick.pc = "idle" /\ \A i \in Items : queue[i] = NewDoc
  BY IdleFacts DEF Init, ExecutorInit
<1> QED
  BY <1>1 DEF Init, ExecutorInit, HandInv, TtlInv, InHandIsRunning, RunningIsHeld, NewDoc, InHand

LEMMA HandNext == TypeInv /\ TypeInv' /\ HandInv /\ [Next]_coreVars => HandInv'
<1> SUFFICES ASSUME TypeInv, TypeInv', HandInv, [Next]_coreVars PROVE HandInv'
  OBVIOUS
<1> USE DEF cur, OtherItemsSame
<1>a. tick.pc \in InHand => cur \in Items
  BY HandIsBusy DEF TypeInv
<1>b. proc = "down" => tick.pc = "idle"
  BY DEF HandInv
<1>c. ASSUME mishaps.raises = 0 PROVE TtlInv /\ InHandIsRunning /\ RunningIsHeld
  BY <1>c DEF HandInv
<1>d. ASSUME UNCHANGED <<queue, tick, mishaps>>,
             proc' = proc \/ (proc = "up" /\ proc' = "stopping")
      PROVE  HandInv'
  BY <1>d, <1>b, <1>c DEF HandInv, TtlInv, InHandIsRunning, RunningIsHeld
<1>1. CASE UNCHANGED coreVars
  BY <1>1, <1>d DEF coreVars, vars
<1>2. ASSUME NEW i \in Items, Claiming(i) PROVE HandInv'
  <2>1. /\ queue[i].status \in {"approved", "paused"}
        /\ queue'[i].status = "running" /\ queue'[i].ttl = queue[i].ttl
        /\ \A j \in Items : j # i => queue'[j] = queue[j]
        /\ tick.pc \in {"gates", "claim"}
        /\ tick'.pc \in {"claimed", "bounce"} /\ tick'.item = i
        /\ proc' = proc /\ mishaps' = mishaps
    BY <1>2, ClaimStep DEF Claiming
  <2>2. proc # "down"
    BY <1>b, <2>1
  <2>3. ASSUME mishaps.raises = 0 PROVE TtlInv' /\ InHandIsRunning' /\ RunningIsHeld'
    <3>1. TtlInv'
      BY <1>c, <2>1, <2>3 DEF TtlInv, TerminalStatuses
    <3>2. InHandIsRunning'
      BY <2>1 DEF InHandIsRunning
    <3>3. RunningIsHeld'
      BY <1>c, <2>1, <2>2, <2>3 DEF RunningIsHeld, InHand
    <3> QED
      BY <3>1, <3>2, <3>3
  <2> QED
    BY <2>1, <2>2, <2>3 DEF HandInv
<1>3. CASE Releasing
  <2>1. /\ cur \in Items /\ tick.pc \in InHand /\ tick'.pc \notin InHand
        /\ \A j \in Items : j # cur => queue'[j] = queue[j]
        /\ proc' = proc /\ mishaps' = mishaps
    BY <1>3, ReleaseStep DEF Releasing, InHand
  <2>2. queue[cur].status = "running" =>
          queue'[cur].status \in {"approved", "paused"} /\ queue'[cur].ttl = queue[cur].ttl
    BY <1>3, ReleaseStep DEF Releasing
  <2>3. proc # "down"
    BY <1>b, <2>1 DEF InHand
  <2>4. ASSUME mishaps.raises = 0 PROVE TtlInv' /\ InHandIsRunning' /\ RunningIsHeld'
    <3>1. queue[cur].status = "running"
      BY <1>c, <2>1, <2>4 DEF InHandIsRunning
    <3>2. TtlInv'
      BY <1>c, <2>1, <2>2, <2>4, <3>1 DEF TtlInv, TerminalStatuses
    <3>3. RunningIsHeld'
      BY <1>c, <2>1, <2>2, <2>3, <2>4, <3>1 DEF RunningIsHeld
    <3> QED
      BY <2>1, <3>2, <3>3 DEF InHandIsRunning
  <2> QED
    BY <2>1, <2>3, <2>4 DEF HandInv
<1>4. CASE Finalizing
  <2>1. /\ cur \in Items /\ tick.pc \in InHand /\ tick'.pc \notin InHand
        /\ \A j \in Items : j # cur => queue'[j] = queue[j]
        /\ proc' = proc /\ mishaps' = mishaps
    BY <1>4, FinalizeStep DEF Finalizing, InHand
  <2>2. queue[cur].status = "running" => queue'[cur].status \in {"skipped", "done", "failed"}
    BY <1>4, FinalizeStep DEF Finalizing
  <2>3. proc # "down"
    BY <1>b, <2>1 DEF InHand
  <2>4. ASSUME mishaps.raises = 0 PROVE TtlInv' /\ InHandIsRunning' /\ RunningIsHeld'
    <3>1. queue[cur].status = "running"
      BY <1>c, <2>1, <2>4 DEF InHandIsRunning
    <3>2. TtlInv'
      BY <1>c, <2>1, <2>2, <2>4, <3>1 DEF TtlInv, TerminalStatuses
    <3>3. RunningIsHeld'
      BY <1>c, <2>1, <2>2, <2>3, <2>4, <3>1 DEF RunningIsHeld
    <3> QED
      BY <2>1, <3>2, <3>3 DEF InHandIsRunning
  <2> QED
    BY <2>1, <2>3, <2>4 DEF HandInv
<1>5. CASE TickQuiet
  <2>1. queue' = queue /\ proc' = proc /\ mishaps' = mishaps
    BY <1>5, QuietStep
  <2>2. \/ tick' = tick
        \/ tick.pc \notin InHand /\ tick'.pc \notin InHand
        \/ tick.pc \in InHand /\ tick'.pc \in InHand /\ tick'.item = cur
    BY <1>5, QuietStep, HandIsBusy
  <2>3. proc = "down" => tick'.pc = "idle"
    BY <1>5, <1>b
       DEF TickQuiet, BeginTick, TickExpiresCampaign, TickWindowClosed, TickWindowOpen, Ready,
           TickRefused, NothingToClaim, StartStatement, Execute, StatementDone,
           StatementPaused, StatementFails, RetryOffline, CountTerminal, ReadCounters,
           CloseCampaign
  <2> QED
    BY <1>c, <2>1, <2>2, <2>3 DEF HandInv, TtlInv, InHandIsRunning, RunningIsHeld
<1>6. CASE CallRaises
  <2>1. mishaps'.raises # 0
    BY <1>6 DEF CallRaises, TypeInv, TypeOK
  <2>2. proc # "down" /\ proc' = proc
    BY <1>6, <1>b DEF CallRaises
  <2> QED
    BY <2>1, <2>2 DEF HandInv
<1>7. CASE Die
  <2>1. tick'.pc = "idle" /\ proc' = "down" /\ queue' = queue
        /\ mishaps'.raises = mishaps.raises
    BY <1>7, IdleFacts DEF Die, TypeInv, TypeOK
  <2> QED
    BY <1>c, <2>1 DEF HandInv, TtlInv, InHandIsRunning, RunningIsHeld, InHand
<1>8. CASE Restart
  <2>1. tick' = tick /\ tick.pc = "idle" /\ mishaps' = mishaps
    BY <1>8, <1>b DEF Restart, Start, Recover
  <2>2. mishaps.raises = 0 => TtlInv'
    BY <1>8, <1>c, RestartStep DEF TtlInv, TerminalStatuses
  <2>3. RunningIsHeld'
    BY <1>8 DEF Restart, Start, Recover, RunningIsHeld, WithStatus
  <2> QED
    BY <2>1, <2>2, <2>3 DEF HandInv, InHandIsRunning, InHand
<1>9. CASE Around
  BY <1>9, <1>d, AroundStep
<1>10. ASSUME NEW S \in SUBSET Items, NEW d \in {"rejected", "skipped"},
              Approve(S) \/ Dismiss(S, d)
       PROVE  HandInv'
  <2>1. PICK e \in {"approved", "rejected", "skipped"} : queue' = Decide(queue, S, e)
    BY <1>10 DEF Approve, Dismiss
  <2>2. UNCHANGED <<tick, proc, mishaps>>
    BY <1>10 DEF Approve, Dismiss
  <2>3. \A i \in Items : \/ queue'[i] = queue[i]
                         \/ /\ queue[i].status = "awaiting_approval"
                            /\ queue'[i].status = e
                            /\ e = "approved" => queue'[i].ttl = queue[i].ttl
    BY <2>1, DecideStep
  <2>4. mishaps.raises = 0 => TtlInv'
    BY <1>c, <2>3 DEF TtlInv, TerminalStatuses
  <2>5. mishaps.raises = 0 => InHandIsRunning'
    BY <1>a, <1>c, <2>2, <2>3 DEF InHandIsRunning
  <2>6. mishaps.raises = 0 => RunningIsHeld'
    BY <1>c, <2>2, <2>3 DEF RunningIsHeld
  <2> QED
    BY <1>b, <2>2, <2>4, <2>5, <2>6 DEF HandInv
<1>11. ASSUME NEW i \in Items, TtlExpires(i) PROVE HandInv'
  <2>1. /\ queue[i].ttl /\ queue'[i].status = "absent"
        /\ \A j \in Items : j # i => queue'[j] = queue[j]
        /\ UNCHANGED <<tick, proc, mishaps>>
    BY <1>11, TtlStep
  <2>2. ASSUME mishaps.raises = 0 PROVE TtlInv' /\ InHandIsRunning' /\ RunningIsHeld'
    <3>1. queue[i].status # "running"
      BY <1>c, <2>1, <2>2 DEF TtlInv, TerminalStatuses
    <3>2. TtlInv'
      BY <1>c, <2>1, <2>2 DEF TtlInv
    <3>3. InHandIsRunning'
      BY <1>a, <1>c, <2>1, <2>2, <3>1 DEF InHandIsRunning
    <3>4. RunningIsHeld'
      BY <1>c, <2>1, <2>2 DEF RunningIsHeld
    <3> QED
      BY <3>2, <3>3, <3>4
  <2> QED
    BY <1>b, <2>1, <2>2 DEF HandInv
<1> QED
  BY <1>1, <1>2, <1>3, <1>4, <1>5, <1>6, <1>7, <1>8, <1>9, <1>10, <1>11, StepCases

\* While the process lives and no call raised, RUNNING in the database is
\* exactly the item the tick works on.
THEOREM RunningMeansInHand == Spec => []RunningIsInHand
<1>1. TypeInv /\ HandInv /\ [Next]_coreVars => TypeInv' /\ HandInv'
  BY TypeNext, HandNext
<1>2. TypeInv /\ HandInv => RunningIsInHand
  BY HandIsBusy
     DEF HandInv, InHandIsRunning, RunningIsHeld, RunningIsInHand, WithStatus, TypeInv, cur
<1> QED
  BY <1>1, <1>2, TypeInit, HandInit, PTL DEF Spec

-----------------------------------------------------------------------------
(* Terminal is final.                                                      *)

DoneUnderHandler == queue[cur].status = "done" /\ mishaps.raises > 0

HeldInv ==
  /\ tick.pc \in InHand \ {"failed"} => queue[cur].status \in {"running", "absent"}
  /\ tick.pc = "failed" => queue[cur].status \in {"running", "absent"} \/ DoneUnderHandler
  /\ tick.pc \in {"count", "check", "close"} /\ tick.bump = "done" =>
       queue[cur].status \in {"done", "absent"}

LEMMA HeldInit == Init => HeldInv
<1> SUFFICES ASSUME Init PROVE HeldInv
  OBVIOUS
<1>1. tick.pc = "idle"
  BY IdleFacts DEF Init, ExecutorInit
<1> QED
  BY <1>1 DEF HeldInv, InHand

LEMMA HeldNext == TypeInv /\ HandInv /\ HeldInv /\ [Next]_coreVars => HeldInv'
<1> SUFFICES ASSUME TypeInv, HandInv, HeldInv, [Next]_coreVars PROVE HeldInv'
  OBVIOUS
<1> USE DEF cur, OtherItemsSame
<1>a. tick.pc \in InHand \cup {"count", "check", "close"} => cur \in Items
  BY HandIsBusy DEF TypeInv
<1>b. ASSUME tick' = tick, mishaps' = mishaps,
             \A i \in Items : \/ queue'[i].status \in {queue[i].status, "absent"}
                              \/ queue[i].status = "awaiting_approval"
      PROVE  HeldInv'
  BY <1>a, <1>b DEF HeldInv, DoneUnderHandler, InHand
<1>c. ASSUME tick'.pc \notin InHand \cup {"count", "check", "close"} PROVE HeldInv'
  BY <1>c DEF HeldInv, InHand
<1>1. CASE UNCHANGED coreVars
  BY <1>1, <1>b DEF coreVars, vars
<1>2. ASSUME NEW i \in Items, Claiming(i) PROVE HeldInv'
  <2>1. queue'[i].status = "running" /\ tick'.pc \in {"claimed", "bounce"} /\ tick'.item = i
    BY <1>2, ClaimStep DEF Claiming
  <2> QED
    BY <2>1 DEF HeldInv
<1>3. CASE Releasing
  <2>1. tick'.pc \in {"idle", "claim"}
    BY <1>3, ReleaseStep DEF Releasing
  <2> QED
    BY <1>c, <2>1 DEF InHand
<1>4. CASE Finalizing
  <2>1. tick'.pc = "count" /\ tick'.item = cur
        /\ (queue'[cur].status = tick'.bump \/ queue'[cur].status = "absent")
    BY <1>4, FinalizeStep DEF Finalizing
  <2> QED
    BY <2>1 DEF HeldInv, InHand
<1>5. CASE TickQuiet
  <2>1. queue' = queue /\ mishaps' = mishaps
    BY <1>5, QuietStep
  <2>2. CASE tick' = tick
    BY <1>b, <2>1, <2>2
  <2>3. CASE tick' # tick /\ tick.pc \in InHand
    <3>1. tick.pc \in {"claimed", "running", "retry"} /\ tick'.pc \in InHand /\ tick'.item = cur
      BY <1>5, <2>3, IdleFacts, QuietStep, HandIsBusy
         DEF TickQuiet, BeginTick, TickExpiresCampaign, TickWindowClosed, TickWindowOpen,
             Ready, TickRefused, NothingToClaim, StartStatement, Execute, StatementDone,
             StatementPaused, StatementFails, RetryOffline, CountTerminal, ReadCounters,
             CloseCampaign, InHand
    <3> QED
      BY <2>1, <3>1 DEF HeldInv, InHand
  <2>4. CASE tick' # tick /\ tick.pc \notin InHand
    BY <1>5, <1>c, <2>1, <2>4, QuietStep, HandIsBusy DEF HeldInv, InHand
  <2> QED
    BY <2>2, <2>3, <2>4
<1>6. CASE CallRaises
  <2>1. CASE InTry
    <3>1. tick'.pc = "failed" /\ tick'.item = cur /\ queue' = queue
      BY <1>6, <2>1 DEF CallRaises, TypeInv, TypeOK, Tick
    <3>2. mishaps'.raises > 0
      BY <1>6 DEF CallRaises, TypeInv, TypeOK
    <3>3. queue[cur].status \in {"running", "absent", "done"}
      BY <2>1 DEF InTry, HeldInv, InHand
    <3> QED
      BY <3>1, <3>2, <3>3 DEF HeldInv, DoneUnderHandler
  <2>2. CASE ~InTry
    BY <1>6, <1>c, <2>2, IdleFacts DEF CallRaises, InHand
  <2> QED
    BY <2>1, <2>2
<1>7. CASE Die
  BY <1>7, <1>c, IdleFacts DEF Die, InHand
<1>8. CASE Restart
  <2>1. tick' = tick /\ tick.pc = "idle"
    BY <1>8 DEF Restart, Start, Recover, HandInv
  <2> QED
    BY <1>c, <2>1 DEF InHand
<1>9. CASE Around
  BY <1>9, <1>b, AroundStep
<1>10. ASSUME NEW S \in SUBSET Items, NEW d \in {"rejected", "skipped"},
              Approve(S) \/ Dismiss(S, d)
       PROVE  HeldInv'
  <2>1. PICK e \in {"approved", "rejected", "skipped"} : queue' = Decide(queue, S, e)
    BY <1>10 DEF Approve, Dismiss
  <2>2. UNCHANGED <<tick, mishaps>>
    BY <1>10 DEF Approve, Dismiss
  <2> QED
    BY <1>b, <2>1, <2>2, DecideStep
<1>11. ASSUME NEW i \in Items, TtlExpires(i) PROVE HeldInv'
  <2>1. /\ queue'[i].status = "absent" /\ UNCHANGED <<tick, mishaps>>
        /\ \A j \in Items : j # i => queue'[j] = queue[j]
    BY <1>11, TtlStep
  <2> QED
    BY <1>b, <2>1
<1> QED
  BY <1>1, <1>2, <1>3, <1>4, <1>5, <1>6, <1>7, <1>8, <1>9, <1>10, <1>11, StepCases

\* What TerminalIsFinal asks of a step, of one item.
EndKept(i) ==
  queue[i].status \in TerminalStatuses =>
    \/ queue'[i].status \in {queue[i].status, "absent"}
    \/ queue[i].status = "done" /\ mishaps.raises > 0 /\ tick.pc = "failed" /\ i = cur

LEMMA TerminalStep ==
  ASSUME TypeInv, HandInv, HeldInv, Next, NEW i \in Items
  PROVE  EndKept(i)
<1> USE DEF EndKept, OtherItemsSame, cur
<1>1. CASE queue' = queue
  BY <1>1
<1>2. ASSUME NEW j \in Items, Claiming(j) PROVE EndKept(i)
  <2>1. queue[j].status \in {"approved", "paused"} /\ (i # j => queue'[i] = queue[i])
    BY <1>2, ClaimStep DEF Claiming
  <2> QED
    BY <2>1 DEF TerminalStatuses
<1>3. CASE Releasing \/ Finalizing
  <2>1. tick.pc \in InHand /\ (i # cur => queue'[i] = queue[i])
        /\ (queue[cur].status = "absent" => queue'[cur] = queue[cur])
    BY <1>3, ReleaseStep, FinalizeStep DEF Releasing, Finalizing
  <2>2. CASE i # cur
    BY <2>1, <2>2
  <2>3. CASE i = cur
    BY <2>1, <2>3 DEF HeldInv, DoneUnderHandler, TerminalStatuses
  <2> QED
    BY <2>2, <2>3
<1>4. CASE Restart
  BY <1>4, RestartStep DEF TerminalStatuses
<1>5. ASSUME NEW S \in SUBSET Items, NEW d \in {"rejected", "skipped"},
             Approve(S) \/ Dismiss(S, d)
      PROVE  EndKept(i)
  BY <1>5, DecideStep DEF Approve, Dismiss, TerminalStatuses
<1>6. ASSUME NEW j \in Items, TtlExpires(j) PROVE EndKept(i)
  BY <1>6, TtlStep
<1>7. TickQuiet \/ CallRaises \/ Die \/ Around => queue' = queue
  BY QuietStep, AroundStep DEF CallRaises, Die
<1> QED
  BY <1>1, <1>2, <1>3, <1>4, <1>5, <1>6, <1>7, StepCases

\* No step leaves a terminal status, but for the write-back that raised after
\* the item was marked DONE.
THEOREM TerminalStays == Spec => TerminalIsFinal
<1>1. TypeInv /\ HandInv /\ HeldInv /\ [Next]_coreVars => TypeInv' /\ HandInv' /\ HeldInv'
  BY TypeNext, HandNext, HeldNext
<1>2. TypeInv /\ HandInv /\ HeldInv /\ [Next]_coreVars =>
        [\A i \in WithStatus(queue, TerminalStatuses) :
           \/ queue'[i].status \in {queue[i].status, "absent"}
           \/ /\ queue[i].status = "done" /\ mishaps.raises > 0
              /\ tick.pc = "failed" /\ i = cur]_queue
  <2> SUFFICES ASSUME TypeInv, HandInv, HeldInv, [Next]_coreVars, queue' # queue,
                      NEW i \in WithStatus(queue, TerminalStatuses)
               PROVE  \/ queue'[i].status \in {queue[i].status, "absent"}
                      \/ /\ queue[i].status = "done" /\ mishaps.raises > 0
                         /\ tick.pc = "failed" /\ i = cur
    OBVIOUS
  <2>1. Next
    BY DEF coreVars, vars
  <2>2. i \in Items /\ queue[i].status \in TerminalStatuses
    BY DEF WithStatus
  <2> QED
    BY <2>1, <2>2, TerminalStep DEF EndKept
<1> QED
  BY <1>1, <1>2, TypeInit, HandInit, HeldInit, PTL DEF Spec, TerminalIsFinal

-----------------------------------------------------------------------------
(* A statement that ran to its end is not run again.  While nothing died   *)
(* and no call raised, a finished item that is not the one in hand is      *)
(* DONE, and only RUNNING, awaiting and approved items are moved.          *)

LEMMA QuietFinished ==
  ASSUME TypeInv, TickQuiet
  PROVE  \/ finished' = finished /\ tick' = tick
         \/ finished' = finished /\ tick.pc # "succeeded"
         \/ tick.pc \in InHand /\ finished' = finished \cup {cur}
            /\ tick'.pc = "succeeded" /\ tick'.item = cur
<1> USE DEF cur
<1>0. tick \in Tick
  BY DEF TypeInv, TypeOK
<1>1. CASE BeginTick \/ NothingToClaim
  BY <1>1 DEF BeginTick, NothingToClaim, TickExpiresCampaign, TickWindowClosed,
              TickWindowOpen, TickRefused, Ready
<1>2. CASE \E res \in BOOLEAN : StartStatement(res)
  BY <1>2 DEF StartStatement
<1>3. CASE StatementDone
  BY <1>0, <1>3 DEF StatementDone, StatementEnds, InHand, Tick
<1>4. CASE StatementPaused \/ StatementFails \/ RetryOffline
  BY <1>4 DEF StatementPaused, StatementFails, RetryOffline, StatementEnds
<1>5. CASE CountTerminal \/ ReadCounters \/ CloseCampaign
  BY <1>5 DEF CountTerminal, ReadCounters, CloseCampaign
<1> QED
  BY <1>1, <1>2, <1>3, <1>4, <1>5 DEF TickQuiet, Execute

LEMMA RepeatNext ==
  TypeInv /\ HandInv /\ NotRepeated /\ [Next]_coreVars => NotRepeated'
<1> SUFFICES ASSUME TypeInv, HandInv, NotRepeated, [Next]_coreVars, mishaps' = NoMishap,
                    NEW i \in Items, i \in finished'
             PROVE  \/ queue'[i].status \in {"done", "absent"}
                    \/ tick'.pc = "succeeded" /\ tick'.item = i
  <2>1. ASSUME TypeInv, [Next]_coreVars PROVE finished' \subseteq Items
    BY <2>1, TypeNext DEF TypeInv, TypeOK
  <2> QED
    BY <2>1 DEF NotRepeated, cur
<1> DEFINE Rests == \/ queue'[i].status \in {"done", "absent"}
                    \/ tick'.pc = "succeeded" /\ tick'.item = i
<1> USE DEF OtherItemsSame, cur
<1>a. mishaps = NoMishap =>
        /\ i \in finished => \/ queue[i].status \in {"done", "absent"}
                             \/ tick.pc = "succeeded" /\ cur = i
        /\ tick.pc \in InHand => queue[cur].status = "running"
  BY DEF NotRepeated, HandInv, InHandIsRunning, NoMishap
<1>b. ASSUME UNCHANGED <<queue, tick, mishaps, finished>> PROVE Rests
  BY <1>a, <1>b
<1>1. CASE UNCHANGED coreVars
  BY <1>1, <1>b DEF coreVars, vars
<1>2. ASSUME NEW j \in Items, Claiming(j) PROVE Rests
  <2>1. /\ queue[j].status \in {"approved", "paused"}
        /\ \A k \in Items : k # j => queue'[k] = queue[k]
        /\ tick.pc \in {"gates", "claim"}
        /\ UNCHANGED <<mishaps, finished>>
    BY <1>2, ClaimStep DEF Claiming
  <2> QED
    BY <1>a, <2>1
<1>3. CASE Releasing
  <2>1. /\ cur \in Items /\ tick.pc \in InHand /\ tick.pc # "succeeded"
        /\ \A k \in Items : k # cur => queue'[k] = queue[k]
        /\ UNCHANGED <<mishaps, finished>>
    BY <1>3, ReleaseStep
       DEF Releasing, BounceDeferred, Defer, ReleasePaused, RetryLater
  <2> QED
    BY <1>a, <2>1
<1>4. CASE Finalizing
  <2>1. /\ cur \in Items /\ tick.pc \in InHand
        /\ \A k \in Items : k # cur => queue'[k] = queue[k]
        /\ UNCHANGED <<mishaps, finished>>
        /\ queue[cur].status # "absent" => queue'[cur].status = tick'.bump
    BY <1>4, FinalizeStep DEF Finalizing
  <2>2. tick.pc = "succeeded" => tick'.bump = "done"
    BY <1>4 DEF Finalizing, PolicyDisabled, DryRunDone, FinalizeDone, GiveUp, TypeInv,
                TypeOK, Tick
  <2> QED
    BY <1>a, <2>1, <2>2
<1>5. CASE TickQuiet
  <2>1. queue' = queue /\ mishaps' = mishaps
    BY <1>5, QuietStep
  <2> QED
    BY <1>5, <1>a, <2>1, QuietFinished
<1>6. CASE CallRaises \/ Die
  <2>1. mishaps \in [deaths : Nat, raises : Nat]
    BY DEF TypeInv, TypeOK
  <2>2. mishaps'.raises = mishaps.raises + 1 \/ mishaps'.deaths = mishaps.deaths + 1
    BY <1>6, <2>1 DEF CallRaises, Die
  <2> QED
    BY <2>1, <2>2 DEF NoMishap
<1>7. CASE Restart
  <2>1. UNCHANGED <<tick, mishaps, finished>> /\ tick.pc = "idle"
    BY <1>7 DEF Restart, Start, Recover, HandInv
  <2> QED
    BY <1>7, <1>a, <2>1, RestartStep
<1>8. CASE Around
  BY <1>8, <1>b, AroundStep
<1>9. ASSUME NEW S \in SUBSET Items, NEW d \in {"rejected", "skipped"},
             Approve(S) \/ Dismiss(S, d)
      PROVE  Rests
  <2>1. UNCHANGED <<tick, mishaps, finished>>
    BY <1>9 DEF Approve, Dismiss
  <2>2. queue'[i] = queue[i] \/ queue[i].status = "awaiting_approval"
    BY <1>9, DecideStep DEF Approve, Dismiss
  <2> QED
    BY <1>a, <2>1, <2>2
<1>10. ASSUME NEW j \in Items, TtlExpires(j) PROVE Rests
  <2>1. /\ queue'[j].status = "absent"
        /\ \A k \in Items : k # j => queue'[k] = queue[k]
        /\ UNCHANGED <<tick, mishaps, finished>>
    BY <1>10, TtlStep
  <2> QED
    BY <1>a, <2>1
<1> QED
  BY <1>1, <1>2, <1>3, <1>4, <1>5, <1>6, <1>7, <1>8, <1>9, <1>10, StepCases

\* Without a death and without a failing call no finished statement is ever
\* claimed, released or approved again.
THEOREM FinishedStaysFinished == Spec => []NotRepeated
<1>1. Init => NotRepeated
  BY DEF Init, ExecutorInit, NotRepeated
<1>2. TypeInv /\ HandInv /\ NotRepeated /\ [Next]_coreVars
        => TypeInv' /\ HandInv' /\ NotRepeated'
  BY TypeNext, HandNext, RepeatNext
<1> QED
  BY <1>1, <1>2, TypeInit, HandInit, PTL DEF Spec

-----------------------------------------------------------------------------
(* A campaign the counters closed has no item left to do.  Every item is   *)
(* counted at most once: what has been counted, what is still open and the *)
(* item between its write and its count together never exceed total_items. *)

Open == WithStatus(queue, OpenStatuses)

OnTheWayToCount == IF tick.pc = "count" THEN 1 ELSE 0

CountInv ==
  mishaps.raises = 0 =>
    /\ TerminalCount(campaign) + Cardinality(Open) + OnTheWayToCount <= campaign.total
    /\ campaign.status = "completed" => TerminalCount(campaign) >= campaign.total
    /\ tick.pc = "close" => TerminalCount(campaign) >= campaign.total

\* One count more, and nothing else of the counters.
LEMMA CountedOne ==
  ASSUME NEW c \in Campaign, NEW bump \in Bumps
  PROVE  /\ TerminalCount(Counted(c, bump)) = TerminalCount(c) + 1
         /\ Counted(c, bump).total = c.total
         /\ Counted(c, bump).status = c.status
<1> USE DEF TerminalCount, Campaign
<1>1. CASE bump = "done"
  BY <1>1 DEF Counted
<1>2. CASE bump = "failed"
  BY <1>2 DEF Counted
<1>3. CASE bump = "skipped"
  BY <1>3 DEF Counted
<1> QED
  BY <1>1, <1>2, <1>3 DEF Bumps

\* What a step may do to the counters, unless it counts.
CountersKept ==
  /\ TerminalCount(campaign') = TerminalCount(campaign)
  /\ campaign'.total = campaign.total
  /\ campaign'.status = "completed" =>
       campaign.status = "completed" \/ tick.pc = "close"

LEMMA ClosedKeeps ==
  ASSUME NEW c \in Campaign
  PROVE  /\ TerminalCount(Closed(c)) = TerminalCount(c)
         /\ Closed(c).total = c.total
BY DEF Closed, TerminalCount, Campaign

LEMMA CountersStep ==
  ASSUME TypeInv, Next, ~CountTerminal
  PROVE  CountersKept
<1>0. campaign \in Campaign
  BY DEF TypeInv, TypeOK
<1> USE DEF CountersKept
<1>1. CASE campaign' = campaign
  BY <1>1
<1>2. ASSUME NEW s \in CampaignStatus, s # "completed",
             campaign' = [campaign EXCEPT !.status = s]
      PROVE  CountersKept
  BY <1>0, <1>2 DEF TerminalCount, Campaign
<1>3. CASE tick.pc = "close" /\ campaign' = Closed(campaign)
  BY <1>0, <1>3, ClosedKeeps
<1>4. CASE TickExpiresCampaign
  BY <1>2, <1>4 DEF TickExpiresCampaign, CampaignStatus
<1>5. CASE CancelWrite
  BY <1>2, <1>5 DEF CancelWrite, CampaignStatus
<1>6. CASE Restart
  BY <1>1, <1>2, <1>6 DEF Restart, Start, Recover, ResetStuck, CampaignStatus
<1>7. CASE EndDatePasses
  BY <1>0, <1>7 DEF EndDatePasses, TerminalCount, Campaign
<1>8. CASE CloseCampaign
  BY <1>3, <1>8 DEF CloseCampaign
<1>9. CASE CallRaises
  BY <1>1, <1>3, <1>9 DEF CallRaises
<1>10. CASE TickQuiet /\ ~TickExpiresCampaign /\ ~CloseCampaign
  BY <1>1, <1>10 DEF TickQuiet, BeginTick, TickWindowClosed, TickWindowOpen, TickRefused,
       NothingToClaim, StartStatement, Execute, StatementDone, StatementPaused,
       StatementFails, RetryOffline, StatementEnds, ReadCounters
<1>11. CASE Around /\ ~CancelWrite /\ ~EndDatePasses
  BY <1>1, <1>11 DEF Around, RequestStop, Environment, WindowPasses, AbortPaused, CancelRead,
       vars
<1>12. ASSUME NEW i \in Items, Claiming(i) \/ TtlExpires(i) PROVE campaign' = campaign
  BY <1>12, ClaimStep, TtlStep DEF Claiming
<1>13. CASE Releasing \/ Finalizing
  BY <1>1, <1>13 DEF Releasing, Finalizing, BounceDeferred, Defer, ReleasePaused,
       RetryLater, PolicyDisabled, DryRunDone, FinalizeDone, GiveUp
<1>14. ASSUME NEW S \in SUBSET Items, NEW d \in {"rejected", "skipped"},
              Approve(S) \/ Dismiss(S, d)
       PROVE  campaign' = campaign
  BY <1>14 DEF Approve, Dismiss
<1>15. CASE Die
  BY <1>1, <1>15 DEF Die
<1> QED
  BY <1>1, <1>4, <1>5, <1>6, <1>7, <1>8, <1>9, <1>10, <1>11, <1>12, <1>13, <1>14, <1>15,
     StepCases

LEMMA OpenIsFinite == Open \subseteq Items /\ IsFiniteSet(Open) /\ Cardinality(Open) \in Nat
<1>1. Open \subseteq Items
  BY DEF Open, WithStatus
<1> QED
  BY <1>1, FS_Subset, FS_CardinalityType, ItemsAssumption

\* While no call raised no step opens an item: what a tick puts back was
\* RUNNING, and a terminal item is never put back.
LEMMA OpenShrinks ==
  ASSUME TypeInv, HandInv, Next, mishaps.raises = 0
  PROVE  Open' \subseteq Open
<1> SUFFICES ASSUME NEW i \in Items, queue'[i].status \in OpenStatuses
             PROVE  queue[i].status \in OpenStatuses
  BY DEF Open, WithStatus
<1> USE DEF cur, OtherItemsSame
<1>a. /\ tick.pc \in InHand => queue[cur].status = "running"
      /\ \A j \in Items : queue[j].ttl => queue[j].status \in TerminalStatuses \cup {"absent"}
  BY DEF HandInv, InHandIsRunning, TtlInv
<1>1. CASE queue' = queue
  BY <1>1
<1>2. ASSUME NEW j \in Items, Claiming(j) PROVE queue[i].status \in OpenStatuses
  <2>1. queue[j].status \in {"approved", "paused"} /\ (i # j => queue'[i] = queue[i])
    BY <1>2, ClaimStep DEF Claiming
  <2> QED
    BY <2>1 DEF OpenStatuses
<1>3. CASE Releasing \/ Finalizing
  <2>1. tick.pc \in InHand /\ (i # cur => queue'[i] = queue[i])
    BY <1>3, ReleaseStep, FinalizeStep DEF Releasing, Finalizing
  <2> QED
    BY <1>a, <2>1 DEF OpenStatuses
<1>4. CASE Restart
  BY <1>4, RestartStep DEF OpenStatuses
<1>5. ASSUME NEW S \in SUBSET Items, NEW d \in {"rejected", "skipped"},
             Approve(S) \/ Dismiss(S, d)
      PROVE  queue[i].status \in OpenStatuses
  BY <1>5, DecideStep DEF Approve, Dismiss, OpenStatuses
<1>6. ASSUME NEW j \in Items, TtlExpires(j) PROVE queue[i].status \in OpenStatuses
  BY <1>6, TtlStep DEF OpenStatuses
<1>7. TickQuiet \/ CallRaises \/ Die \/ Around => queue' = queue
  BY QuietStep, AroundStep DEF CallRaises, Die
<1> QED
  BY <1>1, <1>2, <1>3, <1>4, <1>5, <1>6, <1>7, StepCases

LEMMA CountNext ==
  TypeInv /\ TypeInv' /\ HandInv /\ CountInv /\ [Next]_coreVars => CountInv'
<1> SUFFICES ASSUME TypeInv, TypeInv', HandInv, CountInv, [Next]_coreVars,
                    mishaps'.raises = 0
             PROVE  /\ TerminalCount(campaign') + Cardinality(Open') + OnTheWayToCount'
                         <= campaign'.total
                    /\ campaign'.status = "completed" \/ tick'.pc = "close" =>
                         TerminalCount(campaign') >= campaign'.total
  BY DEF CountInv, TerminalCount
<1> DEFINE Kept == /\ TerminalCount(campaign') + Cardinality(Open') + OnTheWayToCount'
                         <= campaign'.total
                   /\ campaign'.status = "completed" \/ tick'.pc = "close" =>
                         TerminalCount(campaign') >= campaign'.total
<1> USE DEF cur, OtherItemsSame
<1>a. /\ campaign \in Campaign /\ campaign' \in Campaign /\ mishaps.raises \in Nat
      /\ TerminalCount(campaign) \in Nat /\ TerminalCount(campaign') \in Nat
      /\ campaign.total \in Nat /\ campaign'.total \in Nat
      /\ tick \in Tick /\ tick' \in Tick
  BY DEF TypeInv, TypeOK, Campaign, TerminalCount
<1>b. IsFiniteSet(Open) /\ Cardinality(Open) \in Nat /\ IsFiniteSet(Open')
      /\ Cardinality(Open') \in Nat
  <2>1. Open' \subseteq Items
    BY DEF Open, WithStatus
  <2> QED
    BY <2>1, OpenIsFinite, FS_Subset, FS_CardinalityType, ItemsAssumption
<1>c. ASSUME Next, mishaps'.raises = mishaps.raises
      PROVE  Cardinality(Open') <= Cardinality(Open)
  BY <1>b, <1>c, OpenShrinks, FS_Subset
<1>d. OnTheWayToCount \in 0..1 /\ OnTheWayToCount' \in 0..1
  BY DEF OnTheWayToCount
<1>1. CASE UNCHANGED coreVars
  <2>1. UNCHANGED <<campaign, tick, mishaps>> /\ Open' = Open /\ OnTheWayToCount' = OnTheWayToCount
    BY <1>1 DEF coreVars, vars, Open, WithStatus, OnTheWayToCount
  <2> QED
    BY <2>1 DEF CountInv
<1>2. CASE Finalizing /\ Next
  <2>1. /\ cur \in Items /\ tick.pc \in InHand /\ tick'.pc = "count"
        /\ \A k \in Items : k # cur => queue'[k] = queue[k]
        /\ mishaps' = mishaps
        /\ queue[cur].status # "absent" => queue'[cur].status \in {"skipped", "done", "failed"}
    BY <1>2, FinalizeStep DEF Finalizing
  <2>2. queue[cur].status = "running"
    BY <2>1 DEF HandInv, InHandIsRunning
  <2>3. cur \in Open /\ Open' \subseteq Open \ {cur}
    BY <2>1, <2>2 DEF Open, WithStatus, OpenStatuses
  <2>4. Cardinality(Open \ {cur}) = Cardinality(Open) - 1 /\ IsFiniteSet(Open \ {cur})
    BY <1>b, <2>3, FS_RemoveElement
  <2>5. Cardinality(Open') <= Cardinality(Open) - 1
    BY <2>3, <2>4, FS_Subset
  <2>6. OnTheWayToCount = 0 /\ OnTheWayToCount' = 1
    BY <2>1 DEF OnTheWayToCount, InHand
  <2>7. CountersKept
    BY <1>2, <2>1, CountersStep DEF CountTerminal, InHand
  <2> QED
    BY <1>a, <1>b, <2>1, <2>5, <2>6, <2>7 DEF CountInv, CountersKept
<1>3. CASE CountTerminal
  <2>1. /\ tick.pc = "count" /\ tick'.pc = "check" /\ queue' = queue /\ mishaps' = mishaps
        /\ campaign' = Counted(campaign, tick.bump) /\ tick.bump \in Bumps
    BY <1>3, <1>a DEF CountTerminal, Tick
  <2>2. /\ TerminalCount(campaign') = TerminalCount(campaign) + 1
        /\ campaign'.total = campaign.total /\ campaign'.status = campaign.status
    BY <1>a, <2>1, CountedOne
  <2>3. Open' = Open /\ OnTheWayToCount = 1 /\ OnTheWayToCount' = 0
    BY <2>1 DEF Open, WithStatus, OnTheWayToCount
  <2> QED
    BY <1>a, <1>b, <2>1, <2>2, <2>3 DEF CountInv
<1>4. CASE CallRaises
  BY <1>4, <1>a DEF CallRaises, TypeInv, TypeOK
<1>5. CASE Next /\ ~Finalizing /\ ~CountTerminal /\ ~CallRaises
  <2>1. /\ tick'.pc = "count" => tick.pc = "count"
        /\ tick'.pc = "close" => tick.pc = "close" \/ (ReadCounters /\ AllOver(campaign))
        /\ mishaps'.raises = mishaps.raises
    <3>1. ASSUME NEW j \in Items, Claiming(j)
          PROVE  tick'.pc \notin {"count", "close"} /\ mishaps' = mishaps
      BY <3>1, ClaimStep DEF Claiming
    <3>2. CASE Releasing
      BY <3>2, ReleaseStep DEF Releasing
    <3>3. CASE TickQuiet
      <4>1. mishaps' = mishaps
        BY <3>3, QuietStep
      <4>2. /\ tick'.pc = "count" => tick.pc = "count"
            /\ tick'.pc = "close" => tick.pc = "close" \/ (ReadCounters /\ AllOver(campaign))
        BY <1>a, <1>5, <3>3, IdleFacts
           DEF TickQuiet, BeginTick, TickExpiresCampaign, TickWindowClosed, TickWindowOpen,
               TickRefused, NothingToClaim, StartStatement, Execute, StatementDone,
               StatementPaused, StatementFails, RetryOffline, StatementEnds, ReadCounters,
               CloseCampaign, Looping, Idle, Tick
      <4> QED
        BY <4>1, <4>2
    <3>4. CASE Die
      BY <3>4, IdleFacts DEF Die, TypeInv, TypeOK
    <3>5. CASE Restart
      BY <3>5 DEF Restart, Start, Recover
    <3>6. CASE Around
      BY <3>6, AroundStep
    <3>7. ASSUME NEW S \in SUBSET Items, NEW d \in {"rejected", "skipped"},
                 Approve(S) \/ Dismiss(S, d)
          PROVE  UNCHANGED <<tick, mishaps>>
      BY <3>7 DEF Approve, Dismiss
    <3>8. ASSUME NEW j \in Items, TtlExpires(j) PROVE UNCHANGED <<tick, mishaps>>
      BY <3>8, TtlStep
    <3> QED
      BY <1>5, <3>1, <3>2, <3>3, <3>4, <3>5, <3>6, <3>7, <3>8, StepCases
  <2>2. OnTheWayToCount' <= OnTheWayToCount
    BY <2>1 DEF OnTheWayToCount
  <2>3. CountersKept
    BY <1>5, CountersStep
  <2>4. Cardinality(Open') <= Cardinality(Open)
    BY <1>5, <1>c, <2>1
  <2>5. ReadCounters /\ AllOver(campaign) => TerminalCount(campaign) >= campaign.total
    BY DEF AllOver
  <2>6. mishaps.raises = 0 /\ Kept
    BY <1>a, <1>b, <1>d, <2>1, <2>2, <2>3, <2>4, <2>5 DEF CountInv, CountersKept
  <2> QED
    BY <2>6
<1> QED
  BY <1>1, <1>2, <1>3, <1>4, <1>5

LEMMA CountInit == Init => CountInv
<1> SUFFICES ASSUME Init PROVE CountInv
  OBVIOUS
<1>1. TerminalCount(campaign) = 0 /\ campaign.total = Cardinality(Items)
      /\ campaign.status = "active" /\ tick.pc = "idle"
  BY IdleFacts DEF Init, ExecutorInit, TerminalCount
<1>2. Cardinality(Open) <= Cardinality(Items) /\ Cardinality(Items) \in Nat
      /\ Cardinality(Open) \in Nat
  BY OpenIsFinite, FS_Subset, FS_CardinalityType, ItemsAssumption
<1> QED
  BY <1>1, <1>2 DEF CountInv, OnTheWayToCount

\* When increment_stats closes a campaign no item of it is open: no item is
\* counted twice, and none before it is written.
THEOREM ClosedMeansOver == Spec => []CompletedIsOver
<1>1. TypeInv /\ HandInv /\ CountInv /\ [Next]_coreVars => TypeInv' /\ HandInv' /\ CountInv'
  BY TypeNext, HandNext, CountNext
<1>2. TypeInv /\ CountInv => CompletedIsOver
  <2> SUFFICES ASSUME TypeInv, CountInv, mishaps.raises = 0, campaign.status = "completed"
               PROVE  Open = {}
    BY DEF CompletedIsOver, Open
  <2>1. TerminalCount(campaign) \in Nat /\ campaign.total \in Nat /\ OnTheWayToCount \in Nat
    BY DEF TypeInv, TypeOK, Campaign, TerminalCount, OnTheWayToCount
  <2>2. Cardinality(Open) = 0
    BY <2>1, OpenIsFinite DEF CountInv
  <2> QED
    BY <2>2, OpenIsFinite, FS_EmptySet
<1> QED
  BY <1>1, <1>2, TypeInit, HandInit, CountInit, PTL DEF Spec
-----------------------------------------------------------------------------
(* Maintenance implements ItemLife: each group of steps of StepCases is a  *)
(* step of ItemLife or leaves its variables alone.  The mapping first.     *)

Stage == [i \in Items |-> StageOf[queue[i].status]]

LEMMA StageFacts ==
  ASSUME NEW s \in Status
  PROVE  /\ StageOf[s] = "open" <=> s \in {"awaiting_approval", "approved"}
         /\ StageOf[s] = "worked_on" <=> s = "running"
         /\ StageOf[s] = "parked" <=> s = "paused"
         /\ StageOf[s] = "over" <=> s \in TerminalStatuses
         /\ StageOf[s] = "gone" <=> s = "absent"
BY DEF StageOf, Status, OpenStatuses, TerminalStatuses

LEMMA StageOfItem ==
  ASSUME TypeInv, NEW i \in Items
  PROVE  /\ queue[i].status \in Status
         /\ Stage[i] = StageOf[queue[i].status]
BY DEF TypeInv, TypeOK, Queue, Doc, Stage

\* A step that changes one document moves one item.
LEMMA OneMoves ==
  ASSUME TypeInv, TypeInv', NEW i \in Items, OtherItemsSame(i)
  PROVE  Stage' = [Stage EXCEPT ![i] = StageOf[queue'[i].status]]
BY DEF Stage, OtherItemsSame

LEMMA SameStage ==
  ASSUME queue' = queue
  PROVE  Stage' = Stage
BY DEF Stage

-----------------------------------------------------------------------------
(* An item is granted once: one that awaits its approval was not.          *)

UndecidedInv ==
  \A i \in Items : queue[i].status = "awaiting_approval" => i \notin granted /\ ~queue[i].ttl

LEMMA UndecidedNext ==
  TypeInv /\ UndecidedInv /\ [Next]_coreVars => UndecidedInv'
<1> SUFFICES ASSUME TypeInv, UndecidedInv, [Next]_coreVars, NEW i \in Items,
                    queue'[i].status = "awaiting_approval"
             PROVE  i \notin granted' /\ ~queue'[i].ttl /\ ~queue'[i].ttl
  BY DEF UndecidedInv
<1> USE DEF UndecidedInv, OtherItemsSame
<1>1. CASE queue' = queue /\ granted' = granted
  BY <1>1
<1>2. ASSUME NEW j \in Items, Claiming(j), granted' = granted PROVE i \notin granted' /\ ~queue'[i].ttl
  BY <1>2, ClaimStep DEF Claiming
<1>3. CASE Releasing /\ granted' = granted
  <2>1. i # cur \/ queue'[cur] = queue[cur] \/ queue'[cur].status \in {"paused", "approved"}
    BY <1>3, ReleaseStep DEF Releasing
  <2>2. i # cur => queue'[i] = queue[i]
    BY <1>3, ReleaseStep DEF Releasing
  <2> QED
    BY <1>3, <2>1, <2>2
<1>4. CASE Finalizing /\ granted' = granted
  <2>1. i # cur \/ queue'[cur] = queue[cur]
        \/ queue'[cur].status \in {"skipped", "done", "failed"}
    BY <1>4, FinalizeStep DEF Finalizing
  <2>2. i # cur => queue'[i] = queue[i]
    BY <1>4, FinalizeStep DEF Finalizing
  <2> QED
    BY <1>4, <2>1, <2>2
<1>5. CASE Restart /\ granted' = granted
  BY <1>5, RestartStep
<1>6. ASSUME NEW S \in SUBSET Items, Approve(S) PROVE i \notin granted' /\ ~queue'[i].ttl
  <2>1. queue[i] \in Doc /\ queue \in Queue /\ "approved" \in Status
    BY DEF TypeInv, TypeOK, Queue, Status, OpenStatuses
  <2>2. queue'[i] = IF i \in S /\ queue[i].status = "awaiting_approval"
                    THEN Moved(queue[i], "approved") ELSE queue[i]
    BY <1>6, <2>1, BulkFacts DEF Approve, Decide
  <2>3. Moved(queue[i], "approved").status = "approved"
    BY <2>1, MovedFacts
  <2>4. i \notin S /\ i \notin granted /\ queue'[i] = queue[i]
    BY <2>2, <2>3
  <2> QED
    BY <1>6, <2>4 DEF Approve
<1>7. ASSUME NEW S \in SUBSET Items, NEW d \in {"rejected", "skipped"}, Dismiss(S, d)
      PROVE  i \notin granted' /\ ~queue'[i].ttl
  <2>1. queue'[i] = queue[i] \/ queue'[i].status = d
    BY <1>7, DecideStep DEF Dismiss
  <2> QED
    BY <1>7, <2>1 DEF Dismiss
<1>8. ASSUME NEW j \in Items, TtlExpires(j), granted' = granted PROVE i \notin granted' /\ ~queue'[i].ttl
  BY <1>8, TtlStep
<1>9. TickQuiet \/ CallRaises \/ Die \/ Around => queue' = queue
  BY QuietStep, AroundStep DEF CallRaises, Die
<1>10. CASE UNCHANGED coreVars
  BY <1>10, <1>1 DEF coreVars, vars
<1> QED
  BY <1>1, <1>2, <1>3, <1>4, <1>5, <1>6, <1>7, <1>8, <1>9, <1>10, StepCases
LEMMA UndecidedInit == Init => UndecidedInv
BY DEF Init, UndecidedInv, NewDoc

-----------------------------------------------------------------------------
(* The actions of ItemLife, said of Stage.                                 *)

LifeSame == granted' = granted /\ mishaps' = mishaps

LEMMA IsGrant ==
  ASSUME NEW S \in SUBSET Items, S # {}, \A i \in S : Stage[i] = "open" /\ i \notin granted,
         granted' = granted \cup S, Stage' = Stage, mishaps' = mishaps
  PROVE  Life!Next
<1>1. Life!Grant(S)
  BY DEF Life!Grant, Stage
<1>2. S \in SUBSET Life!Undecided
  BY DEF Life!Undecided, Life!At, Stage
<1> QED
  BY <1>1, <1>2 DEF Life!Next

LEMMA IsRefuse ==
  ASSUME NEW S \in SUBSET Items, S # {}, \A i \in S : Stage[i] = "open" /\ i \notin granted,
         Stage' = [i \in Items |-> IF i \in S THEN "over" ELSE Stage[i]], LifeSame
  PROVE  Life!Next
<1>1. Life!Refuse(S)
  BY DEF Life!Refuse, Stage, LifeSame
<1>2. S \in SUBSET Life!Undecided
  BY DEF Life!Undecided, Life!At, Stage
<1> QED
  BY <1>1, <1>2 DEF Life!Next

LEMMA IsBegin ==
  ASSUME NEW i \in Items, i \in granted, Stage[i] \in {"open", "parked"},
         (\A j \in Items : Stage[j] # "worked_on") \/ mishaps.raises > 0,
         Stage' = [Stage EXCEPT ![i] = "worked_on"], LifeSame
  PROVE  Life!Next
<1>1. Life!Begin(i)
  BY DEF Life!Begin, Life!At, Stage, LifeSame
<1> QED
  BY <1>1 DEF Life!Next

LEMMA IsLeave ==
  ASSUME NEW i \in Items, Stage[i] = "worked_on", NEW stage \in {"open", "parked", "over"},
         Stage' = [Stage EXCEPT ![i] = stage], LifeSame
  PROVE  Life!Next
<1>1. Life!Leave(i)
  BY DEF Life!Leave, Stage, LifeSame
<1> QED
  BY <1>1 DEF Life!Next

LEMMA IsForget ==
  ASSUME NEW i \in Items, Stage[i] = "over" \/ (mishaps.raises > 0 /\ i \in granted),
         Stage' = [Stage EXCEPT ![i] = "gone"], LifeSame
  PROVE  Life!Next
<1>1. Life!Forget(i)
  BY DEF Life!Forget, Stage, LifeSame
<1> QED
  BY <1>1 DEF Life!Next

LEMMA IsReopen ==
  ASSUME NEW i \in Items, mishaps.raises > 0, i \in granted, Stage[i] = "over",
         Stage' = [Stage EXCEPT ![i] = "open"], LifeSame
  PROVE  Life!Next
<1>1. Life!Reopen(i)
  BY DEF Life!Reopen, Stage, LifeSame
<1> QED
  BY <1>1 DEF Life!Next

LEMMA IsTear ==
  ASSUME Stage' = Stage, granted' = granted, mishaps'.raises > 0
  PROVE  Life!Next
<1>1. Life!Tear
  BY DEF Life!Tear, Stage
<1> QED
  BY <1>1 DEF Life!Next

LEMMA IsStutter ==
  ASSUME Stage' = Stage, LifeSame
  PROVE  UNCHANGED Life!lifeVars
BY DEF Life!lifeVars, Stage, LifeSame

-----------------------------------------------------------------------------
(* Each group of steps is an action of ItemLife or stutters.               *)

LifeStep == Life!Next \/ UNCHANGED Life!lifeVars

LEMMA ClaimIsBegin ==
  ASSUME TypeInv, TypeInv', GrantInv, HandInv, NEW i \in Items, Claiming(i), granted' = granted
  PROVE  LifeStep
<1>1. /\ queue[i].status \in {"approved", "paused"} /\ queue'[i].status = "running"
      /\ OtherItemsSame(i) /\ tick.pc \in {"gates", "claim"} /\ mishaps' = mishaps
  BY ClaimStep DEF Claiming
<1>2. Stage[i] \in {"open", "parked"}
  BY <1>1, StageFacts, StageOfItem
<1>3. StageOf[queue'[i].status] = "worked_on"
  BY <1>1, StageFacts DEF Status, OpenStatuses
<1>4. Stage' = [Stage EXCEPT ![i] = "worked_on"]
  BY <1>1, <1>3, OneMoves
<1>5. i \in granted
  BY <1>1 DEF GrantInv, WithStatus, OnTheWay
<1>6. mishaps.raises > 0 \/ \A j \in Items : Stage[j] # "worked_on"
  <2>1. mishaps.raises > 0 \/ mishaps.raises = 0
    BY DEF TypeInv, TypeOK
  <2>2. tick.pc # "idle" /\ tick.pc \notin InHand
    BY <1>1 DEF InHand
  <2>3. mishaps.raises = 0 => \A j \in Items : queue[j].status # "running"
    BY <2>2 DEF HandInv, RunningIsHeld
  <2> QED
    BY <2>1, <2>3, StageFacts, StageOfItem
<1> QED
  BY <1>1, <1>2, <1>4, <1>5, <1>6, IsBegin DEF LifeStep, LifeSame

\* What the item in hand may be when it is written back.
LEMMA InHandStage ==
  ASSUME TypeInv, GrantInv, HeldInv, tick.pc \in InHand
  PROVE  /\ cur \in Items /\ cur \in granted
         /\ \/ queue[cur].status \in {"running", "absent"}
            \/ tick.pc = "failed" /\ DoneUnderHandler
BY HandIsBusy DEF TypeInv, GrantInv, HeldInv

LEMMA ReleaseIsLeave ==
  ASSUME TypeInv, TypeInv', GrantInv, HeldInv, Releasing, granted' = granted
  PROVE  LifeStep
<1>1. /\ cur \in Items /\ OtherItemsSame(cur) /\ tick.pc \in InHand /\ mishaps' = mishaps
      /\ \/ queue'[cur] = queue[cur]
         \/ queue'[cur].status \in {"paused", "approved"} /\ queue[cur].status # "absent"
      /\ tick.pc = "failed" => \/ queue'[cur] = queue[cur]
                              \/ queue'[cur].status = "approved"
  <2>1. tick.pc = "failed" => ~ReleasePaused
    BY DEF ReleasePaused
  <2> QED
    BY <2>1, ReleaseStep DEF Releasing
<1> DEFINE to == queue'[cur].status
<1>2. Stage' = [Stage EXCEPT ![cur] = StageOf[to]]
  BY <1>1, OneMoves
<1>3. Stage[cur] = StageOf[queue[cur].status] /\ Stage \in [Items -> {StageOf[s] : s \in Status}]
  BY <1>1, StageOfItem DEF Stage
<1>4. CASE queue'[cur] = queue[cur]
  <2>1. Stage' = Stage
    BY <1>2, <1>3, <1>4
  <2> QED
    BY <1>1, <2>1, IsStutter DEF LifeStep, LifeSame
<1>5. CASE queue'[cur] # queue[cur]
  <2>1. to \in {"paused", "approved"} /\ queue[cur].status # "absent"
    BY <1>1, <1>5
  <2>2. StageOf[to] \in {"open", "parked"} /\ (to = "approved" => StageOf[to] = "open")
    BY <2>1, StageFacts DEF Status, OpenStatuses
  <2>3. CASE queue[cur].status = "running"
    <3>1. Stage[cur] = "worked_on"
      BY <1>3, <2>3, StageFacts DEF Status, OpenStatuses
    <3> QED
      BY <1>1, <1>2, <2>2, <3>1, IsLeave DEF LifeStep, LifeSame
  <2>4. CASE tick.pc = "failed" /\ DoneUnderHandler
    <3>1. Stage[cur] = "over"
      BY <1>3, <2>4, StageFacts DEF DoneUnderHandler, Status, TerminalStatuses
    <3>2. StageOf[to] = "open" /\ mishaps.raises > 0 /\ cur \in granted
      BY <1>1, <1>5, <2>2, <2>4, InHandStage DEF DoneUnderHandler
    <3> QED
      BY <1>1, <1>2, <3>1, <3>2, IsReopen DEF LifeStep, LifeSame
  <2> QED
    BY <1>1, <2>1, <2>3, <2>4, InHandStage
<1> QED
  BY <1>4, <1>5

LEMMA FinalizeIsLeave ==
  ASSUME TypeInv, TypeInv', GrantInv, HeldInv, Finalizing, granted' = granted
  PROVE  LifeStep
<1>1. /\ cur \in Items /\ OtherItemsSame(cur) /\ tick.pc \in InHand /\ mishaps' = mishaps
      /\ \/ queue'[cur] = queue[cur]
         \/ /\ queue'[cur].status \in {"skipped", "done", "failed"}
            /\ queue[cur].status # "absent"
  BY FinalizeStep DEF Finalizing
<1> DEFINE to == queue'[cur].status
<1>2. Stage' = [Stage EXCEPT ![cur] = StageOf[to]]
  BY <1>1, OneMoves
<1>3. Stage[cur] = StageOf[queue[cur].status] /\ Stage \in [Items -> {StageOf[s] : s \in Status}]
  BY <1>1, StageOfItem DEF Stage
<1>4. CASE queue'[cur] = queue[cur]
  <2>1. Stage' = Stage
    BY <1>2, <1>3, <1>4
  <2> QED
    BY <1>1, <2>1, IsStutter DEF LifeStep, LifeSame
<1>5. CASE queue'[cur] # queue[cur]
  <2>1. to \in {"skipped", "done", "failed"} /\ queue[cur].status # "absent"
    BY <1>1, <1>5
  <2>2. StageOf[to] = "over"
    BY <2>1, StageFacts DEF Status, TerminalStatuses
  <2>3. CASE queue[cur].status = "running"
    <3>1. Stage[cur] = "worked_on"
      BY <1>3, <2>3, StageFacts DEF Status, OpenStatuses
    <3> QED
      BY <1>1, <1>2, <2>2, <3>1, IsLeave DEF LifeStep, LifeSame
  <2>4. CASE DoneUnderHandler
    <3>1. Stage[cur] = "over"
      BY <1>3, <2>4, StageFacts DEF DoneUnderHandler, Status, TerminalStatuses
    <3>2. Stage' = Stage
      BY <1>2, <1>3, <2>2, <3>1
    <3> QED
      BY <1>1, <3>2, IsStutter DEF LifeStep, LifeSame
  <2> QED
    BY <1>1, <2>1, <2>3, <2>4, InHandStage
<1> QED
  BY <1>4, <1>5

LEMMA RecoverIsLeave ==
  ASSUME TypeInv, TypeInv', NEW i \in Items, Recover(i), granted' = granted
  PROVE  LifeStep
<1>1. /\ queue[i].status = "running" /\ queue'[i].status = "approved"
      /\ OtherItemsSame(i) /\ mishaps' = mishaps
  BY RecoverStep
<1>2. Stage[i] = "worked_on" /\ StageOf[queue'[i].status] = "open"
  BY <1>1, StageFacts, StageOfItem DEF Status, OpenStatuses
<1>3. Stage' = [Stage EXCEPT ![i] = "open"]
  BY <1>1, <1>2, OneMoves
<1> QED
  BY <1>1, <1>2, <1>3, IsLeave DEF LifeStep, LifeSame

LEMMA RestartIsLifes ==
  ASSUME TypeInv, TypeInv', Restart, granted' = granted
  PROVE  LifeStep
<1>1. CASE Start
  BY <1>1, SameStage, IsStutter DEF Start, LifeStep, LifeSame
<1> QED
  BY <1>1, RecoverIsLeave DEF Restart

LEMMA ApproveIsGrant ==
  ASSUME TypeInv, TypeInv', UndecidedInv, NEW S \in SUBSET Items, Approve(S)
  PROVE  LifeStep
<1> DEFINE T == WithStatus(queue, {"awaiting_approval"}) \cap S
<1>1. T \in SUBSET Items /\ T # {} /\ \A i \in T : Stage[i] = "open" /\ i \notin granted
  BY StageFacts, StageOfItem DEF WithStatus, Approve, UndecidedInv
<1>2. \A i \in Items : \/ queue'[i] = queue[i]
                       \/ queue[i].status = "awaiting_approval" /\ queue'[i].status = "approved"
  BY DecideStep DEF Approve
<1>3. \A i \in Items : StageOf[queue'[i].status] = Stage[i]
  BY <1>2, StageFacts, StageOfItem DEF Status, OpenStatuses
<1>4. Stage' = Stage
  BY <1>3 DEF Stage
<1>5. granted' = granted \cup T /\ mishaps' = mishaps
  BY DEF Approve
<1> HIDE DEF T
<1> QED
  BY <1>1, <1>4, <1>5, IsGrant DEF LifeStep

LEMMA DismissIsRefuse ==
  ASSUME TypeInv, TypeInv', UndecidedInv, NEW S \in SUBSET Items,
         NEW d \in {"rejected", "skipped"}, Dismiss(S, d)
  PROVE  LifeStep
<1> DEFINE T == WithStatus(queue, {"awaiting_approval"}) \cap S
<1>1. T \in SUBSET Items /\ T # {} /\ \A i \in T : Stage[i] = "open" /\ i \notin granted
  BY StageFacts, StageOfItem DEF WithStatus, Dismiss, UndecidedInv
<1>2. queue \in Queue /\ d \in Status /\ StageOf[d] = "over"
  BY StageFacts DEF TypeInv, TypeOK, Status, TerminalStatuses
<1>3. \A i \in Items :
        queue'[i] = IF i \in S /\ queue[i].status = "awaiting_approval"
                    THEN Moved(queue[i], d) ELSE queue[i]
  BY <1>2, BulkFacts DEF Dismiss, Decide
<1>4. \A i \in Items : Moved(queue[i], d).status = d
  BY <1>2, MovedFacts DEF Queue
<1>5. \A i \in Items : StageOf[queue'[i].status] = IF i \in T THEN "over" ELSE Stage[i]
  BY <1>2, <1>3, <1>4, StageOfItem DEF WithStatus
<1>6. Stage' = [i \in Items |-> IF i \in T THEN "over" ELSE Stage[i]]
  BY <1>5 DEF Stage
<1>7. LifeSame
  BY DEF Dismiss, LifeSame
<1> HIDE DEF T
<1> QED
  BY <1>1, <1>6, <1>7, IsRefuse DEF LifeStep

LEMMA TtlIsForget ==
  ASSUME TypeInv, TypeInv', GrantInv, HandInv, UndecidedInv, NEW i \in Items,
         TtlExpires(i), granted' = granted
  PROVE  LifeStep
<1>1. /\ queue[i].ttl /\ OtherItemsSame(i) /\ queue'[i].status = "absent"
      /\ mishaps' = mishaps /\ queue[i].status # "absent"
  BY TtlStep DEF TtlExpires
<1>2. Stage' = [Stage EXCEPT ![i] = "gone"]
  BY <1>1, OneMoves, StageFacts DEF Status
<1>3. queue[i].status \in Status
  BY StageOfItem
<1>4. CASE queue[i].status \in TerminalStatuses
  <2>1. Stage[i] = "over"
    BY <1>3, <1>4, StageFacts, StageOfItem
  <2> QED
    BY <1>1, <1>2, <2>1, IsForget DEF LifeStep, LifeSame
<1>5. CASE queue[i].status \notin TerminalStatuses
  <2>1. queue[i].status \in {"approved", "running", "paused"}
    BY <1>1, <1>3, <1>5 DEF UndecidedInv, Status, OpenStatuses
  <2>2. i \in granted
    BY <2>1 DEF GrantInv, WithStatus, OnTheWay
  <2>3. mishaps.raises > 0
    BY <1>1, <1>5 DEF HandInv, TtlInv, TypeInv, TypeOK
  <2> QED
    BY <1>1, <1>2, <2>2, <2>3, IsForget DEF LifeStep, LifeSame
<1> QED
  BY <1>4, <1>5

LEMMA EveryStepIsLifes ==
  ASSUME TypeInv, TypeInv', GrantInv, HandInv, HeldInv, UndecidedInv, [Next]_coreVars
  PROVE  LifeStep
<1>1. CASE UNCHANGED coreVars
  BY <1>1, SameStage, IsStutter DEF coreVars, vars, LifeStep, LifeSame
<1>2. CASE (TickQuiet \/ Around \/ Die) /\ granted' = granted
  <2>1. queue' = queue /\ (mishaps' = mishaps \/ mishaps'.raises = mishaps.raises)
    BY <1>2, QuietStep, AroundStep DEF Die, TypeInv, TypeOK
  <2> QED
    BY <1>2, <2>1, SameStage DEF LifeStep, Life!lifeVars, Stage
<1>3. CASE CallRaises /\ granted' = granted
  <2>1. queue' = queue /\ mishaps'.raises > 0
    BY <1>3 DEF CallRaises, TypeInv, TypeOK
  <2> QED
    BY <1>3, <2>1, SameStage, IsTear DEF LifeStep
<1> QED
  BY <1>1, <1>2, <1>3, StepCases, ClaimIsBegin, ReleaseIsLeave, FinalizeIsLeave,
     RestartIsLifes, ApproveIsGrant, DismissIsRefuse, TtlIsForget

LEMMA ItemLifeInit == Init => Life!Init
<1> SUFFICES ASSUME Init PROVE Life!Init
  OBVIOUS
<1>1. \A i \in Items : StageOf[queue[i].status] = "open"
  BY StageFacts DEF Init, NewDoc, Status, OpenStatuses
<1>2. granted = {} /\ mishaps.raises = 0
  BY DEF Init, ExecutorInit, NoMishap
<1> QED
  BY <1>1, <1>2 DEF Life!Init

\* What Maintenance does to the queue is what ItemLife allows, whatever the
\* items, the attempts, the window, the deaths and the failing calls.
THEOREM ImplementsLife == Spec => ImplementsItemLife
<1> DEFINE Inv == TypeInv /\ GrantInv /\ HandInv /\ HeldInv /\ UndecidedInv
<1>1. Init => Inv
  BY TypeInit, GrantInit, HandInit, HeldInit, UndecidedInit
<1>2. Inv /\ [Next]_coreVars => Inv'
  BY TypeNext, GrantNext, HandNext, HeldNext, UndecidedNext
<1>3. Inv /\ Inv' /\ [Next]_coreVars => [Life!Next]_(Life!lifeVars)
  BY EveryStepIsLifes DEF LifeStep
<1> HIDE DEF Inv
<1> QED
  BY <1>1, <1>2, <1>3, ItemLifeInit, PTL DEF Spec, ImplementsItemLife, Life!Spec
=============================================================================
