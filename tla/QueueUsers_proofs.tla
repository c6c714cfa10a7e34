------------------------- MODULE QueueUsers_proofs -------------------------
(***************************************************************************)
(* What survives beside the executor: discovery, which inserts, supersedes *)
(* and expires items, and the web's single-item actions, which write over  *)
(* whatever the item has become since they read it.                        *)
(*                                                                         *)
(* Discovery reads the queue, and inserts several steps later on what it   *)
(* read.  It may, because in between nobody else creates items: an id      *)
(* without a document stays without one (AbsentStays), and no object gets  *)
(* an open item it did not have (OpenShrinks).  With the steps that enter   *)
(* and withdraw items it implements the growing life of ItemLife.          *)
(*                                                                         *)
(* A write of the web may take an item from under the tick, so what is     *)
(* RUNNING need no longer be in hand.  Its invariant speaks of the items   *)
(* that no request overtook (wrote over without having read their status): *)
(* of those, the one in hand is RUNNING, and each keeps its limits.        *)
(***************************************************************************)
EXTENDS Discovery, MaintenanceWeb, Maintenance_proofs

-----------------------------------------------------------------------------
(* Discovery.                                                              *)

DiscType ==
  /\ disc \in [pc : DiscPc, first : BOOLEAN, counted : Nat, run : Nat,
               found : SUBSET Items, fresh : SUBSET Items, todo : SUBSET Items,
               result : Nat]
  /\ captured \in Nat /\ known \in Nat

\* What is still to be inserted.
NotYet == IF disc.pc = "insert" THEN disc.todo ELSE disc.found

\* What was found has no document yet, and one item for each object.
FoundInv ==
  disc.pc \in {"found", "dedupe", "insert"} =>
    /\ \A i \in NotYet : queue[i] = AbsentDoc
    /\ \A i, j \in disc.found : Object[i] = Object[j] => i = j

\* What is to be inserted has no open item for its object.
FreshInv ==
  disc.pc = "insert" =>
    /\ disc.todo \subseteq disc.found
    /\ mishaps.raises = 0 => \A i \in disc.todo, j \in Open : Object[i] # Object[j]

LifeInv == TypeInv /\ HandInv /\ DiscType /\ FoundInv /\ FreshInv /\ OneOpenItemPerObject

-----------------------------------------------------------------------------
(* What discovery does to the queue.                                       *)

LEMMA DocFacts ==
  /\ AbsentDoc = [status |-> "absent", attempts |-> 0, resume_token |-> FALSE, ttl |-> FALSE]
  /\ AbsentDoc \in Doc /\ NewDoc \in Doc
<1>1. /\ NewDoc = [status |-> "awaiting_approval", attempts |-> 0, resume_token |-> FALSE,
                    ttl |-> FALSE]
      /\ AbsentDoc = [status |-> "absent", attempts |-> 0, resume_token |-> FALSE,
                       ttl |-> FALSE]
  <2>1. AbsentDoc \in [status : {"absent"}, attempts : {0}, resume_token : {FALSE}, ttl : {FALSE}]
    BY Zenon DEF AbsentDoc, NewDoc
  <2> QED
    BY <2>1 DEF NewDoc
<1>2. {"absent", "awaiting_approval"} \subseteq Status
  BY DEF Status, OpenStatuses
<1> QED
  BY <1>1, <1>2 DEF Doc

\* Each item is left alone, closed before anyone claimed it, or created.
QueueKept ==
  \A i \in Items :
    \/ queue'[i] = queue[i]
    \/ /\ queue[i].status \in {"awaiting_approval", "approved"}
       /\ queue'[i].status \in {"expired", "superseded"}
    \/ queue[i] = AbsentDoc /\ queue'[i] = NewDoc

LEMMA BulkKeeps ==
  ASSUME NEW q \in Queue, NEW S, NEW from, NEW to \in {"expired", "superseded"},
         from \subseteq {"awaiting_approval", "approved"}, queue = q,
         queue' = Bulk(q, S, from, to)
  PROVE  queue' \in Queue /\ QueueKept
<1>1. to \in Status /\ \A i \in Items : q[i] \in Doc
  BY DEF Status, TerminalStatuses, Queue
<1>2. \A i \in Items : Moved(q[i], to).status = to
  BY <1>1, MovedFacts
<1>3. /\ Bulk(q, S, from, to) \in Queue
      /\ \A i \in Items :
           Bulk(q, S, from, to)[i] = IF i \in S /\ q[i].status \in from
                                     THEN Moved(q[i], to) ELSE q[i]
  BY <1>1, BulkFacts
<1> QED
  BY <1>2, <1>3 DEF QueueKept

LEMMA InsertKeeps ==
  ASSUME TypeInv, DiscType, FoundInv, NEW i \in Items, Insert(i)
  PROVE  queue' \in Queue /\ QueueKept
<1>1. queue' = [queue EXCEPT ![i] = NewDoc] /\ queue[i] = AbsentDoc
  BY DEF Insert, Inserted, FoundInv, NotYet
<1>2. queue \in [Items -> Doc]
  BY DEF TypeInv, TypeOK, Queue
<1> QED
  BY <1>1, <1>2, DocFacts DEF QueueKept, Queue

\* Discovery leaves the executor alone, keeps the documents well formed and
\* does nothing to an item in hand.
LEMMA DiscoveryKeeps ==
  ASSUME TypeInv, DiscType, FoundInv, FreshInv, DiscoveryStep \/ DiscoveryFault
  PROVE  /\ queue' \in Queue /\ campaign' \in Campaign /\ QueueKept
         /\ othersSame
         /\ DiscType'
<1>0. queue \in Queue /\ campaign \in Campaign
  BY DEF TypeInv, TypeOK
<1> DEFINE D == [pc : DiscPc, first : BOOLEAN, counted : Nat, run : Nat,
                 found : SUBSET Items, fresh : SUBSET Items, todo : SUBSET Items,
                 result : Nat]
<1>a. /\ DiscIdle \in D /\ InHandler \in D /\ disc \in D
      /\ captured \in Nat /\ known \in Nat
  BY DEF DiscIdle, InHandler, DiscPc, DiscType
<1>b. ASSUME disc' \in D, known' \in Nat, captured' = captured PROVE DiscType'
  BY <1>a, <1>b DEF DiscType
<1>c. queue' = queue => queue' \in Queue /\ QueueKept
  BY <1>0 DEF QueueKept
<1>d. ASSUME NEW s \in CampaignStatus, NEW n \in Nat
      PROVE  /\ [campaign EXCEPT !.status = s] \in Campaign
             /\ [campaign EXCEPT !.status = s, !.total = n] \in Campaign
  BY <1>0 DEF Campaign
<1>e. ASSUME queue' \in Queue /\ QueueKept, campaign' \in Campaign, othersSame,
             disc' \in D, known' \in Nat
      PROVE  queue' \in Queue /\ campaign' \in Campaign /\ QueueKept /\ othersSame /\ DiscType'
  BY <1>b, <1>e DEF othersSame
<1>1. CASE DiscoveryExpires
  <2>1. othersSame /\ UNCHANGED <<queue, disc, known>>
        /\ campaign' = [campaign EXCEPT !.status = "expired"]
    BY <1>1 DEF DiscoveryExpires
  <2>2. campaign' \in Campaign
    BY <1>d, <2>1 DEF CampaignStatus
  <2> QED
    BY <1>a, <1>c, <1>e, <2>1, <2>2
<1>2. CASE FindPending \/ FindActive
  <2>1. othersSame /\ UNCHANGED <<queue, campaign, known>>
    BY <1>2 DEF FindPending, FindActive
  <2>2. TerminalCount(campaign) \in Nat
    BY <1>0 DEF TerminalCount, Campaign
  <2>3. disc' \in D
    BY <1>2, <1>a, <2>2 DEF FindPending, FindActive, DiscIdle, DiscPc
  <2> QED
    BY <1>0, <1>a, <1>c, <1>e, <2>1, <2>3
<1>3. CASE SetDiscovering
  <2>1. othersSame /\ UNCHANGED <<queue, known>> /\ disc' = [disc EXCEPT !.pc = "scan"]
        /\ campaign' = [campaign EXCEPT !.status = "discovering"]
    BY <1>3 DEF SetDiscovering
  <2>2. campaign' \in Campaign
    BY <1>d, <2>1 DEF CampaignStatus
  <2>3. disc' \in D
    BY <1>a, <2>1 DEF DiscPc
  <2> QED
    BY <1>a, <1>c, <1>e, <2>1, <2>2, <2>3
<1>4. ASSUME NEW i \in Items, ExpireStale(i) \/ Supersede(i) \/ Insert(i)
      PROVE  queue' \in Queue /\ campaign' \in Campaign /\ QueueKept /\ othersSame /\ DiscType'
  <2>1. othersSame /\ UNCHANGED <<campaign, known>>
    BY <1>4 DEF ExpireStale, Supersede, Insert
  <2>2. disc' \in D
    BY <1>4, <1>a DEF ExpireStale, Supersede, Insert, DiscPc
  <2>3. queue' \in Queue /\ QueueKept
    <3>1. CASE ExpireStale(i)
      <4>1. queue' = Bulk(queue, {i}, {"awaiting_approval"}, "expired")
        BY <3>1 DEF ExpireStale, ExpireStaleAwaiting
      <4> QED
        BY <1>0, <4>1, BulkKeeps
    <3>2. CASE Supersede(i)
      <4>1. queue' = Bulk(queue, {i}, {"awaiting_approval", "approved"}, "superseded")
        BY <3>2 DEF Supersede, SupersedeOpenItems
      <4> QED
        BY <1>0, <4>1, BulkKeeps
    <3> QED
      BY <1>4, <3>1, <3>2, InsertKeeps
  <2> QED
    BY <1>0, <1>a, <1>e, <2>1, <2>2, <2>3
<1>5. ASSUME NEW found \in SUBSET Items, ScanCatalog(found)
      PROVE  queue' \in Queue /\ campaign' \in Campaign /\ QueueKept /\ othersSame /\ DiscType'
  <2>1. othersSame /\ UNCHANGED <<queue, campaign, known>>
    BY <1>5 DEF ScanCatalog
  <2>2. disc' \in D
    BY <1>5, <1>a DEF ScanCatalog, DiscPc
  <2> QED
    BY <1>0, <1>a, <1>c, <1>e, <2>1, <2>2
<1>6. CASE Dedupe
  <2>1. othersSame /\ UNCHANGED <<queue, campaign, known>>
    BY <1>6 DEF Dedupe
  <2>2. Fresh(queue, disc.found) \in SUBSET Items
    BY <1>a DEF Fresh
  <2>3. disc' \in D
    BY <1>6, <1>a, <2>2 DEF Dedupe, DiscPc
  <2> QED
    BY <1>0, <1>a, <1>c, <1>e, <2>1, <2>3
<1>7. CASE SendBatch
  <2>1. othersSame /\ UNCHANGED <<queue, campaign, known>>
    BY <1>7 DEF SendBatch
  <2>2. Cardinality(disc.fresh) \in Nat
    BY <1>a, FiniteSubset
  <2>3. disc' \in D
    BY <1>7, <1>a, <2>2 DEF SendBatch, DiscPc
  <2> QED
    BY <1>0, <1>a, <1>c, <1>e, <2>1, <2>3
<1>8. CASE CountOpenItems
  <2>1. othersSame /\ UNCHANGED <<queue, campaign, known>>
    BY <1>8 DEF CountOpenItems
  <2>2. CountOpen(queue) \in Nat
    BY FiniteSubset DEF CountOpen, WithStatus
  <2>3. disc' \in D
    BY <1>8, <1>a, <2>2 DEF CountOpenItems, DiscPc
  <2> QED
    BY <1>0, <1>a, <1>c, <1>e, <2>1, <2>3
<1>9. CASE ReportFirst \/ ReportAgain
  <2>1. othersSame /\ UNCHANGED queue /\ disc' \in D /\ known' \in {captured, disc.run}
    BY <1>9, <1>a DEF ReportFirst, ReportAgain, WriteReturns
  <2>2. \E s \in CampaignStatus, n \in Nat :
          campaign' = [campaign EXCEPT !.status = s, !.total = n]
    <3>1. CASE ReportFirst
      BY <1>a, <3>1 DEF ReportFirst, CampaignStatus
    <3>2. CASE ReportAgain
      <4>1. disc.counted + disc.result \in Nat
        BY <1>a
      <4> QED
        BY <3>2, <4>1 DEF ReportAgain, CampaignStatus
    <3> QED
      BY <1>9, <3>1, <3>2
  <2>3. campaign' \in Campaign
    BY <1>d, <2>2
  <2> QED
    BY <1>a, <1>c, <1>e, <2>1, <2>3
<1>10. CASE DiscoveryHandled \/ DiscoveryFault
  <2>1. othersSame /\ UNCHANGED <<queue, known>> /\ disc' \in D
    BY <1>10, <1>a DEF DiscoveryHandled, DiscoveryFault, DiscoveryRaises, MarkingRaises,
                       HandlerRaises
  <2>2. campaign' = campaign \/ \E s \in CampaignStatus : campaign' = [campaign EXCEPT !.status = s]
    BY <1>10 DEF DiscoveryHandled, DiscoveryFault, DiscoveryRaises, MarkingRaises,
                 HandlerRaises, CampaignStatus
  <2>3. campaign' \in Campaign
    BY <1>0, <1>d, <2>2
  <2> QED
    BY <1>a, <1>c, <1>e, <2>1, <2>3
<1> QED
  BY <1>1, <1>2, <1>3, <1>4, <1>5, <1>6, <1>7, <1>8, <1>9, <1>10 DEF DiscoveryStep

LEMMA KeptHand ==
  ASSUME TypeInv, HandInv, QueueKept, UNCHANGED <<tick, proc, mishaps>>
  PROVE  HandInv'
<1>1. proc = "down" => tick.pc = "idle"
  BY DEF HandInv
<1>2. tick.pc \in InHand => cur \in Items
  BY HandIsBusy DEF TypeInv
<1>3. ASSUME mishaps.raises = 0 PROVE TtlInv' /\ InHandIsRunning' /\ RunningIsHeld'
  <2>1. TtlInv /\ InHandIsRunning /\ RunningIsHeld
    BY <1>3 DEF HandInv
  <2>2. NewDoc.status = "awaiting_approval" /\ ~NewDoc.ttl /\ AbsentDoc.status = "absent"
    BY DocFacts DEF NewDoc
  <2>3. TtlInv'
    BY <2>1, <2>2 DEF QueueKept, TtlInv, TerminalStatuses
  <2>4. InHandIsRunning'
    BY <1>2, <2>1, <2>2 DEF QueueKept, InHandIsRunning, cur
  <2>5. RunningIsHeld'
    BY <2>1, <2>2 DEF QueueKept, RunningIsHeld, cur
  <2> QED
    BY <2>3, <2>4, <2>5
<1> QED
  BY <1>1, <1>3 DEF HandInv

-----------------------------------------------------------------------------
(* What the others leave to discovery.                                     *)

\* An id that has no document gets none from the executor or an operator.
LEMMA AbsentStays ==
  ASSUME TypeInv, TypeInv', Next, NEW i \in Items, queue[i] = AbsentDoc
  PROVE  queue'[i] = AbsentDoc
<1> USE DEF cur, OtherItemsSame
<1>a. /\ queue[i].status = "absent" /\ queue[i].ttl = FALSE
      /\ AbsentDoc = [status |-> queue[i].status, attempts |-> queue[i].attempts,
                      resume_token |-> queue[i].resume_token, ttl |-> queue[i].ttl]
  BY DocFacts
<1>1. CASE queue' = queue
  BY <1>1
<1>2. ASSUME NEW j \in Items, Claiming(j) PROVE queue'[i] = queue[i]
  <2>1. queue[j].status \in {"approved", "paused"} /\ (i # j => queue'[i] = queue[i])
    BY <1>2, ClaimStep DEF Claiming
  <2> QED
    BY <1>a, <2>1
<1>3. CASE Releasing \/ Finalizing
  <2>1. (i # cur => queue'[i] = queue[i])
        /\ (queue[cur].status = "absent" => queue'[cur] = queue[cur])
    BY <1>3, ReleaseStep, FinalizeStep DEF Releasing, Finalizing
  <2> QED
    BY <1>a, <2>1
<1>4. CASE Restart
  <2>1. /\ queue'[i].status = "absent" /\ queue'[i].attempts = queue[i].attempts
        /\ queue'[i].resume_token = queue[i].resume_token /\ queue'[i].ttl = queue[i].ttl
    BY <1>4, <1>a, RestartStep
  <2>2. queue'[i] \in Doc
    BY DEF TypeInv, TypeOK, Queue
  <2>3. queue'[i] = [status |-> queue'[i].status, attempts |-> queue'[i].attempts,
                     resume_token |-> queue'[i].resume_token, ttl |-> queue'[i].ttl]
    BY <2>2 DEF Doc
  <2> QED
    BY <1>a, <2>1, <2>3
<1>5. ASSUME NEW S \in SUBSET Items, NEW d \in {"rejected", "skipped"},
             Approve(S) \/ Dismiss(S, d)
      PROVE  queue'[i] = queue[i]
  BY <1>5, <1>a, DecideStep DEF Approve, Dismiss
<1>6. ASSUME NEW j \in Items, TtlExpires(j) PROVE queue'[i] = queue[i]
  BY <1>6, <1>a, TtlStep
<1>7. TickQuiet \/ CallRaises \/ Die \/ Around => queue' = queue
  BY QuietStep, AroundStep DEF CallRaises, Die
<1> QED
  BY <1>1, <1>2, <1>3, <1>4, <1>5, <1>6, <1>7, StepCases

\* Where no item comes open no object gets a second one.
LEMMA ShrunkOpen ==
  ASSUME Open' \subseteq Open
  PROVE  /\ OpenKeys(queue') \subseteq OpenKeys(queue)
         /\ OneOpenItemPerObject /\ mishaps.raises = 0 => OneOpenItemPerObject'
BY DEF Open, OpenKeys, OneOpenItemPerObject, WithStatus

LEMMA LifeStepExecution ==
  ASSUME LifeInv, ExecutionStep
  PROVE  LifeInv'
<1> USE DEF LifeInv
<1>1. Next
  BY DEF ExecutionStep
<1>2. TypeInv' /\ HandInv'
  BY <1>1, TypeNext, HandNext
<1>3. disc' \in {disc, DiscIdle} /\ UNCHANGED <<captured, known>>
  BY DEF ExecutionStep
<1>4. DiscType'
  <2>1. DiscIdle \in [pc : DiscPc, first : BOOLEAN, counted : Nat, run : Nat,
                     found : SUBSET Items, fresh : SUBSET Items, todo : SUBSET Items,
                     result : Nat]
    BY DEF DiscIdle, DiscPc
  <2> QED
    BY <1>3, <2>1 DEF DiscType
<1>5. mishaps'.raises = 0 => mishaps.raises = 0
  <2>1. mishaps'.raises = mishaps.raises \/ mishaps'.raises = mishaps.raises + 1
    <3>1. CASE CallRaises
      BY <3>1 DEF CallRaises, TypeInv, TypeOK
    <3>2. CASE Die
      BY <3>2 DEF Die, TypeInv, TypeOK
    <3>3. ASSUME NEW i \in Items, Claiming(i) \/ TtlExpires(i) PROVE mishaps' = mishaps
      BY <3>3, ClaimStep, TtlStep DEF Claiming
    <3>4. CASE Releasing \/ Finalizing
      BY <3>4, ReleaseStep, FinalizeStep DEF Releasing, Finalizing
    <3>5. CASE TickQuiet \/ Around
      BY <3>5, QuietStep, AroundStep
    <3>6. CASE Restart
      BY <3>6, RestartStep, ItemsAssumption DEF Restart, Start, Recover
    <3>7. ASSUME NEW S \in SUBSET Items, NEW d \in {"rejected", "skipped"},
                 Approve(S) \/ Dismiss(S, d)
          PROVE  mishaps' = mishaps
      BY <3>7 DEF Approve, Dismiss
    <3> QED
      BY <1>1, <3>1, <3>2, <3>3, <3>4, <3>5, <3>6, <3>7, StepCases
  <2>2. mishaps.raises \in Nat
    BY DEF TypeInv, TypeOK
  <2> QED
    BY <2>1, <2>2
<1>6. mishaps'.raises = 0 => Open' \subseteq Open
  BY <1>1, <1>5, OpenShrinks
<1>7. OneOpenItemPerObject'
  BY <1>5, <1>6, ShrunkOpen DEF OneOpenItemPerObject
<1>8. FoundInv' /\ FreshInv'
  <2>1. CASE disc' = DiscIdle
    BY <2>1 DEF FoundInv, FreshInv, DiscIdle
  <2>2. CASE disc' = disc
    <3>1. \A i \in disc.found \cup disc.todo : queue[i] = AbsentDoc => queue'[i] = AbsentDoc
      BY <1>1, <1>2, AbsentStays DEF DiscType
    <3>2. FoundInv'
      BY <2>2, <3>1 DEF FoundInv, NotYet
    <3>3. FreshInv'
      BY <1>5, <1>6, <2>2 DEF FreshInv
    <3> QED
      BY <3>2, <3>3
  <2> QED
    BY <1>3, <2>1, <2>2
<1> QED
  BY <1>2, <1>4, <1>7, <1>8

-----------------------------------------------------------------------------
(* The steps of discovery.                                                 *)

\* Inserting one that is fresh gives no object a second open item, neither
\* now nor when the others are inserted.
LEMMA InsertOne ==
  ASSUME LifeInv, NEW i \in Items, Insert(i)
  PROVE  FoundInv' /\ FreshInv' /\ OneOpenItemPerObject'
<1> USE DEF LifeInv
<1>1. /\ disc.pc = "insert" /\ i \in disc.todo /\ disc.todo \subseteq disc.found
      /\ disc.found \subseteq Items
      /\ disc'.found = disc.found /\ disc'.todo = disc.todo \ {i}
      /\ disc'.pc \in {"send", "insert"} /\ mishaps' = mishaps
  BY DEF Insert, DiscType, FreshInv, othersSame
<1>2. /\ \A k \in disc.todo : queue[k] = AbsentDoc
      /\ \A k, l \in disc.found : Object[k] = Object[l] => k = l
  BY <1>1 DEF FoundInv, NotYet
<1>3. \A k \in Items : k # i => queue'[k] = queue[k]
  BY DEF Insert, Inserted, TypeInv, TypeOK, Queue
<1>4. Open' \subseteq Open \cup {i}
  BY <1>3 DEF Open, WithStatus
<1>5. FoundInv'
  BY <1>1, <1>2, <1>3 DEF FoundInv, NotYet
<1>6. FreshInv'
  <2>1. mishaps.raises = 0 => \A k \in disc.todo \ {i}, l \in Open \cup {i} : Object[k] # Object[l]
    BY <1>1, <1>2 DEF FreshInv
  <2> QED
    BY <1>1, <1>4, <2>1 DEF FreshInv
<1>7. OneOpenItemPerObject'
  <2> SUFFICES ASSUME mishaps.raises = 0, NEW k \in Open', NEW l \in Open',
                      Object[k] = Object[l]
               PROVE  k = l
    BY <1>1 DEF OneOpenItemPerObject, Open
  <2>1. \A m \in Open : Object[m] # Object[i]
    BY <1>1 DEF FreshInv
  <2>2. \A m, n \in Open : Object[m] = Object[n] => m = n
    BY DEF OneOpenItemPerObject, Open
  <2> QED
    BY <1>4, <2>1, <2>2
<1> QED
  BY <1>5, <1>6, <1>7

\* What closes an open item opens none.
LEMMA ClosedOpen ==
  ASSUME TypeInv, NEW i \in Items, ExpireStale(i) \/ Supersede(i)
  PROVE  Open' \subseteq Open
<1>1. PICK from \in SUBSET Status, to \in {"expired", "superseded"} :
        queue' = Bulk(queue, {i}, from, to)
  <2>1. {"awaiting_approval"} \in SUBSET Status
        /\ {"awaiting_approval", "approved"} \in SUBSET Status
    BY DEF Status, OpenStatuses
  <2> QED
    BY <2>1 DEF ExpireStale, ExpireStaleAwaiting, Supersede, SupersedeOpenItems
<1>2. /\ to \in Status /\ to \notin OpenStatuses
      /\ queue \in Queue /\ \A j \in Items : queue[j] \in Doc
  BY DEF Status, TerminalStatuses, OpenStatuses, TypeInv, TypeOK, Queue
<1>3. \A j \in Items : queue'[j] = queue[j] \/ queue'[j] = Moved(queue[j], to)
  BY <1>1, <1>2, BulkFacts
<1>4. \A j \in Items : Moved(queue[j], to).status = to
  BY <1>2, MovedFacts
<1> QED
  BY <1>2, <1>3, <1>4 DEF Open, WithStatus

LEMMA LifeStepDiscovery ==
  ASSUME LifeInv, DiscoveryStep \/ DiscoveryFault
  PROVE  LifeInv'
<1> USE DEF LifeInv
<1>1. /\ queue' \in Queue /\ campaign' \in Campaign /\ QueueKept /\ DiscType'
      /\ UNCHANGED <<tick, deferred, wasOpen, proc, window, server, mishaps, started,
                     finished, granted, cancelling>>
  BY DiscoveryKeeps DEF othersSame
<1>2. TypeInv'
  BY <1>1 DEF TypeInv, TypeOK, cur
<1>3. HandInv'
  BY <1>1, KeptHand
<1>a. AbsentDoc.status = "absent"
  BY DocFacts
<1>b. ASSUME Open' \subseteq Open, FoundInv', FreshInv' PROVE LifeInv'
  BY <1>1, <1>2, <1>3, <1>b, ShrunkOpen DEF OneOpenItemPerObject
<1>c. queue' = queue => Open' = Open
  BY DEF Open, WithStatus
<1>4. ASSUME NEW i \in Items, ExpireStale(i) PROVE LifeInv'
  <2>1. disc' = disc /\ disc.pc = "scan"
    BY <1>4 DEF ExpireStale
  <2> QED
    BY <1>4, <1>b, <2>1, ClosedOpen DEF FoundInv, FreshInv
<1>5. ASSUME NEW i \in Items, Supersede(i) PROVE LifeInv'
  <2>1. disc.pc = "found" /\ disc'.pc \in {"found", "dedupe"} /\ disc'.found = disc.found
    BY <1>5 DEF Supersede, DiscType
  <2>2. \A j \in disc.found : queue'[j] = queue[j]
    <3>1. /\ \A j \in disc.found : queue[j] = AbsentDoc /\ j \in Items
          /\ queue' = Bulk(queue, {i}, {"awaiting_approval", "approved"}, "superseded")
          /\ "superseded" \in Status /\ queue \in Queue
      BY <1>5, <2>1 DEF Supersede, SupersedeOpenItems, Status, TerminalStatuses, TypeInv,
                        TypeOK, FoundInv, NotYet, DiscType
    <3> QED
      BY <1>a, <3>1, BulkFacts
  <2> QED
    BY <1>5, <1>b, <2>1, <2>2, ClosedOpen DEF FoundInv, FreshInv, NotYet
<1>6. ASSUME NEW i \in Items, Insert(i) PROVE LifeInv'
  BY <1>1, <1>2, <1>3, <1>6, InsertOne
<1>7. ASSUME NEW found \in SUBSET Items, ScanCatalog(found) PROVE LifeInv'
  <2>1. /\ queue' = queue /\ disc'.found = found /\ disc'.pc \in {"report", "dedupe", "found"}
        /\ \A i \in found : queue[i] = AbsentDoc
        /\ \A i, j \in found : Object[i] = Object[j] => i = j
    BY <1>7 DEF ScanCatalog, DiscType
  <2> QED
    BY <1>b, <1>c, <2>1 DEF FoundInv, FreshInv, NotYet
<1>8. ASSUME Dedupe PROVE LifeInv'
  <2>1. /\ disc.pc = "dedupe" /\ disc'.found = disc.found /\ queue' = queue
        /\ disc'.todo = Fresh(queue, disc.found)
    BY <1>8 DEF Dedupe, DiscType
  <2>2. \A i \in disc'.todo : i \in disc.found /\ DedupeKey[i] \notin OpenKeys(queue)
    BY <2>1 DEF Fresh
  <2>3. \A i \in disc'.todo, j \in Open : Object[i] # Object[j]
    <3>1. \A j \in Open : DedupeKey[j] \in OpenKeys(queue)
      BY DEF Open, OpenKeys
    <3>2. \A i \in disc'.todo, j \in Open : i \in Items /\ j \in Items
      BY <2>2 DEF Open, WithStatus, DiscType
    <3> QED
      BY <2>2, <3>1, <3>2, DiscoveryAssumption
  <2>4. FoundInv' /\ FreshInv'
    BY <1>1, <1>c, <2>1, <2>2, <2>3 DEF FoundInv, FreshInv, NotYet
  <2> QED
    BY <1>b, <1>c, <2>1, <2>4
<1>9. ASSUME DiscoveryExpires PROVE LifeInv'
  <2>1. disc' = disc /\ queue' = queue
    BY <1>9 DEF DiscoveryExpires
  <2> QED
    BY <1>1, <1>b, <1>c, <2>1 DEF FoundInv, FreshInv, NotYet
<1>10. ASSUME \/ FindPending \/ FindActive \/ SetDiscovering \/ SendBatch
              \/ ReportFirst \/ CountOpenItems \/ ReportAgain
              \/ DiscoveryHandled \/ DiscoveryFault
       PROVE  LifeInv'
  <2>1. ASSUME FindPending \/ FindActive PROVE disc'.pc = "read" /\ queue' = queue
    BY <2>1 DEF FindPending, FindActive, DiscIdle
  <2>2. ASSUME SetDiscovering \/ SendBatch \/ CountOpenItems
        PROVE  disc'.pc \in {"scan", "report", "final"} /\ queue' = queue
    BY <2>2 DEF SetDiscovering, SendBatch, CountOpenItems, DiscType
  <2>3. ASSUME \/ ReportFirst \/ ReportAgain \/ DiscoveryHandled \/ DiscoveryFault
        PROVE  disc'.pc \in {"idle", "handler"} /\ queue' = queue
    <3>1. DiscIdle.pc = "idle" /\ InHandler.pc = "handler"
      BY DEF DiscIdle, InHandler
    <3>2. disc' \in {DiscIdle, InHandler}
      BY <2>3 DEF ReportFirst, ReportAgain, WriteReturns, DiscoveryHandled, DiscoveryFault,
           DiscoveryRaises, MarkingRaises, HandlerRaises
    <3>3. queue' = queue
      BY <2>3 DEF ReportFirst, ReportAgain, DiscoveryHandled, DiscoveryFault,
           DiscoveryRaises, MarkingRaises, HandlerRaises
    <3> QED
      BY <3>1, <3>2, <3>3
  <2>4. disc'.pc \notin {"found", "dedupe", "insert"} /\ queue' = queue
    BY <1>10, <2>1, <2>2, <2>3
  <2> QED
    BY <1>b, <1>c, <2>4 DEF FoundInv, FreshInv
<1> QED
  BY <1>4, <1>5, <1>6, <1>7, <1>8, <1>9, <1>10 DEF DiscoveryStep

-----------------------------------------------------------------------------
LEMMA LifeInitInv == LifeInit => LifeInv
<1> SUFFICES ASSUME LifeInit PROVE LifeInv
  OBVIOUS
<1>1. /\ queue = [i \in Items |-> AbsentDoc] /\ tick = Idle /\ proc = "up"
      /\ mishaps = NoMishap /\ disc = DiscIdle
  BY DEF LifeInit, ExecutorInit
<1>2. TypeInv
  <2>1. queue \in Queue
    BY <1>1, DocFacts DEF Queue
  <2>2. campaign \in Campaign
    BY DEF LifeInit, Campaign, CampaignStatus
  <2> QED
    BY <2>1, <2>2, IdleFacts
       DEF LifeInit, ExecutorInit, TypeInv, TypeOK, NoMishap, Busy, cur
<1>3. HandInv
  BY <1>1, DocFacts, IdleFacts
     DEF HandInv, TtlInv, InHandIsRunning, RunningIsHeld, InHand
<1>4. DiscType /\ FoundInv /\ FreshInv
  BY <1>1 DEF LifeInit, DiscType, FoundInv, FreshInv, DiscIdle, DiscPc
<1>5. OneOpenItemPerObject
  BY <1>1, DocFacts DEF OneOpenItemPerObject, WithStatus, OpenStatuses
<1> QED
  BY <1>2, <1>3, <1>4, <1>5 DEF LifeInv

LEMMA LifeNextInv == LifeInv /\ [LifeNext]_lifeVars => LifeInv'
<1> SUFFICES ASSUME LifeInv, [LifeNext]_lifeVars PROVE LifeInv'
  OBVIOUS
<1>1. ASSUME UNCHANGED <<coreVars, disc, known>>, captured' \in Nat PROVE LifeInv'
  <2>1. TypeInv' /\ HandInv'
    BY <1>1, TypeNext, HandNext DEF LifeInv
  <2>2. UNCHANGED <<queue, mishaps>>
    BY <1>1 DEF coreVars, vars
  <2> QED
    BY <1>1, <2>1, <2>2
       DEF LifeInv, DiscType, FoundInv, NotYet, FreshInv, Open, OneOpenItemPerObject
<1>2. CASE NewCapture
  BY <1>1, <1>2 DEF NewCapture, LifeInv, DiscType
<1>3. CASE UNCHANGED lifeVars
  BY <1>1, <1>3 DEF lifeVars, discoveryVars, LifeInv, DiscType
<1> QED
  BY <1>2, <1>3, LifeStepExecution, LifeStepDiscovery DEF LifeNext

\* However re-discovery, the tick, the operators, recovery and deaths
\* interleave, no object has two open items at once.
THEOREM OneItemPerObject == LifeSpec => []OneOpenItemPerObject
<1>1. LifeInv => OneOpenItemPerObject
  BY DEF LifeInv
<1> QED
  BY <1>1, LifeInitInv, LifeNextInv, PTL DEF LifeSpec

\* A discovery under way takes no item from under the statement: what the
\* tick has in hand is RUNNING, and nothing else is.
THEOREM DiscoveryLeavesRunning == LifeSpec => []RunningIsInHand
<1>1. LifeInv => RunningIsInHand
  BY HandIsBusy
     DEF LifeInv, HandInv, InHandIsRunning, RunningIsHeld, RunningIsInHand, WithStatus,
         TypeInv, cur
<1> QED
  BY <1>1, LifeInitInv, LifeNextInv, PTL DEF LifeSpec

-----------------------------------------------------------------------------
(* Discovery implements ItemLife as a queue that is filled again.  The     *)
(* executor and the operators do here what they do in Maintenance, and     *)
(* move no item to or from "unborn" (BornStays); so a step of ItemLife     *)
(* they take is one of its growing form as well (LifeIsGrown).             *)

Grow == [i \in Items |-> IF queue[i] = AbsentDoc THEN "unborn" ELSE StageOf[queue[i].status]]

\* Nobody grants what is not there yet.
BornInv == \A i \in Items : queue[i] = AbsentDoc => i \notin granted

GrowInv == LifeInv /\ GrantInv /\ HeldInv /\ UndecidedInv /\ BornInv

LEMMA BornStays ==
  ASSUME TypeInv, TypeInv', Next, NEW i \in Items
  PROVE  queue'[i] = AbsentDoc <=> queue[i] = AbsentDoc
<1> USE DEF cur, OtherItemsSame
<1>a. AbsentDoc.status = "absent" /\ AbsentDoc.ttl = FALSE
  BY DocFacts
<1> SUFFICES ASSUME queue'[i] = AbsentDoc PROVE queue[i] = AbsentDoc
  BY AbsentStays
<1>1. CASE queue' = queue
  BY <1>1
<1>2. ASSUME NEW j \in Items, Claiming(j) PROVE queue'[i] = queue[i]
  <2>1. queue'[j].status = "running" /\ (i # j => queue'[i] = queue[i])
    BY <1>2, ClaimStep DEF Claiming
  <2> QED
    BY <1>a, <2>1
<1>3. CASE Releasing
  <2>1. /\ i # cur => queue'[i] = queue[i]
        /\ queue'[cur] = queue[cur] \/ queue'[cur].status \in {"paused", "approved"}
    BY <1>3, ReleaseStep DEF Releasing
  <2> QED
    BY <1>a, <2>1
<1>4. CASE Finalizing
  <2>1. /\ i # cur => queue'[i] = queue[i]
        /\ queue'[cur] = queue[cur] \/ queue'[cur].status \in {"skipped", "done", "failed"}
    BY <1>4, FinalizeStep DEF Finalizing
  <2> QED
    BY <1>a, <2>1
<1>5. CASE Restart
  <2>1. /\ \/ queue'[i].status = queue[i].status
           \/ queue[i].status = "running" /\ queue'[i].status = "approved"
        /\ queue'[i].attempts = queue[i].attempts
        /\ queue'[i].resume_token = queue[i].resume_token /\ queue'[i].ttl = queue[i].ttl
    BY <1>5, RestartStep
  <2>2. queue[i].status = queue'[i].status
    BY <1>a, <2>1
  <2>3. queue[i] \in Doc /\ queue'[i] \in Doc
    BY DEF TypeInv, TypeOK, Queue
  <2>4. /\ queue[i] = [status |-> queue[i].status, attempts |-> queue[i].attempts,
                       resume_token |-> queue[i].resume_token, ttl |-> queue[i].ttl]
        /\ queue'[i] = [status |-> queue'[i].status, attempts |-> queue'[i].attempts,
                        resume_token |-> queue'[i].resume_token, ttl |-> queue'[i].ttl]
    BY <2>3 DEF Doc
  <2> QED
    BY <2>1, <2>2, <2>4
<1>6. ASSUME NEW S \in SUBSET Items, NEW d \in {"rejected", "skipped"},
             Approve(S) \/ Dismiss(S, d)
      PROVE  queue'[i] = queue[i]
  <2>1. queue'[i] = queue[i] \/ queue'[i].status \in {"approved", "rejected", "skipped"}
    BY <1>6, DecideStep DEF Approve, Dismiss
  <2> QED
    BY <1>a, <2>1
<1>7. ASSUME NEW j \in Items, TtlExpires(j) PROVE queue'[i] = queue[i]
  <2>1. queue'[j].ttl = TRUE /\ (i # j => queue'[i] = queue[i])
    BY <1>7, TtlStep
  <2> QED
    BY <1>a, <2>1
<1>8. TickQuiet \/ CallRaises \/ Die \/ Around => queue' = queue
  BY QuietStep, AroundStep DEF CallRaises, Die
<1> QED
  BY <1>1, <1>2, <1>3, <1>4, <1>5, <1>6, <1>7, <1>8, StepCases

\* What is born stands in Grow as in Stage.
LEMMA GrowFacts ==
  ASSUME TypeInv, NEW i \in Items
  PROVE  /\ Grow[i] = IF queue[i] = AbsentDoc THEN "unborn" ELSE Stage[i]
         /\ queue[i] = AbsentDoc => Stage[i] = "gone"
         /\ Stage[i] # "unborn" /\ Stage[i] \in {"open", "worked_on", "parked", "over", "gone"}
<1>1. queue[i].status \in Status /\ Stage[i] = StageOf[queue[i].status]
  BY StageOfItem
<1>2. queue[i] = AbsentDoc => queue[i].status = "absent"
  BY DocFacts
<1>3. Stage[i] \in {"open", "worked_on", "parked", "over", "gone"}
  BY <1>1, StageFacts DEF Status, OpenStatuses
<1> QED
  BY <1>1, <1>2, <1>3, StageFacts DEF Grow

LEMMA LifeIsGrown ==
  ASSUME TypeInv, TypeInv', LifeStep,
         \A i \in Items : queue'[i] = AbsentDoc <=> queue[i] = AbsentDoc
  PROVE  Grown!GrowingNext \/ UNCHANGED Grown!lifeVars
<1>1. \A i \in Items :
        /\ Grow[i] = IF queue[i] = AbsentDoc THEN "unborn" ELSE Stage[i]
        /\ Grow'[i] = IF queue[i] = AbsentDoc THEN "unborn" ELSE Stage'[i]
        /\ queue[i] = AbsentDoc => Stage[i] = "gone"
  <2>1. \A i \in Items : Grow'[i] = IF queue'[i] = AbsentDoc THEN "unborn" ELSE Stage'[i]
    BY DEF Grow, Stage
  <2> QED
    BY <2>1, GrowFacts
<1>2. /\ Grow = [i \in Items |-> Grow[i]] /\ Grow' = [i \in Items |-> Grow'[i]]
      /\ Stage = [i \in Items |-> Stage[i]] /\ Stage' = [i \in Items |-> Stage'[i]]
  BY DEF Grow, Stage
<1>3. ASSUME Stage' = Stage PROVE Grow' = Grow
  BY <1>1, <1>2, <1>3
<1>4. ASSUME NEW i \in Items, queue[i] # AbsentDoc, NEW s, Stage' = [Stage EXCEPT ![i] = s]
      PROVE  Grow' = [Grow EXCEPT ![i] = s]
  BY <1>1, <1>2, <1>4
<1>5. ASSUME NEW S \in SUBSET Life!Undecided, Life!Grant(S)
      PROVE  S \in SUBSET Grown!Undecided /\ Grown!Grant(S)
  <2>1. /\ S # {} /\ \A i \in S : Stage[i] = "open" /\ i \notin granted
        /\ granted' = granted \cup S /\ Stage' = Stage
        /\ (mishaps'.raises > 0) = (mishaps.raises > 0)
    BY <1>5 DEF Life!Grant, Life!Undecided, Life!At, Stage
  <2>2. S \subseteq Items /\ \A i \in S : Grow[i] = "open"
    BY <1>1, <2>1 DEF Life!Undecided, Life!At
  <2> QED
    BY <1>3, <2>1, <2>2 DEF Grown!Grant, Grown!Undecided, Grown!At, Grow
<1>6. ASSUME NEW S \in SUBSET Life!Undecided, Life!Refuse(S)
      PROVE  S \in SUBSET Grown!Undecided /\ Grown!Refuse(S)
  <2>1. /\ S # {} /\ \A i \in S : Stage[i] = "open" /\ i \notin granted
        /\ granted' = granted
        /\ Stage' = [i \in Items |-> IF i \in S THEN "over" ELSE Stage[i]]
        /\ (mishaps'.raises > 0) = (mishaps.raises > 0)
    BY <1>6 DEF Life!Refuse, Life!Undecided, Life!At, Stage
  <2>2. S \subseteq Items /\ \A i \in S : Grow[i] = "open"
    BY <1>1, <2>1 DEF Life!Undecided, Life!At
  <2>3. Grow' = [i \in Items |-> IF i \in S THEN "over" ELSE Grow[i]]
    BY <1>1, <1>2, <2>1
  <2> QED
    BY <2>1, <2>2, <2>3 DEF Grown!Refuse, Grown!Undecided, Grown!At, Grow
<1>7. ASSUME NEW i \in Items, Life!Begin(i)
      PROVE  Grown!Begin(i)
  <2>1. /\ i \in granted /\ Stage[i] \in {"open", "parked"}
        /\ (\A j \in Items : Stage[j] # "worked_on") \/ mishaps.raises > 0
        /\ Stage' = [Stage EXCEPT ![i] = "worked_on"]
        /\ granted' = granted /\ (mishaps'.raises > 0) = (mishaps.raises > 0)
    BY <1>7 DEF Life!Begin, Life!At, Stage
  <2>2. Grow[i] \in {"open", "parked"} /\ queue[i] # AbsentDoc
        /\ ((\A j \in Items : Grow[j] # "worked_on") \/ mishaps.raises > 0)
    BY <1>1, <2>1
  <2>3. Grow' = [Grow EXCEPT ![i] = "worked_on"]
    BY <1>4, <2>1, <2>2
  <2> QED
    BY <2>1, <2>2, <2>3 DEF Grown!Begin, Grown!At, Grow
<1>8. ASSUME NEW i \in Items, Life!Leave(i)
      PROVE  Grown!Leave(i)
  <2>1. /\ Stage[i] = "worked_on"
        /\ \E stage \in {"open", "parked", "over"} : Stage' = [Stage EXCEPT ![i] = stage]
        /\ granted' = granted /\ (mishaps'.raises > 0) = (mishaps.raises > 0)
    BY <1>8 DEF Life!Leave, Stage
  <2>2. Grow[i] = "worked_on" /\ queue[i] # AbsentDoc
    BY <1>1, <2>1
  <2>3. \E stage \in {"open", "parked", "over"} : Grow' = [Grow EXCEPT ![i] = stage]
    BY <1>4, <2>1, <2>2
  <2> QED
    BY <2>1, <2>2, <2>3 DEF Grown!Leave, Grow
<1>9. ASSUME NEW i \in Items, Life!Forget(i)
       PROVE  Grown!Forget(i) \/ UNCHANGED Grown!lifeVars
  <2>1. /\ Stage[i] = "over" \/ (mishaps.raises > 0 /\ i \in granted)
        /\ Stage' = [Stage EXCEPT ![i] = "gone"]
        /\ granted' = granted /\ (mishaps'.raises > 0) = (mishaps.raises > 0)
    BY <1>9 DEF Life!Forget, Stage
  <2>2. CASE queue[i] = AbsentDoc
    <3>1. Stage' = Stage
      BY <1>1, <1>2, <2>1, <2>2
    <3> QED
      BY <1>3, <2>1, <3>1 DEF Grown!lifeVars, Grow
  <2>3. CASE queue[i] # AbsentDoc
    <3>1. Grow' = [Grow EXCEPT ![i] = "gone"] /\ Grow[i] = Stage[i]
      BY <1>1, <1>4, <2>1, <2>3
    <3> QED
      BY <2>1, <3>1 DEF Grown!Forget, Grow
  <2> QED
    BY <2>2, <2>3
<1>10. CASE Life!Tear
  <2>1. Stage' = Stage /\ granted' = granted /\ (mishaps'.raises > 0) = TRUE
    BY <1>10 DEF Life!Tear, Stage
  <2>2. Grown!Tear
    BY <1>3, <2>1 DEF Grown!Tear, Grow
  <2> QED
    BY <2>2 DEF Grown!GrowingNext, Grown!Next
<1>11. ASSUME NEW i \in Items, Life!Reopen(i)
       PROVE  Grown!Reopen(i)
  <2>1. /\ mishaps.raises > 0 /\ i \in granted /\ Stage[i] = "over"
        /\ Stage' = [Stage EXCEPT ![i] = "open"]
        /\ granted' = granted /\ (mishaps'.raises > 0) = (mishaps.raises > 0)
    BY <1>11 DEF Life!Reopen, Stage
  <2>2. Grow[i] = "over" /\ queue[i] # AbsentDoc
    BY <1>1, <2>1
  <2>3. Grow' = [Grow EXCEPT ![i] = "open"]
    BY <1>4, <2>1, <2>2
  <2> QED
    BY <2>1, <2>2, <2>3 DEF Grown!Reopen, Grow
<1>12. CASE UNCHANGED Life!lifeVars
  <2>1. Stage' = Stage /\ granted' = granted /\ (mishaps'.raises > 0) = (mishaps.raises > 0)
    BY <1>12 DEF Life!lifeVars, Stage
  <2> QED
    BY <1>3, <2>1 DEF Grown!lifeVars, Grow
<1> QED
  BY <1>5, <1>6, <1>7, <1>8, <1>9, <1>10, <1>11, <1>12
     DEF LifeStep, Life!Next, Grown!GrowingNext, Grown!Next

\* The steps of discovery.
LEMMA DiscoveryGrows ==
  ASSUME TypeInv, DiscType, FoundInv, FreshInv, DiscoveryStep \/ DiscoveryFault
  PROVE  Grown!GrowingNext \/ UNCHANGED Grown!lifeVars
<1>a. granted' = granted /\ mishaps' = mishaps
  BY DiscoveryKeeps DEF othersSame
<1>b. queue \in Queue /\ \A i \in Items : queue[i] \in Doc
  BY DEF TypeInv, TypeOK, Queue
<1>c. AbsentDoc.status = "absent" /\ "absent" \in Status
  BY DocFacts DEF Status
<1>1. ASSUME queue' = queue PROVE UNCHANGED Grown!lifeVars
  BY <1>a, <1>1 DEF Grown!lifeVars
\* One document of a bulk update is withdrawn, or the filter leaves it.
<1>2. ASSUME NEW i \in Items, NEW from \in SUBSET {"awaiting_approval", "approved"},
             NEW to \in {"expired", "superseded"}, queue' = Bulk(queue, {i}, from, to)
      PROVE  Grown!GrowingNext \/ UNCHANGED Grown!lifeVars
  <2>1. to \in Status /\ to \in TerminalStatuses
    BY DEF Status, TerminalStatuses
  <2>2. \A j \in Items : queue'[j] = IF j = i /\ queue[j].status \in from
                                     THEN Moved(queue[j], to) ELSE queue[j]
    BY <1>2, <1>b, <2>1, BulkFacts
  <2>3. CASE queue[i].status \notin from
    <3>1. Grow' = Grow
      BY <2>2, <2>3 DEF Grow
    <3> QED
      BY <1>a, <3>1 DEF Grown!lifeVars, Grow
  <2>4. CASE queue[i].status \in from
    <3>1. Grow[i] = "open"
      <4>1. queue[i] # AbsentDoc /\ queue[i].status \in {"awaiting_approval", "approved"}
        BY <1>c, <2>4
      <4> QED
        BY <4>1, StageFacts DEF Grow, Status, OpenStatuses
    <3> DEFINE new == Moved(queue[i], to)
    <3>2. new.status = to /\ new # AbsentDoc
      <4>1. new.status = to
        BY <1>b, <2>1, MovedFacts
      <4> QED
        BY <1>c, <2>1, <4>1 DEF TerminalStatuses
    <3>3. \A j \in Items : queue'[j] = IF j = i THEN new ELSE queue[j]
      BY <2>2, <2>4
    <3> HIDE DEF new
    <3>4. Grow' = [Grow EXCEPT ![i] = StageOf[to]]
      BY <3>2, <3>3 DEF Grow
    <3>5. StageOf[to] = "over"
      BY <2>1, StageFacts
    <3>6. Grown!Withdraw(i)
      BY <1>a, <3>1, <3>4, <3>5 DEF Grown!Withdraw, Grow
    <3> QED
      BY <3>6 DEF Grown!GrowingNext
  <2> QED
    BY <2>3, <2>4
<1>3. ASSUME NEW i \in Items, ExpireStale(i)
      PROVE  Grown!GrowingNext \/ UNCHANGED Grown!lifeVars
  <2>1. queue' = Bulk(queue, {i}, {"awaiting_approval"}, "expired")
    BY <1>3 DEF ExpireStale, ExpireStaleAwaiting
  <2> QED
    BY <1>2, <2>1
<1>4. ASSUME NEW i \in Items, Supersede(i)
      PROVE  Grown!GrowingNext \/ UNCHANGED Grown!lifeVars
  <2>1. queue' = Bulk(queue, {i}, {"awaiting_approval", "approved"}, "superseded")
    BY <1>4 DEF Supersede, SupersedeOpenItems
  <2> QED
    BY <1>2, <2>1
<1>5. ASSUME NEW i \in Items, Insert(i)
      PROVE  Grown!GrowingNext
  <2>1. queue' = [queue EXCEPT ![i] = NewDoc] /\ queue[i] = AbsentDoc
    BY <1>5 DEF Insert, Inserted, FoundInv, NotYet
  <2>2. NewDoc # AbsentDoc /\ NewDoc.status = "awaiting_approval"
    BY <1>c DEF NewDoc
  <2>3. StageOf[NewDoc.status] = "open"
    BY <2>2, StageFacts DEF Status, OpenStatuses
  <2>4. Grow' = [Grow EXCEPT ![i] = "open"] /\ Grow[i] = "unborn"
    BY <1>b, <2>1, <2>2, <2>3 DEF Grow, Queue
  <2>5. Grown!Enter(i)
    BY <1>a, <2>4 DEF Grown!Enter, Grow
  <2> QED
    BY <2>5 DEF Grown!GrowingNext
<1>6. ASSUME \/ DiscoveryExpires \/ FindPending \/ FindActive \/ SetDiscovering \/ Dedupe
             \/ SendBatch \/ ReportFirst \/ CountOpenItems \/ ReportAgain
             \/ DiscoveryHandled \/ DiscoveryFault
             \/ \E found \in SUBSET Items : ScanCatalog(found)
      PROVE  queue' = queue
  BY <1>6 DEF DiscoveryExpires, FindPending, FindActive, SetDiscovering, Dedupe,
       SendBatch, ReportFirst, CountOpenItems, ReportAgain, DiscoveryHandled,
       DiscoveryFault, DiscoveryRaises, MarkingRaises, HandlerRaises, ScanCatalog
<1> QED
  BY <1>1, <1>3, <1>4, <1>5, <1>6 DEF DiscoveryStep

LEMMA GrowInitInv == LifeInit => GrowInv /\ Grown!GrowingInit
<1> SUFFICES ASSUME LifeInit PROVE GrowInv /\ Grown!GrowingInit
  OBVIOUS
<1>1. /\ queue = [i \in Items |-> AbsentDoc] /\ tick.pc = "idle" /\ granted = {}
      /\ started = {} /\ mishaps.raises = 0
  BY IdleFacts DEF LifeInit, ExecutorInit, NoMishap
<1>2. AbsentDoc.status = "absent"
  BY DocFacts
<1>3. GrantInv /\ HeldInv
  BY <1>1, <1>2 DEF GrantInv, HeldInv, WithStatus, OnTheWay, Busy, InHand
<1>4. UndecidedInv /\ BornInv
  BY <1>1, <1>2 DEF UndecidedInv, BornInv
<1>5. Grown!GrowingInit
  BY <1>1 DEF Grown!GrowingInit
<1> QED
  BY <1>3, <1>4, <1>5, LifeInitInv DEF GrowInv

\* What discovery leaves of the invariants about grants and the item in hand.
LEMMA KeptGrants ==
  ASSUME TypeInv, GrantInv, HeldInv, UndecidedInv, BornInv, QueueKept,
         UNCHANGED <<tick, mishaps, started, granted>>
  PROVE  GrantInv' /\ HeldInv' /\ UndecidedInv' /\ BornInv'
<1>1. /\ NewDoc.status = "awaiting_approval" /\ ~NewDoc.ttl /\ AbsentDoc.status = "absent"
      /\ NewDoc # AbsentDoc
  BY DocFacts DEF NewDoc
<1>2. tick.pc \in Busy => cur \in Items /\ cur \in granted
  BY DEF TypeInv, GrantInv
<1>3. GrantInv'
  BY <1>1, <1>2 DEF QueueKept, GrantInv, WithStatus, OnTheWay, cur
<1>4. (tick.pc \in InHand \cup {"count", "check", "close"}
         /\ queue[cur].status \in {"running", "absent", "done"})
        => queue'[cur] = queue[cur]
  BY <1>1, <1>2, HandIsBusy DEF QueueKept, BornInv
<1>5. HeldInv'
  BY <1>4 DEF HeldInv, DoneUnderHandler, cur, InHand
<1>6. UndecidedInv' /\ BornInv'
  BY <1>1 DEF QueueKept, UndecidedInv, BornInv
<1> QED
  BY <1>3, <1>5, <1>6

LEMMA GrowNextInv == GrowInv /\ [LifeNext]_lifeVars => GrowInv'
<1> SUFFICES ASSUME GrowInv, [LifeNext]_lifeVars PROVE GrowInv'
  OBVIOUS
<1>1. LifeInv' /\ TypeInv /\ TypeInv' /\ HandInv
  BY LifeNextInv DEF GrowInv, LifeInv
<1>2. CASE [Next]_coreVars
  <2>1. GrantInv' /\ HeldInv' /\ UndecidedInv'
    BY <1>1, <1>2, GrantNext, HeldNext, UndecidedNext DEF GrowInv
  <2>2. BornInv'
    <3>1. CASE UNCHANGED coreVars
      BY <3>1 DEF GrowInv, BornInv, coreVars, vars
    <3>2. ASSUME Next, NEW i \in Items, queue'[i] = AbsentDoc PROVE i \notin granted'
      <4>1. queue[i] = AbsentDoc /\ queue[i].status = "absent" /\ i \notin granted
        BY <1>1, <3>2, BornStays, DocFacts DEF GrowInv, BornInv
      <4>2. ASSUME NEW S \in SUBSET Items, Approve(S) PROVE i \notin granted'
        BY <4>1, <4>2 DEF Approve, WithStatus
      <4>3. ASSUME NEW S \in SUBSET Items, NEW d \in {"rejected", "skipped"}, Dismiss(S, d)
            PROVE  granted' = granted
        BY <4>3 DEF Dismiss
      <4> QED
        BY <3>2, <4>1, <4>2, <4>3, StepCases
    <3> QED
      BY <1>2, <3>1, <3>2 DEF BornInv
  <2> QED
    BY <1>1, <2>1, <2>2 DEF GrowInv
<1>3. CASE DiscoveryStep \/ DiscoveryFault
  <2>1. QueueKept /\ UNCHANGED <<tick, mishaps, started, granted>>
    BY <1>3, DiscoveryKeeps DEF GrowInv, LifeInv, othersSame
  <2> QED
    BY <1>1, <2>1, KeptGrants DEF GrowInv
<1>4. ~(DiscoveryStep \/ DiscoveryFault) => [Next]_coreVars
  BY DEF LifeNext, NewCapture, ExecutionStep, lifeVars
<1> QED
  BY <1>2, <1>3, <1>4

LEMMA EveryStepGrows ==
  GrowInv /\ GrowInv' /\ [LifeNext]_lifeVars => [Grown!GrowingNext]_(Grown!lifeVars)
<1> SUFFICES ASSUME GrowInv, GrowInv', [LifeNext]_lifeVars
             PROVE  Grown!GrowingNext \/ UNCHANGED Grown!lifeVars
  OBVIOUS
<1>1. TypeInv /\ TypeInv' /\ HandInv
  BY DEF GrowInv, LifeInv
<1>2. CASE Next
  <2>1. LifeStep
    BY <1>1, <1>2, EveryStepIsLifes DEF GrowInv
  <2>2. \A i \in Items : queue'[i] = AbsentDoc <=> queue[i] = AbsentDoc
    BY <1>1, <1>2, BornStays
  <2> QED
    BY <1>1, <2>1, <2>2, LifeIsGrown
<1>3. CASE UNCHANGED coreVars
  <2>1. UNCHANGED <<queue, mishaps, granted>>
    BY <1>3 DEF coreVars, vars
  <2> QED
    BY <2>1 DEF Grown!lifeVars
<1>4. CASE DiscoveryStep \/ DiscoveryFault
  BY <1>4, DiscoveryGrows DEF GrowInv, LifeInv
<1> QED
  BY <1>2, <1>3, <1>4 DEF LifeNext, NewCapture, ExecutionStep, lifeVars

\* Discovery beside the executor does to the queue what ItemLife allows a
\* campaign that is discovered again: whatever the catalog brings, it adds new
\* items, refuses undecided ones, and withdraws all that nobody works on.
THEOREM DiscoveryImplementsLife == LifeSpec => ImplementsGrowingLife
<1> QED
  BY GrowInitInv, GrowNextInv, EveryStepGrows, PTL
     DEF LifeSpec, ImplementsGrowingLife, Grown!GrowingSpec

\* However often items are superseded and found again, nothing is sent that
\* no DBA approved: what is found again has to be approved again.
THEOREM DiscoveryStartsGranted == LifeSpec => []StartedOnlyIfGranted
<1>1. GrowInv => StartedOnlyIfGranted
  BY DEF GrowInv, GrantInv, StartedOnlyIfGranted
<1> QED
  BY <1>1, GrowInitInv, GrowNextInv, PTL DEF LifeSpec

\* Discovery brings back nothing that has ended: to what Maintenance does with
\* terminal items it adds no step.
THEOREM DiscoveryRevivesNothing == LifeSpec => TerminalIsFinal
<1>1. ASSUME GrowInv, [LifeNext]_lifeVars, NEW i \in Items PROVE EndKept(i)
  <2>1. TypeInv /\ HandInv /\ HeldInv
    BY <1>1 DEF GrowInv, LifeInv
  <2>2. CASE Next
    BY <2>1, <2>2, TerminalStep
  <2>3. CASE UNCHANGED coreVars
    BY <2>3 DEF EndKept, coreVars, vars
  <2>4. CASE DiscoveryStep \/ DiscoveryFault
    <3>1. QueueKept
      BY <1>1, <2>4, DiscoveryKeeps DEF GrowInv, LifeInv
    <3> QED
      BY <3>1, DocFacts DEF QueueKept, EndKept, TerminalStatuses
  <2> QED
    BY <1>1, <2>2, <2>3, <2>4 DEF LifeNext, NewCapture, ExecutionStep, lifeVars
<1>2. GrowInv /\ [LifeNext]_lifeVars =>
        [\A i \in WithStatus(queue, TerminalStatuses) :
           \/ queue'[i].status \in {queue[i].status, "absent"}
           \/ /\ queue[i].status = "done" /\ mishaps.raises > 0
              /\ tick.pc = "failed" /\ i = cur]_queue
  BY <1>1 DEF EndKept, WithStatus
<1> QED
  BY <1>2, GrowInitInv, GrowNextInv, PTL DEF LifeSpec, TerminalIsFinal

-----------------------------------------------------------------------------
(* The single-item actions of the web.  A request that finds the status it *)
(* has read writes over no item in hand and none that is done; what it     *)
(* overtakes is out of the invariant for good.                             *)

PendingOK ==
  /\ requests \in Nat
  /\ pending \subseteq [id : Nat, item : Items, action : Actions, seen : Status]
  /\ \A r \in pending : r.seen \in Allowed[r.action]

FinishedOK(i) ==
  i \in finished => \/ queue[i].status \in {"done", "absent"}
                    \/ tick.pc = "succeeded" /\ cur = i

AttemptsOK(i) == queue[i].status \in OpenStatuses => queue[i].attempts < MaxAttempts

HeldOK == tick.pc \in InHand /\ cur \notin overtaken => queue[cur].status \in {"running", "absent"}

KeptInv ==
  mishaps = NoMishap =>
    /\ proc # "down"
    /\ HeldOK
    /\ \A i \in Items \ overtaken : AttemptsOK(i) /\ FinishedOK(i)

WebInv == TypeInv /\ PendingOK /\ GrantInv /\ KeptInv

-----------------------------------------------------------------------------
(* A write of the web.                                                     *)

LEMMA UpdateFacts ==
  ASSUME NEW d \in Doc, NEW action \in Actions
  PROVE  /\ SingleUpdate(d, action) \in Doc
         /\ SingleUpdate(d, action).status \in {"approved", "rejected", "skipped"}
         /\ SingleUpdate(d, action).status = "approved" => action \in {"approve", "reset"}
         /\ SingleUpdate(d, action).attempts = IF action = "reset" THEN 0 ELSE d.attempts
<1> USE DEF Doc, Status, TerminalStatuses, OpenStatuses, SingleUpdate
<1>1. CASE action = "approve"
  BY <1>1
<1>2. CASE action = "reject"
  BY <1>2
<1>3. CASE action = "skip"
  BY <1>3
<1>4. CASE action = "reset"
  BY <1>4
<1> QED
  BY <1>1, <1>2, <1>3, <1>4 DEF Actions

\* One item changes, to a decided status, and an approved one is granted.
LEMMA WriteStep ==
  ASSUME TypeInv, PendingOK, NEW r \in pending, WebWrite(r)
  PROVE  /\ queue' \in Queue /\ r.item \in Items
         /\ granted' \subseteq Items /\ granted \subseteq granted'
         /\ \A i \in Items : i # r.item => queue'[i] = queue[i]
         /\ \/ queue' = queue /\ overtaken' = overtaken
            \/ /\ queue'[r.item].status \in {"approved", "rejected", "skipped"}
               /\ queue'[r.item].status = "approved" =>
                    r.item \in granted' /\ r.action \in {"approve", "reset"}
               /\ queue'[r.item].attempts =
                    IF r.action = "reset" THEN 0 ELSE queue[r.item].attempts
               /\ \/ r.item \in overtaken'
                  \/ queue[r.item].status \in Allowed[r.action]
         /\ overtaken \subseteq overtaken'
         /\ r.action \in Actions
         /\ UNCHANGED <<campaign, tick, deferred, wasOpen, proc, window, server,
                        mishaps, started, finished, cancelling>>
<1>1. r.item \in Items /\ r.action \in Actions /\ queue \in Queue /\ granted \subseteq Items
      /\ r.seen \in Allowed[r.action]
  BY DEF PendingOK, TypeInv, TypeOK
<1>2. CASE queue[r.item].status = "absent"
  BY <1>1, <1>2 DEF WebWrite
<1>3. CASE queue[r.item].status # "absent"
  <2> DEFINE new == SingleUpdate(queue[r.item], r.action)
  <2>1. /\ new \in Doc /\ new.status \in {"approved", "rejected", "skipped"}
        /\ new.status = "approved" => r.action \in {"approve", "reset"}
        /\ new.attempts = IF r.action = "reset" THEN 0 ELSE queue[r.item].attempts
    BY <1>1, UpdateFacts DEF Queue
  <2>2. queue' = [queue EXCEPT ![r.item] = new]
    BY <1>3 DEF WebWrite
  <2>5. granted' = IF r.action \in {"approve", "reset"} THEN granted \cup {r.item} ELSE granted
    BY <1>3 DEF WebWrite
  <2>6. overtaken' = IF queue[r.item].status = r.seen THEN overtaken
                     ELSE overtaken \cup {r.item}
    BY <1>3 DEF WebWrite
  <2> HIDE DEF new
  <2>3. queue' \in Queue /\ \A i \in Items : queue'[i] = IF i = r.item THEN new ELSE queue[i]
    BY <1>1, <2>1, <2>2 DEF Queue
  <2>4. UNCHANGED <<campaign, tick, deferred, wasOpen, proc, window, server,
                    mishaps, started, finished, cancelling>>
    BY DEF WebWrite
  <2>7. granted' \subseteq Items /\ granted \subseteq granted'
        /\ (new.status = "approved" => r.item \in granted')
    BY <1>1, <2>1, <2>5
  <2>8. overtaken \subseteq overtaken'
        /\ (r.item \in overtaken' \/ queue[r.item].status \in Allowed[r.action])
    BY <1>1, <2>6
  <2> QED
    BY <1>1, <2>1, <2>3, <2>4, <2>7, <2>8
<1> QED
  BY <1>2, <1>3

LEMMA KeptWrite ==
  ASSUME TypeInv, PendingOK, KeptInv, NEW r \in pending, WebWrite(r)
  PROVE  KeptInv'
<1> SUFFICES ASSUME mishaps = NoMishap
             PROVE  /\ proc' # "down" /\ HeldOK'
                    /\ \A i \in Items \ overtaken' : AttemptsOK(i)' /\ FinishedOK(i)'
  BY WriteStep DEF KeptInv
<1>1. /\ proc # "down" /\ HeldOK
      /\ \A i \in Items \ overtaken : AttemptsOK(i) /\ FinishedOK(i)
  BY DEF KeptInv
<1>2. /\ UNCHANGED <<tick, proc, finished>> /\ overtaken \subseteq overtaken'
      /\ \A i \in Items : i # r.item => queue'[i] = queue[i]
      /\ r.item \in Items /\ r.action \in Actions
  BY WriteStep
<1>3. tick.pc \in InHand => cur \in Items
  BY HandIsBusy DEF TypeInv
<1>4. MaxAttempts \in Nat \ {0} /\ OpenStatuses \cap {"rejected", "skipped"} = {}
  BY ExecutorAssumption DEF OpenStatuses
<1>5. CASE queue'[r.item] = queue[r.item]
  BY <1>1, <1>2, <1>3, <1>5 DEF HeldOK, AttemptsOK, FinishedOK, cur
<1>6. CASE r.item \in overtaken'
  BY <1>1, <1>2, <1>3, <1>6 DEF HeldOK, AttemptsOK, FinishedOK, cur
<1>7. CASE queue'[r.item] # queue[r.item] /\ r.item \notin overtaken'
  <2>1. /\ queue[r.item].status \in Allowed[r.action]
        /\ queue'[r.item].status \in {"approved", "rejected", "skipped"}
        /\ queue'[r.item].status = "approved" => r.action \in {"approve", "reset"}
        /\ queue'[r.item].attempts = IF r.action = "reset" THEN 0 ELSE queue[r.item].attempts
    BY <1>7, WriteStep
  <2>2. /\ queue[r.item].status \in {"awaiting_approval", "approved", "failed", "rejected"}
        /\ r.action = "approve" => queue[r.item].status = "awaiting_approval"
    BY <1>2, <2>1 DEF Allowed, Actions
  <2>3. r.item \notin overtaken
    BY <1>2, <1>7
  <2>4. ~(tick.pc \in InHand /\ cur = r.item)
    BY <1>1, <2>2, <2>3 DEF HeldOK
  <2>5. r.item \notin finished
    BY <1>1, <1>2, <2>2, <2>3, <2>4 DEF FinishedOK, InHand
  <2>6. AttemptsOK(r.item)'
    <3>1. CASE r.action = "reset"
      BY <1>4, <2>1, <3>1 DEF AttemptsOK
    <3>2. CASE r.action = "approve"
      BY <1>1, <1>2, <2>1, <2>2, <2>3, <3>2 DEF AttemptsOK, OpenStatuses
    <3>3. CASE r.action \notin {"reset", "approve"}
      BY <1>4, <2>1, <3>3 DEF AttemptsOK
    <3> QED
      BY <3>1, <3>2, <3>3
  <2> QED
    BY <1>1, <1>2, <1>3, <2>4, <2>5, <2>6 DEF HeldOK, AttemptsOK, FinishedOK, cur
<1> QED
  BY <1>5, <1>6, <1>7

-----------------------------------------------------------------------------
(* What the executor and the operators do to the items no request overtook.*)

LEMMA KeptNext ==
  ASSUME TypeInv, TypeInv', KeptInv, [Next]_coreVars, overtaken' = overtaken
  PROVE  KeptInv'
<1> SUFFICES ASSUME mishaps' = NoMishap
             PROVE  /\ proc' # "down" /\ HeldOK'
                    /\ \A i \in Items \ overtaken : AttemptsOK(i)' /\ FinishedOK(i)'
  BY DEF KeptInv
<1> DEFINE Kept == /\ proc' # "down" /\ HeldOK'
                   /\ \A i \in Items \ overtaken : AttemptsOK(i)' /\ FinishedOK(i)'
<1> USE DEF cur, OtherItemsSame
<1>a. mishaps = NoMishap =>
        /\ proc # "down" /\ HeldOK
        /\ \A i \in Items \ overtaken : AttemptsOK(i) /\ FinishedOK(i)
  BY DEF KeptInv
<1>b. tick.pc \in InHand => cur \in Items
  BY HandIsBusy DEF TypeInv
<1>c. MaxAttempts \in Nat /\ (\A i \in Items : queue[i].attempts \in Nat)
      /\ tick.attempts \in Nat
  BY ExecutorAssumption DEF TypeInv, TypeOK, Queue, Doc, Tick
<1>d. ASSUME UNCHANGED <<queue, tick, mishaps, finished>>, proc' # "down" \/ proc' = proc
      PROVE  Kept
  BY <1>a, <1>d DEF HeldOK, AttemptsOK, FinishedOK
<1>1. CASE UNCHANGED coreVars
  BY <1>1, <1>d DEF coreVars, vars
<1>2. ASSUME NEW i \in Items, Claiming(i) PROVE Kept
  <2>1. /\ queue[i].status \in {"approved", "paused"} /\ queue'[i].status = "running"
        /\ queue'[i].attempts = queue[i].attempts
        /\ \A j \in Items : j # i => queue'[j] = queue[j]
        /\ tick.pc \in {"gates", "claim"}
        /\ tick'.pc \in {"claimed", "bounce"} /\ tick'.item = i
        /\ UNCHANGED <<proc, mishaps, finished>>
    BY <1>2, ClaimStep DEF Claiming
  <2> QED
    BY <1>a, <2>1 DEF HeldOK, AttemptsOK, FinishedOK, OpenStatuses
<1>3. CASE Releasing
  <2>1. /\ cur \in Items /\ tick.pc \in InHand /\ tick.pc # "succeeded"
        /\ \A k \in Items : k # cur => queue'[k] = queue[k]
        /\ tick'.pc \in {"idle", "claim"}
        /\ UNCHANGED <<proc, mishaps, finished>>
    BY <1>3, ReleaseStep
       DEF Releasing, BounceDeferred, Defer, ReleasePaused, RetryLater
  <2>2. RetryLater => tick.attempts + 1 < MaxAttempts
    BY <1>c DEF RetryLater, LastAttempt
  <2>3. \/ queue'[cur] = queue[cur]
        \/ /\ queue[cur].status # "absent"
           /\ RetryLater => queue'[cur].attempts = tick.attempts + 1
           /\ ~RetryLater => queue'[cur].attempts = queue[cur].attempts
    BY <1>3, ReleaseStep DEF Releasing
  <2>4. ~HeldOK \/ cur \in overtaken \/ queue[cur].status \in {"running", "absent"}
    BY <2>1 DEF HeldOK
  <2>5. "running" \in OpenStatuses
    BY DEF OpenStatuses
  <2>6. HeldOK'
    BY <2>1 DEF HeldOK, InHand
  <2>7. ASSUME NEW i \in Items \ overtaken PROVE AttemptsOK(i)' /\ FinishedOK(i)'
    <3>1. CASE i # cur
      BY <1>a, <2>1, <2>7, <3>1 DEF AttemptsOK, FinishedOK
    <3>2. CASE i = cur
      <4>1. queue[i].status \in {"running", "absent"} /\ AttemptsOK(i) /\ FinishedOK(i)
        BY <1>a, <2>1, <2>4, <2>7, <3>2
      <4>2. queue[i].status = "absent" => queue'[i] = queue[i]
        BY <1>3, <3>2, ReleaseStep DEF Releasing
      <4>3. AttemptsOK(i)'
        <5>1. CASE queue'[i] = queue[i]
          BY <4>1, <5>1 DEF AttemptsOK
        <5>2. CASE queue'[i] # queue[i]
          <6>1. queue[i].status = "running" /\ queue[i].attempts < MaxAttempts
            BY <4>1, <4>2, <5>2, <2>5 DEF AttemptsOK
          <6>2. queue'[i].attempts < MaxAttempts
            BY <2>2, <2>3, <3>2, <5>2, <6>1
          <6> QED
            BY <6>2 DEF AttemptsOK
        <5> QED
          BY <5>1, <5>2
      <4>4. FinishedOK(i)'
        <5>1. i \notin finished \/ queue[i].status = "absent"
          BY <2>1, <4>1 DEF FinishedOK
        <5> QED
          BY <2>1, <4>2, <5>1 DEF FinishedOK
      <4> QED
        BY <4>3, <4>4
    <3> QED
      BY <3>1, <3>2
  <2> QED
    BY <1>a, <2>1, <2>6, <2>7
<1>4. CASE Finalizing
  <2>1. /\ cur \in Items /\ tick.pc \in InHand /\ tick'.pc = "count"
        /\ \A k \in Items : k # cur => queue'[k] = queue[k]
        /\ tick'.bump \in {"skipped", "done", "failed"}
        /\ queue[cur].status = "absent" => queue'[cur] = queue[cur]
        /\ queue[cur].status # "absent" => queue'[cur].status = tick'.bump
        /\ UNCHANGED <<proc, mishaps, finished>>
    BY <1>4, FinalizeStep DEF Finalizing
  <2>2. tick.pc = "succeeded" => tick'.bump = "done"
    BY <1>4 DEF Finalizing, PolicyDisabled, DryRunDone, FinalizeDone, GiveUp, TypeInv,
                TypeOK, Tick
  <2>3. HeldOK'
    BY <2>1 DEF HeldOK, InHand
  <2>4. "absent" \notin OpenStatuses /\ {"skipped", "done", "failed"} \cap OpenStatuses = {}
    BY DEF OpenStatuses
  <2>5. ASSUME NEW i \in Items \ overtaken PROVE AttemptsOK(i)' /\ FinishedOK(i)'
    <3>1. CASE i # cur
      BY <1>a, <2>1, <2>5, <3>1 DEF AttemptsOK, FinishedOK
    <3>2. CASE i = cur
      <4>1. queue[cur].status \in {"running", "absent"} /\ FinishedOK(cur)
        BY <1>a, <2>1, <2>5, <3>2 DEF HeldOK
      <4>2. AttemptsOK(i)'
        BY <2>1, <2>4, <3>2 DEF AttemptsOK
      <4>3. FinishedOK(i)'
        BY <2>1, <2>2, <3>2, <4>1 DEF FinishedOK
      <4> QED
        BY <4>2, <4>3
    <3> QED
      BY <3>1, <3>2
  <2> QED
    BY <1>a, <2>1, <2>3, <2>5
<1>5. CASE TickQuiet
  <2>1. queue' = queue /\ proc' = proc /\ mishaps' = mishaps
    BY <1>5, QuietStep
  <2>2. \/ tick' = tick
        \/ tick.pc \notin InHand /\ tick'.pc \notin InHand
        \/ tick.pc \in InHand /\ tick'.pc \in InHand /\ tick'.item = cur
    BY <1>5, QuietStep, HandIsBusy
  <2>3. HeldOK'
    BY <1>a, <2>1, <2>2 DEF HeldOK
  <2>4. \A i \in Items \ overtaken : AttemptsOK(i)'
    BY <1>a, <2>1 DEF AttemptsOK
  <2>5. \A i \in Items \ overtaken : FinishedOK(i)'
    BY <1>5, <1>a, <2>1, QuietFinished DEF FinishedOK
  <2> QED
    BY <1>a, <2>1, <2>3, <2>4, <2>5
<1>6. CASE CallRaises \/ Die
  <2>1. mishaps \in [deaths : Nat, raises : Nat]
    BY DEF TypeInv, TypeOK
  <2>2. mishaps'.raises = mishaps.raises + 1 \/ mishaps'.deaths = mishaps.deaths + 1
    BY <1>6, <2>1 DEF CallRaises, Die
  <2> QED
    BY <2>1, <2>2 DEF NoMishap
<1>7. ~Restart
  <2>1. Restart => mishaps' = mishaps /\ proc = "down"
    BY DEF Restart, Start, Recover
  <2> QED
    BY <1>a, <2>1
<1>8. CASE Around
  BY <1>8, <1>d, AroundStep
<1>9. ASSUME NEW S \in SUBSET Items, NEW d \in {"rejected", "skipped"},
             Approve(S) \/ Dismiss(S, d)
      PROVE  Kept
  <2>1. UNCHANGED <<tick, proc, mishaps, finished>>
    BY <1>9 DEF Approve, Dismiss
  <2>2. \A i \in Items :
          \/ queue'[i] = queue[i]
          \/ /\ queue[i].status = "awaiting_approval"
             /\ queue'[i].status \in {"approved", d}
             /\ queue'[i].attempts = queue[i].attempts
    BY <1>9, DecideStep DEF Approve, Dismiss
  <2>3. HeldOK'
    BY <1>a, <1>b, <2>1, <2>2 DEF HeldOK
  <2>4. \A i \in Items \ overtaken : AttemptsOK(i)'
    BY <1>a, <2>1, <2>2 DEF AttemptsOK, OpenStatuses
  <2>5. \A i \in Items \ overtaken : FinishedOK(i)'
    BY <1>a, <2>1, <2>2 DEF FinishedOK
  <2> QED
    BY <1>a, <2>1, <2>3, <2>4, <2>5
<1>10. ASSUME NEW i \in Items, TtlExpires(i) PROVE Kept
  <2>1. /\ queue'[i].status = "absent"
        /\ \A j \in Items : j # i => queue'[j] = queue[j]
        /\ UNCHANGED <<tick, proc, mishaps, finished>>
    BY <1>10, TtlStep
  <2>2. HeldOK'
    BY <1>a, <1>b, <2>1 DEF HeldOK
  <2>3. \A j \in Items \ overtaken : AttemptsOK(j)' /\ FinishedOK(j)'
    BY <1>a, <2>1 DEF AttemptsOK, FinishedOK, OpenStatuses
  <2> QED
    BY <1>a, <2>1, <2>2, <2>3
<1> QED
  BY <1>1, <1>2, <1>3, <1>4, <1>5, <1>6, <1>7, <1>8, <1>9, <1>10, StepCases

-----------------------------------------------------------------------------
LEMMA WebInitInv == WebInit => WebInv
<1> SUFFICES ASSUME WebInit PROVE WebInv
  OBVIOUS
<1>1. TypeInv /\ GrantInv /\ AttemptInv
  BY TypeInit, GrantInit, AttemptInit DEF WebInit
<1>2. KeptInv
  <2>1. tick.pc = "idle" /\ proc = "up" /\ finished = {}
    BY IdleFacts DEF WebInit, Init, ExecutorInit
  <2> QED
    BY <1>1, <2>1 DEF KeptInv, HeldOK, InHand, AttemptsOK, FinishedOK, AttemptInv, ItemBounded
<1> QED
  BY <1>1, <1>2 DEF WebInit, WebInv, PendingOK

LEMMA WebNextInv == WebInv /\ [WebNext]_webVars => WebInv'
<1> SUFFICES ASSUME WebInv, [WebNext]_webVars PROVE WebInv'
  OBVIOUS
<1> USE DEF WebInv
<1>1. ASSUME [Next]_coreVars, PendingOK', overtaken' = overtaken PROVE WebInv'
  <2>1. TypeInv'
    BY <1>1, TypeNext
  <2>2. GrantInv'
    BY <1>1, <2>1, GrantNext
  <2>3. KeptInv'
    BY <1>1, <2>1, KeptNext
  <2> QED
    BY <1>1, <2>1, <2>2, <2>3
<1>2. CASE Next /\ UNCHANGED <<pending, requests, overtaken>>
  BY <1>1, <1>2 DEF PendingOK
<1>3. CASE UNCHANGED webVars
  BY <1>1, <1>3 DEF webVars, PendingOK
<1>4. ASSUME NEW i \in Items, NEW action \in Actions, WebRead(i, action) PROVE WebInv'
  <2>1. PendingOK'
    <3>1. queue[i].status \in Status /\ queue[i].status \in Allowed[action]
      BY <1>4 DEF WebRead, AssertTransition, TypeInv, TypeOK, Queue, Doc
    <3>2. pending' = pending \cup {[id |-> requests, item |-> i, action |-> action,
                                    seen |-> queue[i].status]}
          /\ requests' = requests + 1
      BY <1>4 DEF WebRead
    <3> QED
      BY <3>1, <3>2 DEF PendingOK
  <2> QED
    BY <1>1, <1>4, <2>1 DEF WebRead
<1>5. ASSUME NEW r \in pending, WebWrite(r) PROVE WebInv'
  <2>1. /\ queue' \in Queue
        /\ granted' \subseteq Items /\ granted \subseteq granted'
        /\ \A i \in Items :
             \/ queue'[i] = queue[i]
             \/ /\ queue'[i].status \in {"approved", "rejected", "skipped"}
                /\ queue'[i].status = "approved" => i \in granted'
        /\ UNCHANGED <<campaign, tick, deferred, wasOpen, proc, window, server,
                       mishaps, started, finished, cancelling>>
    BY <1>5, WriteStep
  <2>2. TypeInv'
    BY <2>1 DEF TypeInv, TypeOK, cur
  <2>3. PendingOK'
    BY <1>5 DEF WebWrite, PendingOK
  <2>4. GrantInv'
    <3>1. ASSUME NEW i \in Items, queue'[i].status \in OnTheWay PROVE i \in granted'
      BY <2>1, <3>1 DEF GrantInv, WithStatus, OnTheWay
    <3> QED
      BY <2>1, <3>1 DEF GrantInv, WithStatus, cur
  <2>5. KeptInv'
    BY <1>5, KeptWrite
  <2> QED
    BY <2>2, <2>3, <2>4, <2>5
<1> QED
  BY <1>2, <1>3, <1>4, <1>5 DEF WebNext, WebStep

\* As long as no request writes over a status it has not read, the web's
\* actions, a reset among them, leave every item that can be claimed attempts,
\* and have no finished statement run again.
THEOREM WebKeepsLimits == WebSpec => []KeptUnlessOvertaken
<1>1. WebInv => KeptUnlessOvertaken
  BY DEF WebInv, KeptInv, KeptUnlessOvertaken, AttemptsOK, FinishedOK
<1> QED
  BY <1>1, WebInitInv, WebNextInv, PTL DEF WebSpec

\* A statement is sent only for an item that somebody approved, in Telegram,
\* in bulk, or one by one on the web, where a reset counts as an approval.
THEOREM WebStartsGranted == WebSpec => []StartedOnlyIfGranted
<1>1. WebInv => StartedOnlyIfGranted
  BY DEF WebInv, GrantInv, StartedOnlyIfGranted
<1> QED
  BY <1>1, WebInitInv, WebNextInv, PTL DEF WebSpec
=============================================================================
