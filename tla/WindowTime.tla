----------------------------- MODULE WindowTime -----------------------------
(***************************************************************************)
(* The two computations of "is the maintenance window open": the executor's *)
(* (maintenance/window/window_service.py) and the one the web shows         *)
(* (layer3/apps/api/src/services/maintenance-service.ts).                   *)
(*                                                                         *)
(* A time is a number of minutes of the Vietnamese wall clock.  Offset is   *)
(* VN_OFFSET_MS: the runner stores wall-clock times as if they were UTC,    *)
(* the web converts the start of the window to real UTC before comparing.   *)
(***************************************************************************)
EXTENDS Integers, FiniteSets

CONSTANTS
  Day,             (* minutes of a day: 1440                               *)
  Offset,          (* VN_OFFSET_MS in minutes: 420                         *)
  Null,
  DefaultStart, DefaultEnd, DefaultBudget   (* 02:30, 05:00, 150           *)

ASSUME DayAssumption ==
  /\ Day \in Nat \ {0}
  /\ Offset \in 0..Day
  /\ DefaultStart \in 0..Day - 1 /\ DefaultEnd \in 0..Day - 1
  /\ DefaultBudget \in Nat \ {0}
  /\ Null \notin Nat
  /\ Null \notin [start : Int, end : Int, slot : [start : Nat, end : Nat, budget : Nat]]

Weekdays == 0..6

(* A slot as stored; a part may be missing when the document was written   *)
(* by hand.                                                                *)
SlotDoc(Times, Budgets) ==
  [start : Times \cup {Null}, end : Times \cup {Null}, budget : Budgets \cup {Null}]

OrElse(value, default) == IF value = Null THEN default ELSE value

(* An executed statement as the history stores it.                         *)
Minutes(h) == h.end - h.start

\* The sum of the durations, which are not negative: one for each minute.
SumMinutes(H) == Cardinality(UNION {{h} \X (1..Minutes(h)) : h \in H})

AtLeastZero(n) == IF n < 0 THEN 0 ELSE n

-----------------------------------------------------------------------------
(* The web.                                                                *)

\* Mutant: the minute of the end belongs to the window.
SlotContainsEnd(start, end, minute) ==
  \/ start <= end /\ start <= minute /\ minute <= end
  \/ start > end /\ (start <= minute \/ minute <= end)

\* slotContains: a slot whose two ends agree contains every minute.
SlotContains(start, end, minute) ==
  \/ start = end
  \/ start < end /\ start <= minute /\ minute < end
  \/ start > end /\ (start <= minute \/ minute < end)

\* resolveWindowSlot
ResolveWindowSlot(slot) ==
  LET start == OrElse(slot.start, DefaultStart)
      end   == OrElse(slot.end, DefaultEnd)
  IN [start |-> start, end |-> end, budget |-> OrElse(slot.budget, AtLeastZero(end - start))]

\* mapWindowSlotConfig: all or nothing.
MapWindowSlotConfig(slot) ==
  IF slot = Null THEN Null
  ELSE IF Null \in {slot.start, slot.end, slot.budget} THEN Null ELSE slot

\* getWindowStartUtc, as a wall-clock time: the last start at or before now.
WindowStart(now, start) ==
  LET today == now - (now % Day) + start
  IN IF today > now THEN today - Day ELSE today

\* computeBudgetUsedMinutes: stored wall-clock starts against a UTC instant.
BudgetUsed(history, now, start) ==
  SumMinutes({h \in history : h.start >= WindowStart(now, start) - Offset})

ComputeWindowReason(open, kill, remaining) ==
  CASE kill               -> "kill_switch"
    [] ~kill /\ ~open     -> "closed"
    [] ~kill /\ open /\ remaining <= 0 -> "budget_exhausted"
    [] OTHER              -> "open"

\* getWindowState looks at the default slot alone.
WebWindowState(doc, history, now) ==
  LET slot      == ResolveWindowSlot(doc.default)
      used      == BudgetUsed(history, now, slot.start)
      remaining == AtLeastZero(slot.budget - used)
      open      == /\ doc.enabled /\ ~doc.kill
                   /\ SlotContains(slot.start, slot.end, now % Day)
                   /\ remaining > 0
  IN [open |-> open, remaining |-> remaining, used |-> used, slot |-> slot,
      enabled |-> doc.enabled, kill |-> doc.kill,
      reason |-> ComputeWindowReason(open, doc.kill, remaining)]

-----------------------------------------------------------------------------
(* The executor.                                                           *)

\* WindowSlot with its defaults.
ExecutorSlot(slot) ==
  [start |-> OrElse(slot.start, DefaultStart), end |-> OrElse(slot.end, DefaultEnd),
   budget |-> OrElse(slot.budget, DefaultBudget)]

\* slot_for_weekday
SlotForDay(doc, day) ==
  ExecutorSlot(OrElse(doc.days[day % 7], doc.default))

\* _slot_bounds_for_day: it crosses midnight only if it starts after its end.
SlotBounds(day, slot) ==
  [start |-> day * Day + slot.start,
   end   |-> day * Day + slot.end + (IF slot.start > slot.end THEN Day ELSE 0),
   slot  |-> slot]

\* current_window_bounds and _bounds_for_slot: today's window, else yesterday's.
CurrentBounds(todays, yesterdays, now) ==
  LET today     == now \div Day
      within(b) == b.start <= now /\ now < b.end
      first     == SlotBounds(today, todays)
      second    == SlotBounds(today - 1, yesterdays)
  IN IF within(first) THEN first ELSE IF within(second) THEN second ELSE Null

Closed(reason) == [open |-> FALSE, remaining |-> 0, reason |-> reason]

OpenFor(remaining) ==
  IF remaining <= 0 THEN Closed("budget_exhausted")
  ELSE [open |-> TRUE, remaining |-> remaining, reason |-> "open"]

SmallerOf(m, n) == IF m < n THEN m ELSE n

\* WindowService.state
ExecutorWindowState(doc, history, now) ==
  LET today  == now \div Day
      bounds == CurrentBounds(SlotForDay(doc, today), SlotForDay(doc, today - 1), now)
      spent  == SumMinutes({h \in history : bounds.start <= h.end /\ h.end < now})
  IN CASE ~doc.enabled                               -> Closed("disabled")
       [] doc.enabled /\ doc.kill                    -> Closed("kill_switch")
       [] doc.enabled /\ ~doc.kill /\ bounds = Null  -> Closed("outside_window")
       [] OTHER -> OpenFor(SmallerOf(bounds.slot.budget - spent, bounds.end - now))

\* state_from_override: the slot of the campaign and nothing of the document.
OverrideWindowState(slot, spent, now) ==
  LET bounds == CurrentBounds(slot, slot, now)
  IN IF bounds = Null THEN Closed("outside_window")
     ELSE OpenFor(SmallerOf(AtLeastZero(slot.budget - spent), bounds.end - now))
=============================================================================
