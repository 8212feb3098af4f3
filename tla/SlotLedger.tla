----------------------------- MODULE SlotLedger ------------------------------
(***************************************************************************)
(* SlotLedger (crates/bb-archipelago/src/ledger.rs): the durable receive   *)
(* state of one seed and slot, as a record, and its methods as operators.  *)
(* A method whose ensure! can fail has a guard CanX(s, ...); X(s, ...) is  *)
(* the record it leaves.                                                   *)
(*                                                                         *)
(*   highest    highest_processed_index, Nothing when no index is processed*)
(*   acked      acknowledged: "none", "delivered", or the class of the     *)
(*              reason an entry is blocked with                            *)
(*   pending    the plan being delivered, NoPlan when there is none        *)
(*   redeliver  indices below the cursor to deliver again                  *)
(*   deferred   deferred_vial_ap                                           *)
(*   mark       save_watermark                                             *)
(***************************************************************************)
EXTENDS Integers, FiniteSetsExt

CONSTANTS
  N,         \* bound: items the server sends, indices 0 .. N-1
  MaxStack   \* bound: largest quantity a plan's baseline records

ASSUME SlotLedgerAssumption == N \in Nat \ {0} /\ MaxStack \in Nat

Idx     == 0 .. N-1
Nothing == -1

\* The reasons of a blocked entry, as the ledger tells them apart:
\*   fixed   park_cause_is_fixed: quantity_mismatch, or refused by the game
\*           with no execution evidence
\*   compat  a binding an older client did not understand
\*   vial    an absent Blood Vial refused before execution
\*   other   anything else, an executed grant that fell short included
Blocked == {"fixed", "compat", "vial", "other"}
Acks    == Blocked \cup {"none", "delivered"}

Plans == [index : Idx, granted : BOOLEAN, before : Nothing .. MaxStack,
          equip : BOOLEAN, equipped : BOOLEAN]

NoPlan == [index |-> Nothing, granted |-> FALSE, before |-> Nothing,
           equip |-> FALSE, equipped |-> FALSE]

Slots == [highest   : Nothing .. N-1,
          acked     : [Idx -> Acks],
          pending   : Plans \cup {NoPlan},
          redeliver : SUBSET Idx,
          deferred  : SUBSET Idx,
          mark      : Nothing .. N-1]

EmptySlot == [highest   |-> Nothing,
              acked     |-> [i \in Idx |-> "none"],
              pending   |-> NoPlan,
              redeliver |-> {},
              deferred  |-> {},
              mark      |-> Nothing]

-----------------------------------------------------------------------------
NextIndex(s) ==
  IF s.redeliver # {} THEN Min(s.redeliver) ELSE s.highest + 1

\* begin: the plan must be the next index; a plan already there must be the
\* same one apart from its sampled baseline.
CanBegin(s, p) ==
  /\ p.index = NextIndex(s)
  /\ s.pending = NoPlan \/ [p EXCEPT !.before = s.pending.before] = s.pending

Begin(s, p) == IF s.pending = NoPlan THEN [s EXCEPT !.pending = p] ELSE s

FreshPlan(i, equip) ==
  [index |-> i, granted |-> FALSE, before |-> Nothing,
   equip |-> equip, equipped |-> FALSE]

RecordObservedBefore(s, q) == [s EXCEPT !.pending.before = q]
ClearObservedBefore(s)     == [s EXCEPT !.pending.before = Nothing]
MarkGrantComplete(s)       == [s EXCEPT !.pending.granted = TRUE]
MarkEquipComplete(s)       == [s EXCEPT !.pending.equipped = TRUE]

\* advance_cursor: the index leaves the requeue set and the cursor never
\* moves backwards.
AdvanceCursor(s, i) ==
  [s EXCEPT !.redeliver = @ \ {i},
            !.highest   = IF @ > i THEN @ ELSE i]

Retire(s, i, ack) ==
  [AdvanceCursor(s, i) EXCEPT !.acked[i] = ack, !.pending = NoPlan]

\* acknowledge and acknowledge_blocked.
CanAcknowledge(s, i) ==
  /\ i = NextIndex(s) /\ s.pending.index = i
  /\ s.pending.granted
  /\ s.pending.equip => s.pending.equipped

Acknowledge(s, i) == Retire(s, i, "delivered")

CanPark(s, i) == i = NextIndex(s) /\ s.pending.index = i

AcknowledgeBlocked(s, i, reason) == Retire(s, i, reason)

\* Mutant: parks are requeued beside a pending plan.
RequeueBesidePlan(s, reason) ==
  LET parked == {i \in Idx : s.acked[i] = reason}
  IN [s EXCEPT !.acked     = [i \in Idx |-> IF i \in parked THEN "none" ELSE @[i]],
               !.redeliver = @ \cup parked]

\* requeue_fixed_cause_parks and requeue_now_compatible_parks: nothing moves
\* while a plan is pending.
RequeueAll(s, reason) ==
  LET parked == {i \in Idx : s.acked[i] = reason}
  IN IF s.pending # NoPlan THEN s
     ELSE [s EXCEPT !.acked     = [i \in Idx |-> IF i \in parked THEN "none" ELSE @[i]],
                    !.redeliver = @ \cup parked]

CanRequeueBlocked(s, i) == s.acked[i] \in Blocked /\ s.pending = NoPlan

\* Mutant: the index stays among the deferred Vial rewards.
RequeueStaysDeferred(s, i) ==
  [s EXCEPT !.acked[i] = "none", !.redeliver = @ \cup {i}]

RequeueBlocked(s, i) ==
  [s EXCEPT !.acked[i]  = "none",
            !.deferred  = @ \ {i},
            !.redeliver = @ \cup {i}]

CanUnblock(s, i) == s.acked[i] \in Blocked

Unblock(s, i) == [s EXCEPT !.acked[i] = "delivered"]

\* Mutant: the acknowledgements of the rewound indices stay.
RewindCursorOnly(s, first) ==
  [s EXCEPT !.redeliver = {i \in @ : i < first},
            !.highest   = first - 1,
            !.pending   = NoPlan]

\* Mutant: the rewind stops one index late.
RewindPast(s, first) ==
  [s EXCEPT !.acked     = [i \in Idx |-> IF i < first THEN @[i] ELSE "none"],
            !.redeliver = {i \in @ : i < first},
            !.highest   = first,
            !.pending   = NoPlan]

\* rewind_to, and attest_restore, which is the same.
RewindTo(s, first) ==
  [s EXCEPT !.acked     = [i \in Idx |-> IF i < first THEN @[i] ELSE "none"],
            !.redeliver = {i \in @ : i < first},
            !.highest   = first - 1,
            !.pending   = NoPlan]

\* Mutant: a ledger behind the save goes on from its own cursor.
ResumeBehindSave(s, w) ==
  CASE w = Nothing /\ s.mark # Nothing -> "Hold"
    [] w = Nothing /\ s.mark = Nothing -> "Resume"
    [] w # Nothing /\ s.highest <= w   -> "Resume"
    [] w # Nothing /\ s.highest > w    -> "Reissue"

\* reconcile_save_watermark: what comparing the save's watermark w with the
\* cursor decides, and the slot it leaves.
WatermarkOutcome(s, w) ==
  CASE w = Nothing /\ s.mark # Nothing -> "Hold"
    [] w = Nothing /\ s.mark = Nothing -> "Resume"
    [] w # Nothing /\ s.highest = w    -> "Resume"
    [] w # Nothing /\ s.highest < w    -> "AdoptSaveCursor"
    [] w # Nothing /\ s.highest > w    -> "Reissue"

\* Mutant: the adopted cursor is the next index of the save.
AdoptPastSave(s, w) ==
  CASE w = Nothing -> s
    [] w # Nothing /\ s.highest = w -> [s EXCEPT !.mark = w]
    [] w # Nothing /\ s.highest < w ->
         [s EXCEPT !.highest = w + 1, !.pending = NoPlan, !.mark = w]
    [] w # Nothing /\ s.highest > w -> [RewindTo(s, w + 1) EXCEPT !.mark = w]

ReconcileSaveWatermark(s, w) ==
  LET outcome == WatermarkOutcome(s, w)
  IN CASE w = Nothing -> s
       [] w # Nothing /\ outcome = "Resume" -> [s EXCEPT !.mark = w]
       [] outcome = "AdoptSaveCursor" ->
            [s EXCEPT !.highest = w, !.pending = NoPlan, !.mark = w]
       [] outcome = "Reissue" -> [RewindTo(s, w + 1) EXCEPT !.mark = w]
=============================================================================
