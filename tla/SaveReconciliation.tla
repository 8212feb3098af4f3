------------------------- MODULE SaveReconciliation -------------------------
(***************************************************************************)
(* Save restores: ClientRuntime::reconcile_watermark (client_loop.rs) over *)
(* SlotLedger::reconcile_save_watermark, the watermark writes at the end of*)
(* a delivery, and the bb-restored tool.  The receive path is taken one    *)
(* poll at a time: a poll compares the save with the ledger, and then      *)
(* plans the next item, or finishes the plan.                              *)
(*                                                                         *)
(*   supported  whether the backend has a writable save field; without one *)
(*              the slot is in attested mode                               *)
(*   readable   whether that field can be read now                         *)
(*   slot       the slot ledger                                            *)
(*   save       the loaded save: how often it holds each index, and the    *)
(*              receive watermark written into it                          *)
(*   copies     the saves the player can go back to, oldest first          *)
(*   completed  the grants the backend remembers as executed: it answers   *)
(*              them with Complete and does not repeat them                *)
(*   received   how many items the server has sent                         *)
(*   reordered  indices delivered out of order (`retry`), on top of a      *)
(*              restore nobody attested, or without their watermark        *)
(*   erased     indices a restore took away after the plan was marked      *)
(*              granted and before it was acknowledged                     *)
(*   used       how often each kind of Mishap has happened                 *)
(***************************************************************************)
EXTENDS SlotLedger, Sequences

CONSTANT Limits   \* bound: how often each Mishap may happen

Mishaps == {"restore", "lose", "retry", "nowrite", "die", "park", "unreadable"}

ASSUME SaveReconciliationAssumption == Limits \in [Mishaps -> Nat]

VARIABLES
  supported, readable, slot, save, copies, completed, received, reordered, erased, used

vars == <<supported, readable, slot, save, copies, completed, received, reordered, erased, used>>

Saves == [has : [Idx -> Nat], mark : Nothing .. N-1]

NewSave == [has |-> [i \in Idx |-> 0], mark |-> Nothing]

Init ==
  /\ supported \in BOOLEAN /\ readable = TRUE
  /\ slot = EmptySlot /\ save = NewSave /\ copies = <<NewSave>>
  /\ completed = {}
  /\ received = 0 /\ reordered = {} /\ erased = {}
  /\ used = [m \in Mishaps |-> 0]

May(m)     == used[m] < Limits[m]
Happens(m) == used' = [used EXCEPT ![m] = @ + 1]

Cur == NextIndex(slot)

-----------------------------------------------------------------------------
(***************************************************************************)
(* The comparison every poll begins with.                                  *)
(***************************************************************************)
\* read_save_watermark.
Observed == IF supported /\ readable THEN save.mark ELSE Nothing
Outcome  == WatermarkOutcome(slot, Observed)
Compared == ReconcileSaveWatermark(slot, Observed)

\* An idle poll compares only when the ledger has a watermark.
Compares == Cur < received \/ slot.mark # Nothing

\* A rewind or an adopted cursor ends the poll.
Reconcile ==
  /\ Compares /\ Outcome \in {"Reissue", "AdoptSaveCursor"}
  /\ slot' = Compared
  /\ UNCHANGED <<supported, readable, save, copies, completed, received, reordered, erased, used>>

\* Hold abstains, so an item is only worked on after Resume.
Delivers == Cur < received /\ Outcome = "Resume"

BeginDelivery ==
  /\ Delivers /\ slot.pending = NoPlan
  /\ slot' = Begin(Compared, FreshPlan(Cur, FALSE))
  /\ UNCHANGED <<supported, readable, save, copies, completed, received, reordered, erased, used>>

\* What an operator who restored a save finds missing in it.
Missing == {i \in Idx : slot.acked[i] = "delivered" /\ save.has[i] = 0}

-----------------------------------------------------------------------------
(***************************************************************************)
(* The end of a delivery: the grant, the acknowledgement, and the watermark*)
(* written into the save before the ledger is saved.                       *)
(***************************************************************************)
CanFinish == CanAcknowledge(MarkGrantComplete(slot), Cur)

\* grant_item: a plan marked granted and a grant the backend remembers are
\* not executed again.
Granted(i) == IF slot.pending.granted \/ i \in completed THEN save.has
              ELSE [save.has EXCEPT ![i] = @ + 1]

\* A written watermark is recorded in the ledger and in the save.
WriteWatermark(row, i) == IF supported THEN [row EXCEPT !.mark = i] ELSE row

FinishDelivery ==
  /\ Delivers /\ CanFinish
  /\ slot' = WriteWatermark(Acknowledge(MarkGrantComplete(Compared), Cur), Cur)
  /\ save' = WriteWatermark([save EXCEPT !.has = Granted(Cur)], Cur)
  /\ reordered' = IF ~supported /\ Missing # {} THEN reordered \cup {Cur} ELSE reordered
  /\ completed' = completed \cup {Cur}
  /\ UNCHANGED <<supported, readable, copies, received, erased, used>>

\* park_terminal_grant.
ParkDelivery ==
  /\ Delivers /\ CanPark(slot, Cur) /\ ~slot.pending.granted /\ Cur \notin completed
  /\ May("park") /\ Happens("park")
  /\ slot' = WriteWatermark(AcknowledgeBlocked(Compared, Cur, "other"), Cur)
  /\ save' = WriteWatermark(save, Cur)
  /\ UNCHANGED <<supported, readable, copies, completed, received, reordered, erased>>

\* A failed watermark write does not fail the poll.
FinishUnwritten ==
  /\ Delivers /\ CanFinish /\ supported
  /\ May("nowrite") /\ Happens("nowrite")
  /\ slot' = Acknowledge(MarkGrantComplete(Compared), Cur)
  /\ save' = [save EXCEPT !.has = Granted(Cur)]
  /\ reordered' = reordered \cup {Cur}
  /\ completed' = completed \cup {Cur}
  /\ UNCHANGED <<supported, readable, copies, received, erased>>

\* The process dies after the watermark is in the save and before the ledger
\* with the acknowledgement is.
DieBeforeSave ==
  /\ Delivers /\ CanFinish
  /\ May("die") /\ Happens("die")
  /\ slot' = MarkGrantComplete(slot)
  /\ save' = WriteWatermark([save EXCEPT !.has = Granted(Cur)], Cur)
  /\ reordered' = IF ~supported /\ Missing # {} THEN reordered \cup {Cur} ELSE reordered
  /\ completed' = {}
  /\ UNCHANGED <<supported, readable, copies, received, erased>>

-----------------------------------------------------------------------------
(***************************************************************************)
(* The operator, the player and the server.                                *)
(***************************************************************************)
\* rescue_retry_blocked.
RetryBlocked(i) ==
  /\ May("retry") /\ Happens("retry")
  /\ CanRequeueBlocked(slot, i)
  /\ slot' = RequeueBlocked(slot, i)
  /\ reordered' = reordered \cup {i}
  /\ UNCHANGED <<supported, readable, save, copies, completed, received, erased>>

\* bb-restored, which refuses an index above the cursor, while the client is
\* stopped.
AttestRestore(first) ==
  /\ ~supported /\ Missing # {} /\ first = Min(Missing)
  /\ first <= slot.highest
  /\ slot' = RewindTo(slot, first)
  /\ completed' = {}
  /\ UNCHANGED <<supported, readable, save, copies, received, reordered, erased, used>>

CopySave ==
  /\ save # copies[Len(copies)]
  /\ copies' = Append(copies, save)
  /\ UNCHANGED <<supported, readable, slot, save, completed, received, reordered, erased, used>>

\* The player plays on from the save that was restored: the copies made after
\* it belong to an abandoned playthrough and are not loaded again.
RestoreSave(k) ==
  /\ May("restore") /\ Happens("restore")
  /\ copies[k] # save /\ save' = copies[k]
  /\ copies' = SubSeq(copies, 1, k)
  /\ erased' = IF slot.pending.granted THEN erased \cup {slot.pending.index} ELSE erased
  /\ completed' = IF supported THEN {} ELSE completed
  /\ UNCHANGED <<supported, readable, slot, received, reordered>>

\* The ledger file is lost with its disk, and the client starts a new one.
\* The loss of both the ledger and the watermark is not survivable: a new
\* ledger beside an unreadable field is taken for attested mode.
LoseLedger ==
  /\ supported /\ readable /\ slot # EmptySlot /\ May("lose") /\ Happens("lose")
  /\ slot' = EmptySlot
  /\ completed' = {}
  /\ UNCHANGED <<supported, readable, save, copies, received, reordered, erased>>

Restart ==
  /\ completed # {} /\ completed' = {}
  /\ UNCHANGED <<supported, readable, slot, save, copies, received, reordered, erased, used>>

BecomeUnreadable ==
  /\ supported /\ readable /\ slot.mark # Nothing /\ May("unreadable") /\ Happens("unreadable")
  /\ readable' = FALSE
  /\ UNCHANGED <<supported, slot, save, copies, completed, received, reordered, erased>>

BecomeReadable ==
  /\ ~readable /\ readable' = TRUE
  /\ UNCHANGED <<supported, slot, save, copies, completed, received, reordered, erased, used>>

Receive ==
  /\ received < N /\ received' = received + 1
  /\ UNCHANGED <<supported, readable, slot, save, copies, completed, reordered, erased, used>>

-----------------------------------------------------------------------------
Poll == Reconcile \/ BeginDelivery \/ FinishDelivery \/ ParkDelivery
        \/ FinishUnwritten \/ DieBeforeSave

Next ==
  \/ Poll
  \/ \E i \in Idx : RetryBlocked(i) \/ AttestRestore(i)
  \/ CopySave \/ \E k \in DOMAIN copies : RestoreSave(k)
  \/ LoseLedger \/ Restart
  \/ BecomeUnreadable \/ BecomeReadable \/ Receive

Spec == Init /\ [][Next]_vars

\* The client polls on, the save field becomes readable again, and an
\* operator without a watermark attests the restore.
FairSpec ==
  /\ Spec
  /\ WF_vars(Poll) /\ WF_vars(BecomeReadable)
  /\ WF_vars(\E i \in Idx : AttestRestore(i))

-----------------------------------------------------------------------------
(***************************************************************************)
(* Properties.                                                             *)
(***************************************************************************)
\* The rewound, adopted and advanced cursors stay on the server's indices,
\* and a save's watermark with them.
TypeOK ==
  /\ supported \in BOOLEAN /\ readable \in BOOLEAN
  /\ slot \in Slots /\ save \in Saves /\ copies \in Seq(Saves)
  /\ completed \subseteq Idx /\ received \in 0 .. N
  /\ reordered \subseteq Idx /\ erased \subseteq Idx
  /\ used \in [Mishaps -> Nat]

Earlier(i) == \E j \in reordered : j <= i

\* A save holds an index at most once, whatever is restored, lost or killed
\* half way (invariant I1 of reconcile_save_watermark: "re-grant nothing"),
\* unless the index, or one before it, was delivered out of order, without its
\* watermark, or on top of a restore nobody attested yet.  In those cases the
\* code does deliver it again: the save's watermark is then below the cursor
\* without any restore, or the attested rewind repeats what came after it.
NoDuplicate == \A i \in Idx : save.has[i] > 1 => Earlier(i)

\* When a readable watermark says Resume, the save holds what the ledger
\* calls delivered, again unless the order was broken, or the restore hit a
\* plan that was marked granted and not yet acknowledged (the case that
\* rescue_reissue_pending exists for).
ResumeIsComplete ==
  Observed # Nothing /\ Outcome = "Resume"
    => \A i \in Missing : Earlier(i) \/ i \in erased

\* What a restore erased comes back: every item sent is again and again in
\* the save or parked, unless the order was broken, the ledger itself was
\* lost, or the loaded save is older than the first watermark, which
\* reconcile_watermark answers with Hold for as long as it is loaded.
ErasedTailComesBack ==
  \A i \in Idx : i < received ~>
    \/ save.has[i] > 0 \/ slot.acked[i] \in Blocked
    \/ Earlier(i) \/ i \in erased \/ used["lose"] > 0
    \/ slot.mark # Nothing /\ save.mark = Nothing
=============================================================================
