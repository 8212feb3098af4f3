---------------------------- MODULE ItemDelivery ----------------------------
(***************************************************************************)
(* The receive path of the Bloodborne client: ClientRuntime::poll_items and*)
(* park_terminal_grant (client_loop.rs) over the slot ledger, in memory and*)
(* on disk, and the native grant lane; with start-up, process death, the   *)
(* operator's retry and the bb-blocked tool.                               *)
(*                                                                         *)
(*   pc        where the client is: "idle" between polls, a stage of       *)
(*             poll_items, a stage of start-up, or "down"                  *)
(*   mem, disk the slot ledger the process holds, and the one save wrote   *)
(*   received  how many items the server has sent                          *)
(*   world     "play"; "load", not gameplay-ready; or "refused", a context *)
(*             that require_runtime_context rejects                        *)
(*   why       on whose behalf a withdrawal runs                           *)
(*   seen      backend.absent_observations; key Nothing is the consumable  *)
(*   asked     how often the operator asked for an index again             *)
(***************************************************************************)
EXTENDS NativeGrant

CONSTANT AutoEquip   \* indices whose plan has an equip target

ASSUME ItemDeliveryAssumption == AutoEquip \subseteq Equipment

VARIABLES pc, mem, disk, received, world, why, seen, asked

native == <<engine, cell, stack, hydrated, applied, used>>
vars   == <<native, pc, mem, disk, received, world, why, seen, asked>>

Stages == {"idle", "next", "plan", "baseline", "grant", "poll", "verdict",
           "equip", "ack", "withdraw", "clear", "requeue", "down"}

Keys   == Idx \cup {Nothing}
Key(i) == IF i \in Equipment THEN i ELSE Nothing

Init ==
  /\ NativeInit
  /\ pc = "idle" /\ mem = EmptySlot /\ disk = EmptySlot
  /\ received = 0 /\ world = "play" /\ why = "load"
  /\ seen = [k \in Keys |-> 0]
  /\ asked = [i \in Idx |-> 0]

\* The index being worked on.
Cur == NextIndex(mem)

\* ledger.save after a change: the poll goes on from stage next; a failed
\* save leaves the file as it was, and the poll ends with the change kept in
\* memory only.
Commit(slot, next) ==
  /\ mem' = slot
  /\ \/ disk' = slot /\ pc' = next /\ UNCHANGED used
     \/ May("savefail") /\ Happens("savefail") /\ pc' = "idle" /\ UNCHANGED disk

Goto(next) == pc' = next /\ UNCHANGED <<mem, disk>>

-----------------------------------------------------------------------------
(***************************************************************************)
(* retry_deferred_vials_if_ready, which every poll begins with.            *)
(***************************************************************************)
\* observe_stack_quantity: an absent record counts as quantity 0 only after
\* MinAbsentPolls sightings in a row.
Sighted(i)  == IF Held(i) > 0 THEN 0
               ELSE IF seen[Key(i)] < MinAbsentPolls THEN seen[Key(i)] + 1 ELSE MinAbsentPolls
Observes(i) == IF hydrated THEN seen' = [seen EXCEPT ![Key(i)] = Sighted(i)]
                           ELSE UNCHANGED seen
Readable(i) == hydrated /\ (Held(i) = 0 => Sighted(i) >= MinAbsentPolls)

VialsDue     == mem.deferred # {} /\ world = "play"
VialReady    == VialsDue /\ hydrated /\ stack > 0 /\ mem.pending = NoPlan
DeferredVial == Min(mem.deferred)

ObserveVials ==
  IF VialsDue /\ hydrated
  THEN seen' = [seen EXCEPT ![Nothing] =
                  IF stack > 0 THEN 0
                  ELSE IF @ < MinAbsentPolls THEN @ + 1 ELSE MinAbsentPolls]
  ELSE UNCHANGED seen

\* Nothing to release, or a refusal the engine will not release.
PollStart ==
  /\ pc = "idle"
  /\ VialReady => ~ReleasesVialRefusal(DeferredVial)
  /\ ObserveVials /\ Goto("next")
  /\ UNCHANGED <<native, received, world, why, asked>>

PollReleasesVial ==
  /\ pc = "idle" /\ VialReady
  /\ CanRequeueBlocked(mem, DeferredVial)
  /\ ReleaseVialRefusal(DeferredVial)
  /\ ObserveVials /\ Commit(RequeueBlocked(mem, DeferredVial), "next")
  /\ UNCHANGED <<cell, stack, hydrated, applied, received, world, why, asked>>

\* requeue_blocked refuses an entry that is not parked: the poll is over.
PollVialRefused ==
  /\ pc = "idle" /\ VialReady
  /\ ~CanRequeueBlocked(mem, DeferredVial)
  /\ ReleaseVialRefusal(DeferredVial)
  /\ ObserveVials /\ Goto("idle")
  /\ UNCHANGED <<cell, stack, hydrated, applied, used, received, world, why, asked>>

-----------------------------------------------------------------------------
(***************************************************************************)
(* poll_items: the next item, the context, the plan.                       *)
(***************************************************************************)
InFlight == mem.pending # NoPlan /\ ~mem.pending.granted

NothingToDeliver ==
  /\ pc = "next" /\ Cur >= received
  /\ Goto("idle")
  /\ UNCHANGED <<native, received, world, why, seen, asked>>

ContextValid ==
  /\ pc = "next" /\ Cur < received /\ world = "play"
  /\ Goto("plan")
  /\ UNCHANGED <<native, received, world, why, seen, asked>>

\* A load or a refused identity ends the poll, after the withdrawal of a
\* grant in flight.
ContextLost ==
  /\ pc = "next" /\ Cur < received /\ world # "play"
  /\ Goto(IF InFlight THEN "withdraw" ELSE "idle")
  /\ why' = world
  /\ UNCHANGED <<native, received, world, seen, asked>>

BeginPlan ==
  /\ pc = "plan" /\ mem.pending = NoPlan
  /\ LET plan == FreshPlan(Cur, Cur \in AutoEquip)
     IN CanBegin(mem, plan) /\ Commit(Begin(mem, plan), "baseline")
  /\ UNCHANGED <<engine, cell, game, hydrated, received, world, why, seen, asked>>

\* plan_item holds gear that is to be upgraded while the inventory cannot be
\* read.
HoldPlan ==
  /\ pc = "plan" /\ mem.pending = NoPlan /\ Cur \in Equipment /\ ~hydrated
  /\ Goto("idle")
  /\ UNCHANGED <<native, received, world, why, seen, asked>>

\* The durable plan is resumed where it stands; a plan for another index is
\* an error, and the poll is over.
ResumePlan ==
  /\ pc = "plan" /\ mem.pending # NoPlan
  /\ Goto(IF mem.pending.index # Cur THEN "idle"
          ELSE IF mem.pending.granted THEN "equip" ELSE "baseline")
  /\ UNCHANGED <<native, received, world, why, seen, asked>>

-----------------------------------------------------------------------------
(***************************************************************************)
(* poll_items: the baseline and the grant.                                 *)
(***************************************************************************)
Binding == mem.pending.before # Nothing /\ MayHaveApplied(Cur)

UseRecordedBaseline ==
  /\ pc = "baseline" /\ Binding
  /\ Goto("grant")
  /\ UNCHANGED <<native, received, world, why, seen, asked>>

AwaitObservation ==
  /\ pc = "baseline" /\ ~Binding /\ ~Readable(Cur)
  /\ Observes(Cur) /\ Goto("idle")
  /\ UNCHANGED <<native, received, world, why, asked>>

\* Mutant: the observed baseline is not saved before the grant.
RecordBaselineInMemory ==
  /\ pc = "baseline" /\ ~Binding /\ Readable(Cur)
  /\ Observes(Cur)
  /\ mem' = RecordObservedBefore(mem, Held(Cur)) /\ pc' = "grant"
  /\ UNCHANGED <<disk, native, received, world, why, asked>>

RecordBaseline ==
  /\ pc = "baseline" /\ ~Binding /\ Readable(Cur)
  /\ Observes(Cur)
  /\ Commit(RecordObservedBefore(mem, Held(Cur)), "grant")
  /\ UNCHANGED <<engine, cell, game, hydrated, received, world, why, asked>>

\* A verdict already latched is returned again; a busy lane is an error.
GrantLatched ==
  /\ pc = "grant" /\ finished[Cur] # "none"
  /\ Goto("verdict")
  /\ UNCHANGED <<native, received, world, why, seen, asked>>

GrantSubmits ==
  /\ pc = "grant" /\ finished[Cur] = "none" /\ lane # Cur
  /\ Submit(Cur, mem.pending.before)
  /\ Goto("poll")
  /\ UNCHANGED <<cell, stack, hydrated, applied, used, received, world, why, seen, asked>>

GrantContinues ==
  /\ pc = "grant" /\ finished[Cur] = "none" /\ lane = Cur
  /\ Goto("poll")
  /\ UNCHANGED <<native, received, world, why, seen, asked>>

GrantPolls ==
  /\ pc = "poll"
  /\ PollPending \/ PollActive
  /\ Goto(IF session'.status \in Terminal THEN "verdict" ELSE "idle")
  /\ UNCHANGED <<stack, hydrated, applied, used, received, world, why, seen, asked>>

GrantComplete ==
  /\ pc = "verdict" /\ finished[Cur] = "complete"
  /\ Commit(MarkGrantComplete(mem), "equip")
  /\ UNCHANGED <<engine, cell, game, hydrated, received, world, why, seen, asked>>

\* park_terminal_grant: an absent-Vial refusal is also queued for its retry.
ParkTerminalGrant ==
  /\ pc = "verdict" /\ finished[Cur] \in Blocked
  /\ CanPark(mem, Cur)
  /\ LET parked == AcknowledgeBlocked(mem, Cur, finished[Cur])
     IN Commit([parked EXCEPT !.deferred =
                  IF finished[Cur] = "vial" THEN @ \cup {Cur} ELSE @], "idle")
  /\ UNCHANGED <<engine, cell, game, hydrated, received, world, why, seen, asked>>

\* The native backend's equip_item always fails, and never fails the poll.
EquipItem ==
  /\ pc = "equip"
  /\ IF mem.pending.equip /\ ~mem.pending.equipped
     THEN Commit(MarkEquipComplete(mem), "ack")
     ELSE Goto("ack") /\ UNCHANGED used
  /\ UNCHANGED <<engine, cell, game, hydrated, received, world, why, seen, asked>>

AcknowledgeItem ==
  /\ pc = "ack" /\ CanAcknowledge(mem, Cur)
  /\ Commit(Acknowledge(mem, Cur), "idle")
  /\ UNCHANGED <<engine, cell, game, hydrated, received, world, why, seen, asked>>

-----------------------------------------------------------------------------
(***************************************************************************)
(* withdraw_unwitnessed_grant, on a lost context and at start-up.          *)
(***************************************************************************)
Resumes == IF why = "startup" THEN "requeue" ELSE "idle"

WithdrawChecks ==
  /\ pc = "withdraw"
  /\ Goto(IF Withdrawable THEN "clear" ELSE Resumes)
  /\ UNCHANGED <<native, received, world, why, seen, asked>>

\* Only a load forgets the baseline of the withdrawn command.
WithdrawClears ==
  /\ pc = "clear" /\ ClearRequest
  /\ IF why = "load" /\ mem.pending.before # Nothing
     THEN Commit(ClearObservedBefore(mem), "idle")
     ELSE Goto(Resumes) /\ UNCHANGED used
  /\ UNCHANGED <<game, hydrated, received, world, why, seen, asked>>

-----------------------------------------------------------------------------
(***************************************************************************)
(* Process death and start-up; the operator and the tools.                 *)
(***************************************************************************)
Crash ==
  /\ pc # "down" /\ May("crash") /\ Happens("crash")
  /\ Goto("down")
  /\ UNCHANGED <<engine, cell, game, hydrated, received, world, why, seen, asked>>

\* The ledger is loaded, and reconcile_pending_command withdraws what the
\* last process left published.
StartUp ==
  /\ pc = "down"
  /\ mem' = disk /\ RestartEngine /\ seen' = [k \in Keys |-> 0]
  /\ pc' = (IF disk.pending # NoPlan /\ ~disk.pending.granted
            THEN "withdraw" ELSE "requeue")
  /\ why' = "startup"
  /\ UNCHANGED <<disk, cell, game, hydrated, used, received, world, asked>>

\* requeue_fixed_cause_parks: saved only when something moved, and a failed
\* save does not stop the client.
RequeueFixedParks ==
  /\ pc = "requeue"
  /\ LET slot == RequeueAll(mem, "fixed")
     IN IF slot = mem THEN Goto("idle") /\ UNCHANGED used ELSE Commit(slot, "idle")
  /\ UNCHANGED <<engine, cell, game, hydrated, received, world, why, seen, asked>>

\* rescue_retry_blocked, for an operator who saw that nothing arrived.
RetryBlocked(i) ==
  /\ pc = "idle" /\ world = "play" /\ May("retry")
  /\ CanRequeueBlocked(mem, i)
  /\ mem' = RequeueBlocked(mem, i) /\ disk' = mem'
  /\ Happens("retry") /\ asked' = [asked EXCEPT ![i] = @ + 1]
  /\ UNCHANGED <<engine, cell, game, hydrated, pc, received, world, why, seen>>

\* bb-blocked INDEX --confirm, run while the client is down.
ConfirmBlocked(i) ==
  /\ pc = "down" /\ May("unblock") /\ Happens("unblock")
  /\ CanUnblock(disk, i)
  /\ disk' = Unblock(disk, i)
  /\ UNCHANGED <<engine, cell, game, hydrated, pc, mem, received, world, why, seen, asked>>

-----------------------------------------------------------------------------
(***************************************************************************)
(* The server, the game and the player.                                    *)
(***************************************************************************)
Receive ==
  /\ received < N /\ received' = received + 1
  /\ UNCHANGED <<native, pc, mem, disk, world, why, seen, asked>>

\* Between the reads and the write of a withdrawal the game runs only as
\* often as Limits says.
GameRuns ==
  /\ pc # "clear" /\ GameServes
  /\ UNCHANGED <<pc, mem, disk, received, world, why, seen, asked>>

GameRaces ==
  /\ pc = "clear" /\ May("race") /\ Happens("race")
  /\ DeltaLands \/ DeltaDiscarded \/ InsertHeld \/ InsertStored \/ InsertRefused
  /\ UNCHANGED <<engine, hydrated, pc, mem, disk, received, world, why, seen, asked>>

PlayerActs ==
  /\ PlayerSpends \/ PlayerPicks
  /\ UNCHANGED <<pc, mem, disk, received, world, why, seen, asked>>

LeavePlay ==
  /\ world = "play" /\ May("move") /\ Happens("move")
  /\ world' \in {"load", "refused"}
  /\ hydrated' = (world' = "refused" /\ hydrated)
  /\ UNCHANGED <<engine, cell, game, pc, mem, disk, received, why, seen, asked>>

ReturnToPlay ==
  /\ world # "play" /\ world' = "play"
  /\ UNCHANGED <<native, pc, mem, disk, received, why, seen, asked>>

Hydrate ==
  /\ world = "play" /\ ~hydrated /\ hydrated' = TRUE
  /\ UNCHANGED <<engine, cell, game, used, pc, mem, disk, received, world, why, seen, asked>>

-----------------------------------------------------------------------------
ClientStep ==
  \/ PollStart \/ PollReleasesVial \/ PollVialRefused
  \/ NothingToDeliver \/ ContextValid \/ ContextLost
  \/ BeginPlan \/ HoldPlan \/ ResumePlan
  \/ UseRecordedBaseline \/ AwaitObservation \/ RecordBaseline
  \/ GrantLatched \/ GrantSubmits \/ GrantContinues \/ GrantPolls
  \/ GrantComplete \/ ParkTerminalGrant \/ EquipItem \/ AcknowledgeItem
  \/ WithdrawChecks \/ WithdrawClears
  \/ StartUp \/ RequeueFixedParks

Recovery == ReturnToPlay \/ Hydrate

Next ==
  \/ ClientStep
  \/ Crash
  \/ \E i \in Idx : RetryBlocked(i) \/ ConfirmBlocked(i)
  \/ Receive \/ GameRuns \/ GameRaces \/ PlayerActs
  \/ LeavePlay \/ Recovery

Spec == Init /\ [][Next]_vars

\* The client's loop runs on, the game serves its request cell, and the
\* player comes back from a load or to the expected character.
FairSpec == Spec /\ WF_vars(ClientStep) /\ WF_vars(GameRuns) /\ WF_vars(Recovery)

-----------------------------------------------------------------------------
(***************************************************************************)
(* Properties.                                                             *)
(***************************************************************************)
\* Every variable keeps its type: the ledger rows, the session, the request
\* cells and the inventory stay in their ranges whatever the interleaving.
TypeOK ==
  /\ NativeTypeOK
  /\ pc \in Stages
  /\ mem \in Slots /\ disk \in Slots
  /\ received \in 0 .. N
  /\ world \in {"play", "load", "refused"}
  /\ why \in {"load", "refused", "play", "startup"}
  /\ seen \in [Keys -> 0 .. MinAbsentPolls]
  /\ asked \in [Idx -> Nat]

\* The durable plan is the plan of the index that is delivered next, in
\* memory and on disk, whatever was requeued meanwhile: poll_items refuses
\* any other plan on every poll, and nothing would be delivered again.
PlanIsNext ==
  \A s \in {mem, disk} : s.pending # NoPlan => s.pending.index = NextIndex(s)

\* While the engine holds a grant, it is the one of the plan: a lane held for
\* another index refuses every later grant as busy.
LaneServesPlan ==
  lane # Nothing => mem.pending.index = lane /\ ~mem.pending.granted

\* The request in the cell is the first the session published for its grant,
\* not a re-plan or a storage retry, which publish against the live quantity.
FirstAttempt == lane # Nothing /\ ~session.replanned /\ session.retries = 0

\* A request the game may serve belongs to the plan on disk, and the baseline
\* it was published against is the one on disk: what record_observed_before
\* promises, so that a client killed at this moment can tell whether the
\* grant was applied.  A failed save breaks the promise, as the next poll
\* takes the baseline in memory as recorded.  So may a player who uses units:
\* the session keeps the baseline it was given first while the client records
\* a newer one, and a stack that grew (looted, or handed over by a request
\* that a restart or a withdrawal no longer watches) and shrank again matches
\* the older of the two.
BaselineDurable ==
  /\ cell.request # "none" /\ used["savefail"] = 0
  /\ used["spend"] = 0 \/ used["crash"] + used["race"] + used["pick"] = 0
  => /\ disk.pending.index = cell.owner
     /\ disk.pending.before # Nothing
     /\ (FirstAttempt /\ cell.owner \notin Equipment)
          => disk.pending.before = session.before

\* What a restarted client can still read from the stack: every unit in it
\* that the recorded baseline does not count is the grant in flight.  A failed
\* save, a unit used, looted or put into storage, a grant raced by its own
\* withdrawal, and a second death around a load, after which the baseline may
\* have been taken anew beside the granted unit, all destroy that evidence.
Kept ==
  /\ used["savefail"] + used["spend"] + used["pick"] + used["storage"] + used["race"] = 0
  /\ CapKnown => stack < MaxStack
  /\ used["crash"] <= 1 \/ used["move"] = 0

\* The game hands an index over at most once, and once more for each time the
\* operator asked for it: poll_items' "an index is delivered at most once".
\* A client that lives keeps the promise for every item.  A client that dies
\* keeps it for goods, whose baseline is on disk, while the stack is Kept; gear
\* has no baseline to compare with.
AtMostOnce ==
  \A i \in Idx :
    \/ used["crash"] = 0 /\ used["race"] = 0
    \/ Kept /\ i \notin Equipment
    => applied[i] <= 1 + asked[i]

\* An index that the ledger calls delivered was handed over by the game,
\* unless bb-blocked said so or the player looted the same consumable, which
\* poll_pending cannot tell from a grant (recovered_complete).  A client that
\* dies after failed saves may also take a hand-over of the index it could not
\* record for the one it finds on disk.
NothingLost ==
  used["unblock"] + used["pick"] = 0 /\ (used["savefail"] = 0 \/ used["crash"] = 0) =>
    \A i \in Idx : mem.acked[i] = "delivered" => applied[i] > 0

\* A park that start-up or the Vial retry delivers again without asking
\* anyone is one whose grant was not applied (park_cause_is_fixed, "the grant
\* provably did not apply"), as long as the client lives: what a restarted
\* client finds changed in the stack may be the grant and something else.
AutoRetryIsUnapplied ==
  used["crash"] = 0 /\ used["race"] = 0 =>
    \A i \in Idx : mem.acked[i] \in {"fixed", "vial"} => applied[i] <= asked[i]

\* The session compares the stack with the baseline that the client has just
\* recorded: what poll_items says of a RETAINED baseline.
BaselineIsCurrent ==
  (pc = "poll" /\ ~session.active /\ session.before # Nothing)
    => session.before = mem.pending.before

\* The grant stage never meets the latched failure of an earlier attempt:
\* an index that was requeued is really attempted again.
RetryReachesGame == pc = "grant" => finished[Cur] \notin Blocked

\* The same for what the client requeues by itself: the release of a deferred
\* Vial reward forgets its refusal, and start-up begins with no verdicts.
OwnRetryReachesGame == pc = "grant" /\ asked[Cur] = 0 => finished[Cur] \notin Blocked

\* A Vial reward that waits for its retry is a parked entry, as its release
\* by requeue_blocked demands, unless bb-blocked has resolved the park.
DeferredIsParked ==
  used["unblock"] = 0 => \A i \in mem.deferred : mem.acked[i] \in Blocked

\* Every item the server sent is delivered or parked in the end: no plan, no
\* lane and no park keeps the stream from moving on.
EveryItemSettles ==
  \A i \in Idx : i < received ~> mem.acked[i] # "none"
=============================================================================
