---------------------------- MODULE NativeGrant -----------------------------
(***************************************************************************)
(* The native grant lane of the Bloodborne client: NativeDelivery          *)
(* (native/engine.rs), the GrantSession it drives (native/delivery.rs), the*)
(* request cells in guest memory (native/guest.rs) and the game thread that*)
(* serves them.  Every grant here has quantity 1; all goods are one        *)
(* consumable, held in one stack of at most MaxStack, and an index in      *)
(* Equipment is a weapon or attire piece, which has no stack.              *)
(*                                                                         *)
(*   lane      engine.current_tag                                          *)
(*   finished  engine.finished, the verdict latched for an index           *)
(*   preexec   engine.preexecution_vial_refusals                           *)
(*   session   the GrantSession: tag and status of its DurableState, the   *)
(*             baseline, the lane chosen, and its counters                 *)
(*   cell      the request, done and result cells, and whose descriptor    *)
(*             is staged in them                                           *)
(*   stack     the quantity of the consumable the player holds, 0 when the *)
(*             inventory has no record of it                               *)
(*   hydrated  whether the inventory geometry can be read                  *)
(*   applied   how often the game has really handed over each index        *)
(*   used      how often each kind of Disturbance has happened             *)
(***************************************************************************)
EXTENDS SlotLedger

CONSTANTS
  Equipment,          \* indices that are instances, not goods
  IsVial,             \* TRUE: the consumable is the Blood Vial
  CapKnown,           \* TRUE: CONSUMABLE_HOLD_CAPS lists the consumable
  MinAbsentPolls,     \* policy.min_absent_polls
  VerifyPolls,        \* policy.verify_polls
  HydrationPolls,     \* policy.hydration_verify_polls
  StorageRetryLimit,  \* STORAGE_RETRY_LIMIT
  Limits              \* bound: how often each Disturbance may happen

\* What the environment may do to a delivery, each bounded by Limits:
\*   crash    the client process dies        savefail ReceiveLedger::save fails
\*   spend    the player uses one unit       pick     the player loots one unit
\*   move     a load, or an identity refusal storage  an insert that is stored
\*   refuse   an insert the game declines    retry    `retry INDEX CONFIRM`
\*   unblock  bb-blocked INDEX --confirm     race     the game runs between the
\*                                                    reads and the write of a
\*                                                    withdrawal
Disturbances == {"crash", "savefail", "spend", "pick", "move", "storage",
                 "refuse", "retry", "unblock", "race"}

ASSUME NativeGrantAssumption ==
  /\ Equipment \subseteq Idx
  /\ IsVial \in BOOLEAN /\ CapKnown \in BOOLEAN
  /\ MinAbsentPolls \in Nat \ {0} /\ VerifyPolls \in Nat \ {0}
  /\ HydrationPolls \in Nat \ {0} /\ StorageRetryLimit \in Nat
  /\ MaxStack > 0
  /\ Limits \in [Disturbances -> Nat]

VARIABLES lane, finished, preexec, session, cell, stack, hydrated, applied, used

engine == <<lane, finished, preexec, session>>
game   == <<stack, applied>>

Waiting  == {"queued", "awaiting_inventory", "busy"}
Terminal == {"completed", "recovered_complete", "failed", "quantity_mismatch"}
Statuses == Waiting \cup Terminal \cup
            {"none", "executing", "verify_pending", "replanning",
             "storage_retry_wait", "withdrawn"}

Sessions == [tag : Idx \cup {Nothing}, status : Statuses,
             before : Nothing .. MaxStack, active : BOOLEAN,
             via : {"none", "delta", "insert", "instance"},
             replanned : BOOLEAN, store : BOOLEAN,
             retries : 0 .. StorageRetryLimit,
             absent : 0 .. MinAbsentPolls, verify : Nat]

Cells == [request : {"none", "insert", "delta"}, done : BOOLEAN,
          result : {"empty", "held", "stored"}, owner : Idx \cup {Nothing}]

NativeTypeOK ==
  /\ lane \in Idx \cup {Nothing}
  /\ finished \in [Idx -> Blocked \cup {"none", "complete"}]
  /\ preexec \subseteq Idx
  /\ session \in Sessions
  /\ cell \in Cells
  /\ stack \in 0 .. MaxStack
  /\ hydrated \in BOOLEAN
  /\ applied \in [Idx -> Nat]
  /\ used \in [Disturbances -> Nat]

NewSession == [tag |-> Nothing, status |-> "none", before |-> Nothing,
               active |-> FALSE, via |-> "none", replanned |-> FALSE,
               store |-> FALSE, retries |-> 0, absent |-> 0, verify |-> 0]

NativeInit ==
  /\ lane = Nothing /\ finished = [i \in Idx |-> "none"] /\ preexec = {}
  /\ session = NewSession
  /\ cell = [request |-> "none", done |-> FALSE, result |-> "empty", owner |-> Nothing]
  /\ stack \in 0 .. MaxStack /\ hydrated = TRUE
  /\ applied = [i \in Idx |-> 0]
  /\ used = [d \in Disturbances |-> 0]

May(d)     == used[d] < Limits[d]
Happens(d) == used' = [used EXCEPT ![d] = @ + 1]

\* What find_stack reports for index i: its quantity, 0 when it is absent.
Held(i) == IF i \in Equipment THEN IF applied[i] > 0 THEN 1 ELSE 0 ELSE stack

-----------------------------------------------------------------------------
(***************************************************************************)
(* The engine.                                                             *)
(***************************************************************************)
\* Mutant: a tag the engine does not know counts as not applied.
MayHaveAppliedIfKnown(i) ==
  finished[i] # "none" \/ (session.tag = i /\ session.status \notin Waiting)

\* command_may_have_applied: an unknown tag counts as possibly applied.
MayHaveApplied(i) ==
  finished[i] # "none" \/ session.tag # i \/ session.status \notin Waiting

\* release_preexecution_vial_refusal.
ReleasesVialRefusal(i) ==
  lane = Nothing /\ (finished[i] = "none" \/ i \in preexec)

\* Mutant: the latched refusal stays.
ReleaseKeepsVerdict(i) ==
  /\ ReleasesVialRefusal(i)
  /\ preexec' = preexec \ {i}
  /\ UNCHANGED <<lane, session, finished>>

ReleaseVialRefusal(i) ==
  /\ ReleasesVialRefusal(i)
  /\ finished' = [finished EXCEPT ![i] = "none"]
  /\ preexec' = preexec \ {i}
  /\ UNCHANGED <<lane, session>>

\* grant_with_warning takes a request up: submit starts the session afresh,
\* and the baseline given first is the one the session keeps.
Submit(i, before) ==
  /\ lane = Nothing /\ ~session.active
  /\ lane' = i
  /\ session' = [NewSession EXCEPT
                   !.tag    = i, !.status = "queued", !.before = before,
                   !.absent = IF session.tag = i THEN session.absent ELSE 0]
  /\ UNCHANGED <<finished, preexec>>

\* The end of grant_with_warning: a status short of a verdict, or a verdict,
\* latched for the tag while the lane is freed.
Proceed(s) ==
  session' = s /\ UNCHANGED <<lane, finished, preexec>>

\* Mutant: a verdict does not free the lane.
SettleKeepsLane(status, verdict) ==
  /\ session' = [session EXCEPT !.status = status, !.active = FALSE]
  /\ finished' = [finished EXCEPT ![lane] = verdict]
  /\ UNCHANGED <<preexec, lane>>

Settle(status, verdict) ==
  /\ session' = [session EXCEPT !.status = status, !.active = FALSE]
  /\ finished' = [finished EXCEPT ![lane] = verdict]
  /\ preexec' = IF verdict = "vial" /\ session.via = "none"
                THEN preexec \cup {lane} ELSE preexec
  /\ lane' = Nothing

-----------------------------------------------------------------------------
(***************************************************************************)
(* GrantSession::poll_pending, while nothing is published.                 *)
(***************************************************************************)
Absent    == Held(lane) = 0
Goods     == lane \notin Equipment
\* The baseline of the command, or the live quantity after a re-plan.
Baseline  == IF session.before = Nothing THEN Held(lane) ELSE session.before
Wanted    == Baseline + 1
Overflows == Goods /\ (session.store \/ (~Absent /\ CapKnown /\ Wanted > MaxStack))

AwaitInventory ==
  /\ ~hydrated
  /\ Proceed([session EXCEPT !.status = "awaiting_inventory"])
  /\ UNCHANGED cell

\* Mutant: the sightings of an absent stack are not counted.
AwaitAbsentForever ==
  /\ hydrated /\ Absent
  /\ session.absent + 1 < MinAbsentPolls
  /\ Proceed([session EXCEPT !.status = "awaiting_inventory"])
  /\ UNCHANGED cell

AwaitAbsent ==
  /\ hydrated /\ Absent
  /\ session.absent + 1 < MinAbsentPolls
  /\ Proceed([session EXCEPT !.status = "awaiting_inventory", !.absent = @ + 1])
  /\ UNCHANGED cell

Dequeued == hydrated /\ (Absent => session.absent + 1 >= MinAbsentPolls)

Recover ==
  /\ Dequeued /\ Goods /\ Held(lane) = Wanted
  /\ Settle("recovered_complete", "complete")
  /\ UNCHANGED cell

Mismatch ==
  /\ Dequeued /\ Goods /\ Held(lane) \notin {Wanted, Baseline}
  /\ Settle("quantity_mismatch", "fixed")
  /\ UNCHANGED cell

Matches == Dequeued /\ (Goods => Held(lane) = Baseline)

RefuseVial ==
  /\ Matches /\ Goods /\ Absent /\ IsVial
  /\ Settle("failed", "vial")
  /\ UNCHANGED cell

Publishable == Matches /\ ~(Goods /\ Absent /\ IsVial)

AwaitLane ==
  /\ Publishable /\ cell.request # "none"
  /\ Proceed([session EXCEPT !.status = "busy", !.store = Overflows,
                             !.absent = IF Absent THEN MinAbsentPolls ELSE 0])
  /\ UNCHANGED cell

\* queue_native: everything else is written before the request cell, so the
\* game sees the whole request or none.  Its write_error needs a stack without
\* a quantity address, which the guest's find_stack never returns.
QueueNative ==
  /\ Publishable /\ cell.request = "none"
  /\ LET via == IF ~Goods THEN "instance"
                ELSE IF Absent \/ Overflows THEN "insert" ELSE "delta"
     IN /\ Proceed([session EXCEPT !.status = "executing", !.active = TRUE,
                      !.before = IF Goods THEN Baseline ELSE 0, !.via = via,
                      !.store = Overflows, !.verify = 0,
                      !.absent = IF Absent THEN MinAbsentPolls ELSE 0])
        /\ cell' = [request |-> IF via = "delta" THEN "delta" ELSE "insert",
                    done |-> FALSE, result |-> "empty", owner |-> lane]

PollPending ==
  /\ ~session.active
  /\ \/ AwaitInventory \/ AwaitAbsent \/ Recover \/ Mismatch
     \/ RefuseVial \/ AwaitLane \/ QueueNative

-----------------------------------------------------------------------------
(***************************************************************************)
(* GrantSession::poll_active, while a request is published.                *)
(***************************************************************************)
\* The read-back quantity, Nothing while the geometry is unreadable.
Actual   == IF hydrated THEN Held(lane) ELSE Nothing
Executed == cell.result # "empty"
Expected == session.before + 1

AwaitDone ==
  /\ ~cell.done
  /\ Proceed([session EXCEPT !.status = "executing"])
  /\ UNCHANGED cell

\* Mutant: execution is enough for a delta too.
WitnessedByExecution ==
  Executed \/ (Actual = Expected /\ ~session.store)

\* A non-empty result is enough for a goods insert; otherwise the read-back
\* total must be the expected one.
Witnessed ==
  \/ session.via = "insert" /\ Executed
  \/ Actual = Expected /\ ~(session.store /\ ~Executed)

VerifyGoods ==
  /\ cell.done /\ session.via # "instance" /\ Witnessed
  /\ Settle("completed", "complete")
  /\ UNCHANGED cell

Unwitnessed == cell.done /\ session.via # "instance" /\ ~Witnessed

Replans == /\ session.via = "insert" /\ ~session.replanned /\ ~session.store
           /\ ~Executed /\ Actual > 0

\* A refused insert beside a stack that now exists is planned again, as a
\* delta, once.
Replan ==
  /\ Unwitnessed /\ Replans
  /\ cell' = [cell EXCEPT !.request = "none"]
  /\ Proceed([session EXCEPT !.status = "replanning", !.active = FALSE,
                !.replanned = TRUE, !.before = Nothing, !.verify = 0, !.absent = 0])

StorageRefused == Unwitnessed /\ session.store /\ ~Executed

\* Mutant: one retry too many.
RetryStorageOnceMore ==
  /\ StorageRefused /\ session.retries <= StorageRetryLimit
  /\ cell' = [cell EXCEPT !.request = "none"]
  /\ Proceed([session EXCEPT !.status = "storage_retry_wait", !.active = FALSE,
                !.retries = @ + 1, !.before = Nothing])

RetryStorage ==
  /\ StorageRefused /\ session.retries < StorageRetryLimit
  /\ cell' = [cell EXCEPT !.request = "none"]
  /\ Proceed([session EXCEPT !.status = "storage_retry_wait", !.active = FALSE,
                !.retries = @ + 1, !.before = Nothing])

ExhaustStorage ==
  /\ StorageRefused /\ session.retries = StorageRetryLimit
  /\ Settle("failed", "other")
  /\ UNCHANGED cell

Surplus == session.via = "delta" /\ Executed /\ Actual > Expected

VerifySurplus ==
  /\ Unwitnessed /\ Surplus
  /\ Settle("completed", "complete")
  /\ UNCHANGED cell

Budget == IF session.via = "insert" /\ Actual \in {Nothing, 0}
          THEN HydrationPolls ELSE VerifyPolls

Short == Unwitnessed /\ ~Replans /\ ~StorageRefused /\ ~Surplus

VerifyAgain ==
  /\ Short /\ session.verify + 1 < Budget
  /\ Proceed([session EXCEPT !.status = "verify_pending", !.verify = @ + 1])
  /\ UNCHANGED cell

\* Mutant: every unverified grant counts as not applied.
VerifyFailsAsFixed ==
  /\ Short /\ session.verify + 1 >= Budget
  /\ Settle("failed", "fixed")
  /\ UNCHANGED cell

\* The park of a grant with no execution evidence is one whose cause counts
\* as fixed; an executed one is not.
VerifyFails ==
  /\ Short /\ session.verify + 1 >= Budget
  /\ Settle("failed", IF Executed THEN "other" ELSE "fixed")
  /\ UNCHANGED cell

\* verify_instance_insert: what the reported slot may read back as.  A stored
\* instance reports a slot number that another item may occupy.
SlotReads ==
  IF ~hydrated \/ ~Executed THEN {"unreadable"}
  ELSE IF cell.result = "held" THEN {"ours"} ELSE {"other", "unreadable"}

VerifyInstance(record) ==
  LET budget == IF record = "unreadable" THEN HydrationPolls ELSE VerifyPolls
      spent  == session.verify + 1 >= budget
  IN /\ cell.done /\ session.via = "instance"
     /\ \/ record = "ours" /\ Settle("completed", "complete")
        \/ record # "ours" /\ ~spent
             /\ Proceed([session EXCEPT !.status = "verify_pending", !.verify = @ + 1])
        \/ record = "unreadable" /\ spent /\ Executed
             /\ Settle("completed", "complete")
        \/ record # "ours" /\ spent /\ ~(Executed /\ record = "unreadable")
             /\ Settle("failed", "other")
     /\ UNCHANGED cell

PollActive ==
  /\ session.active
  /\ \/ AwaitDone \/ VerifyGoods \/ Replan \/ RetryStorage \/ ExhaustStorage
     \/ VerifySurplus \/ VerifyAgain \/ VerifyFails
     \/ \E record \in SlotReads : VerifyInstance(record)

-----------------------------------------------------------------------------
(***************************************************************************)
(* withdraw_unwitnessed: two reads, then the write that clears the request.*)
(***************************************************************************)
Withdrawable == cell.request # "none" /\ ~cell.done

ClearRequest ==
  /\ cell' = [cell EXCEPT !.request = "none"]
  /\ session' = [session EXCEPT !.status = "withdrawn", !.active = FALSE,
                                !.before = Nothing]
  /\ lane' = Nothing
  /\ UNCHANGED <<finished, preexec>>

\* A new process: the engine's memory is empty.
RestartEngine ==
  /\ lane' = Nothing /\ finished' = [i \in Idx |-> "none"] /\ preexec' = {}
  /\ session' = NewSession

-----------------------------------------------------------------------------
(***************************************************************************)
(* The game thread, modelled from what the client relies on: it serves a   *)
(* request once and then sets done; a delta is added to the record, and    *)
(* discarded when the record is full or gone; an insert goes to the held   *)
(* inventory or to storage, or is refused with the result cell left empty. *)
(***************************************************************************)
Serve(result) ==
  cell' = [cell EXCEPT !.request = "none", !.done = TRUE, !.result = result]

HandOver == applied' = [applied EXCEPT ![cell.owner] = @ + 1]

DeltaLands ==
  /\ cell.request = "delta" /\ stack \in 1 .. MaxStack - 1
  /\ Serve("held") /\ HandOver /\ stack' = stack + 1

DeltaDiscarded ==
  /\ cell.request = "delta" /\ stack \in {0, MaxStack}
  /\ Serve("held") /\ UNCHANGED <<stack, applied>>

InsertHeld ==
  /\ cell.request = "insert"
  /\ \/ cell.owner \in Equipment /\ UNCHANGED stack
     \/ cell.owner \notin Equipment /\ stack < MaxStack /\ stack' = stack + 1
  /\ Serve("held") /\ HandOver

InsertStored ==
  /\ cell.request = "insert"
  /\ Serve("stored") /\ HandOver /\ UNCHANGED stack

InsertRefused ==
  /\ cell.request = "insert"
  /\ Serve("empty") /\ UNCHANGED <<stack, applied>>

\* Beside a full stack goods are stored; any other insert is stored or refused
\* only as often as Limits says.
FullStack == cell.owner \notin Equipment /\ stack = MaxStack

GameServes ==
  /\ \/ (DeltaLands \/ DeltaDiscarded \/ InsertHeld) /\ UNCHANGED used
     \/ InsertStored /\ FullStack /\ UNCHANGED used
     \/ InsertStored /\ May("storage") /\ Happens("storage")
     \/ InsertRefused /\ May("refuse") /\ Happens("refuse")
  /\ UNCHANGED <<engine, hydrated>>

\* The player uses or loots a unit of the consumable.
PlayerSpends ==
  /\ stack > 0 /\ May("spend") /\ Happens("spend")
  /\ stack' = stack - 1
  /\ UNCHANGED <<engine, cell, hydrated, applied>>

PlayerPicks ==
  /\ stack < MaxStack /\ May("pick") /\ Happens("pick")
  /\ stack' = stack + 1
  /\ UNCHANGED <<engine, cell, hydrated, applied>>
=============================================================================
