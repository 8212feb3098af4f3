------------------------- MODULE ItemDeliveryProofs -------------------------
(***************************************************************************)
(* Proofs about the receive path, for every number of items, stack size,   *)
(* policy and bound on the disturbances.  Each part adds an invariant to   *)
(* those before it:                                                        *)
(*                                                                         *)
(*   IInv                    types; the plan is that of the next index     *)
(*                           and the engine's lane serves it               *)
(*   RowsInv, LatchInv       parks, requeues and latched verdicts agree    *)
(*   OwnerInv, PublishInv    what a published request is                   *)
(*   LiveInv, OnceInv        a live client knows what the game applied     *)
(*   SyncInv, RequestInv     what a restart finds on disk and in the cells *)
(*   StackInv, DeliveredInv  a stack at the expected total was granted     *)
(*   LevelInv, RiseInv,      the stack, the baseline of the plan, that of  *)
(*   OrderInv, SentInv       the session, and the one of the request       *)
(*   TagInv, ShelfInv,       what a waiting session, a deferred reward, a  *)
(*   FreshInv, InsertInv     verdict and an insert say after a restart     *)
(*   PlanInv, HandedInv      after a death the stack shows the grant       *)
(***************************************************************************)
EXTENDS ItemDelivery, WellFoundedInduction, TLAPS

-----------------------------------------------------------------------------
(***************************************************************************)
(* The slot ledger.                                                        *)
(***************************************************************************)
\* A row as the receive path leaves it: typed, and its plan is the next one.
Good(s) == s \in Slots /\ (s.pending # NoPlan => s.pending.index = NextIndex(s))

\* The least of a set of indices is one of them: what NextIndex takes from
\* the requeue set, and the Vial retry from the deferred set.
LEMMA MinIsMember ==
  ASSUME NEW S \in SUBSET Idx, S # {}
  PROVE  Min(S) \in S
<1>1. IsWellFoundedOn(OpToRel(<, Nat), Nat)
  BY NatLessThanWellFounded
<1>2. S \subseteq Nat
  BY SlotLedgerAssumption DEF Idx
<1>3. PICK x \in S : \A y \in S : ~(<<y, x>> \in OpToRel(<, Nat))
  <2>1. \E z : z \in S
    OBVIOUS
  <2> QED  BY <1>1, <1>2, <2>1, WFMin, Zenon
<1>4. \A y \in S : x =< y
  <2> SUFFICES ASSUME NEW y \in S PROVE x =< y
    OBVIOUS
  <2>1. ~(<<y, x>> \in OpToRel(<, Nat))
    BY <1>3
  <2>2. ~(y < x)
    BY <2>1, <1>2 DEF OpToRel
  <2> QED  BY <1>2, <2>2
<1> QED  BY <1>4 DEF Min

\* The next index is an index, or N when everything is processed.
LEMMA NextIndexType ==
  ASSUME NEW s \in Slots
  PROVE  NextIndex(s) \in 0 .. N
<1>1. s.redeliver \in SUBSET Idx /\ s.highest \in Nothing .. N-1
  BY DEF Slots
<1>2. CASE s.redeliver # {}
  BY <1>1, <1>2, MinIsMember, SlotLedgerAssumption DEF NextIndex, Idx
<1>3. CASE s.redeliver = {}
  BY <1>1, <1>3, SlotLedgerAssumption DEF NextIndex, Nothing
<1> QED  BY <1>2, <1>3

\* A row with the same cursor and requeue set has the same next index.
LEMMA SameNextIndex ==
  ASSUME NEW s, NEW t, t.redeliver = s.redeliver, t.highest = s.highest
  PROVE  NextIndex(t) = NextIndex(s)
BY DEF NextIndex

\* The index of a plan is the index being delivered.
LEMMA PlanIndex ==
  ASSUME NEW s, Good(s), s.pending # NoPlan
  PROVE  /\ s.pending \in Plans
         /\ s.pending.index = NextIndex(s)
         /\ NextIndex(s) \in Idx
BY DEF Good, Slots, Plans

LEMMA EmptyIsGood == Good(EmptySlot)
BY SlotLedgerAssumption DEF Good, EmptySlot, Slots, Acks, Nothing, NoPlan

\* begin, for the next index.
LEMMA BeginIsGood ==
  ASSUME NEW s, Good(s), s.pending = NoPlan, NextIndex(s) \in Idx, NEW e \in BOOLEAN
  PROVE  LET p == FreshPlan(NextIndex(s), e)
         IN /\ Good(Begin(s, p))
            /\ Begin(s, p).pending # NoPlan
            /\ ~Begin(s, p).pending.granted
            /\ NextIndex(Begin(s, p)) = NextIndex(s)
<1> DEFINE p == FreshPlan(NextIndex(s), e)
           t == Begin(s, p)
<1>1. p \in Plans /\ ~p.granted /\ p.index = NextIndex(s)
  BY SlotLedgerAssumption DEF FreshPlan, Plans, Nothing
<1>2. t = [s EXCEPT !.pending = p]
  BY DEF Begin
<1>3. s \in Slots
  BY DEF Good
<1> HIDE DEF p
<1>4. t \in Slots /\ t.pending = p /\ t.redeliver = s.redeliver /\ t.highest = s.highest
  BY <1>1, <1>2, <1>3 DEF Slots
<1>5. p # NoPlan
  BY <1>1, SlotLedgerAssumption DEF NoPlan, Idx, Nothing
<1>6. NextIndex(t) = NextIndex(s)
  BY <1>4, SameNextIndex
<1> QED  BY <1>1, <1>4, <1>5, <1>6 DEF Good, p

\* The operations that change a field of the plan: record_observed_before,
\* clear_observed_before, mark_grant_complete and mark_equip_complete.
LEMMA PlanEdit ==
  ASSUME NEW s, Good(s), s.pending # NoPlan, NEW p \in Plans,
         p.index = s.pending.index
  PROVE  LET t == [s EXCEPT !.pending = p]
         IN /\ Good(t) /\ t.pending = p /\ p # NoPlan
            /\ NextIndex(t) = NextIndex(s)
<1> DEFINE t == [s EXCEPT !.pending = p]
<1>1. s \in Slots
  BY DEF Good
<1>2. t \in Slots /\ t.pending = p /\ t.redeliver = s.redeliver /\ t.highest = s.highest
  BY <1>1 DEF Slots
<1>3. NextIndex(t) = NextIndex(s)
  BY <1>2, SameNextIndex
<1>4. p # NoPlan
  BY SlotLedgerAssumption DEF NoPlan, Plans, Idx, Nothing
<1> QED  BY <1>2, <1>3, <1>4, PlanIndex DEF Good

LEMMA RecordIsGood ==
  ASSUME NEW s, Good(s), s.pending # NoPlan, NEW q \in Nothing .. MaxStack
  PROVE  LET t == RecordObservedBefore(s, q)
         IN /\ Good(t) /\ t.pending # NoPlan /\ NextIndex(t) = NextIndex(s)
            /\ t.pending.granted = s.pending.granted
            /\ t.pending.index = s.pending.index
<1> DEFINE p == [s.pending EXCEPT !.before = q]
<1>1. s.pending \in Plans
  BY PlanIndex
<1>2. p \in Plans /\ p.index = s.pending.index /\ p.granted = s.pending.granted
  BY <1>1 DEF Plans
<1>3. RecordObservedBefore(s, q) = [s EXCEPT !.pending = p]
  BY DEF RecordObservedBefore
<1> HIDE DEF p
<1> QED  BY <1>2, <1>3, PlanEdit

LEMMA ClearIsGood ==
  ASSUME NEW s, Good(s), s.pending # NoPlan
  PROVE  LET t == ClearObservedBefore(s)
         IN /\ Good(t) /\ t.pending # NoPlan /\ NextIndex(t) = NextIndex(s)
<1>1. ClearObservedBefore(s) = RecordObservedBefore(s, Nothing)
  BY DEF ClearObservedBefore, RecordObservedBefore
<1>2. Nothing \in Nothing .. MaxStack
  BY SlotLedgerAssumption DEF Nothing
<1> QED  BY <1>1, <1>2, RecordIsGood

LEMMA GrantMarkIsGood ==
  ASSUME NEW s, Good(s), s.pending # NoPlan
  PROVE  LET t == MarkGrantComplete(s)
         IN /\ Good(t) /\ t.pending # NoPlan /\ NextIndex(t) = NextIndex(s)
            /\ t.pending.granted
<1> DEFINE p == [s.pending EXCEPT !.granted = TRUE]
<1>1. s.pending \in Plans
  BY PlanIndex
<1>2. p \in Plans /\ p.index = s.pending.index /\ p.granted
  BY <1>1 DEF Plans
<1>3. MarkGrantComplete(s) = [s EXCEPT !.pending = p]
  BY DEF MarkGrantComplete
<1> HIDE DEF p
<1> QED  BY <1>2, <1>3, PlanEdit

LEMMA EquipMarkIsGood ==
  ASSUME NEW s, Good(s), s.pending # NoPlan
  PROVE  LET t == MarkEquipComplete(s)
         IN /\ Good(t) /\ t.pending # NoPlan /\ NextIndex(t) = NextIndex(s)
            /\ t.pending.granted = s.pending.granted
<1> DEFINE p == [s.pending EXCEPT !.equipped = TRUE]
<1>1. s.pending \in Plans
  BY PlanIndex
<1>2. p \in Plans /\ p.index = s.pending.index /\ p.granted = s.pending.granted
  BY <1>1 DEF Plans
<1>3. MarkEquipComplete(s) = [s EXCEPT !.pending = p]
  BY DEF MarkEquipComplete
<1> HIDE DEF p
<1> QED  BY <1>2, <1>3, PlanEdit

\* acknowledge and acknowledge_blocked clear the plan.
LEMMA RetireIsGood ==
  ASSUME NEW s, Good(s), NEW i \in Idx, NEW a \in Acks
  PROVE  Good(Retire(s, i, a)) /\ Retire(s, i, a).pending = NoPlan
<1>1. s \in Slots
  BY DEF Good
<1>2. AdvanceCursor(s, i) \in Slots
  <2> DEFINE h == IF s.highest > i THEN s.highest ELSE i
  <2>1. h \in Nothing .. N-1
    BY <1>1, SlotLedgerAssumption DEF Slots, Idx, Nothing
  <2>2. s.redeliver \ {i} \in SUBSET Idx
    BY <1>1 DEF Slots
  <2>3. AdvanceCursor(s, i) = [s EXCEPT !.redeliver = s.redeliver \ {i}, !.highest = h]
    BY DEF AdvanceCursor
  <2> HIDE DEF h
  <2> QED  BY <1>1, <2>1, <2>2, <2>3 DEF Slots
<1>3. Retire(s, i, a) \in Slots /\ Retire(s, i, a).pending = NoPlan
  BY <1>2 DEF Retire, Slots
<1> QED  BY <1>3 DEF Good

\* Parks are requeued only beside no plan.
LEMMA RequeueAllIsGood ==
  ASSUME NEW s, Good(s), NEW r
  PROVE  /\ Good(RequeueAll(s, r))
         /\ s.pending # NoPlan => RequeueAll(s, r) = s
         /\ RequeueAll(s, r).pending = s.pending
<1>1. s \in Slots
  BY DEF Good
<1>2. CASE s.pending # NoPlan
  BY <1>2 DEF RequeueAll
<1>3. CASE s.pending = NoPlan
  <2>1. RequeueAll(s, r) \in Slots /\ RequeueAll(s, r).pending = s.pending
    BY <1>1, <1>3 DEF RequeueAll, Slots, Acks
  <2> QED  BY <1>3, <2>1 DEF Good
<1> QED  BY <1>2, <1>3

LEMMA RequeueBlockedIsGood ==
  ASSUME NEW s, Good(s), NEW i \in Idx, CanRequeueBlocked(s, i)
  PROVE  Good(RequeueBlocked(s, i)) /\ RequeueBlocked(s, i).pending = NoPlan
<1>1. s \in Slots /\ s.pending = NoPlan
  BY DEF Good, CanRequeueBlocked
<1>2. RequeueBlocked(s, i) \in Slots /\ RequeueBlocked(s, i).pending = NoPlan
  BY <1>1 DEF RequeueBlocked, Slots, Acks
<1> QED  BY <1>2 DEF Good

LEMMA UnblockIsGood ==
  ASSUME NEW s, Good(s), NEW i \in Idx
  PROVE  Good(Unblock(s, i))
<1> DEFINE t == Unblock(s, i)
<1>1. s \in Slots
  BY DEF Good
<1>2. /\ t \in Slots /\ t.pending = s.pending
      /\ t.redeliver = s.redeliver /\ t.highest = s.highest
  BY <1>1 DEF Unblock, Slots, Acks
<1>3. NextIndex(t) = NextIndex(s)
  BY <1>2, SameNextIndex
<1> QED  BY <1>2, <1>3 DEF Good

-----------------------------------------------------------------------------
(***************************************************************************)
(* The native lane.                                                        *)
(***************************************************************************)
Verdicts == Blocked \cup {"complete"}

\* What find_stack reports is a quantity the plan can record.
LEMMA HeldType ==
  ASSUME NativeTypeOK, NEW i
  PROVE  Held(i) \in 0 .. MaxStack
BY NativeGrantAssumption, SlotLedgerAssumption DEF NativeTypeOK, Held

\* A poll of the session ends in one of two ways: it goes on, with a status
\* that is no verdict, or it latches a verdict and frees the lane.
GoesOn(s) == s \in Sessions /\ s.status \notin Terminal /\ Proceed(s)

Latches == \E st \in Terminal, v \in Verdicts : Settle(st, v)

PollOutcome ==
  /\ cell' \in Cells
  /\ Latches \/ \E s : GoesOn(s)

LEMMA PendingOutcome ==
  ASSUME NativeTypeOK, lane \in Idx, PollPending
  PROVE  PollOutcome
<1> USE SlotLedgerAssumption, NativeGrantAssumption
<1>1. session \in Sessions /\ cell \in Cells /\ hydrated \in BOOLEAN
  BY DEF NativeTypeOK
<1>2. Held(lane) \in 0 .. MaxStack
  BY HeldType
<1>3. Baseline \in Nothing .. MaxStack
  BY <1>1, <1>2 DEF Baseline, Sessions, Nothing
<1>4. Overflows \in BOOLEAN
  BY <1>1 DEF Overflows, Sessions, Goods
<1>5. CASE AwaitInventory
  <2> DEFINE s == [session EXCEPT !.status = "awaiting_inventory"]
  <2>1. s \in Sessions /\ s.status \notin Terminal
    BY <1>1 DEF Sessions, Statuses, Waiting, Terminal
  <2> HIDE DEF s
  <2>2. Proceed(s) /\ cell' = cell
    BY <1>5 DEF AwaitInventory, s
  <2> QED  BY <1>1, <2>1, <2>2 DEF PollOutcome, GoesOn
<1>6. CASE AwaitAbsent
  <2> DEFINE s == [session EXCEPT !.status = "awaiting_inventory", !.absent = session.absent + 1]
  <2>0. session.absent + 1 \in 0 .. MinAbsentPolls
    BY <1>1, <1>6 DEF Sessions, AwaitAbsent
  <2>1. s \in Sessions /\ s.status \notin Terminal
    BY <1>1, <2>0 DEF Sessions, Statuses, Waiting, Terminal
  <2> HIDE DEF s
  <2>2. Proceed(s) /\ cell' = cell
    BY <1>6 DEF AwaitAbsent, s
  <2> QED  BY <1>1, <2>1, <2>2 DEF PollOutcome, GoesOn
<1>7. CASE Recover \/ Mismatch \/ RefuseVial
  <2>1. cell' = cell
    BY <1>7 DEF Recover, Mismatch, RefuseVial
  <2>2. Latches
    BY <1>7 DEF Recover, Mismatch, RefuseVial, Latches, Terminal, Verdicts, Blocked
  <2> QED  BY <1>1, <2>1, <2>2 DEF PollOutcome
<1> DEFINE a == IF Absent THEN MinAbsentPolls ELSE 0
<1>a. a \in 0 .. MinAbsentPolls
  OBVIOUS
<1> HIDE DEF a
<1>8. CASE AwaitLane
  <2> DEFINE s == [session EXCEPT !.status = "busy", !.store = Overflows, !.absent = a]
  <2>1. s \in Sessions /\ s.status \notin Terminal
    BY <1>1, <1>4, <1>a DEF Sessions, Statuses, Waiting, Terminal
  <2> HIDE DEF s
  <2>2. Proceed(s) /\ cell' = cell
    BY <1>8 DEF AwaitLane, s, a
  <2> QED  BY <1>1, <2>1, <2>2 DEF PollOutcome, GoesOn
<1>9. CASE QueueNative
  <2> DEFINE via == IF ~Goods THEN "instance"
                    ELSE IF Absent \/ Overflows THEN "insert" ELSE "delta"
             b   == IF Goods THEN Baseline ELSE 0
             s   == [session EXCEPT !.status = "executing", !.active = TRUE,
                       !.before = b, !.via = via, !.store = Overflows,
                       !.verify = 0, !.absent = a]
  <2>1. via \in {"insert", "instance", "delta"} /\ b \in Nothing .. MaxStack
    BY <1>3 DEF Nothing
  <2>2. Proceed(s)
    BY <1>9 DEF QueueNative, a
  <2>3. cell' = [request |-> IF via = "delta" THEN "delta" ELSE "insert",
                 done |-> FALSE, result |-> "empty", owner |-> lane]
    BY <1>9 DEF QueueNative
  <2>4. cell' \in Cells
    BY <2>3 DEF Cells
  <2> HIDE DEF via, b
  <2>5. s \in Sessions /\ s.status \notin Terminal
    BY <1>1, <1>4, <1>a, <2>1 DEF Sessions, Statuses, Terminal
  <2> HIDE DEF s
  <2> QED  BY <2>2, <2>4, <2>5 DEF PollOutcome, GoesOn
<1> QED  BY <1>5, <1>6, <1>7, <1>8, <1>9 DEF PollPending

LEMMA ActiveOutcome ==
  ASSUME NativeTypeOK, lane \in Idx, PollActive
  PROVE  PollOutcome
<1> USE SlotLedgerAssumption, NativeGrantAssumption
<1>1. session \in Sessions /\ cell \in Cells
  BY DEF NativeTypeOK
<1> DEFINE c == [cell EXCEPT !.request = "none"]
<1>2. c \in Cells
  BY <1>1 DEF Cells
<1>3. Nothing \in Nothing .. MaxStack
  BY DEF Nothing
<1> HIDE DEF c
<1>4. CASE AwaitDone
  <2> DEFINE s == [session EXCEPT !.status = "executing"]
  <2>1. s \in Sessions /\ s.status \notin Terminal
    BY <1>1 DEF Sessions, Statuses, Terminal
  <2> HIDE DEF s
  <2>2. Proceed(s) /\ cell' = cell
    BY <1>4 DEF AwaitDone, s
  <2> QED  BY <1>1, <2>1, <2>2 DEF PollOutcome, GoesOn
<1>5. CASE VerifyGoods \/ ExhaustStorage \/ VerifySurplus \/ VerifyFails
  <2>1. cell' = cell
    BY <1>5 DEF VerifyGoods, ExhaustStorage, VerifySurplus, VerifyFails
  <2>2. Latches
    BY <1>5 DEF VerifyGoods, ExhaustStorage, VerifySurplus, VerifyFails,
                Latches, Terminal, Verdicts, Blocked
  <2> QED  BY <1>1, <2>1, <2>2 DEF PollOutcome
<1>6. CASE Replan
  <2> DEFINE s == [session EXCEPT !.status = "replanning", !.active = FALSE,
                     !.replanned = TRUE, !.before = Nothing, !.verify = 0, !.absent = 0]
  <2>0. 0 \in 0 .. MinAbsentPolls /\ 0 \in Nat
    OBVIOUS
  <2>1. s \in Sessions /\ s.status \notin Terminal
    BY <1>1, <1>3, <2>0 DEF Sessions, Statuses, Terminal
  <2> HIDE DEF s
  <2>2. Proceed(s) /\ cell' = c
    BY <1>6 DEF Replan, s, c
  <2> QED  BY <1>2, <2>1, <2>2 DEF PollOutcome, GoesOn
<1>7. CASE RetryStorage
  <2> DEFINE r == session.retries + 1
             s == [session EXCEPT !.status = "storage_retry_wait", !.active = FALSE,
                     !.retries = r, !.before = Nothing]
  <2>1. r \in 0 .. StorageRetryLimit
    BY <1>1, <1>7 DEF Sessions, RetryStorage
  <2>2. Proceed(s) /\ cell' = c
    BY <1>7 DEF RetryStorage, c
  <2> HIDE DEF r
  <2>3. s \in Sessions /\ s.status \notin Terminal
    BY <1>1, <1>3, <2>1 DEF Sessions, Statuses, Terminal
  <2> HIDE DEF s
  <2> QED  BY <1>2, <2>2, <2>3 DEF PollOutcome, GoesOn
<1> DEFINE v     == session.verify + 1
           again == [session EXCEPT !.status = "verify_pending", !.verify = v]
<1>8. again \in Sessions /\ again.status \notin Terminal
  <2>1. v \in Nat
    BY <1>1 DEF Sessions
  <2> HIDE DEF v
  <2> QED  BY <1>1, <2>1 DEF Sessions, Statuses, Terminal
<1>9. CASE VerifyAgain
  <2>1. Proceed(again) /\ cell' = cell
    BY <1>9 DEF VerifyAgain
  <2> HIDE DEF again
  <2> QED  BY <1>1, <1>8, <2>1 DEF PollOutcome, GoesOn
<1>10. CASE \E record \in SlotReads : VerifyInstance(record)
  <2>1. PICK record \in SlotReads : VerifyInstance(record)
    BY <1>10
  <2>2. cell' = cell
    BY <2>1 DEF VerifyInstance
  <2>3. Proceed(again) \/ Settle("completed", "complete") \/ Settle("failed", "other")
    BY <2>1 DEF VerifyInstance
  <2> HIDE DEF again
  <2>4. CASE Proceed(again)
    BY <1>1, <1>8, <2>2, <2>4 DEF PollOutcome, GoesOn
  <2>5. CASE Settle("completed", "complete") \/ Settle("failed", "other")
    <3>1. Latches
      BY <2>5 DEF Latches, Terminal, Verdicts, Blocked
    <3> QED  BY <1>1, <2>2, <3>1 DEF PollOutcome
  <2> QED  BY <2>3, <2>4, <2>5
<1> QED  BY <1>4, <1>5, <1>6, <1>7, <1>9, <1>10 DEF PollActive

\* What a poll of the session leaves behind, for the receive path.
LEMMA PollResult ==
  ASSUME NativeTypeOK, lane \in Idx, PollPending \/ PollActive
  PROVE  /\ lane' \in Idx \cup {Nothing}
         /\ finished' \in [Idx -> Blocked \cup {"none", "complete"}]
         /\ preexec' \subseteq Idx
         /\ session' \in Sessions
         /\ cell' \in Cells
         /\ \A j \in Idx \ {lane} : finished'[j] = finished[j]
         /\ \/ /\ session'.status \in Terminal
               /\ lane' = Nothing /\ finished'[lane] # "none"
            \/ /\ session'.status \notin Terminal
               /\ lane' = lane /\ finished' = finished
<1>1. PollOutcome
  BY PendingOutcome, ActiveOutcome
<1>2. cell' \in Cells
  BY <1>1 DEF PollOutcome
<1>3. CASE Latches
  <2>1. PICK st \in Terminal, v \in Verdicts : Settle(st, v)
    BY <1>3 DEF Latches
  <2>2. st \in Statuses /\ v # "none" /\ v \in Blocked \cup {"none", "complete"}
    BY DEF Statuses, Verdicts, Blocked
  <2>3. lane' = Nothing /\ lane' \in Idx \cup {Nothing}
    BY <2>1 DEF Settle
  <2>4. /\ finished' \in [Idx -> Blocked \cup {"none", "complete"}] /\ finished'[lane] # "none"
        /\ \A j \in Idx \ {lane} : finished'[j] = finished[j]
    BY <2>1, <2>2 DEF Settle, NativeTypeOK
  <2>5. preexec' \subseteq Idx
    BY <2>1 DEF Settle, NativeTypeOK
  <2>6. session' \in Sessions /\ session'.status \in Terminal
    <3>1. session \in Sessions /\ session' = [session EXCEPT !.status = st, !.active = FALSE]
      BY <2>1 DEF Settle, NativeTypeOK
    <3> QED  BY <2>2, <3>1 DEF Sessions
  <2> QED  BY <1>2, <2>3, <2>4, <2>5, <2>6
<1>4. CASE \E s : GoesOn(s)
  BY <1>2, <1>4 DEF GoesOn, Proceed, NativeTypeOK
<1> QED  BY <1>1, <1>3, <1>4 DEF PollOutcome

-----------------------------------------------------------------------------
(***************************************************************************)
(* The inductive invariant.  PlanIsNext and LaneServesPlan are not         *)
(* inductive by themselves: a poll relies, at each stage, on what the      *)
(* stages before it established.                                           *)
(***************************************************************************)
RestOK ==
  /\ pc \in Stages
  /\ received \in 0 .. N
  /\ world \in {"play", "load", "refused"}
  /\ why \in {"load", "refused", "play", "startup"}
  /\ seen \in [Keys -> 0 .. MinAbsentPolls]
  /\ asked \in [Idx -> Nat]

\* A lane that is held has no verdict yet.
LaneOpen == lane # Nothing => finished[lane] = "none"

StageInv ==
  /\ pc = "plan" => Cur < received
  /\ pc \in {"baseline", "grant", "poll", "verdict"}
       => mem.pending # NoPlan /\ ~mem.pending.granted
  /\ pc \in {"equip", "ack"} => mem.pending # NoPlan /\ mem.pending.granted
  /\ pc = "poll" => lane = Cur
  /\ pc = "verdict" => finished[Cur] # "none"

IInv ==
  /\ NativeTypeOK /\ RestOK
  /\ Good(mem) /\ Good(disk)
  /\ LaneServesPlan /\ LaneOpen
  /\ StageInv

\* The stages that rely on nothing.
Calm == Stages \ {"plan", "baseline", "grant", "poll", "verdict", "equip", "ack"}

LEMMA CalmStage ==
  ASSUME pc' \in Calm
  PROVE  StageInv'
BY DEF Calm, StageInv

\* A poll step that touches neither the ledger nor the native lane.
LEMMA QuietStep ==
  ASSUME IInv, UNCHANGED <<native, mem, disk>>, RestOK', StageInv'
  PROVE  IInv'
BY DEF IInv, native, engine, NativeTypeOK, LaneServesPlan, LaneOpen

\* With no plan, or with its grant done, the lane is free.
LEMMA LaneFree ==
  ASSUME IInv, mem.pending = NoPlan \/ mem.pending.granted
  PROVE  lane = Nothing
BY DEF IInv, LaneServesPlan, NoPlan

\* ledger.save: both copies of the row stay good, whether it succeeds or not.
LEMMA CommitGood ==
  ASSUME IInv, NEW slot, Good(slot), NEW next \in Stages, Commit(slot, next)
  PROVE  /\ mem' = slot /\ Good(mem') /\ Good(disk')
         /\ pc' \in {next, "idle"} /\ pc' \in Stages
         /\ used' \in [Disturbances -> Nat]
<1>1. CASE disk' = slot /\ pc' = next /\ UNCHANGED used
  BY <1>1 DEF Commit, IInv, NativeTypeOK
<1>2. CASE Happens("savefail") /\ pc' = "idle" /\ UNCHANGED disk
  BY <1>2 DEF Commit, Happens, IInv, NativeTypeOK, Stages, Disturbances
<1> QED  BY <1>1, <1>2 DEF Commit

\* A step that saves the row and leaves the native lane alone.
LEMMA SavingStep ==
  ASSUME IInv, NEW slot, Good(slot), NEW next \in Stages, Commit(slot, next),
         UNCHANGED <<engine, cell, game, hydrated, received, world, why, asked>>,
         seen' \in [Keys -> 0 .. MinAbsentPolls],
         lane # Nothing => slot.pending.index = mem.pending.index
                           /\ slot.pending.granted = mem.pending.granted,
         pc' = next => StageInv'
  PROVE  IInv'
<1>1. /\ mem' = slot /\ Good(mem') /\ Good(disk')
      /\ pc' \in {next, "idle"} /\ pc' \in Stages
      /\ used' \in [Disturbances -> Nat]
  BY CommitGood
<1>2. NativeTypeOK'
  BY <1>1 DEF IInv, NativeTypeOK, engine, game
<1>3. RestOK'
  BY <1>1 DEF IInv, RestOK
<1>4. LaneServesPlan' /\ LaneOpen'
  BY <1>1 DEF IInv, LaneServesPlan, LaneOpen, engine
<1>5. StageInv'
  BY <1>1, CalmStage DEF Calm, Stages
<1> QED  BY <1>1, <1>2, <1>3, <1>4, <1>5 DEF IInv

\* What the environment does to the inventory and the cells between the
\* client's steps.
LEMMA WorldStep ==
  ASSUME IInv, NativeTypeOK', RestOK',
         UNCHANGED <<lane, finished, pc, mem, disk>>, received' >= received
  PROVE  IInv'
<1>1. StageInv'
  <2>1. Cur' = Cur /\ Cur \in 0 .. N
    BY NextIndexType DEF Cur, IInv, Good
  <2>2. received \in 0 .. N /\ received' \in 0 .. N
    BY DEF IInv, RestOK
  <2>3. pc' = "plan" => Cur' < received'
    BY <2>1, <2>2 DEF IInv, StageInv
  <2> QED  BY <2>1, <2>3 DEF IInv, StageInv
<1> QED  BY <1>1 DEF IInv, LaneServesPlan, LaneOpen

-----------------------------------------------------------------------------
(***************************************************************************)
(* The steps of a poll.                                                    *)
(***************************************************************************)
LEMMA SightingTypes ==
  ASSUME IInv
  PROVE  /\ ObserveVials => seen' \in [Keys -> 0 .. MinAbsentPolls]
         /\ \A i \in Idx : Observes(i) => seen' \in [Keys -> 0 .. MinAbsentPolls]
<1> USE NativeGrantAssumption
<1>1. seen \in [Keys -> 0 .. MinAbsentPolls]
  BY DEF IInv, RestOK
<1>2. \A i \in Idx : Key(i) \in Keys
  BY DEF Key, Keys
<1>3. \A i \in Idx : Sighted(i) \in 0 .. MinAbsentPolls
  BY <1>1, <1>2 DEF Sighted
<1>4. Nothing \in Keys
  BY DEF Keys
<1> DEFINE v == IF stack > 0 THEN 0
                ELSE IF seen[Nothing] < MinAbsentPolls THEN seen[Nothing] + 1
                ELSE MinAbsentPolls
<1>5. v \in 0 .. MinAbsentPolls
  BY <1>1, <1>4
<1>6. ObserveVials => seen' = [seen EXCEPT ![Nothing] = v] \/ seen' = seen
  BY DEF ObserveVials
<1> HIDE DEF v
<1>7. ObserveVials => seen' \in [Keys -> 0 .. MinAbsentPolls]
  BY <1>1, <1>5, <1>6
<1>8. \A i \in Idx : Observes(i) => seen' \in [Keys -> 0 .. MinAbsentPolls]
  BY <1>1, <1>2, <1>3 DEF Observes
<1> QED  BY <1>7, <1>8

\* The start of a poll, with or without a deferred Vial reward.
LEMMA PollStartKeeps ==
  ASSUME IInv, PollStart \/ PollReleasesVial \/ PollVialRefused
  PROVE  IInv'
<1>1. seen' \in [Keys -> 0 .. MinAbsentPolls]
  BY SightingTypes DEF PollStart, PollReleasesVial, PollVialRefused
<1>2. CASE PollStart
  <2>1. pc' = "next" /\ UNCHANGED <<native, mem, disk, received, world, why, asked>>
    BY <1>2 DEF PollStart, Goto
  <2>2. StageInv'
    BY <2>1, CalmStage DEF Calm, Stages
  <2>3. RestOK'
    BY <1>1, <2>1 DEF IInv, RestOK, Stages
  <2> QED  BY <2>1, <2>2, <2>3, QuietStep
<1> DEFINE d == DeferredVial
<1>3. CASE PollReleasesVial \/ PollVialRefused
  <2>1. VialReady /\ ReleaseVialRefusal(d) /\ UNCHANGED <<cell, stack, hydrated, applied>>
    BY <1>3 DEF PollReleasesVial, PollVialRefused
  <2>2. d \in Idx
    BY <2>1, MinIsMember DEF VialReady, VialsDue, DeferredVial, IInv, Good, Slots
  <2>3. lane = Nothing /\ lane' = lane /\ session' = session /\ preexec' \subseteq Idx
        /\ finished' \in [Idx -> Blocked \cup {"none", "complete"}]
    BY <2>1 DEF ReleaseVialRefusal, ReleasesVialRefusal, IInv, NativeTypeOK
  <2>4. Good(mem') /\ Good(disk') /\ pc' \in {"idle", "next"}
        /\ used' \in [Disturbances -> Nat]
    <3>1. CASE PollReleasesVial
      <4>1. CanRequeueBlocked(mem, d) /\ Commit(RequeueBlocked(mem, d), "next")
        BY <3>1 DEF PollReleasesVial
      <4>2. Good(RequeueBlocked(mem, d))
        BY <2>2, <4>1, RequeueBlockedIsGood DEF IInv
      <4>3. "next" \in Stages
        BY DEF Stages
      <4> QED  BY <4>1, <4>2, <4>3, CommitGood
    <3>2. CASE PollVialRefused
      BY <3>2 DEF PollVialRefused, Goto, IInv, NativeTypeOK
    <3> QED  BY <1>3, <3>1, <3>2
  <2>5. UNCHANGED <<received, world, why, asked>>
    BY <1>3 DEF PollReleasesVial, PollVialRefused
  <2>6. NativeTypeOK'
    BY <2>1, <2>3, <2>4 DEF IInv, NativeTypeOK
  <2>7. RestOK'
    BY <1>1, <2>4, <2>5 DEF IInv, RestOK, Stages
  <2>8. StageInv'
    BY <2>4, CalmStage DEF Calm, Stages
  <2>9. LaneServesPlan' /\ LaneOpen'
    BY <2>3 DEF LaneServesPlan, LaneOpen
  <2> QED  BY <2>4, <2>6, <2>7, <2>8, <2>9 DEF IInv
<1> QED  BY <1>2, <1>3

\* The next item, the context, and a plan that is held or resumed.
LEMMA LookUpKeeps ==
  ASSUME IInv, NothingToDeliver \/ ContextValid \/ ContextLost \/ HoldPlan \/ ResumePlan
  PROVE  IInv'
<1>1. UNCHANGED <<native, mem, disk, received, world, seen, asked>>
  BY DEF NothingToDeliver, ContextValid, ContextLost, HoldPlan, ResumePlan, Goto
<1>2. why' \in {"load", "refused", "play", "startup"}
  BY DEF NothingToDeliver, ContextValid, ContextLost, HoldPlan, ResumePlan, IInv, RestOK
<1>3. pc' \in {"idle", "plan", "withdraw", "equip", "baseline"}
  BY DEF NothingToDeliver, ContextValid, ContextLost, HoldPlan, ResumePlan, Goto
<1>4. RestOK'
  BY <1>1, <1>2, <1>3 DEF IInv, RestOK, Stages
<1>5. StageInv'
  <2>1. pc' = "plan" => Cur' < received'
    BY <1>1 DEF NothingToDeliver, ContextValid, ContextLost, HoldPlan, ResumePlan, Goto, Cur
  <2>2. pc' = "baseline" => mem'.pending # NoPlan /\ ~mem'.pending.granted
    BY <1>1 DEF NothingToDeliver, ContextValid, ContextLost, HoldPlan, ResumePlan, Goto
  <2>3. pc' = "equip" => mem'.pending # NoPlan /\ mem'.pending.granted
    BY <1>1 DEF NothingToDeliver, ContextValid, ContextLost, HoldPlan, ResumePlan, Goto
  <2> QED  BY <1>3, <2>1, <2>2, <2>3 DEF StageInv
<1> QED  BY <1>1, <1>4, <1>5, QuietStep

LEMMA BeginPlanKeeps ==
  ASSUME IInv, BeginPlan
  PROVE  IInv'
<1> DEFINE e    == Cur \in AutoEquip
           slot == Begin(mem, FreshPlan(Cur, e))
<1>1. /\ mem.pending = NoPlan /\ Commit(slot, "baseline") /\ Good(mem)
      /\ UNCHANGED <<engine, cell, game, hydrated, received, world, why, seen, asked>>
  BY DEF BeginPlan, IInv
<1>2. Cur \in Idx
  <2>1. Cur < received /\ Cur \in 0 .. N /\ received \in 0 .. N
    BY NextIndexType DEF BeginPlan, IInv, StageInv, RestOK, Cur, Good
  <2> QED  BY <2>1, SlotLedgerAssumption DEF Idx
<1>3. Good(slot) /\ slot.pending # NoPlan /\ ~slot.pending.granted
  <2>1. e \in BOOLEAN
    OBVIOUS
  <2> HIDE DEF e
  <2> QED  BY <1>1, <1>2, <2>1, BeginIsGood DEF Cur
<1> HIDE DEF slot
<1>4. mem' = slot
  BY <1>1 DEF Commit
<1>5. pc' = "baseline" => StageInv'
  BY <1>3, <1>4 DEF StageInv
<1>6. lane = Nothing
  BY <1>1, LaneFree
<1>7. seen' \in [Keys -> 0 .. MinAbsentPolls] /\ "baseline" \in Stages
  BY <1>1 DEF IInv, RestOK, Stages
<1> QED  BY <1>1, <1>3, <1>5, <1>6, <1>7, SavingStep

\* The baseline: the recorded one, none yet, or the one just observed.
LEMMA BaselineKeeps ==
  ASSUME IInv, UseRecordedBaseline \/ AwaitObservation \/ RecordBaseline
  PROVE  IInv'
<1>1. mem.pending # NoPlan /\ ~mem.pending.granted /\ Good(mem)
  BY DEF UseRecordedBaseline, AwaitObservation, RecordBaseline, IInv, StageInv
<1>2. Cur \in Idx
  BY <1>1, PlanIndex DEF Cur
<1>3. CASE UseRecordedBaseline
  <2>1. pc' = "grant" /\ UNCHANGED <<native, mem, disk, received, world, why, seen, asked>>
    BY <1>3 DEF UseRecordedBaseline, Goto
  <2>2. StageInv'
    BY <1>1, <2>1 DEF StageInv
  <2>3. RestOK'
    BY <2>1 DEF IInv, RestOK, Stages
  <2> QED  BY <2>1, <2>2, <2>3, QuietStep
<1>4. CASE AwaitObservation
  <2>1. pc' = "idle" /\ UNCHANGED <<native, mem, disk, received, world, why, asked>>
    BY <1>4 DEF AwaitObservation, Goto
  <2>2. StageInv'
    BY <2>1, CalmStage DEF Calm, Stages
  <2>3. seen' \in [Keys -> 0 .. MinAbsentPolls]
    BY <1>2, <1>4, SightingTypes DEF AwaitObservation
  <2>4. RestOK'
    BY <2>1, <2>3 DEF IInv, RestOK, Stages
  <2> QED  BY <2>1, <2>2, <2>4, QuietStep
<1>5. CASE RecordBaseline
  <2> DEFINE slot == RecordObservedBefore(mem, Held(Cur))
  <2>1. /\ Commit(slot, "grant")
        /\ UNCHANGED <<engine, cell, game, hydrated, received, world, why, asked>>
    BY <1>5 DEF RecordBaseline
  <2>2. Held(Cur) \in Nothing .. MaxStack
    BY HeldType, SlotLedgerAssumption DEF IInv, Nothing
  <2>3. /\ Good(slot) /\ slot.pending # NoPlan
        /\ slot.pending.granted = mem.pending.granted
        /\ slot.pending.index = mem.pending.index
    BY <1>1, <2>2, RecordIsGood
  <2> HIDE DEF slot
  <2>4. mem' = slot
    BY <2>1 DEF Commit
  <2>5. pc' = "grant" => StageInv'
    BY <1>1, <2>3, <2>4 DEF StageInv
  <2>6. seen' \in [Keys -> 0 .. MinAbsentPolls] /\ "grant" \in Stages
    BY <1>2, <1>5, SightingTypes DEF RecordBaseline, Stages
  <2> QED  BY <2>1, <2>3, <2>5, <2>6, SavingStep
<1> QED  BY <1>3, <1>4, <1>5

LEMMA NewSessionType == NewSession \in Sessions
<1>1. /\ Nothing \in Nothing .. MaxStack /\ 0 \in Nat
      /\ 0 \in 0 .. StorageRetryLimit /\ 0 \in 0 .. MinAbsentPolls
  BY SlotLedgerAssumption, NativeGrantAssumption DEF Nothing
<1> QED  BY <1>1 DEF NewSession, Sessions, Statuses

\* The grant: a latched verdict, a submission, or the lane's own request.
LEMMA GrantKeeps ==
  ASSUME IInv, GrantLatched \/ GrantSubmits \/ GrantContinues
  PROVE  IInv'
<1>1. /\ mem.pending # NoPlan /\ ~mem.pending.granted /\ Good(mem)
      /\ UNCHANGED <<mem, disk, cell, stack, hydrated, applied, used>>
      /\ UNCHANGED <<received, world, why, seen, asked>>
      /\ pc' \in {"verdict", "poll"}
  BY DEF GrantLatched, GrantSubmits, GrantContinues, Goto, IInv, StageInv, native
<1>2. mem.pending \in Plans /\ mem.pending.index = Cur /\ Cur \in Idx /\ Cur' = Cur
  BY <1>1, PlanIndex DEF Cur
<1>3. RestOK'
  BY <1>1 DEF IInv, RestOK, Stages
<1>4. CASE GrantLatched \/ GrantContinues
  <2>1. UNCHANGED native
    BY <1>4 DEF GrantLatched, GrantContinues
  <2>2. /\ pc' = "verdict" => finished'[Cur] # "none"
        /\ pc' = "poll" => lane' = Cur
    BY <1>4, <2>1 DEF GrantLatched, GrantContinues, Goto, native, engine
  <2>3. StageInv'
    BY <1>1, <1>2, <2>2 DEF StageInv
  <2> QED  BY <1>1, <1>3, <2>1, <2>3, QuietStep
<1>5. CASE GrantSubmits
  <2>1. /\ Submit(Cur, mem.pending.before) /\ finished[Cur] = "none" /\ pc' = "poll"
    BY <1>5 DEF GrantSubmits, Goto
  <2> DEFINE a == IF session.tag = Cur THEN session.absent ELSE 0
  <2>2. /\ lane' = Cur /\ finished' = finished /\ preexec' = preexec
        /\ session' = [NewSession EXCEPT !.tag = Cur, !.status = "queued",
                         !.before = mem.pending.before, !.absent = a]
    BY <2>1 DEF Submit
  <2>3. a \in 0 .. MinAbsentPolls
    BY NativeGrantAssumption DEF IInv, NativeTypeOK, Sessions
  <2>4. mem.pending.before \in Nothing .. MaxStack
    BY <1>2 DEF Plans
  <2> HIDE DEF a
  <2>5. session' \in Sessions
    BY <1>2, <2>2, <2>3, <2>4, NewSessionType DEF Sessions, Statuses, Waiting
  <2>6. NativeTypeOK'
    BY <1>1, <1>2, <2>2, <2>5 DEF IInv, NativeTypeOK
  <2>7. LaneServesPlan' /\ LaneOpen'
    BY <1>1, <1>2, <2>1, <2>2 DEF LaneServesPlan, LaneOpen
  <2>8. StageInv'
    BY <1>1, <1>2, <2>1, <2>2 DEF StageInv
  <2> QED  BY <1>1, <1>3, <2>6, <2>7, <2>8 DEF IInv
<1> QED  BY <1>4, <1>5

LEMMA GrantPollsKeeps ==
  ASSUME IInv, GrantPolls
  PROVE  IInv'
<1>1. /\ mem.pending # NoPlan /\ ~mem.pending.granted /\ Good(mem) /\ lane = Cur
      /\ UNCHANGED <<mem, disk, stack, hydrated, applied, used>>
      /\ UNCHANGED <<received, world, why, seen, asked>>
      /\ pc' = IF session'.status \in Terminal THEN "verdict" ELSE "idle"
      /\ PollPending \/ PollActive
  BY DEF GrantPolls, Goto, IInv, StageInv
<1>2. lane \in Idx /\ Cur' = Cur
  BY <1>1, PlanIndex DEF Cur
<1>3. /\ lane' \in Idx \cup {Nothing}
      /\ finished' \in [Idx -> Blocked \cup {"none", "complete"}]
      /\ preexec' \subseteq Idx
      /\ session' \in Sessions
      /\ cell' \in Cells
      /\ \/ /\ session'.status \in Terminal
            /\ lane' = Nothing /\ finished'[lane] # "none"
         \/ /\ session'.status \notin Terminal
            /\ lane' = lane /\ finished' = finished
  BY <1>1, <1>2, PollResult DEF IInv
<1>4. NativeTypeOK'
  BY <1>1, <1>3 DEF IInv, NativeTypeOK
<1>5. RestOK'
  BY <1>1 DEF IInv, RestOK, Stages
<1>6. LaneServesPlan' /\ LaneOpen'
  BY <1>1, <1>3 DEF IInv, LaneServesPlan, LaneOpen
<1>7. StageInv'
  BY <1>1, <1>2, <1>3 DEF StageInv
<1> QED  BY <1>1, <1>4, <1>5, <1>6, <1>7 DEF IInv

\* The verdict and the end of the plan.  No lane is held any more.
LEMMA VerdictKeeps ==
  ASSUME IInv, GrantComplete \/ ParkTerminalGrant \/ EquipItem \/ AcknowledgeItem
  PROVE  IInv'
<1>1. /\ mem.pending # NoPlan /\ Good(mem)
      /\ UNCHANGED <<engine, cell, game, hydrated, received, world, why, seen, asked>>
  BY DEF GrantComplete, ParkTerminalGrant, EquipItem, AcknowledgeItem, IInv, StageInv
<1>2. mem.pending.index = Cur /\ Cur \in Idx
  BY <1>1, PlanIndex DEF Cur
<1>3. lane = Nothing
  <2>1. CASE pc = "verdict"
    BY <1>2, <2>1 DEF IInv, StageInv, LaneServesPlan, LaneOpen
  <2>2. CASE pc \in {"equip", "ack"}
    BY <2>2, LaneFree DEF IInv, StageInv
  <2> QED  BY <2>1, <2>2 DEF GrantComplete, ParkTerminalGrant, EquipItem, AcknowledgeItem
<1>4. seen' \in [Keys -> 0 .. MinAbsentPolls]
  BY <1>1 DEF IInv, RestOK
<1>5. CASE GrantComplete
  <2> DEFINE slot == MarkGrantComplete(mem)
  <2>1. Commit(slot, "equip")
    BY <1>5 DEF GrantComplete
  <2>2. Good(slot) /\ slot.pending # NoPlan /\ slot.pending.granted
    BY <1>1, GrantMarkIsGood
  <2> HIDE DEF slot
  <2>3. pc' = "equip" => StageInv'
    BY <2>1, <2>2 DEF Commit, StageInv
  <2>4. "equip" \in Stages
    BY DEF Stages
  <2> QED  BY <1>1, <1>3, <1>4, <2>1, <2>2, <2>3, <2>4, SavingStep
<1>6. CASE ParkTerminalGrant
  <2> DEFINE parked == AcknowledgeBlocked(mem, Cur, finished[Cur])
             d      == IF finished[Cur] = "vial" THEN parked.deferred \cup {Cur}
                       ELSE parked.deferred
             slot   == [parked EXCEPT !.deferred = d]
  <2>1. Commit(slot, "idle") /\ finished[Cur] \in Acks
    BY <1>6 DEF ParkTerminalGrant, Acks
  <2>2. Good(parked) /\ parked.pending = NoPlan
    BY <1>1, <1>2, <2>1, RetireIsGood DEF AcknowledgeBlocked
  <2> HIDE DEF parked
  <2>3. d \in SUBSET Idx
    BY <1>2, <2>2 DEF Good, Slots
  <2> HIDE DEF d
  <2>4. Good(slot)
    BY <2>2, <2>3 DEF Good, Slots
  <2> HIDE DEF slot
  <2>5. pc' = "idle" => StageInv'
    BY CalmStage DEF Calm, Stages
  <2>6. "idle" \in Stages
    BY DEF Stages
  <2> QED  BY <1>1, <1>3, <1>4, <2>1, <2>4, <2>5, <2>6, SavingStep
<1>7. CASE EquipItem
  <2>1. mem.pending.granted
    BY <1>7 DEF EquipItem, IInv, StageInv
  <2>2. CASE Commit(MarkEquipComplete(mem), "ack")
    <3> DEFINE slot == MarkEquipComplete(mem)
    <3>1. Good(slot) /\ slot.pending # NoPlan /\ slot.pending.granted
      BY <1>1, <2>1, EquipMarkIsGood
    <3>2. Commit(slot, "ack")
      BY <2>2
    <3> HIDE DEF slot
    <3>3. pc' = "ack" => StageInv'
      BY <3>1, <3>2 DEF Commit, StageInv
    <3>4. "ack" \in Stages
      BY DEF Stages
    <3> QED  BY <1>1, <1>3, <1>4, <3>1, <3>2, <3>3, <3>4, SavingStep
  <2>3. CASE Goto("ack") /\ UNCHANGED used
    <3>1. pc' = "ack" /\ UNCHANGED <<native, mem, disk>>
      BY <1>1, <2>3 DEF Goto, native, game
    <3>2. StageInv'
      BY <1>1, <2>1, <3>1 DEF StageInv
    <3>3. RestOK'
      BY <1>1, <3>1 DEF IInv, RestOK, Stages
    <3> QED  BY <3>1, <3>2, <3>3, QuietStep
  <2> QED  BY <1>7, <2>2, <2>3 DEF EquipItem
<1>8. CASE AcknowledgeItem
  <2> DEFINE slot == Acknowledge(mem, Cur)
  <2>1. Commit(slot, "idle")
    BY <1>8 DEF AcknowledgeItem
  <2>2. Good(slot)
    BY <1>1, <1>2, RetireIsGood DEF Acknowledge, Acks
  <2> HIDE DEF slot
  <2>3. pc' = "idle" => StageInv'
    BY CalmStage DEF Calm, Stages
  <2>4. "idle" \in Stages
    BY DEF Stages
  <2> QED  BY <1>1, <1>3, <1>4, <2>1, <2>2, <2>3, <2>4, SavingStep
<1> QED  BY <1>5, <1>6, <1>7, <1>8

\* A withdrawal: the checks, then the write that frees the lane.
LEMMA WithdrawKeeps ==
  ASSUME IInv, WithdrawChecks \/ WithdrawClears
  PROVE  IInv'
<1>1. CASE WithdrawChecks
  <2>1. /\ pc' \in {"clear", "idle", "requeue"}
        /\ UNCHANGED <<native, mem, disk, received, world, why, seen, asked>>
    BY <1>1 DEF WithdrawChecks, Goto, Resumes
  <2>2. StageInv'
    BY <2>1, CalmStage DEF Calm, Stages
  <2>3. RestOK'
    BY <2>1 DEF IInv, RestOK, Stages
  <2> QED  BY <2>1, <2>2, <2>3, QuietStep
<1>2. CASE WithdrawClears
  <2>1. /\ ClearRequest /\ UNCHANGED <<game, hydrated, received, world, why, seen, asked>>
    BY <1>2 DEF WithdrawClears
  <2>2. /\ Good(mem') /\ Good(disk') /\ pc' \in {"idle", "requeue"}
        /\ used' \in [Disturbances -> Nat]
    <3>1. CASE mem.pending.before # Nothing /\ Commit(ClearObservedBefore(mem), "idle")
      <4>1. mem.pending # NoPlan
        BY <3>1 DEF NoPlan
      <4>2. Good(ClearObservedBefore(mem))
        BY <4>1, ClearIsGood DEF IInv
      <4>3. "idle" \in Stages
        BY DEF Stages
      <4> QED  BY <3>1, <4>2, <4>3, CommitGood
    <3>2. CASE Goto(Resumes) /\ UNCHANGED used
      BY <3>2 DEF Goto, Resumes, IInv, NativeTypeOK
    <3> QED  BY <1>2, <3>1, <3>2 DEF WithdrawClears
  <2>3. session' \in Sessions /\ cell' \in Cells
    <3>1. /\ session' = [session EXCEPT !.status = "withdrawn", !.active = FALSE,
                                        !.before = Nothing]
          /\ cell' = [cell EXCEPT !.request = "none"]
          /\ session \in Sessions /\ cell \in Cells
      BY <2>1 DEF ClearRequest, IInv, NativeTypeOK
    <3>2. Nothing \in Nothing .. MaxStack
      BY SlotLedgerAssumption DEF Nothing
    <3> QED  BY <3>1, <3>2 DEF Sessions, Cells, Statuses
  <2>4. lane' = Nothing /\ UNCHANGED <<finished, preexec>>
    BY <2>1 DEF ClearRequest
  <2>5. NativeTypeOK'
    BY <2>1, <2>2, <2>3, <2>4 DEF IInv, NativeTypeOK, game
  <2>6. RestOK'
    BY <2>1, <2>2 DEF IInv, RestOK, Stages
  <2>7. StageInv'
    BY <2>2, CalmStage DEF Calm, Stages
  <2>8. LaneServesPlan' /\ LaneOpen'
    BY <2>4 DEF LaneServesPlan, LaneOpen
  <2> QED  BY <2>2, <2>5, <2>6, <2>7, <2>8 DEF IInv
<1> QED  BY <1>1, <1>2

-----------------------------------------------------------------------------
(***************************************************************************)
(* Process death, start-up, the operator and the environment.              *)
(***************************************************************************)
LEMMA ProcessKeeps ==
  ASSUME IInv, Crash \/ StartUp \/ RequeueFixedParks
  PROVE  IInv'
<1>1. CASE Crash
  <2>1. /\ pc' = "down" /\ used' \in [Disturbances -> Nat]
        /\ UNCHANGED <<engine, cell, game, hydrated>>
        /\ UNCHANGED <<mem, disk, received, world, why, seen, asked>>
    BY <1>1 DEF Crash, Goto, Happens, IInv, NativeTypeOK, Disturbances
  <2>2. NativeTypeOK'
    BY <2>1 DEF IInv, NativeTypeOK, engine, game
  <2>3. RestOK'
    BY <2>1 DEF IInv, RestOK, Stages
  <2>4. StageInv'
    BY <2>1, CalmStage DEF Calm, Stages
  <2> QED  BY <2>1, <2>2, <2>3, <2>4 DEF IInv, LaneServesPlan, LaneOpen, engine
<1>2. CASE StartUp
  <2>1. /\ pc' \in {"withdraw", "requeue"} /\ mem' = disk /\ RestartEngine
        /\ seen' = [k \in Keys |-> 0] /\ why' = "startup"
        /\ UNCHANGED <<disk, cell, game, hydrated, used, received, world, asked>>
    BY <1>2 DEF StartUp
  <2>2. NativeTypeOK'
    BY <2>1, NewSessionType DEF IInv, NativeTypeOK, RestartEngine, game
  <2>3. RestOK'
    BY <2>1, NativeGrantAssumption DEF IInv, RestOK, Stages
  <2>4. StageInv'
    BY <2>1, CalmStage DEF Calm, Stages
  <2>5. LaneServesPlan' /\ LaneOpen'
    BY <2>1 DEF RestartEngine, LaneServesPlan, LaneOpen
  <2> QED  BY <2>1, <2>2, <2>3, <2>4, <2>5 DEF IInv
<1>3. CASE RequeueFixedParks
  <2> DEFINE slot == RequeueAll(mem, "fixed")
  <2>1. /\ UNCHANGED <<engine, cell, game, hydrated, received, world, why, seen, asked>>
        /\ (Goto("idle") /\ UNCHANGED used) \/ Commit(slot, "idle")
    BY <1>3 DEF RequeueFixedParks
  <2>2. Good(slot) /\ slot.pending = mem.pending
    BY RequeueAllIsGood DEF IInv
  <2> HIDE DEF slot
  <2>3. "idle" \in Stages /\ (pc' = "idle" => StageInv')
    BY CalmStage DEF Calm, Stages
  <2>4. seen' \in [Keys -> 0 .. MinAbsentPolls]
    BY <2>1 DEF IInv, RestOK
  <2>5. CASE Commit(slot, "idle")
    BY <2>1, <2>2, <2>3, <2>4, <2>5, SavingStep
  <2>6. CASE Goto("idle") /\ UNCHANGED used
    <3>1. UNCHANGED <<native, mem, disk>> /\ pc' = "idle"
      BY <2>1, <2>6 DEF Goto, native, game
    <3>2. RestOK'
      BY <2>1, <2>3, <3>1 DEF IInv, RestOK
    <3> QED  BY <2>3, <3>1, <3>2, QuietStep
  <2> QED  BY <2>1, <2>5, <2>6
<1> QED  BY <1>1, <1>2, <1>3

LEMMA OperatorKeeps ==
  ASSUME IInv, NEW i \in Idx, RetryBlocked(i) \/ ConfirmBlocked(i)
  PROVE  IInv'
<1>1. /\ used' \in [Disturbances -> Nat] /\ asked' \in [Idx -> Nat]
      /\ UNCHANGED <<engine, cell, game, hydrated, pc, received, world, why, seen>>
  BY DEF RetryBlocked, ConfirmBlocked, Happens, IInv, NativeTypeOK, RestOK, Disturbances
<1>2. NativeTypeOK'
  BY <1>1 DEF IInv, NativeTypeOK, engine, game
<1>3. RestOK'
  BY <1>1 DEF IInv, RestOK
<1>4. pc' \in {"idle", "down"}
  BY <1>1 DEF RetryBlocked, ConfirmBlocked
<1>5. StageInv'
  BY <1>4, CalmStage DEF Calm, Stages
<1>6. Good(mem') /\ Good(disk')
  BY RequeueBlockedIsGood, UnblockIsGood DEF RetryBlocked, ConfirmBlocked, IInv
<1>7. LaneServesPlan' /\ LaneOpen'
  <2>1. CASE RetryBlocked(i)
    BY <1>1, <2>1, LaneFree DEF RetryBlocked, CanRequeueBlocked, LaneServesPlan, LaneOpen, engine
  <2>2. CASE ConfirmBlocked(i)
    BY <1>1, <2>2 DEF ConfirmBlocked, IInv, LaneServesPlan, LaneOpen, engine
  <2> QED  BY <2>1, <2>2
<1> QED  BY <1>2, <1>3, <1>5, <1>6, <1>7 DEF IInv

\* The game serves the request cell, between the client's steps or in the
\* middle of a withdrawal.
LEMMA ServeTypes ==
  ASSUME NativeTypeOK, UNCHANGED <<engine, hydrated>>, used' \in [Disturbances -> Nat],
         DeltaLands \/ DeltaDiscarded \/ InsertHeld \/ InsertStored \/ InsertRefused
  PROVE  NativeTypeOK'
<1>1. /\ cell \in Cells /\ stack \in 0 .. MaxStack
      /\ applied \in [Idx -> Nat] /\ used \in [Disturbances -> Nat]
  BY DEF NativeTypeOK
<1>2. PICK r \in {"empty", "held", "stored"} : cell' = [cell EXCEPT !.request = "none", !.done = TRUE, !.result = r]
  BY DEF DeltaLands, DeltaDiscarded, InsertHeld, InsertStored, InsertRefused, Serve
<1>3. cell' \in Cells
  BY <1>1, <1>2 DEF Cells
<1>4. stack' \in 0 .. MaxStack
  BY <1>1, SlotLedgerAssumption DEF DeltaLands, DeltaDiscarded, InsertHeld, InsertStored, InsertRefused
<1>5. applied' \in [Idx -> Nat]
  BY <1>1 DEF DeltaLands, DeltaDiscarded, InsertHeld, InsertStored, InsertRefused, HandOver
<1> QED  BY <1>3, <1>4, <1>5 DEF NativeTypeOK, engine

LEMMA WorldKeeps ==
  ASSUME IInv, Receive \/ GameRuns \/ GameRaces \/ PlayerActs \/ LeavePlay \/ Recovery
  PROVE  IInv'
<1> USE SlotLedgerAssumption
<1>1. UNCHANGED <<lane, finished, pc, mem, disk, why, seen, asked>>
  BY DEF Receive, GameRuns, GameServes, GameRaces, PlayerActs, PlayerSpends, PlayerPicks,
         LeavePlay, Recovery, ReturnToPlay, Hydrate, native, engine
<1>2. received' \in 0 .. N /\ received' >= received
  <2>1. received \in 0 .. N
    BY DEF IInv, RestOK
  <2>2. received' = received \/ (received < N /\ received' = received + 1)
    BY DEF Receive, GameRuns, GameRaces, PlayerActs, LeavePlay, Recovery, ReturnToPlay, Hydrate
  <2> QED  BY <2>1, <2>2
<1>3. world' \in {"play", "load", "refused"}
  BY DEF Receive, GameRuns, GameRaces, PlayerActs, LeavePlay, Recovery, ReturnToPlay,
         Hydrate, IInv, RestOK
<1>4. RestOK'
  BY <1>1, <1>2, <1>3 DEF IInv, RestOK
<1>5. NativeTypeOK'
  <2>1. CASE GameRuns \/ GameRaces
    <3>1. used' \in [Disturbances -> Nat]
      BY <2>1 DEF GameRuns, GameServes, GameRaces, InsertStored, InsertRefused, Happens,
                  Disturbances, IInv, NativeTypeOK
    <3> QED  BY <2>1, <3>1, ServeTypes DEF GameRuns, GameServes, GameRaces, IInv
  <2>2. CASE PlayerActs
    <3>1. /\ stack' \in 0 .. MaxStack /\ used' \in [Disturbances -> Nat]
          /\ UNCHANGED <<engine, cell, hydrated, applied>>
      BY <2>2 DEF PlayerActs, PlayerSpends, PlayerPicks, Happens, Disturbances, IInv, NativeTypeOK
    <3> QED  BY <3>1 DEF IInv, NativeTypeOK, engine
  <2>3. CASE Receive \/ LeavePlay \/ Recovery
    <3>1. UNCHANGED <<engine, cell, game>>
      BY <2>3 DEF Receive, LeavePlay, Recovery, ReturnToPlay, Hydrate, native, game
    <3>2. used' \in [Disturbances -> Nat]
      BY <2>3 DEF Receive, LeavePlay, Recovery, ReturnToPlay, Hydrate, Happens, Disturbances,
                  native, IInv, NativeTypeOK
    <3>3. hydrated' = hydrated \/ hydrated' = TRUE \/ hydrated' = (world' = "refused" /\ hydrated)
      BY <2>3 DEF Receive, LeavePlay, Recovery, ReturnToPlay, Hydrate, native
    <3>4. hydrated' \in BOOLEAN
      BY <3>3, Zenon DEF IInv, NativeTypeOK
    <3> QED  BY <3>1, <3>2, <3>4 DEF IInv, NativeTypeOK, engine, game
  <2> QED  BY <2>1, <2>2, <2>3
<1> QED  BY <1>1, <1>2, <1>4, <1>5, WorldStep

-----------------------------------------------------------------------------
LEMMA InitEstablishes == Init => IInv
<1> SUFFICES ASSUME Init PROVE IInv
  OBVIOUS
<1>1. NativeTypeOK
  BY NewSessionType, NativeGrantAssumption
     DEF Init, NativeInit, NativeTypeOK, Cells, Blocked
<1>2. RestOK
  BY SlotLedgerAssumption, NativeGrantAssumption DEF Init, RestOK, Stages
<1>3. Good(mem) /\ Good(disk)
  BY EmptyIsGood DEF Init
<1>4. LaneServesPlan /\ LaneOpen /\ StageInv
  BY DEF Init, NativeInit, LaneServesPlan, LaneOpen, StageInv
<1> QED  BY <1>1, <1>2, <1>3, <1>4 DEF IInv

LEMMA StutterKeeps ==
  ASSUME IInv, UNCHANGED vars
  PROVE  IInv'
BY DEF IInv, vars, native, engine, NativeTypeOK, RestOK, LaneServesPlan, LaneOpen,
       StageInv, Cur

LEMMA NextKeeps ==
  ASSUME IInv, [Next]_vars
  PROVE  IInv'
<1>1. CASE ClientStep
  BY <1>1, PollStartKeeps, LookUpKeeps, BeginPlanKeeps, BaselineKeeps, GrantKeeps,
     GrantPollsKeeps, VerdictKeeps, WithdrawKeeps, ProcessKeeps DEF ClientStep
<1>2. CASE \E i \in Idx : RetryBlocked(i) \/ ConfirmBlocked(i)
  BY <1>2, OperatorKeeps
<1>3. CASE Crash
  BY <1>3, ProcessKeeps
<1>4. CASE Receive \/ GameRuns \/ GameRaces \/ PlayerActs \/ LeavePlay \/ Recovery
  BY <1>4, WorldKeeps
<1>5. CASE UNCHANGED vars
  BY <1>5, StutterKeeps
<1> QED  BY <1>1, <1>2, <1>3, <1>4, <1>5 DEF Next

LEMMA Inductive == Spec => []IInv
<1>1. Init => IInv
  BY InitEstablishes
<1>2. IInv /\ [Next]_vars => IInv'
  BY NextKeeps
<1> QED  BY <1>1, <1>2, PTL DEF Spec

\* The receive path keeps every variable in its range, for any number of
\* items, stack size, polling policy and number of crashes, failed saves,
\* withdrawals and retries.
THEOREM DeliveryTypeOK == Spec => []TypeOK
<1>1. IInv => TypeOK
  BY DEF IInv, RestOK, Good, TypeOK
<1> QED  BY <1>1, Inductive, PTL

\* The plan in the ledger, in memory and on disk, is always the plan of the
\* index that poll_items asks for next, so "pending plan for another index"
\* never stops the stream, whatever is requeued, parked, retried or lost in a
\* crash or a failed save.
THEOREM DeliveryPlanIsNext == Spec => []PlanIsNext
<1>1. IInv => PlanIsNext
  BY DEF IInv, Good, PlanIsNext
<1> QED  BY <1>1, Inductive, PTL

\* The engine's lane is only ever held for the grant of the ledger's plan:
\* grant_with_warning never meets a lane that is busy with another index.
THEOREM DeliveryLaneServesPlan == Spec => []LaneServesPlan
<1>1. IInv => LaneServesPlan
  BY DEF IInv
<1> QED  BY <1>1, Inductive, PTL

-----------------------------------------------------------------------------
(***************************************************************************)
(* The rows again: what is settled, requeued and deferred.                 *)
(***************************************************************************)
\* What is to be delivered, now or again, is not settled.
Tidy(s) ==
  /\ \A i \in s.redeliver : s.acked[i] = "none"
  /\ \A i \in Idx : i > s.highest => s.acked[i] = "none"

\* What waits for a Vial stack is parked for the lack of one.
VialOnly(s) == \A i \in s.deferred : s.acked[i] = "vial"

\* What a step can do to a row: edit its plan, settle the next index, or
\* requeue parked ones.
Edited(s, t) ==
  /\ t.acked = s.acked /\ t.redeliver = s.redeliver
  /\ t.highest = s.highest /\ t.deferred = s.deferred

Settled(s, t) ==
  \E a \in Acks \ {"none"} :
    /\ t.acked = [s.acked EXCEPT ![NextIndex(s)] = a]
    /\ t.redeliver = s.redeliver \ {NextIndex(s)}
    /\ t.highest >= s.highest /\ t.highest >= NextIndex(s)
    /\ t.deferred \subseteq s.deferred \cup {NextIndex(s)}
    /\ NextIndex(s) \in t.deferred => a = "vial" \/ NextIndex(s) \in s.deferred

Requeued(s, t) ==
  \E S \in SUBSET Idx :
    /\ \A i \in S : s.acked[i] \in Blocked
    /\ t.acked = [i \in Idx |-> IF i \in S THEN "none" ELSE s.acked[i]]
    /\ t.redeliver = s.redeliver \cup S
    /\ t.highest = s.highest /\ t.deferred \subseteq s.deferred
    /\ \A i \in S \cap t.deferred : s.acked[i] = "fixed"

\* The index that is delivered next is not settled.
LEMMA NextIsOpen ==
  ASSUME NEW s \in Slots, Tidy(s), NextIndex(s) \in Idx
  PROVE  s.acked[NextIndex(s)] = "none"
<1>1. s.redeliver \in SUBSET Idx /\ s.highest \in Nothing .. N-1
  BY DEF Slots
<1>2. CASE s.redeliver # {}
  BY <1>1, <1>2, MinIsMember DEF NextIndex, Tidy
<1>3. CASE s.redeliver = {}
  <2>1. NextIndex(s) = s.highest + 1
    BY <1>3 DEF NextIndex
  <2>2. NextIndex(s) > s.highest
    BY <1>1, <2>1, SlotLedgerAssumption DEF Nothing
  <2> QED  BY <2>2 DEF Tidy
<1> QED  BY <1>2, <1>3

\* Each of the three keeps a row tidy, and its deferred rewards parked.
LEMMA TidyKept ==
  ASSUME NEW s \in Slots, NEW t \in Slots, Tidy(s),
         Edited(s, t) \/ (Settled(s, t) /\ NextIndex(s) \in Idx) \/ Requeued(s, t)
  PROVE  Tidy(t) /\ (VialOnly(s) => VialOnly(t))
<1>1. CASE Edited(s, t)
  BY <1>1 DEF Edited, Tidy, VialOnly
<1>2. CASE Settled(s, t) /\ NextIndex(s) \in Idx
  <2> DEFINE i == NextIndex(s)
  <2>1. PICK a \in Acks \ {"none"} :
          /\ t.acked = [s.acked EXCEPT ![i] = a]
          /\ t.redeliver = s.redeliver \ {i}
          /\ t.highest >= s.highest /\ t.highest >= i
          /\ t.deferred \subseteq s.deferred \cup {i}
          /\ i \in t.deferred => a = "vial" \/ i \in s.deferred
    BY <1>2 DEF Settled
  <2>2. /\ s.acked \in [Idx -> Acks] /\ i \in Idx
        /\ s.highest \in Int /\ t.highest \in Int /\ Idx \subseteq Int
        /\ s.redeliver \subseteq Idx /\ s.deferred \subseteq Idx
    BY <1>2, SlotLedgerAssumption DEF Slots, Idx, Nothing
  <2>3. s.acked[i] = "none"
    BY <1>2, NextIsOpen
  <2> HIDE DEF i
  <2>4. \A j \in t.redeliver : t.acked[j] = "none"
    BY <2>1, <2>2 DEF Tidy
  <2>5. ASSUME NEW j \in Idx, j > t.highest PROVE t.acked[j] = "none"
    <3>1. j # i /\ j > s.highest
      BY <2>1, <2>2, <2>5
    <3> QED  BY <2>1, <2>2, <3>1 DEF Tidy
  <2>6. ASSUME VialOnly(s), NEW j \in t.deferred PROVE t.acked[j] = "vial"
    <3>1. i \notin s.deferred
      BY <2>3, <2>6 DEF VialOnly
    <3> QED  BY <2>1, <2>2, <2>6, <3>1 DEF VialOnly
  <2> QED  BY <2>4, <2>5, <2>6 DEF Tidy, VialOnly
<1>3. CASE Requeued(s, t)
  <2>1. PICK S \in SUBSET Idx :
          /\ \A i \in S : s.acked[i] \in Blocked
          /\ t.acked = [i \in Idx |-> IF i \in S THEN "none" ELSE s.acked[i]]
          /\ t.redeliver = s.redeliver \cup S
          /\ t.highest = s.highest /\ t.deferred \subseteq s.deferred
          /\ \A i \in S \cap t.deferred : s.acked[i] = "fixed"
    BY <1>3 DEF Requeued
  <2>2. s.redeliver \subseteq Idx /\ s.deferred \subseteq Idx
    BY DEF Slots
  <2>3. Tidy(t)
    BY <2>1, <2>2 DEF Tidy
  <2>4. VialOnly(s) => VialOnly(t)
    BY <2>1, <2>2 DEF VialOnly
  <2> QED  BY <2>3, <2>4
<1> QED  BY <1>1, <1>2, <1>3

\* acknowledge and acknowledge_blocked settle the next index.
LEMMA RetireSettles ==
  ASSUME NEW s \in Slots, NextIndex(s) \in Idx, NEW a \in Acks \ {"none"}
  PROVE  \E t \in {Retire(s, NextIndex(s), a)} :
           /\ t \in Slots /\ t.pending = NoPlan
           /\ t.acked = [s.acked EXCEPT ![NextIndex(s)] = a]
           /\ t.redeliver = s.redeliver \ {NextIndex(s)}
           /\ t.highest >= s.highest /\ t.highest >= NextIndex(s)
           /\ t.deferred = s.deferred
<1>0. PICK i \in Idx : i = NextIndex(s)
  OBVIOUS
<1> DEFINE h == IF s.highest > i THEN s.highest ELSE i
           m == AdvanceCursor(s, i)
           ack == [s.acked EXCEPT ![i] = a]
           t == Retire(s, i, a)
<1>1. /\ s.highest \in Nothing .. N-1 /\ s.acked \in [Idx -> Acks]
      /\ s.redeliver \ {i} \in SUBSET Idx
  BY DEF Slots
<1>2. h \in Nothing .. N-1 /\ h >= s.highest /\ h >= i
  BY <1>1, SlotLedgerAssumption DEF Idx, Nothing
<1>3. m = [s EXCEPT !.redeliver = s.redeliver \ {i}, !.highest = h]
  BY DEF AdvanceCursor
<1> HIDE DEF h
<1>4. /\ m \in Slots /\ m.redeliver = s.redeliver \ {i} /\ m.highest = h
      /\ m.acked = s.acked /\ m.deferred = s.deferred
  BY <1>1, <1>2, <1>3 DEF Slots
<1> HIDE DEF m
<1>5. t = [m EXCEPT !.acked = ack, !.pending = NoPlan]
  BY <1>4 DEF Retire, m
<1>6. ack \in [Idx -> Acks]
  BY <1>1
<1> HIDE DEF ack, t
<1>7. /\ t \in Slots /\ t.pending = NoPlan /\ t.redeliver = m.redeliver
      /\ t.highest = m.highest /\ t.acked = ack /\ t.deferred = m.deferred
  BY <1>4, <1>5, <1>6 DEF Slots
<1>8. t.acked = [s.acked EXCEPT ![i] = a]
  BY <1>7 DEF ack
<1> QED  BY <1>0, <1>2, <1>4, <1>7, <1>8 DEF t

\* The requeues.
LEMMA RequeueBlockedRequeues ==
  ASSUME NEW s \in Slots, NEW i \in Idx, CanRequeueBlocked(s, i)
  PROVE  LET t == RequeueBlocked(s, i)
         IN Requeued(s, t) /\ t.acked[i] = "none" /\ \A j \in Idx \ {i} : t.acked[j] = s.acked[j]
<1> DEFINE ack == [j \in Idx |-> IF j \in {i} THEN "none" ELSE s.acked[j]]
           t   == RequeueBlocked(s, i)
<1>1. s.acked \in [Idx -> Acks] /\ s.deferred \in SUBSET Idx /\ s.redeliver \in SUBSET Idx
  BY DEF Slots
<1>2. ack = [s.acked EXCEPT ![i] = "none"]
  BY <1>1
<1>3. ack[i] = "none" /\ \A j \in Idx \ {i} : ack[j] = s.acked[j]
  OBVIOUS
<1> HIDE DEF ack
<1>4. t = [s EXCEPT !.acked = ack, !.deferred = s.deferred \ {i}, !.redeliver = s.redeliver \cup {i}]
  BY <1>2 DEF RequeueBlocked
<1> HIDE DEF t
<1>5. /\ t.acked = ack /\ t.deferred = s.deferred \ {i}
      /\ t.redeliver = s.redeliver \cup {i} /\ t.highest = s.highest
  BY <1>4 DEF Slots
<1>6. Requeued(s, t)
  <2>1. {i} \in SUBSET Idx /\ \A j \in {i} : s.acked[j] \in Blocked
    BY DEF CanRequeueBlocked
  <2>2. \A j \in {i} \cap t.deferred : s.acked[j] = "fixed"
    BY <1>5
  <2>3. t.acked = [j \in Idx |-> IF j \in {i} THEN "none" ELSE s.acked[j]]
    BY <1>5 DEF ack
  <2>4. t.deferred \subseteq s.deferred
    BY <1>5
  <2> QED  BY <1>5, <2>1, <2>2, <2>3, <2>4 DEF Requeued
<1> QED  BY <1>3, <1>5, <1>6 DEF t

LEMMA RequeueAllRequeues ==
  ASSUME NEW s \in Slots
  PROVE  Requeued(s, RequeueAll(s, "fixed"))
<1> DEFINE parked == {i \in Idx : s.acked[i] = "fixed"}
           ack    == [i \in Idx |-> IF i \in parked THEN "none" ELSE s.acked[i]]
           t      == RequeueAll(s, "fixed")
<1>1. s.acked \in [Idx -> Acks] /\ s.deferred \in SUBSET Idx /\ s.redeliver \in SUBSET Idx
  BY DEF Slots
<1>2. CASE s.pending # NoPlan
  <2>1. t = s
    BY <1>2 DEF RequeueAll
  <2>2. s.acked = [i \in Idx |-> IF i \in {} THEN "none" ELSE s.acked[i]]
    BY <1>1
  <2>3. \E S \in {{}} : /\ \A i \in S : s.acked[i] \in Blocked
                        /\ s.acked = [i \in Idx |-> IF i \in S THEN "none" ELSE s.acked[i]]
                        /\ s.redeliver = s.redeliver \cup S
                        /\ s.highest = s.highest /\ s.deferred \subseteq s.deferred
                        /\ \A i \in S \cap s.deferred : s.acked[i] = "fixed"
    BY <2>2
  <2> QED  BY <2>1, <2>3 DEF Requeued
<1>3. CASE s.pending = NoPlan
  <2>1. t = [s EXCEPT !.acked = ack, !.redeliver = s.redeliver \cup parked]
    BY <1>3 DEF RequeueAll
  <2> HIDE DEF t
  <2>2. t.acked = ack /\ t.redeliver = s.redeliver \cup parked /\ t.highest = s.highest
        /\ t.deferred = s.deferred
    BY <2>1 DEF Slots
  <2>3. parked \in SUBSET Idx /\ \A i \in parked : s.acked[i] = "fixed" /\ s.acked[i] \in Blocked
    BY DEF Blocked
  <2>4. t.acked = [i \in Idx |-> IF i \in parked THEN "none" ELSE s.acked[i]]
    BY <2>2
  <2> HIDE DEF parked
  <2>5. Requeued(s, t)
    BY <2>2, <2>3, <2>4 DEF Requeued
  <2> QED  BY <2>5 DEF t
<1> QED  BY <1>2, <1>3

-----------------------------------------------------------------------------
(***************************************************************************)
(* What a step of the receive path does to the two copies of the row.      *)
(***************************************************************************)
Moved(s, t) ==
  Edited(s, t) \/ (Settled(s, t) /\ NextIndex(s) \in Idx) \/ Requeued(s, t)

RowStep ==
  \/ /\ Moved(mem, mem') /\ disk' \in {disk, mem'}
     /\ used'["unblock"] = used["unblock"]
  \/ mem' = disk /\ UNCHANGED <<disk, used>>
  \/ /\ mem' = mem /\ used'["unblock"] = used["unblock"] + 1
     /\ \E i \in Idx : CanUnblock(disk, i) /\ disk' = Unblock(disk, i)

LEMMA EditedSelf == \A s : Edited(s, s)
BY DEF Edited

LEMMA PlanEdited ==
  ASSUME NEW s \in Slots, NEW p
  PROVE  Edited(s, [s EXCEPT !.pending = p])
BY DEF Edited, Slots

\* A counter of another disturbance leaves this one alone, and none shrinks.
LEMMA Counted ==
  ASSUME NativeTypeOK, NEW d \in Disturbances, Happens(d)
  PROVE  /\ used'[d] = used[d] + 1
         /\ \A e \in Disturbances \ {d} : used'[e] = used[e]
BY DEF NativeTypeOK, Happens

LEMMA CommitMoves ==
  ASSUME IInv, NEW slot, NEW next, Commit(slot, next)
  PROVE  /\ mem' = slot /\ disk' \in {disk, mem'}
         /\ \A e \in Disturbances \ {"savefail"} : used'[e] = used[e]
         /\ used'["savefail"] >= used["savefail"]
         /\ used'["savefail"] = used["savefail"] => disk' = mem' /\ pc' = next /\ used' = used
         /\ pc' \in {next, "idle"}
<1>1. used["savefail"] \in Nat /\ "savefail" \in Disturbances
  BY DEF IInv, NativeTypeOK, Disturbances
<1>2. CASE disk' = slot /\ pc' = next /\ UNCHANGED used
  BY <1>1, <1>2 DEF Commit
<1>3. CASE Happens("savefail") /\ pc' = "idle" /\ UNCHANGED disk
  BY <1>1, <1>3, Counted DEF Commit, IInv
<1> QED  BY <1>2, <1>3 DEF Commit

\* The steps that edit the plan of the row.
LEMMA EditSteps ==
  ASSUME IInv, BeginPlan \/ RecordBaseline \/ GrantComplete \/ EquipItem \/ WithdrawClears
  PROVE  /\ Edited(mem, mem') /\ disk' \in {disk, mem'}
         /\ \A e \in Disturbances \ {"savefail"} : used'[e] = used[e]
         /\ used'["savefail"] >= used["savefail"]
<1>0. mem \in Slots /\ used["savefail"] \in Nat
  BY DEF IInv, Good, NativeTypeOK, Disturbances
<1>1. ASSUME NEW slot, NEW p, slot = [mem EXCEPT !.pending = p], NEW next, Commit(slot, next)
      PROVE  /\ Edited(mem, mem') /\ disk' \in {disk, mem'}
             /\ \A e \in Disturbances \ {"savefail"} : used'[e] = used[e]
             /\ used'["savefail"] >= used["savefail"]
  <2>1. Edited(mem, slot)
    BY <1>0, <1>1, PlanEdited
  <2> HIDE <1>1
  <2>2. Commit(slot, next)
    BY <1>1
  <2> QED  BY <2>1, <2>2, CommitMoves
<1>2. CASE UNCHANGED <<mem, disk, used>>
  BY <1>0, <1>2, EditedSelf
<1>3. CASE BeginPlan
  <2>1. /\ Begin(mem, FreshPlan(Cur, Cur \in AutoEquip))
             = [mem EXCEPT !.pending = FreshPlan(Cur, Cur \in AutoEquip)]
        /\ Commit(Begin(mem, FreshPlan(Cur, Cur \in AutoEquip)), "baseline")
    BY <1>3 DEF BeginPlan, Begin
  <2> QED  BY <2>1, <1>1
<1>4. CASE RecordBaseline
  BY <1>1, <1>4 DEF RecordBaseline, RecordObservedBefore
<1>5. CASE GrantComplete
  BY <1>1, <1>5 DEF GrantComplete, MarkGrantComplete
<1>6. CASE EquipItem
  BY <1>1, <1>2, <1>6 DEF EquipItem, MarkEquipComplete, Goto
<1>7. CASE WithdrawClears
  BY <1>1, <1>2, <1>7 DEF WithdrawClears, ClearObservedBefore, Goto
<1> QED  BY <1>3, <1>4, <1>5, <1>6, <1>7

\* The steps that settle the next index: park_terminal_grant, with the class
\* of the failure, and acknowledge.
LEMMA ParkSettles ==
  ASSUME IInv, ParkTerminalGrant
  PROVE  /\ Settled(mem, mem') /\ Cur \in Idx
         /\ mem'.acked = [mem.acked EXCEPT ![Cur] = finished[Cur]]
         /\ finished[Cur] \in Blocked
         /\ mem'.pending = NoPlan /\ disk' \in {disk, mem'}
         /\ \A e \in Disturbances \ {"savefail"} : used'[e] = used[e]
         /\ used'["savefail"] >= used["savefail"]
         /\ pc' = "idle"
<1> DEFINE i      == NextIndex(mem)
           parked == AcknowledgeBlocked(mem, i, finished[i])
           d      == IF finished[i] = "vial" THEN parked.deferred \cup {i} ELSE parked.deferred
           slot   == [parked EXCEPT !.deferred = d]
<1>1. mem \in Slots /\ i \in Idx /\ finished[i] \in Blocked /\ Commit(slot, "idle")
  <2>1. mem.pending # NoPlan /\ Good(mem)
    BY DEF ParkTerminalGrant, IInv, StageInv
  <2> QED  BY <2>1, PlanIndex DEF ParkTerminalGrant, Cur, Good
<1>2. finished[i] \in Acks \ {"none"}
  BY <1>1 DEF Acks, Blocked
<1>3. /\ parked \in Slots /\ parked.pending = NoPlan
      /\ parked.acked = [mem.acked EXCEPT ![i] = finished[i]]
      /\ parked.redeliver = mem.redeliver \ {i}
      /\ parked.highest >= mem.highest /\ parked.highest >= i
      /\ parked.deferred = mem.deferred
  BY <1>1, <1>2, RetireSettles DEF AcknowledgeBlocked
<1> HIDE DEF parked
<1>4. d \subseteq mem.deferred \cup {i} /\ (i \in d => finished[i] = "vial" \/ i \in mem.deferred)
  BY <1>3
<1> HIDE DEF d
<1>5. /\ slot.acked = parked.acked /\ slot.redeliver = parked.redeliver
      /\ slot.highest = parked.highest /\ slot.deferred = d /\ slot.pending = NoPlan
  BY <1>3 DEF Slots
<1> HIDE DEF slot
<1>6. mem' = slot
  BY <1>1, CommitMoves
<1>7. Settled(mem, mem')
  BY <1>2, <1>3, <1>4, <1>5, <1>6 DEF Settled
<1>8. pc' = "idle"
  BY <1>1 DEF Commit
<1> QED  BY <1>1, <1>3, <1>5, <1>6, <1>7, <1>8, CommitMoves DEF Cur

LEMMA AckSettles ==
  ASSUME IInv, AcknowledgeItem
  PROVE  /\ Settled(mem, mem') /\ Cur \in Idx
         /\ mem'.acked = [mem.acked EXCEPT ![Cur] = "delivered"]
         /\ mem.pending # NoPlan /\ mem.pending.granted
         /\ mem'.pending = NoPlan /\ disk' \in {disk, mem'}
         /\ \A e \in Disturbances \ {"savefail"} : used'[e] = used[e]
         /\ used'["savefail"] >= used["savefail"]
         /\ pc' = "idle"
<1> DEFINE i    == NextIndex(mem)
           slot == Retire(mem, i, "delivered")
<1>1. /\ mem \in Slots /\ i \in Idx /\ Commit(slot, "idle")
      /\ mem.pending # NoPlan /\ mem.pending.granted
  <2>1. mem.pending # NoPlan /\ mem.pending.granted /\ Good(mem)
    BY DEF AcknowledgeItem, IInv, StageInv
  <2> QED  BY <2>1, PlanIndex DEF AcknowledgeItem, Acknowledge, Cur, Good
<1>2. "delivered" \in Acks \ {"none"}
  BY DEF Acks
<1>3. /\ slot.pending = NoPlan
      /\ slot.acked = [mem.acked EXCEPT ![i] = "delivered"]
      /\ slot.redeliver = mem.redeliver \ {i}
      /\ slot.highest >= mem.highest /\ slot.highest >= i
      /\ slot.deferred = mem.deferred
  BY <1>1, <1>2, RetireSettles
<1> HIDE DEF slot
<1>4. mem' = slot
  BY <1>1, CommitMoves
<1>5. Settled(mem, mem')
  <2>1. slot.deferred \subseteq mem.deferred \cup {i} /\ (i \in slot.deferred => i \in mem.deferred)
    BY <1>3
  <2> QED  BY <1>2, <1>3, <1>4, <2>1 DEF Settled
<1>6. pc' = "idle"
  BY <1>1 DEF Commit
<1> QED  BY <1>1, <1>3, <1>4, <1>5, <1>6, CommitMoves DEF Cur

\* The steps that requeue: the Vial retry, the operator's, and start-up's.
LEMMA VialRequeues ==
  ASSUME IInv, PollReleasesVial
  PROVE  /\ Requeued(mem, mem') /\ DeferredVial \in Idx
         /\ mem'.acked[DeferredVial] = "none"
         /\ \A j \in Idx \ {DeferredVial} : mem'.acked[j] = mem.acked[j]
         /\ mem.pending = NoPlan /\ mem'.pending = NoPlan /\ disk' \in {disk, mem'}
         /\ \A e \in Disturbances \ {"savefail"} : used'[e] = used[e]
         /\ used'["savefail"] >= used["savefail"]
<1> DEFINE d == DeferredVial
<1>1. Commit(RequeueBlocked(mem, d), "next") /\ CanRequeueBlocked(mem, d) /\ VialReady
  BY DEF PollReleasesVial
<1>2. d \in Idx /\ mem \in Slots
  BY <1>1, MinIsMember DEF VialReady, VialsDue, DeferredVial, IInv, Good, Slots
<1>3. mem.pending = NoPlan /\ RequeueBlocked(mem, d).pending = NoPlan
  BY <1>1, <1>2, RequeueBlockedIsGood DEF CanRequeueBlocked, IInv
<1> QED  BY <1>1, <1>2, <1>3, RequeueBlockedRequeues, CommitMoves

LEMMA RetryRequeues ==
  ASSUME IInv, NEW i \in Idx, RetryBlocked(i)
  PROVE  /\ Requeued(mem, mem') /\ mem'.acked[i] = "none"
         /\ \A j \in Idx \ {i} : mem'.acked[j] = mem.acked[j]
         /\ mem.pending = NoPlan /\ mem'.pending = NoPlan /\ disk' = mem'
         /\ \A e \in Disturbances \ {"retry"} : used'[e] = used[e]
         /\ used'["retry"] >= used["retry"]
<1>1. mem' = RequeueBlocked(mem, i) /\ CanRequeueBlocked(mem, i) /\ disk' = mem' /\ Happens("retry")
  BY DEF RetryBlocked
<1>2. mem \in Slots /\ mem.pending = NoPlan /\ mem'.pending = NoPlan
  BY <1>1, RequeueBlockedIsGood DEF IInv, Good, CanRequeueBlocked
<1>3. "retry" \in Disturbances /\ used["retry"] \in Nat
  BY DEF IInv, NativeTypeOK, Disturbances
<1> QED  BY <1>1, <1>2, <1>3, RequeueBlockedRequeues, Counted DEF IInv

LEMMA ParksRequeue ==
  ASSUME IInv, RequeueFixedParks
  PROVE  /\ Requeued(mem, mem') /\ mem'.pending = mem.pending /\ disk' \in {disk, mem'}
         /\ \A e \in Disturbances \ {"savefail"} : used'[e] = used[e]
         /\ used'["savefail"] >= used["savefail"]
<1> DEFINE slot == RequeueAll(mem, "fixed")
<1>1. Requeued(mem, slot) /\ slot.pending = mem.pending /\ used["savefail"] \in Nat
  BY RequeueAllRequeues, RequeueAllIsGood DEF IInv, Good, NativeTypeOK, Disturbances
<1>2. (slot = mem /\ Goto("idle") /\ UNCHANGED used) \/ Commit(slot, "idle")
  BY DEF RequeueFixedParks
<1> HIDE DEF slot
<1>3. CASE slot = mem /\ Goto("idle") /\ UNCHANGED used
  BY <1>1, <1>3 DEF Goto
<1>4. CASE Commit(slot, "idle")
  BY <1>1, <1>4, CommitMoves
<1> QED  BY <1>2, <1>3, <1>4

\* The steps that leave both copies alone.
Bystanders ==
  \/ PollStart \/ PollVialRefused \/ NothingToDeliver \/ ContextValid \/ ContextLost
  \/ HoldPlan \/ ResumePlan \/ UseRecordedBaseline \/ AwaitObservation
  \/ GrantLatched \/ GrantSubmits \/ GrantContinues \/ GrantPolls \/ WithdrawChecks
  \/ Crash \/ Receive \/ GameRuns \/ GameRaces \/ PlayerActs \/ LeavePlay \/ Recovery

LEMMA BystandersKeep ==
  ASSUME Bystanders
  PROVE  UNCHANGED <<mem, disk>>
BY DEF Bystanders, PollStart, PollVialRefused, NothingToDeliver, ContextValid, ContextLost,
       HoldPlan, ResumePlan, UseRecordedBaseline, AwaitObservation, GrantLatched,
       GrantSubmits, GrantContinues, GrantPolls, WithdrawChecks, Crash, Receive, GameRuns,
       GameRaces, PlayerActs, LeavePlay, Recovery, ReturnToPlay, Hydrate, Goto

\* No disturbance is ever uncounted, and only bb-blocked counts as one.
LEMMA BystandersCount ==
  ASSUME IInv, Bystanders
  PROVE  /\ \A e \in Disturbances : used'[e] >= used[e]
         /\ used'["unblock"] = used["unblock"] /\ used'["savefail"] = used["savefail"]
<1>0. \A e \in Disturbances : used[e] \in Nat
  BY DEF IInv, NativeTypeOK
<1>1. CASE UNCHANGED used
  BY <1>0, <1>1
<1>2. ASSUME NEW d \in Disturbances \ {"unblock", "savefail"}, Happens(d)
      PROVE  /\ \A e \in Disturbances : used'[e] >= used[e]
             /\ used'["unblock"] = used["unblock"] /\ used'["savefail"] = used["savefail"]
  <2>1. "unblock" \in Disturbances /\ "savefail" \in Disturbances
    BY DEF Disturbances
  <2> QED  BY <1>0, <1>2, <2>1, Counted DEF IInv
<1>3. UNCHANGED used \/ \E d \in Disturbances \ {"unblock", "savefail"} : Happens(d)
  <2>1. CASE PollStart \/ PollVialRefused \/ NothingToDeliver \/ ContextValid \/ ContextLost
             \/ HoldPlan \/ ResumePlan \/ UseRecordedBaseline \/ AwaitObservation
             \/ GrantLatched \/ GrantSubmits \/ GrantContinues \/ GrantPolls \/ WithdrawChecks
             \/ Receive \/ Recovery
    BY <2>1 DEF PollStart, PollVialRefused, NothingToDeliver, ContextValid, ContextLost,
       HoldPlan, ResumePlan, UseRecordedBaseline, AwaitObservation, GrantLatched,
       GrantSubmits, GrantContinues, GrantPolls, WithdrawChecks, Receive,
       Recovery, ReturnToPlay, Hydrate, native
  <2>2. CASE Crash \/ GameRuns \/ GameRaces \/ PlayerActs \/ LeavePlay
    BY <2>2 DEF Crash, GameRuns, GameServes, InsertStored, InsertRefused,
       GameRaces, PlayerActs, PlayerSpends, PlayerPicks, LeavePlay, Disturbances
  <2> QED  BY <2>1, <2>2 DEF Bystanders
<1> QED  BY <1>1, <1>2, <1>3

LEMMA EveryStep ==
  ASSUME [Next]_vars
  PROVE  \/ Bystanders
         \/ BeginPlan \/ RecordBaseline \/ GrantComplete \/ EquipItem \/ WithdrawClears
         \/ ParkTerminalGrant \/ AcknowledgeItem
         \/ PollReleasesVial \/ RequeueFixedParks \/ StartUp
         \/ \E i \in Idx : RetryBlocked(i) \/ ConfirmBlocked(i)
         \/ UNCHANGED vars
BY DEF Next, ClientStep, Bystanders

LEMMA StepMovesRows ==
  ASSUME IInv, [Next]_vars
  PROVE  RowStep /\ \A e \in Disturbances : used'[e] >= used[e]
<1>0. /\ \A e \in Disturbances : used[e] \in Nat
      /\ "unblock" \in Disturbances \ {"savefail", "retry"}
  BY DEF IInv, NativeTypeOK, Disturbances
<1>1. CASE Bystanders
  BY <1>1, BystandersKeep, BystandersCount, EditedSelf DEF RowStep, Moved
<1>2. CASE BeginPlan \/ RecordBaseline \/ GrantComplete \/ EquipItem \/ WithdrawClears
  <2>1. Edited(mem, mem') /\ disk' \in {disk, mem'} /\ used'["savefail"] >= used["savefail"]
        /\ \A e \in Disturbances \ {"savefail"} : used'[e] = used[e]
    BY <1>2, EditSteps
  <2> QED  BY <1>0, <2>1 DEF RowStep, Moved
<1>3. CASE ParkTerminalGrant \/ AcknowledgeItem
  <2>1. /\ Settled(mem, mem') /\ Cur \in Idx /\ disk' \in {disk, mem'}
        /\ used'["savefail"] >= used["savefail"]
        /\ \A e \in Disturbances \ {"savefail"} : used'[e] = used[e]
    BY <1>3, ParkSettles, AckSettles
  <2> QED  BY <1>0, <2>1 DEF RowStep, Moved, Cur
<1>4. CASE PollReleasesVial \/ RequeueFixedParks
  <2>1. /\ Requeued(mem, mem') /\ disk' \in {disk, mem'}
        /\ used'["savefail"] >= used["savefail"]
        /\ \A e \in Disturbances \ {"savefail"} : used'[e] = used[e]
    BY <1>4, VialRequeues, ParksRequeue
  <2> QED  BY <1>0, <2>1 DEF RowStep, Moved
<1>5. CASE StartUp
  <2>1. mem' = disk /\ UNCHANGED <<disk, used>>
    BY <1>5 DEF StartUp
  <2> QED  BY <1>0, <2>1 DEF RowStep
<1>6. ASSUME NEW i \in Idx, RetryBlocked(i)
      PROVE  RowStep /\ \A e \in Disturbances : used'[e] >= used[e]
  <2>1. /\ Requeued(mem, mem') /\ disk' = mem' /\ used'["retry"] >= used["retry"]
        /\ \A e \in Disturbances \ {"retry"} : used'[e] = used[e]
    BY <1>6, RetryRequeues
  <2> QED  BY <1>0, <2>1 DEF RowStep, Moved
<1>7. ASSUME NEW i \in Idx, ConfirmBlocked(i)
      PROVE  RowStep /\ \A e \in Disturbances : used'[e] >= used[e]
  <2>1. /\ Happens("unblock") /\ CanUnblock(disk, i) /\ disk' = Unblock(disk, i) /\ mem' = mem
    BY <1>7 DEF ConfirmBlocked
  <2>2. /\ used'["unblock"] = used["unblock"] + 1
        /\ \A e \in Disturbances \ {"unblock"} : used'[e] = used[e]
    BY <1>0, <2>1, Counted DEF IInv
  <2> QED  BY <1>0, <2>1, <2>2 DEF RowStep
<1>8. CASE UNCHANGED vars
  BY <1>0, <1>8, EditedSelf DEF vars, native, RowStep, Moved
<1> QED  BY <1>1, <1>2, <1>3, <1>4, <1>5, <1>6, <1>7, <1>8, EveryStep

-----------------------------------------------------------------------------
(***************************************************************************)
(* The rows stay tidy, and a verdict the engine has latched does not       *)
(* outlive the park it led to.                                             *)
(***************************************************************************)
RowsInv ==
  /\ Tidy(mem) /\ Tidy(disk)
  /\ used["unblock"] = 0 => VialOnly(mem) /\ VialOnly(disk)

StartingUp == pc = "requeue" \/ (pc \in {"withdraw", "clear"} /\ why = "startup")

\* While the client starts up the engine remembers nothing; afterwards a
\* failure is latched for an open index only between its verdict and its
\* park, unless the operator has asked for that index.
LatchInv ==
  /\ StartingUp => \A i \in Idx : finished[i] = "none"
  /\ pc # "down" =>
       \A i \in Idx : mem.acked[i] = "none" /\ asked[i] = 0 /\ finished[i] \in Blocked
                        => i = Cur /\ pc = "verdict"

LEMMA UnblockTidy ==
  ASSUME NEW s \in Slots, Tidy(s), NEW i \in Idx, CanUnblock(s, i)
  PROVE  Tidy(Unblock(s, i))
<1> DEFINE ack == [s.acked EXCEPT ![i] = "delivered"]
           t   == Unblock(s, i)
<1>1. /\ s.acked \in [Idx -> Acks] /\ s.acked[i] # "none" /\ s.redeliver \subseteq Idx
  BY DEF Slots, CanUnblock, Blocked
<1>2. t = [s EXCEPT !.acked = ack]
  BY DEF Unblock
<1> HIDE DEF t
<1>3. t.acked = ack /\ t.redeliver = s.redeliver /\ t.highest = s.highest
  BY <1>2 DEF Slots
<1>4. Tidy(t)
  BY <1>1, <1>3 DEF Tidy
<1> QED  BY <1>4 DEF t

LEMMA RowsKept ==
  ASSUME IInv, RowsInv, [Next]_vars
  PROVE  RowsInv'
<1>1. /\ RowStep /\ IInv'
      /\ used["unblock"] \in Nat /\ used'["unblock"] >= used["unblock"]
      /\ mem \in Slots /\ disk \in Slots /\ mem' \in Slots
  BY StepMovesRows, NextKeeps DEF IInv, Good, NativeTypeOK, Disturbances
<1>2. CASE Moved(mem, mem') /\ disk' \in {disk, mem'} /\ used'["unblock"] = used["unblock"]
  <2>1. Tidy(mem') /\ (VialOnly(mem) => VialOnly(mem'))
    BY <1>1, <1>2, TidyKept DEF Moved, RowsInv
  <2> QED  BY <1>2, <2>1 DEF RowsInv
<1>3. CASE mem' = disk /\ UNCHANGED <<disk, used>>
  BY <1>3 DEF RowsInv
<1>4. CASE /\ mem' = mem /\ used'["unblock"] = used["unblock"] + 1
           /\ \E i \in Idx : CanUnblock(disk, i) /\ disk' = Unblock(disk, i)
  <2>1. Tidy(disk')
    BY <1>1, <1>4, UnblockTidy DEF RowsInv
  <2>2. used'["unblock"] # 0
    BY <1>1, <1>4
  <2> QED  BY <1>4, <2>1, <2>2 DEF RowsInv
<1> QED  BY <1>1, <1>2, <1>3, <1>4 DEF RowStep

\* A step that leaves the verdicts and the settled indices alone.
LEMMA LatchQuiet ==
  ASSUME LatchInv, UNCHANGED <<finished, asked>>, Edited(mem, mem'),
         StartingUp' => StartingUp, pc = "down" => pc' = "down",
         pc = "verdict" => pc' \in {"down", "verdict"} \/ finished[Cur] \notin Blocked
  PROVE  LatchInv'
<1>1. Cur' = Cur /\ mem'.acked = mem.acked
  BY SameNextIndex DEF Edited, Cur
<1>2. StartingUp' => \A i \in Idx : finished'[i] = "none"
  BY DEF LatchInv
<1>3. ASSUME pc' # "down", NEW i \in Idx, mem'.acked[i] = "none", asked'[i] = 0, finished'[i] \in Blocked
      PROVE  i = Cur' /\ pc' = "verdict"
  BY <1>1, <1>3 DEF LatchInv
<1> QED  BY <1>2, <1>3 DEF LatchInv

\* The poll steps and the environment's that do so.
LEMMA LatchBystanders ==
  ASSUME IInv, LatchInv, Bystanders
  PROVE  LatchInv'
<1>1. UNCHANGED <<mem, disk>> /\ Edited(mem, mem')
  BY BystandersKeep, EditedSelf
<1>2. CASE Receive \/ GameRuns \/ GameRaces \/ PlayerActs \/ LeavePlay \/ Recovery
  <2>1. UNCHANGED <<finished, asked, pc, why>>
    BY <1>2 DEF Receive, GameRuns, GameServes, GameRaces, PlayerActs, PlayerSpends,
                PlayerPicks, LeavePlay, Recovery, ReturnToPlay, Hydrate, native, engine
  <2> QED  BY <1>1, <2>1, LatchQuiet DEF StartingUp
<1>3. CASE PollStart \/ NothingToDeliver \/ ContextValid \/ ContextLost \/ HoldPlan
           \/ ResumePlan \/ UseRecordedBaseline \/ AwaitObservation
           \/ GrantLatched \/ GrantSubmits \/ GrantContinues
  <2>1. UNCHANGED <<finished, asked>>
    BY <1>3 DEF PollStart, NothingToDeliver, ContextValid, ContextLost, HoldPlan,
                ResumePlan, UseRecordedBaseline, AwaitObservation, GrantLatched,
                GrantSubmits, GrantContinues, Submit, native, engine
  <2>2. pc \notin {"down", "verdict"} /\ pc' # "requeue"
        /\ (pc' \in {"withdraw", "clear"} => why' = world)
    BY <1>3 DEF PollStart, NothingToDeliver, ContextValid, ContextLost, HoldPlan,
                ResumePlan, UseRecordedBaseline, AwaitObservation, GrantLatched,
                GrantSubmits, GrantContinues, Goto
  <2>3. ~StartingUp'
    BY <2>2 DEF StartingUp, IInv, RestOK
  <2> QED  BY <1>1, <2>1, <2>2, <2>3, LatchQuiet
<1>4. CASE Crash
  <2>1. UNCHANGED <<finished, asked>> /\ pc' = "down"
    BY <1>4 DEF Crash, Goto, engine
  <2> QED  BY <1>1, <2>1, LatchQuiet DEF StartingUp
<1>5. CASE WithdrawChecks
  <2>1. /\ UNCHANGED <<finished, asked, why>> /\ pc = "withdraw"
        /\ pc' \in {"clear", "idle"} \/ (pc' = "requeue" /\ why = "startup")
    BY <1>5 DEF WithdrawChecks, Goto, Resumes, native, engine
  <2> QED  BY <1>1, <2>1, LatchQuiet DEF StartingUp
<1>6. CASE PollVialRefused
  <2>1. /\ pc = "idle" /\ pc' = "idle" /\ UNCHANGED asked
        /\ finished' = [finished EXCEPT ![DeferredVial] = "none"]
    BY <1>6 DEF PollVialRefused, Goto, ReleaseVialRefusal
  <2>2. \A i \in Idx : finished'[i] \in {finished[i], "none"}
    BY <2>1 DEF IInv, NativeTypeOK
  <2> QED  BY <1>1, <2>1, <2>2 DEF LatchInv, StartingUp, Blocked
<1>7. CASE GrantPolls
  <2>1. /\ pc = "poll" /\ UNCHANGED asked /\ lane = Cur /\ lane \in Idx /\ Cur' = Cur
        /\ pc' = IF session'.status \in Terminal THEN "verdict" ELSE "idle"
        /\ PollPending \/ PollActive
    <3>1. mem.pending # NoPlan /\ Good(mem) /\ lane = Cur
      BY <1>7 DEF GrantPolls, IInv, StageInv
    <3> QED  BY <1>1, <1>7, <3>1, PlanIndex DEF GrantPolls, Goto, Cur
  <2>2. /\ \A j \in Idx \ {lane} : finished'[j] = finished[j]
        /\ pc' = "verdict" \/ finished' = finished
    BY <2>1, PollResult DEF IInv
  <2>3. pc' \in {"verdict", "idle"}
    BY <2>1
  <2>4. ASSUME NEW i \in Idx, mem'.acked[i] = "none", asked'[i] = 0, finished'[i] \in Blocked
        PROVE  i = Cur' /\ pc' = "verdict"
    BY <1>1, <2>1, <2>2, <2>4 DEF LatchInv
  <2> QED  BY <2>3, <2>4 DEF LatchInv, StartingUp
<1> QED  BY <1>2, <1>3, <1>4, <1>5, <1>6, <1>7 DEF Bystanders

LEMMA LatchKept ==
  ASSUME IInv, LatchInv, [Next]_vars
  PROVE  LatchInv'
<1>1. CASE Bystanders
  BY <1>1, LatchBystanders
<1>2. CASE BeginPlan \/ RecordBaseline \/ GrantComplete \/ EquipItem
  <2>1. /\ Edited(mem, mem') /\ UNCHANGED <<finished, asked>> /\ pc # "down"
        /\ pc = "verdict" => finished[Cur] = "complete"
    BY <1>2, EditSteps DEF BeginPlan, RecordBaseline, GrantComplete, EquipItem, engine
  <2>2. pc' \in {"baseline", "grant", "equip", "ack", "idle"}
    BY <1>2 DEF BeginPlan, RecordBaseline, GrantComplete, EquipItem, Commit, Goto
  <2> QED  BY <2>1, <2>2, LatchQuiet DEF StartingUp, Blocked
<1>3. CASE WithdrawClears
  <2>1. /\ Edited(mem, mem') /\ UNCHANGED <<finished, asked>> /\ pc = "clear"
        /\ pc' = "idle" \/ (pc' = "requeue" /\ why = "startup")
    BY <1>3, EditSteps DEF WithdrawClears, ClearRequest, Commit, Goto, Resumes
  <2> QED  BY <2>1, LatchQuiet DEF StartingUp
<1>4. CASE ParkTerminalGrant \/ AcknowledgeItem
  <2>1. /\ Cur \in Idx /\ UNCHANGED <<finished, asked>> /\ pc' = "idle" /\ pc # "down"
        /\ \A j \in Idx \ {Cur} : mem'.acked[j] = mem.acked[j]
        /\ mem'.acked[Cur] # "none"
    <3>1. mem.acked \in [Idx -> Acks]
      BY DEF IInv, Good, Slots
    <3>2. \E a \in Acks \ {"none"} : mem'.acked = [mem.acked EXCEPT ![Cur] = a]
      BY <1>4, ParkSettles, AckSettles DEF Acks, Blocked
    <3> QED  BY <1>4, <3>1, <3>2, ParkSettles, AckSettles
               DEF ParkTerminalGrant, AcknowledgeItem, engine
  <2>2. ASSUME NEW i \in Idx, mem'.acked[i] = "none", asked'[i] = 0, finished'[i] \in Blocked
        PROVE  FALSE
    <3>1. i # Cur
      BY <2>1, <2>2
    <3> QED  BY <2>1, <2>2, <3>1 DEF LatchInv
  <2> QED  BY <2>1, <2>2 DEF LatchInv, StartingUp
<1>5. CASE PollReleasesVial
  <2>1. /\ pc = "idle" /\ pc' \in {"idle", "next"} /\ UNCHANGED asked
        /\ finished' = [finished EXCEPT ![DeferredVial] = "none"]
    BY <1>5 DEF PollReleasesVial, Commit, ReleaseVialRefusal
  <2>2. /\ DeferredVial \in Idx
        /\ \A j \in Idx \ {DeferredVial} : mem'.acked[j] = mem.acked[j]
    BY <1>5, VialRequeues
  <2>3. /\ finished'[DeferredVial] \notin Blocked
        /\ \A j \in Idx \ {DeferredVial} : finished'[j] = finished[j]
    BY <2>1, <2>2 DEF IInv, NativeTypeOK, Blocked
  <2>4. ASSUME NEW i \in Idx, mem'.acked[i] = "none", asked'[i] = 0, finished'[i] \in Blocked
        PROVE  FALSE
    <3>1. i # DeferredVial
      BY <2>3, <2>4
    <3> QED  BY <2>1, <2>2, <2>3, <2>4, <3>1 DEF LatchInv
  <2> QED  BY <2>1, <2>4 DEF LatchInv, StartingUp
<1>6. CASE RequeueFixedParks \/ StartUp
  <2>1. \A i \in Idx : finished'[i] = "none"
    <3>1. CASE StartUp
      BY <3>1 DEF StartUp, RestartEngine
    <3>2. CASE RequeueFixedParks
      BY <3>2 DEF RequeueFixedParks, LatchInv, StartingUp, engine
    <3> QED  BY <1>6, <3>1, <3>2
  <2> QED  BY <2>1 DEF LatchInv, Blocked
<1>7. ASSUME NEW k \in Idx, RetryBlocked(k)
      PROVE  LatchInv'
  <2>1. /\ pc = "idle" /\ pc' = "idle" /\ UNCHANGED finished
        /\ asked' = [asked EXCEPT ![k] = @ + 1] /\ asked \in [Idx -> Nat]
    BY <1>7 DEF RetryBlocked, engine, IInv, RestOK
  <2>2. asked'[k] # 0 /\ \A j \in Idx \ {k} : asked'[j] = asked[j]
    BY <2>1
  <2>3. \A j \in Idx \ {k} : mem'.acked[j] = mem.acked[j]
    BY <1>7, RetryRequeues
  <2>4. ASSUME NEW i \in Idx, mem'.acked[i] = "none", asked'[i] = 0, finished'[i] \in Blocked
        PROVE  FALSE
    <3>1. i # k
      BY <2>2, <2>4
    <3> QED  BY <2>1, <2>2, <2>3, <2>4, <3>1 DEF LatchInv
  <2> QED  BY <2>1, <2>4 DEF LatchInv, StartingUp
<1>8. ASSUME NEW k \in Idx, ConfirmBlocked(k)
      PROVE  LatchInv'
  <2>1. UNCHANGED <<mem, finished, asked, pc, why>>
    BY <1>8 DEF ConfirmBlocked, engine
  <2> QED  BY <2>1, EditedSelf, LatchQuiet DEF StartingUp
<1>9. CASE UNCHANGED vars
  <2>1. UNCHANGED <<mem, finished, asked, pc, why>>
    BY <1>9 DEF vars, native, engine
  <2> QED  BY <2>1, EditedSelf, LatchQuiet DEF StartingUp
<1> QED  BY <1>1, <1>2, <1>3, <1>4, <1>5, <1>6, <1>7, <1>8, <1>9, EveryStep

LEMMA RowsInductive == Spec => [](RowsInv /\ LatchInv)
<1>1. Init => RowsInv /\ LatchInv
  <2> SUFFICES ASSUME Init PROVE RowsInv /\ LatchInv
    OBVIOUS
  <2>1. mem = EmptySlot /\ disk = EmptySlot
    BY DEF Init
  <2>2. Tidy(EmptySlot) /\ VialOnly(EmptySlot)
    BY DEF EmptySlot, Tidy, VialOnly
  <2>3. pc = "idle" /\ \A i \in Idx : finished[i] = "none"
    BY DEF Init, NativeInit
  <2> QED  BY <2>1, <2>2, <2>3 DEF RowsInv, LatchInv, StartingUp, Blocked
<1>2. IInv /\ (RowsInv /\ LatchInv) /\ [Next]_vars => (RowsInv /\ LatchInv)'
  BY RowsKept, LatchKept
<1> QED  BY <1>1, <1>2, Inductive, PTL DEF Spec

\* A Vial reward that waits for its retry is a parked entry, in memory and so
\* whenever retry_deferred_vials_if_ready releases it, through any sequence
\* of parks, retries, failed saves and crashes, until bb-blocked is run.
THEOREM DeliveryDeferredIsParked == Spec => []DeferredIsParked
<1>1. RowsInv => DeferredIsParked
  BY DEF RowsInv, VialOnly, DeferredIsParked, Blocked
<1> QED  BY <1>1, RowsInductive, PTL

\* What the client requeues by itself is attempted again: the grant stage of
\* poll_items never meets a failure latched for an index that the operator
\* has not asked for, for any number of Vial retries, start-ups and requeued
\* parks.
THEOREM DeliveryOwnRetryReachesGame == Spec => []OwnRetryReachesGame
<1>1. IInv /\ RowsInv /\ LatchInv => OwnRetryReachesGame
  <2> SUFFICES ASSUME IInv, RowsInv, LatchInv, pc = "grant", asked[Cur] = 0
               PROVE  finished[Cur] \notin Blocked
    BY DEF OwnRetryReachesGame
  <2>1. mem.pending # NoPlan /\ Good(mem)
    BY DEF IInv, StageInv
  <2>2. Cur \in Idx /\ mem \in Slots
    BY <2>1, PlanIndex DEF Cur, Good
  <2>3. mem.acked[Cur] = "none"
    BY <2>2, NextIsOpen DEF RowsInv, Cur
  <2> QED  BY <2>2, <2>3 DEF LatchInv
<1> QED  BY <1>1, Inductive, RowsInductive, PTL

-----------------------------------------------------------------------------
(***************************************************************************)
(* A poll of the session, in four outcomes.                                *)
(***************************************************************************)
\* It waits: nothing changes that a later step relies on.
Waits ==
  /\ session'.active = session.active /\ session'.before = session.before
  /\ session'.via = session.via /\ session'.replanned = session.replanned
  /\ session'.retries = session.retries
  /\ session.active => session'.status \notin Waiting
  /\ session.active \/ ~hydrated \/ Absent \/ cell.request # "none"
  /\ UNCHANGED <<lane, finished, preexec, cell>>

\* It publishes a request for the lane's index.
Publishes ==
  /\ ~session.active /\ session'.active /\ cell.request = "none" /\ Publishable
  /\ session'.status \notin Waiting
  /\ session'.before = (IF Goods THEN Baseline ELSE 0)
  /\ session'.via \in {"delta", "insert", "instance"}
  /\ session'.via = "instance" <=> ~Goods
  /\ session'.via = "insert" => Absent \/ Overflows
  /\ session'.replanned = session.replanned /\ session'.retries = session.retries
  /\ cell'.request = (IF session'.via = "delta" THEN "delta" ELSE "insert")
  /\ ~cell'.done /\ cell'.result = "empty" /\ cell'.owner = lane
  /\ UNCHANGED <<lane, finished, preexec>>

\* It gives a refused request up, to plan the grant again.
StartsOver ==
  /\ session.active /\ ~session'.active /\ cell.done /\ ~Executed
  /\ session'.before = Nothing
  /\ session'.replanned \/ session'.retries > 0
  /\ cell' = [cell EXCEPT !.request = "none"]
  /\ UNCHANGED <<lane, finished, preexec>>

\* The evidence for a verdict.
Evidence(v) ==
  /\ v \in {"fixed", "vial"} =>
       \/ ~session.active /\ Goods /\ Held(lane) # Wanted
       \/ session.active /\ cell.done /\ ~Executed
  /\ v = "vial" => ~session.active
  /\ v = "other" => session.active /\ cell.done
  /\ v = "complete" =>
       \/ ~session.active /\ Goods /\ Held(lane) = Wanted
       \/ /\ session.active /\ cell.done
          /\ \/ Executed /\ session.via \in {"insert", "instance"}
             \/ session.via # "instance" /\ Actual >= Expected

\* It latches a verdict and frees the lane.
Judges(v) ==
  /\ Evidence(v)
  /\ ~session'.active /\ session'.before = session.before
  /\ finished' = [finished EXCEPT ![lane] = v]
  /\ preexec' \subseteq preexec \cup {lane} /\ (lane \in preexec' \ preexec => v = "vial")
  /\ lane' = Nothing /\ UNCHANGED cell

PollCase ==
  Waits \/ Publishes \/ StartsOver \/ \E v \in Verdicts \ {"compat"} : Judges(v)

\* The quantity read back is a number.
LEMMA ActualType ==
  ASSUME NativeTypeOK
  PROVE  Actual \in Nothing .. MaxStack /\ Expected \in Int /\ Held(lane) \in 0 .. MaxStack
<1>1. Held(lane) \in 0 .. MaxStack
  BY HeldType
<1>2. session.before \in Nothing .. MaxStack
  BY DEF NativeTypeOK, Sessions
<1> QED  BY <1>1, <1>2, SlotLedgerAssumption DEF Actual, Expected, Nothing

LEMMA SettleJudges ==
  ASSUME NativeTypeOK, lane \in Idx, NEW st, NEW v, Settle(st, v), Evidence(v), UNCHANGED cell
  PROVE  Judges(v)
<1>1. session'.active = FALSE /\ session'.before = session.before
  BY DEF Settle, NativeTypeOK, Sessions
<1>2. preexec' \subseteq preexec \cup {lane} /\ (lane \in preexec' \ preexec => v = "vial")
  BY DEF Settle
<1> QED  BY <1>1, <1>2 DEF Settle, Judges

LEMMA PendingCases ==
  ASSUME NativeTypeOK, lane \in Idx, PollPending
  PROVE  PollCase
<1>1. session \in Sessions /\ cell \in Cells /\ ~session.active
  BY DEF NativeTypeOK, PollPending
<1>2. CASE AwaitInventory
  BY <1>1, <1>2 DEF AwaitInventory, Proceed, Waits, PollCase, Sessions
<1>3. CASE AwaitAbsent
  BY <1>1, <1>3 DEF AwaitAbsent, Proceed, Waits, PollCase, Sessions
<1>4. CASE AwaitLane
  <2>1. Waits
    BY <1>1, <1>4 DEF AwaitLane, Proceed, Waits, Sessions
  <2> QED  BY <2>1 DEF PollCase
<1>5. CASE Recover
  <2>1. Evidence("complete") /\ Settle("recovered_complete", "complete") /\ UNCHANGED cell
    BY <1>1, <1>5 DEF Recover, Evidence
  <2> QED  BY <2>1, SettleJudges DEF PollCase, Verdicts
<1>6. CASE Mismatch
  <2>1. Evidence("fixed") /\ Settle("quantity_mismatch", "fixed") /\ UNCHANGED cell
    BY <1>1, <1>6 DEF Mismatch, Evidence
  <2> QED  BY <2>1, SettleJudges DEF PollCase, Verdicts, Blocked
<1>7. CASE RefuseVial
  <2>0. Goods /\ Held(lane) # Wanted
    <3>1. Held(lane) \in 0 .. MaxStack
      BY HeldType
    <3> QED  BY <1>7, <3>1, SlotLedgerAssumption DEF RefuseVial, Matches, Wanted
  <2>1. Evidence("vial") /\ Settle("failed", "vial") /\ UNCHANGED cell
    BY <1>1, <1>7, <2>0 DEF RefuseVial, Evidence
  <2> QED  BY <2>1, SettleJudges DEF PollCase, Verdicts, Blocked
<1>8. CASE QueueNative
  <2> DEFINE via == IF ~Goods THEN "instance"
                    ELSE IF Absent \/ Overflows THEN "insert" ELSE "delta"
             b   == IF Goods THEN Baseline ELSE 0
             o   == Overflows
             a   == IF Absent THEN MinAbsentPolls ELSE 0
  <2>1. /\ Publishable /\ cell.request = "none"
        /\ session' = [session EXCEPT !.status = "executing", !.active = TRUE,
                         !.before = b, !.via = via, !.store = o, !.verify = 0, !.absent = a]
        /\ cell' = [request |-> IF via = "delta" THEN "delta" ELSE "insert",
                    done |-> FALSE, result |-> "empty", owner |-> lane]
        /\ UNCHANGED <<lane, finished, preexec>>
    BY <1>8 DEF QueueNative, Proceed
  <2>2. /\ via \in {"delta", "insert", "instance"} /\ (via = "instance" <=> ~Goods)
        /\ via = "insert" => Absent \/ Overflows
    OBVIOUS
  <2> HIDE DEF via, o, a
  <2>3. /\ session'.active = TRUE /\ session'.before = b /\ session'.via = via
        /\ session'.status \notin Waiting
        /\ session'.replanned = session.replanned /\ session'.retries = session.retries
    <3> HIDE DEF b
    <3> QED  BY <1>1, <2>1 DEF Sessions, Waiting
  <2>4. /\ cell'.request = (IF via = "delta" THEN "delta" ELSE "insert")
        /\ cell'.done = FALSE /\ cell'.result = "empty" /\ cell'.owner = lane
    BY <2>1
  <2>5. Publishes
    BY <1>1, <2>1, <2>2, <2>3, <2>4 DEF Publishes
  <2> QED  BY <2>5 DEF PollCase
<1> QED  BY <1>2, <1>3, <1>4, <1>5, <1>6, <1>7, <1>8 DEF PollPending

LEMMA ActiveCases ==
  ASSUME NativeTypeOK, lane \in Idx, PollActive
  PROVE  PollCase
<1>1. session \in Sessions /\ cell \in Cells /\ session.active
  BY DEF NativeTypeOK, PollActive
<1>2. CASE AwaitDone
  BY <1>1, <1>2 DEF AwaitDone, Proceed, Waits, Waiting, PollCase, Sessions
<1>3. CASE VerifyAgain
  BY <1>1, <1>3 DEF VerifyAgain, Proceed, Waits, Waiting, PollCase, Sessions
<1>4. CASE Replan
  <2>1. /\ session' = [session EXCEPT !.status = "replanning", !.active = FALSE,
                         !.replanned = TRUE, !.before = Nothing, !.verify = 0, !.absent = 0]
        /\ cell' = [cell EXCEPT !.request = "none"] /\ cell.done /\ ~Executed
        /\ UNCHANGED <<lane, finished, preexec>>
    BY <1>4 DEF Replan, Unwitnessed, Replans, Proceed
  <2>2. session'.active = FALSE /\ session'.replanned = TRUE /\ session'.before = Nothing
    BY <1>1, <2>1 DEF Sessions
  <2> QED  BY <1>1, <2>1, <2>2 DEF StartsOver, PollCase
<1>5. CASE RetryStorage
  <2>1. /\ session' = [session EXCEPT !.status = "storage_retry_wait", !.active = FALSE,
                         !.retries = session.retries + 1, !.before = Nothing]
        /\ cell' = [cell EXCEPT !.request = "none"] /\ cell.done /\ ~Executed
        /\ UNCHANGED <<lane, finished, preexec>>
    BY <1>5 DEF RetryStorage, StorageRefused, Unwitnessed, Proceed
  <2>2. session.retries \in Nat
    BY <1>1, NativeGrantAssumption DEF Sessions
  <2>3. session'.active = FALSE /\ session'.retries > 0 /\ session'.before = Nothing
    BY <1>1, <2>1, <2>2 DEF Sessions
  <2> QED  BY <1>1, <2>1, <2>3 DEF StartsOver, PollCase
<1>6. CASE VerifyGoods
  <2>1. /\ Settle("completed", "complete") /\ UNCHANGED cell
        /\ cell.done /\ session.via # "instance" /\ Witnessed
    BY <1>6 DEF VerifyGoods
  <2>2. Evidence("complete")
    <3>1. CASE session.via = "insert" /\ Executed
      BY <1>1, <2>1, <3>1 DEF Evidence
    <3>2. CASE Actual = Expected
      BY <1>1, <2>1, <3>2, ActualType DEF Evidence
    <3> QED  BY <2>1, <3>1, <3>2 DEF Witnessed
  <2> QED  BY <2>1, <2>2, SettleJudges DEF PollCase, Verdicts
<1>7. CASE ExhaustStorage
  <2>1. Settle("failed", "other") /\ UNCHANGED cell /\ cell.done
    BY <1>7 DEF ExhaustStorage, StorageRefused, Unwitnessed
  <2>2. Evidence("other")
    BY <1>1, <2>1 DEF Evidence
  <2> QED  BY <2>1, <2>2, SettleJudges DEF PollCase, Verdicts, Blocked
<1>8. CASE VerifySurplus
  <2>1. /\ Settle("completed", "complete") /\ UNCHANGED cell
        /\ cell.done /\ session.via = "delta" /\ Actual > Expected
    BY <1>8 DEF VerifySurplus, Unwitnessed, Surplus
  <2>2. Actual >= Expected
    BY <2>1, ActualType, SlotLedgerAssumption DEF Nothing
  <2>3. Evidence("complete")
    BY <1>1, <2>1, <2>2 DEF Evidence
  <2> QED  BY <2>1, <2>3, SettleJudges DEF PollCase, Verdicts
<1>9. CASE VerifyFails
  <2>1. /\ cell.done /\ UNCHANGED cell
        /\ (Executed /\ Settle("failed", "other")) \/ (~Executed /\ Settle("failed", "fixed"))
    BY <1>9 DEF VerifyFails, Short, Unwitnessed
  <2>2. CASE Executed /\ Settle("failed", "other")
    <3>1. Evidence("other")
      BY <1>1, <2>1 DEF Evidence
    <3> QED  BY <2>1, <2>2, <3>1, SettleJudges DEF PollCase, Verdicts, Blocked
  <2>3. CASE ~Executed /\ Settle("failed", "fixed")
    <3>1. Evidence("fixed")
      BY <1>1, <2>1, <2>3 DEF Evidence
    <3> QED  BY <2>1, <2>3, <3>1, SettleJudges DEF PollCase, Verdicts, Blocked
  <2> QED  BY <2>1, <2>2, <2>3
<1>10. ASSUME NEW record \in SlotReads, VerifyInstance(record)
       PROVE  PollCase
  <2>1. cell.done /\ session.via = "instance" /\ UNCHANGED cell
    BY <1>10 DEF VerifyInstance
  <2>2. CASE Settle("failed", "other")
    <3>1. Evidence("other")
      BY <1>1, <2>1 DEF Evidence
    <3> QED  BY <2>1, <2>2, <3>1, SettleJudges DEF PollCase, Verdicts, Blocked
  <2>3. CASE Settle("completed", "complete") /\ Executed
    <3>1. Evidence("complete")
      BY <1>1, <2>1, <2>3 DEF Evidence
    <3> QED  BY <2>1, <2>3, <3>1, SettleJudges DEF PollCase, Verdicts
  <2>4. CASE Proceed([session EXCEPT !.status = "verify_pending", !.verify = @ + 1])
    BY <1>1, <2>1, <2>4 DEF Proceed, Waits, Waiting, PollCase, Sessions
  <2>5. record = "ours" => Executed
    BY <1>10 DEF SlotReads, Executed
  <2> QED  BY <1>10, <2>2, <2>3, <2>4, <2>5 DEF VerifyInstance
<1> QED  BY <1>2, <1>3, <1>4, <1>5, <1>6, <1>7, <1>8, <1>9, <1>10 DEF PollActive

\* The poll stage of poll_items, for the invariants that follow.
LEMMA PollsCases ==
  ASSUME IInv, GrantPolls
  PROVE  /\ PollCase
         /\ lane = Cur /\ lane \in Idx /\ lane # Nothing /\ finished[lane] = "none"
         /\ mem.pending # NoPlan /\ mem.pending.index = lane /\ ~mem.pending.granted
         /\ pc = "poll" /\ pc' \in {"verdict", "idle"}
         /\ UNCHANGED <<mem, disk, game, hydrated, used, received, world, why, asked>>
<1>1. mem.pending # NoPlan /\ ~mem.pending.granted /\ Good(mem) /\ lane = Cur
  BY DEF GrantPolls, IInv, StageInv
<1>2. Cur \in Idx /\ mem.pending.index = Cur
  BY <1>1, PlanIndex DEF Cur
<1>3. lane # Nothing
  BY <1>1, <1>2, SlotLedgerAssumption DEF Idx, Nothing
<1>4. PollCase
  BY <1>1, <1>2, PendingCases, ActiveCases DEF GrantPolls, IInv
<1> QED  BY <1>1, <1>2, <1>3, <1>4 DEF GrantPolls, Goto, game, IInv, LaneOpen

-----------------------------------------------------------------------------
(***************************************************************************)
(* Which steps touch the native lane, and which lead where.                *)
(***************************************************************************)
LEMMA EngineStep ==
  ASSUME [Next]_vars
  PROVE  /\ \/ UNCHANGED <<engine, cell>>
            \/ GrantSubmits \/ GrantPolls \/ WithdrawClears \/ StartUp
            \/ PollReleasesVial \/ PollVialRefused \/ GameRuns \/ GameRaces
         /\ applied' = applied \/ GameRuns \/ GameRaces
         /\ asked' = asked \/ \E i \in Idx : RetryBlocked(i)
<1>1. CASE PollStart \/ NothingToDeliver \/ ContextValid \/ ContextLost \/ HoldPlan
           \/ ResumePlan \/ UseRecordedBaseline \/ AwaitObservation \/ GrantLatched
           \/ GrantContinues \/ WithdrawChecks \/ Receive \/ ReturnToPlay
  BY <1>1 DEF PollStart, NothingToDeliver, ContextValid, ContextLost, HoldPlan, ResumePlan,
     UseRecordedBaseline, AwaitObservation, GrantLatched, GrantContinues, WithdrawChecks,
     Receive, ReturnToPlay, native
<1>2. CASE BeginPlan \/ RecordBaseline \/ GrantComplete \/ ParkTerminalGrant \/ EquipItem
           \/ AcknowledgeItem \/ Crash \/ RequeueFixedParks \/ LeavePlay \/ Hydrate
  BY <1>2 DEF BeginPlan, RecordBaseline, GrantComplete, ParkTerminalGrant, EquipItem,
     AcknowledgeItem, Crash, RequeueFixedParks, LeavePlay, Hydrate, game
<1>3. CASE PlayerActs
  BY <1>3 DEF PlayerActs, PlayerSpends, PlayerPicks
<1>4. CASE \E i \in Idx : RetryBlocked(i) \/ ConfirmBlocked(i)
  BY <1>4 DEF RetryBlocked, ConfirmBlocked, game
<1>5. CASE GrantSubmits \/ GrantPolls \/ WithdrawClears \/ StartUp
           \/ PollReleasesVial \/ PollVialRefused
  BY <1>5 DEF GrantSubmits, GrantPolls, WithdrawClears, StartUp, PollReleasesVial,
     PollVialRefused, game
<1>6. CASE GameRuns \/ GameRaces
  BY <1>6 DEF GameRuns, GameRaces
<1>7. CASE UNCHANGED vars
  BY <1>7 DEF vars, native
<1> QED  BY <1>1, <1>2, <1>3, <1>4, <1>5, <1>6, <1>7 DEF Next, ClientStep, Recovery

LEMMA StageStep ==
  ASSUME [Next]_vars
  PROVE  /\ why' \in {why, world} \/ StartUp
         /\ pc' = "down" => pc = "down" \/ Crash
         /\ pc' = "requeue" => pc = "requeue" \/ StartUp \/ why = "startup"
         /\ pc' = "clear" => pc = "clear" \/ (Withdrawable /\ UNCHANGED cell)
<1>1. CASE PollStart \/ NothingToDeliver \/ ContextValid \/ ContextLost \/ HoldPlan
           \/ ResumePlan \/ UseRecordedBaseline \/ AwaitObservation \/ GrantLatched
           \/ GrantContinues \/ GrantSubmits \/ GrantPolls \/ PollVialRefused
  BY <1>1 DEF PollStart, NothingToDeliver, ContextValid, ContextLost, HoldPlan, ResumePlan,
     UseRecordedBaseline, AwaitObservation, GrantLatched, GrantContinues, GrantSubmits,
     GrantPolls, PollVialRefused, Goto
<1>2. CASE BeginPlan \/ RecordBaseline \/ GrantComplete \/ ParkTerminalGrant \/ EquipItem
           \/ AcknowledgeItem \/ RequeueFixedParks \/ PollReleasesVial
  BY <1>2 DEF BeginPlan, RecordBaseline, GrantComplete, ParkTerminalGrant, EquipItem,
     AcknowledgeItem, RequeueFixedParks, PollReleasesVial, Goto, Commit
<1>3. CASE WithdrawChecks
  BY <1>3 DEF WithdrawChecks, Goto, Resumes, native
<1>4. CASE WithdrawClears
  BY <1>4 DEF WithdrawClears, Goto, Commit, Resumes
<1>5. CASE Crash \/ StartUp
  BY <1>5 DEF Crash, StartUp, Goto
<1>6. CASE \E i \in Idx : RetryBlocked(i) \/ ConfirmBlocked(i)
  BY <1>6 DEF RetryBlocked, ConfirmBlocked
<1>7. CASE Receive \/ GameRuns \/ GameRaces \/ PlayerActs \/ LeavePlay \/ Recovery
  BY <1>7 DEF Receive, GameRuns, GameRaces, PlayerActs, LeavePlay, Recovery, ReturnToPlay, Hydrate
<1>8. CASE UNCHANGED vars
  BY <1>8 DEF vars
<1> QED  BY <1>1, <1>2, <1>3, <1>4, <1>5, <1>6, <1>7, <1>8 DEF Next, ClientStep

\* The game serves the request and leaves its owner in the cell.
Served ==
  /\ cell.request # "none"
  /\ \E r \in {"empty", "held", "stored"} :
       cell' = [cell EXCEPT !.request = "none", !.done = TRUE, !.result = r]
  /\ \/ applied' = [applied EXCEPT ![cell.owner] = @ + 1] /\ cell'.result # "empty"
     \/ applied' = applied
  /\ UNCHANGED <<engine, hydrated, pc, mem, disk, received, world, why, seen, asked>>

LEMMA GameStep ==
  ASSUME IInv, GameRuns \/ GameRaces
  PROVE  /\ Served
         /\ GameRuns => pc # "clear"
         /\ GameRaces => used'["race"] # 0
<1>0. /\ cell \in Cells /\ used["race"] \in Nat /\ "race" \in Disturbances
  BY DEF IInv, NativeTypeOK, Disturbances
<1>1. UNCHANGED <<engine, hydrated, pc, mem, disk, received, world, why, seen, asked>>
  BY DEF GameRuns, GameRaces, GameServes
<1>2. ASSUME DeltaLands \/ InsertHeld PROVE Served
  <2>1. /\ cell.request # "none" /\ cell' = [cell EXCEPT !.request = "none", !.done = TRUE, !.result = "held"]
        /\ applied' = [applied EXCEPT ![cell.owner] = @ + 1]
    BY <1>2 DEF DeltaLands, InsertHeld, Serve, HandOver
  <2>2. cell'.result = "held"
    BY <1>0, <2>1 DEF Cells
  <2> QED  BY <1>1, <2>1, <2>2 DEF Served
<1>3. ASSUME InsertStored PROVE Served
  <2>1. /\ cell.request # "none" /\ cell' = [cell EXCEPT !.request = "none", !.done = TRUE, !.result = "stored"]
        /\ applied' = [applied EXCEPT ![cell.owner] = @ + 1]
    BY <1>3 DEF InsertStored, Serve, HandOver
  <2>2. cell'.result = "stored"
    BY <1>0, <2>1 DEF Cells
  <2> QED  BY <1>1, <2>1, <2>2 DEF Served
<1>4. ASSUME DeltaDiscarded \/ InsertRefused PROVE Served
  <2>1. /\ cell.request # "none" /\ applied' = applied
        /\ \E r \in {"empty", "held", "stored"} :
             cell' = [cell EXCEPT !.request = "none", !.done = TRUE, !.result = r]
    BY <1>4 DEF DeltaDiscarded, InsertRefused, Serve
  <2> QED  BY <1>1, <2>1 DEF Served
<1>5. Served
  BY <1>2, <1>3, <1>4 DEF GameRuns, GameRaces, GameServes
<1>6. GameRaces => used'["race"] # 0
  BY <1>0, Counted DEF GameRaces, IInv
<1> QED  BY <1>5, <1>6 DEF GameRuns

-----------------------------------------------------------------------------
(***************************************************************************)
(* The request and its owner.                                              *)
(***************************************************************************)
\* A published request is the lane's, and a refusal counts as one before
\* execution only while it is the verdict.
OwnerInv ==
  /\ session.active => lane # Nothing /\ cell.owner = lane
  /\ \A i \in preexec : finished[i] = "vial"

LEMMA SubmitFacts ==
  ASSUME IInv, GrantSubmits
  PROVE  /\ lane = Nothing /\ lane' = Cur /\ Cur \in Idx /\ ~session.active
         /\ mem.pending # NoPlan /\ mem.pending.index = Cur /\ finished[Cur] = "none"
         /\ ~session'.active /\ session'.before = mem.pending.before
         /\ ~session'.replanned /\ session'.retries = 0
         /\ pc = "grant" /\ pc' = "poll"
         /\ UNCHANGED <<finished, preexec, mem, disk, cell, stack, hydrated, applied, used,
                        received, world, why, seen, asked>>
<1>1. Submit(Cur, mem.pending.before) /\ finished[Cur] = "none" /\ pc = "grant" /\ pc' = "poll"
      /\ UNCHANGED <<mem, disk, cell, stack, hydrated, applied, used, received, world, why, seen, asked>>
  BY DEF GrantSubmits, Goto
<1>2. mem.pending # NoPlan /\ Good(mem)
  BY <1>1 DEF IInv, StageInv
<1>3. Cur \in Idx /\ mem.pending.index = Cur
  BY <1>2, PlanIndex DEF Cur
<1>4. /\ lane = Nothing /\ ~session.active /\ lane' = Cur /\ UNCHANGED <<finished, preexec>>
      /\ session'.active = FALSE /\ session'.before = mem.pending.before
      /\ session'.replanned = FALSE /\ session'.retries = 0
  BY <1>1 DEF Submit, NewSession
<1> QED  BY <1>1, <1>2, <1>3, <1>4

LEMMA ClearFacts ==
  ASSUME IInv, WithdrawClears
  PROVE  /\ pc = "clear" /\ lane' = Nothing /\ ~session'.active /\ cell'.request = "none"
         /\ UNCHANGED <<finished, preexec, game, hydrated, received, world, why, seen, asked>>
BY DEF WithdrawClears, ClearRequest, IInv, NativeTypeOK, Sessions, Cells

LEMMA ReleaseFacts ==
  ASSUME IInv, PollReleasesVial \/ PollVialRefused
  PROVE  /\ DeferredVial \in Idx /\ lane = Nothing
         /\ finished[DeferredVial] = "none" \/ DeferredVial \in preexec
         /\ finished' = [finished EXCEPT ![DeferredVial] = "none"]
         /\ preexec' = preexec \ {DeferredVial}
         /\ pc = "idle" /\ pc' \in {"idle", "next"}
         /\ UNCHANGED <<lane, session, cell, stack, hydrated, applied, received, world, why, asked>>
<1>1. VialReady /\ ReleaseVialRefusal(DeferredVial) /\ pc = "idle" /\ pc' \in {"idle", "next"}
      /\ UNCHANGED <<cell, stack, hydrated, applied, received, world, why, asked>>
  BY DEF PollReleasesVial, PollVialRefused, Commit, Goto
<1>2. DeferredVial \in Idx
  BY <1>1, MinIsMember DEF VialReady, VialsDue, DeferredVial, IInv, Good, Slots
<1> QED  BY <1>1, <1>2 DEF ReleaseVialRefusal, ReleasesVialRefusal

LEMMA OwnerKept ==
  ASSUME IInv, OwnerInv, [Next]_vars
  PROVE  OwnerInv'
<1>1. CASE UNCHANGED <<engine, cell>>
  BY <1>1 DEF OwnerInv, engine
<1>2. CASE GrantSubmits
  BY <1>2, SubmitFacts DEF OwnerInv
<1>3. CASE WithdrawClears
  BY <1>3, ClearFacts DEF OwnerInv
<1>4. CASE StartUp
  BY <1>4 DEF StartUp, RestartEngine, NewSession, OwnerInv
<1>5. CASE PollReleasesVial \/ PollVialRefused
  BY <1>5, ReleaseFacts DEF OwnerInv, IInv, NativeTypeOK
<1>6. CASE GameRuns \/ GameRaces
  <2>1. Served
    BY <1>6, GameStep
  <2>2. cell'.owner = cell.owner /\ UNCHANGED engine
    BY <2>1 DEF Served, IInv, NativeTypeOK, Cells
  <2> QED  BY <2>2 DEF OwnerInv, engine
<1>7. CASE GrantPolls
  <2>1. /\ PollCase /\ lane \in Idx /\ lane # Nothing /\ finished[lane] = "none"
    BY <1>7, PollsCases
  <2>2. CASE Waits \/ Publishes \/ StartsOver
    BY <2>1, <2>2 DEF Waits, Publishes, StartsOver, OwnerInv
  <2>3. ASSUME NEW v, Judges(v)
        PROVE  OwnerInv'
    <3>1. ~session'.active /\ lane' = Nothing /\ finished' = [finished EXCEPT ![lane] = v]
          /\ preexec' \subseteq preexec \cup {lane} /\ (lane \in preexec' \ preexec => v = "vial")
      BY <2>3 DEF Judges
    <3>2. lane \notin preexec /\ finished \in [Idx -> Blocked \cup {"none", "complete"}]
          /\ preexec \subseteq Idx
      BY <2>1 DEF OwnerInv, IInv, NativeTypeOK
    <3>3. ASSUME NEW i \in preexec' PROVE finished'[i] = "vial"
      <4>1. CASE i = lane
        BY <2>1, <3>1, <3>2, <3>3, <4>1
      <4>2. CASE i # lane
        BY <2>1, <3>1, <3>2, <3>3, <4>2 DEF OwnerInv
      <4> QED  BY <4>1, <4>2
    <3> QED  BY <3>1, <3>3 DEF OwnerInv
  <2> QED  BY <2>1, <2>2, <2>3 DEF PollCase
<1> QED  BY <1>1, <1>2, <1>3, <1>4, <1>5, <1>6, <1>7, EngineStep

-----------------------------------------------------------------------------
(***************************************************************************)
(* A client that lives: no process death, and no game step inside a        *)
(* withdrawal.                                                             *)
(***************************************************************************)
Alone == used["crash"] = 0 /\ used["race"] = 0

\* No start-up; a request the game may serve is the active one of the lane,
\* and is still there when the withdrawal writes.
LiveInv ==
  /\ pc \notin {"down", "requeue"} /\ why # "startup"
  /\ cell.request # "none" => session.active /\ lane = cell.owner /\ ~cell.done
  /\ pc = "clear" => cell.request # "none"

\* The game has handed an index over no more often than the operator asked,
\* but for the once that its verdict, or the result in the cell, tells of.
Told(i) ==
  \/ finished[i] \in {"complete", "other"}
  \/ lane = i /\ session.active /\ cell.done /\ Executed

OnceInv ==
  \A i \in Idx :
    /\ applied[i] <= asked[i] \/ (applied[i] = asked[i] + 1 /\ Told(i))
    /\ mem.acked[i] \in {"fixed", "vial"} => applied[i] <= asked[i]

LEMMA AloneBefore ==
  ASSUME IInv, [Next]_vars, Alone'
  PROVE  Alone /\ ~Crash /\ ~GameRaces
<1>1. /\ \A e \in Disturbances : used'[e] >= used[e] /\ used[e] \in Nat
      /\ "crash" \in Disturbances /\ "race" \in Disturbances
  BY StepMovesRows DEF IInv, NativeTypeOK, Disturbances
<1>2. Alone
  BY <1>1 DEF Alone
<1>3. ~Crash
  BY <1>1, Counted DEF Crash, Alone, IInv
<1>4. ~GameRaces
  BY GameStep DEF Alone
<1> QED  BY <1>2, <1>3, <1>4

LEMMA LiveKept ==
  ASSUME IInv, OwnerInv, LiveInv, [Next]_vars, Alone'
  PROVE  LiveInv'
<1>1. Alone /\ ~Crash /\ ~GameRaces /\ ~StartUp
  BY AloneBefore DEF StartUp, LiveInv
<1>2. pc' \notin {"down", "requeue"} /\ why' # "startup"
  <2>1. world # "startup"
    BY DEF IInv, RestOK
  <2> QED  BY <1>1, <2>1, StageStep DEF LiveInv
<1>3. (cell'.request # "none" => session'.active /\ lane' = cell'.owner /\ ~cell'.done)
      /\ (pc = "clear" /\ pc' = "clear" => cell'.request # "none")
  <2>1. CASE UNCHANGED <<engine, cell>>
    BY <2>1 DEF LiveInv, engine
  <2>2. CASE GrantSubmits
    BY <2>2, SubmitFacts DEF LiveInv
  <2>3. CASE WithdrawClears
    <3>1. pc' # "clear"
      BY <2>3 DEF WithdrawClears, Commit, Goto, Resumes
    <3> QED  BY <2>3, <3>1, ClearFacts
  <2>4. CASE PollReleasesVial \/ PollVialRefused
    BY <2>4, ReleaseFacts DEF LiveInv
  <2>5. CASE GameRuns
    <3>1. Served /\ pc # "clear"
      BY <2>5, GameStep
    <3>2. cell'.request = "none"
      BY <3>1 DEF Served, IInv, NativeTypeOK, Cells
    <3> QED  BY <3>1, <3>2
  <2>6. CASE GrantPolls
    <3>1. PollCase /\ lane \in Idx /\ pc = "poll" /\ cell \in Cells
      BY <2>6, PollsCases DEF IInv, NativeTypeOK
    <3>2. CASE Waits
      BY <3>1, <3>2 DEF Waits, LiveInv
    <3>3. CASE Publishes
      BY <3>1, <3>3 DEF Publishes
    <3>4. CASE StartsOver
      <4>1. cell'.request = "none"
        BY <3>1, <3>4 DEF StartsOver, Cells
      <4> QED  BY <3>1, <4>1
    <3>5. ASSUME NEW v \in Verdicts \ {"compat"}, Judges(v)
          PROVE  cell'.request = "none"
      <4>1. session.active => cell.done
        BY <3>5 DEF Judges, Evidence, Verdicts, Blocked
      <4> QED  BY <3>5, <4>1 DEF Judges, LiveInv
    <3> QED  BY <3>1, <3>2, <3>3, <3>4, <3>5 DEF PollCase
  <2> QED  BY <1>1, <2>1, <2>2, <2>3, <2>4, <2>5, <2>6, EngineStep
<1>4. pc' = "clear" => cell'.request # "none"
  BY <1>3, StageStep DEF Withdrawable
<1> QED  BY <1>2, <1>3, <1>4 DEF LiveInv

\* Told, when neither the engine nor the cell changes.
LEMMA OnceQuiet ==
  ASSUME OnceInv, UNCHANGED <<engine, cell, applied, asked>>,
         \A i \in Idx : mem'.acked[i] \in {"fixed", "vial"} => applied[i] <= asked[i]
  PROVE  OnceInv'
<1>1. \A i \in Idx : Told(i)' <=> Told(i)
  BY DEF Told, Executed, engine
<1> QED  BY <1>1 DEF OnceInv

LEMMA MovedParks ==
  ASSUME IInv, NEW s \in Slots, NEW t \in Slots, Edited(s, t) \/ Requeued(s, t)
  PROVE  \A i \in Idx : t.acked[i] \in {s.acked[i], "none"}
BY DEF Edited, Requeued, Slots

\* The parks a step adds are none that the client would requeue by itself,
\* unless the step is park_terminal_grant.
LEMMA ParksFew ==
  ASSUME IInv, OnceInv, LiveInv, [Next]_vars, Alone'
  PROVE  \A i \in Idx : mem'.acked[i] \in {"fixed", "vial"} => applied[i] <= asked[i]
<1>0. mem \in Slots /\ mem' \in Slots /\ pc # "down"
  BY NextKeeps DEF IInv, Good, LiveInv
<1>1. CASE Bystanders \/ UNCHANGED vars
  <2>1. mem' = mem
    BY <1>1, BystandersKeep DEF vars
  <2> QED  BY <2>1 DEF OnceInv
<1>2. CASE BeginPlan \/ RecordBaseline \/ GrantComplete \/ EquipItem \/ WithdrawClears
           \/ PollReleasesVial \/ RequeueFixedParks
  <2>1. \A i \in Idx : mem'.acked[i] \in {mem.acked[i], "none"}
    BY <1>0, <1>2, EditSteps, VialRequeues, ParksRequeue, MovedParks
  <2> QED  BY <2>1 DEF OnceInv
<1>3. ASSUME NEW k \in Idx, RetryBlocked(k)
      PROVE  \A i \in Idx : mem'.acked[i] \in {"fixed", "vial"} => applied[i] <= asked[i]
  <2>1. \A i \in Idx : mem'.acked[i] \in {mem.acked[i], "none"}
    BY <1>0, <1>3, RetryRequeues, MovedParks
  <2> QED  BY <2>1 DEF OnceInv
<1>4. CASE AcknowledgeItem
  <2>1. /\ mem'.acked = [mem.acked EXCEPT ![Cur] = "delivered"] /\ Cur \in Idx
        /\ mem.acked \in [Idx -> Acks]
    BY <1>0, <1>4, AckSettles DEF Slots
  <2> QED  BY <2>1 DEF OnceInv
<1>5. CASE ParkTerminalGrant
  <2>1. /\ mem'.acked = [mem.acked EXCEPT ![Cur] = finished[Cur]] /\ Cur \in Idx
        /\ mem.acked \in [Idx -> Acks]
    BY <1>0, <1>5, ParkSettles DEF Slots
  <2>2. lane # Cur
    <3>1. finished[Cur] # "none"
      BY <1>5 DEF ParkTerminalGrant, Blocked
    <3>2. Cur # Nothing
      BY <2>1, SlotLedgerAssumption DEF Idx, Nothing
    <3> QED  BY <3>1, <3>2 DEF IInv, LaneOpen
  <2>3. finished[Cur] \in {"fixed", "vial"} => applied[Cur] <= asked[Cur]
    BY <2>1, <2>2 DEF OnceInv, Told
  <2> QED  BY <2>1, <2>3 DEF OnceInv
<1>6. ~StartUp /\ ~\E i \in Idx : ConfirmBlocked(i)
  BY <1>0 DEF StartUp, ConfirmBlocked
<1> QED  BY <1>1, <1>2, <1>3, <1>4, <1>5, <1>6, EveryStep

\* A step after which every index that was told of still is.
LEMMA OnceTold ==
  ASSUME OnceInv, UNCHANGED <<applied, asked>>,
         \A i \in Idx : applied[i] = asked[i] + 1 /\ Told(i) => Told(i)',
         \A i \in Idx : mem'.acked[i] \in {"fixed", "vial"} => applied[i] <= asked[i]
  PROVE  OnceInv'
BY DEF OnceInv

LEMMA OnceServed ==
  ASSUME IInv, RowsInv, OwnerInv, LiveInv, OnceInv, Served
  PROVE  OnceInv'
<1>1. /\ session.active /\ lane = cell.owner /\ ~cell.done /\ cell \in Cells
      /\ UNCHANGED <<lane, finished, session, mem, asked>>
      /\ applied \in [Idx -> Nat] /\ asked \in [Idx -> Nat]
  BY DEF LiveInv, Served, engine, IInv, NativeTypeOK, RestOK
<1>2. lane \in Idx /\ lane # Nothing /\ finished[lane] = "none" /\ mem.acked[lane] = "none"
  <2>1. lane # Nothing
    BY <1>1 DEF OwnerInv
  <2>2. mem.pending.index = lane /\ lane \in Idx
    BY <2>1 DEF IInv, LaneServesPlan, NativeTypeOK
  <2>3. mem.pending # NoPlan /\ Good(mem)
    BY <2>1, <2>2 DEF NoPlan, IInv
  <2>4. lane = NextIndex(mem) /\ mem \in Slots
    BY <2>2, <2>3 DEF Good
  <2> QED  BY <2>1, <2>2, <2>4, NextIsOpen DEF IInv, LaneOpen, RowsInv
<1>3. applied[lane] <= asked[lane]
  BY <1>1, <1>2 DEF OnceInv, Told
<1>4. cell'.done
  BY <1>1 DEF Served, Cells
<1>5. ASSUME NEW i \in Idx
      PROVE  /\ applied'[i] <= asked'[i] \/ (applied'[i] = asked'[i] + 1 /\ Told(i)')
             /\ mem'.acked[i] \in {"fixed", "vial"} => applied'[i] <= asked'[i]
  <2>1. CASE i # lane
    <3>1. applied'[i] = applied[i]
      BY <1>1, <2>1 DEF Served
    <3>2. Told(i) => Told(i)'
      BY <1>1, <2>1 DEF Told
    <3> QED  BY <1>1, <3>1, <3>2 DEF OnceInv
  <2>2. CASE i = lane
    <3>1. mem'.acked[i] = "none"
      BY <1>1, <1>2, <2>2
    <3>2. CASE applied' = applied
      BY <1>1, <1>3, <2>2, <3>1, <3>2
    <3>3. CASE applied' = [applied EXCEPT ![cell.owner] = @ + 1] /\ cell'.result # "empty"
      <4>1. applied'[i] = applied[i] + 1
        BY <1>1, <2>2, <3>3
      <4>2. Told(i)'
        BY <1>1, <1>4, <2>2, <3>3 DEF Told, Executed
      <4>3. applied[i] \in Nat /\ asked[i] \in Nat /\ applied[i] <= asked[i] /\ asked'[i] = asked[i]
        BY <1>1, <1>2, <1>3, <2>2
      <4> QED  BY <3>1, <4>1, <4>2, <4>3
    <3> QED  BY <3>2, <3>3 DEF Served
  <2> QED  BY <2>1, <2>2
<1> QED  BY <1>5 DEF OnceInv

LEMMA OnceKept ==
  ASSUME IInv, RowsInv, OwnerInv, LiveInv, OnceInv, [Next]_vars, Alone'
  PROVE  OnceInv'
<1>1. ~StartUp /\ ~GameRaces
  BY AloneBefore DEF StartUp, LiveInv
<1>2. \A i \in Idx : mem'.acked[i] \in {"fixed", "vial"} => applied[i] <= asked[i]
  BY ParksFew
<1>3. CASE GameRuns
  BY <1>3, GameStep, OnceServed
<1>4. ASSUME NEW k \in Idx, RetryBlocked(k)
      PROVE  OnceInv'
  <2>1. /\ UNCHANGED <<engine, cell, applied>> /\ asked' = [asked EXCEPT ![k] = @ + 1]
        /\ asked \in [Idx -> Nat] /\ applied \in [Idx -> Nat]
    BY <1>4 DEF RetryBlocked, game, IInv, NativeTypeOK, RestOK
  <2>2. \A i \in Idx : Told(i)' <=> Told(i)
    BY <2>1 DEF Told, Executed, engine
  <2>3. \A i \in Idx : asked'[i] = IF i = k THEN asked[i] + 1 ELSE asked[i]
    BY <2>1
  <2> QED  BY <1>2, <2>1, <2>2, <2>3 DEF OnceInv
<1>5. CASE ~GameRuns /\ ~\E i \in Idx : RetryBlocked(i)
  <2>0. UNCHANGED <<applied, asked>>
    BY <1>1, <1>5, EngineStep
  <2>1. CASE UNCHANGED <<engine, cell>>
    BY <1>2, <2>0, <2>1, OnceQuiet
  <2>2. CASE GrantSubmits
    <3>1. lane = Nothing /\ ~session.active /\ UNCHANGED finished
      BY <2>2, SubmitFacts
    <3>2. \A i \in Idx : Told(i) => Told(i)'
      BY <3>1 DEF Told
    <3> QED  BY <1>2, <2>0, <3>2, OnceTold
  <2>3. CASE WithdrawClears
    <3>1. UNCHANGED finished /\ (session.active => ~cell.done)
      BY <2>3, ClearFacts DEF LiveInv
    <3>2. \A i \in Idx : Told(i) => Told(i)'
      BY <3>1 DEF Told
    <3> QED  BY <1>2, <2>0, <3>2, OnceTold
  <2>4. CASE PollReleasesVial \/ PollVialRefused
    <3>1. /\ DeferredVial \in Idx /\ finished' = [finished EXCEPT ![DeferredVial] = "none"]
          /\ finished[DeferredVial] \in {"none", "vial"}
          /\ UNCHANGED <<lane, session, cell>> /\ DOMAIN finished = Idx
      BY <2>4, ReleaseFacts DEF OwnerInv, IInv, NativeTypeOK
    <3>2. \A i \in Idx : Told(i) => Told(i)'
      BY <3>1 DEF Told, Executed
    <3> QED  BY <1>2, <2>0, <3>2, OnceTold
  <2>5. CASE GrantPolls
    <3>1. PollCase /\ lane \in Idx /\ finished[lane] = "none" /\ DOMAIN finished = Idx
          /\ lane # Nothing
      BY <2>5, PollsCases DEF IInv, NativeTypeOK
    <3>2. CASE Waits
      <4>1. \A i \in Idx : Told(i) => Told(i)'
        BY <3>2 DEF Waits, Told, Executed
      <4> QED  BY <1>2, <2>0, <4>1, OnceTold
    <3>3. CASE Publishes \/ StartsOver
      <4>1. \A i \in Idx : Told(i) => Told(i)'
        BY <3>3 DEF Publishes, StartsOver, Told
      <4> QED  BY <1>2, <2>0, <4>1, OnceTold
    <3>4. ASSUME NEW v \in Verdicts \ {"compat"}, Judges(v)
          PROVE  OnceInv'
      <4>1. /\ finished' = [finished EXCEPT ![lane] = v]
            /\ v \in {"fixed", "vial"} => ~session.active \/ (cell.done /\ ~Executed)
            /\ v \in {"complete", "other", "fixed", "vial"}
        BY <3>4 DEF Judges, Evidence, Verdicts, Blocked
      <4>2. ASSUME NEW i \in Idx, Told(i)
            PROVE  Told(i)'
        <5>1. CASE i = lane
          BY <3>1, <4>1, <4>2, <5>1 DEF Told
        <5>2. CASE i # lane
          BY <3>1, <4>1, <4>2, <5>2 DEF Told
        <5> QED  BY <5>1, <5>2
      <4> QED  BY <1>2, <2>0, <4>2, OnceTold
    <3> QED  BY <3>1, <3>2, <3>3, <3>4 DEF PollCase
  <2> QED  BY <1>1, <1>5, <2>1, <2>2, <2>3, <2>4, <2>5, EngineStep
<1> QED  BY <1>3, <1>4, <1>5

\* The invariant of a live client.
AloneInv == Alone => LiveInv /\ OnceInv

LEMMA OwnerInductive == Spec => []OwnerInv
<1>1. Init => OwnerInv
  BY DEF Init, NativeInit, NewSession, OwnerInv
<1>2. IInv /\ OwnerInv /\ [Next]_vars => OwnerInv'
  BY OwnerKept
<1> QED  BY <1>1, <1>2, Inductive, PTL DEF Spec

LEMMA AloneInductive == Spec => []AloneInv
<1>1. Init => AloneInv
  <2> SUFFICES ASSUME Init PROVE LiveInv /\ OnceInv
    BY DEF AloneInv
  <2>1. LiveInv
    BY DEF Init, NativeInit, LiveInv
  <2>2. OnceInv
    BY DEF Init, NativeInit, OnceInv, EmptySlot
  <2> QED  BY <2>1, <2>2
<1>2. IInv /\ RowsInv /\ OwnerInv /\ AloneInv /\ [Next]_vars => AloneInv'
  <2> SUFFICES ASSUME IInv, RowsInv, OwnerInv, AloneInv, [Next]_vars, Alone'
               PROVE  LiveInv' /\ OnceInv'
    BY DEF AloneInv
  <2>1. LiveInv /\ OnceInv
    BY AloneBefore DEF AloneInv
  <2> QED  BY <2>1, LiveKept, OnceKept
<1> QED  BY <1>1, <1>2, Inductive, RowsInductive, OwnerInductive, PTL DEF Spec

\* A park that start-up or the Vial retry delivers again without asking
\* anyone (park_cause_is_fixed, "the grant provably did not apply") is one
\* whose grant was not applied, whatever the player spends or loots, the game
\* stores or refuses and the disk loses, as long as the client lives.
THEOREM DeliveryAutoRetryIsUnapplied == Spec => []AutoRetryIsUnapplied
<1>1. AloneInv => AutoRetryIsUnapplied
  BY DEF AloneInv, Alone, OnceInv, AutoRetryIsUnapplied
<1> QED  BY <1>1, AloneInductive, PTL

-----------------------------------------------------------------------------
(***************************************************************************)
(* What each step does to the plan in memory.                              *)
(***************************************************************************)
LEMMA BeginFacts ==
  ASSUME IInv, BeginPlan
  PROVE  /\ mem.pending = NoPlan /\ mem'.pending.before = Nothing /\ ~mem'.pending.granted
         /\ mem'.acked = mem.acked /\ lane = Nothing
         /\ pc' \in {"baseline", "idle"} /\ UNCHANGED <<engine, cell, game, asked, why>>
<1> DEFINE p == FreshPlan(Cur, Cur \in AutoEquip)
<1>1. /\ mem.pending = NoPlan /\ Commit(Begin(mem, p), "baseline")
      /\ UNCHANGED <<engine, cell, game, asked, why>> /\ mem \in Slots
  BY DEF BeginPlan, IInv, Good
<1>2. p.before = Nothing /\ p.granted = FALSE
  BY DEF FreshPlan
<1> HIDE DEF p
<1>3. Begin(mem, p) = [mem EXCEPT !.pending = p]
  BY <1>1 DEF Begin
<1>4. mem' = [mem EXCEPT !.pending = p] /\ pc' \in {"baseline", "idle"}
  BY <1>1, <1>3 DEF Commit
<1>5. mem'.pending = p /\ mem'.acked = mem.acked
  BY <1>1, <1>4 DEF Slots
<1> QED  BY <1>1, <1>2, <1>4, <1>5, LaneFree

\* The plan with one of its fields changed, and the row otherwise as it was.
LEMMA EditFacts ==
  ASSUME NEW s \in Slots, s.pending \in Plans, NEW q \in Nothing .. MaxStack
  PROVE  /\ LET t == RecordObservedBefore(s, q)
            IN /\ t.pending.index = s.pending.index /\ t.pending.granted = s.pending.granted
               /\ t.pending.before = q /\ t.acked = s.acked
         /\ LET t == MarkGrantComplete(s)
            IN /\ t.pending.index = s.pending.index /\ t.pending.granted
               /\ t.pending.before = s.pending.before /\ t.acked = s.acked
         /\ LET t == MarkEquipComplete(s)
            IN /\ t.pending.index = s.pending.index /\ t.pending.granted = s.pending.granted
               /\ t.pending.before = s.pending.before /\ t.acked = s.acked
<1> DEFINE p1 == [s.pending EXCEPT !.before = q]
           p2 == [s.pending EXCEPT !.granted = TRUE]
           p3 == [s.pending EXCEPT !.equipped = TRUE]
<1>1. /\ p1.index = s.pending.index /\ p1.granted = s.pending.granted /\ p1.before = q
      /\ p2.index = s.pending.index /\ p2.granted = TRUE /\ p2.before = s.pending.before
      /\ p3.index = s.pending.index /\ p3.granted = s.pending.granted
      /\ p3.before = s.pending.before
  BY DEF Plans
<1>2. /\ RecordObservedBefore(s, q) = [s EXCEPT !.pending = p1]
      /\ MarkGrantComplete(s) = [s EXCEPT !.pending = p2]
      /\ MarkEquipComplete(s) = [s EXCEPT !.pending = p3]
  BY DEF RecordObservedBefore, MarkGrantComplete, MarkEquipComplete
<1>3. \A p : [s EXCEPT !.pending = p].pending = p /\ [s EXCEPT !.pending = p].acked = s.acked
  BY DEF Slots
<1> HIDE DEF p1, p2, p3
<1> QED  BY <1>1, <1>2, <1>3

LEMMA RecordFacts ==
  ASSUME IInv, RecordBaseline
  PROVE  /\ mem.pending # NoPlan /\ Cur \in Idx
         /\ mem.pending.index = Cur /\ mem'.pending.index = Cur
         /\ ~mem.pending.granted /\ ~mem'.pending.granted
         /\ mem'.pending.before = Held(Cur) /\ mem'.pending.before # Nothing
         /\ mem'.acked = mem.acked
         /\ pc = "baseline" /\ pc' \in {"grant", "idle"}
         /\ UNCHANGED <<engine, cell, game, asked, why>>
<1>1. mem.pending # NoPlan /\ ~mem.pending.granted /\ Good(mem)
  BY DEF RecordBaseline, IInv, StageInv
<1>2. mem.pending \in Plans /\ mem.pending.index = Cur /\ Cur \in Idx /\ mem \in Slots
  BY <1>1, PlanIndex DEF Cur, Good
<1>3. Held(Cur) \in 0 .. MaxStack
  BY HeldType DEF IInv
<1>4. Held(Cur) \in Nothing .. MaxStack /\ Held(Cur) # Nothing
  BY <1>3, SlotLedgerAssumption DEF Nothing
<1>5. /\ mem' = RecordObservedBefore(mem, Held(Cur)) /\ pc = "baseline" /\ pc' \in {"grant", "idle"}
      /\ UNCHANGED <<engine, cell, game, asked, why>>
  BY DEF RecordBaseline, Commit
<1> HIDE DEF Held
<1> QED  BY <1>1, <1>2, <1>4, <1>5, EditFacts

LEMMA CompleteFacts ==
  ASSUME IInv, GrantComplete
  PROVE  /\ mem.pending # NoPlan /\ Cur \in Idx /\ finished[Cur] = "complete" /\ lane = Nothing
         /\ mem.pending.index = Cur /\ mem'.pending.index = Cur
         /\ mem'.pending.before = mem.pending.before
         /\ mem'.acked = mem.acked
         /\ pc = "verdict" /\ pc' \in {"equip", "idle"}
         /\ UNCHANGED <<engine, cell, game, asked, why>>
<1>1. mem.pending # NoPlan /\ Good(mem)
  BY DEF GrantComplete, IInv, StageInv
<1>2. mem.pending \in Plans /\ mem.pending.index = Cur /\ Cur \in Idx /\ mem \in Slots
  BY <1>1, PlanIndex DEF Cur, Good
<1>3. /\ mem' = MarkGrantComplete(mem) /\ pc = "verdict" /\ pc' \in {"equip", "idle"}
      /\ finished[Cur] = "complete" /\ UNCHANGED <<engine, cell, game, asked, why>>
  BY DEF GrantComplete, Commit
<1>4. lane = Nothing
  BY <1>2, <1>3 DEF IInv, LaneServesPlan, LaneOpen
<1>5. Nothing \in Nothing .. MaxStack
  BY SlotLedgerAssumption DEF Nothing
<1> QED  BY <1>1, <1>2, <1>3, <1>4, <1>5, EditFacts

LEMMA EquipFacts ==
  ASSUME IInv, EquipItem
  PROVE  /\ mem.pending # NoPlan /\ mem.pending.granted /\ lane = Nothing
         /\ mem'.pending.index = mem.pending.index
         /\ mem'.pending.before = mem.pending.before
         /\ mem'.pending.granted = mem.pending.granted
         /\ mem'.acked = mem.acked
         /\ pc = "equip" /\ pc' \in {"ack", "idle"}
         /\ UNCHANGED <<engine, cell, game, asked, why>>
<1>1. mem.pending # NoPlan /\ mem.pending.granted /\ Good(mem) /\ lane = Nothing
  BY LaneFree DEF EquipItem, IInv, StageInv
<1>2. mem.pending \in Plans /\ mem \in Slots
  BY <1>1, PlanIndex DEF Good
<1>3. /\ mem' \in {mem, MarkEquipComplete(mem)} /\ pc = "equip" /\ pc' \in {"ack", "idle"}
      /\ UNCHANGED <<engine, cell, game, asked, why>>
  BY DEF EquipItem, Commit, Goto
<1>5. Nothing \in Nothing .. MaxStack
  BY SlotLedgerAssumption DEF Nothing
<1> QED  BY <1>1, <1>2, <1>3, <1>5, EditFacts

LEMMA ForgetFacts ==
  ASSUME IInv, WithdrawClears
  PROVE  /\ mem'.pending.index = mem.pending.index
         /\ mem'.pending.granted = mem.pending.granted
         /\ mem'.pending.before \in {mem.pending.before, Nothing}
         /\ mem'.acked = mem.acked /\ pc' \in {"idle", "requeue"}
<1>1. CASE mem' = mem /\ pc' = Resumes
  BY <1>1 DEF Resumes
<1>2. CASE mem' = ClearObservedBefore(mem) /\ pc' = "idle" /\ mem.pending.before # Nothing
  <2>1. mem.pending # NoPlan
    BY <1>2 DEF NoPlan
  <2>2. mem.pending \in Plans /\ mem \in Slots
    BY <2>1 DEF IInv, Good, Slots
  <2>3. Nothing \in Nothing .. MaxStack
    BY SlotLedgerAssumption DEF Nothing
  <2>4. mem' = RecordObservedBefore(mem, Nothing)
    BY <1>2 DEF ClearObservedBefore, RecordObservedBefore
  <2> QED  BY <1>2, <2>2, <2>3, <2>4, EditFacts
<1> QED  BY <1>1, <1>2 DEF WithdrawClears, Commit, Goto

-----------------------------------------------------------------------------
(***************************************************************************)
(* What a published request is, whatever happens.                          *)
(***************************************************************************)
PublishInv ==
  /\ pc \in {"grant", "poll"} => mem.pending.before # Nothing
  /\ session.active =>
       /\ session.before # Nothing /\ session.status \notin Waiting
       /\ session.via = "instance" <=> lane \in Equipment
       /\ cell.request # "none" => (cell.request = "delta" <=> session.via = "delta")
       /\ cell.done /\ Executed /\ session.via \in {"insert", "instance"} => applied[lane] > 0

LEMMA StageBefore ==
  ASSUME IInv, PublishInv, [Next]_vars
  PROVE  pc' \in {"grant", "poll"} => mem'.pending.before # Nothing
<1>1. CASE UNCHANGED <<pc, mem>>
  BY <1>1 DEF PublishInv
<1>2. CASE UseRecordedBaseline \/ GrantSubmits \/ GrantContinues
  BY <1>2 DEF UseRecordedBaseline, GrantSubmits, GrantContinues, Goto, Binding, PublishInv
<1>3. CASE RecordBaseline
  BY <1>3, RecordFacts
<1>4. CASE PollStart \/ NothingToDeliver \/ ContextValid \/ ContextLost \/ HoldPlan
           \/ ResumePlan \/ AwaitObservation \/ GrantLatched \/ GrantPolls \/ PollVialRefused
           \/ WithdrawChecks \/ Crash \/ StartUp
  BY <1>4 DEF PollStart, NothingToDeliver, ContextValid, ContextLost, HoldPlan, ResumePlan,
     AwaitObservation, GrantLatched, GrantPolls, PollVialRefused, WithdrawChecks, Crash,
     StartUp, Goto, Resumes
<1>5. CASE BeginPlan \/ GrantComplete \/ ParkTerminalGrant \/ EquipItem \/ AcknowledgeItem
           \/ RequeueFixedParks \/ PollReleasesVial \/ WithdrawClears
  BY <1>5 DEF BeginPlan, GrantComplete, ParkTerminalGrant, EquipItem, AcknowledgeItem,
     RequeueFixedParks, PollReleasesVial, WithdrawClears, Commit, Goto, Resumes
<1>6. CASE \E i \in Idx : RetryBlocked(i) \/ ConfirmBlocked(i)
  BY <1>6 DEF RetryBlocked, ConfirmBlocked
<1>7. CASE Receive \/ GameRuns \/ GameRaces \/ PlayerActs \/ LeavePlay \/ Recovery
  <2>1. UNCHANGED <<pc, mem>>
    BY <1>7 DEF Receive, GameRuns, GameRaces, PlayerActs, LeavePlay, Recovery, ReturnToPlay, Hydrate
  <2> QED  BY <1>1, <2>1
<1>8. CASE UNCHANGED vars
  BY <1>1, <1>8 DEF vars
<1> QED  BY <1>2, <1>3, <1>4, <1>5, <1>6, <1>7, <1>8 DEF Next, ClientStep

\* The baseline the session publishes against is a quantity.
LEMMA BaselineType ==
  ASSUME NativeTypeOK
  PROVE  /\ Baseline \in 0 .. MaxStack
         /\ session.before = Nothing => Baseline = Held(lane)
         /\ session.before # Nothing => Baseline = session.before
<1>1. session.before \in Nothing .. MaxStack /\ Held(lane) \in 0 .. MaxStack
  BY HeldType DEF NativeTypeOK, Sessions
<1> QED  BY <1>1, SlotLedgerAssumption DEF Baseline, Nothing

LEMMA PublishServed ==
  ASSUME IInv, OwnerInv, PublishInv, GameRuns \/ GameRaces, session.active
  PROVE  cell'.done /\ Executed' /\ session.via \in {"insert", "instance"} => applied'[lane] > 0
<1>1. /\ lane \in Idx /\ cell.owner = lane /\ cell \in Cells /\ applied \in [Idx -> Nat]
  BY DEF OwnerInv, IInv, NativeTypeOK
<1>2. CASE HandOver
  <2>1. applied'[lane] = applied[lane] + 1 /\ applied[lane] \in Nat
    BY <1>1, <1>2 DEF HandOver
  <2> QED  BY <2>1
<1>3. CASE DeltaDiscarded
  BY <1>3 DEF DeltaDiscarded, PublishInv
<1>4. CASE InsertRefused
  <2>1. cell'.result = "empty"
    BY <1>1, <1>4 DEF InsertRefused, Serve, Cells
  <2> QED  BY <2>1 DEF Executed
<1> QED  BY <1>2, <1>3, <1>4 DEF GameRuns, GameRaces, GameServes, DeltaLands, InsertHeld, InsertStored

LEMMA PublishKept ==
  ASSUME IInv, OwnerInv, PublishInv, [Next]_vars
  PROVE  PublishInv'
<1>1. pc' \in {"grant", "poll"} => mem'.pending.before # Nothing
  BY StageBefore
<1>2. CASE ~session'.active
  BY <1>1, <1>2 DEF PublishInv
<1>3. CASE UNCHANGED <<lane, session, cell, applied>>
  BY <1>1, <1>3 DEF PublishInv, Executed
<1>4. CASE GameRuns \/ GameRaces
  <2>1. Served
    BY <1>4, GameStep
  <2>2. UNCHANGED <<lane, session>> /\ cell'.request = "none"
    BY <2>1 DEF Served, engine, IInv, NativeTypeOK, Cells
  <2> QED  BY <1>1, <1>4, <2>2, PublishServed DEF PublishInv
<1>5. CASE GrantPolls
  <2>1. PollCase /\ lane \in Idx /\ UNCHANGED applied
    BY <1>5, PollsCases DEF game
  <2>2. CASE Waits
    BY <1>1, <2>1, <2>2 DEF Waits, PublishInv, Executed
  <2>3. CASE Publishes
    <3>1. (IF Goods THEN Baseline ELSE 0) # Nothing
      BY BaselineType, SlotLedgerAssumption DEF IInv, Nothing
    <3>2. /\ session'.before # Nothing /\ session'.status \notin Waiting
          /\ (session'.via = "instance" <=> lane' \in Equipment)
          /\ cell'.request = (IF session'.via = "delta" THEN "delta" ELSE "insert")
          /\ ~cell'.done
      BY <2>3, <3>1 DEF Publishes, Goods
    <3> QED  BY <1>1, <3>2 DEF PublishInv
  <2> QED  BY <1>2, <2>1, <2>2, <2>3 DEF PollCase, StartsOver, Judges
<1>6. CASE GrantSubmits
  BY <1>2, <1>6, SubmitFacts
<1>7. CASE WithdrawClears
  BY <1>2, <1>7, ClearFacts
<1>8. CASE StartUp
  BY <1>2, <1>8 DEF StartUp, RestartEngine, NewSession
<1>9. CASE PollReleasesVial \/ PollVialRefused
  BY <1>3, <1>9, ReleaseFacts
<1>10. CASE UNCHANGED <<engine, cell>> /\ ~GameRuns /\ ~GameRaces
  BY <1>3, <1>10, EngineStep DEF engine
<1> QED  BY <1>4, <1>5, <1>6, <1>7, <1>8, <1>9, <1>10, EngineStep

LEMMA PublishInductive == Spec => []PublishInv
<1>1. Init => PublishInv
  BY DEF Init, NativeInit, NewSession, PublishInv
<1>2. IInv /\ OwnerInv /\ PublishInv /\ [Next]_vars => PublishInv'
  BY PublishKept
<1> QED  BY <1>1, <1>2, Inductive, OwnerInductive, PTL DEF Spec

-----------------------------------------------------------------------------
(***************************************************************************)
(* What a restart finds.  As long as no save failed, the disk has the plan *)
(* that memory has, and as long as nobody died, nobody reads the disk.     *)
(***************************************************************************)
Synced == used["savefail"] = 0 \/ used["crash"] = 0

SyncInv ==
  /\ used["savefail"] = 0 =>
       mem.pending = disk.pending /\ (used["unblock"] = 0 => mem.acked = disk.acked)
  /\ used["crash"] = 0 => pc \notin {"down", "requeue"} /\ why # "startup"

LEMMA CountersGrow ==
  ASSUME IInv, [Next]_vars
  PROVE  /\ \A e \in Disturbances : used[e] \in Nat /\ used'[e] >= used[e]
         /\ \A e \in Disturbances : used'[e] = 0 => used[e] = 0
BY StepMovesRows DEF IInv, NativeTypeOK

LEMMA SaveStep ==
  ASSUME IInv, [Next]_vars, used'["savefail"] = 0
  PROVE  \/ disk' = mem' \/ UNCHANGED <<mem, disk>> \/ \E i \in Idx : ConfirmBlocked(i)
<1>1. used["savefail"] = 0
  BY CountersGrow DEF Disturbances
<1>2. ASSUME NEW slot, NEW next, Commit(slot, next)
      PROVE  disk' = mem'
  BY <1>1, <1>2, CommitMoves
<1>3. CASE Bystanders \/ UNCHANGED vars
  BY <1>3, BystandersKeep DEF vars
<1>4. CASE BeginPlan \/ RecordBaseline \/ GrantComplete \/ AcknowledgeItem \/ PollReleasesVial
  BY <1>2, <1>4 DEF BeginPlan, RecordBaseline, GrantComplete, AcknowledgeItem, PollReleasesVial
<1>5. CASE ParkTerminalGrant
  <2>1. \E slot : Commit(slot, "idle")
    BY <1>5 DEF ParkTerminalGrant
  <2> QED  BY <1>2, <2>1
<1>6. CASE EquipItem \/ WithdrawClears \/ RequeueFixedParks
  BY <1>2, <1>6 DEF EquipItem, WithdrawClears, RequeueFixedParks, Goto
<1>7. CASE StartUp
  BY <1>7 DEF StartUp
<1>8. CASE \E i \in Idx : RetryBlocked(i) \/ ConfirmBlocked(i)
  BY <1>8 DEF RetryBlocked
<1> QED  BY <1>3, <1>4, <1>5, <1>6, <1>7, <1>8, EveryStep

LEMMA SyncKept ==
  ASSUME IInv, SyncInv, [Next]_vars
  PROVE  SyncInv'
<1>1. /\ "savefail" \in Disturbances /\ "crash" \in Disturbances /\ "unblock" \in Disturbances
      /\ \A e \in Disturbances : used[e] \in Nat /\ used'[e] >= used[e]
      /\ \A e \in Disturbances : used'[e] = 0 => used[e] = 0
  BY CountersGrow DEF Disturbances
<1>2. ASSUME used'["savefail"] = 0
      PROVE  mem'.pending = disk'.pending /\ (used'["unblock"] = 0 => mem'.acked = disk'.acked)
  <2>1. mem.pending = disk.pending /\ (used["unblock"] = 0 => mem.acked = disk.acked)
    BY <1>1, <1>2 DEF SyncInv
  <2>2. ASSUME NEW i \in Idx, ConfirmBlocked(i)
        PROVE  mem'.pending = disk'.pending /\ used'["unblock"] # 0
    <3>1. disk' = Unblock(disk, i) /\ mem' = mem /\ Happens("unblock") /\ disk \in Slots
      BY <2>2 DEF ConfirmBlocked, IInv, Good
    <3>2. disk'.pending = disk.pending
      BY <3>1 DEF Unblock, Slots
    <3>3. used'["unblock"] # 0
      BY <1>1, <3>1, Counted DEF IInv
    <3> QED  BY <2>1, <3>1, <3>2, <3>3
  <2>3. CASE UNCHANGED <<mem, disk>>
    BY <1>1, <2>1, <2>3
  <2> QED  BY <1>2, <2>2, <2>3, SaveStep
<1>3. ASSUME used'["crash"] = 0
      PROVE  pc' \notin {"down", "requeue"} /\ why' # "startup"
  <2>1. pc \notin {"down", "requeue"} /\ why # "startup"
    BY <1>1, <1>3 DEF SyncInv
  <2>2. ~Crash
    BY <1>1, <1>3, Counted DEF Crash, IInv
  <2>3. ~StartUp /\ world # "startup"
    BY <2>1 DEF StartUp, IInv, RestOK
  <2> QED  BY <2>1, <2>2, <2>3, StageStep
<1> QED  BY <1>2, <1>3 DEF SyncInv

LEMMA SyncInductive == Spec => []SyncInv
<1>1. Init => SyncInv
  BY DEF Init, SyncInv
<1>2. IInv /\ SyncInv /\ [Next]_vars => SyncInv'
  BY SyncKept
<1> QED  BY <1>1, <1>2, Inductive, PTL DEF Spec

-----------------------------------------------------------------------------
(***************************************************************************)
(* The request the game may serve is that of the plan.                     *)
(***************************************************************************)
Away == {"down", "withdraw", "clear"}

RequestInv ==
  cell.request # "none" =>
    /\ ~cell.done /\ mem.pending.index = cell.owner /\ ~mem.pending.granted
    /\ mem.pending.before # Nothing
    /\ lane # Nothing => lane = cell.owner /\ session.active
    /\ pc \notin Away => session.active

LEMMA NoRequest ==
  ASSUME IInv, OwnerInv, RequestInv,
         mem.pending = NoPlan \/ mem.pending.granted \/ pc = "verdict"
  PROVE  cell.request = "none"
<1>1. CASE mem.pending = NoPlan \/ mem.pending.granted
  BY <1>1 DEF RequestInv, NoPlan
<1>2. CASE pc = "verdict" /\ cell.request # "none"
  <2>1. session.active /\ lane # Nothing
    BY <1>2 DEF RequestInv, OwnerInv, Away
  <2>2. mem.pending # NoPlan /\ finished[Cur] # "none" /\ Good(mem)
    BY <1>2 DEF IInv, StageInv
  <2>3. mem.pending.index = Cur
    BY <2>2 DEF Good, Cur
  <2> QED  BY <2>1, <2>2, <2>3 DEF IInv, LaneServesPlan, LaneOpen
<1> QED  BY <1>1, <1>2

LEMMA RequestQuiet ==
  ASSUME RequestInv, UNCHANGED <<lane, session, cell>>,
         mem'.pending.index = mem.pending.index, mem'.pending.granted = mem.pending.granted,
         mem.pending.before # Nothing => mem'.pending.before # Nothing,
         pc' \notin Away => pc \notin Away
  PROVE  RequestInv'
BY DEF RequestInv

LEMMA RequestBystanders ==
  ASSUME IInv, OwnerInv, PublishInv, RequestInv, Bystanders
  PROVE  RequestInv'
<1>1. UNCHANGED <<mem, disk>>
  BY BystandersKeep
<1>2. CASE Receive \/ PlayerActs \/ LeavePlay \/ Recovery
  <2>1. UNCHANGED <<lane, session, cell, pc>>
    BY <1>2 DEF Receive, PlayerActs, PlayerSpends, PlayerPicks, LeavePlay, Recovery,
                ReturnToPlay, Hydrate, native, engine
  <2> QED  BY <1>1, <2>1, RequestQuiet
<1>3. CASE GameRuns \/ GameRaces
  <2>1. Served
    BY <1>3, GameStep
  <2>2. cell'.request = "none"
    BY <2>1 DEF Served, IInv, NativeTypeOK, Cells
  <2> QED  BY <2>2 DEF RequestInv
<1>4. CASE PollStart \/ NothingToDeliver \/ ContextValid \/ ContextLost \/ HoldPlan
           \/ ResumePlan \/ UseRecordedBaseline \/ AwaitObservation \/ GrantLatched
           \/ GrantContinues \/ PollVialRefused
  <2>1. UNCHANGED <<lane, session, cell>> /\ pc \notin Away
    BY <1>4 DEF PollStart, NothingToDeliver, ContextValid, ContextLost, HoldPlan,
       ResumePlan, UseRecordedBaseline, AwaitObservation, GrantLatched, GrantContinues,
       PollVialRefused, ReleaseVialRefusal, Away, native, engine
  <2> QED  BY <1>1, <2>1, RequestQuiet
<1>5. CASE Crash
  <2>1. UNCHANGED <<lane, session, cell>> /\ pc' \in Away
    BY <1>5 DEF Crash, Goto, Away, engine
  <2> QED  BY <1>1, <2>1, RequestQuiet
<1>6. CASE WithdrawChecks
  <2>1. /\ UNCHANGED <<lane, session, cell>>
        /\ pc' = IF Withdrawable THEN "clear" ELSE Resumes
    BY <1>6 DEF WithdrawChecks, Goto, native, engine
  <2>2. cell.request # "none" => pc' = "clear"
    BY <2>1 DEF Withdrawable, RequestInv
  <2> QED  BY <1>1, <2>1, <2>2 DEF RequestInv, Away
<1>7. CASE GrantSubmits
  <2>1. ~session.active /\ pc = "grant" /\ UNCHANGED cell
    BY <1>7, SubmitFacts
  <2>2. cell.request = "none"
    BY <2>1 DEF RequestInv, Away
  <2> QED  BY <2>1, <2>2 DEF RequestInv
<1>8. CASE GrantPolls
  <2>1. /\ PollCase /\ lane \in Idx /\ lane # Nothing /\ pc = "poll" /\ pc' \notin Away
        /\ mem.pending.index = lane /\ ~mem.pending.granted /\ mem.pending.before # Nothing
    BY <1>8, PollsCases DEF PublishInv, Away
  <2>2. cell.request # "none" => session.active /\ ~cell.done
    BY <2>1 DEF RequestInv, Away
  <2>3. CASE Waits
    BY <1>1, <2>1, <2>3 DEF Waits, RequestInv, Away
  <2>4. CASE Publishes
    BY <1>1, <2>1, <2>4 DEF Publishes, RequestInv
  <2>5. CASE StartsOver
    <3>1. cell'.request = "none"
      BY <2>5 DEF StartsOver, IInv, NativeTypeOK, Cells
    <3> QED  BY <3>1 DEF RequestInv
  <2>6. ASSUME NEW v \in Verdicts \ {"compat"}, Judges(v)
        PROVE  RequestInv'
    <3>1. (session.active => cell.done) /\ cell' = cell
      BY <2>6 DEF Judges, Evidence, Verdicts, Blocked
    <3>2. cell'.request = "none"
      BY <2>2, <3>1
    <3> QED  BY <3>2 DEF RequestInv
  <2> QED  BY <2>1, <2>3, <2>4, <2>5, <2>6 DEF PollCase
<1> QED  BY <1>2, <1>3, <1>4, <1>5, <1>6, <1>7, <1>8 DEF Bystanders

LEMMA RequestKept ==
  ASSUME IInv, OwnerInv, PublishInv, SyncInv, RequestInv, [Next]_vars, Synced
  PROVE  RequestInv'
<1>1. CASE Bystanders
  BY <1>1, RequestBystanders
<1>2. CASE BeginPlan \/ GrantComplete \/ EquipItem \/ ParkTerminalGrant \/ AcknowledgeItem
           \/ PollReleasesVial
  <2>1. UNCHANGED cell
    BY <1>2 DEF BeginPlan, GrantComplete, EquipItem, ParkTerminalGrant, AcknowledgeItem,
                PollReleasesVial
  <2>2. mem.pending = NoPlan \/ mem.pending.granted \/ pc = "verdict"
    BY <1>2 DEF BeginPlan, GrantComplete, EquipItem, ParkTerminalGrant, AcknowledgeItem,
                PollReleasesVial, CanRequeueBlocked, IInv, StageInv
  <2> QED  BY <2>1, <2>2, NoRequest DEF RequestInv
<1>3. CASE RecordBaseline
  <2>1. /\ mem'.pending.index = mem.pending.index
        /\ mem'.pending.granted = FALSE /\ mem.pending.granted = FALSE
        /\ mem'.pending.before # Nothing
        /\ UNCHANGED <<lane, session, cell>> /\ pc = "baseline"
    BY <1>3, RecordFacts DEF engine, IInv, Good, Slots, Plans, NoPlan
  <2> QED  BY <2>1 DEF RequestInv, Away
<1>4. CASE WithdrawClears
  BY <1>4, ClearFacts DEF RequestInv
<1>5. CASE RequeueFixedParks
  <2>1. mem'.pending = mem.pending /\ UNCHANGED <<lane, session, cell>> /\ pc = "requeue"
    BY <1>5, ParksRequeue DEF RequeueFixedParks, engine
  <2> QED  BY <2>1, RequestQuiet DEF Away
<1>6. CASE StartUp
  <2>1. /\ mem' = disk /\ lane' = Nothing /\ UNCHANGED cell /\ pc = "down"
        /\ pc' = (IF disk.pending # NoPlan /\ ~disk.pending.granted
                  THEN "withdraw" ELSE "requeue")
    BY <1>6 DEF StartUp, RestartEngine
  <2>2. mem.pending = disk.pending
    BY <2>1 DEF SyncInv, Synced
  <2>3. ASSUME cell.request # "none"
        PROVE  disk.pending # NoPlan /\ ~disk.pending.granted
    BY <2>2, <2>3 DEF RequestInv, NoPlan
  <2> QED  BY <2>1, <2>2, <2>3 DEF RequestInv, Away
<1>7. ASSUME NEW i \in Idx, RetryBlocked(i) \/ ConfirmBlocked(i)
      PROVE  RequestInv'
  <2>1. CASE RetryBlocked(i)
    BY <2>1, NoRequest DEF RetryBlocked, CanRequeueBlocked, RequestInv
  <2>2. CASE ConfirmBlocked(i)
    BY <2>2, RequestQuiet DEF ConfirmBlocked, engine
  <2> QED  BY <1>7, <2>1, <2>2
<1>8. CASE UNCHANGED vars
  BY <1>8, RequestQuiet DEF vars, native, engine
<1> QED  BY <1>1, <1>2, <1>3, <1>4, <1>5, <1>6, <1>7, <1>8, EveryStep

SyncedRequest == Synced => RequestInv

LEMMA RequestInductive == Spec => []SyncedRequest
<1>1. Init => SyncedRequest
  BY DEF Init, NativeInit, SyncedRequest, RequestInv
<1>2. IInv /\ OwnerInv /\ PublishInv /\ SyncInv /\ SyncedRequest /\ [Next]_vars => SyncedRequest'
  <2> SUFFICES ASSUME IInv, OwnerInv, PublishInv, SyncInv, SyncedRequest, [Next]_vars, Synced'
               PROVE  RequestInv'
    BY DEF SyncedRequest
  <2>1. Synced
    BY CountersGrow DEF Synced, Disturbances
  <2> QED  BY <2>1, RequestKept DEF SyncedRequest
<1> QED  BY <1>1, <1>2, Inductive, OwnerInductive, PublishInductive, SyncInductive, PTL DEF Spec

-----------------------------------------------------------------------------
(***************************************************************************)
(* Nothing is lost.  Nobody loots the consumable, bb-blocked is not run,   *)
(* and no client both died and failed to save.                             *)
(***************************************************************************)
Sound == Synced /\ used["pick"] = 0 /\ used["unblock"] = 0

\* A grant that was not applied has not made the stack grow past the baseline
\* of the plan, nor past the one of the session.
StackInv ==
  /\ (mem.pending.before # Nothing /\ mem.pending.index \notin Equipment
        /\ applied[mem.pending.index] = 0) => stack <= mem.pending.before
  /\ (lane # Nothing /\ lane \notin Equipment /\ session.before # Nothing
        /\ applied[lane] = 0) => stack <= session.before

\* What is complete, or acknowledged, was applied.
DeliveredInv ==
  /\ \A i \in Idx : finished[i] = "complete" \/ mem.acked[i] = "delivered" => applied[i] > 0
  /\ mem.pending.granted => applied[mem.pending.index] > 0

PlanCase ==
  \/ mem'.pending.before = Nothing /\ ~mem'.pending.granted
  \/ /\ mem'.pending.index = mem.pending.index /\ mem'.pending.granted = mem.pending.granted
     /\ mem'.pending.before \in {mem.pending.before, Nothing}
  \/ /\ mem'.pending.index = Cur /\ mem'.pending.before = Held(Cur)
     /\ ~mem'.pending.granted /\ UNCHANGED game /\ RecordBaseline
  \/ /\ mem'.pending.index = mem.pending.index /\ mem'.pending.before = mem.pending.before
     /\ mem.pending.index \in Idx /\ finished[mem.pending.index] = "complete"

LEMMA PlanCases ==
  ASSUME IInv, SyncInv, Synced, [Next]_vars
  PROVE  PlanCase
<1>1. CASE mem'.pending = mem.pending
  BY <1>1 DEF PlanCase
<1>2. CASE Bystanders \/ UNCHANGED vars
  BY <1>1, <1>2, BystandersKeep DEF vars
<1>3. CASE BeginPlan
  BY <1>3, BeginFacts DEF PlanCase
<1>4. CASE RecordBaseline
  <2>1. /\ mem'.pending.index = Cur /\ mem'.pending.before = Held(Cur)
        /\ ~mem'.pending.granted /\ UNCHANGED game
    BY <1>4, RecordFacts
  <2> QED  BY <1>4, <2>1 DEF PlanCase
<1>5. CASE GrantComplete
  <2>1. /\ mem'.pending.index = mem.pending.index /\ mem'.pending.before = mem.pending.before
        /\ mem.pending.index \in Idx /\ finished[mem.pending.index] = "complete"
    BY <1>5, CompleteFacts
  <2> QED  BY <2>1 DEF PlanCase
<1>6. CASE EquipItem
  <2>1. /\ mem'.pending.index = mem.pending.index /\ mem'.pending.granted = mem.pending.granted
        /\ mem'.pending.before = mem.pending.before
    BY <1>6, EquipFacts
  <2> QED  BY <2>1 DEF PlanCase
<1>7. CASE WithdrawClears
  BY <1>7, ForgetFacts DEF PlanCase
<1>8. CASE ParkTerminalGrant \/ AcknowledgeItem
  <2>1. mem'.pending = NoPlan
    BY <1>8, ParkSettles, AckSettles
  <2> QED  BY <2>1 DEF PlanCase, NoPlan
<1>9. CASE PollReleasesVial \/ RequeueFixedParks
  BY <1>1, <1>9, VialRequeues, ParksRequeue
<1>10. CASE StartUp
  <2>1. mem' = disk /\ pc = "down"
    BY <1>10 DEF StartUp
  <2> QED  BY <1>1, <2>1 DEF SyncInv, Synced
<1>11. ASSUME NEW i \in Idx, RetryBlocked(i) \/ ConfirmBlocked(i)
       PROVE  PlanCase
  BY <1>1, <1>11, RetryRequeues DEF ConfirmBlocked
<1> QED  BY <1>2, <1>3, <1>4, <1>5, <1>6, <1>7, <1>8, <1>9, <1>10, <1>11, EveryStep

\* Only acknowledge makes an entry delivered, and only of a granted plan.
LEMMA AckCases ==
  ASSUME IInv, SyncInv, [Next]_vars, Sound'
  PROVE  \A i \in Idx : mem'.acked[i] = "delivered" =>
           \/ mem.acked[i] = "delivered"
           \/ mem.pending.granted /\ mem.pending.index = i
<1>0. mem \in Slots /\ mem' \in Slots /\ mem.acked \in [Idx -> Acks]
  BY NextKeeps DEF IInv, Good, Slots
<1>s. used["unblock"] = 0 /\ Synced
  BY CountersGrow DEF Sound, Synced, Disturbances
<1>1. CASE mem'.acked = mem.acked
  BY <1>1
<1>2. CASE Bystanders \/ UNCHANGED vars
  BY <1>1, <1>2, BystandersKeep DEF vars
<1>3. CASE BeginPlan \/ RecordBaseline \/ GrantComplete \/ EquipItem \/ WithdrawClears
  BY <1>1, <1>3, EditSteps DEF Edited
<1>4. CASE PollReleasesVial \/ RequeueFixedParks
  <2>1. \A i \in Idx : mem'.acked[i] \in {mem.acked[i], "none"}
    BY <1>0, <1>4, VialRequeues, ParksRequeue, MovedParks
  <2> QED  BY <2>1
<1>5. CASE ParkTerminalGrant
  <2>1. mem'.acked = [mem.acked EXCEPT ![Cur] = finished[Cur]] /\ finished[Cur] \in Blocked
    BY <1>5, ParkSettles
  <2> QED  BY <1>0, <2>1 DEF Blocked
<1>6. CASE AcknowledgeItem
  <2>1. /\ mem'.acked = [mem.acked EXCEPT ![Cur] = "delivered"] /\ mem.pending # NoPlan
        /\ mem.pending.granted
    BY <1>6, AckSettles
  <2>2. mem.pending.index = Cur
    BY <2>1, PlanIndex DEF IInv, Cur
  <2> QED  BY <1>0, <2>1, <2>2
<1>7. CASE StartUp
  <2>1. mem' = disk /\ pc = "down"
    BY <1>7 DEF StartUp
  <2>2. mem.acked = disk.acked
    BY <1>s, <2>1 DEF SyncInv, Synced
  <2> QED  BY <1>1, <2>1, <2>2
<1>8. ASSUME NEW k \in Idx, RetryBlocked(k) \/ ConfirmBlocked(k)
      PROVE  \A i \in Idx : mem'.acked[i] = "delivered" => mem.acked[i] = "delivered"
  <2>1. CASE RetryBlocked(k)
    <3>1. \A i \in Idx : mem'.acked[i] \in {mem.acked[i], "none"}
      BY <1>0, <2>1, RetryRequeues, MovedParks
    <3> QED  BY <3>1
  <2>2. CASE ConfirmBlocked(k)
    BY <2>2 DEF ConfirmBlocked
  <2> QED  BY <1>8, <2>1, <2>2
<1> QED  BY <1>2, <1>3, <1>4, <1>5, <1>6, <1>7, <1>8, EveryStep

\* The game takes nothing back, and the stack grows by a hand-over only.
LEMMA GrowStep ==
  ASSUME IInv, [Next]_vars, used'["pick"] = 0
  PROVE  /\ \A i \in Idx : applied[i] \in Nat /\ applied'[i] \in Nat /\ applied'[i] >= applied[i]
         /\ stack \in Int /\ stack' \in Int
         /\ stack' <= stack \/ ((GameRuns \/ GameRaces) /\ HandOver /\ Served)
<1>0. /\ applied \in [Idx -> Nat] /\ stack \in 0 .. MaxStack /\ used["pick"] \in Nat
      /\ applied' \in [Idx -> Nat] /\ stack' \in 0 .. MaxStack /\ "pick" \in Disturbances
  BY NextKeeps DEF IInv, NativeTypeOK, Disturbances
<1>1. stack \in Int /\ stack' \in Int
  BY <1>0, SlotLedgerAssumption
<1>2. ASSUME NEW i \in Idx
      PROVE  applied[i] \in Nat /\ applied'[i] \in Nat /\ applied'[i] >= applied[i]
  <2>1. CASE applied' = applied
    BY <1>0, <2>1
  <2>2. CASE applied' = [applied EXCEPT ![cell.owner] = @ + 1]
    BY <1>0, <2>2
  <2> QED  BY <2>1, <2>2, EngineStep, GameStep DEF Served
<1>3. stack' <= stack \/ ((GameRuns \/ GameRaces) /\ HandOver /\ Served)
  <2>1. CASE GameRuns \/ GameRaces
    <3>1. HandOver \/ stack' = stack
      BY <2>1 DEF GameRuns, GameRaces, GameServes, DeltaLands, DeltaDiscarded, InsertHeld,
                  InsertStored, InsertRefused
    <3> QED  BY <1>1, <2>1, <3>1, GameStep
  <2>2. CASE PlayerActs
    <3>1. ~PlayerPicks
      BY <1>0, Counted DEF PlayerPicks, IInv
    <3> QED  BY <1>1, <2>2, <3>1 DEF PlayerActs, PlayerSpends
  <2>3. CASE stack' = stack
    BY <1>1, <2>3
  <2>4. CASE Bystanders
    <3>1. stack' = stack \/ GameRuns \/ GameRaces \/ PlayerActs
      BY <2>4 DEF Bystanders, PollStart, PollVialRefused, NothingToDeliver, ContextValid,
         ContextLost, HoldPlan, ResumePlan, UseRecordedBaseline, AwaitObservation,
         GrantLatched, GrantSubmits, GrantContinues, GrantPolls, WithdrawChecks, Crash,
         Receive, LeavePlay, Recovery, ReturnToPlay, Hydrate, native, game
    <3> QED  BY <2>1, <2>2, <2>3, <3>1
  <2>5. CASE BeginPlan \/ RecordBaseline \/ GrantComplete \/ EquipItem \/ WithdrawClears
             \/ ParkTerminalGrant \/ AcknowledgeItem \/ PollReleasesVial
             \/ RequeueFixedParks \/ StartUp
    <3>1. stack' = stack
      BY <2>5 DEF BeginPlan, RecordBaseline, GrantComplete, EquipItem, WithdrawClears,
         ParkTerminalGrant, AcknowledgeItem, PollReleasesVial, RequeueFixedParks, StartUp, game
    <3> QED  BY <2>3, <3>1
  <2>6. CASE \E i \in Idx : RetryBlocked(i) \/ ConfirmBlocked(i)
    BY <2>3, <2>6 DEF RetryBlocked, ConfirmBlocked, game
  <2>7. CASE UNCHANGED vars
    BY <2>3, <2>7 DEF vars, native
  <2> QED  BY <2>4, <2>5, <2>6, <2>7, EveryStep
<1> QED  BY <1>1, <1>2, <1>3

\* The index of a plan that has a baseline, or is granted, is an index.
LEMMA RealPlan ==
  ASSUME NEW s, Good(s), s.pending.before # Nothing \/ s.pending.granted
  PROVE  /\ s.pending \in Plans /\ s.pending.index \in Idx
         /\ s.pending.before \in Nothing .. MaxStack /\ s.pending.index = NextIndex(s)
<1>1. s.pending # NoPlan
  BY DEF NoPlan
<1> QED  BY <1>1, PlanIndex DEF Plans

LEMMA StackKept ==
  ASSUME IInv, SyncInv, RequestInv, StackInv, [Next]_vars, Sound'
  PROVE  StackInv'
<1>0. /\ Synced /\ used'["pick"] = 0
      /\ Good(mem) /\ Good(mem') /\ session.before \in Nothing .. MaxStack
      /\ lane \in Idx \cup {Nothing}
  BY CountersGrow, NextKeeps DEF Sound, Synced, Disturbances, IInv, NativeTypeOK, Sessions
<1>1. /\ \A i \in Idx : applied[i] \in Nat /\ applied'[i] \in Nat /\ applied'[i] >= applied[i]
      /\ stack \in Int /\ stack' \in Int
      /\ stack' <= stack \/ (HandOver /\ Served)
  BY <1>0, GrowStep
<1>2. CASE HandOver /\ Served
  <2>1. /\ mem.pending.index = cell.owner /\ mem.pending.before # Nothing
        /\ lane # Nothing => lane = cell.owner
        /\ mem' = mem /\ lane' = lane
    BY <1>2 DEF Served, RequestInv, engine
  <2>2. cell.owner \in Idx
    BY <1>0, <2>1, RealPlan
  <2>3. applied'[cell.owner] = applied[cell.owner] + 1
    BY <1>2, <2>2 DEF HandOver, IInv, NativeTypeOK
  <2>4. applied'[cell.owner] # 0
    BY <1>1, <2>2, <2>3
  <2> QED  BY <2>1, <2>4 DEF StackInv
<1>3. CASE stack' <= stack
  <2>1. ASSUME mem'.pending.before # Nothing, mem'.pending.index \notin Equipment,
               applied'[mem'.pending.index] = 0
        PROVE  stack' <= mem'.pending.before
    <3>0. mem'.pending.index \in Idx /\ mem'.pending.before \in Nothing .. MaxStack
      BY <1>0, <2>1, RealPlan
    <3>1. applied[mem'.pending.index] = 0
      BY <1>1, <2>1, <3>0
    <3>2. CASE mem'.pending.index = mem.pending.index /\ mem'.pending.before = mem.pending.before
      <4>1. stack <= mem.pending.before
        BY <2>1, <3>1, <3>2 DEF StackInv
      <4> QED  BY <1>1, <1>3, <3>0, <3>2, <4>1, SlotLedgerAssumption DEF Nothing
    <3>3. CASE mem'.pending.index = Cur /\ mem'.pending.before = Held(Cur) /\ UNCHANGED game
      BY <1>1, <2>1, <3>3 DEF Held, game
    <3> QED  BY <1>0, <2>1, <3>2, <3>3, PlanCases DEF PlanCase
  <2>2. ASSUME lane' # Nothing, lane' \notin Equipment, session'.before # Nothing,
               applied'[lane'] = 0
        PROVE  stack' <= session'.before
    <3>0. /\ lane' \in Idx /\ session'.before \in Nothing .. MaxStack
      BY <2>2, NextKeeps DEF IInv, NativeTypeOK, Sessions
    <3>1. applied[lane'] = 0
      BY <1>1, <2>2, <3>0
    <3>2. CASE lane' = lane /\ session'.before = session.before
      <4>1. stack <= session.before
        BY <2>2, <3>1, <3>2 DEF StackInv
      <4> QED  BY <1>1, <1>3, <3>0, <3>2, <4>1, SlotLedgerAssumption DEF Nothing
    <3>3. CASE UNCHANGED <<engine, cell>>
      BY <3>2, <3>3 DEF engine
    <3>4. CASE GrantSubmits
      <4>1. /\ lane' = mem.pending.index /\ session'.before = mem.pending.before
            /\ UNCHANGED stack
        BY <3>4, SubmitFacts
      <4> QED  BY <2>2, <3>1, <4>1 DEF StackInv
    <3>5. CASE GrantPolls
      <4>1. PollCase /\ UNCHANGED stack
        BY <3>5, PollsCases DEF game
      <4>2. CASE Waits
        BY <3>2, <4>2 DEF Waits
      <4>3. CASE Publishes
        <5>1. lane' = lane /\ Goods /\ session'.before = Baseline
          BY <2>2, <4>3 DEF Publishes, Goods
        <5>2. CASE session.before = Nothing
          BY <1>1, <4>1, <5>1, <5>2, BaselineType DEF IInv, Held, Goods
        <5>3. CASE session.before # Nothing
          BY <3>2, <5>1, <5>3, BaselineType DEF IInv
        <5> QED  BY <5>2, <5>3
      <4> QED  BY <2>2, <4>1, <4>2, <4>3 DEF PollCase, StartsOver, Judges
    <3>6. CASE WithdrawClears \/ StartUp
      BY <2>2, <3>6, ClearFacts DEF StartUp, RestartEngine
    <3>7. CASE PollReleasesVial \/ PollVialRefused
      BY <3>2, <3>7, ReleaseFacts
    <3>8. CASE GameRuns \/ GameRaces
      BY <3>2, <3>8, GameStep DEF Served, engine
    <3> QED  BY <3>3, <3>4, <3>5, <3>6, <3>7, <3>8, EngineStep
  <2> QED  BY <2>1, <2>2 DEF StackInv
<1> QED  BY <1>1, <1>2, <1>3

\* A verdict of completion is that of an applied grant.
LEMMA CompleteIsApplied ==
  ASSUME IInv, PublishInv, StackInv, lane \in Idx, lane # Nothing, Evidence("complete")
  PROVE  applied[lane] > 0
<1>1. applied[lane] \in Nat /\ stack \in 0 .. MaxStack /\ session.before \in Nothing .. MaxStack
  BY DEF IInv, NativeTypeOK, Sessions
<1>2. ASSUME session.before # Nothing, lane \notin Equipment, stack > session.before
      PROVE  applied[lane] > 0
  <2>1. ~(stack <= session.before)
    BY <1>1, <1>2, SlotLedgerAssumption DEF Nothing
  <2>2. applied[lane] # 0
    BY <1>2, <2>1 DEF StackInv
  <2> QED  BY <1>1, <2>2
<1>3. CASE ~session.active /\ Goods /\ Held(lane) = Wanted
  <2>1. Held(lane) = stack /\ lane \notin Equipment
    BY <1>3 DEF Goods, Held
  <2>2. Baseline \in 0 .. MaxStack /\ stack = Baseline + 1
    BY <1>3, <2>1, BaselineType DEF Wanted, IInv
  <2>3. session.before # Nothing /\ Baseline = session.before
    BY <1>1, <2>1, <2>2, BaselineType, SlotLedgerAssumption DEF IInv
  <2>4. stack > session.before
    BY <1>1, <2>2, <2>3, SlotLedgerAssumption
  <2> QED  BY <1>2, <2>1, <2>3, <2>4
<1>4. CASE session.active /\ cell.done /\ Executed /\ session.via \in {"insert", "instance"}
  BY <1>4 DEF PublishInv
<1>5. CASE session.active /\ session.via # "instance" /\ Actual >= Expected
  <2>1. session.before # Nothing /\ lane \notin Equipment
    BY <1>5 DEF PublishInv
  <2>2. Held(lane) = stack
    BY <2>1 DEF Held
  <2>3. session.before \in 0 .. MaxStack
    BY <1>1, <2>1, SlotLedgerAssumption DEF Nothing
  <2>4. Actual = stack
    BY <1>5, <2>2, <2>3, SlotLedgerAssumption DEF Actual, Expected, Nothing
  <2>5. stack > session.before
    BY <1>1, <1>5, <2>3, <2>4, SlotLedgerAssumption DEF Expected
  <2> QED  BY <1>2, <2>1, <2>5
<1> QED  BY <1>3, <1>4, <1>5 DEF Evidence

LEMMA DeliveredKept ==
  ASSUME IInv, SyncInv, PublishInv, StackInv, DeliveredInv, [Next]_vars, Sound'
  PROVE  DeliveredInv'
<1>0. /\ Synced /\ used'["pick"] = 0 /\ Good(mem)
      /\ finished \in [Idx -> Blocked \cup {"none", "complete"}]
  BY CountersGrow DEF Sound, Synced, Disturbances, IInv, NativeTypeOK
<1>1. \A i \in Idx : applied[i] \in Nat /\ applied'[i] \in Nat /\ applied'[i] >= applied[i]
  BY <1>0, GrowStep
<1>2. ASSUME NEW i \in Idx, finished'[i] = "complete"
      PROVE  applied[i] > 0
  <2>1. CASE finished[i] = "complete"
    BY <2>1 DEF DeliveredInv
  <2>2. CASE UNCHANGED <<engine, cell>>
    BY <1>2, <2>1, <2>2 DEF engine
  <2>3. CASE GrantSubmits \/ WithdrawClears
    BY <1>2, <2>1, <2>3, SubmitFacts, ClearFacts
  <2>4. CASE StartUp
    BY <1>2, <2>4 DEF StartUp, RestartEngine
  <2>5. CASE PollReleasesVial \/ PollVialRefused
    <3>1. finished' = [finished EXCEPT ![DeferredVial] = "none"] /\ DeferredVial \in Idx
      BY <2>5, ReleaseFacts
    <3>2. finished[i] = "complete"
      BY <1>0, <1>2, <3>1
    <3> QED  BY <2>1, <3>2
  <2>6. CASE GameRuns \/ GameRaces
    BY <1>2, <2>1, <2>6, GameStep DEF Served, engine
  <2>7. CASE GrantPolls
    <3>1. PollCase /\ lane \in Idx /\ lane # Nothing
      BY <2>7, PollsCases
    <3>2. CASE Waits \/ Publishes \/ StartsOver
      BY <1>2, <2>1, <3>2 DEF Waits, Publishes, StartsOver
    <3>3. ASSUME NEW v \in Verdicts \ {"compat"}, Judges(v)
          PROVE  applied[i] > 0
      <4>1. finished' = [finished EXCEPT ![lane] = v] /\ Evidence(v)
        BY <3>3 DEF Judges
      <4>2. CASE i = lane
        <5>1. v = "complete"
          BY <1>0, <1>2, <3>1, <4>1, <4>2
        <5> QED  BY <3>1, <4>1, <4>2, <5>1, CompleteIsApplied
      <4>3. CASE i # lane
        BY <1>0, <1>2, <2>1, <4>1, <4>3
      <4> QED  BY <4>2, <4>3
    <3> QED  BY <3>1, <3>2, <3>3 DEF PollCase
  <2> QED  BY <2>2, <2>3, <2>4, <2>5, <2>6, <2>7, EngineStep
<1>3. ASSUME NEW i \in Idx, mem'.acked[i] = "delivered"
      PROVE  applied[i] > 0
  BY <1>3, AckCases DEF DeliveredInv
<1>4. ASSUME mem'.pending.granted
      PROVE  applied'[mem'.pending.index] > 0
  <2>1. mem.pending.index = mem'.pending.index
        /\ (mem.pending.granted
            \/ (mem.pending.index \in Idx /\ finished[mem.pending.index] = "complete"))
    BY <1>0, <1>4, PlanCases DEF PlanCase
  <2>2. mem.pending.index \in Idx
    BY <1>0, <2>1, RealPlan
  <2>3. applied[mem.pending.index] > 0
    BY <2>1, <2>2 DEF DeliveredInv
  <2> QED  BY <1>1, <2>1, <2>2, <2>3
<1>5. \A i \in Idx : applied[i] > 0 => applied'[i] > 0
  BY <1>1
<1> QED  BY <1>2, <1>3, <1>4, <1>5 DEF DeliveredInv

SoundInv == Sound => StackInv /\ DeliveredInv

LEMMA SoundInductive == Spec => []SoundInv
<1>1. Init => SoundInv
  <2> SUFFICES ASSUME Init PROVE StackInv /\ DeliveredInv
    BY DEF SoundInv
  <2>1. /\ mem.pending.before = Nothing /\ mem.pending.granted = FALSE /\ lane = Nothing
        /\ \A i \in Idx : finished[i] = "none" /\ mem.acked[i] = "none"
    BY DEF Init, NativeInit, EmptySlot, NoPlan
  <2> QED  BY <2>1 DEF StackInv, DeliveredInv
<1>2. /\ IInv /\ PublishInv /\ SyncInv /\ SyncedRequest /\ SoundInv /\ [Next]_vars
      => SoundInv'
  <2> SUFFICES ASSUME IInv, PublishInv, SyncInv, SyncedRequest, SoundInv, [Next]_vars, Sound'
               PROVE  StackInv' /\ DeliveredInv'
    BY DEF SoundInv
  <2>1. Sound
    BY CountersGrow DEF Sound, Synced, Disturbances
  <2>2. RequestInv /\ StackInv /\ DeliveredInv
    BY <2>1 DEF Sound, SyncedRequest, SoundInv
  <2> QED  BY <2>2, StackKept, DeliveredKept
<1> QED  BY <1>1, <1>2, Inductive, PublishInductive, SyncInductive, RequestInductive, PTL
         DEF Spec

\* An index the ledger calls delivered was handed over by the game, for any
\* number of items, refused or stored inserts, loads, races, spent units and
\* operator retries, and either any number of crashes or any number of failed
\* saves: the baseline of the plan and the one of the session are never
\* exceeded by a stack the grant did not reach, so that "recovered_complete"
\* and the read-back of a delta tell the truth.
THEOREM DeliveryNothingLost == Spec => []NothingLost
<1>1. IInv /\ SoundInv => NothingLost
  <2>1. IInv => (used["unblock"] + used["pick"] = 0 => used["unblock"] = 0 /\ used["pick"] = 0)
    BY DEF IInv, NativeTypeOK, Disturbances
  <2> QED  BY <2>1 DEF SoundInv, Sound, Synced, DeliveredInv, NothingLost
<1> QED  BY <1>1, Inductive, SoundInductive, PTL

-----------------------------------------------------------------------------
(***************************************************************************)
(* The baseline on disk is that of the request.                            *)
(***************************************************************************)
\* In a live client, and with nothing looted, the stack has not grown past
\* the baseline of the plan before the result in the cell, or the verdict,
\* tells of the hand-over.
Level == Alone /\ used["pick"] = 0

Untold ==
  /\ mem.pending.before # Nothing /\ mem.pending.index \notin Equipment
  /\ ~(session.active /\ cell.done /\ Executed)
  /\ finished[mem.pending.index] = "none"

LevelInv == Untold => stack <= mem.pending.before

LEMMA LevelKept ==
  ASSUME IInv, OwnerInv, SyncInv, LiveInv, LevelInv, [Next]_vars, Level'
  PROVE  LevelInv'
<1> SUFFICES ASSUME Untold' PROVE stack' <= mem'.pending.before
  BY DEF LevelInv
<1>0. /\ Alone /\ Synced /\ used'["pick"] = 0 /\ ~GameRaces /\ ~StartUp
      /\ finished \in [Idx -> Blocked \cup {"none", "complete"}] /\ cell \in Cells
  BY AloneBefore DEF Level, Alone, Synced, StartUp, LiveInv, IInv, NativeTypeOK
<1>1. /\ mem'.pending.index \in Idx /\ mem'.pending.before \in Nothing .. MaxStack
      /\ stack \in Int /\ stack' \in Int
  BY <1>0, RealPlan, NextKeeps, GrowStep DEF Untold, IInv
<1>2. ASSUME Untold, stack' <= stack, mem'.pending.before = mem.pending.before
      PROVE  stack' <= mem'.pending.before
  BY <1>1, <1>2, SlotLedgerAssumption DEF LevelInv, Nothing
<1>3. CASE GameRuns
  <2>1. Served
    BY <1>3, GameStep
  <2>2. session.active /\ ~cell.done /\ UNCHANGED <<mem, session, finished>>
    BY <2>1 DEF Served, LiveInv, engine
  <2>3. Untold
    BY <2>2 DEF Untold
  <2>4. cell'.done
    BY <1>0, <2>1 DEF Served, Cells
  <2>5. ~HandOver \/ cell'.result = "empty"
    BY <2>2, <2>4 DEF Untold, Executed
  <2>6. stack' = stack
    BY <1>0, <1>3, <2>5 DEF GameRuns, GameServes, DeltaLands, DeltaDiscarded, InsertHeld,
       InsertStored, InsertRefused, Serve, Cells
  <2> QED  BY <1>1, <1>2, <2>2, <2>3, <2>6
<1>4. CASE mem'.pending.index = Cur /\ mem'.pending.before = Held(Cur) /\ UNCHANGED game
  BY <1>1, <1>4 DEF Untold, Held, game
<1>5. CASE /\ ~GameRuns
           /\ mem'.pending.index = mem.pending.index /\ mem'.pending.before = mem.pending.before
  <2>1. stack' <= stack
    BY <1>0, <1>5, GrowStep
  <2>2. ASSUME finished'[mem.pending.index] = finished[mem.pending.index],
               session.active /\ cell.done /\ Executed =>
                 session'.active /\ cell'.done /\ Executed'
        PROVE  Untold
    BY <1>5, <2>2 DEF Untold
  <2>3. ASSUME UNCHANGED <<engine, cell>> PROVE Untold
    BY <2>2, <2>3 DEF engine, Executed
  <2>4. ASSUME GrantSubmits PROVE Untold
    BY <2>2, <2>4, SubmitFacts
  <2>5. ASSUME WithdrawClears PROVE Untold
    <3>1. UNCHANGED finished /\ (session.active => ~cell.done)
      BY <2>5, ClearFacts DEF LiveInv
    <3> QED  BY <2>2, <3>1
  <2>6. ASSUME PollReleasesVial \/ PollVialRefused PROVE Untold
    <3>1. mem.pending = NoPlan
      BY <2>6 DEF PollReleasesVial, PollVialRefused, VialReady
    <3> QED  BY <1>5, <3>1 DEF Untold, NoPlan
  <2>7. ASSUME GrantPolls PROVE Untold
    <3>1. PollCase /\ mem.pending.index = lane /\ lane \in Idx
      BY <2>7, PollsCases
    <3>2. ASSUME Waits \/ Publishes \/ StartsOver PROVE Untold
      BY <2>2, <3>2 DEF Waits, Publishes, StartsOver, Executed
    <3>3. ASSUME NEW v \in Verdicts \ {"compat"}, Judges(v)
          PROVE  FALSE
      <4>1. finished'[lane] = v /\ v # "none"
        BY <1>0, <3>1, <3>3 DEF Judges, Verdicts, Blocked
      <4> QED  BY <1>5, <3>1, <4>1 DEF Untold
    <3> QED  BY <3>1, <3>2, <3>3 DEF PollCase
  <2>8. Untold
    BY <1>0, <1>5, <2>3, <2>4, <2>5, <2>6, <2>7, EngineStep
  <2> QED  BY <1>2, <1>5, <2>1, <2>8
<1> QED  BY <1>0, <1>3, <1>4, <1>5, PlanCases DEF PlanCase, Untold

LevelKeeps == Level => LevelInv

LEMMA LevelInductive == Spec => []LevelKeeps
<1>1. Init => LevelKeeps
  BY DEF Init, EmptySlot, NoPlan, LevelKeeps, LevelInv, Untold
<1>2. IInv /\ OwnerInv /\ SyncInv /\ AloneInv /\ LevelKeeps /\ [Next]_vars => LevelKeeps'
  <2> SUFFICES ASSUME IInv, OwnerInv, SyncInv, AloneInv, LevelKeeps, [Next]_vars, Level'
               PROVE  LevelInv'
    BY DEF LevelKeeps
  <2>1. Level
    BY CountersGrow DEF Level, Alone, Disturbances
  <2> QED  BY <2>1, LevelKept DEF LevelKeeps, Level, AloneInv
<1> QED  BY <1>1, <1>2, Inductive, OwnerInductive, SyncInductive, AloneInductive, PTL DEF Spec

\* Without a unit used, the stack does not shrink, and with a unit used and
\* nothing looted it does not grow before a hand-over: either way the stack,
\* the baseline of the plan and that of the session are in order, and equal
\* when the session finds the stack at its baseline and publishes.
Rising == used["spend"] = 0

Steady == used["savefail"] = 0 /\ (Rising \/ Level)

Unsent ==
  /\ lane # Nothing /\ lane \notin Equipment
  /\ ~session.active /\ ~session.replanned /\ session.retries = 0

RiseInv ==
  mem.pending.before # Nothing /\ mem.pending.index \notin Equipment
    => mem.pending.before <= stack

OrderInv ==
  Unsent =>
    /\ session.before # Nothing
    /\ Rising => session.before <= stack
    /\ Level  => stack <= session.before
    /\ mem.pending.before # Nothing =>
         /\ Rising => session.before <= mem.pending.before
         /\ Level  => mem.pending.before <= session.before

SentInv ==
  cell.request # "none" /\ FirstAttempt /\ lane \notin Equipment
    => mem.pending.before = session.before

LEMMA SteadyBefore ==
  ASSUME IInv, [Next]_vars
  PROVE  /\ Rising' => Rising
         /\ Level' => Level
         /\ Steady' => Steady
<1>1. \A e \in {"spend", "crash", "race", "pick", "savefail"} : used'[e] = 0 => used[e] = 0
  BY CountersGrow DEF Disturbances
<1> QED  BY <1>1 DEF Rising, Level, Alone, Steady

LEMMA RiseStep ==
  ASSUME IInv, [Next]_vars, Rising'
  PROVE  stack \in 0 .. MaxStack /\ stack' \in 0 .. MaxStack /\ stack <= stack'
<1>0. /\ stack \in 0 .. MaxStack /\ stack' \in 0 .. MaxStack /\ used["spend"] \in Nat
      /\ "spend" \in Disturbances
  BY NextKeeps DEF IInv, NativeTypeOK, Disturbances
<1>1. CASE stack' = stack \/ stack' = stack + 1
  BY <1>0, <1>1, SlotLedgerAssumption
<1>2. CASE GameRuns \/ GameRaces
  BY <1>1, <1>2 DEF GameRuns, GameRaces, GameServes, DeltaLands, DeltaDiscarded, InsertHeld,
     InsertStored, InsertRefused
<1>3. CASE PlayerActs
  <2>1. ~PlayerSpends
    BY <1>0, Counted DEF PlayerSpends, Rising, IInv
  <2> QED  BY <1>1, <1>3, <2>1 DEF PlayerActs, PlayerPicks
<1>4. CASE \/ PollStart \/ NothingToDeliver \/ ContextValid \/ ContextLost \/ HoldPlan
           \/ ResumePlan \/ UseRecordedBaseline \/ AwaitObservation \/ GrantLatched
           \/ GrantSubmits \/ GrantContinues \/ GrantPolls \/ WithdrawChecks \/ Crash
           \/ Receive \/ LeavePlay \/ Recovery \/ PollVialRefused \/ UNCHANGED vars
  BY <1>1, <1>4 DEF PollStart, NothingToDeliver, ContextValid, ContextLost, HoldPlan,
     ResumePlan, UseRecordedBaseline, AwaitObservation, GrantLatched, GrantSubmits,
     GrantContinues, GrantPolls, WithdrawChecks, Crash, Receive, LeavePlay, Recovery,
     ReturnToPlay, Hydrate, PollVialRefused, native, game, vars
<1>5. CASE \/ BeginPlan \/ RecordBaseline \/ GrantComplete \/ ParkTerminalGrant \/ EquipItem
           \/ AcknowledgeItem \/ WithdrawClears \/ StartUp \/ RequeueFixedParks
           \/ PollReleasesVial
  BY <1>1, <1>5 DEF BeginPlan, RecordBaseline, GrantComplete, ParkTerminalGrant, EquipItem,
     AcknowledgeItem, WithdrawClears, StartUp, RequeueFixedParks, PollReleasesVial, game
<1>6. CASE \E i \in Idx : RetryBlocked(i) \/ ConfirmBlocked(i)
  BY <1>1, <1>6 DEF RetryBlocked, ConfirmBlocked, game
<1> QED  BY <1>2, <1>3, <1>4, <1>5, <1>6 DEF Next, ClientStep

\* A baseline in memory is the one that was there, or has just been read.
LEMMA BaselineCases ==
  ASSUME IInv, SyncInv, Synced, [Next]_vars, mem'.pending.before # Nothing
  PROVE  /\ mem'.pending.index \in Idx /\ mem'.pending.before \in 0 .. MaxStack
         /\ \/ /\ mem'.pending.index = mem.pending.index
               /\ mem'.pending.before = mem.pending.before
            \/ /\ mem'.pending.index = mem.pending.index
               /\ mem'.pending.before = Held(mem'.pending.index)
               /\ UNCHANGED <<engine, cell, game>> /\ RecordBaseline
<1>1. mem'.pending.index \in Idx /\ mem'.pending.before \in 0 .. MaxStack
  BY NextKeeps, RealPlan, SlotLedgerAssumption DEF IInv, Nothing
<1> QED  BY <1>1, PlanCases, RecordFacts DEF PlanCase

LEMMA RiseKept ==
  ASSUME IInv, SyncInv, Synced, RiseInv, [Next]_vars, Rising'
  PROVE  RiseInv'
<1> SUFFICES ASSUME mem'.pending.before # Nothing, mem'.pending.index \notin Equipment
             PROVE  mem'.pending.before <= stack'
  BY DEF RiseInv
<1>1. stack \in 0 .. MaxStack /\ stack' \in 0 .. MaxStack /\ stack <= stack'
  BY RiseStep
<1>2. mem'.pending.before \in 0 .. MaxStack
  BY BaselineCases
<1>3. CASE /\ mem'.pending.index = mem.pending.index
           /\ mem'.pending.before = mem.pending.before
  BY <1>1, <1>2, <1>3, SlotLedgerAssumption DEF RiseInv
<1>4. CASE mem'.pending.before = Held(mem'.pending.index) /\ UNCHANGED game
  BY <1>1, <1>4, SlotLedgerAssumption DEF Held, game
<1> QED  BY <1>3, <1>4, BaselineCases

\* A grant that is still unsent was so before, or has just been submitted.
LEMMA UnsentCases ==
  ASSUME IInv, RequestInv, [Next]_vars, Unsent'
  PROVE  \/ GrantSubmits
         \/ /\ Unsent /\ lane' = lane /\ session'.before = session.before
            /\ ~GameRuns /\ ~GameRaces
<1>1. CASE GameRuns \/ GameRaces
  <2>1. cell.request # "none" /\ UNCHANGED engine
    BY <1>1, GameStep DEF Served
  <2> QED  BY <2>1 DEF RequestInv, Unsent, engine
<1>2. CASE UNCHANGED <<engine, cell>>
  BY <1>1, <1>2 DEF engine, Unsent
<1>3. CASE WithdrawClears \/ StartUp \/ PollReleasesVial \/ PollVialRefused
  BY <1>3, ClearFacts, ReleaseFacts DEF StartUp, RestartEngine, Unsent
<1>4. CASE GrantPolls
  <2>1. PollCase /\ ~GameRuns /\ ~GameRaces
    BY <1>1, <1>4, PollsCases, GameStep DEF Served
  <2>2. CASE Waits
    BY <2>1, <2>2 DEF Waits, Unsent
  <2>3. ~Publishes /\ ~StartsOver
    BY NextKeeps DEF Publishes, StartsOver, Unsent, IInv, NativeTypeOK, Sessions
  <2> QED  BY <2>1, <2>2, <2>3 DEF PollCase, Judges, Unsent
<1> QED  BY <1>1, <1>2, <1>3, <1>4, EngineStep

LEMMA OrderKept ==
  ASSUME IInv, SyncInv, Synced, PublishInv, RequestInv, OrderInv, [Next]_vars,
         Rising => RiseInv, Level => LevelInv
  PROVE  OrderInv'
<1> SUFFICES ASSUME Unsent'
             PROVE  /\ session'.before # Nothing
                    /\ Rising' => session'.before <= stack'
                    /\ Level'  => stack' <= session'.before
                    /\ mem'.pending.before # Nothing =>
                         /\ Rising' => session'.before <= mem'.pending.before
                         /\ Level'  => mem'.pending.before <= session'.before
  BY DEF OrderInv
<1>0. /\ Rising' => Rising
      /\ Level' => Level
      /\ stack \in 0 .. MaxStack /\ stack' \in 0 .. MaxStack
      /\ session.before \in Nothing .. MaxStack /\ session'.before \in Nothing .. MaxStack
      /\ mem.pending.before # Nothing => mem.pending.before \in 0 .. MaxStack
  BY SteadyBefore, NextKeeps, RealPlan, SlotLedgerAssumption
     DEF IInv, NativeTypeOK, Sessions, Nothing
<1>1. CASE GrantSubmits
  <2>1. /\ mem.pending.before # Nothing /\ session'.before = mem.pending.before
        /\ mem.pending.index = lane' /\ finished[mem.pending.index] = "none"
        /\ ~session.active /\ UNCHANGED <<mem, stack>>
    BY <1>1, SubmitFacts DEF PublishInv
  <2>2. mem.pending.index \notin Equipment
    BY <2>1 DEF Unsent
  <2>3. Rising => mem.pending.before <= stack
    BY <2>1, <2>2 DEF RiseInv
  <2>4. Level => stack <= mem.pending.before
    BY <2>1, <2>2 DEF LevelInv, Untold
  <2> QED  BY <1>0, <2>1, <2>3, <2>4, SlotLedgerAssumption DEF Nothing
<1>2. CASE /\ Unsent /\ lane' = lane /\ session'.before = session.before
           /\ ~GameRuns /\ ~GameRaces
  <2>1. /\ session.before \in 0 .. MaxStack
        /\ Rising => session.before <= stack
        /\ Level  => stack <= session.before
    BY <1>0, <1>2, SlotLedgerAssumption DEF OrderInv, Nothing
  <2>2. Rising' => session.before <= stack'
    BY <1>0, <2>1, RiseStep, SlotLedgerAssumption
  <2>3. Level' => stack' <= stack
    BY <1>2, GrowStep DEF Level
  <2>4. Level' => stack' <= session.before
    BY <1>0, <2>1, <2>3, SlotLedgerAssumption
  <2>5. ASSUME mem'.pending.before # Nothing
        PROVE  /\ Rising' => session.before <= mem'.pending.before
               /\ Level'  => mem'.pending.before <= session.before
    <3>1. CASE mem'.pending.before = mem.pending.before
      BY <1>0, <1>2, <2>5, <3>1 DEF OrderInv
    <3>2. CASE /\ mem'.pending.index = mem.pending.index
               /\ mem'.pending.before = Held(mem'.pending.index)
      <4>1. mem.pending.index = lane /\ lane \notin Equipment
        BY <1>2 DEF Unsent, IInv, LaneServesPlan
      <4>2. mem'.pending.before = stack
        BY <3>2, <4>1 DEF Held
      <4> QED  BY <1>0, <2>1, <4>2
    <3> QED  BY <2>5, <3>1, <3>2, BaselineCases
  <2> QED  BY <1>2, <2>1, <2>2, <2>4, <2>5, SlotLedgerAssumption DEF Nothing
<1> QED  BY <1>1, <1>2, UnsentCases

\* A request that the game may serve was there before, or is published now.
LEMMA SentCases ==
  ASSUME IInv, RequestInv, [Next]_vars, cell'.request # "none", FirstAttempt'
  PROVE  \/ GrantPolls /\ Publishes /\ FirstAttempt
         \/ /\ cell.request # "none" /\ FirstAttempt
            /\ lane' = lane /\ session'.before = session.before
<1>0. cell \in Cells
  BY DEF IInv, NativeTypeOK
<1>1. CASE GameRuns \/ GameRaces
  <2>1. cell'.request = "none"
    BY <1>0, <1>1, GameStep DEF Served, Cells
  <2> QED  BY <2>1
<1>2. CASE UNCHANGED <<engine, cell>>
  BY <1>2 DEF engine, FirstAttempt
<1>3. CASE WithdrawClears \/ StartUp \/ PollReleasesVial \/ PollVialRefused
  BY <1>3, ClearFacts, ReleaseFacts DEF StartUp, RestartEngine, FirstAttempt
<1>4. CASE GrantPolls
  <2>1. PollCase /\ lane # Nothing
    BY <1>4, PollsCases
  <2>2. CASE Waits
    BY <2>1, <2>2 DEF Waits, FirstAttempt
  <2>3. CASE Publishes
    BY <1>4, <2>1, <2>3 DEF Publishes, FirstAttempt
  <2>4. ~StartsOver
    BY <1>0 DEF StartsOver, Cells
  <2> QED  BY <2>1, <2>2, <2>3, <2>4 DEF PollCase, Judges, FirstAttempt
<1>5. CASE GrantSubmits
  <2>1. cell.request # "none" /\ pc = "grant" /\ ~session.active
    BY <1>5, SubmitFacts
  <2> QED  BY <2>1 DEF RequestInv, Away
<1> QED  BY <1>1, <1>2, <1>3, <1>4, <1>5, EngineStep

LEMMA SentKept ==
  ASSUME IInv, OwnerInv, PublishInv, SyncInv, RequestInv, OrderInv, SentInv, [Next]_vars,
         Steady, Rising => RiseInv, Level => LevelInv
  PROVE  SentInv'
<1> SUFFICES ASSUME cell'.request # "none", FirstAttempt', lane' \notin Equipment
             PROVE  mem'.pending.before = session'.before
  BY DEF SentInv
<1>0. Synced /\ RequestInv'
  BY RequestKept DEF Steady, Synced
<1>1. CASE GrantPolls /\ Publishes /\ FirstAttempt
  <2>1. /\ lane \notin Equipment /\ Goods /\ Unsent /\ ~session.active
        /\ session'.before = Baseline /\ Held(lane) = Baseline
    BY <1>1 DEF Publishes, Goods, FirstAttempt, Unsent, Publishable, Matches
  <2>2. /\ session.before # Nothing /\ Baseline = session.before /\ Held(lane) = stack
    BY <2>1, BaselineType DEF OrderInv, IInv, Held
  <2>3. mem.pending.before # Nothing /\ mem.pending.index = lane /\ UNCHANGED mem
        /\ finished[lane] = "none"
    BY <1>1, PollsCases DEF PublishInv
  <2>4. mem.pending.before \in 0 .. MaxStack /\ stack \in 0 .. MaxStack
    BY <2>3, RealPlan, SlotLedgerAssumption DEF IInv, NativeTypeOK, Nothing
  <2>5. CASE Rising
    <3>1. session.before <= mem.pending.before /\ mem.pending.before <= stack
      BY <2>1, <2>3, <2>5 DEF OrderInv, RiseInv
    <3> QED  BY <2>1, <2>2, <2>3, <2>4, <3>1, SlotLedgerAssumption
  <2>6. CASE Level
    <3>1. mem.pending.before <= session.before /\ stack <= mem.pending.before
      BY <2>1, <2>3, <2>6 DEF OrderInv, LevelInv, Untold
    <3> QED  BY <2>1, <2>2, <2>3, <2>4, <3>1, SlotLedgerAssumption
  <2> QED  BY <2>5, <2>6 DEF Steady
<1>2. CASE /\ cell.request # "none" /\ FirstAttempt
           /\ lane' = lane /\ session'.before = session.before
  <2>1. /\ mem.pending.before = session.before /\ mem.pending.before # Nothing
        /\ session.active /\ session.status \notin Waiting
    BY <1>2 DEF SentInv, RequestInv, PublishInv, FirstAttempt
  <2>2. ~RecordBaseline
    BY <2>1 DEF RecordBaseline, Binding, MayHaveApplied
  <2>3. mem'.pending.before # Nothing
    BY <1>0 DEF RequestInv
  <2> QED  BY <1>0, <1>2, <2>1, <2>2, <2>3, BaselineCases
<1> QED  BY <1>1, <1>2, SentCases

RiseKeeps == Synced /\ Rising => RiseInv

LEMMA RiseInductive == Spec => []RiseKeeps
<1>1. Init => RiseKeeps
  BY DEF Init, EmptySlot, NoPlan, RiseKeeps, RiseInv
<1>2. IInv /\ SyncInv /\ RiseKeeps /\ [Next]_vars => RiseKeeps'
  <2> SUFFICES ASSUME IInv, SyncInv, RiseKeeps, [Next]_vars, Synced', Rising'
               PROVE  RiseInv'
    BY DEF RiseKeeps
  <2>1. Synced /\ Rising
    BY CountersGrow, SteadyBefore DEF Synced, Disturbances
  <2> QED  BY <2>1, RiseKept DEF RiseKeeps
<1> QED  BY <1>1, <1>2, Inductive, SyncInductive, PTL DEF Spec

SteadyInv == Steady => OrderInv /\ SentInv

LEMMA SteadyInductive == Spec => []SteadyInv
<1>1. Init => SteadyInv
  BY DEF Init, NativeInit, SteadyInv, OrderInv, Unsent, SentInv, FirstAttempt
<1>2. /\ IInv /\ OwnerInv /\ PublishInv /\ SyncInv /\ SyncedRequest /\ RiseKeeps /\ LevelKeeps
      /\ SteadyInv /\ [Next]_vars
      => SteadyInv'
  <2> SUFFICES ASSUME IInv, OwnerInv, PublishInv, SyncInv, SyncedRequest, RiseKeeps,
                      LevelKeeps, SteadyInv, [Next]_vars, Steady'
               PROVE  OrderInv' /\ SentInv'
    BY DEF SteadyInv
  <2>1. Steady /\ Synced
    BY SteadyBefore DEF Steady, Synced
  <2>2. /\ OrderInv /\ SentInv /\ RequestInv
        /\ Rising => RiseInv
        /\ Level => LevelInv
    BY <2>1 DEF SteadyInv, SyncedRequest, RiseKeeps, LevelKeeps
  <2> QED  BY <2>1, <2>2, OrderKept, SentKept
<1> QED  BY <1>1, <1>2, Inductive, OwnerInductive, PublishInductive, SyncInductive,
            RequestInductive, RiseInductive, LevelInductive, PTL DEF Spec

\* A request the game may serve belongs to the plan on disk, and was
\* published against the baseline on disk, for any number of items, loads,
\* refused inserts and operator retries, as long as no save fails and either
\* the player uses no unit, through any number of crashes and races, or the
\* client lives and nothing is looted.
THEOREM DeliveryBaselineDurable == Spec => []BaselineDurable
<1>1. IInv /\ SyncInv /\ SyncedRequest /\ SteadyInv => BaselineDurable
  <2> SUFFICES ASSUME IInv, SyncInv, SyncedRequest, SteadyInv,
                      cell.request # "none", used["savefail"] = 0,
                      used["spend"] = 0 \/ used["crash"] + used["race"] + used["pick"] = 0
               PROVE  /\ disk.pending.index = cell.owner
                      /\ disk.pending.before # Nothing
                      /\ (FirstAttempt /\ cell.owner \notin Equipment)
                           => disk.pending.before = session.before
    BY DEF BaselineDurable
  <2>1. used["crash"] \in Nat /\ used["race"] \in Nat /\ used["pick"] \in Nat
    BY DEF IInv, NativeTypeOK, Disturbances
  <2>2. Steady /\ Synced
    BY <2>1 DEF Steady, Synced, Rising, Level, Alone
  <2>3. /\ mem.pending = disk.pending /\ mem.pending.index = cell.owner
        /\ mem.pending.before # Nothing /\ (lane # Nothing => lane = cell.owner)
    BY <2>2 DEF SyncInv, SyncedRequest, RequestInv
  <2> QED  BY <2>2, <2>3 DEF SteadyInv, SentInv, FirstAttempt
<1> QED  BY <1>1, Inductive, SyncInductive, RequestInductive, SteadyInductive, PTL

-----------------------------------------------------------------------------
(***************************************************************************)
(* More about the session and the request: the tag a waiting session has,  *)
(* and what an insert means while the cap of the stack is unknown.         *)
(***************************************************************************)
TagInv ==
  /\ lane # Nothing => session.tag = lane
  /\ session.status \in Waiting => lane # Nothing
  /\ ~CapKnown => ~session.store
  /\ used["move"] = 0 => hydrated

\* A poll of the session leaves its tag alone, and sets the storage mark only
\* of a stack that its cap overflows.
LEMMA PollFields ==
  ASSUME NativeTypeOK, PollPending \/ PollActive
  PROVE  /\ session'.tag = session.tag
         /\ session'.store => session.store \/ CapKnown
<1>0. session \in Sessions
  BY DEF NativeTypeOK
<1>1. ASSUME NEW st, NEW v, Settle(st, v)
      PROVE  session'.tag = session.tag /\ session'.store = session.store
  BY <1>0, <1>1 DEF Settle, Sessions
<1>2. CASE AwaitInventory \/ AwaitAbsent
  BY <1>0, <1>2 DEF AwaitInventory, AwaitAbsent, Proceed, Sessions
<1>3. CASE AwaitLane
  <2> DEFINE o == Overflows
             a == IF Absent THEN MinAbsentPolls ELSE 0
  <2>1. session' = [session EXCEPT !.status = "busy", !.store = o, !.absent = a]
    BY <1>3 DEF AwaitLane, Proceed
  <2>2. o => session.store \/ CapKnown
    BY DEF Overflows
  <2> HIDE DEF o, a
  <2>3. session'.tag = session.tag /\ session'.store = o
    BY <1>0, <2>1 DEF Sessions
  <2> QED  BY <2>2, <2>3
<1>4. CASE QueueNative
  <2> DEFINE via == IF ~Goods THEN "instance"
                    ELSE IF Absent \/ Overflows THEN "insert" ELSE "delta"
             b   == IF Goods THEN Baseline ELSE 0
             o   == Overflows
             a   == IF Absent THEN MinAbsentPolls ELSE 0
  <2>1. session' = [session EXCEPT !.status = "executing", !.active = TRUE,
                      !.before = b, !.via = via, !.store = o, !.verify = 0, !.absent = a]
    BY <1>4 DEF QueueNative, Proceed
  <2>2. o => session.store \/ CapKnown
    BY DEF Overflows
  <2> HIDE DEF via, b, o, a
  <2>3. session'.tag = session.tag /\ session'.store = o
    BY <1>0, <2>1 DEF Sessions
  <2> QED  BY <2>2, <2>3
<1>5. CASE Recover \/ Mismatch \/ RefuseVial \/ VerifyGoods \/ ExhaustStorage
           \/ VerifySurplus \/ VerifyFails
  BY <1>1, <1>5 DEF Recover, Mismatch, RefuseVial, VerifyGoods, ExhaustStorage,
     VerifySurplus, VerifyFails
<1>6. CASE AwaitDone \/ Replan \/ RetryStorage \/ VerifyAgain
  BY <1>0, <1>6 DEF AwaitDone, Replan, RetryStorage, VerifyAgain, Proceed, Sessions
<1>7. ASSUME NEW record, VerifyInstance(record)
      PROVE  session'.tag = session.tag /\ session'.store = session.store
  <2>1. \/ \E st, v : Settle(st, v)
        \/ Proceed([session EXCEPT !.status = "verify_pending", !.verify = @ + 1])
    BY <1>7 DEF VerifyInstance
  <2> QED  BY <1>0, <1>1, <2>1 DEF Proceed, Sessions
<1> QED  BY <1>2, <1>3, <1>4, <1>5, <1>6, <1>7 DEF PollPending, PollActive

\* Only a load can leave the inventory unreadable.
LEMMA HydrationStep ==
  ASSUME IInv, [Next]_vars
  PROVE  hydrated' = hydrated \/ hydrated' = TRUE \/ used'["move"] # 0
<1>1. ASSUME LeavePlay PROVE used'["move"] # 0
  <2>1. Happens("move") /\ "move" \in Disturbances /\ used["move"] \in Nat
    BY <1>1 DEF LeavePlay, IInv, NativeTypeOK, Disturbances
  <2> QED  BY <2>1, Counted DEF IInv
<1>2. CASE Hydrate
  BY <1>2 DEF Hydrate
<1>3. CASE PollStart \/ NothingToDeliver \/ ContextValid \/ ContextLost \/ HoldPlan
           \/ ResumePlan \/ UseRecordedBaseline \/ AwaitObservation \/ GrantLatched
           \/ GrantSubmits \/ GrantContinues \/ GrantPolls \/ WithdrawChecks \/ Crash
           \/ Receive \/ ReturnToPlay \/ PollVialRefused \/ PollReleasesVial
  BY <1>3 DEF PollStart, NothingToDeliver, ContextValid, ContextLost, HoldPlan,
     ResumePlan, UseRecordedBaseline, AwaitObservation, GrantLatched, GrantSubmits,
     GrantContinues, GrantPolls, WithdrawChecks, Crash, Receive, ReturnToPlay,
     PollVialRefused, PollReleasesVial, native
<1>4. CASE BeginPlan \/ RecordBaseline \/ GrantComplete \/ ParkTerminalGrant \/ EquipItem
           \/ AcknowledgeItem \/ WithdrawClears \/ StartUp \/ RequeueFixedParks
  BY <1>4 DEF BeginPlan, RecordBaseline, GrantComplete, ParkTerminalGrant, EquipItem,
     AcknowledgeItem, WithdrawClears, StartUp, RequeueFixedParks
<1>5. CASE \E i \in Idx : RetryBlocked(i) \/ ConfirmBlocked(i)
  BY <1>5 DEF RetryBlocked, ConfirmBlocked
<1>6. CASE GameRuns \/ GameRaces \/ PlayerActs
  BY <1>6 DEF GameRuns, GameServes, GameRaces, PlayerActs, PlayerSpends, PlayerPicks
<1>7. CASE UNCHANGED vars
  BY <1>7 DEF vars, native
<1> QED  BY <1>1, <1>2, <1>3, <1>4, <1>5, <1>6, <1>7 DEF Next, ClientStep, Recovery

LEMMA TagKept ==
  ASSUME IInv, TagInv, [Next]_vars
  PROVE  TagInv'
<1>1. used'["move"] = 0 => hydrated'
  <2>1. used'["move"] = 0 => used["move"] = 0
    BY CountersGrow DEF Disturbances
  <2> QED  BY <2>1, HydrationStep DEF TagInv
<1>2. CASE UNCHANGED <<lane, session>>
  BY <1>1, <1>2 DEF TagInv
<1>3. CASE UNCHANGED <<engine, cell>>
  BY <1>2, <1>3 DEF engine
<1>4. CASE GrantSubmits
  <2>1. Submit(Cur, mem.pending.before)
    BY <1>4 DEF GrantSubmits
  <2>2. lane' = Cur /\ session'.tag = Cur /\ ~session'.store /\ lane' # Nothing
    <3>1. Cur \in Idx
      BY <1>4, SubmitFacts
    <3> QED  BY <2>1, <3>1, SlotLedgerAssumption DEF Submit, NewSession, Idx, Nothing
  <2> QED  BY <1>1, <2>2 DEF TagInv
<1>5. CASE WithdrawClears
  <2>1. /\ lane' = Nothing /\ session'.status = "withdrawn" /\ session'.store = session.store
    BY <1>5 DEF WithdrawClears, ClearRequest, IInv, NativeTypeOK, Sessions
  <2> QED  BY <1>1, <2>1 DEF TagInv, Waiting
<1>6. CASE StartUp
  BY <1>1, <1>6 DEF StartUp, RestartEngine, NewSession, TagInv, Waiting
<1>7. CASE PollReleasesVial \/ PollVialRefused
  BY <1>2, <1>7, ReleaseFacts
<1>8. CASE GameRuns \/ GameRaces
  BY <1>2, <1>8, GameStep DEF Served, engine
<1>9. CASE GrantPolls
  <2>1. /\ PollPending \/ PollActive
        /\ lane \in Idx /\ lane # Nothing
    BY <1>9, PollsCases DEF GrantPolls
  <2>2. session'.tag = session.tag /\ (session'.store => session.store \/ CapKnown)
    BY <2>1, PollFields DEF IInv
  <2>3. \/ session'.status \in Terminal /\ lane' = Nothing
        \/ lane' = lane
    BY <2>1, PollResult DEF IInv
  <2> QED  BY <1>1, <2>1, <2>2, <2>3 DEF TagInv, Terminal, Waiting
<1> QED  BY <1>3, <1>4, <1>5, <1>6, <1>7, <1>8, <1>9, EngineStep

LEMMA TagInductive == Spec => []TagInv
<1>1. Init => TagInv
  BY DEF Init, NativeInit, NewSession, TagInv, Waiting
<1>2. IInv /\ TagInv /\ [Next]_vars => TagInv'
  BY TagKept
<1> QED  BY <1>1, <1>2, Inductive, PTL DEF Spec

-----------------------------------------------------------------------------
(***************************************************************************)
(* What a restart finds when bb-blocked may have run: an entry of the row  *)
(* on disk is the one in memory, or was confirmed as delivered.            *)
(***************************************************************************)
AwaitsVial(s) == \A i \in s.deferred : s.acked[i] \in {"vial", "delivered"}

ShelfInv ==
  /\ AwaitsVial(mem) /\ AwaitsVial(disk)
  /\ used["savefail"] = 0 => \A i \in Idx : disk.acked[i] \in {mem.acked[i], "delivered"}

LEMMA AwaitsVialKept ==
  ASSUME NEW s \in Slots, NEW t \in Slots, Tidy(s), AwaitsVial(s), Moved(s, t)
  PROVE  AwaitsVial(t)
<1>1. CASE Edited(s, t)
  BY <1>1 DEF Edited, AwaitsVial
<1>2. CASE Settled(s, t) /\ NextIndex(s) \in Idx
  <2> DEFINE i == NextIndex(s)
  <2>1. PICK a \in Acks \ {"none"} :
          /\ t.acked = [s.acked EXCEPT ![i] = a]
          /\ t.deferred \subseteq s.deferred \cup {i}
          /\ i \in t.deferred => a = "vial" \/ i \in s.deferred
    BY <1>2 DEF Settled
  <2>2. s.acked \in [Idx -> Acks] /\ i \in Idx /\ s.deferred \subseteq Idx
    BY <1>2 DEF Slots
  <2>3. i \notin s.deferred
    BY <1>2, NextIsOpen DEF AwaitsVial
  <2> HIDE DEF i
  <2> QED  BY <2>1, <2>2, <2>3 DEF AwaitsVial
<1>3. CASE Requeued(s, t)
  <2>1. PICK S \in SUBSET Idx :
          /\ t.acked = [i \in Idx |-> IF i \in S THEN "none" ELSE s.acked[i]]
          /\ t.deferred \subseteq s.deferred
          /\ \A i \in S \cap t.deferred : s.acked[i] = "fixed"
    BY <1>3 DEF Requeued
  <2>2. s.deferred \subseteq Idx
    BY DEF Slots
  <2> QED  BY <2>1, <2>2 DEF AwaitsVial
<1> QED  BY <1>1, <1>2, <1>3 DEF Moved

LEMMA UnblockAwaits ==
  ASSUME NEW s \in Slots, NEW k \in Idx, AwaitsVial(s)
  PROVE  /\ AwaitsVial(Unblock(s, k))
         /\ \A i \in Idx : Unblock(s, k).acked[i] \in {s.acked[i], "delivered"}
<1> DEFINE ack == [s.acked EXCEPT ![k] = "delivered"]
           t   == Unblock(s, k)
<1>1. s.acked \in [Idx -> Acks] /\ s.deferred \subseteq Idx
  BY DEF Slots
<1>2. t = [s EXCEPT !.acked = ack]
  BY DEF Unblock
<1>3. \A i \in Idx : ack[i] \in {s.acked[i], "delivered"}
  BY <1>1
<1> HIDE DEF t, ack
<1>4. t.acked = ack /\ t.deferred = s.deferred
  BY <1>2 DEF Slots
<1>5. AwaitsVial(t) /\ \A i \in Idx : t.acked[i] \in {s.acked[i], "delivered"}
  BY <1>1, <1>3, <1>4 DEF AwaitsVial
<1> QED  BY <1>5 DEF t

LEMMA ShelfKept ==
  ASSUME IInv, RowsInv, ShelfInv, [Next]_vars
  PROVE  ShelfInv'
<1>1. /\ RowStep /\ mem \in Slots /\ disk \in Slots /\ mem' \in Slots
      /\ Tidy(mem)
  BY StepMovesRows, NextKeeps DEF IInv, Good, RowsInv
<1>2. AwaitsVial(mem') /\ AwaitsVial(disk')
  <2>1. CASE Moved(mem, mem') /\ disk' \in {disk, mem'}
    BY <1>1, <2>1, AwaitsVialKept DEF ShelfInv
  <2>2. CASE mem' = disk /\ UNCHANGED disk
    BY <2>2 DEF ShelfInv
  <2>3. CASE mem' = mem /\ \E i \in Idx : disk' = Unblock(disk, i)
    BY <1>1, <2>3, UnblockAwaits DEF ShelfInv
  <2> QED  BY <1>1, <2>1, <2>2, <2>3 DEF RowStep
<1>3. ASSUME used'["savefail"] = 0
      PROVE  \A i \in Idx : disk'.acked[i] \in {mem'.acked[i], "delivered"}
  <2>1. \A i \in Idx : disk.acked[i] \in {mem.acked[i], "delivered"}
    BY <1>3, CountersGrow DEF ShelfInv, Disturbances
  <2>2. CASE disk' = mem' \/ UNCHANGED <<mem, disk>>
    BY <2>1, <2>2
  <2>3. ASSUME NEW k \in Idx, ConfirmBlocked(k)
        PROVE  \A i \in Idx : disk'.acked[i] \in {mem'.acked[i], "delivered"}
    <3>1. disk' = Unblock(disk, k) /\ mem' = mem
      BY <2>3 DEF ConfirmBlocked
    <3> QED  BY <1>1, <2>1, <3>1, UnblockAwaits DEF ShelfInv
  <2> QED  BY <1>3, <2>2, <2>3, SaveStep
<1> QED  BY <1>2, <1>3 DEF ShelfInv

LEMMA ShelfInductive == Spec => []ShelfInv
<1>1. Init => ShelfInv
  BY DEF Init, EmptySlot, ShelfInv, AwaitsVial
<1>2. IInv /\ RowsInv /\ ShelfInv /\ [Next]_vars => ShelfInv'
  BY ShelfKept
<1> QED  BY <1>1, <1>2, Inductive, RowsInductive, PTL DEF Spec

\* requeue_fixed_cause_parks leaves what was, or may have been, applied.
LEMMA ParksKeepTold ==
  ASSUME IInv, RequeueFixedParks
  PROVE  \A i \in Idx : mem.acked[i] \in {"delivered", "other"} => mem'.acked[i] = mem.acked[i]
<1> DEFINE parked == {i \in Idx : mem.acked[i] = "fixed"}
           ack    == [i \in Idx |-> IF i \in parked THEN "none" ELSE mem.acked[i]]
<1>1. mem' = mem \/ mem' = RequeueAll(mem, "fixed")
  BY DEF RequeueFixedParks, Commit, Goto
<1>2. CASE mem' = mem
  BY <1>2
<1>3. CASE mem' = RequeueAll(mem, "fixed") /\ mem.pending = NoPlan
  <2>1. mem' = [mem EXCEPT !.acked = ack, !.redeliver = mem.redeliver \cup parked]
    BY <1>3 DEF RequeueAll
  <2>2. \A i \in Idx : mem.acked[i] \in {"delivered", "other"} => ack[i] = mem.acked[i]
    OBVIOUS
  <2> HIDE DEF ack, parked
  <2>3. mem'.acked = ack
    BY <2>1 DEF IInv, Good, Slots
  <2> QED  BY <2>2, <2>3
<1> QED  BY <1>1, <1>2, <1>3 DEF RequeueAll

\* A request the game may serve has no verdict yet, whichever process sent it.
FreshInv == cell.request # "none" => finished[cell.owner] = "none"

LEMMA FreshKept ==
  ASSUME IInv, RequestInv, FreshInv, [Next]_vars
  PROVE  FreshInv'
<1>0. cell \in Cells /\ finished \in [Idx -> Blocked \cup {"none", "complete"}]
  BY DEF IInv, NativeTypeOK
<1>1. CASE UNCHANGED <<engine, cell>>
  BY <1>1 DEF FreshInv, engine
<1>2. CASE GrantSubmits
  BY <1>2, SubmitFacts DEF FreshInv
<1>3. CASE WithdrawClears
  BY <1>3, ClearFacts DEF FreshInv
<1>4. CASE StartUp
  <2>1. finished' = [i \in Idx |-> "none"] /\ cell' = cell
    BY <1>4 DEF StartUp, RestartEngine
  <2>2. cell.request # "none" => cell.owner \in Idx
    BY RealPlan DEF IInv, RequestInv
  <2> QED  BY <2>1, <2>2 DEF FreshInv
<1>5. CASE PollReleasesVial \/ PollVialRefused
  <2>1. finished' = [finished EXCEPT ![DeferredVial] = "none"] /\ cell' = cell
    BY <1>5, ReleaseFacts
  <2>2. cell.request # "none" => cell.owner \in Idx
    BY RealPlan DEF IInv, RequestInv
  <2> QED  BY <1>0, <2>1, <2>2 DEF FreshInv
<1>6. CASE GameRuns \/ GameRaces
  BY <1>0, <1>6, GameStep DEF Served, Cells, FreshInv
<1>7. CASE GrantPolls
  <2>1. PollCase /\ lane \in Idx /\ finished[lane] = "none" /\ pc = "poll"
    BY <1>7, PollsCases
  <2>2. CASE Waits
    BY <2>2 DEF Waits, FreshInv
  <2>3. CASE Publishes
    BY <2>1, <2>3 DEF Publishes, FreshInv
  <2>4. CASE StartsOver
    BY <1>0, <2>4 DEF StartsOver, Cells, FreshInv
  <2>5. ASSUME NEW v \in Verdicts \ {"compat"}, Judges(v)
        PROVE  FreshInv'
    <3>1. (session.active => cell.done) /\ cell' = cell
      BY <2>5 DEF Judges, Evidence, Verdicts, Blocked
    <3>2. cell'.request = "none"
      BY <2>1, <3>1 DEF RequestInv, Away
    <3> QED  BY <3>2 DEF FreshInv
  <2> QED  BY <2>1, <2>2, <2>3, <2>4, <2>5 DEF PollCase
<1> QED  BY <1>1, <1>2, <1>3, <1>4, <1>5, <1>6, <1>7, EngineStep

SyncedFresh == Synced => FreshInv

LEMMA FreshInductive == Spec => []SyncedFresh
<1>1. Init => SyncedFresh
  BY DEF Init, NativeInit, SyncedFresh, FreshInv
<1>2. IInv /\ SyncedRequest /\ SyncedFresh /\ [Next]_vars => SyncedFresh'
  <2> SUFFICES ASSUME IInv, SyncedRequest, SyncedFresh, [Next]_vars, Synced'
               PROVE  FreshInv'
    BY DEF SyncedFresh
  <2>1. Synced
    BY CountersGrow DEF Synced, Disturbances
  <2> QED  BY <2>1, FreshKept DEF SyncedFresh, SyncedRequest
<1> QED  BY <1>1, <1>2, Inductive, RequestInductive, PTL DEF Spec

-----------------------------------------------------------------------------
(***************************************************************************)
(* A client that dies beside a stack that is Kept.                         *)
(***************************************************************************)
LEMMA KeptFacts ==
  ASSUME IInv, Kept
  PROVE  /\ used["savefail"] = 0 /\ used["spend"] = 0 /\ used["pick"] = 0
         /\ used["storage"] = 0 /\ used["race"] = 0
         /\ Synced /\ Rising /\ used["crash"] \in Nat /\ used["move"] \in Nat
<1>1. /\ used["savefail"] \in Nat /\ used["spend"] \in Nat /\ used["pick"] \in Nat
      /\ used["storage"] \in Nat /\ used["race"] \in Nat
      /\ used["crash"] \in Nat /\ used["move"] \in Nat
  BY DEF IInv, NativeTypeOK, Disturbances
<1>2. used["savefail"] + used["spend"] + used["pick"] + used["storage"] + used["race"] = 0
  BY DEF Kept
<1> DEFINE a == used["savefail"]
           b == used["spend"]
           c == used["pick"]
           d == used["storage"]
           e == used["race"]
<1>3. a = 0 /\ b = 0 /\ c = 0 /\ d = 0 /\ e = 0
  <2>1. /\ a \in Nat /\ b \in Nat /\ c \in Nat /\ d \in Nat /\ e \in Nat
        /\ a + b + c + d + e = 0
    BY <1>1, <1>2
  <2> HIDE DEF a, b, c, d, e
  <2> QED  BY <2>1
<1> QED  BY <1>1, <1>3 DEF Synced, Rising

\* What is Kept was Kept before: the evidence is not made up afterwards.
LEMMA KeptBefore ==
  ASSUME IInv, [Next]_vars, Kept'
  PROVE  /\ Kept /\ ~PlayerActs /\ ~GameRaces
         /\ used["crash"] <= used'["crash"] /\ used["move"] <= used'["move"]
         /\ used'["crash"] \in Nat /\ used'["move"] \in Nat
         /\ used'["storage"] = 0 /\ used'["savefail"] = 0 /\ used'["pick"] = 0 /\ Rising'
<1>0. IInv'
  BY NextKeeps
<1>1. \A e \in {"savefail", "spend", "pick", "storage", "race", "crash", "move"} :
        used[e] \in Nat /\ used'[e] \in Nat /\ used[e] <= used'[e]
  BY <1>0, CountersGrow DEF IInv, NativeTypeOK, Disturbances
<1>2. /\ used'["savefail"] = 0 /\ used'["spend"] = 0 /\ used'["pick"] = 0
      /\ used'["storage"] = 0 /\ used'["race"] = 0
  <2>1. used'["savefail"] + used'["spend"] + used'["pick"] + used'["storage"] + used'["race"] = 0
    BY DEF Kept
  <2> DEFINE a == used'["savefail"]
             b == used'["spend"]
             c == used'["pick"]
             d == used'["storage"]
             e == used'["race"]
  <2>2. a = 0 /\ b = 0 /\ c = 0 /\ d = 0 /\ e = 0
    <3>1. /\ a \in Nat /\ b \in Nat /\ c \in Nat /\ d \in Nat /\ e \in Nat
          /\ a + b + c + d + e = 0
      BY <1>1, <2>1
    <3> HIDE DEF a, b, c, d, e
    <3> QED  BY <3>1
  <2> QED  BY <2>2
<1>3. CapKnown => stack < MaxStack
  <2>1. stack \in 0 .. MaxStack /\ stack' \in 0 .. MaxStack /\ stack <= stack'
    BY <1>2, RiseStep DEF Rising
  <2> QED  BY <2>1, SlotLedgerAssumption DEF Kept
<1>4. used["crash"] <= 1 \/ used["move"] = 0
  <2>1. used'["crash"] <= 1 \/ used'["move"] = 0
    BY DEF Kept
  <2> QED  BY <1>1, <2>1
<1>5. Kept
  BY <1>1, <1>2, <1>3, <1>4 DEF Kept
<1>6. ~PlayerActs
  <2>1. "spend" \in Disturbances /\ "pick" \in Disturbances
    BY DEF Disturbances
  <2> QED  BY <1>1, <1>2, <2>1, Counted DEF PlayerActs, PlayerSpends, PlayerPicks, IInv
<1>7. ~GameRaces
  BY <1>2, GameStep
<1> QED  BY <1>1, <1>2, <1>5, <1>6, <1>7 DEF Rising

\* The stack of Kept goods grows by a hand-over only, which uses the request up.
LEMMA KeptStack ==
  ASSUME IInv, [Next]_vars, Kept'
  PROVE  stack' = stack \/ (GameRuns /\ Served)
<1>1. ~GameRaces /\ Rising' /\ used'["pick"] = 0
  BY KeptBefore
<1>2. stack \in 0 .. MaxStack /\ stack' \in 0 .. MaxStack /\ stack <= stack'
  BY <1>1, RiseStep
<1>3. stack' <= stack \/ (GameRuns /\ Served)
  BY <1>1, GrowStep
<1> QED  BY <1>2, <1>3, SlotLedgerAssumption

\* An insert of goods whose cap is unknown is one into an empty pouch, and
\* nothing serves a request that is being withdrawn.
InsertInv ==
  /\ cell.request = "insert" /\ cell.owner \notin Equipment /\ ~CapKnown => stack = 0
  /\ pc = "clear" => cell.request # "none"

LEMMA InsertKept ==
  ASSUME IInv, TagInv, InsertInv, [Next]_vars, Kept'
  PROVE  InsertInv'
<1>0. cell \in Cells /\ ~GameRaces
  BY KeptBefore DEF IInv, NativeTypeOK
<1>1. ASSUME cell'.request = "insert", cell'.owner \notin Equipment, ~CapKnown
      PROVE  stack' = 0
  <2>1. stack' = stack
    <3>1. ~Served
      BY <1>0, <1>1 DEF Served, Cells
    <3> QED  BY <3>1, KeptStack
  <2>2. CASE cell' = cell
    BY <1>1, <2>1, <2>2 DEF InsertInv
  <2>3. CASE GrantPolls
    <3>1. PollCase
      BY <2>3, PollsCases
    <3>2. CASE Publishes
      <4>1. /\ session'.via = "insert" /\ lane \notin Equipment
            /\ Absent \/ Overflows
        BY <1>1, <3>2 DEF Publishes, Goods
      <4>2. ~Overflows
        BY <1>1 DEF TagInv, Overflows
      <4> QED  BY <2>1, <4>1, <4>2 DEF Absent, Held
    <3>3. ~StartsOver
      BY <1>0, <1>1 DEF StartsOver, Cells
    <3> QED  BY <2>2, <3>1, <3>2, <3>3 DEF PollCase, Waits, Judges
  <2>4. CASE WithdrawClears
    BY <1>1, <2>4, ClearFacts
  <2>5. CASE GrantSubmits \/ StartUp \/ PollReleasesVial \/ PollVialRefused
    BY <2>2, <2>5, SubmitFacts, ReleaseFacts DEF StartUp
  <2>6. ~GameRuns
    BY <1>0, <1>1, GameStep DEF Served, Cells
  <2> QED  BY <1>0, <2>2, <2>3, <2>4, <2>5, <2>6, EngineStep
<1>2. ASSUME pc' = "clear"
      PROVE  cell'.request # "none"
  <2>1. CASE pc = "clear"
    <3>1. cell' = cell
      <4>1. ~WithdrawClears
        BY <1>2, ForgetFacts
      <4> QED  BY <1>0, <2>1, <4>1, EngineStep, SubmitFacts, PollsCases, GameStep, ReleaseFacts
                DEF StartUp
    <3> QED  BY <2>1, <3>1 DEF InsertInv
  <2> QED  BY <1>2, <2>1, StageStep DEF Withdrawable
<1> QED  BY <1>1, <1>2 DEF InsertInv

KeptInsert == Kept => InsertInv

LEMMA InsertInductive == Spec => []KeptInsert
<1>1. Init => KeptInsert
  BY DEF Init, NativeInit, KeptInsert, InsertInv
<1>2. IInv /\ TagInv /\ KeptInsert /\ [Next]_vars => KeptInsert'
  BY KeptBefore, InsertKept DEF KeptInsert
<1> QED  BY <1>1, <1>2, Inductive, TagInductive, PTL DEF Spec

\* What the game makes of a request for goods: nothing, or one unit more in
\* the stack, with a result in the cell.
LEMMA GoodsServed ==
  ASSUME IInv, InsertInv, Kept, Kept', [Next]_vars, GameRuns, cell.owner \notin Equipment
  PROVE  /\ Served /\ cell'.request = "none" /\ cell'.done
         /\ \/ UNCHANGED <<stack, applied>>
            \/ /\ applied' = [applied EXCEPT ![cell.owner] = @ + 1]
               /\ stack' = stack + 1 /\ Executed'
<1>1. Served /\ cell'.request = "none" /\ cell'.done
  BY GameStep DEF Served, IInv, NativeTypeOK, Cells
<1>2. cell \in Cells /\ stack \in 0 .. MaxStack
  BY DEF IInv, NativeTypeOK
<1>3. ~(InsertStored /\ (FullStack \/ Happens("storage")))
  <2> SUFFICES ASSUME InsertStored, FullStack \/ Happens("storage") PROVE FALSE
    OBVIOUS
  <2>1. cell.request = "insert" /\ stack' = stack
    BY DEF InsertStored
  <2>2. CASE FullStack
    <3>1. CapKnown
      BY <2>1, <2>2, NativeGrantAssumption, SlotLedgerAssumption DEF InsertInv, FullStack
    <3> QED  BY <2>1, <2>2, <3>1, SlotLedgerAssumption DEF Kept, FullStack
  <2>3. CASE Happens("storage")
    <3>1. "storage" \in Disturbances /\ used["storage"] \in Nat
      BY DEF IInv, NativeTypeOK, Disturbances
    <3> QED  BY <2>3, <3>1, Counted, KeptBefore DEF IInv
  <2> QED  BY <2>2, <2>3
<1>4. CASE DeltaDiscarded \/ InsertRefused
  BY <1>1, <1>4 DEF DeltaDiscarded, InsertRefused
<1>5. CASE DeltaLands \/ InsertHeld
  <2>1. applied' = [applied EXCEPT ![cell.owner] = @ + 1] /\ stack' = stack + 1
    BY <1>5 DEF DeltaLands, InsertHeld, HandOver
  <2>2. cell'.result = "held"
    BY <1>2, <1>5 DEF DeltaLands, InsertHeld, Serve, Cells
  <2> QED  BY <1>1, <2>1, <2>2 DEF Executed
<1> QED  BY <1>3, <1>4, <1>5 DEF GameRuns, GameServes

\* The plan in memory: its index, its baseline, and whether it is a plan for
\* goods that are not marked as granted.
Due  == mem.pending.index
Base == mem.pending.before
Open == mem.pending # NoPlan /\ Due \notin Equipment /\ ~mem.pending.granted

\* The session compares a stack that the grant has already raised.
Late ==
  /\ lane = Due /\ ~session.active /\ session.before # Nothing
  /\ stack = session.before + 1

\* Not granted: the stack is where both baselines say.
Clean ==
  /\ applied[Due] <= asked[Due]
  /\ Base # Nothing => stack = Base
  /\ lane = Due /\ session.before # Nothing => stack = session.before

\* Granted, and the client knows, or will find out from the stack: after its
\* death the baseline it reads from disk is one unit below the stack.  Only a
\* load lets the client take a new baseline over the granted unit, and then
\* the session has the old one; a second death would lose that.
Landed ==
  /\ cell.request = "none" /\ Base # Nothing
  /\ applied[Due] <= asked[Due] + 1
  /\ \/ Told(Due)
     \/ used["crash"] > 0 /\ (Late \/ (lane # Due /\ finished[Due] = "none"))
  /\ \/ stack = Base + 1
     \/ /\ used["crash"] > 0 /\ used["move"] > 0 /\ pc # "down"
        /\ Late \/ finished[Due] = "complete"
  /\ Late /\ used["move"] = 0 => pc \in {"poll", "down"}

PlanInv == Open => Clean \/ Landed

\* What was handed over once more than asked is the plan's, or acknowledged,
\* or parked as executed.
HandedInv ==
  \A i \in Idx \ Equipment :
    \/ applied[i] <= asked[i]
    \/ /\ applied[i] <= asked[i] + 1
       /\ mem.acked[i] \in {"delivered", "other"} \/ Due = i

LEMMA OpenType ==
  ASSUME IInv, Open
  PROVE  /\ Due \in Idx /\ Due # Nothing /\ Due = Cur
         /\ Base \in Nothing .. MaxStack /\ (Base # Nothing => Base \in 0 .. MaxStack)
         /\ applied[Due] \in Nat /\ asked[Due] \in Nat /\ stack \in 0 .. MaxStack
         /\ session.before \in Nothing .. MaxStack
         /\ session.before # Nothing => session.before \in 0 .. MaxStack
<1>1. Due \in Idx /\ Due = Cur /\ Base \in Nothing .. MaxStack
  BY PlanIndex DEF IInv, Open, Due, Base, Plans, Cur
<1>2. session.before \in Nothing .. MaxStack /\ stack \in 0 .. MaxStack
      /\ applied \in [Idx -> Nat] /\ asked \in [Idx -> Nat]
  BY DEF IInv, NativeTypeOK, RestOK, Sessions
<1> QED  BY <1>1, <1>2, SlotLedgerAssumption DEF Idx, Nothing

\* A step that neither grants nor plans.
LEMMA PlanQuiet ==
  ASSUME IInv, PlanInv, [Next]_vars, Kept',
         UNCHANGED <<lane, finished, session, cell, stack, applied, asked>>,
         mem'.pending = mem.pending,
         pc \in {"poll", "down"} => pc' \in {"poll", "down"}
  PROVE  PlanInv'
<1>1. /\ used["crash"] \in Nat /\ used["move"] \in Nat
      /\ used'["crash"] \in Nat /\ used'["move"] \in Nat
      /\ used["crash"] <= used'["crash"] /\ used["move"] <= used'["move"]
  BY KeptBefore, KeptFacts
<1>2. ASSUME pc' = "down", pc # "down", used["crash"] > 0, used["move"] > 0
      PROVE  FALSE
  <2>1. Happens("crash") /\ "crash" \in Disturbances
    BY <1>2, StageStep DEF Crash, Disturbances
  <2>2. used'["crash"] = used["crash"] + 1
    BY <2>1, Counted DEF IInv
  <2> QED  BY <1>1, <1>2, <2>2 DEF Kept
<1>3. /\ Due' = Due /\ Base' = Base /\ (Open' <=> Open) /\ (Clean' <=> Clean)
      /\ (Late' <=> Late) /\ (Told(Due)' <=> Told(Due))
  BY DEF Due, Base, Open, Clean, Late, Told, Executed
<1>4. ASSUME Landed PROVE Landed'
  <2>1. used["crash"] > 0 => used'["crash"] > 0
    BY <1>1
  <2>2. used["move"] > 0 => used'["move"] > 0
    BY <1>1
  <2>3. used'["move"] = 0 => used["move"] = 0
    BY <1>1
  <2>4. /\ cell'.request = "none" /\ Base' # Nothing
        /\ applied'[Due'] <= asked'[Due'] + 1
        /\ \/ Told(Due)'
           \/ used'["crash"] > 0 /\ (Late' \/ (lane' # Due' /\ finished'[Due'] = "none"))
    BY <1>3, <1>4, <2>1 DEF Landed
  <2>5. \/ stack' = Base' + 1
        \/ /\ used'["crash"] > 0 /\ used'["move"] > 0 /\ pc' # "down"
           /\ Late' \/ finished'[Due'] = "complete"
    BY <1>2, <1>3, <1>4, <2>1, <2>2 DEF Landed
  <2>6. Late' /\ used'["move"] = 0 => pc' \in {"poll", "down"}
    BY <1>3, <1>4, <2>3 DEF Landed
  <2> QED  BY <2>4, <2>5, <2>6 DEF Landed
<1> QED  BY <1>3, <1>4 DEF PlanInv

LEMMA PlanQuietSteps ==
  ASSUME IInv, PlanInv, [Next]_vars, Kept',
         \/ PollStart \/ NothingToDeliver \/ ContextValid \/ ContextLost
         \/ HoldPlan \/ ResumePlan \/ UseRecordedBaseline \/ AwaitObservation
         \/ GrantLatched \/ GrantContinues \/ WithdrawChecks \/ RequeueFixedParks
         \/ Crash \/ Receive \/ LeavePlay \/ Recovery \/ UNCHANGED vars
         \/ \E i \in Idx : ConfirmBlocked(i)
  PROVE  PlanInv'
<1>1. CASE PollStart \/ NothingToDeliver \/ ContextValid \/ ContextLost \/ HoldPlan
           \/ ResumePlan \/ UseRecordedBaseline \/ AwaitObservation \/ GrantLatched
           \/ GrantContinues \/ WithdrawChecks
  <2>1. /\ UNCHANGED <<lane, finished, session, cell, stack, applied, asked>> /\ mem' = mem
        /\ pc \notin {"poll", "down"}
    BY <1>1 DEF PollStart, NothingToDeliver, ContextValid, ContextLost, HoldPlan, ResumePlan,
       UseRecordedBaseline, AwaitObservation, GrantLatched, GrantContinues, WithdrawChecks,
       Goto, native, engine
  <2> QED  BY <2>1, PlanQuiet
<1>2. CASE RequeueFixedParks
  <2>1. /\ UNCHANGED <<lane, finished, session, cell, stack, applied, asked>>
        /\ pc \notin {"poll", "down"}
    BY <1>2 DEF RequeueFixedParks, engine, game
  <2>2. mem'.pending = mem.pending
    BY <1>2, ParksRequeue
  <2> QED  BY <2>1, <2>2, PlanQuiet
<1>3. CASE Crash
  <2>1. /\ UNCHANGED <<lane, finished, session, cell, stack, applied, asked>> /\ mem' = mem
        /\ pc' = "down"
    BY <1>3 DEF Crash, Goto, engine, game
  <2> QED  BY <2>1, PlanQuiet
<1>4. CASE Receive \/ LeavePlay \/ Recovery \/ UNCHANGED vars
  <2>1. UNCHANGED <<lane, finished, session, cell, stack, applied, asked, mem, pc>>
    BY <1>4 DEF Receive, LeavePlay, Recovery, ReturnToPlay, Hydrate, vars, native, engine, game
  <2> QED  BY <2>1, PlanQuiet
<1>5. CASE \E i \in Idx : ConfirmBlocked(i)
  <2>1. UNCHANGED <<lane, finished, session, cell, stack, applied, asked, mem, pc>>
    BY <1>5 DEF ConfirmBlocked, engine, game
  <2> QED  BY <2>1, PlanQuiet
<1> QED  BY <1>1, <1>2, <1>3, <1>4, <1>5

\* begin plans an index that was not handed over since it was last asked for.
LEMMA PlanBegun ==
  ASSUME IInv, RowsInv, HandedInv, BeginPlan, [Next]_vars
  PROVE  PlanInv'
<1> SUFFICES ASSUME Open' PROVE Clean'
  BY DEF PlanInv
<1>1. /\ mem.pending = NoPlan /\ Base' = Nothing /\ lane = Nothing
      /\ UNCHANGED <<engine, cell, game, asked>>
  BY BeginFacts DEF Base
<1>2. Due' = Cur /\ Cur \in Idx
  <2>1. Good(mem') /\ mem'.pending # NoPlan /\ Edited(mem, mem')
    BY NextKeeps, EditSteps DEF IInv, Open
  <2>2. Due' = NextIndex(mem') /\ Due' \in Idx
    BY <2>1, PlanIndex DEF Due
  <2> QED  BY <2>1, <2>2, SameNextIndex DEF Edited, Cur
<1>3. applied[Cur] <= asked[Cur]
  <2>1. mem.acked[Cur] = "none"
    BY <1>2, NextIsOpen DEF IInv, Good, RowsInv, Cur
  <2>2. Due # Cur
    BY <1>1, <1>2, SlotLedgerAssumption DEF Due, NoPlan, Idx, Nothing
  <2>3. Cur \notin Equipment
    BY <1>2 DEF Open
  <2> QED  BY <1>2, <2>1, <2>2, <2>3 DEF HandedInv
<1>4. lane' # Due'
  BY <1>1, <1>2, SlotLedgerAssumption DEF engine, Idx, Nothing
<1> QED  BY <1>1, <1>2, <1>3, <1>4 DEF Clean, game

\* A baseline that is taken anew is that of a grant known not to be applied,
\* or is taken after a load, beside a session that has the old one.
LEMMA PlanRecorded ==
  ASSUME IInv, PublishInv, TagInv, PlanInv, RecordBaseline
  PROVE  PlanInv'
<1> SUFFICES ASSUME Open' PROVE Clean' \/ Landed'
  BY DEF PlanInv
<1>1. /\ Due' = Due /\ Due = Cur /\ Base' = Held(Cur) /\ Base' # Nothing
      /\ pc = "baseline" /\ pc' \in {"grant", "idle"}
      /\ UNCHANGED <<lane, finished, session, cell, stack, applied, asked>>
      /\ mem.pending # NoPlan /\ ~mem.pending.granted
  BY RecordFacts DEF Due, Base, engine, game
<1>2. Open /\ Base' = stack
  BY <1>1 DEF Open, Held
<1>3. CASE Clean
  <2>1. Clean'
    BY <1>1, <1>2, <1>3 DEF Clean
  <2> QED  BY <2>1
<1>4. CASE Landed
  <2>1. finished[Cur] = "none" /\ session.tag = Cur /\ session.status \in Waiting
    BY <1>1, <1>4 DEF RecordBaseline, Binding, MayHaveApplied, Landed, Base
  <2>2. lane = Due /\ ~session.active
    BY <1>1, <2>1 DEF TagInv, PublishInv
  <2>3. Late /\ used["crash"] > 0
    BY <1>1, <1>4, <2>1, <2>2 DEF Landed, Told
  <2>4. used["move"] # 0
    BY <1>1, <1>4, <2>3 DEF Landed
  <2>5. /\ used'["crash"] = used["crash"] /\ used'["move"] = used["move"]
        /\ used["move"] \in Nat
    BY EditSteps DEF Disturbances, IInv, NativeTypeOK
  <2>6. Late'
    BY <1>1, <2>3 DEF Late
  <2>7. used'["crash"] > 0 /\ used'["move"] > 0 /\ pc' # "down"
    BY <1>1, <2>3, <2>4, <2>5
  <2>8. cell'.request = "none" /\ applied'[Due'] <= asked'[Due'] + 1
    BY <1>1, <1>4 DEF Landed
  <2> QED  BY <1>1, <2>6, <2>7, <2>8 DEF Landed
<1> QED  BY <1>2, <1>3, <1>4 DEF PlanInv

\* A withdrawn request was not served: nothing is granted.
LEMMA PlanForgotten ==
  ASSUME IInv, InsertInv, PlanInv, WithdrawClears
  PROVE  PlanInv'
<1> SUFFICES ASSUME Open' PROVE Clean'
  BY DEF PlanInv
<1>1. /\ pc = "clear" /\ lane' = Nothing /\ UNCHANGED <<applied, stack, asked>>
      /\ Due' = Due /\ mem'.pending.granted = mem.pending.granted
      /\ Base' \in {Base, Nothing}
  BY ClearFacts, ForgetFacts DEF Due, Base, game
<1>2. mem.pending # NoPlan
  <2>1. mem.pending = NoPlan => mem' = mem
    BY DEF WithdrawClears, NoPlan, Goto
  <2> QED  BY <2>1 DEF Open
<1>3. Open /\ Due # Nothing
  <2>1. Open
    BY <1>1, <1>2 DEF Open
  <2> QED  BY <2>1, OpenType
<1>4. Clean
  BY <1>1, <1>3 DEF PlanInv, InsertInv, Landed
<1> QED  BY <1>1, <1>3, <1>4 DEF Clean

\* A restart keeps the baseline and forgets the rest.
LEMMA PlanRestarted ==
  ASSUME IInv, SyncInv, Kept, PlanInv, StartUp
  PROVE  PlanInv'
<1> SUFFICES ASSUME Open' PROVE Clean' \/ Landed'
  BY DEF PlanInv
<1>1. /\ mem' = disk /\ lane' = Nothing /\ pc = "down" /\ pc' \in {"withdraw", "requeue"}
      /\ finished' = [i \in Idx |-> "none"]
      /\ UNCHANGED <<cell, stack, applied, asked, used>>
  BY DEF StartUp, RestartEngine, game
<1>2. mem.pending = disk.pending /\ used["crash"] > 0
  BY <1>1, KeptFacts DEF SyncInv
<1>3. Open /\ Due' = Due /\ Base' = Base /\ Due \in Idx /\ Due # Nothing
  <2>1. Open /\ Due' = Due /\ Base' = Base
    BY <1>1, <1>2 DEF Open, Due, Base
  <2> QED  BY <2>1, OpenType
<1>4. CASE Clean
  BY <1>1, <1>3, <1>4 DEF Clean
<1>5. CASE Landed
  <2>1. stack = Base + 1 /\ cell.request = "none" /\ Base # Nothing
        /\ applied[Due] <= asked[Due] + 1
    BY <1>1, <1>5 DEF Landed
  <2>2. lane' # Due' /\ finished'[Due'] = "none" /\ ~Late'
    BY <1>1, <1>3 DEF Late
  <2> QED  BY <1>1, <1>2, <1>3, <2>1, <2>2 DEF Landed
<1> QED  BY <1>3, <1>4, <1>5 DEF PlanInv

\* The session starts from the baseline of the plan.
LEMMA PlanSubmitted ==
  ASSUME IInv, PublishInv, PlanInv, GrantSubmits
  PROVE  PlanInv'
<1> SUFFICES ASSUME Open' PROVE Clean' \/ Landed'
  BY DEF PlanInv
<1>1. /\ lane = Nothing /\ lane' = Due /\ finished[Due] = "none" /\ ~session'.active
      /\ session'.before = Base /\ Base # Nothing /\ pc' = "poll"
      /\ UNCHANGED <<finished, mem, cell, stack, applied, used, asked>>
  BY SubmitFacts DEF Due, Base, PublishInv
<1>2. Open /\ Due' = Due /\ Base' = Base /\ Due # Nothing
  <2>1. Open /\ Due' = Due /\ Base' = Base
    BY <1>1 DEF Open, Due, Base
  <2> QED  BY <2>1, OpenType
<1>3. CASE Clean
  BY <1>1, <1>2, <1>3 DEF Clean
<1>4. CASE Landed
  <2>1. ~Told(Due) /\ ~Late
    BY <1>1, <1>2 DEF Told, Late
  <2>2. /\ used["crash"] > 0 /\ stack = Base + 1 /\ cell.request = "none"
        /\ applied[Due] <= asked[Due] + 1
    BY <1>1, <1>4, <2>1 DEF Landed
  <2>3. Late'
    BY <1>1, <1>2, <2>2 DEF Late
  <2> QED  BY <1>1, <1>2, <2>2, <2>3 DEF Landed
<1> QED  BY <1>2, <1>3, <1>4 DEF PlanInv

\* A poll of a session whose grant is out publishes nothing: it waits, or
\* finds the grant in the cell or in the stack.
LEMMA PlanPolled ==
  ASSUME IInv, TagInv, PlanInv, GrantPolls
  PROVE  PlanInv'
<1> SUFFICES ASSUME Open' PROVE Clean' \/ Landed'
  BY DEF PlanInv
<1>1. /\ PollCase /\ lane = Due /\ finished[Due] = "none" /\ pc' \in {"verdict", "idle"}
      /\ UNCHANGED <<mem, stack, applied, used, asked>>
  BY PollsCases DEF Due, game
<1>2. Open /\ Due' = Due /\ Base' = Base /\ Goods /\ Held(lane) = stack
  <2>1. Open /\ Due' = Due /\ Base' = Base
    BY <1>1 DEF Open, Due, Base
  <2> QED  BY <1>1, <2>1 DEF Open, Goods, Held
<1>3. /\ Due \in Idx /\ Due # Nothing /\ stack \in Nat
      /\ session.before # Nothing => session.before \in Nat
      /\ finished \in [Idx -> Blocked \cup {"none", "complete"}]
      /\ used["move"] \in Nat
  BY <1>2, OpenType, SlotLedgerAssumption DEF IInv, NativeTypeOK, Disturbances
<1>4. /\ session.before = Nothing => Baseline = stack
      /\ session.before # Nothing => Baseline = session.before
  BY <1>2, BaselineType DEF IInv
<1>5. ASSUME NEW v \in Verdicts \ {"compat"}, Judges(v)
      PROVE  lane' = Nothing /\ finished'[Due] = v /\ cell' = cell /\ ~Late'
  <2>1. lane' = Nothing /\ finished' = [finished EXCEPT ![lane] = v] /\ cell' = cell
    BY <1>5 DEF Judges
  <2> QED  BY <1>1, <1>2, <1>3, <2>1 DEF Late
<1>6. CASE Clean
  <2>1. CASE Waits \/ StartsOver
    BY <1>1, <1>2, <1>6, <2>1 DEF Waits, StartsOver, Clean
  <2>2. CASE Publishes
    <3>1. session'.before = stack
      BY <1>1, <1>2, <1>4, <1>6, <2>2 DEF Publishes, Clean
    <3> QED  BY <1>1, <1>2, <1>6, <3>1 DEF Clean
  <2>3. ASSUME NEW v \in Verdicts \ {"compat"}, Judges(v)
        PROVE  Clean'
    BY <1>1, <1>2, <1>3, <1>5, <1>6, <2>3 DEF Clean
  <2> QED  BY <1>1, <2>1, <2>2, <2>3 DEF PollCase
<1>7. CASE Landed /\ Told(Due)
  <2>1. session.active /\ cell.done /\ Executed
    BY <1>1, <1>7 DEF Told
  <2>2. /\ stack = Base + 1 /\ cell.request = "none" /\ Base # Nothing
        /\ applied[Due] <= asked[Due] + 1
    BY <1>1, <1>7, <2>1 DEF Landed, Late
  <2>3. ASSUME cell'.request = "none", Told(Due)', ~Late' PROVE Landed'
    BY <1>1, <1>2, <2>2, <2>3 DEF Landed
  <2>4. CASE Waits
    <3>1. cell'.request = "none" /\ ~Late'
      BY <2>1, <2>2, <2>4 DEF Waits, Late
    <3>2. Told(Due)'
      BY <1>1, <1>2, <2>1, <2>4 DEF Waits, Told, Executed
    <3> QED  BY <2>3, <3>1, <3>2
  <2>5. ASSUME NEW v \in Verdicts \ {"compat"}, Judges(v)
        PROVE  Landed'
    <3>1. v \in {"complete", "other"}
      BY <2>1, <2>5 DEF Judges, Evidence, Verdicts, Blocked
    <3>2. Told(Due)' /\ cell'.request = "none" /\ ~Late'
      BY <1>2, <1>5, <2>2, <2>5, <3>1 DEF Told
    <3> QED  BY <2>3, <3>2
  <2>6. ~Publishes /\ ~StartsOver
    BY <2>1 DEF Publishes, StartsOver
  <2> QED  BY <1>1, <2>4, <2>5, <2>6 DEF PollCase
<1>8. CASE Landed /\ ~Told(Due)
  <2>1. Late /\ used["crash"] > 0
    BY <1>1, <1>8 DEF Landed
  <2>2. /\ ~session.active /\ session.before # Nothing /\ stack = session.before + 1
        /\ stack = Wanted /\ stack # Baseline /\ stack # 0
    BY <1>3, <1>4, <2>1 DEF Late, Wanted
  <2>3. /\ cell.request = "none" /\ Base # Nothing /\ applied[Due] <= asked[Due] + 1
        /\ stack = Base + 1 \/ (used["move"] > 0 /\ pc # "down")
    BY <1>8 DEF Landed
  <2>4. CASE Waits
    <3>1. ~hydrated
      BY <1>2, <2>2, <2>3, <2>4 DEF Waits, Absent
    <3>2. used["move"] > 0
      BY <1>3, <3>1 DEF TagInv
    <3>3. Late' /\ cell'.request = "none"
      BY <1>1, <1>2, <2>1, <2>3, <2>4 DEF Waits, Late
    <3> QED  BY <1>1, <1>2, <2>1, <2>3, <3>2, <3>3 DEF Landed
  <2>5. ASSUME NEW v \in Verdicts \ {"compat"}, Judges(v)
        PROVE  Landed'
    <3>1. v = "complete"
      BY <1>2, <2>2, <2>5 DEF Judges, Evidence, Verdicts, Blocked
    <3>2. /\ finished'[Due'] = "complete" /\ Told(Due)' /\ cell'.request = "none" /\ ~Late'
      BY <1>2, <1>5, <2>3, <2>5, <3>1 DEF Told
    <3> QED  BY <1>1, <1>2, <2>1, <2>3, <3>2 DEF Landed
  <2>6. ~Publishes /\ ~StartsOver
    BY <1>2, <2>2 DEF Publishes, Publishable, Matches, StartsOver
  <2> QED  BY <1>1, <2>4, <2>5, <2>6 DEF PollCase
<1> QED  BY <1>2, <1>6, <1>7, <1>8 DEF PlanInv

\* A hand-over raises the stack of the plan's goods by the one unit that its
\* baseline does not count.
LEMMA PlanServed ==
  ASSUME IInv, OwnerInv, RequestInv, FreshInv, InsertInv, AloneInv, PlanInv,
         Kept, Kept', [Next]_vars, GameRuns
  PROVE  PlanInv'
<1> SUFFICES ASSUME Open' PROVE Clean' \/ Landed'
  BY DEF PlanInv
<1>1. Served /\ UNCHANGED <<engine, mem, pc, asked>>
  BY GameStep DEF Served
<1>2. Open /\ Due' = Due /\ Base' = Base
  BY <1>1 DEF Open, Due, Base
<1>3. /\ cell.request # "none" /\ cell.owner = Due /\ Base # Nothing
      /\ lane # Nothing => lane = Due /\ session.active
  BY <1>1 DEF Served, RequestInv, Due, Base
<1>4. /\ Clean /\ cell.owner \notin Equipment /\ finished[Due] = "none"
  BY <1>2, <1>3 DEF PlanInv, Landed, Open, FreshInv
<1>5. /\ Due \in Idx /\ Due # Nothing /\ applied \in [Idx -> Nat] /\ asked[Due] \in Nat
      /\ applied[Due] <= asked[Due] /\ stack = Base
  BY <1>2, <1>3, <1>4, OpenType DEF IInv, NativeTypeOK, Clean
<1>6. /\ cell'.request = "none" /\ cell'.done
      /\ \/ UNCHANGED <<stack, applied>>
         \/ /\ applied' = [applied EXCEPT ![cell.owner] = @ + 1]
            /\ stack' = stack + 1 /\ Executed'
  BY <1>4, GoodsServed
<1>7. CASE UNCHANGED <<stack, applied>>
  BY <1>1, <1>2, <1>4, <1>7 DEF Clean, engine
<1>8. CASE applied' = [applied EXCEPT ![cell.owner] = @ + 1] /\ stack' = stack + 1 /\ Executed'
  <2>1. applied'[Due] <= asked[Due] + 1
    BY <1>3, <1>5, <1>8
  <2>2. stack' = Base' + 1 /\ ~Late'
    BY <1>1, <1>2, <1>3, <1>5, <1>8 DEF Late, engine
  <2>3. CASE session.active
    <3>1. Told(Due)'
      BY <1>1, <1>2, <1>3, <1>6, <1>8, <2>3 DEF Told, engine, OwnerInv
    <3> QED  BY <1>1, <1>2, <1>3, <1>6, <2>1, <2>2, <3>1 DEF Landed
  <2>4. CASE ~session.active
    <3>1. lane' # Due' /\ finished'[Due'] = "none"
      BY <1>1, <1>2, <1>3, <1>4, <1>5, <2>4 DEF engine
    <3>2. used["crash"] > 0
      BY <1>3, <2>4, KeptFacts DEF AloneInv, Alone, LiveInv
    <3>3. used'["crash"] > 0
      BY <3>2, KeptFacts, KeptBefore
    <3> QED  BY <1>1, <1>2, <1>3, <1>6, <2>1, <2>2, <3>1, <3>3 DEF Landed
  <2> QED  BY <2>3, <2>4
<1> QED  BY <1>6, <1>7, <1>8

\* Every step keeps the plan's evidence, while the stack is Kept.
LEMMA PlanKept ==
  ASSUME IInv, RowsInv, OwnerInv, AloneInv, PublishInv, SyncInv, RequestInv, TagInv,
         FreshInv, InsertInv, PlanInv, HandedInv, [Next]_vars, Kept'
  PROVE  PlanInv'
<1>1. Kept /\ ~PlayerActs /\ ~GameRaces
  BY KeptBefore
<1>2. ASSUME mem'.pending = NoPlan \/ mem'.pending.granted PROVE PlanInv'
  BY <1>2 DEF PlanInv, Open
<1>3. CASE PollVialRefused \/ PollReleasesVial
  <2>1. mem'.pending = NoPlan
    BY <1>3, VialRequeues DEF PollVialRefused, VialReady, Goto
  <2> QED  BY <1>2, <2>1
<1>4. CASE ParkTerminalGrant \/ AcknowledgeItem \/ EquipItem
  BY <1>2, <1>4, ParkSettles, AckSettles, EquipFacts
<1>5. CASE GrantComplete
  <2>1. mem \in Slots /\ mem.pending \in Plans /\ mem' = MarkGrantComplete(mem)
    BY <1>5, CompleteFacts, PlanIndex DEF IInv, Good, GrantComplete, Commit
  <2>2. Nothing \in Nothing .. MaxStack
    BY SlotLedgerAssumption DEF Nothing
  <2>3. mem'.pending.granted
    BY <2>1, <2>2, EditFacts
  <2> QED  BY <1>2, <2>3
<1>6. ASSUME NEW i \in Idx, RetryBlocked(i) PROVE PlanInv'
  BY <1>2, <1>6, RetryRequeues
<1>7. CASE BeginPlan
  BY <1>7, PlanBegun
<1>8. CASE RecordBaseline
  BY <1>8, PlanRecorded
<1>9. CASE WithdrawClears
  BY <1>9, PlanForgotten
<1>10. CASE StartUp
  BY <1>1, <1>10, PlanRestarted
<1>11. CASE GrantSubmits
  BY <1>11, PlanSubmitted
<1>12. CASE GrantPolls
  BY <1>12, PlanPolled
<1>13. CASE GameRuns
  BY <1>1, <1>13, PlanServed
<1>14. CASE \/ PollStart \/ NothingToDeliver \/ ContextValid \/ ContextLost
            \/ HoldPlan \/ ResumePlan \/ UseRecordedBaseline \/ AwaitObservation
            \/ GrantLatched \/ GrantContinues \/ WithdrawChecks \/ RequeueFixedParks
            \/ Crash \/ Receive \/ LeavePlay \/ Recovery \/ UNCHANGED vars
            \/ \E i \in Idx : ConfirmBlocked(i)
  BY <1>14, PlanQuietSteps
<1> QED  BY <1>1, <1>3, <1>4, <1>5, <1>6, <1>7, <1>8, <1>9, <1>10, <1>11, <1>12, <1>13,
            <1>14 DEF Next, ClientStep

\* A verdict that parks the plan of goods handed over is "other".
LEMMA ParkTells ==
  ASSUME IInv, PlanInv, ParkTerminalGrant
  PROVE  /\ Due = Cur /\ Cur \in Idx
         /\ Cur \notin Equipment /\ ~(applied[Cur] <= asked[Cur]) => finished[Cur] = "other"
<1>1. mem.pending # NoPlan /\ ~mem.pending.granted /\ finished[Cur] \in Blocked /\ Cur \in Idx
  BY ParkSettles DEF ParkTerminalGrant, IInv, StageInv
<1>2. Due = Cur
  BY <1>1, PlanIndex DEF Due, Cur, IInv
<1>3. finished[Cur] \notin {"none", "complete"}
  BY <1>1 DEF Blocked
<1>4. lane # Due
  BY <1>1, <1>2, <1>3, SlotLedgerAssumption DEF IInv, LaneOpen, Idx, Nothing
<1>5. ASSUME Cur \notin Equipment, ~(applied[Cur] <= asked[Cur])
      PROVE  finished[Cur] = "other"
  <2>1. Landed
    BY <1>1, <1>2, <1>5 DEF PlanInv, Open, Clean
  <2> QED  BY <1>2, <1>3, <1>4, <2>1 DEF Landed, Told, Late
<1> QED  BY <1>1, <1>2, <1>5

\* What the steps that hand nothing over do to the rows.
LEMMA HandedRows ==
  ASSUME IInv, SyncInv, ShelfInv, PlanInv, [Next]_vars, Kept',
         NEW k \in Idx \ Equipment, ~(applied[k] <= asked[k]),
         mem.acked[k] \in {"delivered", "other"} \/ Due = k,
         ~\E i \in Idx : RetryBlocked(i)
  PROVE  mem'.acked[k] \in {"delivered", "other"} \/ Due' = k
<1>0. /\ mem.acked \in [Idx -> Acks] /\ used["savefail"] = 0
      /\ mem.pending = NoPlan => Due # k
  <2>1. mem.acked \in [Idx -> Acks]
    BY DEF IInv, Good, Slots
  <2>2. mem.pending = NoPlan => Due # k
    BY SlotLedgerAssumption DEF Due, NoPlan, Idx, Nothing
  <2> QED  BY <2>1, <2>2, KeptBefore, KeptFacts
<1>1. CASE mem'.acked = mem.acked /\ mem'.pending.index = mem.pending.index
  BY <1>1 DEF Due
<1>2. CASE Bystanders \/ UNCHANGED vars \/ \E i \in Idx : ConfirmBlocked(i)
  BY <1>1, <1>2, BystandersKeep DEF vars, ConfirmBlocked
<1>3. CASE BeginPlan
  BY <1>0, <1>3, BeginFacts
<1>4. CASE RecordBaseline \/ GrantComplete \/ EquipItem \/ WithdrawClears
  BY <1>1, <1>4, RecordFacts, CompleteFacts, EquipFacts, ForgetFacts
<1>5. CASE ParkTerminalGrant
  <2>1. mem'.acked = [mem.acked EXCEPT ![Cur] = finished[Cur]] /\ Cur \in Idx
    BY <1>5, ParkSettles
  <2>2. Due = Cur /\ (k = Cur => finished[Cur] = "other")
    BY <1>5, ParkTells
  <2> QED  BY <1>0, <2>1, <2>2
<1>6. CASE AcknowledgeItem
  <2>1. /\ mem'.acked = [mem.acked EXCEPT ![Cur] = "delivered"] /\ Cur \in Idx
        /\ mem.pending # NoPlan
    BY <1>6, AckSettles
  <2>2. Due = Cur
    BY <2>1, PlanIndex DEF Due, Cur, IInv
  <2> QED  BY <1>0, <2>1, <2>2
<1>7. CASE PollReleasesVial
  <2>1. /\ DeferredVial \in Idx /\ mem.pending = NoPlan
        /\ \A j \in Idx \ {DeferredVial} : mem'.acked[j] = mem.acked[j]
    BY <1>7, VialRequeues
  <2>2. DeferredVial \in mem.deferred /\ mem.acked[DeferredVial] \in Blocked
    BY <1>7, MinIsMember DEF PollReleasesVial, VialReady, VialsDue, DeferredVial,
       CanRequeueBlocked, IInv, Good, Slots
  <2>3. mem.acked[DeferredVial] = "vial"
    BY <2>2 DEF ShelfInv, AwaitsVial, Blocked
  <2> QED  BY <1>0, <2>1, <2>3
<1>8. CASE RequeueFixedParks
  BY <1>8, ParksKeepTold, ParksRequeue DEF Due
<1>9. CASE StartUp
  BY <1>0, <1>9 DEF StartUp, SyncInv, ShelfInv, Due
<1> QED  BY <1>2, <1>3, <1>4, <1>5, <1>6, <1>7, <1>8, <1>9, EveryStep

LEMMA HandedKept ==
  ASSUME IInv, SyncInv, RequestInv, ShelfInv, PlanInv, HandedInv, [Next]_vars, Kept'
  PROVE  HandedInv'
<1>0. applied \in [Idx -> Nat] /\ asked \in [Idx -> Nat] /\ ~GameRaces
  BY KeptBefore DEF IInv, NativeTypeOK, RestOK
<1>1. ASSUME NEW k \in Idx, RetryBlocked(k) PROVE HandedInv'
  <2>1. /\ mem.pending = NoPlan /\ \A j \in Idx \ {k} : mem'.acked[j] = mem.acked[j]
        /\ asked' = [asked EXCEPT ![k] = @ + 1] /\ applied' = applied
    BY <1>1, RetryRequeues DEF RetryBlocked, game
  <2>2. \A i \in Idx : Due # i
    BY <2>1, SlotLedgerAssumption DEF Due, NoPlan, Idx, Nothing
  <2>3. ASSUME NEW i \in Idx \ Equipment
        PROVE  \/ applied'[i] <= asked'[i]
               \/ /\ applied'[i] <= asked'[i] + 1
                  /\ mem'.acked[i] \in {"delivered", "other"}
    <3>1. CASE i = k
      BY <1>0, <2>1, <3>1 DEF HandedInv
    <3>2. CASE i # k
      BY <1>0, <2>1, <2>2, <3>2 DEF HandedInv
    <3> QED  BY <3>1, <3>2
  <2> QED  BY <2>3 DEF HandedInv
<1>2. CASE GameRuns
  <2>1. Served /\ UNCHANGED <<mem, asked>> /\ Due' = Due
    BY <1>2, GameStep DEF Served, Due
  <2>2. CASE applied' = applied
    BY <2>1, <2>2 DEF HandedInv
  <2>3. CASE applied' = [applied EXCEPT ![cell.owner] = @ + 1]
    <3>1. cell.request # "none" /\ cell.owner = Due /\ ~mem.pending.granted
          /\ mem.pending.before # Nothing
      BY <2>1 DEF Served, RequestInv, Due
    <3>2. mem.pending # NoPlan
      BY <3>1 DEF NoPlan
    <3>3. Due \notin Equipment => applied[Due] <= asked[Due]
      BY <3>1, <3>2 DEF PlanInv, Open, Clean, Landed
    <3>4. ASSUME NEW i \in Idx \ Equipment
          PROVE  \/ applied'[i] <= asked'[i]
                 \/ /\ applied'[i] <= asked'[i] + 1
                    /\ mem'.acked[i] \in {"delivered", "other"} \/ Due' = i
      <4>1. CASE i = Due
        BY <1>0, <2>1, <2>3, <3>1, <3>3, <4>1
      <4>2. CASE i # Due
        BY <1>0, <2>1, <2>3, <3>1, <4>2 DEF HandedInv
      <4> QED  BY <4>1, <4>2
    <3> QED  BY <3>4 DEF HandedInv
  <2> QED  BY <2>1, <2>2, <2>3 DEF Served
<1>3. CASE ~GameRuns /\ ~\E i \in Idx : RetryBlocked(i)
  <2>1. applied' = applied /\ asked' = asked
    BY <1>0, <1>3, EngineStep
  <2>2. ASSUME NEW i \in Idx \ Equipment, ~(applied[i] <= asked[i])
        PROVE  /\ applied[i] <= asked[i] + 1
               /\ mem'.acked[i] \in {"delivered", "other"} \/ Due' = i
    <3>1. applied[i] <= asked[i] + 1 /\ (mem.acked[i] \in {"delivered", "other"} \/ Due = i)
      BY <2>2 DEF HandedInv
    <3> QED  BY <1>3, <2>2, <3>1, HandedRows
  <2> QED  BY <2>1, <2>2 DEF HandedInv
<1> QED  BY <1>1, <1>2, <1>3

KeptInv == Kept => PlanInv /\ HandedInv

LEMMA KeptInductive == Spec => []KeptInv
<1>1. Init => KeptInv
  <2> SUFFICES ASSUME Init PROVE PlanInv /\ HandedInv
    BY DEF KeptInv
  <2>1. mem.pending = NoPlan
    BY DEF Init, EmptySlot
  <2>2. \A i \in Idx : applied[i] = 0 /\ asked[i] = 0
    BY DEF Init, NativeInit
  <2> QED  BY <2>1, <2>2 DEF PlanInv, Open, HandedInv
<1>2. IInv /\ RowsInv /\ OwnerInv /\ AloneInv /\ PublishInv /\ SyncInv /\ SyncedRequest
      /\ TagInv /\ ShelfInv /\ SyncedFresh /\ KeptInsert /\ KeptInv /\ [Next]_vars => KeptInv'
  <2> SUFFICES ASSUME IInv, RowsInv, OwnerInv, AloneInv, PublishInv, SyncInv, SyncedRequest,
                      TagInv, ShelfInv, SyncedFresh, KeptInsert, KeptInv, [Next]_vars, Kept'
               PROVE  PlanInv' /\ HandedInv'
    BY DEF KeptInv
  <2>1. Kept
    BY KeptBefore
  <2>2. RequestInv /\ FreshInv /\ InsertInv /\ PlanInv /\ HandedInv
    BY <2>1, KeptFacts DEF SyncedRequest, SyncedFresh, KeptInsert, KeptInv
  <2> QED  BY <2>2, PlanKept, HandedKept
<1> QED  BY <1>1, <1>2, Inductive, RowsInductive, OwnerInductive, AloneInductive,
            PublishInductive, SyncInductive, RequestInductive, TagInductive, ShelfInductive,
            FreshInductive, InsertInductive, PTL DEF Spec

\* The game hands an index over at most once, and once more for each time the
\* operator asked for it: poll_items' "an index is delivered at most once".
\* A client that lives keeps the promise for every item; a client that dies, at
\* any step and any number of times, keeps it for goods while the stack is
\* Kept, because the baseline was on disk before the request was published.
THEOREM DeliveryAtMostOnce == Spec => []AtMostOnce
<1>1. IInv /\ AloneInv /\ KeptInv => AtMostOnce
  <2> SUFFICES ASSUME IInv, AloneInv, KeptInv, NEW i \in Idx,
                      Alone \/ (Kept /\ i \notin Equipment)
               PROVE  applied[i] <= 1 + asked[i]
    BY DEF AtMostOnce, Alone
  <2>1. applied[i] \in Nat /\ asked[i] \in Nat
    BY DEF IInv, NativeTypeOK, RestOK
  <2>2. CASE Alone
    BY <2>1, <2>2 DEF AloneInv, OnceInv
  <2>3. CASE Kept /\ i \notin Equipment
    <3>1. applied[i] <= asked[i] \/ applied[i] <= asked[i] + 1
      BY <2>3 DEF KeptInv, HandedInv
    <3> QED  BY <2>1, <3>1
  <2> QED  BY <2>2, <2>3
<1> QED  BY <1>1, Inductive, AloneInductive, KeptInductive, PTL
=============================================================================
