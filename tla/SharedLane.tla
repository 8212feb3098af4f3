------------------------------ MODULE SharedLane ------------------------------
(***************************************************************************)
(* The three users of the Bloodborne client's single native lane: received  *)
(* items (poll_items), the sustain rewards of checked locations             *)
(* (poll_sustain) and the operator's grants (poll_operator_grant).          *)
(*                                                                          *)
(* A pass of the main loop polls an operator grant, then, unless that holds *)
(* the lane, the items, and then, when no item is due, a sustain reward.    *)
(* The engine drives one command at a time and refuses every other one as   *)
(* busy, so the row that is polled must be the one whose command is in the  *)
(* lane: otherwise nobody polls that command again.                         *)
(*                                                                          *)
(* The stages of one delivery are ItemDelivery's: here every command has a  *)
(* stack of its own that only the command changes, the inventory is         *)
(* readable in gameplay, saves of the ledger succeed, and the save carries  *)
(* no watermark, as with the native backend.                                *)
(***************************************************************************)
EXTENDS Integers, FiniteSets

CONSTANTS
    N,             \* the items of the slot, in the order of the stream
    Ops,           \* the AP item ids the operator gives
    Keys,          \* the ledger keys of the sustain rewards
    VialKeys,      \* those that are Blood Vials
    SustainPolls,  \* SUSTAIN_PENDING_POLL_LIMIT
    MaxEvents,     \* bound on what goes wrong
    None

ASSUME LaneAssumption ==
    /\ N \in Nat /\ Ops \subseteq Int /\ Keys \subseteq Int /\ VialKeys \subseteq Keys
    /\ IsFiniteSet(Ops) /\ IsFiniteSet(Keys)
    /\ SustainPolls \in Nat \ {0} /\ MaxEvents \in Nat

VARIABLES
    pc,        \* the next poll of the pass, "down" without a process
    received,  \* the items this connection has brought so far
    row,       \* the ledger: the state and the observed baseline of each row
    eng,       \* NativeDelivery and its session: the lane, and the command in it
    finished,  \* the verdicts the engine has latched
    polls,     \* sustain_pending_polls
    cell,      \* the request cells in the game's memory
    applied,   \* how often the game has handed each of them over
    ctx,       \* require_runtime_context: "play", "load" or "refused"
    vials,     \* the player has a Vial
    crossed,   \* history: a row came before the one whose command is in the lane
    events

vars == <<pc, received, row, eng, finished, polls, cell, applied, ctx, vials, crossed, events>>
native == <<eng, finished, cell>>
world  == <<applied, ctx, vials>>

-----------------------------------------------------------------------------
Item(i)    == <<"item", i>>
Op(o)      == <<"op", o>>
Sustain(k) == <<"sustain", k>>
Tags == {Item(i) : i \in 1 .. N} \cup {Op(o) : o \in Ops} \cup {Sustain(k) : k \in Keys}
Vials == {Sustain(k) : k \in VialKeys}

ASSUME NoneAssumption == None \notin Tags /\ None \notin Keys

NoBase == -1
Rows == [st : {"none", "queued", "done", "parked", "retired", "deferred", "blocked"},
         base : Nat \cup {NoBase}]
NoRow  == [st |-> "none", base |-> NoBase]
Queued == [st |-> "queued", base |-> NoBase]

Happens == events < MaxEvents /\ events' = events + 1

Least(S) == CHOOSE x \in S : \A y \in S : x <= y

\* The rows each poll chooses from.  A sustain row with a baseline goes first.
DueItems     == {i \in 1 .. N : row[Item(i)].st = "queued"}
DueOps       == {o \in Ops : row[Op(o)].st = "queued"}
DueKeys      == {k \in Keys : row[Sustain(k)].st = "queued"}
InFlight     == {k \in DueKeys : row[Sustain(k)].base # NoBase}
NextKey      == Least(IF InFlight # {} THEN InFlight ELSE DueKeys)
NextIndex    == Least({i \in 1 .. N + 1 : i = N + 1 \/ row[Item(i)].st \in {"none", "queued"}})

-----------------------------------------------------------------------------
(***************************************************************************)
(* The engine: grant_with_warning, withdraw_stale and retire_current.       *)
(***************************************************************************)
NewEngine == [lane |-> None, tag |-> None, status |-> "none", before |-> NoBase]

MayHaveApplied(t) ==
    finished[t] # "none" \/ eng.tag # t \/ eng.status # "queued"

Session(t, before) ==
    IF eng.lane = t THEN eng
    ELSE [lane |-> t, tag |-> t, status |-> "queued", before |-> before]

\* What grant_item answers.
Verdict(t, before) ==
    IF finished[t] # "none" THEN finished[t]
    ELSE IF eng.lane \notin {None, t} THEN "busy"
    ELSE LET s == Session(t, before) IN
         IF s.status = "executing" THEN IF cell.done THEN cell.result ELSE "pending"
         ELSE IF applied[t] > s.before THEN "complete"
         ELSE IF t \in Vials /\ ~vials THEN "vial"
         ELSE "pending"

\* StartUp, Withdraw and Retire leave no request behind, so the cell is free for a
\* new command (LaneIsPolled).
Grant(t, before) ==
    LET s == Session(t, before)
        v == Verdict(t, before)
    IN  \/ /\ v = "busy" \/ finished[t] # "none"
           /\ UNCHANGED native
        \/ /\ v = "pending" /\ s.status = "executing"
           /\ UNCHANGED native
        \/ /\ v = "pending" /\ s.status # "executing"
           /\ eng' = [s EXCEPT !.status = "executing"]
           /\ cell' = [owner |-> t, request |-> TRUE, done |-> FALSE, result |-> "failed"]
           /\ UNCHANGED finished
        \/ /\ v \notin {"busy", "pending"} /\ finished[t] = "none"
           /\ eng' = [s EXCEPT !.lane = None, !.status = "over"]
           /\ finished' = [finished EXCEPT ![t] = v]
           /\ UNCHANGED cell

\* The native backend withdraws whatever command is in the lane.
Withdrawable == cell.request /\ ~cell.done
Cleared      == [cell EXCEPT !.request = FALSE]
Withdraw ==
    /\ eng' = IF Withdrawable THEN [eng EXCEPT !.lane = None, !.status = "withdrawn"] ELSE eng
    /\ cell' = IF Withdrawable THEN Cleared ELSE cell
    /\ UNCHANGED finished

Retire(t) ==
    /\ eng' = [eng EXCEPT !.lane = None, !.status = "over"]
    /\ cell' = IF Withdrawable THEN Cleared ELSE cell
    /\ finished' = [finished EXCEPT ![t] = "failed"]

-----------------------------------------------------------------------------
(***************************************************************************)
(* The polls.  One that returns without settling anything ends the pass.    *)
(***************************************************************************)
Settled(t, st) == row' = [row EXCEPT ![t] = [st |-> st, base |-> NoBase]]

\* The observed stack is saved as the baseline before the command is published.
\* History: the lane's item is one this connection has not brought yet.
RecordBaseline(t) ==
    /\ row' = [row EXCEPT ![t].base = applied[t]]
    /\ crossed' = (crossed \/ \E i \in received + 1 .. N : eng.lane = Item(i))
    /\ UNCHANGED <<pc, native, polls>>

\* Mutant: the stack is observed again on every poll.
BaselineAnew(t) == applied[t]

\* A command that may have run keeps its baseline; any other is observed again.
Baseline(t) == IF MayHaveApplied(t) THEN row[t].base ELSE applied[t]

\* poll_sustain, in a pass that goes on with the poll `next`.
SustainLost(t) ==
    /\ pc' = "op"
    /\ \/ /\ ctx = "load" /\ Withdraw
          /\ row' = IF Withdrawable THEN [row EXCEPT ![t].base = NoBase] ELSE row
       \/ ctx = "refused" /\ UNCHANGED <<native, row>>
    /\ UNCHANGED <<polls, crossed>>

Count(k) == IF polls.key = k THEN polls.count + 1 ELSE 1

\* Mutant: one poll more than the limit.
TimedOutLate(k) == Count(k) > SustainPolls

TimedOut(k) == Count(k) >= SustainPolls

SustainGrant(k, next) ==
    \E t \in {Sustain(k)} : \E before \in {Baseline(t)} : \E v \in {Verdict(t, before)} :
      /\ UNCHANGED crossed
      /\ \/ /\ v = "busy" /\ Grant(t, before)
            /\ row' = [row EXCEPT ![t].base = before]
            /\ pc' = "op" /\ UNCHANGED polls
         \/ /\ v = "pending" /\ ~TimedOut(k) /\ Grant(t, before)
            /\ row' = [row EXCEPT ![t].base = before]
            /\ pc' = "op" /\ polls' = [key |-> k, count |-> Count(k)]
         \/ /\ v = "pending" /\ TimedOut(k) /\ Retire(t)
            /\ Settled(t, "retired")
            /\ pc' = next /\ polls' = [key |-> None, count |-> 0]
         \/ /\ v \in {"complete", "failed"} /\ Grant(t, before)
            /\ Settled(t, IF v = "complete" THEN "done" ELSE "retired")
            /\ pc' = next /\ polls' = [key |-> None, count |-> 0]
         \/ /\ v \in {"vial", "storage"} /\ Grant(t, before)
            /\ Settled(t, IF v = "vial" THEN "deferred" ELSE "blocked")
            /\ pc' = "op" /\ polls' = [key |-> None, count |-> 0]

SustainPoll(next) ==
    \/ /\ DueKeys = {}
       /\ pc' = next /\ UNCHANGED <<native, row, polls, crossed>>
    \/ /\ DueKeys # {}
       /\ \E k \in {NextKey} :
            \/ ctx # "play" /\ SustainLost(Sustain(k))
            \/ ctx = "play" /\ row[Sustain(k)].base = NoBase /\ RecordBaseline(Sustain(k))
            \/ ctx = "play" /\ row[Sustain(k)].base # NoBase /\ SustainGrant(k, next)

\* retry_deferred_vials_if_ready at the head of poll_items and poll_sustain.
DeferredKeys == {k \in Keys : row[Sustain(k)].st = "deferred"}
VialReady == /\ DeferredKeys # {} /\ ctx = "play" /\ vials
             /\ DueItems = {} /\ DueKeys = {} /\ eng.lane = None
ReleaseVial ==
    \E t \in {Sustain(Least(DeferredKeys))} :
      /\ row' = [row EXCEPT ![t].st = "queued"]
      /\ finished' = [finished EXCEPT ![t] = "none"]
      /\ UNCHANGED <<pc, eng, cell, polls, crossed>>

\* Mutant: a terminal failure is raised again on every poll.
OperatorGrantRaises(o) ==
    \E t \in {Op(o)} : \E v \in {Verdict(t, row[t].base)} :
      /\ Grant(t, row[t].base)
      /\ \/ v # "complete" /\ pc' = "op" /\ UNCHANGED row
         \/ v = "complete" /\ Settled(t, "done") /\ pc' = "items"
      /\ UNCHANGED <<polls, crossed>>

\* poll_operator_grant: pc "op" is also where a pass ends.
OperatorGrant(o) ==
    \E t \in {Op(o)} : \E v \in {Verdict(t, row[t].base)} :
      /\ Grant(t, row[t].base)
      /\ \/ v \in {"busy", "pending"} /\ pc' = "op" /\ UNCHANGED row
         \/ v = "complete" /\ Settled(t, "done") /\ pc' = "items"
         \/ v \in {"failed", "storage"} /\ Settled(t, "parked") /\ pc' = "items"
      /\ UNCHANGED <<polls, crossed>>

OperatorLost(t) ==
    /\ Withdraw
    /\ row' = IF Withdrawable THEN [row EXCEPT ![t].base = NoBase] ELSE row
    /\ pc' = "op" /\ UNCHANGED <<polls, crossed>>

\* No grant is due, or an AP plan owns the lane.
OperatorIdle == DueOps = {} \/ DueItems # {}

OperatorPoll ==
    /\ pc = "op"
    /\ \/ /\ OperatorIdle
          /\ pc' = "items" /\ UNCHANGED <<native, row, polls, crossed>>
       \/ ~OperatorIdle /\ InFlight # {} /\ SustainPoll("op")
       \/ /\ ~OperatorIdle /\ InFlight = {}
          /\ \E o \in {Least(DueOps)} :
               \/ ctx # "play" /\ OperatorLost(Op(o))
               \/ ctx = "play" /\ row[Op(o)].base = NoBase /\ RecordBaseline(Op(o))
               \/ ctx = "play" /\ row[Op(o)].base # NoBase /\ OperatorGrant(o)

\* poll_items.
ItemGrant(t) ==
    \E before \in {Baseline(t)} : \E v \in {Verdict(t, before)} :
      /\ Grant(t, before) /\ pc' = "op"
      /\ \/ v \in {"busy", "pending"} /\ row' = [row EXCEPT ![t].base = before]
         \/ v = "complete" /\ Settled(t, "done")
         \/ v \in {"failed", "storage"} /\ Settled(t, "parked")
      /\ UNCHANGED <<polls, crossed>>

ItemLost(t) ==
    /\ pc' = "op"
    /\ \/ row[t].st = "queued" /\ Withdraw
       \/ row[t].st = "none" /\ UNCHANGED native
    /\ row' = IF ctx = "load" /\ row[t].st = "queued" /\ Withdrawable
              THEN [row EXCEPT ![t].base = NoBase] ELSE row
    /\ UNCHANGED <<polls, crossed>>

PlanItem(t) ==
    /\ row' = [row EXCEPT ![t] = Queued]
    /\ UNCHANGED <<pc, native, polls, crossed>>

\* Mutant: an item does not wait for the sustain command in the lane.
SustainFirstNever == FALSE

\* sustain_command_in_flight.
SustainFirst == InFlight # {}

ItemPoll ==
    /\ pc = "items"
    /\ \/ VialReady /\ ReleaseVial
       \/ ~VialReady /\ SustainFirst /\ SustainPoll("items")
       \/ /\ ~VialReady /\ ~SustainFirst /\ NextIndex > received
          /\ pc' = "sustain" /\ UNCHANGED <<native, row, polls, crossed>>
       \/ /\ ~VialReady /\ ~SustainFirst /\ NextIndex <= received
          /\ \E t \in {Item(NextIndex)} :
               \/ ctx # "play" /\ ItemLost(t)
               \/ ctx = "play" /\ row[t].st = "none" /\ PlanItem(t)
               \/ ctx = "play" /\ row[t].st = "queued" /\ row[t].base = NoBase
                    /\ RecordBaseline(t)
               \/ ctx = "play" /\ row[t].st = "queued" /\ row[t].base # NoBase
                    /\ ItemGrant(t)

IdlePoll ==
    /\ pc = "sustain"
    /\ \/ VialReady /\ ReleaseVial
       \/ ~VialReady /\ SustainPoll("op")

Poll == /\ OperatorPoll \/ ItemPoll \/ IdlePoll
        /\ UNCHANGED <<received, world, events>>

\* reconcile_pending_command, before the first poll of a process.
StartUp ==
    /\ pc = "down" /\ pc' = "op"
    /\ cell' = IF Withdrawable /\ \E t \in Tags : row[t].st \in {"queued", "deferred", "blocked"}
               THEN Cleared ELSE cell
    /\ UNCHANGED <<received, row, eng, finished, polls, world, crossed, events>>

-----------------------------------------------------------------------------
(***************************************************************************)
(* What the rows come from, the game and the process.                       *)
(***************************************************************************)

\* queue_sustain_for_checks for a location that was just checked.
Check(k) ==
    /\ pc = "op" /\ row[Sustain(k)].st = "none"
    /\ row' = [row EXCEPT ![Sustain(k)] = Queued]
    /\ UNCHANGED <<pc, received, native, polls, world, crossed, events>>

\* rescue_give.
Give(o) ==
    /\ pc = "op" /\ ctx = "play" /\ row[Op(o)].st = "none"
    /\ row' = [row EXCEPT ![Op(o)] = Queued]
    /\ crossed' = (crossed \/ \E p \in Ops : eng.lane = Op(p) /\ o < p)
    /\ UNCHANGED <<pc, received, native, polls, world, events>>

\* The connection is read at the head of a pass.
Receive ==
    /\ pc = "op" /\ received < N /\ received' \in received + 1 .. N
    /\ UNCHANGED <<pc, row, native, polls, world, crossed, events>>

\* A new connection has no items until the server sends them.
Reconnect ==
    /\ pc = "op" /\ received > 0 /\ Happens
    /\ received' = 0
    /\ UNCHANGED <<pc, row, native, polls, world, crossed>>

\* The game thread.
Serve(result) ==
    /\ Withdrawable /\ ctx = "play"
    /\ cell' = [cell EXCEPT !.request = FALSE, !.done = TRUE, !.result = result]
    /\ IF result = "complete"
       THEN applied' = [applied EXCEPT ![cell.owner] = @ + 1] /\ UNCHANGED events
       ELSE UNCHANGED applied /\ Happens
    /\ UNCHANGED <<pc, received, row, eng, finished, polls, ctx, vials, crossed>>

LeavePlay ==
    /\ ctx = "play" /\ Happens
    /\ ctx' \in {"load", "refused"}
    /\ UNCHANGED <<pc, received, row, native, polls, applied, vials, crossed>>

ReturnToPlay ==
    /\ ctx # "play" /\ ctx' = "play"
    /\ UNCHANGED <<pc, received, row, native, polls, applied, vials, crossed, events>>

FindVial ==
    /\ ctx = "play" /\ ~vials /\ vials' = TRUE
    /\ UNCHANGED <<pc, received, row, native, polls, applied, ctx, crossed, events>>

Crash ==
    /\ pc # "down" /\ Happens
    /\ pc' = "down" /\ received' = 0
    /\ eng' = NewEngine /\ finished' = [t \in Tags |-> "none"]
    /\ polls' = [key |-> None, count |-> 0]
    /\ UNCHANGED <<row, cell, world, crossed>>

Init ==
    /\ pc = "op" /\ received = 0
    /\ row = [t \in Tags |-> NoRow]
    /\ eng = NewEngine /\ finished = [t \in Tags |-> "none"]
    /\ polls = [key |-> None, count |-> 0]
    /\ cell = [owner |-> None, request |-> FALSE, done |-> FALSE, result |-> "failed"]
    /\ applied = [t \in Tags |-> 0]
    /\ ctx = "load" /\ vials \in BOOLEAN
    /\ crossed = FALSE /\ events = 0

Next ==
    \/ Poll \/ StartUp
    \/ \E k \in Keys : Check(k)
    \/ \E o \in Ops : Give(o)
    \/ Receive \/ Reconnect
    \/ \E result \in {"complete", "failed", "storage"} : Serve(result)
    \/ LeavePlay \/ ReturnToPlay \/ FindVial
    \/ Crash

Spec == Init /\ [][Next]_vars

\* The loop runs, the game serves its cell and loads end; the server sends what
\* the slot has received, and every pass reads the connection once (hence strong
\* fairness: between two heads of a pass Receive is not enabled).
FairSpec ==
    /\ Spec
    /\ WF_vars(Poll) /\ WF_vars(StartUp)
    /\ SF_vars(Receive) /\ WF_vars(Serve("complete")) /\ WF_vars(ReturnToPlay)

-----------------------------------------------------------------------------
Verdicts == {"none", "complete", "failed", "storage", "vial"}

\* The type invariant.
TypeOK ==
    /\ pc \in {"op", "items", "sustain", "down"} /\ received \in 0 .. N
    /\ row \in [Tags -> Rows]
    /\ eng \in [lane : Tags \cup {None}, tag : Tags \cup {None}, before : Nat \cup {NoBase},
                status : {"none", "queued", "executing", "withdrawn", "over"}]
    /\ finished \in [Tags -> Verdicts]
    /\ polls \in [key : Keys \cup {None}, count : 0 .. SustainPolls - 1]
    /\ cell \in [owner : Tags \cup {None}, request : BOOLEAN, done : BOOLEAN,
                 result : {"complete", "failed", "storage"}]
    /\ applied \in [Tags -> Nat]
    /\ ctx \in {"play", "load", "refused"} /\ vials \in BOOLEAN
    /\ crossed \in BOOLEAN /\ events \in 0 .. MaxEvents

\* Nothing is handed over twice, whoever else uses the lane in between.
HandedOverOnce == \A t \in Tags : applied[t] <= 1

\* The command in the lane is the one of the row that is polled next: a sustain
\* row with a baseline before the plan of an item, and that before the first
\* operator grant.  And a request waits in the game's cell for nobody else.
Turn ==
    IF InFlight # {} THEN Sustain(Least(InFlight))
    ELSE IF DueItems # {} THEN Item(Least(DueItems))
    ELSE IF DueOps # {} THEN Op(Least(DueOps))
    ELSE None

LaneIsPolled ==
    /\ ~crossed /\ eng.lane # None => eng.lane = Turn
    /\ cell.request /\ pc # "down" => eng.lane = cell.owner

\* Every row settles: the three users never wait for each other.
Waiting(t) == row[t].st = "queued"
EveryRowSettles ==
    /\ \A t \in Tags : Waiting(t) ~> ~Waiting(t)
    /\ \A i \in 1 .. N : <>(row[Item(i)].st \in {"done", "parked"})

\* The same, unless a row was put before the one whose command is in the lane.
RowsSettleUnlessCrossed ==
    /\ \A t \in Tags : Waiting(t) ~> (~Waiting(t) \/ crossed)
    /\ \A i \in 1 .. N : <>(row[Item(i)].st \in {"done", "parked"} \/ crossed)
=============================================================================
