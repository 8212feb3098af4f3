--------------------------- MODULE SharedLaneProofs ---------------------------
(***************************************************************************)
(* The shared lane for any number of items, operator grants and sustain     *)
(* rewards, any poll limit and any number of crashes, loads, reconnects and *)
(* failed grants.                                                           *)
(***************************************************************************)
EXTENDS SharedLane, FiniteSetTheorems, WellFoundedInduction, TLAPS

-----------------------------------------------------------------------------
(***************************************************************************)
(* The inductive invariant.                                                 *)
(***************************************************************************)
\* A row.  Only a queued one has a baseline, and it was observed before the
\* command ran; a row that may still be published without one has never been
\* handed over; and a row that waits has no verdict.
RowOK(t) ==
    /\ applied[t] <= 1
    /\ row[t].base # NoBase => row[t].base = 0 /\ row[t].st = "queued"
    /\ row[t].base = NoBase /\ row[t].st \in {"none", "queued", "deferred"} => applied[t] = 0
    /\ row[t].st \in {"none", "queued"} => finished[t] = "none"
RowInv == \A t \in Tags : RowOK(t)

\* A request in the game's cell belongs to a row with a baseline that was not
\* handed over, and, in a running process, to the command in the lane.
CellInv ==
    cell.request =>
      /\ ~cell.done
      /\ cell.owner \in Tags
      /\ row[cell.owner].base # NoBase
      /\ applied[cell.owner] = 0
      /\ pc # "down" => eng.lane = cell.owner

\* The command in the lane is being executed for a row with a baseline.
EngineInv ==
    /\ eng.status # "queued"
    /\ pc = "down" => eng.lane = None
    /\ eng.lane # None =>
         /\ eng.status = "executing"
         /\ row[eng.lane].base # NoBase

\* Items are planned in order, one sustain row at a time has a baseline, and
\* the poll that looks for idle work has found no item due.
QueueInv ==
    /\ \A i, j \in 1 .. N : i < j /\ row[Item(j)].st = "queued"
                              => row[Item(i)].st \notin {"none", "queued"}
    /\ \A k, m \in InFlight : k = m
    /\ pc = "sustain" => \A i \in DueItems : i > received

\* What is polled before the command in the lane and has a baseline was not
\* handed over: it waits for the lane since that command was published.
AheadInv ==
    /\ \A k \in Keys : /\ eng.lane # None /\ eng.lane # Sustain(k)
                       /\ row[Sustain(k)].base # NoBase
                       => applied[Sustain(k)] = 0
    /\ \A p \in Ops : eng.lane = Op(p) =>
         /\ pc = "op" /\ DueItems = {} /\ InFlight = {}
         /\ \A o \in Ops : o < p /\ row[Op(o)].base # NoBase => applied[Op(o)] = 0

\* While no row was put before it, no row is polled before the lane's.
UncrossedInv ==
    ~crossed =>
      /\ \A i \in 1 .. N : eng.lane = Item(i) => InFlight = {}
      /\ \A p \in Ops : eng.lane = Op(p) => \A o \in DueOps : p <= o

IInv == /\ TypeOK /\ RowInv /\ CellInv /\ EngineInv
        /\ QueueInv /\ AheadInv /\ UncrossedInv

-----------------------------------------------------------------------------
(***************************************************************************)
(* Least elements.                                                          *)
(***************************************************************************)
\* A set of naturals that is not empty has a least element: the indices a poll
\* of the items chooses from.
LEMMA NatLeast ==
    ASSUME NEW S, S \subseteq Nat, S # {}
    PROVE  \E n \in S : \A m \in S : n <= m
<1> DEFINE R == OpToRel(<, Nat)
<1>1. IsWellFoundedOn(R, Nat)
  BY NatLessThanWellFounded
<1> HIDE DEF R
<1>2. PICK n \in S : \A m \in S : ~ (<<m, n>> \in R)
  BY <1>1, WFMin
<1>3. ASSUME NEW m \in S, m < n PROVE <<m, n>> \in R
  BY <1>3 DEF R, OpToRel
<1>4. \A m \in S : ~(m < n)
  BY <1>2, <1>3
<1>5. \A m \in S : n <= m
  BY <1>4, S \subseteq Nat
<1>6. QED
  BY <1>5

\* So has a finite set of integers: the keys and the item ids that the polls of
\* the sustain rewards and of the operator's grants choose from.
LEMMA FiniteLeast ==
    ASSUME NEW S, S \subseteq Int, IsFiniteSet(S), S # {}
    PROVE  \E x \in S : \A y \in S : x <= y
<1> DEFINE HasLeast(T) == \E x \in T : \A y \in T : x <= y
           Bad == {n \in Nat : \E T \in SUBSET S : T # {} /\ Cardinality(T) = n /\ ~HasLeast(T)}
<1> SUFFICES ASSUME ~HasLeast(S) PROVE FALSE
  OBVIOUS
<1>1. Cardinality(S) \in Bad
  BY FS_CardinalityType
<1>2. PICK n \in Bad : \A m \in Bad : n <= m
  BY <1>1, NatLeast
<1>3. PICK T \in SUBSET S : T # {} /\ Cardinality(T) = n /\ ~HasLeast(T)
  BY <1>2
<1>4. PICK x \in T : TRUE
  BY <1>3
<1>5. IsFiniteSet(T)
  BY FS_Subset
<1>6. /\ IsFiniteSet(T \ {x}) /\ Cardinality(T \ {x}) = n - 1
  BY <1>3, <1>4, <1>5, FS_RemoveElement
<1>7. Cardinality(T \ {x}) \in Nat
  BY <1>6, FS_CardinalityType
<1>8. T \ {x} # {} => HasLeast(T \ {x})
  <2> SUFFICES ASSUME T \ {x} # {}, ~HasLeast(T \ {x}) PROVE FALSE
    OBVIOUS
  <2>1. n - 1 \in Nat /\ n \in Nat
    BY <1>6, <1>7
  <2>2. n - 1 \in Bad
    BY <2>1, <1>6
  <2> HIDE DEF Bad, HasLeast
  <2> QED
    BY <2>1, <2>2, <1>2
<1>9. CASE T \ {x} = {}
  <2>1. T = {x} BY <1>9, <1>4
  <2> QED BY <2>1, <1>3
<1>10. CASE T \ {x} # {}
  <2>1. PICK y \in T \ {x} : \A z \in T \ {x} : y <= z BY <1>8, <1>10
  <2>2. x \in Int /\ y \in Int /\ \A z \in T : z \in Int BY <1>4
  <2>3. CASE x <= y BY <2>1, <2>2, <2>3, <1>3
  <2>4. CASE ~(x <= y) BY <2>1, <2>2, <2>4, <1>3
  <2> QED BY <2>3, <2>4
<1> QED BY <1>9, <1>10

\* Hence the polls choose a row, and none of the others comes before it.
LEMMA LeastIs ==
    ASSUME NEW S, \E x \in S : \A y \in S : x <= y
    PROVE  Least(S) \in S /\ \A y \in S : Least(S) <= y
BY DEF Least

-----------------------------------------------------------------------------
(***************************************************************************)
(* The tags and the rows the polls choose.                                  *)
(***************************************************************************)
\* The commands of the three users are told apart by their tags.
LEMMA TagsApart ==
    /\ \A i \in 1 .. N : Item(i) \in Tags /\ Item(i) \notin Vials
    /\ \A o \in Ops : Op(o) \in Tags /\ Op(o) \notin Vials
    /\ \A k \in Keys : Sustain(k) \in Tags
    /\ \A i, j \in 1 .. N : Item(i) = Item(j) => i = j
    /\ \A o, p \in Ops : Op(o) = Op(p) => o = p
    /\ \A k, m \in Keys : Sustain(k) = Sustain(m) => k = m
    /\ \A i \in 1 .. N : \A o \in Ops : Item(i) # Op(o)
    /\ \A i \in 1 .. N : \A k \in Keys : Item(i) # Sustain(k)
    /\ \A o \in Ops : \A k \in Keys : Op(o) # Sustain(k)
BY DEF Item, Op, Sustain, Tags, Vials

\* Every tag is one of an item, an operator's grant or a sustain reward.
LEMMA TagKinds ==
    ASSUME NEW t \in Tags
    PROVE  \/ \E i \in 1 .. N : t = Item(i)
           \/ \E o \in Ops : t = Op(o)
           \/ \E k \in Keys : t = Sustain(k)
BY DEF Tags

\* The operator's poll takes the first grant that is due.
LEMMA FirstOp ==
    ASSUME DueOps # {}
    PROVE  Least(DueOps) \in DueOps /\ \A o \in DueOps : Least(DueOps) <= o
<1>1. DueOps \subseteq Ops
  BY DEF DueOps
<1>2. DueOps \subseteq Int /\ IsFiniteSet(DueOps)
  BY <1>1, LaneAssumption, FS_Subset
<1> QED
  BY <1>2, FiniteLeast, LeastIs

\* poll_sustain takes a due row, and one with a baseline when there is one.
LEMMA FirstKey ==
    ASSUME DueKeys # {}
    PROVE  /\ NextKey \in DueKeys /\ NextKey \in Keys
           /\ InFlight # {} => NextKey \in InFlight
<1>1. InFlight \subseteq DueKeys /\ DueKeys \subseteq Keys
  BY DEF InFlight, DueKeys
<1>2. InFlight \subseteq Int /\ IsFiniteSet(InFlight) /\ DueKeys \subseteq Int /\ IsFiniteSet(DueKeys)
  BY <1>1, LaneAssumption, FS_Subset
<1>3. InFlight # {} => Least(InFlight) \in InFlight
  BY <1>2, FiniteLeast, LeastIs
<1>4. Least(DueKeys) \in DueKeys
  BY <1>2, FiniteLeast, LeastIs
<1> QED
  BY <1>1, <1>3, <1>4 DEF NextKey

\* poll_items takes the first item that is not settled.
LEMMA FirstItem ==
    /\ NextIndex \in 1 .. N + 1
    /\ NextIndex = N + 1 \/ row[Item(NextIndex)].st \in {"none", "queued"}
    /\ \A i \in 1 .. N : i < NextIndex => row[Item(i)].st \notin {"none", "queued"}
<1> DEFINE S == {i \in 1 .. N + 1 : i = N + 1 \/ row[Item(i)].st \in {"none", "queued"}}
<1>1. S \subseteq Nat /\ N + 1 \in S
  BY LaneAssumption
<1>2. NextIndex \in S /\ \A i \in S : NextIndex <= i
  <2> HIDE DEF S
  <2>1. \E x \in S : \A y \in S : x <= y
    BY <1>1, NatLeast
  <2>2. Least(S) \in S /\ \A y \in S : Least(S) <= y
    BY <2>1, LeastIs
  <2> QED
    BY <2>2 DEF NextIndex, S
<1>3. ASSUME NEW i \in 1 .. N, i < NextIndex, row[Item(i)].st \in {"none", "queued"}
      PROVE  FALSE
  <2>1. i \in S
    BY <1>3, LaneAssumption
  <2> QED
    BY <2>1, <1>2, <1>3, LaneAssumption
<1> QED
  BY <1>2, <1>3

\* The vial that is released is a deferred one.
LEMMA FirstDeferred ==
    ASSUME DeferredKeys # {}
    PROVE  Least(DeferredKeys) \in DeferredKeys
<1>1. DeferredKeys \subseteq Keys
  BY DEF DeferredKeys
<1>2. DeferredKeys \subseteq Int /\ IsFiniteSet(DeferredKeys)
  BY <1>1, LaneAssumption, FS_Subset
<1> QED
  BY <1>2, FiniteLeast, LeastIs

-----------------------------------------------------------------------------
(***************************************************************************)
(* The kinds of step.                                                       *)
(***************************************************************************)
\* What every step leaves to the type invariant besides the rows and the lane.
Scalars ==
    /\ pc \in {"op", "items", "sustain", "down"} /\ received \in 0 .. N
    /\ polls \in [key : Keys \cup {None}, count : 0 .. SustainPolls - 1]
    /\ ctx \in {"play", "load", "refused"} /\ vials \in BOOLEAN
    /\ crossed \in BOOLEAN /\ events \in 0 .. MaxEvents

\* A step that changes no row and nothing in the lane.
LEMMA QuietStep ==
    ASSUME IInv, Scalars', UNCHANGED <<row, eng, finished, cell, applied, crossed>>,
           pc' = "down" <=> pc = "down",
           pc' = "sustain" => \A i \in DueItems : i > received',
           \A p \in Ops : eng.lane = Op(p) => pc' = "op"
    PROVE  IInv'
<1>1. TypeOK'
  BY DEF IInv, TypeOK, Scalars
<1>2. RowInv'
  BY DEF IInv, RowInv, RowOK
<1>3. CellInv'
  BY DEF IInv, CellInv
<1>4. EngineInv'
  BY DEF IInv, EngineInv
<1>5. DueItems' = DueItems /\ DueOps' = DueOps /\ InFlight' = InFlight
  BY DEF DueItems, DueOps, InFlight, DueKeys
<1>6. QueueInv'
  BY <1>5 DEF IInv, QueueInv
<1>7. AheadInv'
  BY <1>5 DEF IInv, AheadInv
<1>8. UncrossedInv'
  BY <1>5 DEF IInv, UncrossedInv
<1> QED
  BY <1>1, <1>2, <1>3, <1>4, <1>6, <1>7, <1>8 DEF IInv

\* A row whose command was not published gets its baseline.  A sustain row gets
\* one only from the poll for idle work, when no other has one.
LEMMA BaselineStep ==
    ASSUME IInv, NEW t \in Tags, row[t].st = "queued", row[t].base = NoBase,
           RecordBaseline(t), UNCHANGED <<received, world, events>>,
           \A k \in Keys : t = Sustain(k) => pc = "sustain" /\ InFlight = {}
    PROVE  IInv'
<1>0. /\ UNCHANGED <<pc, eng, finished, cell, polls, received, applied, ctx, vials, events>>
      /\ row' = [row EXCEPT ![t].base = applied[t]]
      /\ crossed' \in BOOLEAN
  BY DEF RecordBaseline, native, world, IInv, TypeOK
<1>1. applied[t] = 0 /\ row \in [Tags -> Rows]
  BY DEF IInv, RowInv, RowOK, TypeOK
<1>2. /\ row' \in [Tags -> Rows] /\ row'[t].st = "queued" /\ row'[t].base = 0
      /\ \A u \in Tags : u # t => row'[u] = row[u]
      /\ \A u \in Tags : row'[u].st = row[u].st
      /\ \A u \in Tags : row[u].base # NoBase => row'[u].base # NoBase
  BY <1>0, <1>1 DEF Rows, NoBase
<1>3. TypeOK'
  BY <1>0, <1>2 DEF IInv, TypeOK
<1>4. RowInv'
  BY <1>0, <1>1, <1>2 DEF IInv, RowInv, RowOK, NoBase
<1>5. CellInv'
  BY <1>0, <1>2 DEF IInv, CellInv
<1>6. EngineInv'
  <2>1. eng.lane # None => eng.lane \in Tags
    BY DEF IInv, TypeOK
  <2> QED
    BY <1>0, <1>2, <2>1 DEF IInv, EngineInv
<1>7. DueItems' = DueItems /\ DueOps' = DueOps /\ DueKeys' = DueKeys
  BY <1>2, TagsApart DEF DueItems, DueOps, DueKeys
<1>8. \/ InFlight' = InFlight /\ \A k \in Keys : t # Sustain(k)
      \/ \E k \in Keys : t = Sustain(k) /\ InFlight' = {k} /\ InFlight = {} /\ pc = "sustain"
  <2>1. CASE \E k \in Keys : t = Sustain(k)
    <3>1. PICK k \in Keys : t = Sustain(k)
      BY <2>1
    <3>2. InFlight = {} /\ pc = "sustain"
      BY <3>1
    <3>3. \A m \in Keys : m # k => row'[Sustain(m)] = row[Sustain(m)]
      BY <3>1, <1>2, TagsApart
    <3>4. InFlight' = {k}
      BY <3>1, <3>2, <3>3, <1>2, <1>7 DEF InFlight, DueKeys, NoBase
    <3> QED
      BY <3>1, <3>2, <3>4
  <2>2. CASE \A k \in Keys : t # Sustain(k)
    <3>1. \A k \in Keys : row'[Sustain(k)] = row[Sustain(k)]
      BY <2>2, <1>2, TagsApart
    <3> QED
      BY <2>2, <3>1 DEF InFlight, DueKeys
  <2> QED
    BY <2>1, <2>2
<1>9. QueueInv'
  <2>1. \A i \in 1 .. N : row'[Item(i)].st = row[Item(i)].st
    BY <1>2, TagsApart
  <2> QED
    BY <1>0, <2>1, <1>7, <1>8 DEF IInv, QueueInv
<1>10. AheadInv'
  <2>1. ASSUME NEW k \in Keys, eng.lane # None, eng.lane # Sustain(k),
               row'[Sustain(k)].base # NoBase
        PROVE  applied[Sustain(k)] = 0
    BY <2>1, <1>1, <1>2, TagsApart DEF IInv, AheadInv
  <2>2. ASSUME NEW p \in Ops, eng.lane = Op(p)
        PROVE  /\ pc = "op" /\ DueItems = {} /\ InFlight' = {}
               /\ \A o \in Ops : o < p /\ row'[Op(o)].base # NoBase => applied[Op(o)] = 0
    <3>1. pc = "op" /\ DueItems = {} /\ InFlight = {}
      BY <2>2 DEF IInv, AheadInv
    <3>2. ASSUME NEW o \in Ops, o < p, row'[Op(o)].base # NoBase
          PROVE  applied[Op(o)] = 0
      BY <3>2, <2>2, <1>1, <1>2, TagsApart DEF IInv, AheadInv
    <3> QED
      BY <3>1, <3>2, <1>8
  <2> QED
    BY <1>0, <1>7, <2>1, <2>2 DEF AheadInv
<1>11. UncrossedInv'
  <2>1. ASSUME ~crossed', NEW i \in 1 .. N, eng.lane = Item(i)
        PROVE  InFlight' = {}
    <3>1. ~crossed /\ ~ \E j \in received + 1 .. N : eng.lane = Item(j)
      BY <2>1 DEF RecordBaseline, IInv, TypeOK
    <3>2. InFlight = {}
      BY <2>1, <3>1 DEF IInv, UncrossedInv
    <3>3. ASSUME pc = "sustain" PROVE FALSE
      <4>1. Item(i) \in Tags /\ row[Item(i)].base # NoBase
        BY <2>1, TagsApart, NoneAssumption DEF IInv, EngineInv
      <4>2. i \in DueItems
        BY <4>1 DEF IInv, RowInv, RowOK, DueItems
      <4>3. i > received /\ received \in Nat
        BY <3>3, <4>2, LaneAssumption DEF IInv, QueueInv, TypeOK
      <4> QED
        BY <2>1, <3>1, <4>3, LaneAssumption
    <3> QED
      BY <3>2, <3>3, <1>8
  <2>2. ASSUME ~crossed', NEW p \in Ops, eng.lane = Op(p)
        PROVE  \A o \in DueOps' : p <= o
    <3>1. ~crossed
      BY <2>2 DEF RecordBaseline, IInv, TypeOK
    <3> QED
      BY <3>1, <2>2, <1>7 DEF IInv, UncrossedInv
  <2> QED
    BY <2>1, <2>2, <1>0 DEF UncrossedInv
<1> QED
  BY <1>3, <1>4, <1>5, <1>6, <1>9, <1>10, <1>11 DEF IInv

\* A row is queued without a baseline, and nothing of the lane changes: an item
\* is planned in its turn, a checked location's reward or an operator's grant is
\* queued, or a deferred Vial is released with its verdict forgotten.
LEMMA EnqueueStep ==
    ASSUME IInv, NEW t \in Tags, row[t].st \in {"none", "deferred"},
           row' = [row EXCEPT ![t] = Queued], finished' = [finished EXCEPT ![t] = "none"],
           Scalars', UNCHANGED <<pc, received, eng, cell, applied>>, crossed => crossed',
           \A i \in 1 .. N : t = Item(i) => i = NextIndex /\ pc = "items",
           \A o, p \in Ops : t = Op(o) /\ eng.lane = Op(p) /\ o < p => crossed'
    PROVE  IInv'
<1>1. row[t].base = NoBase /\ applied[t] = 0 /\ row \in [Tags -> Rows]
  <2>1. row[t].base = NoBase /\ row \in [Tags -> Rows]
    BY DEF IInv, RowInv, RowOK, TypeOK
  <2> QED
    BY <2>1 DEF IInv, RowInv, RowOK
<1>2. /\ row' \in [Tags -> Rows] /\ row'[t].st = "queued" /\ row'[t].base = NoBase
      /\ \A u \in Tags : u # t => row'[u] = row[u]
      /\ \A u \in Tags : row'[u].base = row[u].base
      /\ finished' \in [Tags -> Verdicts] /\ finished'[t] = "none"
      /\ \A u \in Tags : u # t => finished'[u] = finished[u]
  <2>1. finished \in [Tags -> Verdicts]
    BY DEF IInv, TypeOK
  <2> QED
    BY <1>1, <2>1 DEF Rows, NoBase, Queued, Verdicts
<1>3. TypeOK'
  BY <1>2 DEF IInv, TypeOK, Scalars
<1>4. RowInv'
  BY <1>1, <1>2 DEF IInv, RowInv, RowOK
<1>5. CellInv'
  BY <1>2 DEF IInv, CellInv
<1>6. EngineInv'
  <2>1. eng.lane # None => eng.lane \in Tags
    BY DEF IInv, TypeOK
  <2> QED
    BY <1>2, <2>1 DEF IInv, EngineInv
<1>7. InFlight' = InFlight
  <2>1. ASSUME NEW k \in Keys
        PROVE  k \in InFlight' <=> k \in InFlight
    <3>1. CASE Sustain(k) = t
      BY <3>1, <1>1, <1>2 DEF InFlight, DueKeys
    <3>2. CASE Sustain(k) # t
      BY <3>2, <1>2, TagsApart DEF InFlight, DueKeys
    <3> QED
      BY <3>1, <3>2
  <2>2. InFlight \subseteq Keys /\ InFlight' \subseteq Keys
    BY DEF InFlight, DueKeys
  <2> QED
    BY <2>1, <2>2
<1>8. CASE \E i \in 1 .. N : t = Item(i)
  <2>1. PICK i \in 1 .. N : t = Item(i)
    BY <1>8
  <2>2. /\ pc = "items"
        /\ \A j \in 1 .. N : j < i => row[Item(j)].st \notin {"none", "queued"}
        /\ row[Item(i)].st \in {"none", "queued"}
    BY <2>1, FirstItem, LaneAssumption
  <2>3. \A j \in 1 .. N : j # i => row'[Item(j)] = row[Item(j)]
    BY <2>1, <1>2, TagsApart
  <2>4. ASSUME NEW j, NEW m, j \in 1 .. N, m \in 1 .. N, j < m, row'[Item(m)].st = "queued"
        PROVE  row'[Item(j)].st \notin {"none", "queued"}
    <3>1. CASE m = i
      BY <3>1, <2>2, <2>3, <2>4
    <3>2. CASE m # i
      <4>1. row[Item(j)].st \notin {"none", "queued"}
        BY <3>2, <2>3, <2>4 DEF IInv, QueueInv
      <4>2. j # i
        BY <4>1, <2>2
      <4> QED
        BY <4>1, <4>2, <2>3, <2>4
    <3> QED
      BY <3>1, <3>2
  <2>5. QueueInv'
    BY <2>2, <2>4, <1>7 DEF IInv, QueueInv
  <2>6. \A p \in Ops : eng.lane # Op(p)
    BY <2>2 DEF IInv, AheadInv
  <2>7. AheadInv'
    BY <2>6, <1>2, TagsApart DEF IInv, AheadInv
  <2>8. UncrossedInv'
    BY <2>6, <1>7 DEF IInv, UncrossedInv, Scalars
  <2> QED
    BY <1>3, <1>4, <1>5, <1>6, <2>5, <2>7, <2>8 DEF IInv
<1>9. CASE \A i \in 1 .. N : t # Item(i)
  <2>1. \A i \in 1 .. N : row'[Item(i)] = row[Item(i)]
    BY <1>9, <1>2, TagsApart
  <2>2. DueItems' = DueItems
    BY <2>1 DEF DueItems
  <2>3. QueueInv'
    BY <2>1, <2>2, <1>7 DEF IInv, QueueInv
  <2>4. AheadInv'
    BY <2>2, <1>2, <1>7, TagsApart DEF IInv, AheadInv
  <2>5. ASSUME ~crossed', NEW p \in Ops, eng.lane = Op(p), NEW o \in DueOps'
        PROVE  p <= o
    <3>1. o \in Ops /\ row'[Op(o)].st = "queued" /\ p \in Int /\ o \in Int
      BY LaneAssumption DEF DueOps
    <3>2. CASE t = Op(o)
      BY <2>5, <3>1, <3>2
    <3>3. CASE t # Op(o)
      <4>1. o \in DueOps
        BY <3>1, <3>3, <1>2, TagsApart DEF DueOps
      <4> QED
        BY <2>5, <4>1 DEF IInv, UncrossedInv
    <3> QED
      BY <3>2, <3>3
  <2>6. UncrossedInv'
    BY <2>5, <1>7 DEF IInv, UncrossedInv
  <2> QED
    BY <1>3, <1>4, <1>5, <1>6, <2>3, <2>4, <2>6 DEF IInv
<1> QED
  BY <1>8, <1>9

\* The command of a row with a baseline is published in an empty lane: a sustain
\* command any time, another only when no sustain row has a baseline, and an
\* operator's only when no item is due and no grant comes before it.
Published(t) ==
    /\ eng.lane = None /\ applied[t] = 0
    /\ eng' = [lane |-> t, tag |-> t, status |-> "executing", before |-> row[t].base]
    /\ cell' = [owner |-> t, request |-> TRUE, done |-> FALSE, result |-> "failed"]
    /\ finished' = finished

\* Publishing keeps the invariant: the request is for a row that was not handed over.
LEMMA PublishStep ==
    ASSUME IInv, NEW t \in Tags, row[t].base # NoBase, Published(t), Scalars',
           UNCHANGED <<row, applied, crossed>>, pc' = "op", pc # "down",
           InFlight = {} \/ \E k \in Keys : t = Sustain(k),
           \A p \in Ops : t = Op(p) => DueItems = {} /\ \A o \in DueOps : p <= o
    PROVE  IInv'
<1>1. row[t].base \in Nat /\ t # None
  BY NoneAssumption DEF IInv, TypeOK, Rows
<1>2. TypeOK'
  BY <1>1 DEF IInv, TypeOK, Scalars, Published
<1>3. RowInv'
  BY DEF IInv, RowInv, RowOK, Published
<1>4. CellInv'
  BY DEF CellInv, Published
<1>5. EngineInv'
  BY DEF EngineInv, Published
<1>6. DueItems' = DueItems /\ DueOps' = DueOps /\ InFlight' = InFlight
  BY DEF DueItems, DueOps, InFlight, DueKeys
<1>7. QueueInv'
  BY <1>6 DEF IInv, QueueInv
<1>8. AheadInv'
  <2>1. ASSUME NEW k \in Keys, t # Sustain(k), row[Sustain(k)].base # NoBase
        PROVE  FALSE
    <3>1. Sustain(k) \in Tags
      BY TagsApart
    <3>2. k \in InFlight
      BY <2>1, <3>1 DEF IInv, RowInv, RowOK, InFlight, DueKeys
    <3>3. PICK m \in Keys : t = Sustain(m)
      BY <3>2
    <3>4. m \in InFlight
      BY <3>3 DEF IInv, RowInv, RowOK, InFlight, DueKeys
    <3> QED
      BY <2>1, <3>2, <3>3, <3>4 DEF IInv, QueueInv
  <2>2. ASSUME NEW p \in Ops, t = Op(p)
        PROVE  /\ DueItems = {} /\ InFlight = {}
               /\ \A o \in Ops : o < p /\ row[Op(o)].base # NoBase => applied[Op(o)] = 0
    <3>1. DueItems = {} /\ InFlight = {}
      BY <2>2, TagsApart
    <3>2. ASSUME NEW o \in Ops, o < p, row[Op(o)].base # NoBase
          PROVE  FALSE
      <4>1. o \in DueOps
        BY <3>2, TagsApart DEF IInv, RowInv, RowOK, DueOps
      <4> QED
        BY <2>2, <3>2, <4>1, LaneAssumption
    <3> QED
      BY <3>1, <3>2
  <2> QED
    BY <2>1, <2>2, <1>6 DEF AheadInv, Published
<1>9. UncrossedInv'
  BY <1>6, TagsApart DEF UncrossedInv, Published
<1> QED
  BY <1>2, <1>3, <1>4, <1>5, <1>7, <1>8, <1>9 DEF IInv

\* A command is over and its row is settled with it.
Engines == [lane : Tags \cup {None}, tag : Tags \cup {None}, before : Nat \cup {NoBase},
            status : {"none", "queued", "executing", "withdrawn", "over"}]
Cells   == [owner : Tags \cup {None}, request : BOOLEAN, done : BOOLEAN,
            result : {"complete", "failed", "storage"}]
Over(t, v) ==
    /\ eng' \in Engines /\ eng'.lane = None /\ eng'.status = "over"
    /\ cell' \in Cells /\ ~cell'.request
    /\ finished' = [finished EXCEPT ![t] = v]

\* Settling keeps the invariant: nothing is left in the lane or in the cell.
LEMMA OverStep ==
    ASSUME IInv, NEW t \in Tags, NEW v \in Verdicts, Over(t, v), Scalars',
           NEW st \in {"done", "parked", "retired", "deferred", "blocked"}, Settled(t, st),
           st = "deferred" => applied[t] = 0,
           UNCHANGED <<applied, crossed>>, pc' \in {"op", "items"}
    PROVE  IInv'
<1>1. /\ row' \in [Tags -> Rows] /\ row'[t].st = st /\ row'[t].base = NoBase
      /\ \A u \in Tags : u # t => row'[u] = row[u]
      /\ finished' \in [Tags -> Verdicts]
      /\ \A u \in Tags : u # t => finished'[u] = finished[u]
  <2>1. finished \in [Tags -> Verdicts] /\ row \in [Tags -> Rows]
    BY DEF IInv, TypeOK
  <2>2. [st |-> st, base |-> NoBase] \in Rows
    BY DEF Rows
  <2> QED
    BY <2>1, <2>2 DEF Settled, Over
<1>2. TypeOK'
  BY <1>1 DEF IInv, TypeOK, Scalars, Over, Engines, Cells
<1>3. RowInv'
  <2>1. ASSUME NEW u \in Tags
        PROVE  RowOK(u)'
    <3>1. CASE u = t
      BY <3>1, <1>1 DEF IInv, RowInv, RowOK
    <3>2. CASE u # t
      BY <3>2, <1>1 DEF IInv, RowInv, RowOK
    <3> QED
      BY <3>1, <3>2
  <2> QED
    BY <2>1 DEF RowInv
<1>4. CellInv'
  BY DEF CellInv, Over
<1>5. EngineInv'
  BY DEF EngineInv, Over
<1>6. QueueInv'
  <2>1. ASSUME NEW i \in 1 .. N
        PROVE  /\ row'[Item(i)].st = "queued" => row[Item(i)].st = "queued"
               /\ row[Item(i)].st \notin {"none", "queued"}
                     => row'[Item(i)].st \notin {"none", "queued"}
    BY <1>1, TagsApart
  <2>2. InFlight' \subseteq InFlight
    BY <1>1, TagsApart DEF InFlight, DueKeys
  <2> QED
    BY <2>1, <2>2 DEF IInv, QueueInv
<1>7. AheadInv' /\ UncrossedInv'
  <2>1. \A u \in Tags : eng'.lane # u
    BY NoneAssumption DEF Over
  <2> QED
    BY <2>1, TagsApart DEF AheadInv, UncrossedInv, Over
<1> QED
  BY <1>2, <1>3, <1>4, <1>5, <1>6, <1>7 DEF IInv

\* The command in the lane is withdrawn before the game took it, and the row that
\* was polled, which was never handed over, loses its baseline or keeps it.
LEMMA WithdrawStep ==
    ASSUME IInv, NEW t \in Tags, row[t].st = "queued", Withdrawable, Withdraw,
           row' = row \/ (row' = [row EXCEPT ![t].base = NoBase] /\ applied[t] = 0),
           pc' = "op", Scalars', UNCHANGED <<applied, crossed>>
    PROVE  IInv'
<1>1. /\ row' \in [Tags -> Rows]
      /\ \A u \in Tags : row'[u].st = row[u].st
      /\ \A u \in Tags : row'[u] = row[u] \/ (row'[u].base = NoBase /\ applied[u] = 0)
  <2>1. row \in [Tags -> Rows]
    BY DEF IInv, TypeOK
  <2> QED
    BY <2>1 DEF Rows
<1>2. /\ eng' \in Engines /\ eng'.lane = None /\ eng'.status = "withdrawn"
      /\ cell' \in Cells /\ ~cell'.request /\ finished' = finished
  BY DEF IInv, TypeOK, Withdraw, Cleared, Engines, Cells
<1>3. TypeOK'
  BY <1>1, <1>2 DEF IInv, TypeOK, Scalars, Engines, Cells
<1>4. RowInv'
  BY <1>1, <1>2 DEF IInv, RowInv, RowOK
<1>5. CellInv' /\ EngineInv'
  BY <1>2 DEF CellInv, EngineInv
<1>6. QueueInv'
  <2>1. \A i \in 1 .. N : row'[Item(i)].st = row[Item(i)].st
    BY <1>1, TagsApart
  <2>2. InFlight' \subseteq InFlight
    BY <1>1, TagsApart DEF InFlight, DueKeys
  <2> QED
    BY <2>1, <2>2 DEF IInv, QueueInv
<1>7. AheadInv' /\ UncrossedInv'
  <2>1. \A u \in Tags : eng'.lane # u
    BY <1>2, NoneAssumption
  <2> QED
    BY <2>1, <1>2, TagsApart DEF AheadInv, UncrossedInv
<1> QED
  BY <1>3, <1>4, <1>5, <1>6, <1>7 DEF IInv

-----------------------------------------------------------------------------
(***************************************************************************)
(* What the engine answers for a row with a baseline.                       *)
(***************************************************************************)
\* The request is always for the command in the lane, so the lane is empty only
\* while the cell is free.
LEMMA FreeCell ==
    ASSUME IInv, pc # "down", eng.lane = None
    PROVE  ~cell.request
BY NoneAssumption DEF IInv, CellInv

\* A row with a baseline is queued, has no verdict and keeps its baseline.
LEMMA Observed ==
    ASSUME IInv, NEW t \in Tags, row[t].base # NoBase
    PROVE  /\ row[t].st = "queued" /\ row[t].base = 0 /\ finished[t] = "none"
           /\ Baseline(t) = row[t].base
           /\ [row EXCEPT ![t].base = Baseline(t)] = row
<1>1. row[t].st = "queued" /\ row[t].base = 0 /\ finished[t] = "none"
  BY DEF IInv, RowInv, RowOK
<1>2. Baseline(t) = row[t].base
  BY DEF Baseline, MayHaveApplied, IInv, EngineInv
<1>3. row \in [Tags -> Rows]
  BY DEF IInv, TypeOK
<1>4. [row EXCEPT ![t].base = row[t].base] = row
  BY <1>3 DEF Rows
<1> QED
  BY <1>1, <1>2, <1>4

\* What it answers.  Only a Vial that was not handed over is deferred.
LEMMA VerdictIs ==
    ASSUME IInv, NEW t \in Tags, row[t].base # NoBase
    PROVE  \E v \in {Verdict(t, row[t].base)} :
             /\ v \in {"busy", "pending", "complete", "failed", "storage", "vial"}
             /\ v # "busy" => eng.lane \in {None, t}
             /\ v = "vial" => applied[t] = 0 /\ t \in Vials
<1>1. finished[t] = "none" /\ row[t].base = 0
  BY Observed
<1>2. cell \in Cells /\ applied \in [Tags -> Nat] /\ t # None
  BY NoneAssumption DEF IInv, TypeOK, Cells
<1>3. CASE eng.lane \notin {None, t}
  BY <1>1, <1>3 DEF Verdict
<1>4. CASE eng.lane = t
  <2>1. eng.status = "executing"
    BY <1>2, <1>4 DEF IInv, EngineInv
  <2> QED
    BY <1>1, <1>2, <1>4, <2>1 DEF Verdict, Session, Cells
<1>5. CASE eng.lane = None
  BY <1>1, <1>2, <1>5 DEF Verdict, Session
<1> QED
  BY <1>3, <1>4, <1>5

\* And what it does: nothing, it publishes the command, or the command is over.
LEMMA GrantDoes ==
    ASSUME IInv, pc # "down", NEW t \in Tags, row[t].base # NoBase, Grant(t, row[t].base)
    PROVE  \E v \in {Verdict(t, row[t].base)} :
             \/ v \in {"busy", "pending"} /\ UNCHANGED native
             \/ v = "pending" /\ Published(t)
             \/ v \notin {"busy", "pending"} /\ Over(t, v)
<1> DEFINE v == Verdict(t, row[t].base)
           s == Session(t, row[t].base)
<1>1. finished[t] = "none" /\ row[t].base = 0 /\ t # None
  BY Observed, NoneAssumption
<1>2. cell \in Cells /\ eng \in Engines /\ applied \in [Tags -> Nat]
  BY DEF IInv, TypeOK, Cells, Engines
<1>3. s \in Engines
  BY <1>1, <1>2 DEF Session, Engines
<1>4. CASE v = "busy"
  BY <1>1, <1>4 DEF Grant
<1>5. CASE v = "pending"
  <2>1. CASE s.status = "executing"
    BY <1>1, <1>5, <2>1 DEF Grant
  <2>2. CASE s.status # "executing"
    <3>1. eng.lane = None
      <4>1. eng.lane # t
        BY <2>2, <1>1 DEF Session, IInv, EngineInv
      <4>2. eng.lane \in {None, t}
        BY <1>5, VerdictIs
      <4> QED
        BY <4>1, <4>2
    <3>2. s = [lane |-> t, tag |-> t, status |-> "queued", before |-> row[t].base]
      BY <3>1, <1>1 DEF Session
    <3>3. applied[t] = 0
      BY <1>1, <1>2, <1>5, <3>1, <3>2 DEF Verdict
    <3>4. /\ eng' = [s EXCEPT !.status = "executing"]
          /\ cell' = [owner |-> t, request |-> TRUE, done |-> FALSE, result |-> "failed"]
          /\ finished' = finished
      BY <1>1, <1>5, <2>2 DEF Grant
    <3> QED
      BY <1>5, <3>1, <3>2, <3>3, <3>4 DEF Published
  <2> QED
    BY <2>1, <2>2
<1>6. CASE v \notin {"busy", "pending"}
  <2>1. /\ eng' = [s EXCEPT !.lane = None, !.status = "over"]
        /\ finished' = [finished EXCEPT ![t] = v] /\ cell' = cell
    BY <1>1, <1>6 DEF Grant
  <2>2. ~cell.request
    <3>1. eng.lane \in {None, t}
      BY <1>6, VerdictIs
    <3>2. CASE eng.lane = None
      BY <3>2, FreeCell
    <3>3. CASE eng.lane = t
      <4>1. s = eng /\ eng.status = "executing"
        BY <3>3, <1>1 DEF Session, IInv, EngineInv
      <4>2. cell.done
        BY <1>1, <1>6, <3>3, <4>1 DEF Verdict
      <4> QED
        BY <4>2 DEF IInv, CellInv
    <3> QED
      BY <3>1, <3>2, <3>3
  <2>3. eng' \in Engines /\ eng'.lane = None /\ eng'.status = "over"
    BY <1>3, <2>1 DEF Engines
  <2> QED
    BY <1>2, <1>6, <2>1, <2>2, <2>3 DEF Over
<1> QED
  BY <1>4, <1>5, <1>6

-----------------------------------------------------------------------------
(***************************************************************************)
(* The polls.                                                               *)
(***************************************************************************)
\* poll_sustain forgets the count of the pending polls or counts up to its limit.
LEMMA PollsTyped ==
    /\ [key |-> None, count |-> 0] \in [key : Keys \cup {None}, count : 0 .. SustainPolls - 1]
    /\ \A k \in Keys : TypeOK /\ ~TimedOut(k)
         => [key |-> k, count |-> Count(k)] \in [key : Keys \cup {None}, count : 0 .. SustainPolls - 1]
BY LaneAssumption DEF TypeOK, TimedOut, Count

\* A lane that is lost is withdrawn or left alone.
LEMMA NotWithdrawn ==
    ASSUME ~Withdrawable, Withdraw
    PROVE  UNCHANGED native
BY DEF Withdraw, native

\* Whatever is in the cell can be withdrawn, and it is the lane's.
LEMMA WithdrawnIsLane ==
    ASSUME IInv, pc # "down", Withdrawable
    PROVE  /\ eng.lane \in Tags /\ row[eng.lane].base # NoBase
           /\ row[eng.lane].st = "queued" /\ applied[eng.lane] = 0
<1>1. eng.lane \in Tags /\ row[eng.lane].base # NoBase /\ applied[eng.lane] = 0
  BY DEF IInv, CellInv, Withdrawable
<1> QED
  BY <1>1, Observed

\* poll_sustain outside gameplay: the command in the lane is withdrawn, whosever it is.
LEMMA SustainLostStep ==
    ASSUME IInv, pc # "down", DueKeys # {}, SustainLost(Sustain(NextKey)),
           UNCHANGED <<received, world, events>>
    PROVE  IInv'
<1> DEFINE t == Sustain(NextKey)
<1>1. t \in Tags /\ row[t].st = "queued" /\ NextKey \in Keys
  BY FirstKey, TagsApart DEF DueKeys
<1>2. Scalars' /\ pc' = "op" /\ UNCHANGED <<applied, crossed>>
  BY DEF SustainLost, Scalars, IInv, TypeOK, world
<1>3. CASE UNCHANGED <<native, row>>
  <2>1. UNCHANGED <<row, eng, finished, cell>>
    BY <1>3 DEF native
  <2> QED
    BY <1>2, <2>1, QuietStep
<1>4. CASE Withdraw /\ ~Withdrawable /\ row' = row
  BY <1>2, <1>3, <1>4, NotWithdrawn
<1>5. CASE Withdraw /\ Withdrawable /\ row' = [row EXCEPT ![t].base = NoBase]
  <2>1. applied[t] = 0
    <3>1. CASE row[t].base = NoBase
      BY <1>1, <3>1 DEF IInv, RowInv, RowOK
    <3>2. CASE row[t].base # NoBase /\ eng.lane = t
      BY <1>5, <3>2, WithdrawnIsLane
    <3>3. CASE row[t].base # NoBase /\ eng.lane # t
      BY <1>1, <1>5, <3>3, WithdrawnIsLane, NoneAssumption DEF IInv, AheadInv
    <3> QED
      BY <3>1, <3>2, <3>3
  <2> QED
    BY <1>1, <1>2, <1>5, <2>1, WithdrawStep
<1> QED
  BY <1>3, <1>4, <1>5 DEF SustainLost

\* poll_sustain's grant: it waits, publishes, retires at the poll limit or settles.
LEMMA SustainGrantStep ==
    ASSUME IInv, pc # "down", NEW next \in {"op", "items"}, NEW k \in Keys,
           row[Sustain(k)].base # NoBase, SustainGrant(k, next),
           UNCHANGED <<received, world, events>>
    PROVE  IInv'
<1> DEFINE t == Sustain(k)
           v == Verdict(t, row[t].base)
<1>1. t \in Tags
  BY TagsApart
<1>2. Baseline(t) = row[t].base /\ [row EXCEPT ![t].base = row[t].base] = row
  BY <1>1, Observed
<1>3. /\ v \in {"busy", "pending", "complete", "failed", "storage", "vial"}
      /\ v # "busy" => eng.lane \in {None, t}
      /\ v = "vial" => applied[t] = 0
  BY <1>1, VerdictIs
<1>4. /\ UNCHANGED <<applied, crossed>>
      /\ pc' \in {"op", "items"} /\ polls' \in [key : Keys \cup {None}, count : 0 .. SustainPolls - 1]
      => Scalars'
  BY DEF Scalars, IInv, TypeOK, world
<1>5. UNCHANGED <<applied, crossed>>
  BY DEF SustainGrant, world
<1> HIDE DEF t, v
<1>6. \/ /\ v = "busy" /\ Grant(t, row[t].base) /\ row' = row /\ pc' = "op" /\ UNCHANGED polls
      \/ /\ v = "pending" /\ ~TimedOut(k) /\ Grant(t, row[t].base) /\ row' = row
         /\ pc' = "op" /\ polls' = [key |-> k, count |-> Count(k)]
      \/ /\ v = "pending" /\ TimedOut(k) /\ Retire(t) /\ Settled(t, "retired")
         /\ pc' = next /\ polls' = [key |-> None, count |-> 0]
      \/ /\ v \in {"complete", "failed"} /\ Grant(t, row[t].base)
         /\ Settled(t, IF v = "complete" THEN "done" ELSE "retired")
         /\ pc' = next /\ polls' = [key |-> None, count |-> 0]
      \/ /\ v \in {"vial", "storage"} /\ Grant(t, row[t].base)
         /\ Settled(t, IF v = "vial" THEN "deferred" ELSE "blocked")
         /\ pc' = "op" /\ polls' = [key |-> None, count |-> 0]
  BY <1>2 DEF SustainGrant, t, v
<1>7. CASE v \in {"busy", "pending"} /\ Grant(t, row[t].base) /\ row' = row /\ pc' = "op"
  <2>1. Scalars'
    BY <1>4, <1>5, <1>6, <1>7, PollsTyped DEF IInv, TypeOK
  <2>2. row[t].base # NoBase
    BY DEF t
  <2>3. \/ UNCHANGED native
        \/ Published(t)
    BY <1>1, <1>7, <2>2, GrantDoes DEF v
  <2>4. CASE UNCHANGED native
    BY <1>5, <1>7, <2>1, <2>4, QuietStep DEF native
  <2>5. CASE Published(t)
    <3>1. \A p \in Ops : t # Op(p)
      BY TagsApart DEF t
    <3> QED
      BY <1>1, <1>5, <1>7, <2>1, <2>2, <2>5, <3>1, PublishStep DEF t
  <2> QED
    BY <2>3, <2>4, <2>5
<1>8. CASE v = "pending" /\ Retire(t) /\ Settled(t, "retired")
           /\ pc' = next /\ polls' = [key |-> None, count |-> 0]
  <2>1. Over(t, "failed")
    <3>1. eng \in Engines /\ cell \in Cells
      BY DEF IInv, TypeOK, Engines, Cells
    <3>2. eng' \in Engines /\ eng'.lane = None /\ eng'.status = "over"
      BY <1>8, <3>1 DEF Retire, Engines
    <3>3. cell' \in Cells /\ ~cell'.request
      BY <1>8, <3>1 DEF Retire, Cells, Cleared, Withdrawable, IInv, CellInv
    <3> QED
      BY <1>8, <3>2, <3>3 DEF Over, Retire
  <2>2. Scalars'
    BY <1>4, <1>5, <1>8, PollsTyped
  <2> QED
    BY <1>1, <1>5, <1>8, <2>1, <2>2, OverStep DEF Verdicts
<1>9. ASSUME v \notin {"busy", "pending"}, Grant(t, row[t].base), pc' \in {"op", "items"},
             polls' = [key |-> None, count |-> 0],
             NEW st \in {"done", "parked", "retired", "deferred", "blocked"}, Settled(t, st),
             st = "deferred" => v = "vial"
      PROVE  IInv'
  <2>1. Scalars'
    BY <1>4, <1>5, <1>9, PollsTyped
  <2>2. row[t].base # NoBase
    BY DEF t
  <2>3. Over(t, v)
    BY <1>1, <1>9, <2>2, GrantDoes DEF v
  <2>4. v \in Verdicts
    BY <1>3, <1>9 DEF Verdicts
  <2> QED
    BY <1>1, <1>3, <1>5, <1>9, <2>1, <2>3, <2>4, OverStep
<1>10. CASE /\ v \in {"complete", "failed"} /\ Grant(t, row[t].base)
            /\ Settled(t, IF v = "complete" THEN "done" ELSE "retired")
            /\ pc' = next /\ polls' = [key |-> None, count |-> 0]
  <2>1. CASE v = "complete"
    BY <1>9, <1>10, <2>1
  <2>2. CASE v = "failed"
    BY <1>9, <1>10, <2>2
  <2> QED
    BY <1>10, <2>1, <2>2
<1>11. CASE /\ v \in {"vial", "storage"} /\ Grant(t, row[t].base)
            /\ Settled(t, IF v = "vial" THEN "deferred" ELSE "blocked")
            /\ pc' = "op" /\ polls' = [key |-> None, count |-> 0]
  <2>1. CASE v = "vial"
    BY <1>9, <1>11, <2>1
  <2>2. CASE v = "storage"
    BY <1>9, <1>11, <2>2
  <2> QED
    BY <1>11, <2>1, <2>2
<1> QED
  BY <1>6, <1>7, <1>8, <1>10, <1>11

\* poll_sustain: for the reward in flight, or from the poll for idle work.
LEMMA SustainPollStep ==
    ASSUME IInv, pc # "down", NEW next \in {"op", "items"}, SustainPoll(next),
           pc = "sustain" \/ InFlight # {}, next = "op" \/ pc # "op",
           UNCHANGED <<received, world, events>>
    PROVE  IInv'
<1>1. CASE DueKeys = {} /\ pc' = next /\ UNCHANGED <<native, row, polls, crossed>>
  <2>1. Scalars' /\ UNCHANGED <<row, eng, finished, cell, applied, crossed>>
    BY <1>1 DEF Scalars, IInv, TypeOK, world, native
  <2>2. \A p \in Ops : eng.lane = Op(p) => pc' = "op"
    BY <1>1 DEF IInv, AheadInv
  <2> QED
    BY <1>1, <2>1, <2>2, QuietStep
<1>2. CASE DueKeys # {} /\ SustainLost(Sustain(NextKey))
  BY <1>2, SustainLostStep
<1>3. CASE DueKeys # {} /\ row[Sustain(NextKey)].base = NoBase /\ RecordBaseline(Sustain(NextKey))
  <2>1. NextKey \in Keys /\ row[Sustain(NextKey)].st = "queued"
    BY <1>3, FirstKey DEF DueKeys
  <2>2. InFlight = {} /\ pc = "sustain"
    BY <1>3, FirstKey DEF InFlight
  <2> QED
    BY <1>3, <2>1, <2>2, TagsApart, BaselineStep
<1>4. CASE DueKeys # {} /\ row[Sustain(NextKey)].base # NoBase /\ SustainGrant(NextKey, next)
  BY <1>4, FirstKey, SustainGrantStep
<1> QED
  BY <1>1, <1>2, <1>3, <1>4 DEF SustainPoll

\* A Vial that was deferred is queued again while the lane is empty.
LEMMA ReleaseVialStep ==
    ASSUME IInv, VialReady, ReleaseVial, UNCHANGED <<received, world, events>>
    PROVE  IInv'
<1> DEFINE k == Least(DeferredKeys)
           t == Sustain(k)
<1>1. k \in Keys /\ row[t].st = "deferred"
  BY FirstDeferred DEF VialReady, DeferredKeys
<1>2. t \in Tags /\ (\A i \in 1 .. N : t # Item(i)) /\ (\A o \in Ops : t # Op(o))
  BY <1>1, TagsApart
<1>3. row \in [Tags -> Rows] /\ row[t].base = NoBase
  BY <1>1, <1>2 DEF IInv, TypeOK, RowInv, RowOK
<1>4. row' = [row EXCEPT ![t] = Queued]
  <2>1. row' = [row EXCEPT ![t].st = "queued"]
    BY DEF ReleaseVial
  <2> HIDE DEF t
  <2>2. row[t] \in Rows
    BY <1>2, <1>3
  <2>3. [row[t] EXCEPT !.st = "queued"] = Queued
    BY <1>3, <2>2 DEF Queued, Rows
  <2> QED
    BY <1>3, <2>1, <2>3
<1>5. finished' = [finished EXCEPT ![t] = "none"]
  BY DEF ReleaseVial
<1>6. Scalars' /\ UNCHANGED <<pc, received, eng, cell, applied>> /\ (crossed => crossed')
  BY DEF ReleaseVial, Scalars, IInv, TypeOK, world
<1> QED
  BY <1>1, <1>2, <1>4, <1>5, <1>6, EnqueueStep

\* The first operator's grant, when no item is due and no reward is in flight.
LEMMA OperatorLostStep ==
    ASSUME IInv, pc = "op", DueOps # {}, DueItems = {}, InFlight = {},
           OperatorLost(Op(Least(DueOps))), UNCHANGED <<received, world, events>>
    PROVE  IInv'
<1> DEFINE o == Least(DueOps)
           t == Op(o)
<1>1. /\ o \in Ops /\ t \in Tags /\ row[t].st = "queued"
      /\ \A p \in DueOps : o <= p
  BY FirstOp, TagsApart DEF DueOps
<1>2. Scalars' /\ pc' = "op" /\ UNCHANGED <<applied, crossed>>
  BY DEF OperatorLost, Scalars, IInv, TypeOK, world
<1>3. CASE ~Withdrawable
  <2>1. UNCHANGED <<row, eng, finished, cell>>
    BY <1>3, NotWithdrawn DEF OperatorLost, native
  <2> QED
    BY <1>2, <2>1, QuietStep
<1>4. CASE Withdrawable
  <2>1. applied[t] = 0
    <3>1. CASE row[t].base = NoBase
      BY <1>1, <3>1 DEF IInv, RowInv, RowOK
    <3>2. CASE row[t].base # NoBase
      <4>1. /\ eng.lane \in Tags /\ row[eng.lane].base # NoBase
            /\ row[eng.lane].st = "queued" /\ applied[eng.lane] = 0
        BY <1>4, WithdrawnIsLane
      <4>2. /\ \A i \in 1 .. N : eng.lane # Item(i)
            /\ \A k \in Keys : eng.lane # Sustain(k)
        BY <4>1 DEF DueItems, InFlight, DueKeys
      <4>3. PICK p \in Ops : eng.lane = Op(p)
        BY <4>1, <4>2, TagKinds
      <4>4. p \in DueOps
        BY <4>1, <4>3 DEF DueOps
      <4>5. o = p \/ o < p
        BY <1>1, <4>4, LaneAssumption
      <4> QED
        BY <1>1, <3>2, <4>1, <4>3, <4>5 DEF IInv, AheadInv
    <3> QED
      BY <3>1, <3>2
  <2>2. Withdraw /\ row' = [row EXCEPT ![t].base = NoBase]
    BY <1>4 DEF OperatorLost
  <2> QED
    BY <1>1, <1>2, <1>4, <2>1, <2>2, WithdrawStep
<1> QED
  BY <1>3, <1>4

\* poll_operator_grant's grant: it waits, publishes, or settles the row.
LEMMA OperatorGrantStep ==
    ASSUME IInv, pc = "op", DueOps # {}, DueItems = {}, InFlight = {},
           row[Op(Least(DueOps))].base # NoBase, OperatorGrant(Least(DueOps)),
           UNCHANGED <<received, world, events>>
    PROVE  IInv'
<1> DEFINE o == Least(DueOps)
           t == Op(o)
           v == Verdict(t, row[t].base)
<1>1. o \in Ops /\ t \in Tags /\ \A p \in DueOps : o <= p
  BY FirstOp, TagsApart DEF DueOps
<1>2. /\ v \in {"busy", "pending", "complete", "failed", "storage", "vial"}
      /\ v = "vial" => t \in Vials
  BY <1>1, VerdictIs
<1>3. v # "vial"
  BY <1>1, <1>2, TagsApart
<1>4. /\ UNCHANGED <<applied, crossed>> /\ pc' \in {"op", "items"} /\ Scalars'
  BY DEF OperatorGrant, Scalars, IInv, TypeOK, world
<1>5. \/ v \in {"busy", "pending"} /\ UNCHANGED native
      \/ v = "pending" /\ Published(t)
      \/ v \notin {"busy", "pending"} /\ Over(t, v)
  BY <1>1, GrantDoes DEF OperatorGrant
<1> HIDE DEF v
<1>6. \/ v \in {"busy", "pending"} /\ pc' = "op" /\ row' = row
      \/ v = "complete" /\ Settled(t, "done")
      \/ v \in {"failed", "storage"} /\ Settled(t, "parked")
  BY DEF OperatorGrant, v
<1>7. CASE v \in {"busy", "pending"} /\ UNCHANGED native
  BY <1>4, <1>6, <1>7, QuietStep DEF native
<1>8. CASE v = "pending" /\ Published(t)
  <2>1. \A p \in Ops : t = Op(p) => p = o
    BY <1>1, TagsApart
  <2> QED
    BY <1>1, <1>4, <1>6, <1>8, <2>1, PublishStep
<1>9. CASE v \notin {"busy", "pending"} /\ Over(t, v)
  <2>1. PICK st \in {"done", "parked"} : Settled(t, st)
    BY <1>6, <1>9
  <2>2. v \in Verdicts
    BY <1>2, <1>9 DEF Verdicts
  <2> QED
    BY <1>1, <1>4, <1>9, <2>1, <2>2, OverStep
<1> QED
  BY <1>5, <1>7, <1>8, <1>9

\* poll_operator_grant gives way to a due item and to the reward in flight.
LEMMA OperatorPollStep ==
    ASSUME IInv, OperatorPoll, UNCHANGED <<received, world, events>>
    PROVE  IInv'
<1>1. pc = "op"
  BY DEF OperatorPoll
<1>2. CASE OperatorIdle /\ pc' = "items" /\ UNCHANGED <<native, row, polls, crossed>>
  <2>1. Scalars' /\ UNCHANGED <<row, eng, finished, cell, applied, crossed>>
    BY <1>2 DEF Scalars, IInv, TypeOK, world, native
  <2>2. ASSUME NEW p \in Ops, eng.lane = Op(p)
        PROVE  FALSE
    <3>1. DueItems = {} /\ row[Op(p)].base # NoBase
      BY <2>2, TagsApart, NoneAssumption DEF IInv, AheadInv, EngineInv
    <3>2. p \in DueOps
      BY <3>1, TagsApart DEF IInv, RowInv, RowOK, DueOps
    <3> QED
      BY <1>2, <3>1, <3>2 DEF OperatorIdle
  <2> QED
    BY <1>1, <1>2, <2>1, <2>2, QuietStep
<1>3. CASE InFlight # {} /\ SustainPoll("op")
  BY <1>1, <1>3, SustainPollStep
<1>4. CASE ~OperatorIdle /\ InFlight = {} /\ OperatorLost(Op(Least(DueOps)))
  BY <1>1, <1>4, OperatorLostStep DEF OperatorIdle
<1>5. CASE ~OperatorIdle /\ InFlight = {} /\ row[Op(Least(DueOps))].base = NoBase
           /\ RecordBaseline(Op(Least(DueOps)))
  <2>1. Least(DueOps) \in Ops /\ row[Op(Least(DueOps))].st = "queued"
    BY <1>5, FirstOp DEF OperatorIdle, DueOps
  <2> QED
    BY <1>5, <2>1, TagsApart, BaselineStep
<1>6. CASE ~OperatorIdle /\ InFlight = {} /\ row[Op(Least(DueOps))].base # NoBase
           /\ OperatorGrant(Least(DueOps))
  BY <1>1, <1>6, OperatorGrantStep DEF OperatorIdle
<1> QED
  BY <1>2, <1>3, <1>4, <1>5, <1>6 DEF OperatorPoll

\* The next item of the stream, when no reward is in flight.
LEMMA ItemLostStep ==
    ASSUME IInv, pc = "items", InFlight = {}, NEW i \in 1 .. N, i = NextIndex,
           ItemLost(Item(i)), UNCHANGED <<received, world, events>>
    PROVE  IInv'
<1> DEFINE t == Item(i)
<1>1. t \in Tags
  BY TagsApart
<1>2. Scalars' /\ pc' = "op" /\ UNCHANGED <<applied, crossed>>
  BY DEF ItemLost, Scalars, IInv, TypeOK, world
<1>3. CASE UNCHANGED <<native, row>>
  BY <1>2, <1>3, QuietStep DEF native
<1>4. CASE row[t].st = "queued" /\ Withdraw /\ Withdrawable
  <2>1. applied[t] = 0
    <3>1. /\ eng.lane \in Tags /\ row[eng.lane].base # NoBase
          /\ row[eng.lane].st = "queued" /\ applied[eng.lane] = 0
      BY <1>4, WithdrawnIsLane
    <3>2. /\ \A p \in Ops : eng.lane # Op(p)
          /\ \A k \in Keys : eng.lane # Sustain(k)
      BY <3>1 DEF InFlight, DueKeys, IInv, AheadInv
    <3>3. PICK j \in 1 .. N : eng.lane = Item(j)
      BY <3>1, <3>2, TagKinds
    <3>4. ~(j < i) /\ ~(i < j)
      BY <1>4, <3>1, <3>3, FirstItem DEF IInv, QueueInv
    <3> QED
      BY <3>1, <3>3, <3>4
  <2>2. row' = row \/ row' = [row EXCEPT ![t].base = NoBase]
    BY DEF ItemLost
  <2> QED
    BY <1>1, <1>2, <1>4, <2>1, <2>2, WithdrawStep
<1>5. CASE ~Withdrawable \/ row[t].st # "queued"
  <2>1. UNCHANGED <<native, row>>
    BY <1>5, NotWithdrawn DEF ItemLost
  <2> QED
    BY <1>3, <2>1
<1> QED
  BY <1>4, <1>5 DEF ItemLost

\* poll_items' grant: it waits, publishes, or settles the row.
LEMMA ItemGrantStep ==
    ASSUME IInv, pc = "items", InFlight = {}, NEW i \in 1 .. N, row[Item(i)].base # NoBase,
           ItemGrant(Item(i)), UNCHANGED <<received, world, events>>
    PROVE  IInv'
<1> DEFINE t == Item(i)
           v == Verdict(t, row[t].base)
<1>1. t \in Tags
  BY TagsApart
<1>2. Baseline(t) = row[t].base /\ [row EXCEPT ![t].base = row[t].base] = row
  BY <1>1, Observed
<1>3. v \in {"busy", "pending", "complete", "failed", "storage"}
  BY <1>1, VerdictIs, TagsApart
<1>4. UNCHANGED <<applied, crossed>> /\ pc' = "op" /\ Scalars'
  BY DEF ItemGrant, Scalars, IInv, TypeOK, world
<1>5. \/ v \in {"busy", "pending"} /\ UNCHANGED native
      \/ v = "pending" /\ Published(t)
      \/ v \notin {"busy", "pending"} /\ Over(t, v)
  BY <1>1, <1>2, GrantDoes DEF ItemGrant
<1> HIDE DEF t, v
<1>6. \/ v \in {"busy", "pending"} /\ row' = row
      \/ v = "complete" /\ Settled(t, "done")
      \/ v \in {"failed", "storage"} /\ Settled(t, "parked")
  BY <1>2 DEF ItemGrant, t, v
<1>7. CASE v \in {"busy", "pending"} /\ UNCHANGED native
  BY <1>4, <1>6, <1>7, QuietStep DEF native
<1>8. CASE v = "pending" /\ Published(t)
  <2>1. (\A p \in Ops : t # Op(p)) /\ row[t].base # NoBase
    BY TagsApart DEF t
  <2> QED
    BY <1>1, <1>4, <1>6, <1>8, <2>1, PublishStep
<1>9. CASE v \notin {"busy", "pending"} /\ Over(t, v)
  <2>1. PICK st \in {"done", "parked"} : Settled(t, st)
    BY <1>6, <1>9
  <2>2. v \in Verdicts
    BY <1>3, <1>9 DEF Verdicts
  <2> QED
    BY <1>1, <1>4, <1>9, <2>1, <2>2, OverStep
<1> QED
  BY <1>5, <1>7, <1>8, <1>9

\* poll_items releases a Vial, drives the reward in flight, or polls its next item.
LEMMA ItemPollStep ==
    ASSUME IInv, ItemPoll, UNCHANGED <<received, world, events>>
    PROVE  IInv'
<1>1. pc = "items"
  BY DEF ItemPoll
<1>2. CASE VialReady /\ ReleaseVial
  BY <1>2, ReleaseVialStep
<1>3. CASE SustainFirst /\ SustainPoll("items")
  BY <1>1, <1>3, SustainPollStep DEF SustainFirst
<1>4. CASE NextIndex > received /\ pc' = "sustain" /\ UNCHANGED <<native, row, polls, crossed>>
  <2>1. Scalars' /\ UNCHANGED <<row, eng, finished, cell, applied, crossed>>
    BY <1>4 DEF Scalars, IInv, TypeOK, world, native
  <2>2. \A p \in Ops : eng.lane # Op(p)
    BY <1>1 DEF IInv, AheadInv
  <2>3. ASSUME NEW i \in DueItems
        PROVE  i > received'
    <3>1. i \in 1 .. N /\ ~(i < NextIndex)
      BY FirstItem DEF DueItems
    <3> QED
      BY <1>4, <3>1, FirstItem, LaneAssumption DEF IInv, TypeOK
  <2> QED
    BY <1>1, <1>4, <2>1, <2>2, <2>3, QuietStep
<1>5. ASSUME ~SustainFirst, NextIndex <= received
      PROVE  InFlight = {} /\ NextIndex \in 1 .. N
  BY <1>5, FirstItem, LaneAssumption DEF IInv, TypeOK, SustainFirst
<1>6. CASE ~SustainFirst /\ NextIndex <= received /\ ItemLost(Item(NextIndex))
  BY <1>1, <1>5, <1>6, ItemLostStep
<1>7. CASE /\ ~SustainFirst /\ NextIndex <= received
           /\ row[Item(NextIndex)].st = "none" /\ PlanItem(Item(NextIndex))
  <2> DEFINE t == Item(NextIndex)
  <2>1. t \in Tags /\ NextIndex \in 1 .. N
    BY <1>5, <1>7, TagsApart
  <2>2. /\ Scalars' /\ UNCHANGED <<pc, received, eng, cell, applied, crossed, finished>>
        /\ row' = [row EXCEPT ![t] = Queued]
    BY <1>7 DEF PlanItem, Scalars, IInv, TypeOK, world, native
  <2>3. finished' = [finished EXCEPT ![t] = "none"]
    BY <1>7, <2>1, <2>2 DEF IInv, RowInv, RowOK, TypeOK
  <2>4. (\A i \in 1 .. N : t = Item(i) => i = NextIndex) /\ \A o \in Ops : t # Op(o)
    BY <2>1, TagsApart
  <2> QED
    BY <1>1, <1>7, <2>1, <2>2, <2>3, <2>4, EnqueueStep
<1>8. CASE /\ ~SustainFirst /\ NextIndex <= received
           /\ row[Item(NextIndex)].st = "queued" /\ row[Item(NextIndex)].base = NoBase
           /\ RecordBaseline(Item(NextIndex))
  <2>1. Item(NextIndex) \in Tags /\ \A k \in Keys : Item(NextIndex) # Sustain(k)
    BY <1>5, <1>8, TagsApart
  <2> QED
    BY <1>8, <2>1, BaselineStep
<1>9. CASE /\ ~SustainFirst /\ NextIndex <= received
           /\ row[Item(NextIndex)].base # NoBase /\ ItemGrant(Item(NextIndex))
  BY <1>1, <1>5, <1>9, ItemGrantStep
<1> QED
  BY <1>2, <1>3, <1>4, <1>6, <1>7, <1>8, <1>9 DEF ItemPoll

\* Every poll of a pass keeps the invariant.
LEMMA PollStep ==
    ASSUME IInv, Poll
    PROVE  IInv'
<1>1. CASE OperatorPoll
  BY <1>1, OperatorPollStep DEF Poll
<1>2. CASE ItemPoll
  BY <1>2, ItemPollStep DEF Poll
<1>3. CASE IdlePoll
  <2>1. pc = "sustain"
    BY <1>3 DEF IdlePoll
  <2>2. CASE VialReady /\ ReleaseVial
    BY <2>2, ReleaseVialStep DEF Poll
  <2>3. CASE SustainPoll("op")
    BY <2>1, <2>3, SustainPollStep DEF Poll
  <2> QED
    BY <1>3, <2>2, <2>3 DEF IdlePoll
<1> QED
  BY <1>1, <1>2, <1>3 DEF Poll

-----------------------------------------------------------------------------
(***************************************************************************)
(* The process, the game and what the rows come from.                       *)
(***************************************************************************)
\* The new process takes back the request it finds, since its row still waits.
LEMMA StartUpStep ==
    ASSUME IInv, StartUp
    PROVE  IInv'
<1>1. pc = "down" /\ pc' = "op" /\ eng.lane = None
      /\ UNCHANGED <<received, row, eng, finished, polls, applied, ctx, vials, crossed, events>>
  BY DEF StartUp, world, IInv, EngineInv
<1>2. cell' \in Cells /\ ~cell'.request
  <2>1. cell \in Cells
    BY DEF IInv, TypeOK, Cells
  <2>2. ASSUME cell.request
        PROVE  Withdrawable /\ \E t \in Tags : row[t].st \in {"queued", "deferred", "blocked"}
    <3>1. ~cell.done /\ cell.owner \in Tags /\ row[cell.owner].base # NoBase
      BY <2>2 DEF IInv, CellInv
    <3> QED
      BY <2>2, <3>1, Observed DEF Withdrawable
  <2> QED
    BY <2>1, <2>2 DEF StartUp, Cleared, Cells
<1>3. TypeOK'
  BY <1>1, <1>2 DEF IInv, TypeOK, Cells
<1>4. RowInv' /\ CellInv' /\ EngineInv'
  BY <1>1, <1>2 DEF IInv, RowInv, RowOK, CellInv, EngineInv
<1>5. DueItems' = DueItems /\ DueOps' = DueOps /\ InFlight' = InFlight
  BY <1>1 DEF DueItems, DueOps, InFlight, DueKeys
<1>6. QueueInv'
  BY <1>1, <1>5 DEF IInv, QueueInv
<1>7. AheadInv' /\ UncrossedInv'
  BY <1>1, TagsApart, NoneAssumption DEF AheadInv, UncrossedInv
<1> QED
  BY <1>3, <1>4, <1>6, <1>7 DEF IInv

\* A process that ends leaves the rows and the game's cell as they are.
LEMMA CrashStep ==
    ASSUME IInv, Crash
    PROVE  IInv'
<1>1. /\ pc' = "down" /\ received' = 0 /\ eng' = NewEngine
      /\ finished' = [t \in Tags |-> "none"] /\ polls' = [key |-> None, count |-> 0]
      /\ UNCHANGED <<row, cell, applied, ctx, vials, crossed>>
      /\ events' \in 0 .. MaxEvents
  BY LaneAssumption DEF Crash, world, Happens, IInv, TypeOK
<1>2. TypeOK'
  <2>1. eng' \in Engines /\ finished' \in [Tags -> Verdicts]
    BY <1>1 DEF NewEngine, Engines, Verdicts, NoBase
  <2>2. received' \in 0 .. N
    BY <1>1, LaneAssumption
  <2> QED
    BY <1>1, <2>1, <2>2, PollsTyped DEF IInv, TypeOK, Engines
<1>3. RowInv' /\ CellInv' /\ EngineInv'
  BY <1>1 DEF IInv, RowInv, RowOK, CellInv, EngineInv, NewEngine
<1>4. InFlight' = InFlight
  BY <1>1 DEF InFlight, DueKeys
<1>5. QueueInv'
  BY <1>1, <1>4 DEF IInv, QueueInv
<1>6. AheadInv' /\ UncrossedInv'
  BY <1>1, TagsApart, NoneAssumption DEF AheadInv, UncrossedInv, NewEngine
<1> QED
  BY <1>2, <1>3, <1>5, <1>6 DEF IInv

\* The game hands over the lane's command, or that of a process that has ended;
\* it was not handed over before.
LEMMA ServeStep ==
    ASSUME IInv, NEW result \in {"complete", "failed", "storage"}, Serve(result)
    PROVE  IInv'
<1>1. /\ cell.request /\ ~cell.done
      /\ cell' = [cell EXCEPT !.request = FALSE, !.done = TRUE, !.result = result]
      /\ UNCHANGED <<pc, received, row, eng, finished, polls, ctx, vials, crossed>>
  BY DEF Serve, Withdrawable
<1>2. /\ cell.owner \in Tags /\ row[cell.owner].base # NoBase /\ applied[cell.owner] = 0
      /\ pc # "down" => eng.lane = cell.owner
  BY <1>1 DEF IInv, CellInv
<1>3. cell' \in Cells /\ ~cell'.request
  BY <1>1 DEF IInv, TypeOK, Cells
<1>4. /\ applied' \in [Tags -> Nat] /\ applied'[cell.owner] <= 1
      /\ \A u \in Tags : u # cell.owner => applied'[u] = applied[u]
  <2>1. applied \in [Tags -> Nat]
    BY DEF IInv, TypeOK
  <2>2. CASE result = "complete"
    BY <1>2, <2>1, <2>2 DEF Serve
  <2>3. CASE result # "complete"
    BY <1>2, <2>1, <2>3 DEF Serve
  <2> QED
    BY <2>2, <2>3
<1>5. events' \in 0 .. MaxEvents
  BY LaneAssumption DEF Serve, Happens, IInv, TypeOK
<1>6. TypeOK'
  BY <1>1, <1>3, <1>4, <1>5 DEF IInv, TypeOK, Cells
<1>7. RowInv'
  <2>1. ASSUME NEW u \in Tags
        PROVE  RowOK(u)'
    <3>1. CASE u = cell.owner
      BY <3>1, <1>1, <1>2, <1>4 DEF IInv, RowInv, RowOK
    <3>2. CASE u # cell.owner
      BY <3>2, <1>1, <1>4 DEF IInv, RowInv, RowOK
    <3> QED
      BY <3>1, <3>2
  <2> QED
    BY <2>1 DEF RowInv
<1>8. CellInv' /\ EngineInv'
  BY <1>1, <1>3 DEF IInv, CellInv, EngineInv
<1>9. DueItems' = DueItems /\ DueOps' = DueOps /\ InFlight' = InFlight
  BY <1>1 DEF DueItems, DueOps, InFlight, DueKeys
<1>10. QueueInv' /\ UncrossedInv'
  BY <1>1, <1>9 DEF IInv, QueueInv, UncrossedInv
<1>11. AheadInv'
  <2>1. eng.lane # None => eng.lane = cell.owner
    BY <1>2 DEF IInv, EngineInv
  <2>2. ASSUME NEW k \in Keys, eng.lane # None, eng.lane # Sustain(k),
               row[Sustain(k)].base # NoBase
        PROVE  applied'[Sustain(k)] = 0
    BY <2>1, <2>2, <1>4, TagsApart DEF IInv, AheadInv
  <2>3. ASSUME NEW p \in Ops, eng.lane = Op(p)
        PROVE  /\ pc = "op" /\ DueItems = {} /\ InFlight = {}
               /\ \A o \in Ops : o < p /\ row[Op(o)].base # NoBase => applied'[Op(o)] = 0
    <3>1. cell.owner = Op(p)
      BY <2>1, <2>3, TagsApart, NoneAssumption
    <3>2. ASSUME NEW o \in Ops, o < p
          PROVE  Op(o) \in Tags /\ Op(o) # cell.owner
      BY <3>1, <3>2, TagsApart, LaneAssumption
    <3> QED
      BY <2>3, <3>2, <1>4 DEF IInv, AheadInv
  <2> QED
    BY <2>2, <2>3, <1>1, <1>9 DEF AheadInv
<1> QED
  BY <1>6, <1>7, <1>8, <1>10, <1>11 DEF IInv

\* A checked location queues its reward.
LEMMA CheckStep ==
    ASSUME IInv, NEW k \in Keys, Check(k)
    PROVE  IInv'
<1> DEFINE t == Sustain(k)
<1>1. t \in Tags /\ (\A i \in 1 .. N : t # Item(i)) /\ \A o \in Ops : t # Op(o)
  BY TagsApart
<1>2. /\ row[t].st = "none" /\ row' = [row EXCEPT ![t] = Queued] /\ Scalars'
      /\ UNCHANGED <<pc, received, eng, finished, cell, applied, crossed>>
  BY DEF Check, native, world, Scalars, IInv, TypeOK
<1>3. finished' = [finished EXCEPT ![t] = "none"]
  BY <1>1, <1>2 DEF IInv, RowInv, RowOK, TypeOK
<1> QED
  BY <1>1, <1>2, <1>3, EnqueueStep

\* The operator gives an item; one before the grant in the lane crosses it.
LEMMA GiveStep ==
    ASSUME IInv, NEW o \in Ops, Give(o)
    PROVE  IInv'
<1> DEFINE t == Op(o)
<1>1. t \in Tags /\ (\A i \in 1 .. N : t # Item(i)) /\ \A q \in Ops : t = Op(q) => q = o
  BY TagsApart
<1>2. /\ row[t].st = "none" /\ row' = [row EXCEPT ![t] = Queued]
      /\ crossed' = (crossed \/ \E p \in Ops : eng.lane = Op(p) /\ o < p)
      /\ UNCHANGED <<pc, received, eng, finished, cell, applied>>
  BY DEF Give, native, world
<1>3. crossed' \in BOOLEAN
  BY <1>2 DEF IInv, TypeOK
<1>4. Scalars'
  BY <1>3 DEF Give, world, Scalars, IInv, TypeOK
<1>5. finished' = [finished EXCEPT ![t] = "none"]
  BY <1>1, <1>2 DEF IInv, RowInv, RowOK, TypeOK
<1> QED
  BY <1>1, <1>2, <1>4, <1>5, EnqueueStep

\* The connection, the game's context and the player's Vials touch no row.
LEMMA OutsideStep ==
    ASSUME IInv, Receive \/ Reconnect \/ LeavePlay \/ ReturnToPlay \/ FindVial
    PROVE  IInv'
<1>1. /\ UNCHANGED <<pc, row, eng, finished, cell, applied, crossed>>
      /\ received' = received \/ pc = "op"
  BY DEF Receive, Reconnect, LeavePlay, ReturnToPlay, FindVial, native, world
<1>2. Scalars'
  <2>1. Scalars
    BY DEF IInv, TypeOK, Scalars
  <2>2. CASE Receive
    BY <2>1, <2>2, LaneAssumption DEF Receive, Scalars, world
  <2>3. CASE Reconnect
    BY <2>1, <2>3, LaneAssumption DEF Reconnect, Scalars, world, Happens
  <2>4. CASE LeavePlay
    BY <2>1, <2>4, LaneAssumption DEF LeavePlay, Scalars, Happens
  <2>5. CASE ReturnToPlay
    BY <2>1, <2>5 DEF ReturnToPlay, Scalars
  <2>6. CASE FindVial
    BY <2>1, <2>6 DEF FindVial, Scalars
  <2> QED
    BY <2>2, <2>3, <2>4, <2>5, <2>6
<1>3. /\ pc' = "sustain" => \A i \in DueItems : i > received'
      /\ \A p \in Ops : eng.lane = Op(p) => pc' = "op"
  BY <1>1 DEF IInv, QueueInv, AheadInv
<1> QED
  BY <1>1, <1>2, <1>3, QuietStep

-----------------------------------------------------------------------------
(***************************************************************************)
(* The theorems.                                                            *)
(***************************************************************************)
\* The initial states have the invariant.
LEMMA InitIInv ==
    ASSUME Init
    PROVE  IInv
<1>1. TypeOK
  <2>1. NoRow \in Rows
    BY DEF NoRow, Rows
  <2>2. row \in [Tags -> Rows] /\ finished \in [Tags -> Verdicts] /\ applied \in [Tags -> Nat]
    BY <2>1 DEF Init, Verdicts
  <2>3. eng \in Engines /\ cell \in Cells
    BY DEF Init, NewEngine, Engines, Cells, NoBase
  <2>4. received \in 0 .. N /\ events \in 0 .. MaxEvents
    BY LaneAssumption DEF Init
  <2> QED
    BY <2>2, <2>3, <2>4, PollsTyped DEF Init, TypeOK, Engines, Cells
<1>2. \A t \in Tags : row[t].st = "none" /\ row[t].base = NoBase /\ applied[t] = 0
                      /\ finished[t] = "none"
  BY DEF Init, NoRow
<1>3. RowInv
  BY <1>2 DEF RowInv, RowOK
<1>4. CellInv /\ EngineInv
  BY DEF Init, NewEngine, CellInv, EngineInv
<1>5. QueueInv
  <2>1. InFlight = {}
    BY <1>2, TagsApart DEF InFlight, DueKeys
  <2> QED
    BY <1>2, <2>1, TagsApart DEF QueueInv, Init
<1>6. AheadInv /\ UncrossedInv
  BY TagsApart, NoneAssumption DEF Init, NewEngine, AheadInv, UncrossedInv
<1> QED
  BY <1>1, <1>3, <1>4, <1>5, <1>6 DEF IInv

\* Every step keeps the invariant.
LEMMA NextIInv ==
    ASSUME IInv, [Next]_vars
    PROVE  IInv'
<1>1. CASE Poll
  BY <1>1, PollStep
<1>2. CASE StartUp
  BY <1>2, StartUpStep
<1>3. CASE \E k \in Keys : Check(k)
  BY <1>3, CheckStep
<1>4. CASE \E o \in Ops : Give(o)
  BY <1>4, GiveStep
<1>5. CASE Receive \/ Reconnect \/ LeavePlay \/ ReturnToPlay \/ FindVial
  BY <1>5, OutsideStep
<1>6. CASE \E result \in {"complete", "failed", "storage"} : Serve(result)
  BY <1>6, ServeStep
<1>7. CASE Crash
  BY <1>7, CrashStep
<1>8. CASE UNCHANGED vars
  <2>1. UNCHANGED <<row, eng, finished, cell, applied, crossed, pc, received>> /\ Scalars'
    BY <1>8 DEF vars, Scalars, IInv, TypeOK
  <2>2. /\ pc' = "sustain" => \A i \in DueItems : i > received'
        /\ \A p \in Ops : eng.lane = Op(p) => pc' = "op"
    BY <2>1 DEF IInv, QueueInv, AheadInv
  <2> QED
    BY <2>1, <2>2, QuietStep
<1> QED
  BY <1>1, <1>2, <1>3, <1>4, <1>5, <1>6, <1>7, <1>8 DEF Next

\* The inductive invariant holds of every behaviour of the loop, the game and the
\* operator.
THEOREM LaneInvariant == Spec => []IInv
<1>1. Init => IInv
  BY InitIInv
<1>2. IInv /\ [Next]_vars => IInv'
  BY NextIInv
<1> QED
  BY <1>1, <1>2, PTL DEF Spec

\* The state of the shared lane keeps its type.
THEOREM LaneTyped == Spec => []TypeOK
<1>1. IInv => TypeOK
  BY DEF IInv
<1> QED
  BY <1>1, LaneInvariant, PTL

\* Whoever of poll_items, poll_sustain and poll_operator_grant uses the lane in
\* between, and whatever crashes, loads and failed grants come, the game hands
\* nothing over twice.
THEOREM NothingHandedOverTwice == Spec => []HandedOverOnce
<1>1. IInv => HandedOverOnce
  BY DEF IInv, RowInv, RowOK, HandedOverOnce
<1> QED
  BY <1>1, LaneInvariant, PTL

\* The lane's row is the one whose turn it is.
LEMMA InvLaneIsPolled ==
    ASSUME IInv
    PROVE  LaneIsPolled
<1>1. cell.request /\ pc # "down" => eng.lane = cell.owner
  BY DEF IInv, CellInv
<1>2. ASSUME ~crossed, eng.lane # None
      PROVE  eng.lane = Turn
  <2>1. eng.lane \in Tags /\ row[eng.lane].base # NoBase /\ row[eng.lane].st = "queued"
    <3>1. eng.lane \in Tags /\ row[eng.lane].base # NoBase
      BY <1>2 DEF IInv, TypeOK, EngineInv
    <3> QED
      BY <3>1, Observed
  <2>2. CASE \E k \in Keys : eng.lane = Sustain(k)
    <3>1. PICK k \in Keys : eng.lane = Sustain(k)
      BY <2>2
    <3>2. k \in InFlight /\ \A m \in InFlight : m = k
      BY <2>1, <3>1 DEF InFlight, DueKeys, IInv, QueueInv
    <3>3. DueKeys # {} /\ InFlight # {}
      BY <3>2 DEF InFlight
    <3>4. Least(InFlight) = k
      BY <3>2, <3>3, FirstKey DEF NextKey
    <3> QED
      BY <3>1, <3>3, <3>4 DEF Turn
  <2>3. CASE \E i \in 1 .. N : eng.lane = Item(i)
    <3>1. PICK i \in 1 .. N : eng.lane = Item(i)
      BY <2>3
    <3>2. InFlight = {}
      BY <1>2, <3>1 DEF IInv, UncrossedInv
    <3>3. i \in DueItems /\ DueItems \subseteq 1 .. N
      BY <2>1, <3>1 DEF DueItems
    <3>4. Least(DueItems) \in DueItems /\ \A j \in DueItems : Least(DueItems) <= j
      <4>1. DueItems \subseteq Nat /\ DueItems # {}
        BY <3>3
      <4>2. \E x \in DueItems : \A y \in DueItems : x <= y
        BY <4>1, NatLeast
      <4> QED
        BY <4>2, LeastIs
    <3>5. ~(Least(DueItems) < i)
      BY <3>3, <3>4 DEF IInv, QueueInv, DueItems
    <3>6. Least(DueItems) = i
      <4>1. Least(DueItems) \in 1 .. N /\ Least(DueItems) <= i
        BY <3>3, <3>4
      <4> QED
        BY <3>5, <4>1
    <3> QED
      BY <3>1, <3>2, <3>3, <3>6 DEF Turn
  <2>4. CASE \E p \in Ops : eng.lane = Op(p)
    <3>1. PICK p \in Ops : eng.lane = Op(p)
      BY <2>4
    <3>2. InFlight = {} /\ DueItems = {} /\ \A o \in DueOps : p <= o
      BY <1>2, <3>1 DEF IInv, AheadInv, UncrossedInv
    <3>3. p \in DueOps
      BY <2>1, <3>1 DEF DueOps
    <3>4. Least(DueOps) \in DueOps /\ \A o \in DueOps : Least(DueOps) <= o
      BY <3>3, FirstOp
    <3>5. Least(DueOps) = p
      <4>1. Least(DueOps) \in Int /\ p \in Int
        BY <3>4, LaneAssumption DEF DueOps
      <4>2. p <= Least(DueOps) /\ Least(DueOps) <= p
        BY <3>2, <3>3, <3>4
      <4> QED
        BY <4>1, <4>2
    <3> QED
      BY <3>1, <3>2, <3>3, <3>5 DEF Turn
  <2> QED
    BY <2>1, <2>2, <2>3, <2>4, TagKinds
<1> QED
  BY <1>1, <1>2 DEF LaneIsPolled

\* The command in the lane is the one the loop polls next, as long as no row was
\* put before it, and the game's cell holds a request for nobody else: no command
\* waits for a poll that does not come.
THEOREM LanePolled == Spec => []LaneIsPolled
<1>1. IInv => LaneIsPolled
  BY InvLaneIsPolled
<1> QED
  BY <1>1, LaneInvariant, PTL
=============================================================================
