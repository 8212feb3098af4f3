----------------------- MODULE SaveReconciliationProofs -----------------------
(***************************************************************************)
(* Save restores for any number of items, copies, restores, lost ledgers    *)
(* and deaths of the client, with a watermark field and without.            *)
(***************************************************************************)
EXTENDS SaveReconciliation, WellFoundedInduction, TLAPS

-----------------------------------------------------------------------------
(***************************************************************************)
(* The inductive invariant.                                                 *)
(***************************************************************************)
\* An index up to i was delivered out of order, when those of R were.
Before(R, i) == \E j \in R : j <= i

\* The saves that can be in the game: the loaded one and those to go back to.
Loadable == {save} \cup {copies[k] : k \in DOMAIN copies}

\* a is at most as far as b: it holds no more, and its watermark is lower
\* unless an index up to b's was delivered out of order.
Older(a, b, R) ==
  /\ \A i \in Idx : a.has[i] <= b.has[i]
  /\ a.mark <= b.mark \/ Before(R, b.mark)

\* The copies are a playthrough: each is older than the next and the loaded one.
ChainInv ==
  /\ copies # <<>>
  /\ \A k \in DOMAIN copies : Older(copies[k], save, reordered)
  /\ \A k, l \in DOMAIN copies : k <= l => Older(copies[k], copies[l], reordered)

\* The row: what is settled or requeued is behind the cursor, and what is
\* requeued is out of order.
RowInv ==
  /\ \A i \in Idx : slot.acked[i] # "none" => i <= slot.highest
  /\ \A i \in slot.redeliver : i <= slot.highest /\ i \in reordered

\* With a watermark: the ledger has one too, unless it starts or missed its
\* first write.
FieldInv ==
  supported => /\ ~readable => slot.mark # Nothing
               /\ slot.mark = Nothing => slot.highest = Nothing \/ Before(reordered, 0)

\* What is above a save's watermark is not in the save, and what is delivered
\* and below it is.
MarkInv ==
  supported =>
    \A c \in Loadable, i \in Idx :
      /\ i > c.mark /\ c.has[i] > 0 => Before(reordered, i)
      /\ i <= c.mark /\ slot.acked[i] = "delivered" /\ c.has[i] = 0
           => Before(reordered, i) \/ i \in erased

\* What counts as granted is in the save, or a restore erased it.
GrantInv ==
  supported =>
    /\ slot.pending.granted => save.has[slot.pending.index] > 0 \/ slot.pending.index \in erased
    /\ \A i \in completed : save.has[i] > 0 \/ i \in erased

\* Without a watermark: what is above the cursor is not in the save, but for the
\* grant that is not acknowledged yet, and a save that lacks something delivered
\* holds nothing after it.
AttestInv ==
  ~supported =>
    /\ \A i \in Idx : i > slot.highest /\ save.has[i] > 0
         => Before(reordered, i) \/ (slot.pending.granted /\ slot.pending.index = i)
    /\ \A c \in Loadable, j, i \in Idx :
         j < i /\ slot.acked[j] = "delivered" /\ c.has[j] = 0 /\ c.has[i] > 0
           => Before(reordered, i)

IInv == /\ TypeOK /\ ChainInv /\ RowInv /\ FieldInv /\ MarkInv /\ GrantInv /\ AttestInv
        /\ NoDuplicate

-----------------------------------------------------------------------------
(***************************************************************************)
(* Indices, rows and saves.                                                 *)
(***************************************************************************)
\* The least of a set of indices is one of them, and below the others.
LEMMA LeastIndex ==
  ASSUME NEW S \in SUBSET Idx, S # {}
  PROVE  Min(S) \in S /\ \A i \in S : Min(S) <= i
<1>1. IsWellFoundedOn(OpToRel(<, Nat), Nat)
  BY NatLessThanWellFounded
<1>2. S \subseteq Nat
  BY SlotLedgerAssumption DEF Idx
<1>3. PICK x \in S : \A y \in S : ~(<<y, x>> \in OpToRel(<, Nat))
  <2>1. \E z : z \in S
    OBVIOUS
  <2> QED
    BY <1>1, <1>2, <2>1, WFMin, Zenon
<1>4. \A y \in S : x =< y
  <2> SUFFICES ASSUME NEW y \in S PROVE x =< y
    OBVIOUS
  <2>1. ~(y < x)
    BY <1>2, <1>3 DEF OpToRel
  <2> QED
    BY <1>2, <2>1
<1> QED
  BY <1>4 DEF Min

\* Being out of order spreads upwards, in the index and in the history.
LEMMA BeforeGrows ==
  ASSUME NEW R \in SUBSET Idx, NEW S \in SUBSET Idx, R \subseteq S,
         NEW i \in Int, NEW j \in Int, i <= j, Before(R, i)
  PROVE  Before(S, j)
<1>1. \A k \in R : k \in Int
  BY SlotLedgerAssumption DEF Idx
<1> QED
  BY <1>1 DEF Before

\* The fields of a row and of a save.
LEMMA Fields ==
  ASSUME TypeOK
  PROVE  /\ slot.highest \in Nothing .. N-1 /\ slot.mark \in Nothing .. N-1
         /\ slot.acked \in [Idx -> Acks] /\ slot.redeliver \in SUBSET Idx
         /\ slot.pending \in Plans \cup {NoPlan}
         /\ save.mark \in Nothing .. N-1 /\ save.has \in [Idx -> Nat]
         /\ Nothing = -1 /\ N \in Nat /\ Idx = 0 .. N-1 /\ Idx \subseteq Int
         /\ reordered \in SUBSET Idx
BY SlotLedgerAssumption DEF TypeOK, Slots, Saves, Nothing, Idx

\* A save that moved on from b is still newer than what b was newer than.
LEMMA OlderTrans ==
  ASSUME NEW a \in Saves, NEW b \in Saves, NEW c \in Saves,
         NEW R \in SUBSET Idx, NEW S \in SUBSET Idx, R \subseteq S,
         Older(a, b, R), Older(b, c, S)
  PROVE  Older(a, c, S)
<1>1. /\ a.mark \in Int /\ b.mark \in Int /\ c.mark \in Int
      /\ \A i \in Idx : a.has[i] \in Int /\ b.has[i] \in Int /\ c.has[i] \in Int
  BY SlotLedgerAssumption DEF Saves, Nothing
<1>2. \A i \in Idx : a.has[i] <= c.has[i]
  BY <1>1 DEF Older
<1>3. a.mark <= c.mark \/ Before(S, c.mark)
  <2>1. CASE Before(S, c.mark)
    BY <2>1
  <2>2. CASE b.mark <= c.mark /\ a.mark <= b.mark
    BY <1>1, <2>2
  <2>3. CASE b.mark <= c.mark /\ Before(R, b.mark)
    BY <1>1, <2>3, BeforeGrows
  <2> QED
    BY <2>1, <2>2, <2>3 DEF Older
<1> QED
  BY <1>2, <1>3 DEF Older

\* A save is as old as itself.
LEMMA OlderRefl ==
  ASSUME NEW a \in Saves, NEW R
  PROVE  Older(a, a, R)
<1>1. a.mark \in Int /\ \A i \in Idx : a.has[i] \in Int
  BY SlotLedgerAssumption DEF Saves, Nothing
<1> QED
  BY <1>1 DEF Older

\* What comparing the save with the ledger leaves when the poll goes on to
\* deliver: the row with the save's watermark.
LEMMA Resumed ==
  ASSUME IInv, Delivers
  PROVE  /\ Cur \in Idx
         /\ ~Before(reordered, Cur) => slot.highest = Cur - 1
         /\ Compared \in Slots
         /\ Compared.highest = slot.highest /\ Compared.acked = slot.acked
         /\ Compared.pending = slot.pending /\ Compared.redeliver = slot.redeliver
         /\ NextIndex(Compared) = Cur
         /\ supported =>
              /\ readable /\ Compared.mark = save.mark
              /\ save.mark = slot.highest \/ (save.mark = Nothing /\ Before(reordered, 0))
              /\ ~Before(reordered, Cur) => save.mark = Cur - 1
              /\ \A i \in Idx : slot.acked[i] = "delivered" => i <= save.mark \/ Before(reordered, i)
<1>0. TypeOK /\ RowInv /\ FieldInv
  BY DEF IInv
<1>1. /\ slot.highest \in Nothing .. N-1 /\ slot.mark \in Nothing .. N-1
      /\ slot.acked \in [Idx -> Acks] /\ slot.redeliver \in SUBSET Idx
      /\ save.mark \in Nothing .. N-1
      /\ Nothing = -1 /\ N \in Nat /\ Idx = 0 .. N-1 /\ reordered \in SUBSET Idx
      /\ received \in 0 .. N
  BY <1>0, Fields DEF TypeOK
<1>2. /\ Cur \in Idx
      /\ slot.redeliver = {} => Cur = slot.highest + 1
      /\ slot.redeliver # {} => Cur \in slot.redeliver
  <2>1. Cur < received
    BY DEF Delivers
  <2>2. CASE slot.redeliver = {}
    <3>1. Cur = slot.highest + 1
      BY <2>2 DEF Cur, NextIndex
    <3> QED
      BY <1>1, <2>1, <2>2, <3>1
  <2>3. CASE slot.redeliver # {}
    <3>1. Cur \in slot.redeliver
      BY <1>1, <2>3, LeastIndex DEF Cur, NextIndex
    <3> QED
      BY <1>1, <2>3, <3>1
  <2> QED
    BY <2>2, <2>3
<1>3. ~Before(reordered, Cur) => slot.highest = Cur - 1
  <2>1. CASE slot.redeliver # {}
    <3>1. Cur \in reordered
      BY <1>0, <1>2, <2>1 DEF RowInv
    <3> QED
      BY <1>1, <1>2, <3>1 DEF Before
  <2>2. CASE slot.redeliver = {}
    BY <1>1, <1>2, <2>2
  <2> QED
    BY <2>1, <2>2
<1>4. Outcome = "Resume"
  BY DEF Delivers
<1>5. Observed \in Nothing .. N-1
  BY <1>1 DEF Observed
<1>6. \/ Observed = Nothing /\ slot.mark = Nothing /\ Compared = slot
      \/ Observed # Nothing /\ slot.highest = Observed /\ Compared = [slot EXCEPT !.mark = Observed]
  <2>1. CASE Observed = Nothing
    BY <1>4, <2>1 DEF Outcome, WatermarkOutcome, Compared, ReconcileSaveWatermark
  <2>2. CASE Observed # Nothing
    <3>1. slot.highest = Observed
      BY <1>1, <1>4, <1>5, <2>2 DEF Outcome, WatermarkOutcome
    <3> QED
      BY <1>4, <2>2, <3>1 DEF Outcome, Compared, ReconcileSaveWatermark
  <2> QED
    BY <2>1, <2>2
<1>7. slot \in Slots
  BY <1>0 DEF TypeOK
<1>8. /\ Compared \in Slots
      /\ Compared.highest = slot.highest /\ Compared.acked = slot.acked
      /\ Compared.pending = slot.pending /\ Compared.redeliver = slot.redeliver
      /\ Observed = Nothing => Compared.mark = slot.mark
      /\ Observed # Nothing => Compared.mark = Observed
  BY <1>5, <1>6, <1>7 DEF Slots
<1>9. NextIndex(Compared) = Cur
  BY <1>8 DEF NextIndex, Cur
<1>10. ASSUME supported
       PROVE  /\ readable /\ Compared.mark = save.mark
              /\ save.mark = slot.highest \/ (save.mark = Nothing /\ Before(reordered, 0))
  <2>1. readable
    <3>1. SUFFICES ASSUME ~readable PROVE FALSE
      BY <1>0 DEF TypeOK
    <3>2. slot.mark # Nothing
      BY <1>0, <1>10, <3>1 DEF FieldInv
    <3>3. Observed = Nothing
      BY <3>1 DEF Observed
    <3> QED
      BY <1>6, <3>2, <3>3
  <2>2. Observed = save.mark
    BY <1>10, <2>1 DEF Observed
  <2>3. Compared.mark = save.mark
    BY <1>6, <1>8, <2>2
  <2>4. CASE Observed = Nothing
    <3>1. slot.highest = Nothing \/ Before(reordered, 0)
      BY <1>0, <1>6, <1>10, <2>4 DEF FieldInv
    <3> QED
      BY <2>1, <2>2, <2>3, <2>4, <3>1
  <2>5. CASE Observed # Nothing
    BY <1>6, <2>1, <2>2, <2>3, <2>5
  <2> QED
    BY <2>4, <2>5
<1>11. ASSUME supported, ~Before(reordered, Cur) PROVE save.mark = Cur - 1
  <2>1. ~Before(reordered, 0)
    BY <1>1, <1>2, <1>11, BeforeGrows
  <2> QED
    BY <1>3, <1>10, <1>11, <2>1
<1>12. ASSUME supported, NEW i \in Idx, slot.acked[i] = "delivered"
       PROVE  i <= save.mark \/ Before(reordered, i)
  <2>1. i <= slot.highest
    BY <1>0, <1>12 DEF RowInv
  <2>2. Before(reordered, 0) => Before(reordered, i)
    BY <1>1, BeforeGrows
  <2> QED
    BY <1>10, <1>12, <2>1, <2>2
<1> QED
  BY <1>2, <1>3, <1>8, <1>9, <1>10, <1>11, <1>12

-----------------------------------------------------------------------------
(***************************************************************************)
(* The end of a delivery, in the four ways it can come.                     *)
(***************************************************************************)
\* The index that is worked on is in the save, or a restore erased it.
Given == supported => save'.has[Cur] > 0 \/ Cur \in erased

\* Whatever of it reached the disk: the grant of Cur is executed at most once,
\* the watermark is written for Cur or not at all, and the ledger retires Cur,
\* keeps its plan as granted, or is as it was.
LEMMA DeliveryStep ==
  ASSUME IInv, Delivers, TypeOK',
         UNCHANGED <<supported, readable, copies, erased>>,
         slot.pending.index = Cur,
         reordered \subseteq reordered',
         \A i \in Idx \ {Cur} : save'.has[i] = save.has[i] /\ slot'.acked[i] = slot.acked[i],
         \/ save'.has[Cur] = save.has[Cur]
         \/ /\ save'.has[Cur] = save.has[Cur] + 1
            /\ ~slot.pending.granted
            /\ supported /\ save'.mark = save.mark => Before(reordered', Cur)
            /\ ~supported /\ Missing # {} => Cur \in reordered',
         save'.mark = save.mark \/ (save'.mark = Cur /\ supported),
         slot'.highest = slot.highest \/ slot'.highest = Cur,
         slot'.highest >= slot.highest,
         slot'.redeliver \subseteq slot.redeliver,
         slot'.acked[Cur] # "none" => slot'.highest >= Cur \/ slot'.acked = slot.acked,
         slot'.acked[Cur] = "delivered" => Given \/ slot'.acked = slot.acked,
         slot'.pending.granted => slot'.pending.index = Cur /\ Given,
         ~slot'.pending.granted => slot'.highest >= Cur,
         \A i \in completed' : i \in completed \/ (i = Cur /\ Given),
         supported /\ slot'.mark = Nothing => slot'.highest = Nothing \/ Before(reordered', 0)
  PROVE  IInv'
<1> USE DEF Given
<1>0. TypeOK /\ ChainInv /\ RowInv /\ FieldInv /\ MarkInv /\ GrantInv /\ AttestInv /\ NoDuplicate
  BY DEF IInv
<1>1. /\ Cur \in Idx
      /\ ~Before(reordered, Cur) => slot.highest = Cur - 1
      /\ supported => /\ readable
                      /\ ~Before(reordered, Cur) => save.mark = Cur - 1
                      /\ \A i \in Idx : slot.acked[i] = "delivered"
                                          => i <= save.mark \/ Before(reordered, i)
  BY Resumed
<1>2. /\ slot.highest \in Int /\ save.mark \in Int /\ save'.mark \in Int /\ slot'.highest \in Int
      /\ reordered \in SUBSET Idx /\ reordered' \in SUBSET Idx /\ Idx \subseteq Int
      /\ save \in Saves /\ save' \in Saves
      /\ \A i \in Idx : save.has[i] \in Nat /\ save'.has[i] \in Nat
      /\ copies \in Seq(Saves) /\ \A k \in DOMAIN copies : copies[k] \in Saves
      /\ slot'.redeliver \in SUBSET Idx
  <2>1. /\ reordered \in SUBSET Idx /\ reordered' \in SUBSET Idx
        /\ save \in Saves /\ save' \in Saves /\ copies \in Seq(Saves)
        /\ slot \in Slots /\ slot' \in Slots
    BY <1>0 DEF TypeOK
  <2>2. Idx \subseteq Int /\ Nothing .. N-1 \subseteq Int
    BY SlotLedgerAssumption DEF Idx, Nothing
  <2>3. /\ slot.highest \in Nothing .. N-1 /\ slot'.highest \in Nothing .. N-1
        /\ slot'.redeliver \in SUBSET Idx
    BY <2>1 DEF Slots
  <2>4. /\ save.mark \in Nothing .. N-1 /\ save'.mark \in Nothing .. N-1
        /\ \A i \in Idx : save.has[i] \in Nat /\ save'.has[i] \in Nat
    BY <2>1 DEF Saves
  <2>5. \A k \in DOMAIN copies : copies[k] \in Saves
    BY <2>1
  <2> QED
    BY <2>1, <2>2, <2>3, <2>4, <2>5
<1>3. \A i \in Int, j \in Int : i <= j /\ Before(reordered, i) => Before(reordered', j)
  BY <1>2, BeforeGrows
<1>4. Cur \in reordered' => \A i \in Int : i >= Cur => Before(reordered', i)
  BY <1>1, <1>2 DEF Before
<1>5. ASSUME NEW i \in Idx PROVE save.has[i] <= save'.has[i]
  <2>1. CASE i = Cur
    BY <1>2, <2>1
  <2>2. CASE i # Cur
    BY <1>2, <2>2
  <2> QED
    BY <2>1, <2>2
<1>6. save.mark <= save'.mark \/ Before(reordered', save'.mark)
  <2>1. CASE save'.mark = save.mark
    BY <1>2, <2>1
  <2>2. CASE save'.mark = Cur /\ supported
    <3>1. CASE Before(reordered, Cur)
      BY <1>1, <1>2, <1>3, <2>2, <3>1
    <3>2. CASE ~Before(reordered, Cur)
      BY <1>1, <1>2, <2>2, <3>2
    <3> QED
      BY <3>1, <3>2
  <2> QED
    BY <2>1, <2>2
<1>7. ChainInv'
  <2>1. Older(save, save', reordered')
    BY <1>5, <1>6 DEF Older
  <2>2. \A k \in DOMAIN copies : Older(copies[k], save', reordered')
    BY <1>0, <1>2, <2>1, OlderTrans DEF ChainInv
  <2>3. ASSUME NEW k \in DOMAIN copies, NEW l \in DOMAIN copies, k <= l
        PROVE  Older(copies[k], copies[l], reordered')
    <3>1. Older(copies[k], copies[l], reordered)
      BY <1>0, <2>3 DEF ChainInv
    <3> QED
      BY <1>2, <3>1, OlderTrans, OlderRefl
  <2> QED
    BY <1>0, <2>2, <2>3 DEF ChainInv
<1>8. RowInv'
  <2>1. ASSUME NEW i \in Idx, slot'.acked[i] # "none" PROVE i <= slot'.highest
    <3>1. CASE slot'.acked[i] = slot.acked[i]
      BY <1>0, <1>2, <2>1, <3>1 DEF RowInv
    <3>2. CASE i = Cur /\ slot'.highest >= Cur
      BY <1>2, <3>2
    <3> QED
      BY <2>1, <3>1, <3>2
  <2>2. ASSUME NEW i \in slot'.redeliver PROVE i <= slot'.highest /\ i \in reordered'
    <3>1. i <= slot.highest /\ i \in reordered /\ i \in Int
      BY <1>0, <1>2 DEF RowInv
    <3> QED
      BY <1>2, <3>1
  <2> QED
    BY <2>1, <2>2 DEF RowInv
<1>9. FieldInv'
  BY <1>1 DEF FieldInv
<1>10. ASSUME supported
       PROVE  \A c \in Loadable', i \in Idx :
                /\ i > c.mark /\ c.has[i] > 0 => Before(reordered', i)
                /\ i <= c.mark /\ slot'.acked[i] = "delivered" /\ c.has[i] = 0
                     => Before(reordered', i) \/ i \in erased
  <2>1. ASSUME NEW i \in Idx, i > save'.mark, save'.has[i] > 0
        PROVE  Before(reordered', i)
    <3>1. SUFFICES ASSUME ~Before(reordered', i) PROVE FALSE
      OBVIOUS
    <3>2. ~Before(reordered, i)
      BY <1>2, <1>3, <3>1
    <3>3. ~(i > save.mark /\ save.has[i] > 0)
      BY <1>0, <1>10, <3>2 DEF MarkInv, Loadable
    <3>4. CASE save'.mark = save.mark
      <4>1. ~(save.has[i] > 0)
        BY <2>1, <3>3, <3>4
      <4>2. save'.has[i] # save.has[i]
        BY <2>1, <4>1
      <4>3. i = Cur
        <5>1. i \in Idx \ {Cur} => save'.has[i] = save.has[i]
          OBVIOUS
        <5> QED
          BY <2>1, <4>2, <5>1
      <4>4. save'.has[Cur] # save.has[Cur]
        BY <4>2, <4>3
      <4> QED
        BY <1>10, <3>1, <3>4, <4>3, <4>4
    <3>5. CASE save'.mark = Cur
      <4>1. i > Cur /\ save.has[i] > 0 /\ i <= save.mark
        BY <1>1, <1>2, <2>1, <3>3, <3>5
      <4>2. ~Before(reordered, Cur)
        BY <1>1, <1>2, <1>3, <3>1, <4>1
      <4> QED
        BY <1>1, <1>2, <1>10, <4>1, <4>2
    <3> QED
      BY <3>4, <3>5
  <2>2. ASSUME NEW i \in Idx, i <= save'.mark, slot'.acked[i] = "delivered", save'.has[i] = 0
        PROVE  Before(reordered', i) \/ i \in erased
    <3>1. CASE slot.acked[i] = "delivered"
      <4>1. save.has[i] = 0
        BY <1>2, <1>5, <2>2
      <4>2. CASE i <= save.mark
        <5>1. Before(reordered, i) \/ i \in erased
          BY <1>0, <1>10, <3>1, <4>1, <4>2 DEF MarkInv, Loadable
        <5> QED
          BY <1>2, <1>3, <5>1
      <4>3. CASE Before(reordered, i)
        BY <1>2, <1>3, <4>3
      <4> QED
        BY <1>1, <1>10, <3>1, <4>2, <4>3
    <3>2. CASE slot.acked[i] # "delivered"
      <4>1. i = Cur /\ slot'.acked # slot.acked
        BY <2>2, <3>2
      <4> QED
        BY <1>1, <1>2, <1>10, <2>2, <4>1
    <3> QED
      BY <3>1, <3>2
  <2>3. ASSUME NEW k \in DOMAIN copies, NEW i \in Idx
        PROVE  /\ i > copies[k].mark /\ copies[k].has[i] > 0 => Before(reordered', i)
               /\ i <= copies[k].mark /\ slot'.acked[i] = "delivered" /\ copies[k].has[i] = 0
                     => Before(reordered', i) \/ i \in erased
    <3>1. /\ i > copies[k].mark /\ copies[k].has[i] > 0 => Before(reordered, i)
          /\ i <= copies[k].mark /\ slot.acked[i] = "delivered" /\ copies[k].has[i] = 0
                => Before(reordered, i) \/ i \in erased
      BY <1>0, <1>10 DEF MarkInv, Loadable
    <3>2. Before(reordered, i) => Before(reordered', i)
      BY <1>2, <1>3
    <3>3. ASSUME i = Cur, i <= copies[k].mark PROVE Before(reordered', i)
      <4>1. SUFFICES ASSUME ~Before(reordered, Cur) PROVE FALSE
        BY <3>2, <3>3
      <4>2. copies[k].mark > save.mark /\ copies[k].mark \in Int
        BY <1>1, <1>2, <1>10, <3>3, <4>1 DEF Saves, Nothing
      <4>3. Before(reordered, save.mark)
        BY <1>0, <1>2, <4>2 DEF ChainInv, Older
      <4>4. save.mark <= Cur
        <5>1. save.mark = Cur - 1
          BY <1>1, <1>10, <4>1
        <5>2. Cur \in Int
          BY <1>1, <1>2
        <5> QED
          BY <5>1, <5>2
      <4> QED
        BY <1>1, <1>2, <4>1, <4>3, <4>4, BeforeGrows
    <3>4. i # Cur => slot'.acked[i] = slot.acked[i]
      OBVIOUS
    <3> QED
      BY <3>1, <3>2, <3>3, <3>4
  <2>4. Loadable' = {save'} \cup {copies[k] : k \in DOMAIN copies}
    BY DEF Loadable
  <2> QED
    BY <2>1, <2>2, <2>3, <2>4
<1>11. MarkInv'
  BY <1>10 DEF MarkInv
<1>12. GrantInv'
  <2>1. SUFFICES ASSUME supported
                 PROVE  /\ slot'.pending.granted => save'.has[slot'.pending.index] > 0
                                                    \/ slot'.pending.index \in erased
                        /\ \A i \in completed' : save'.has[i] > 0 \/ i \in erased
    BY DEF GrantInv
  <2>2. ASSUME NEW i \in completed' PROVE save'.has[i] > 0 \/ i \in erased
    <3>1. CASE i \in completed
      <4>1. i \in Idx /\ (save.has[i] > 0 \/ i \in erased)
        BY <1>0, <2>1, <3>1 DEF GrantInv, TypeOK
      <4> QED
        BY <1>2, <1>5, <4>1
    <3>2. CASE i = Cur /\ Given
      BY <2>1, <3>2
    <3> QED
      BY <3>1, <3>2
  <2> QED
    BY <2>1, <2>2
<1>13. ASSUME ~supported, NEW i \in Idx, save.has[i] > 0, i > slot.highest, i # Cur
       PROVE  Before(reordered, i)
  BY <1>0, <1>13 DEF AttestInv
<1>14. AttestInv'
  <2> SUFFICES ASSUME ~supported PROVE AttestInv'
    BY DEF AttestInv
  <2>1. ASSUME NEW i \in Idx, i > slot'.highest, save'.has[i] > 0
        PROVE  Before(reordered', i) \/ (slot'.pending.granted /\ slot'.pending.index = i)
    <3>1. CASE i = Cur
      BY <1>2, <2>1, <3>1
    <3>2. CASE i # Cur
      <4>1. save.has[i] > 0 /\ i > slot.highest
        BY <1>2, <2>1, <3>2
      <4> QED
        BY <1>2, <1>3, <1>13, <3>2, <4>1
    <3> QED
      BY <3>1, <3>2
  <2>2. ASSUME NEW c \in Loadable, NEW i \in Idx, Cur < i, c.has[i] > 0
        PROVE  Before(reordered', i)
    <3>1. save.has[i] > 0
      <4>1. CASE c = save
        BY <2>2, <4>1
      <4>2. CASE \E k \in DOMAIN copies : c = copies[k]
        BY <1>0, <1>2, <2>2, <4>2 DEF ChainInv, Older, Saves
      <4> QED
        BY <4>1, <4>2 DEF Loadable
    <3>2. CASE Before(reordered, Cur)
      <4>1. Cur \in Int /\ i \in Int /\ Cur <= i
        BY <1>1, <1>2, <2>2
      <4> QED
        BY <1>3, <3>2, <4>1
    <3>3. CASE ~Before(reordered, Cur)
      BY <1>1, <1>2, <1>3, <1>13, <2>2, <3>1, <3>3
    <3> QED
      BY <3>2, <3>3
  <2>3. ASSUME NEW c \in Loadable, NEW j \in Idx, NEW i \in Idx,
               j < i, slot'.acked[j] = "delivered", c.has[j] = 0, c.has[i] > 0
        PROVE  Before(reordered', i)
    <3>1. CASE j = Cur
      BY <2>2, <2>3, <3>1
    <3>2. CASE j # Cur
      <4>1. Before(reordered, i)
        BY <1>0, <2>3, <3>2 DEF AttestInv
      <4> QED
        BY <1>2, <1>3, <4>1
    <3> QED
      BY <3>1, <3>2
  <2>4. ASSUME NEW j \in Idx, NEW i \in Idx,
               j < i, slot'.acked[j] = "delivered", save'.has[j] = 0, save'.has[i] > 0
        PROVE  Before(reordered', i)
    <3>0. save.has[j] = 0 /\ save \in Loadable
      BY <1>2, <1>5, <2>4 DEF Loadable
    <3>1. CASE save.has[i] > 0
      BY <2>3, <2>4, <3>0, <3>1
    <3>2. CASE save.has[i] = 0
      <4>1. i = Cur
        BY <1>2, <2>4, <3>2
      <4>5. save'.has[Cur] # save.has[Cur]
        BY <1>2, <2>4, <3>2, <4>1
      <4>2. slot.acked[j] = "delivered"
        BY <1>2, <2>4, <4>1
      <4>3. Missing # {}
        BY <3>0, <4>2 DEF Missing
      <4>4. Cur \in reordered'
        BY <4>5, <4>3
      <4>6. i \in Int /\ i >= Cur
        BY <1>2, <4>1
      <4> QED
        BY <1>4, <4>4, <4>6
    <3> QED
      BY <1>2, <3>1, <3>2
  <2>5. Loadable' \subseteq {save'} \cup Loadable
    BY DEF Loadable
  <2>6. \A c \in Loadable', j, i \in Idx :
          j < i /\ slot'.acked[j] = "delivered" /\ c.has[j] = 0 /\ c.has[i] > 0
             => Before(reordered', i)
    BY <2>3, <2>4, <2>5
  <2> QED
    BY <2>1, <2>6 DEF AttestInv
<1>15. NoDuplicate'
  <2>1. ASSUME NEW i \in Idx, save'.has[i] > 1 PROVE Before(reordered', i)
    <3>1. CASE save.has[i] > 1
      <4>1. Before(reordered, i)
        BY <1>0, <3>1 DEF NoDuplicate, Earlier, Before
      <4> QED
        BY <1>2, <1>3, <4>1
    <3>2. CASE ~(save.has[i] > 1)
      <4>1. i = Cur /\ save'.has[Cur] = save.has[Cur] + 1 /\ save.has[Cur] > 0
        BY <1>1, <1>2, <2>1, <3>2
      <4>2. ~slot.pending.granted
        BY <1>1, <1>2, <4>1
      <4>3. SUFFICES ASSUME ~Before(reordered, Cur) PROVE FALSE
        BY <1>1, <1>2, <1>3, <4>1
      <4>4. CASE supported
        BY <1>0, <1>1, <1>2, <4>1, <4>3, <4>4 DEF MarkInv, Loadable
      <4>5. CASE ~supported
        BY <1>0, <1>1, <1>2, <4>1, <4>2, <4>3, <4>5 DEF AttestInv
      <4> QED
        BY <4>4, <4>5
    <3> QED
      BY <3>1, <3>2
  <2> QED
    BY <2>1 DEF NoDuplicate, Earlier, Before
<1> QED
  BY <1>7, <1>8, <1>9, <1>11, <1>12, <1>14, <1>15 DEF IInv

\* grant_item and the acknowledgement, as rows and saves.
LEMMA GrantedIs ==
  ASSUME IInv, Cur \in Idx, slot.pending.index = Cur
  PROVE  /\ Granted(Cur) \in [Idx -> Nat]
         /\ \A i \in Idx \ {Cur} : Granted(Cur)[i] = save.has[i]
         /\ \/ Granted(Cur)[Cur] = save.has[Cur]
            \/ Granted(Cur)[Cur] = save.has[Cur] + 1 /\ ~slot.pending.granted
         /\ supported => Granted(Cur)[Cur] > 0 \/ Cur \in erased
<1>1. save.has \in [Idx -> Nat]
  BY Fields DEF IInv
<1>2. CASE slot.pending.granted \/ Cur \in completed
  <2>1. Granted(Cur) = save.has
    BY <1>2 DEF Granted
  <2>2. supported => save.has[Cur] > 0 \/ Cur \in erased
    BY <1>2 DEF IInv, GrantInv
  <2> QED
    BY <1>1, <2>1, <2>2
<1>3. CASE ~(slot.pending.granted \/ Cur \in completed)
  <2>1. Granted(Cur) = [save.has EXCEPT ![Cur] = @ + 1]
    BY <1>3 DEF Granted
  <2> QED
    BY <1>1, <1>3, <2>1
<1> QED
  BY <1>2, <1>3

\* acknowledge and acknowledge_blocked: the index is settled and the cursor at
\* or beyond it.
LEMMA RetireIs ==
  ASSUME NEW s \in Slots, NEW i \in Idx, NEW a \in Acks
  PROVE  \E t \in {Retire(s, i, a)} :
           /\ t \in Slots /\ t.pending = NoPlan /\ t.mark = s.mark
           /\ t.redeliver \subseteq s.redeliver
           /\ t.highest \in {s.highest, i} /\ t.highest >= s.highest /\ t.highest >= i
           /\ t.acked[i] = a /\ \A j \in Idx \ {i} : t.acked[j] = s.acked[j]
<1> DEFINE h == IF s.highest > i THEN s.highest ELSE i
           m == AdvanceCursor(s, i)
           t == Retire(s, i, a)
<1>1. /\ s.highest \in Nothing .. N-1 /\ s.acked \in [Idx -> Acks]
      /\ s.redeliver \ {i} \in SUBSET Idx
  BY DEF Slots
<1>2. /\ h \in Nothing .. N-1 /\ h \in {s.highest, i} /\ h >= s.highest /\ h >= i
  BY <1>1, SlotLedgerAssumption DEF Idx, Nothing
<1>3. m = [s EXCEPT !.redeliver = s.redeliver \ {i}, !.highest = h]
  BY DEF AdvanceCursor
<1> HIDE DEF h
<1>4. /\ m \in Slots /\ m.redeliver = s.redeliver \ {i} /\ m.highest = h
      /\ m.acked = s.acked /\ m.mark = s.mark
  BY <1>1, <1>2, <1>3 DEF Slots
<1> HIDE DEF m
<1>5. t = [m EXCEPT !.acked[i] = a, !.pending = NoPlan]
  BY DEF Retire, m
<1>6. /\ t \in Slots /\ t.pending = NoPlan /\ t.redeliver = m.redeliver
      /\ t.highest = m.highest /\ t.mark = m.mark
      /\ t.acked = [m.acked EXCEPT ![i] = a]
  <2> DEFINE ack == [m.acked EXCEPT ![i] = a]
  <2>1. ack \in [Idx -> Acks]
    BY <1>1, <1>4
  <2>2. t = [m EXCEPT !.acked = ack, !.pending = NoPlan]
    BY <1>5
  <2> HIDE DEF ack, t
  <2>3. /\ t \in Slots /\ t.pending = NoPlan /\ t.redeliver = m.redeliver
        /\ t.highest = m.highest /\ t.mark = m.mark /\ t.acked = ack
    BY <1>4, <2>1, <2>2 DEF Slots
  <2> QED
    BY <2>3 DEF ack
<1>7. t.acked[i] = a /\ \A j \in Idx \ {i} : t.acked[j] = s.acked[j]
  BY <1>1, <1>4, <1>6
<1> HIDE DEF t
<1>8. /\ t \in Slots /\ t.pending = NoPlan /\ t.mark = s.mark
      /\ t.redeliver \subseteq s.redeliver
      /\ t.highest \in {s.highest, i} /\ t.highest >= s.highest /\ t.highest >= i
  BY <1>2, <1>4, <1>6
<1> QED
  BY <1>7, <1>8 DEF t

\* A watermark is written into a row or a save, or the field does not exist.
LEMMA WatermarkIs ==
  ASSUME NEW i \in Idx
  PROVE  /\ \A t \in Slots : \E w \in {WriteWatermark(t, i)} :
              /\ w \in Slots /\ w.pending = t.pending /\ w.redeliver = t.redeliver
              /\ w.highest = t.highest /\ w.acked = t.acked
              /\ supported => w.mark = i
         /\ \A c \in Saves : \E w \in {WriteWatermark(c, i)} :
              /\ w \in Saves /\ w.has = c.has
              /\ supported => w.mark = i
              /\ ~supported => w.mark = c.mark
<1>1. i \in Nothing .. N-1
  BY SlotLedgerAssumption DEF Idx, Nothing
<1>2. ASSUME NEW t \in Slots
      PROVE  \E w \in {WriteWatermark(t, i)} :
              /\ w \in Slots /\ w.pending = t.pending /\ w.redeliver = t.redeliver
              /\ w.highest = t.highest /\ w.acked = t.acked
              /\ supported => w.mark = i
  <2>1. CASE supported
    BY <1>1, <2>1 DEF WriteWatermark, Slots
  <2>2. CASE ~supported
    BY <2>2 DEF WriteWatermark
  <2> QED
    BY <2>1, <2>2
<1>3. ASSUME NEW c \in Saves
      PROVE  \E w \in {WriteWatermark(c, i)} :
              /\ w \in Saves /\ w.has = c.has
              /\ supported => w.mark = i
              /\ ~supported => w.mark = c.mark
  <2>1. CASE supported
    BY <1>1, <2>1 DEF WriteWatermark, Saves
  <2>2. CASE ~supported
    BY <2>2 DEF WriteWatermark
  <2> QED
    BY <2>1, <2>2
<1> QED
  BY <1>2, <1>3

\* A save with other contents.
LEMMA SaveIs ==
  ASSUME NEW s \in Saves, NEW h \in [Idx -> Nat]
  PROVE  \E c \in {[s EXCEPT !.has = h]} : c \in Saves /\ c.has = h /\ c.mark = s.mark
BY DEF Saves

\* A mishap is counted.
LEMMA HappensIs ==
  ASSUME used \in [Mishaps -> Nat], NEW m \in Mishaps, Happens(m)
  PROVE  used' \in [Mishaps -> Nat]
BY DEF Happens

\* mark_grant_complete on a plan that is there.
LEMMA MarkIs ==
  ASSUME NEW s \in Slots, s.pending.index \in Idx
  PROVE  \E t \in {MarkGrantComplete(s)} :
           /\ t \in Slots /\ t.pending.granted /\ t.pending.index = s.pending.index
           /\ t.highest = s.highest /\ t.acked = s.acked /\ t.redeliver = s.redeliver
           /\ t.mark = s.mark
<1>1. s.pending \in Plans
  BY SlotLedgerAssumption DEF Slots, NoPlan, Idx, Nothing
<1> DEFINE p == [s.pending EXCEPT !.granted = TRUE]
<1>2. p \in Plans /\ p.granted /\ p.index = s.pending.index
  BY <1>1 DEF Plans
<1>3. MarkGrantComplete(s) = [s EXCEPT !.pending = p]
  BY DEF MarkGrantComplete
<1> HIDE DEF p
<1> QED
  BY <1>2, <1>3 DEF Slots

\* The plan that can be acknowledged is the one of the index worked on.
LEMMA FinishIndex ==
  ASSUME slot \in Slots, CanFinish
  PROVE  slot.pending.index = Cur
<1> DEFINE p == [slot.pending EXCEPT !.granted = TRUE]
<1>1. slot.pending \in Plans \cup {NoPlan}
  BY DEF Slots
<1>2. p.index = slot.pending.index
  BY <1>1 DEF Plans, NoPlan
<1>3. MarkGrantComplete(slot) = [slot EXCEPT !.pending = p]
  BY DEF MarkGrantComplete
<1> HIDE DEF p
<1>4. MarkGrantComplete(slot).pending = p
  BY <1>3 DEF Slots
<1> QED
  BY <1>2, <1>4 DEF CanFinish, CanAcknowledge

\* An item is acknowledged, with its watermark or without.
LEMMA FinishStep ==
  ASSUME IInv, FinishDelivery \/ FinishUnwritten
  PROVE  IInv'
<1>1. /\ Delivers /\ CanFinish /\ completed' = completed \cup {Cur}
      /\ UNCHANGED <<supported, readable, copies, received, erased>>
  BY DEF FinishDelivery, FinishUnwritten
<1>2. /\ Cur \in Idx /\ Compared \in Slots
      /\ Compared.highest = slot.highest /\ Compared.acked = slot.acked
      /\ Compared.pending = slot.pending /\ Compared.redeliver = slot.redeliver
      /\ supported => Compared.mark = save.mark
      /\ supported => save.mark = slot.highest \/ Before(reordered, 0)
  BY <1>1, Resumed
<1>3. TypeOK /\ Nothing = -1 /\ slot \in Slots /\ save \in Saves /\ Idx \subseteq Int
  BY Fields DEF IInv, TypeOK
<1>4. slot.pending.index = Cur
  BY <1>1, <1>3, FinishIndex
<1>5. PICK m \in {MarkGrantComplete(Compared)} :
        /\ m \in Slots /\ m.highest = slot.highest /\ m.acked = slot.acked
        /\ m.redeliver = slot.redeliver /\ m.mark = Compared.mark
  BY <1>2, <1>4, MarkIs
<1>6. PICK t \in {Retire(m, Cur, "delivered")} :
        /\ t \in Slots /\ t.pending = NoPlan /\ t.mark = m.mark
        /\ t.redeliver \subseteq m.redeliver
        /\ t.highest \in {m.highest, Cur} /\ t.highest >= m.highest /\ t.highest >= Cur
        /\ t.acked[Cur] = "delivered" /\ \A j \in Idx \ {Cur} : t.acked[j] = m.acked[j]
  <2>1. "delivered" \in Acks
    BY DEF Acks
  <2> QED
    BY <1>2, <1>5, <2>1, RetireIs
<1>7. /\ Granted(Cur) \in [Idx -> Nat]
      /\ \A i \in Idx \ {Cur} : Granted(Cur)[i] = save.has[i]
      /\ \/ Granted(Cur)[Cur] = save.has[Cur]
         \/ Granted(Cur)[Cur] = save.has[Cur] + 1 /\ ~slot.pending.granted
      /\ supported => Granted(Cur)[Cur] > 0 \/ Cur \in erased
  BY <1>2, <1>4, GrantedIs
<1>8. PICK c \in {[save EXCEPT !.has = Granted(Cur)]} :
        c \in Saves /\ c.has = Granted(Cur) /\ c.mark = save.mark
  BY <1>3, <1>7, SaveIs
<1>9. /\ slot' \in Slots /\ slot'.pending = NoPlan /\ slot'.redeliver = t.redeliver
      /\ slot'.highest = t.highest /\ slot'.acked = t.acked
      /\ save' \in Saves /\ save'.has = Granted(Cur)
      /\ save'.mark = save.mark \/ (save'.mark = Cur /\ supported)
      /\ reordered' \subseteq Idx /\ reordered \subseteq reordered'
      /\ used' \in [Mishaps -> Nat]
      /\ supported /\ save'.mark = save.mark => Cur \in reordered' \/ save.mark = Cur
      /\ ~supported /\ Missing # {} => Cur \in reordered'
      /\ supported /\ slot'.mark = Nothing => slot'.highest = Nothing \/ Before(reordered', 0)
  <2>1. CASE FinishDelivery
    <3>1. /\ slot' = WriteWatermark(t, Cur) /\ save' = WriteWatermark(c, Cur)
          /\ reordered' = IF ~supported /\ Missing # {} THEN reordered \cup {Cur} ELSE reordered
          /\ used' = used
      BY <1>5, <1>6, <1>8, <2>1 DEF FinishDelivery, Acknowledge
    <3>2. /\ slot' \in Slots /\ slot'.pending = t.pending /\ slot'.redeliver = t.redeliver
          /\ slot'.highest = t.highest /\ slot'.acked = t.acked
          /\ supported => slot'.mark = Cur
      BY <1>2, <1>6, <3>1, WatermarkIs
    <3>3. /\ save' \in Saves /\ save'.has = c.has
          /\ supported => save'.mark = Cur
          /\ ~supported => save'.mark = c.mark
      BY <1>2, <1>8, <3>1, WatermarkIs
    <3>4. Cur # Nothing
      BY <1>2, <1>3, SlotLedgerAssumption DEF Idx
    <3>5. reordered \subseteq Idx /\ used \in [Mishaps -> Nat]
      BY <1>3 DEF TypeOK
    <3>6. supported /\ save'.mark = save.mark => save.mark = Cur
      BY <3>3
    <3>7. reordered' \subseteq Idx /\ reordered \subseteq reordered'
          /\ (~supported /\ Missing # {} => Cur \in reordered')
      BY <1>2, <3>1, <3>5
    <3> QED
      BY <1>6, <1>8, <3>1, <3>2, <3>3, <3>4, <3>5, <3>6, <3>7
  <2>2. CASE FinishUnwritten
    <3>1. slot' = t /\ save' = c /\ reordered' = reordered \cup {Cur} /\ Happens("nowrite")
      BY <1>5, <1>6, <1>8, <2>2 DEF FinishUnwritten, Acknowledge
    <3>2. reordered \subseteq Idx /\ used' \in [Mishaps -> Nat]
      BY <1>3, <3>1, HappensIs DEF TypeOK, Mishaps
    <3>3. ASSUME supported, slot'.mark = Nothing PROVE Before(reordered', 0)
      <4>1. save.mark = Nothing
        BY <1>2, <1>5, <1>6, <3>1, <3>3
      <4>2. CASE Before(reordered, 0)
        BY <3>1, <4>2 DEF Before
      <4>3. CASE slot.highest = Nothing
        <5>1. Cur = 0 \/ Cur \in slot.redeliver
          <6>1. slot.redeliver \in SUBSET Idx
            BY <1>3, Fields
          <6> QED
            BY <1>3, <4>3, <6>1, LeastIndex DEF Cur, NextIndex
        <5>2. \A i \in slot.redeliver : i <= Nothing
          BY <4>3 DEF IInv, RowInv
        <5>3. Cur = 0
          BY <1>2, <1>3, <5>1, <5>2, SlotLedgerAssumption DEF Idx
        <5> QED
          BY <3>1, <5>3 DEF Before
      <4> QED
        BY <1>2, <3>3, <4>1, <4>2, <4>3
    <3>4. reordered' \subseteq Idx /\ reordered \subseteq reordered' /\ Cur \in reordered'
      BY <1>2, <3>1, <3>2
    <3> QED
      BY <1>6, <1>8, <3>1, <3>2, <3>3, <3>4
  <2> QED
    BY <2>1, <2>2
<1>10. TypeOK'
  BY <1>1, <1>2, <1>3, <1>9 DEF TypeOK
<1>11. ~slot'.pending.granted /\ slot'.acked[Cur] = "delivered" /\ slot'.highest >= Cur
  BY <1>6, <1>9 DEF NoPlan
<1>12. /\ \A i \in Idx \ {Cur} : save'.has[i] = save.has[i] /\ slot'.acked[i] = slot.acked[i]
       /\ slot'.highest = slot.highest \/ slot'.highest = Cur
       /\ slot'.highest >= slot.highest
       /\ slot'.redeliver \subseteq slot.redeliver
  BY <1>5, <1>6, <1>7, <1>9
<1>13. Given
  BY <1>7, <1>9 DEF Given
<1>14. \/ save'.has[Cur] = save.has[Cur]
       \/ /\ save'.has[Cur] = save.has[Cur] + 1
          /\ ~slot.pending.granted
          /\ supported /\ save'.mark = save.mark => Before(reordered', Cur)
          /\ ~supported /\ Missing # {} => Cur \in reordered'
  <2>1. ASSUME supported, save'.mark = save.mark PROVE Before(reordered', Cur)
    <3>1. CASE Cur \in reordered'
      BY <1>2, <1>3, <3>1 DEF Before
    <3>2. CASE save.mark = Cur
      <4>1. ~Before(reordered, Cur) => save.mark = Cur - 1
        BY <1>1, <2>1, Resumed
      <4>2. Before(reordered, Cur)
        BY <1>2, <1>3, <3>2, <4>1
      <4> QED
        BY <1>9, <4>2 DEF Before
    <3> QED
      BY <1>9, <2>1, <3>1, <3>2
  <2> QED
    BY <1>7, <1>9, <2>1
<1> QED
  BY <1>1, <1>4, <1>9, <1>10, <1>11, <1>12, <1>13, <1>14, DeliveryStep

\* An item is parked, with its watermark.
LEMMA ParkStep ==
  ASSUME IInv, ParkDelivery
  PROVE  IInv'
<1>1. /\ Delivers /\ slot.pending.index = Cur /\ ~slot.pending.granted
      /\ UNCHANGED <<supported, readable, copies, completed, received, reordered, erased>>
      /\ Happens("park")
  BY DEF ParkDelivery, CanPark
<1>2. /\ Cur \in Idx /\ Compared \in Slots
      /\ Compared.highest = slot.highest /\ Compared.acked = slot.acked
      /\ Compared.redeliver = slot.redeliver
  BY <1>1, Resumed
<1>3. TypeOK /\ Nothing = -1 /\ slot \in Slots /\ save \in Saves /\ Idx \subseteq Int
  BY Fields DEF IInv, TypeOK
<1>4. PICK t \in {Retire(Compared, Cur, "other")} :
        /\ t \in Slots /\ t.pending = NoPlan
        /\ t.redeliver \subseteq slot.redeliver
        /\ t.highest \in {slot.highest, Cur} /\ t.highest >= slot.highest /\ t.highest >= Cur
        /\ t.acked[Cur] = "other" /\ \A j \in Idx \ {Cur} : t.acked[j] = slot.acked[j]
  <2>1. "other" \in Acks
    BY DEF Acks, Blocked
  <2> QED
    BY <1>2, <2>1, RetireIs
<1>5. slot' = WriteWatermark(t, Cur) /\ save' = WriteWatermark(save, Cur)
  BY <1>4 DEF ParkDelivery, AcknowledgeBlocked
<1>6. /\ slot' \in Slots /\ slot'.pending = t.pending /\ slot'.redeliver = t.redeliver
      /\ slot'.highest = t.highest /\ slot'.acked = t.acked
      /\ supported => slot'.mark = Cur
  BY <1>2, <1>4, <1>5, WatermarkIs
<1>7. /\ save' \in Saves /\ save'.has = save.has
      /\ save'.mark = save.mark \/ (save'.mark = Cur /\ supported)
  BY <1>2, <1>3, <1>5, WatermarkIs
<1>8. TypeOK'
  BY <1>1, <1>3, <1>6, <1>7, HappensIs DEF TypeOK, Mishaps
<1>9. /\ ~slot'.pending.granted /\ slot'.acked[Cur] = "other" /\ slot'.highest >= Cur
      /\ \A i \in Idx \ {Cur} : save'.has[i] = save.has[i] /\ slot'.acked[i] = slot.acked[i]
      /\ slot'.highest = slot.highest \/ slot'.highest = Cur
      /\ slot'.highest >= slot.highest
      /\ slot'.redeliver \subseteq slot.redeliver
  BY <1>4, <1>6, <1>7 DEF NoPlan
<1>10. supported => slot'.mark # Nothing
  BY <1>2, <1>3, <1>6, SlotLedgerAssumption DEF Idx
<1> QED
  BY <1>1, <1>7, <1>8, <1>9, <1>10, DeliveryStep

\* The process dies between the save's watermark and the ledger's.
LEMMA DieStep ==
  ASSUME IInv, DieBeforeSave
  PROVE  IInv'
<1>1. /\ Delivers /\ CanFinish /\ completed' = {} /\ Happens("die")
      /\ slot' = MarkGrantComplete(slot)
      /\ save' = WriteWatermark([save EXCEPT !.has = Granted(Cur)], Cur)
      /\ reordered' = IF ~supported /\ Missing # {} THEN reordered \cup {Cur} ELSE reordered
      /\ UNCHANGED <<supported, readable, copies, received, erased>>
  BY DEF DieBeforeSave
<1>2. Cur \in Idx
  BY <1>1, Resumed
<1>3. TypeOK /\ Nothing = -1 /\ slot \in Slots /\ save \in Saves /\ Idx \subseteq Int
  BY Fields DEF IInv, TypeOK
<1>4. slot.pending.index = Cur
  BY <1>1, <1>3, FinishIndex
<1>5. /\ slot' \in Slots /\ slot'.pending.granted /\ slot'.pending.index = Cur
      /\ slot'.highest = slot.highest /\ slot'.acked = slot.acked
      /\ slot'.redeliver = slot.redeliver /\ slot'.mark = slot.mark
  BY <1>1, <1>2, <1>3, <1>4, MarkIs
<1>6. /\ Granted(Cur) \in [Idx -> Nat]
      /\ \A i \in Idx \ {Cur} : Granted(Cur)[i] = save.has[i]
      /\ \/ Granted(Cur)[Cur] = save.has[Cur]
         \/ Granted(Cur)[Cur] = save.has[Cur] + 1 /\ ~slot.pending.granted
      /\ supported => Granted(Cur)[Cur] > 0 \/ Cur \in erased
  BY <1>2, <1>4, GrantedIs
<1>7. PICK c \in {[save EXCEPT !.has = Granted(Cur)]} :
        c \in Saves /\ c.has = Granted(Cur) /\ c.mark = save.mark
  BY <1>3, <1>6, SaveIs
<1>8. /\ save' \in Saves /\ save'.has = Granted(Cur)
      /\ supported => save'.mark = Cur
      /\ ~supported => save'.mark = save.mark
  BY <1>1, <1>2, <1>7, WatermarkIs
<1>9. /\ reordered' \subseteq Idx /\ reordered \subseteq reordered'
      /\ ~supported /\ Missing # {} => Cur \in reordered'
      /\ used' \in [Mishaps -> Nat]
  BY <1>1, <1>2, <1>3, HappensIs DEF TypeOK, Mishaps
<1>10. TypeOK'
  BY <1>1, <1>3, <1>5, <1>8, <1>9 DEF TypeOK
<1>11. Given
  BY <1>6, <1>8 DEF Given
<1>12. \/ save'.has[Cur] = save.has[Cur]
       \/ /\ save'.has[Cur] = save.has[Cur] + 1
          /\ ~slot.pending.granted
          /\ supported /\ save'.mark = save.mark => Before(reordered', Cur)
          /\ ~supported /\ Missing # {} => Cur \in reordered'
  <2>1. ASSUME supported, save'.mark = save.mark PROVE Before(reordered', Cur)
    <3>1. ~Before(reordered, Cur) => save.mark = Cur - 1
      BY <1>1, <2>1, Resumed
    <3>2. Before(reordered, Cur)
      BY <1>2, <1>3, <1>8, <2>1, <3>1
    <3> QED
      BY <1>9, <3>2 DEF Before
  <2> QED
    BY <1>6, <1>8, <1>9, <2>1
<1>13. supported /\ slot'.mark = Nothing => slot'.highest = Nothing \/ Before(reordered', 0)
  <2>1. Before(reordered, 0) => Before(reordered', 0)
    BY <1>9 DEF Before
  <2> QED
    BY <1>5, <2>1 DEF IInv, FieldInv
<1>14. slot'.highest >= slot.highest
  BY <1>3, <1>5, SlotLedgerAssumption DEF Slots
<1>15. /\ \A i \in Idx \ {Cur} : save'.has[i] = save.has[i] /\ slot'.acked[i] = slot.acked[i]
       /\ save'.mark = save.mark \/ (save'.mark = Cur /\ supported)
  BY <1>5, <1>6, <1>8
<1> QED
  BY <1>1, <1>4, <1>5, <1>9, <1>10, <1>11, <1>12, <1>13, <1>14, <1>15, DeliveryStep

-----------------------------------------------------------------------------
(***************************************************************************)
(* The steps that leave the saves alone.                                    *)
(***************************************************************************)
\* A ledger that settles nothing new, beside the same saves: only its row, its
\* watermark and what is above its cursor are left to show.
LEMMA LedgerStep ==
  ASSUME IInv, TypeOK', RowInv', FieldInv',
         UNCHANGED <<supported, save, copies, erased>>,
         reordered \subseteq reordered', completed' \subseteq completed,
         \A i \in Idx : slot'.acked[i] = "delivered" => slot.acked[i] = "delivered",
         slot'.pending.granted => slot'.pending = slot.pending,
         ~supported => \A i \in Idx : i > slot'.highest /\ save.has[i] > 0
                         => \/ Before(reordered', i)
                            \/ slot'.pending.granted /\ slot'.pending.index = i
  PROVE  IInv'
<1>0. TypeOK /\ ChainInv /\ MarkInv /\ GrantInv /\ AttestInv /\ NoDuplicate
  BY DEF IInv
<1>1. /\ reordered \in SUBSET Idx /\ reordered' \in SUBSET Idx
      /\ save \in Saves /\ \A k \in DOMAIN copies : copies[k] \in Saves
  BY <1>0 DEF TypeOK
<1>2. \A i : Before(reordered, i) => Before(reordered', i)
  BY DEF Before
<1>3. \A a, b \in Saves : Older(a, b, reordered) => Older(a, b, reordered')
  BY <1>2 DEF Older
<1>4. ChainInv'
  BY <1>0, <1>1, <1>3 DEF ChainInv
<1>5. Loadable' = Loadable
  BY DEF Loadable
<1>6. MarkInv'
  BY <1>0, <1>2, <1>5 DEF MarkInv
<1>7. GrantInv'
  BY <1>0 DEF GrantInv
<1>8. AttestInv'
  BY <1>0, <1>2, <1>5 DEF AttestInv
<1>9. NoDuplicate'
  <2>1. ASSUME NEW i \in Idx, save.has[i] > 1 PROVE Before(reordered', i)
    BY <1>0, <1>2, <2>1 DEF NoDuplicate, Earlier, Before
  <2> QED
    BY <2>1 DEF NoDuplicate, Earlier, Before
<1> QED
  BY <1>4, <1>6, <1>7, <1>8, <1>9 DEF IInv

\* rewind_to: nothing at or above the first index is settled or requeued.
LEMMA RewindIs ==
  ASSUME NEW s \in Slots, NEW f \in 0 .. N
  PROVE  \E t \in {RewindTo(s, f)} :
           /\ t \in Slots /\ t.highest = f - 1 /\ t.pending = NoPlan /\ t.mark = s.mark
           /\ t.redeliver \subseteq s.redeliver /\ \A i \in t.redeliver : i < f
           /\ \A i \in Idx : t.acked[i] # "none" => i < f /\ t.acked[i] = s.acked[i]
<1> DEFINE ack == [i \in Idx |-> IF i < f THEN s.acked[i] ELSE "none"]
           red == {i \in s.redeliver : i < f}
           t == RewindTo(s, f)
<1>1. ack \in [Idx -> Acks] /\ red \in SUBSET Idx /\ red \subseteq s.redeliver
  BY DEF Slots, Acks
<1>2. f - 1 \in Nothing .. N-1
  BY SlotLedgerAssumption DEF Nothing
<1>3. \A i \in Idx : ack[i] # "none" => i < f /\ ack[i] = s.acked[i]
  OBVIOUS
<1>4. \A i \in red : i < f
  OBVIOUS
<1>5. t = [s EXCEPT !.acked = ack, !.redeliver = red, !.highest = f - 1, !.pending = NoPlan]
  BY DEF RewindTo
<1> HIDE DEF ack, red, t
<1>6. /\ t \in Slots /\ t.highest = f - 1 /\ t.pending = NoPlan /\ t.mark = s.mark
      /\ t.redeliver = red /\ t.acked = ack
  BY <1>1, <1>2, <1>5 DEF Slots
<1>7. /\ t.redeliver \subseteq s.redeliver /\ \A i \in t.redeliver : i < f
      /\ \A i \in Idx : t.acked[i] # "none" => i < f /\ t.acked[i] = s.acked[i]
  BY <1>1, <1>3, <1>4, <1>6
<1> QED
  BY <1>6, <1>7 DEF t

\* A rewound or an adopted cursor is the save's watermark, whichever side was
\* ahead.
LEMMA ReconcileStep ==
  ASSUME IInv, Reconcile
  PROVE  IInv'
<1>0. TypeOK /\ RowInv
  BY DEF IInv
<1>1. /\ Outcome \in {"Reissue", "AdoptSaveCursor"} /\ slot' = Compared
      /\ UNCHANGED <<supported, readable, save, copies, completed, received, reordered, erased, used>>
  BY DEF Reconcile
<1>2. /\ slot.highest \in Nothing .. N-1 /\ slot.redeliver \in SUBSET Idx
      /\ slot.acked \in [Idx -> Acks] /\ save.mark \in Nothing .. N-1
      /\ Nothing = -1 /\ N \in Nat /\ Idx = 0 .. N-1 /\ slot \in Slots
  BY <1>0, Fields DEF TypeOK
<1>3. Observed # Nothing
  <2>1. SUFFICES ASSUME Observed = Nothing PROVE FALSE
    OBVIOUS
  <2>2. Outcome \in {"Hold", "Resume"}
    BY <2>1 DEF Outcome, WatermarkOutcome
  <2> QED
    BY <1>1, <2>2
<1>4. supported /\ readable /\ Observed = save.mark /\ save.mark # Nothing
  BY <1>3 DEF Observed
<1>5. /\ slot' \in Slots /\ slot'.highest = save.mark /\ slot'.mark = save.mark
      /\ slot'.pending = NoPlan
      /\ slot'.redeliver \subseteq slot.redeliver /\ \A i \in slot'.redeliver : i <= save.mark
      /\ \A i \in Idx : slot'.acked[i] # "none" => i <= save.mark /\ slot'.acked[i] = slot.acked[i]
  <2>1. CASE Outcome = "Reissue"
    <3>1. PICK f \in 0 .. N : f = save.mark + 1
      BY <1>2, <1>4
    <3>2. PICK t \in {RewindTo(slot, f)} :
            /\ t \in Slots /\ t.highest = f - 1 /\ t.pending = NoPlan
            /\ t.redeliver \subseteq slot.redeliver /\ \A i \in t.redeliver : i < f
            /\ \A i \in Idx : t.acked[i] # "none" => i < f /\ t.acked[i] = slot.acked[i]
      BY <1>2, RewindIs
    <3>3. slot' = [t EXCEPT !.mark = save.mark]
      BY <1>1, <1>3, <1>4, <2>1, <3>1, <3>2 DEF Compared, Outcome, ReconcileSaveWatermark
    <3>4. /\ slot' \in Slots /\ slot'.highest = t.highest /\ slot'.mark = save.mark
          /\ slot'.pending = t.pending /\ slot'.redeliver = t.redeliver /\ slot'.acked = t.acked
      BY <1>2, <3>2, <3>3 DEF Slots
    <3>5. t.highest = save.mark /\ \A i \in Idx : i < f => i <= save.mark
      BY <1>2, <3>1, <3>2
    <3> QED
      BY <1>2, <3>2, <3>4, <3>5
  <2>2. CASE Outcome = "AdoptSaveCursor"
    <3>1. slot.highest < save.mark
      <4>1. SUFFICES ASSUME ~(slot.highest < save.mark) PROVE FALSE
        OBVIOUS
      <4>2. slot.highest = save.mark \/ slot.highest > save.mark
        BY <1>2, <4>1
      <4>3. Outcome \in {"Resume", "Reissue"}
        BY <1>2, <1>4, <4>1, <4>2 DEF Outcome, WatermarkOutcome
      <4> QED
        BY <2>2, <4>3
    <3>2. slot' = [slot EXCEPT !.highest = save.mark, !.pending = NoPlan, !.mark = save.mark]
      BY <1>1, <1>3, <1>4, <2>2 DEF Compared, Outcome, ReconcileSaveWatermark
    <3>3. /\ slot' \in Slots /\ slot'.highest = save.mark /\ slot'.mark = save.mark
          /\ slot'.pending = NoPlan /\ slot'.redeliver = slot.redeliver /\ slot'.acked = slot.acked
      BY <1>2, <3>2 DEF Slots
    <3>4. \A i \in Idx : i <= slot.highest => i <= save.mark
      BY <1>2, <3>1
    <3> QED
      BY <1>0, <1>2, <3>3, <3>4 DEF RowInv
  <2> QED
    BY <1>1, <2>1, <2>2
<1>6. TypeOK'
  BY <1>0, <1>1, <1>5 DEF TypeOK
<1>7. RowInv'
  BY <1>0, <1>1, <1>5 DEF RowInv
<1>8. FieldInv'
  BY <1>1, <1>4, <1>5 DEF FieldInv
<1>9. ~slot'.pending.granted
  BY <1>5 DEF NoPlan
<1>10. \A i \in Idx : slot'.acked[i] = "delivered" => slot.acked[i] = "delivered"
  BY <1>5
<1> QED
  BY <1>1, <1>4, <1>6, <1>7, <1>8, <1>9, <1>10, LedgerStep

\* A plan is begun after the comparison said Resume.
LEMMA BeginStep ==
  ASSUME IInv, BeginDelivery
  PROVE  IInv'
<1>0. TypeOK /\ RowInv /\ AttestInv
  BY DEF IInv
<1>1. /\ Delivers /\ slot.pending = NoPlan
      /\ slot' = Begin(Compared, FreshPlan(Cur, FALSE))
      /\ UNCHANGED <<supported, readable, save, copies, completed, received, reordered, erased, used>>
  BY DEF BeginDelivery
<1>2. /\ Cur \in Idx /\ Compared \in Slots
      /\ Compared.highest = slot.highest /\ Compared.acked = slot.acked
      /\ Compared.pending = slot.pending /\ Compared.redeliver = slot.redeliver
      /\ supported => readable /\ Compared.mark = save.mark
      /\ supported => save.mark = slot.highest \/ Before(reordered, 0)
  BY <1>1, Resumed
<1> DEFINE p == FreshPlan(Cur, FALSE)
<1>3. p \in Plans /\ ~p.granted
  BY <1>2, SlotLedgerAssumption DEF FreshPlan, Plans, Nothing
<1>4. slot' = [Compared EXCEPT !.pending = p]
  BY <1>1, <1>2 DEF Begin
<1> HIDE DEF p
<1>5. /\ slot' \in Slots /\ slot'.highest = slot.highest /\ slot'.acked = slot.acked
      /\ slot'.redeliver = slot.redeliver /\ slot'.mark = Compared.mark
      /\ ~slot'.pending.granted
  BY <1>2, <1>3, <1>4 DEF Slots
<1>6. TypeOK'
  BY <1>0, <1>1, <1>5 DEF TypeOK
<1>7. RowInv'
  BY <1>0, <1>1, <1>5 DEF RowInv
<1>8. FieldInv'
  BY <1>1, <1>2, <1>5 DEF FieldInv
<1>9. ~slot.pending.granted
  BY <1>1 DEF NoPlan
<1>10. ~supported => \A i \in Idx : i > slot'.highest /\ save.has[i] > 0 => Before(reordered', i)
  BY <1>0, <1>1, <1>5, <1>9 DEF AttestInv
<1> QED
  BY <1>1, <1>5, <1>6, <1>7, <1>8, <1>10, LedgerStep

\* A blocked index is requeued by the operator.
LEMMA RetryStep ==
  ASSUME IInv, NEW i \in Idx, RetryBlocked(i)
  PROVE  IInv'
<1>0. TypeOK /\ RowInv /\ FieldInv /\ AttestInv
  BY DEF IInv
<1>1. /\ slot.acked[i] \in Blocked /\ slot' = RequeueBlocked(slot, i)
      /\ reordered' = reordered \cup {i} /\ Happens("retry")
      /\ UNCHANGED <<supported, readable, save, copies, completed, received, erased>>
  BY DEF RetryBlocked, CanRequeueBlocked
<1>2. slot \in Slots /\ slot.acked \in [Idx -> Acks] /\ slot.redeliver \in SUBSET Idx
  BY <1>0, Fields DEF TypeOK
<1> DEFINE ack == [slot.acked EXCEPT ![i] = "none"]
<1>3. ack \in [Idx -> Acks] /\ ack[i] = "none" /\ \A j \in Idx \ {i} : ack[j] = slot.acked[j]
  BY <1>2 DEF Acks
<1>4. slot' = [slot EXCEPT !.acked = ack, !.deferred = slot.deferred \ {i},
                           !.redeliver = slot.redeliver \cup {i}]
  BY <1>1 DEF RequeueBlocked
<1> HIDE DEF ack
<1>5. /\ slot' \in Slots /\ slot'.highest = slot.highest /\ slot'.pending = slot.pending
      /\ slot'.redeliver = slot.redeliver \cup {i} /\ slot'.mark = slot.mark /\ slot'.acked = ack
  BY <1>2, <1>3, <1>4 DEF Slots
<1>6. TypeOK'
  BY <1>0, <1>1, <1>5, HappensIs DEF TypeOK, Mishaps
<1>7. i <= slot.highest
  BY <1>0, <1>1 DEF RowInv, Blocked
<1>8. RowInv'
  BY <1>0, <1>1, <1>3, <1>5, <1>7 DEF RowInv
<1>9. \A j : Before(reordered, j) => Before(reordered', j)
  BY <1>1 DEF Before
<1>10. FieldInv'
  BY <1>0, <1>1, <1>5, <1>9 DEF FieldInv
<1>11. \A j \in Idx : slot'.acked[j] = "delivered" => slot.acked[j] = "delivered"
  BY <1>3, <1>5
<1>12. ~supported => \A j \in Idx : j > slot'.highest /\ save.has[j] > 0
                       => \/ Before(reordered', j)
                          \/ slot'.pending.granted /\ slot'.pending.index = j
  BY <1>0, <1>5, <1>9 DEF AttestInv
<1> QED
  BY <1>1, <1>5, <1>6, <1>8, <1>10, <1>11, <1>12, LedgerStep

\* A restore is attested: the cursor goes back below the first missing index,
\* and the save holds nothing from there on.
LEMMA AttestStep ==
  ASSUME IInv, NEW first \in Idx, AttestRestore(first)
  PROVE  IInv'
<1>0. TypeOK /\ RowInv /\ AttestInv
  BY DEF IInv
<1>1. /\ ~supported /\ Missing # {} /\ first = Min(Missing)
      /\ slot' = RewindTo(slot, first) /\ completed' = {}
      /\ UNCHANGED <<supported, readable, save, copies, received, reordered, erased, used>>
  BY DEF AttestRestore
<1>2. /\ slot \in Slots /\ save.has \in [Idx -> Nat] /\ N \in Nat /\ Idx = 0 .. N-1
  BY <1>0, Fields DEF TypeOK
<1>3. slot.acked[first] = "delivered" /\ save.has[first] = 0
  <2>1. Missing \in SUBSET Idx
    BY DEF Missing
  <2>2. first \in Missing
    BY <1>1, <2>1, LeastIndex
  <2> QED
    BY <2>2 DEF Missing
<1>4. first \in 0 .. N
  BY <1>2
<1>5. /\ slot' \in Slots /\ slot'.highest = first - 1 /\ slot'.pending = NoPlan
      /\ slot'.redeliver \subseteq slot.redeliver /\ \A i \in slot'.redeliver : i < first
      /\ \A i \in Idx : slot'.acked[i] # "none" => i < first /\ slot'.acked[i] = slot.acked[i]
  BY <1>1, <1>2, <1>4, RewindIs
<1>6. TypeOK'
  BY <1>0, <1>1, <1>5 DEF TypeOK
<1>7. \A i \in Idx : i < first => i <= slot'.highest
  BY <1>2, <1>5
<1>8. RowInv'
  <2>1. slot'.redeliver \subseteq Idx
    BY <1>5 DEF Slots
  <2> QED
    BY <1>0, <1>1, <1>5, <1>7, <2>1 DEF RowInv
<1>9. FieldInv'
  BY <1>1 DEF FieldInv
<1>10. ASSUME NEW i \in Idx, i > slot'.highest, save.has[i] > 0
       PROVE  Before(reordered', i)
  <2>1. first < i
    BY <1>2, <1>3, <1>5, <1>10
  <2>2. save \in Loadable
    BY DEF Loadable
  <2> QED
    BY <1>0, <1>1, <1>3, <1>10, <2>1, <2>2 DEF AttestInv
<1>11. ~slot'.pending.granted
  BY <1>5 DEF NoPlan
<1>12. \A i \in Idx : slot'.acked[i] = "delivered" => slot.acked[i] = "delivered"
  BY <1>5
<1> QED
  BY <1>1, <1>6, <1>8, <1>9, <1>10, <1>11, <1>12, LedgerStep

\* A new ledger beside a save that has a readable watermark.
LEMMA LoseStep ==
  ASSUME IInv, LoseLedger
  PROVE  IInv'
<1>0. TypeOK
  BY DEF IInv
<1>1. /\ supported /\ readable /\ slot' = EmptySlot /\ completed' = {} /\ Happens("lose")
      /\ UNCHANGED <<supported, readable, save, copies, received, reordered, erased>>
  BY DEF LoseLedger
<1>2. /\ slot' \in Slots /\ slot'.highest = Nothing /\ slot'.redeliver = {}
      /\ slot'.pending = NoPlan /\ \A i \in Idx : slot'.acked[i] = "none"
  BY <1>1, SlotLedgerAssumption DEF EmptySlot, Slots, Acks, Nothing
<1>3. TypeOK'
  BY <1>0, <1>1, <1>2, HappensIs DEF TypeOK, Mishaps
<1>4. RowInv' /\ FieldInv'
  BY <1>1, <1>2 DEF RowInv, FieldInv
<1>5. ~slot'.pending.granted
  BY <1>2 DEF NoPlan
<1> QED
  BY <1>1, <1>2, <1>3, <1>4, <1>5, LedgerStep

\* What does not touch the ledger: a restart of the client, the field becoming
\* readable or unreadable, a new item, and a step that changes nothing.
LEMMA QuietStep ==
  ASSUME IInv, Restart \/ BecomeUnreadable \/ BecomeReadable \/ Receive \/ UNCHANGED vars
  PROVE  IInv'
<1>0. TypeOK /\ RowInv /\ FieldInv /\ AttestInv
  BY DEF IInv
<1>1. /\ UNCHANGED <<supported, slot, save, copies, reordered, erased>>
      /\ completed' \subseteq completed
      /\ readable' \in BOOLEAN /\ (readable' = FALSE => readable = FALSE \/ slot.mark # Nothing)
      /\ received' \in 0 .. N /\ used' \in [Mishaps -> Nat]
  <2>0. received \in 0 .. N /\ readable \in BOOLEAN /\ used \in [Mishaps -> Nat] /\ N \in Nat
    BY <1>0, SlotLedgerAssumption DEF TypeOK
  <2>1. CASE Restart
    BY <2>0, <2>1 DEF Restart
  <2>2. CASE BecomeUnreadable
    BY <2>0, <2>2, HappensIs DEF BecomeUnreadable, Mishaps
  <2>3. CASE BecomeReadable
    BY <2>0, <2>3 DEF BecomeReadable
  <2>4. CASE Receive
    BY <2>0, <2>4 DEF Receive
  <2>5. CASE UNCHANGED vars
    BY <2>0, <2>5 DEF vars
  <2> QED
    BY <2>1, <2>2, <2>3, <2>4, <2>5
<1>2. TypeOK'
  BY <1>0, <1>1 DEF TypeOK
<1>3. RowInv'
  BY <1>0, <1>1 DEF RowInv
<1>4. FieldInv'
  BY <1>0, <1>1 DEF FieldInv, TypeOK
<1>5. ~supported => \A i \in Idx : i > slot'.highest /\ save.has[i] > 0
                      => \/ Before(reordered', i)
                         \/ slot'.pending.granted /\ slot'.pending.index = i
  BY <1>0, <1>1 DEF AttestInv
<1> QED
  BY <1>1, <1>2, <1>3, <1>4, <1>5, LedgerStep

-----------------------------------------------------------------------------
(***************************************************************************)
(* The steps of the player on the saves.                                    *)
(***************************************************************************)
\* The loaded save is copied.
LEMMA CopyStep ==
  ASSUME IInv, CopySave
  PROVE  IInv'
<1>0. TypeOK /\ ChainInv /\ RowInv /\ FieldInv /\ MarkInv /\ GrantInv /\ AttestInv /\ NoDuplicate
  BY DEF IInv
<1>1. /\ copies' = Append(copies, save)
      /\ UNCHANGED <<supported, readable, slot, save, completed, received, reordered, erased, used>>
  BY DEF CopySave
<1>2. copies \in Seq(Saves) /\ save \in Saves
  BY <1>0 DEF TypeOK
<1>3. /\ copies' \in Seq(Saves) /\ copies' # <<>>
      /\ DOMAIN copies' = DOMAIN copies \cup {Len(copies) + 1}
      /\ \A k \in DOMAIN copies : copies'[k] = copies[k] /\ k \in Int /\ k <= Len(copies)
      /\ copies'[Len(copies) + 1] = save /\ Len(copies) \in Int
  BY <1>1, <1>2
<1>4. TypeOK'
  BY <1>0, <1>1, <1>3 DEF TypeOK
<1>5. Loadable' = Loadable
  BY <1>1, <1>3 DEF Loadable
<1>6. Older(save, save, reordered)
  BY <1>2, OlderRefl
<1>7. \A k \in DOMAIN copies' : Older(copies'[k], save, reordered)
  BY <1>0, <1>3, <1>6 DEF ChainInv
<1>8. ASSUME NEW k \in DOMAIN copies', NEW l \in DOMAIN copies', k <= l
      PROVE  Older(copies'[k], copies'[l], reordered)
  <2>1. CASE l = Len(copies) + 1
    BY <1>3, <1>7, <2>1
  <2>2. CASE l # Len(copies) + 1
    <3>1. l \in DOMAIN copies /\ k \in DOMAIN copies
      BY <1>3, <1>8, <2>2
    <3> QED
      BY <1>0, <1>3, <1>8, <3>1 DEF ChainInv
  <2> QED
    BY <2>1, <2>2
<1>9. ChainInv'
  BY <1>1, <1>3, <1>7, <1>8 DEF ChainInv
<1>10. RowInv' /\ FieldInv' /\ GrantInv'
  BY <1>0, <1>1 DEF RowInv, FieldInv, GrantInv
<1>11. MarkInv' /\ AttestInv'
  BY <1>0, <1>1, <1>5 DEF MarkInv, AttestInv
<1>12. NoDuplicate'
  BY <1>0, <1>1 DEF NoDuplicate, Earlier
<1> QED
  BY <1>4, <1>9, <1>10, <1>11, <1>12 DEF IInv

\* The player goes back to an older save.
LEMMA RestoreStep ==
  ASSUME IInv, NEW k \in DOMAIN copies, RestoreSave(k)
  PROVE  IInv'
<1>0. TypeOK /\ ChainInv /\ RowInv /\ FieldInv /\ MarkInv /\ GrantInv /\ AttestInv /\ NoDuplicate
  BY DEF IInv
<1>1. /\ save' = copies[k] /\ copies' = SubSeq(copies, 1, k) /\ Happens("restore")
      /\ UNCHANGED <<supported, readable, slot, received, reordered>>
      /\ supported => completed' = {}
      /\ completed' \subseteq completed
      /\ erased' = IF slot.pending.granted THEN erased \cup {slot.pending.index} ELSE erased
  BY DEF RestoreSave
<1>2. copies \in Seq(Saves) /\ save \in Saves /\ copies[k] \in Saves
  BY <1>0 DEF TypeOK
<1>3. /\ copies' \in Seq(Saves) /\ copies' # <<>>
      /\ DOMAIN copies' = 1 .. k /\ 1 .. k \subseteq DOMAIN copies
      /\ \A l \in 1 .. k : copies'[l] = copies[l] /\ l <= k
  BY <1>1, <1>2
<1>4. /\ erased \subseteq erased' /\ erased' \subseteq Idx
      /\ slot.pending.granted => slot.pending.index \in erased'
  <2>1. slot.pending \in Plans \cup {NoPlan} /\ erased \subseteq Idx
    BY <1>0, Fields DEF TypeOK
  <2>2. slot.pending.granted => slot.pending.index \in Idx
    BY <2>1 DEF Plans, NoPlan
  <2> QED
    BY <1>1, <2>1, <2>2
<1>5. TypeOK'
  BY <1>0, <1>1, <1>2, <1>3, <1>4, HappensIs DEF TypeOK, Mishaps
<1>6. Loadable' \subseteq Loadable
  BY <1>1, <1>3 DEF Loadable
<1>7. ChainInv'
  BY <1>0, <1>1, <1>3 DEF ChainInv
<1>8. RowInv' /\ FieldInv'
  BY <1>0, <1>1 DEF RowInv, FieldInv
<1>9. MarkInv'
  <2>1. SUFFICES ASSUME supported, NEW c \in Loadable', NEW i \in Idx
        PROVE  /\ i > c.mark /\ c.has[i] > 0 => Before(reordered', i)
               /\ i <= c.mark /\ slot'.acked[i] = "delivered" /\ c.has[i] = 0
                    => Before(reordered', i) \/ i \in erased'
    BY <1>1 DEF MarkInv
  <2>2. c \in Loadable
    BY <1>6
  <2>3. /\ i > c.mark /\ c.has[i] > 0 => Before(reordered, i)
        /\ i <= c.mark /\ slot.acked[i] = "delivered" /\ c.has[i] = 0
             => Before(reordered, i) \/ i \in erased
    BY <1>0, <2>1, <2>2 DEF MarkInv
  <2> QED
    BY <1>1, <1>4, <2>3
<1>10. GrantInv'
  BY <1>1, <1>4 DEF GrantInv
<1>11. \A i \in Idx : save'.has[i] <= save.has[i] /\ save'.has[i] \in Nat /\ save.has[i] \in Nat
  BY <1>0, <1>1, <1>2 DEF ChainInv, Older, Saves
<1>12. AttestInv'
  <2>1. SUFFICES ASSUME ~supported
        PROVE  /\ \A i \in Idx : i > slot.highest /\ save'.has[i] > 0
                    => Before(reordered, i) \/ (slot.pending.granted /\ slot.pending.index = i)
               /\ \A c \in Loadable', j, i \in Idx :
                    j < i /\ slot.acked[j] = "delivered" /\ c.has[j] = 0 /\ c.has[i] > 0
                      => Before(reordered, i)
    BY <1>1 DEF AttestInv
  <2>2. ASSUME NEW i \in Idx, i > slot.highest, save'.has[i] > 0
        PROVE  Before(reordered, i) \/ (slot.pending.granted /\ slot.pending.index = i)
    <3>1. save.has[i] > 0
      BY <1>11, <2>2
    <3> QED
      BY <1>0, <2>1, <2>2, <3>1 DEF AttestInv
  <2> QED
    BY <1>0, <1>6, <2>1, <2>2 DEF AttestInv
<1>13. NoDuplicate'
  <2>1. ASSUME NEW i \in Idx, save'.has[i] > 1 PROVE save.has[i] > 1
    BY <1>11, <2>1
  <2> QED
    BY <1>0, <1>1, <2>1 DEF NoDuplicate, Earlier
<1> QED
  BY <1>5, <1>7, <1>8, <1>9, <1>10, <1>12, <1>13 DEF IInv

-----------------------------------------------------------------------------
(***************************************************************************)
(* The theorems.                                                            *)
(***************************************************************************)
\* The first ledger and the first save of a slot.
LEMMA InitIInv ==
  ASSUME Init
  PROVE  IInv
<1>1. /\ supported \in BOOLEAN /\ readable = TRUE
      /\ slot = EmptySlot /\ save = NewSave /\ copies = <<NewSave>>
      /\ completed = {} /\ received = 0 /\ reordered = {} /\ erased = {}
      /\ used = [m \in Mishaps |-> 0]
  BY DEF Init
<1>2. /\ slot \in Slots /\ slot.highest = Nothing /\ slot.redeliver = {} /\ slot.pending = NoPlan
      /\ \A i \in Idx : slot.acked[i] = "none"
  BY <1>1, SlotLedgerAssumption DEF EmptySlot, Slots, Acks, Nothing
<1>3. NewSave \in Saves /\ NewSave.mark = Nothing /\ \A i \in Idx : NewSave.has[i] = 0
  BY SlotLedgerAssumption DEF NewSave, Saves, Nothing
<1>4. /\ copies \in Seq(Saves) /\ copies # <<>> /\ DOMAIN copies = {1}
      /\ \A k \in DOMAIN copies : copies[k] = NewSave
  BY <1>1, <1>3
<1>5. TypeOK
  BY <1>1, <1>2, <1>3, <1>4, SlotLedgerAssumption DEF TypeOK
<1>6. ChainInv
  BY <1>1, <1>3, <1>4, OlderRefl DEF ChainInv
<1>7. RowInv /\ FieldInv
  BY <1>1, <1>2 DEF RowInv, FieldInv
<1>8. Loadable = {NewSave}
  BY <1>1, <1>4 DEF Loadable
<1>9. MarkInv /\ AttestInv
  BY <1>1, <1>2, <1>3, <1>8 DEF MarkInv, AttestInv
<1>10. GrantInv
  BY <1>1, <1>2 DEF GrantInv, NoPlan
<1>11. NoDuplicate
  BY <1>1, <1>3 DEF NoDuplicate
<1> QED
  BY <1>5, <1>6, <1>7, <1>9, <1>10, <1>11 DEF IInv

\* Every step of the client, the operator, the player and the server.
LEMMA NextIInv ==
  ASSUME IInv, [Next]_vars
  PROVE  IInv'
<1>1. CASE Poll
  BY <1>1, ReconcileStep, BeginStep, FinishStep, ParkStep, DieStep DEF Poll
<1>2. CASE \E i \in Idx : RetryBlocked(i) \/ AttestRestore(i)
  BY <1>2, RetryStep, AttestStep
<1>3. CASE CopySave \/ \E k \in DOMAIN copies : RestoreSave(k)
  BY <1>3, CopyStep, RestoreStep
<1>4. CASE LoseLedger
  BY <1>4, LoseStep
<1>5. CASE Restart \/ BecomeUnreadable \/ BecomeReadable \/ Receive \/ UNCHANGED vars
  BY <1>5, QuietStep
<1> QED
  BY <1>1, <1>2, <1>3, <1>4, <1>5 DEF Next

\* The invariant holds for every number of items and every bound on the
\* mishaps.
THEOREM ReconciliationInvariant == Spec => []IInv
<1>1. Init => IInv
  BY InitIInv
<1>2. IInv /\ [Next]_vars => IInv'
  BY NextIInv
<1> QED
  BY <1>1, <1>2, PTL DEF Spec

\* TypeOK: the cursors and watermarks that reconcile_save_watermark, rewind_to
\* and the watermark writes leave stay on the server's indices.
THEOREM ReconciliationTyped == Spec => []TypeOK
<1>1. IInv => TypeOK
  BY DEF IInv
<1> QED
  BY <1>1, ReconciliationInvariant, PTL

\* NoDuplicate: reconcile_save_watermark and bb-restored re-grant nothing the
\* loaded save holds, unless an index was delivered out of order or without its
\* watermark.
THEOREM NothingDuplicated == Spec => []NoDuplicate
<1>1. IInv => NoDuplicate
  BY DEF IInv
<1> QED
  BY <1>1, ReconciliationInvariant, PTL

\* ResumeIsComplete: a poll that reconcile_watermark lets go on has a save that
\* holds what the ledger calls delivered.
THEOREM ResumesComplete == Spec => []ResumeIsComplete
<1>1. IInv => ResumeIsComplete
  <2> HAVE IInv
  <2>0. TypeOK /\ RowInv /\ MarkInv
    BY DEF IInv
  <2>1. SUFFICES ASSUME Observed # Nothing, Outcome = "Resume", NEW i \in Missing
                 PROVE  Earlier(i) \/ i \in erased
    BY DEF ResumeIsComplete
  <2>2. supported /\ Observed = save.mark
    BY <2>1 DEF Observed
  <2>3. /\ slot.highest \in Nothing .. N-1 /\ save.mark \in Nothing .. N-1
        /\ Nothing = -1 /\ N \in Nat /\ save \in Loadable
    BY <2>0, Fields DEF Loadable
  <2>4. slot.highest = save.mark
    BY <2>1, <2>2, <2>3 DEF Outcome, WatermarkOutcome
  <2>5. i \in Idx /\ slot.acked[i] = "delivered" /\ save.has[i] = 0
    BY DEF Missing
  <2>6. i <= save.mark
    BY <2>0, <2>4, <2>5 DEF RowInv
  <2>7. Before(reordered, i) \/ i \in erased
    BY <2>0, <2>2, <2>3, <2>5, <2>6 DEF MarkInv
  <2> QED
    BY <2>7 DEF Earlier, Before
<1> QED
  BY <1>1, ReconciliationInvariant, PTL
===============================================================================
