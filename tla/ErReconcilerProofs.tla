-------------------------- MODULE ErReconcilerProofs --------------------------
(***************************************************************************)
(* Proofs about the reconciler: its type, the bound on what the game is     *)
(* made to refuse between two world edges, and the durability of its debt.  *)
(***************************************************************************)
EXTENDS ErReconciler, FiniteSetTheorems, TLAPS

-----------------------------------------------------------------------------
(***************************************************************************)
(* The desired state.                                                       *)
(***************************************************************************)

\* Every received item stands for goods and flags of the slot
\* (DesiredState::build).
LEMMA EffectType == \A i \in 1 .. Len(Stream) : Effect(i) \in Wares
<1>1. TAKE i \in 1 .. Len(Stream)
<1>2. CASE Stream[i] # Prog
  BY <1>2, ReconcilerAssumption DEF Effect
<1>3. CASE Stream[i] = Prog /\ Rung(i) <= Len(Tiers)
  <2> DEFINE S == {j \in 1 .. i : Stream[j] = Prog}
  <2>1. IsFiniteSet(1 .. i)
    BY FS_Interval, ReconcilerAssumption
  <2>2. IsFiniteSet(S)
    BY <2>1, FS_Subset
  <2>3. S # {}
    BY <1>3
  <2>4. Cardinality(S) \in Nat /\ Cardinality(S) # 0
    BY <2>2, <2>3, FS_CardinalityType, FS_EmptySet
  <2>5. Rung(i) \in 1 .. Len(Tiers)
    <3> HIDE DEF S
    <3>1. Rung(i) = Cardinality(S)
      BY DEF Rung, S
    <3> QED BY <3>1, <2>4, <1>3, ReconcilerAssumption
  <2>6. Tiers[Rung(i)] \in Wares
    BY <2>5, ReconcilerAssumption
  <2> QED BY <1>3, <2>6 DEF Effect
<1>4. CASE Stream[i] = Prog /\ ~(Rung(i) <= Len(Tiers))
  BY <1>4 DEF Effect, Overflow, Wares
<1> QED BY <1>2, <1>3, <1>4

LEMMA DesiredType ==
    \A n \in 0 .. Len(Stream) : DesiredGoods(n) \subseteq Goods /\ DesiredFlags(n) \subseteq Flags
<1>1. TAKE n \in 0 .. Len(Stream)
<1>2. \A i \in 1 .. n : Effect(i) \in Wares
  BY EffectType, ReconcilerAssumption
<1> QED BY <1>2, ReconcilerAssumption DEF DesiredGoods, DesiredFlags, Wares

-----------------------------------------------------------------------------
(***************************************************************************)
(* The inductive invariant.  While the stall guard is armed for the current *)
(* epoch it counts exactly what the game refused, and parks exactly what    *)
(* reached the bound; what is parked is owed, and reconcile.json holds the  *)
(* driver's debt.  An edge the guard has not noticed yet finds it with      *)
(* nothing refused since.                                                   *)
(***************************************************************************)
Gauge(tries, parked, count) ==
    \A x \in DOMAIN tries : count[x] = tries[x] /\ (x \in parked <=> tries[x] = MaxAttempts)

Fresh == drops = Zero(Goods) /\ waste = Zero(Flags)

Guard ==
    /\ rec = None => Fresh
    /\ rec # None => /\ stored = rec.debt /\ rec.stalled \subseteq rec.debt
                     /\ ~rec.armed => Fresh
                     /\ rec.armed => /\ Gauge(rec.attempts, rec.stalled, drops)
                                     /\ Gauge(rec.fattempts, rec.fstalled, waste)

IInv == TypeOK /\ Guard

\* What the frame starts from: the reconciler initialised or given its inputs,
\* and re-armed.
Begun(holder) == RearmOnWorldEdge(IF rec = None THEN NewRec(holder) ELSE SetInputs(rec))

\* Init, set_inputs and rearm_on_world_edge leave an armed guard that agrees
\* with the game.
LEMMA BegunOK ==
    ASSUME IInv, NEW holder \in BOOLEAN
    PROVE  /\ Begun(holder) \in Recs /\ Begun(holder).armed
           /\ Begun(holder).debt = stored /\ Begun(holder).stalled \subseteq Begun(holder).debt
           /\ Gauge(Begun(holder).attempts, Begun(holder).stalled, drops)
           /\ Gauge(Begun(holder).fattempts, Begun(holder).fstalled, waste)
<1> DEFINE r == IF rec = None THEN NewRec(holder) ELSE SetInputs(rec)
<1>1. Zero(Goods) \in [Goods -> 0 .. MaxAttempts] /\ Zero(Flags) \in [Flags -> 0 .. MaxAttempts]
  BY ReconcilerAssumption DEF Zero
<1>2. /\ r \in Recs /\ r.debt = stored /\ r.stalled \subseteq r.debt
      /\ ~r.armed => Fresh
      /\ r.armed => /\ Gauge(r.attempts, r.stalled, drops)
                    /\ Gauge(r.fattempts, r.fstalled, waste)
  <2>1. CASE rec = None
    <3>1. received \in 0 .. Len(Stream) /\ DesiredGoods(received) \subseteq Goods /\ stored \subseteq Goods
      BY DesiredType DEF IInv, TypeOK
    <3>2. (IF holder THEN world.mark ELSE 1) \in 1 .. Len(Stream) + 1
      <4>1. world.mark \in 1 .. Len(Stream) + 1 /\ 1 \in 1 .. Len(Stream) + 1
        BY ReconcilerAssumption DEF IInv, TypeOK, Worlds
      <4> QED BY <4>1
    <3>3. NewRec(holder) \in Recs
      BY <1>1, <3>1, <3>2 DEF NewRec, Recs
    <3> QED BY <2>1, <3>3 DEF IInv, Guard, NewRec
  <2>2. CASE rec # None
    <3>1. rec \in Recs /\ received \in 0 .. Len(Stream)
      BY <2>2 DEF IInv, TypeOK
    <3>2. DesiredGoods(received) \cup rec.durable \subseteq Goods
      BY <3>1, DesiredType DEF Recs
    <3>3. /\ SetInputs(rec) \in Recs
          /\ SetInputs(rec).debt = rec.debt /\ SetInputs(rec).stalled = rec.stalled
          /\ SetInputs(rec).armed = rec.armed
          /\ SetInputs(rec).attempts = rec.attempts
          /\ SetInputs(rec).fattempts = rec.fattempts /\ SetInputs(rec).fstalled = rec.fstalled
      BY <3>1, <3>2 DEF SetInputs, Recs
    <3> QED BY <2>2, <3>3 DEF IInv, Guard
  <2> QED BY <2>1, <2>2
<1> HIDE DEF r
<1>3. CASE r.armed
  <2>1. Begun(holder) = r
    BY <1>3 DEF Begun, RearmOnWorldEdge, r
  <2> QED BY <2>1, <1>2, <1>3
<1>4. CASE ~r.armed
  <2>1. Begun(holder) = [r EXCEPT !.armed = TRUE, !.attempts = Zero(Goods), !.stalled = {},
                          !.fattempts = Zero(Flags), !.fstalled = {}]
    BY <1>4 DEF Begun, RearmOnWorldEdge, r
  <2>2. /\ Begun(holder) \in Recs /\ Begun(holder).armed /\ Begun(holder).debt = r.debt /\ Begun(holder).stalled = {}
        /\ Begun(holder).attempts = Zero(Goods) /\ Begun(holder).fattempts = Zero(Flags) /\ Begun(holder).fstalled = {}
    BY <2>1, <1>1, <1>2 DEF Recs
  <2>3. Gauge(Zero(Goods), {}, drops) /\ Gauge(Zero(Flags), {}, waste)
    BY <1>2, <1>4, ReconcilerAssumption DEF Fresh, Gauge, Zero
  <2> QED BY <1>2, <2>2, <2>3
<1> QED BY <1>3, <1>4

\* The attempts without those of what was seen, and the count of refusals after
\* the writes of X, of which those of L landed.
Forgot(D, t, S)        == [x \in D |-> IF x \in S THEN 0 ELSE t[x]]
Recount(D, c, S, X, L) == [x \in D |-> IF x \in X \ L THEN c[x] + 1
                                       ELSE IF x \in X \cup S THEN 0 ELSE c[x]]

\* The stall guard, for goods and for flags alike: after what was seen is
\* forgotten and the writes of X are read back, it still counts what the game
\* refused and parks what reached the bound.
LEMMA GaugeKept ==
    ASSUME NEW D, NEW t \in [D -> 0 .. MaxAttempts], NEW p \in SUBSET D, NEW c,
           NEW S \in SUBSET D, NEW X \in SUBSET D, NEW L \in SUBSET X,
           Gauge(t, p, c), X \cap S = {}, X \cap p = {}
    PROVE  /\ Tried(Forgot(D, t, S), X, L) \in [D -> 0 .. MaxAttempts]
           /\ Gauge(Tried(Forgot(D, t, S), X, L),
                    (p \ S) \cup (X \cap Parked(Tried(Forgot(D, t, S), X, L))),
                    Recount(D, c, S, X, L))
<1> DEFINE t1 == Forgot(D, t, S)
           t2 == Tried(t1, X, L)
           c2 == Recount(D, c, S, X, L)
<1>1. DOMAIN t = D /\ DOMAIN t1 = D /\ DOMAIN t2 = D
  BY DEF Tried, Forgot
<1>2. MaxAttempts \in Nat \ {0}
  BY ReconcilerAssumption
<1>3. ASSUME NEW x \in D
      PROVE  /\ t2[x] \in 0 .. MaxAttempts /\ c2[x] = t2[x]
             /\ x \in (p \ S) \cup (X \cap Parked(t2)) <=> t2[x] = MaxAttempts
  <2>1. t2[x] = IF x \in L THEN 0 ELSE IF x \in X THEN t1[x] + 1 ELSE t1[x]
    BY <1>1 DEF Tried
  <2>2. t[x] \in 0 .. MaxAttempts /\ c[x] = t[x] /\ (x \in p <=> t[x] = MaxAttempts)
    BY <1>1 DEF Gauge
  <2>3. x \in Parked(t2) <=> t2[x] >= MaxAttempts
    BY <1>1 DEF Parked
  <2>4. t1[x] = IF x \in S THEN 0 ELSE t[x]
    BY DEF Forgot
  <2>5. c2[x] = IF x \in X \ L THEN c[x] + 1 ELSE IF x \in X \cup S THEN 0 ELSE c[x]
    BY DEF Recount
  <2> HIDE DEF t1, t2, c2
  <2> QED BY <1>2, <2>1, <2>2, <2>3, <2>4, <2>5
<1>4. t2 \in [D -> 0 .. MaxAttempts]
  BY <1>1, <1>3 DEF Tried
<1>5. Gauge(t2, (p \ S) \cup (X \cap Parked(t2)), c2)
  <2> HIDE DEF t1, t2, c2
  <2> QED BY <1>1, <1>3 DEF Gauge
<1> QED BY <1>4, <1>5

\* One frame in the world, from snapshot to sidecar, keeps the invariant, and
\* retires only debts it saw in the bag.
LEMMA FrameOK ==
    ASSUME IInv, NEW holder \in BOOLEAN, NEW ptr \in BOOLEAN, Frame(holder, ptr)
    PROVE  IInv' /\ \A g \in stored \ stored' : g \in world.bag
<1> DEFINE b == Begun(holder)
           r == Observe(b, holder)
           S == SeenGoods(b)
           T == SeenFlags(b, holder)
           F == FlagWrites(r, holder)
           G == Grants(r, ptr)
           W == Walked(r, ptr)
<1>1. /\ b \in Recs /\ b.armed /\ b.debt = stored /\ b.stalled \subseteq b.debt
      /\ Gauge(b.attempts, b.stalled, drops) /\ Gauge(b.fattempts, b.fstalled, waste)
  BY BegunOK
<1>2. PICK wm \in Frontier(r, W) : Applied(r, holder, F, G, W, wm)
  BY DEF Frame, Begun
<1>3. UNCHANGED <<received, saved, game, stab, events>>
  BY DEF Frame
<1> HIDE DEF b
<1>4. S \subseteq Goods /\ T \subseteq Flags /\ S \subseteq world.bag /\ T \subseteq world.on
  <2>1. b.goods \subseteq Goods /\ DesiredFlags(b.seen) \subseteq Flags
    BY <1>1, DesiredType DEF Recs
  <2> QED BY <2>1 DEF SeenGoods, SeenFlags
<1>5. /\ r = [b EXCEPT !.attempts = [g \in Goods |-> IF g \in S THEN 0 ELSE b.attempts[g]],
                       !.stalled = b.stalled \ S,
                       !.durable = b.durable \ S,
                       !.fattempts = [f \in Flags |-> IF f \in T THEN 0 ELSE b.fattempts[f]],
                       !.fstalled = b.fstalled \ T]
  BY <1>1 DEF Observe, Recs
<1>6. /\ r \in Recs /\ r.armed /\ r.debt = stored /\ r.seen = b.seen /\ r.goods = b.goods
      /\ r.attempts = [g \in Goods |-> IF g \in S THEN 0 ELSE b.attempts[g]]
      /\ r.fattempts = [f \in Flags |-> IF f \in T THEN 0 ELSE b.fattempts[f]]
      /\ r.stalled = b.stalled \ S /\ r.fstalled = b.fstalled \ T
  <2>1. /\ [g \in Goods |-> IF g \in S THEN 0 ELSE b.attempts[g]] \in [Goods -> 0 .. MaxAttempts]
        /\ [f \in Flags |-> IF f \in T THEN 0 ELSE b.fattempts[f]] \in [Flags -> 0 .. MaxAttempts]
    BY <1>1, ReconcilerAssumption DEF Recs
  <2> HIDE DEF r, S, T
  <2> QED BY <1>1, <1>5, <2>1 DEF Recs
<1> HIDE DEF r
<1>7. SeenGoods(r) = S /\ SeenFlags(r, holder) = T
  BY <1>6 DEF SeenGoods, SeenFlags
<1> HIDE DEF S, T
<1>8. /\ F \subseteq Flags /\ F \cap world.on = {} /\ F \cap r.fstalled = {}
      /\ G \subseteq Goods /\ G \cap world.bag = {} /\ G \cap r.stalled = {}
  <2>1. r.goods \subseteq Goods /\ DesiredFlags(r.seen) \subseteq Flags
    BY <1>6, DesiredType DEF Recs
  <2> QED BY <2>1 DEF FlagWrites, Grants, FirstOf
<1> HIDE DEF F, G, W
<1>9. /\ F \cap T = {} /\ F \cap b.fstalled = {} /\ G \cap S = {} /\ G \cap b.stalled = {}
  BY <1>4, <1>6, <1>8
<1> DEFINE ft == Tried(r.fattempts, F, F \ game.discards)
           gt == Tried(r.attempts, G, Landed(G))
           w  == Wrote(r, F)
           q  == Granted(w, G)
<1>10. /\ Landed(G) \subseteq G
       /\ G \cap (game.refuses \cup game.late) = G \ Landed(G)
       /\ F \cap game.discards = F \ (F \ game.discards)
  BY DEF Landed
<1>11. /\ b.attempts \in [Goods -> 0 .. MaxAttempts] /\ b.stalled \subseteq Goods
       /\ b.fattempts \in [Flags -> 0 .. MaxAttempts] /\ b.fstalled \subseteq Flags
  BY <1>1 DEF Recs
<1>12. /\ gt \in [Goods -> 0 .. MaxAttempts]
       /\ Gauge(gt, r.stalled \cup (G \cap Parked(gt)), drops')
  <2> DEFINE t1 == Forgot(Goods, b.attempts, S)
             c2 == Recount(Goods, drops, S, G, Landed(G))
  <2>1. /\ Tried(t1, G, Landed(G)) \in [Goods -> 0 .. MaxAttempts]
        /\ Gauge(Tried(t1, G, Landed(G)),
                 (b.stalled \ S) \cup (G \cap Parked(Tried(t1, G, Landed(G)))), c2)
    BY <1>1, <1>4, <1>8, <1>9, <1>10, <1>11, GaugeKept
  <2>2. gt = Tried(t1, G, Landed(G))
    BY <1>6 DEF Forgot
  <2>3. drops' = c2
    BY <1>2, <1>7, <1>10 DEF Applied, Recount
  <2> HIDE DEF t1, c2, gt
  <2> QED BY <1>6, <2>1, <2>2, <2>3
<1>13. /\ ft \in [Flags -> 0 .. MaxAttempts]
       /\ Gauge(ft, r.fstalled \cup (F \cap Parked(ft)), waste')
  <2> DEFINE t1 == Forgot(Flags, b.fattempts, T)
             c2 == Recount(Flags, waste, T, F, (F \ game.discards))
  <2>1. /\ Tried(t1, F, (F \ game.discards)) \in [Flags -> 0 .. MaxAttempts]
        /\ Gauge(Tried(t1, F, (F \ game.discards)),
                 (b.fstalled \ T) \cup (F \cap Parked(Tried(t1, F, (F \ game.discards)))), c2)
    BY <1>1, <1>4, <1>8, <1>9, <1>10, <1>11, GaugeKept
  <2>2. ft = Tried(t1, F, (F \ game.discards))
    BY <1>6 DEF Forgot
  <2>3. waste' = c2
    BY <1>2, <1>7, <1>10 DEF Applied, Recount
  <2> HIDE DEF t1, c2, ft
  <2> QED BY <1>6, <2>1, <2>2, <2>3
<1>14. w = [r EXCEPT !.fattempts = ft, !.fstalled = r.fstalled \cup (F \cap Parked(ft))]
  BY <1>6 DEF Wrote, ft, Recs
<1>15. /\ w \in Recs /\ w.armed /\ w.debt = stored /\ w.goods = r.goods
       /\ w.attempts = r.attempts /\ w.stalled = r.stalled
       /\ w.fattempts = ft /\ w.fstalled = r.fstalled \cup (F \cap Parked(ft))
  <2>1. r.fstalled \cup (F \cap Parked(ft)) \subseteq Flags
    BY <1>6, <1>8, <1>11
  <2> HIDE DEF w
  <2> QED BY <1>6, <1>13, <1>14, <2>1 DEF Recs
<1> HIDE DEF w
<1>16. q = [w EXCEPT !.attempts = gt, !.stalled = r.stalled \cup (G \cap Parked(gt)),
                     !.debt = (stored \cup (G \cap Parked(gt))) \ S]
  <2>1. SeenGoods(w) = S
    BY <1>7, <1>15 DEF SeenGoods
  <2> QED BY <1>15, <2>1 DEF Granted, gt, Recs
<1>17. /\ q \in Recs /\ q.armed /\ q.debt = (stored \cup (G \cap Parked(gt))) \ S
       /\ q.attempts = gt /\ q.stalled = r.stalled \cup (G \cap Parked(gt))
       /\ q.fattempts = ft /\ q.fstalled = r.fstalled \cup (F \cap Parked(ft))
  <2>1. /\ r.stalled \cup (G \cap Parked(gt)) \subseteq Goods
        /\ (stored \cup (G \cap Parked(gt))) \ S \subseteq Goods
    BY <1>6, <1>8, <1>11 DEF IInv, TypeOK
  <2> HIDE DEF q
  <2> QED BY <1>12, <1>15, <1>16, <2>1 DEF Recs
<1> HIDE DEF q
<1>18. wm \in 1 .. Len(Stream) + 1
  BY DEF Frontier
<1>19. rec' = [q EXCEPT !.wm = wm]
  BY <1>2 DEF Applied, q, w
<1>20. /\ rec' \in Recs /\ rec'.armed /\ rec'.debt = q.debt /\ stored' = q.debt
       /\ rec'.attempts = gt /\ rec'.stalled = q.stalled
       /\ rec'.fattempts = ft /\ rec'.fstalled = q.fstalled
  <2>1. stored' = rec'.debt
    BY <1>2, <1>19 DEF Applied, q, w
  <2> QED BY <1>17, <1>18, <1>19, <2>1 DEF Recs
<1>21. rec' # None
  BY <1>20, ReconcilerAssumption
<1>22. rec'.stalled \subseteq rec'.debt
  BY <1>1, <1>6, <1>9, <1>17, <1>20
<1>23. Guard'
  BY <1>12, <1>13, <1>17, <1>20, <1>21, <1>22 DEF Guard
<1>24. TypeOK'
  <2>1. world' \in Worlds
    <3>1. Companions(r.seen, G) \subseteq Flags
      <4>1. \A i \in 1 .. r.seen : Effect(i) \in Wares
        BY <1>6, EffectType, ReconcilerAssumption DEF Recs
      <4> QED BY <4>1 DEF Companions, Wares
    <3>2. /\ world.bag \subseteq Goods /\ world.on \subseteq Flags
          /\ world.mark \in 1 .. Len(Stream) + 1
      BY DEF IInv, TypeOK, Worlds
    <3> QED BY <1>2, <1>8, <1>18, <3>1, <3>2 DEF Applied, Worlds
  <2>2. stored' \subseteq Goods
    BY <1>20 DEF Recs
  <2>3. drops' \in [Goods -> Nat] /\ waste' \in [Flags -> Nat]
    BY <1>2 DEF Applied, IInv, TypeOK
  <2>4. paced' \in BOOLEAN
    BY <1>2 DEF Applied
  <2> QED BY <1>3, <1>20, <2>1, <2>2, <2>3, <2>4 DEF IInv, TypeOK
<1>25. \A g \in stored \ stored' : g \in world.bag
  BY <1>4, <1>17, <1>20
<1> QED BY <1>23, <1>24, <1>25 DEF IInv

-----------------------------------------------------------------------------
(***************************************************************************)
(* The theorems.                                                            *)
(***************************************************************************)
LEMMA InitOK == Init => IInv
<1> SUFFICES ASSUME Init PROVE IInv
  OBVIOUS
<1>1. TypeOK
  <2>1. received \in 0 .. Len(Stream) /\ events \in 0 .. MaxEvents
    BY ReconcilerAssumption DEF Init
  <2>2. world \in Worlds /\ saved \in Worlds
    <3>1. 1 \in 1 .. Len(Stream) + 1
      BY ReconcilerAssumption
    <3> QED BY <3>1 DEF Init, Worlds
  <2>3. drops \in [Goods -> Nat] /\ waste \in [Flags -> Nat]
    BY DEF Init, Zero
  <2> QED BY <2>1, <2>2, <2>3 DEF Init, TypeOK
<1>2. Guard
  BY DEF Init, Guard, Fresh
<1> QED BY <1>1, <1>2 DEF IInv

\* An edge is met with nothing refused since, whatever the guard counted.
LEMMA EdgeOK ==
    ASSUME IInv, Edge, stored' = stored
    PROVE  Guard' /\ rec' \in Recs \cup {None} /\ drops' \in [Goods -> Nat] /\ waste' \in [Flags -> Nat]
<1>1. Fresh' /\ drops' \in [Goods -> Nat] /\ waste' \in [Flags -> Nat]
  BY DEF Edge, Fresh, Zero
<1>2. CASE rec = None
  <2>1. rec' = None
    BY <1>2 DEF Edge
  <2> QED BY <1>1, <2>1 DEF Guard
<1>3. CASE rec # None
  <2>1. rec \in Recs /\ rec' = [rec EXCEPT !.armed = FALSE]
    BY <1>3 DEF Edge, IInv, TypeOK
  <2>2. rec' \in Recs /\ rec'.armed = FALSE /\ rec'.debt = rec.debt /\ rec'.stalled = rec.stalled
    BY <2>1 DEF Recs
  <2> QED BY <1>1, <1>3, <2>2 DEF Guard, IInv
<1> QED BY <1>2, <1>3

LEMMA IdleFrameOK == ASSUME IInv, IdleFrame PROVE IInv' /\ stored' = stored
<1>1. rec # None
  BY DEF IdleFrame
<1>2. rec' = Begun(TRUE) /\ stored' = Begun(TRUE).debt
  BY <1>1 DEF IdleFrame, Begun
<1>3. /\ Begun(TRUE) \in Recs /\ Begun(TRUE).armed /\ Begun(TRUE).debt = stored /\ Begun(TRUE).stalled \subseteq Begun(TRUE).debt
      /\ Gauge(Begun(TRUE).attempts, Begun(TRUE).stalled, drops) /\ Gauge(Begun(TRUE).fattempts, Begun(TRUE).fstalled, waste)
  BY BegunOK
<1>4. UNCHANGED <<received, world, saved, game, stab, paced, drops, waste, events>>
  BY DEF IdleFrame, ghosts
<1>5. rec' \in Recs /\ rec' # None
  BY <1>2, <1>3, ReconcilerAssumption
<1>6. Guard'
  BY <1>2, <1>3, <1>4, <1>5 DEF Guard
<1>7. TypeOK'
  BY <1>2, <1>3, <1>4, <1>5 DEF IInv, TypeOK
<1> QED BY <1>2, <1>3, <1>6, <1>7 DEF IInv

\* The steps that leave the reconciler, its debt and the count alone.
LEMMA GuardKept ==
    ASSUME IInv, UNCHANGED <<rec, stored, drops, waste>>
    PROVE  Guard'
BY DEF IInv, Guard, Fresh, Gauge

LEMMA NextOK ==
    ASSUME IInv, [Next]_vars
    PROVE  IInv' /\ \A g \in stored \ stored' : g \in world.bag
<1> USE DEF IInv
<1>1. CASE IdleFrame
  BY <1>1, IdleFrameOK
<1>2. ASSUME NEW holder \in BOOLEAN, NEW ptr \in BOOLEAN, Frame(holder, ptr)
      PROVE  IInv' /\ \A g \in stored \ stored' : g \in world.bag
  BY <1>2, FrameOK
<1>3. CASE Clock
  BY <1>3, GuardKept DEF Clock, ghosts, TypeOK
<1>4. CASE Receive
  BY <1>4, GuardKept, ReconcilerAssumption DEF Receive, ghosts, TypeOK
<1>5. CASE Disconnect
  BY <1>5, GuardKept, ReconcilerAssumption DEF Disconnect, Happens, ghosts, TypeOK
<1>6. CASE Leave
  <2>1. Edge /\ UNCHANGED <<received, stored, world, saved, game, paced>> /\ stab' = "none" /\ Happens
    BY <1>6 DEF Leave
  <2> QED BY <2>1, EdgeOK, ReconcilerAssumption DEF Happens, TypeOK
<1>7. CASE Arrive
  <2>1. Edge /\ UNCHANGED <<received, stored, world, saved, game, paced, events>> /\ stab' = "flags"
    BY <1>7 DEF Arrive
  <2> QED BY <2>1, EdgeOK DEF TypeOK
<1>8. CASE Settle
  BY <1>8, GuardKept DEF Settle, ghosts, TypeOK
<1>9. CASE Unsettle
  BY <1>9, GuardKept, ReconcilerAssumption DEF Unsettle, Happens, ghosts, TypeOK
<1>10. CASE Fickle
  BY <1>10, GuardKept, ReconcilerAssumption DEF Fickle, Happens, ghosts, TypeOK
<1>11. ASSUME NEW g \in Goods, Lose(g)
       PROVE  IInv' /\ stored' = stored
  <2>1. world \in Worlds /\ world' = [world EXCEPT !.bag = @ \ {g}]
    BY <1>11 DEF Lose, TypeOK
  <2>2. world' \in Worlds
    BY <2>1 DEF Worlds
  <2> QED BY <1>11, <2>2, GuardKept, ReconcilerAssumption DEF Lose, Happens, ghosts, TypeOK
<1>12. ASSUME NEW f \in Contested, Vanilla(f)
       PROVE  IInv' /\ stored' = stored
  <2>1. world \in Worlds /\ world' = [world EXCEPT !.on = @ \ {f}]
    BY <1>12 DEF Vanilla, TypeOK
  <2>2. world' \in Worlds
    BY <2>1 DEF Worlds
  <2> QED BY <1>12, <2>2, GuardKept DEF Vanilla, ghosts, TypeOK
<1>13. CASE Save
  BY <1>13, GuardKept, ReconcilerAssumption DEF Save, Happens, ghosts, TypeOK
<1>14. CASE Crash
  <2>1. Guard'
    BY <1>14 DEF Crash, Guard, Fresh
  <2>2. drops' \in [Goods -> Nat] /\ waste' \in [Flags -> Nat]
    BY <1>14 DEF Crash, Zero
  <2>3. received' \in 0 .. Len(Stream) /\ events' \in 0 .. MaxEvents
    BY <1>14, ReconcilerAssumption DEF Crash, Happens, TypeOK
  <2>4. /\ rec' = None /\ world' = saved /\ stab' = "none" /\ paced' = FALSE
        /\ UNCHANGED <<stored, saved, game>>
    BY <1>14 DEF Crash
  <2> QED BY <2>1, <2>2, <2>3, <2>4 DEF TypeOK
<1>15. CASE Warp
  <2>1. Edge /\ UNCHANGED <<received, stored, world, saved, game, stab, paced>> /\ Happens
    BY <1>15 DEF Warp
  <2> QED BY <2>1, EdgeOK, ReconcilerAssumption DEF Happens, TypeOK
<1>16. CASE UNCHANGED vars
  <2>1. UNCHANGED <<received, rec, stored, world, saved, game, stab, paced, drops, waste, events>>
    BY <1>16 DEF vars
  <2> QED BY <2>1, GuardKept DEF TypeOK
<1> QED
  BY <1>1, <1>2, <1>3, <1>4, <1>5, <1>6, <1>7, <1>8, <1>9, <1>10, <1>11, <1>12, <1>13, <1>14, <1>15, <1>16
  DEF Next

\* The reconciler keeps its type whatever the room and the game do.
THEOREM ReconcilerTyped == Spec => []TypeOK
<1>1. IInv => TypeOK
  BY DEF IInv
<1> QED BY <1>1, InitOK, NextOK, PTL DEF Spec

\* Between two world edges the game refuses a good, or discards a flag write,
\* at most MaxAttempts times in a row (clients#439).
THEOREM BurstsBounded == Spec => []OneBurstPerEdge
<1>1. IInv => OneBurstPerEdge
  <2> SUFFICES ASSUME IInv PROVE OneBurstPerEdge
    OBVIOUS
  <2>1. MaxAttempts \in Nat
    BY ReconcilerAssumption
  <2>2. CASE rec = None \/ ~rec.armed
    BY <2>1, <2>2 DEF IInv, Guard, Fresh, Zero, OneBurstPerEdge
  <2>3. CASE rec # None /\ rec.armed
    <3>1. rec \in Recs /\ Gauge(rec.attempts, rec.stalled, drops) /\ Gauge(rec.fattempts, rec.fstalled, waste)
      BY <2>3 DEF IInv, TypeOK, Guard
    <3>2. /\ rec.attempts \in [Goods -> 0 .. MaxAttempts]
          /\ rec.fattempts \in [Flags -> 0 .. MaxAttempts]
      BY <3>1 DEF Recs
    <3> QED BY <2>1, <3>1, <3>2 DEF Gauge, OneBurstPerEdge
  <2> QED BY <2>2, <2>3
<1> QED BY <1>1, InitOK, NextOK, PTL DEF Spec

\* A flag is parked only when the game discarded MaxAttempts writes of it in
\* this world: the same-tick read-back keeps contested flags out of the park.
THEOREM ParkedAreDiscarded == Spec => []OnlyDiscardedFlagsPark
<1>1. IInv => OnlyDiscardedFlagsPark
  <2> SUFFICES ASSUME IInv, rec # None, rec.armed, NEW f \in rec.fstalled
               PROVE  waste[f] = MaxAttempts
    BY DEF OnlyDiscardedFlagsPark
  <2>1. rec \in Recs /\ Gauge(rec.fattempts, rec.fstalled, waste)
    BY DEF IInv, TypeOK, Guard
  <2>2. f \in DOMAIN rec.fattempts
    BY <2>1 DEF Recs
  <2> QED BY <2>1, <2>2 DEF Gauge
<1> QED BY <1>1, InitOK, NextOK, PTL DEF Spec

\* What the game refused MaxAttempts times in this world is in reconcile.json.
THEOREM RefusedOwed == Spec => []RefusedIsOwed
<1>1. IInv => RefusedIsOwed
  <2> SUFFICES ASSUME IInv, NEW g \in Goods, drops[g] = MaxAttempts
               PROVE  g \in stored
    BY DEF RefusedIsOwed
  <2>1. rec # None /\ rec.armed
    BY ReconcilerAssumption DEF IInv, Guard, Fresh, Zero
  <2>2. /\ rec \in Recs /\ Gauge(rec.attempts, rec.stalled, drops)
        /\ stored = rec.debt /\ rec.stalled \subseteq rec.debt
    BY <2>1 DEF IInv, TypeOK, Guard
  <2>3. g \in DOMAIN rec.attempts
    BY <2>2 DEF Recs
  <2> QED BY <2>2, <2>3 DEF Gauge
<1> QED BY <1>1, InitOK, NextOK, PTL DEF Spec

\* A debt leaves reconcile.json only in a step that saw the good in the bag.
THEOREM DebtsWitnessed == Spec => DebtNeedsWitness
<1>1. IInv /\ [Next]_vars => IInv' /\ [\A g \in stored \ stored' : g \in world.bag]_vars
  BY NextOK
<1> QED BY <1>1, InitOK, PTL DEF Spec, DebtNeedsWitness
=============================================================================
