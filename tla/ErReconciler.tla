----------------------------- MODULE ErReconciler -----------------------------
(***************************************************************************)
(* The polling reconciler of the Elden Ring client (er-logic reconcile.rs)  *)
(* with its driver (reconcile_io.rs), serving one character of one room.    *)
(*                                                                          *)
(* Every frame the desired state is rebuilt from the received stream, the   *)
(* game is read, and the difference is written back: event flags, unique    *)
(* goods (the protectors of an armour set follow the same path) and the     *)
(* ledger of consumables.  The game accepts a write whether or not it keeps *)
(* it, so every write is read back, and what the game refuses three times   *)
(* is parked until the world is rebuilt and kept as a debt in               *)
(* reconcile.json.                                                          *)
(*                                                                          *)
(* ErSession models which character is served and from which watermark;     *)
(* here the identity is settled and the game is the adversary: it refuses   *)
(* goods, shows them a frame late, discards flag writes, contests flags,    *)
(* loses goods, unloads the world and crashes.  The live client leaves      *)
(* SlotData::seal_flags empty, so every desired flag is desired set.        *)
(***************************************************************************)
EXTENDS Integers, Sequences, FiniteSets

CONSTANTS
    Goods,        \* the unique goods, numbered in the order of the BTreeMap
    Flags,        \* the event flags, numbered likewise
    Stream,       \* the received items, Prog for a copy of the progressive item
    Prog,
    Tiers,        \* what the copies of the progressive item stand for
    SlotFlags,    \* start graces, map reveals and prerequisites of the slot data
    MaxAttempts,  \* MAX_GRANT_ATTEMPTS and MAX_FLAG_ATTEMPTS
    GoodsBudget,  \* TickBudget.goods
    FlagBudget,   \* TickBudget.flags
    Contested,    \* the flags vanilla event scripts keep clearing
    Games,        \* the ways the game answers writes
    MaxEvents,    \* bound on what the game, the player and the socket do
    None

Wares  == [goods : SUBSET Goods, flags : SUBSET Flags, ledger : {"none", "grant", "skip"}]

\* Reconciler and Driver: the length of the stream the desired state was built
\* from, the desired goods, durable_unique_goods, unique_goods_debt, the
\* watermark, the stall guard of goods and of flags, and whether it was armed
\* in the current world epoch.
Recs == [seen : 0 .. Len(Stream), goods : SUBSET Goods, durable : SUBSET Goods,
         debt : SUBSET Goods, wm : 1 .. Len(Stream) + 1,
         attempts : [Goods -> 0 .. MaxAttempts], stalled : SUBSET Goods,
         fattempts : [Flags -> 0 .. MaxAttempts], fstalled : SUBSET Flags, armed : BOOLEAN]

ASSUME ReconcilerAssumption ==
    /\ Goods \subseteq Nat /\ Flags \subseteq Nat
    /\ IsFiniteSet(Goods) /\ IsFiniteSet(Flags)
    /\ Stream \in Seq(Wares \cup {Prog}) /\ Tiers \in Seq(Wares)
    /\ SlotFlags \subseteq Flags /\ Contested \subseteq Flags
    /\ MaxAttempts \in Nat \ {0}
    /\ GoodsBudget \in Nat \ {0} /\ FlagBudget \in Nat
    /\ Cardinality(Contested) < FlagBudget
    /\ MaxEvents \in Nat /\ None \notin Recs
    /\ Games \subseteq [refuses : SUBSET Goods, late : SUBSET Goods,
                         discards : SUBSET (Flags \ Contested)]

VARIABLES
    received,  \* the length of the received stream the client sees
    rec,       \* Reconciler and Driver, None before init
    stored,    \* unique_goods_debt in reconcile.json
    world,     \* the character: goods in reach, flags set, the marker's watermark
    saved,     \* the same, as last saved by the game
    game,      \* how the game answers writes at the moment
    stab,      \* WorldStability: "none", "flags" (flags_ready) or "all" (stable)
    paced,     \* less than min_grant_interval_ms since the last landed grant
    drops,     \* grants of a good that did not show since the last world edge
               \* or sighting
    waste,     \* discarded writes of a flag since then
    events     \* how many of those have happened

vars == <<received, rec, stored, world, saved, game, stab, paced, drops, waste, events>>
ghosts == <<drops, waste>>

-----------------------------------------------------------------------------
(***************************************************************************)
(* DesiredState::build.                                                     *)
(***************************************************************************)
Overflow == [goods |-> {}, flags |-> {}, ledger |-> "grant"]

\* The n-th copy of the progressive item is its n-th tier.
Rung(i) == Cardinality({j \in 1 .. i : Stream[j] = Prog})

Effect(i) == IF Stream[i] # Prog THEN Stream[i]
             ELSE IF Rung(i) <= Len(Tiers) THEN Tiers[Rung(i)]
             ELSE Overflow

DesiredGoods(n) == UNION {Effect(i).goods : i \in 1 .. n}
DesiredFlags(n) == SlotFlags \cup UNION {Effect(i).flags : i \in 1 .. n}
Ledgered(n)     == {i \in 1 .. n : Effect(i).ledger # "none"}

\* The companion flags grant_good sets: none for a progressive tier.
Companions(n, G) ==
    UNION {Effect(i).flags : i \in {j \in 1 .. n : Stream[j] # Prog /\ Effect(j).goods \cap G # {}}}

-----------------------------------------------------------------------------
(***************************************************************************)
(* The parts of a frame, each from the reconciler the one before left.      *)
(***************************************************************************)
Zero(S) == [x \in S |-> 0]

Worlds == [bag : SUBSET Goods, on : SUBSET Flags, mark : 1 .. Len(Stream) + 1]

\* Mutant: init does not restore the debt of the sidecar.
NewRecForgets(holder) ==
                 [seen |-> received, goods |-> DesiredGoods(received),
                  durable |-> {}, debt |-> {},
                  wm |-> IF holder THEN world.mark ELSE 1,
                  attempts |-> Zero(Goods), stalled |-> {},
                  fattempts |-> Zero(Flags), fstalled |-> {}, armed |-> FALSE]

\* reconcile_io::init for a resuming character, then restore_unique_debt.  A
\* flag holder that is not ready shows no marker, and what is left of the
\* sidecar's frontier after the cross-check of Reconciler::seeded is the floor.
NewRec(holder) ==
          [seen |-> received, goods |-> DesiredGoods(received) \cup stored,
           durable |-> stored, debt |-> stored,
           wm |-> IF holder THEN world.mark ELSE 1,
           attempts |-> Zero(Goods), stalled |-> {},
           fattempts |-> Zero(Flags), fstalled |-> {}, armed |-> FALSE]

\* Reconciler::set_inputs with the seed unchanged.
SetInputs(r) ==
    IF r.seen = received THEN r
    ELSE [r EXCEPT !.seen = received, !.goods = DesiredGoods(received) \cup r.durable]

\* Mutant: any tick that is not stable re-arms the stall guard (clients#439).
RearmOnUnstableTick(r) ==
    IF r.armed /\ stab = "all" THEN r
    ELSE [r EXCEPT !.armed = TRUE, !.attempts = Zero(Goods), !.stalled = {},
                   !.fattempts = Zero(Flags), !.fstalled = {}]

\* Mutant: a world edge leaves parked goods parked.
RearmFlagsOnly(r) ==
    IF r.armed THEN r
    ELSE [r EXCEPT !.armed = TRUE, !.fattempts = Zero(Flags), !.fstalled = {}]

\* rearm_on_world_edge: armed_epoch differs from the world epoch.
RearmOnWorldEdge(r) ==
    IF r.armed THEN r
    ELSE [r EXCEPT !.armed = TRUE, !.attempts = Zero(Goods), !.stalled = {},
                   !.fattempts = Zero(Flags), !.fstalled = {}]

\* The snapshot: goods are read only in a settled world, every flag reads clear
\* while the holder is not ready, and what is seen at its desired value is
\* forgotten by the stall guard and by the debt.
SeenGoods(r) == IF stab = "all" THEN r.goods \cap world.bag ELSE {}
SeenFlags(r, holder) == IF holder THEN DesiredFlags(r.seen) \cap world.on ELSE {}

Observe(r, holder) ==
    [r EXCEPT !.attempts = [g \in Goods |-> IF g \in SeenGoods(r) THEN 0 ELSE @[g]],
              !.stalled = @ \ SeenGoods(r),
              !.durable = @ \ SeenGoods(r),
              !.fattempts = [f \in Flags |-> IF f \in SeenFlags(r, holder) THEN 0 ELSE @[f]],
              !.fstalled = @ \ SeenFlags(r, holder)]

FirstOf(S, k) == {x \in S : Cardinality({y \in S : y < x}) < k}

\* diff without the parked entries, up to the budget of the tick.  A holder or
\* an inventory pointer that is not ready defers all of its writes.
FlagWrites(r, holder) ==
    IF holder THEN FirstOf((DesiredFlags(r.seen) \ world.on) \ r.fstalled, FlagBudget) ELSE {}
Grants(r, ptr) ==
    IF ptr /\ stab = "all" /\ ~paced
    THEN FirstOf((r.goods \ world.bag) \ r.stalled, GoodsBudget) ELSE {}

\* Pass 2: the ledger from the watermark, in index order, until a grant does
\* not fit.  Skipped entries cost nothing.
Fits(r, ptr) ==
    IF ptr /\ stab = "all" /\ ~paced THEN GoodsBudget - Cardinality(Grants(r, ptr)) ELSE 0
Walked(r, ptr) ==
    IF stab # "all" THEN {}
    ELSE {i \in Ledgered(r.seen) : i >= r.wm
            /\ Cardinality({j \in Ledgered(r.seen) : /\ r.wm <= j /\ j <= i
                                                     /\ Effect(j).ledger = "grant"}) <= Fits(r, ptr)}

\* What the same-tick read-back sees of the goods just granted.
Landed(G) == G \ (game.refuses \cup game.late)

Parked(tries) == {x \in DOMAIN tries : tries[x] >= MaxAttempts}

\* Pass 1 for a set of writes, of which `landed` read back.
Tried(tries, written, landed) ==
    [x \in DOMAIN tries |-> IF x \in landed THEN 0
                            ELSE IF x \in written THEN tries[x] + 1 ELSE tries[x]]

\* Mutant: a flag write counts as an attempt until a later snapshot sees it.
WroteWithoutReadBack(r, F) ==
    LET tries == Tried(r.fattempts, F, {}) IN
    [r EXCEPT !.fattempts = tries, !.fstalled = @ \cup (F \cap Parked(tries))]

Wrote(r, F) ==
    LET tries == Tried(r.fattempts, F, F \ game.discards) IN
    [r EXCEPT !.fattempts = tries, !.fstalled = @ \cup (F \cap Parked(tries))]

\* Mutant: what a grant parked is not added to the debt.
GrantedWithoutDebt(r, G) ==
    LET tries == Tried(r.attempts, G, Landed(G))
        new   == G \cap Parked(tries)
    IN [r EXCEPT !.attempts = tries, !.stalled = @ \cup new,
                 !.debt = @ \ SeenGoods(r)]

\* The grants, and the debt the driver keeps of what they parked.
Granted(r, G) ==
    LET tries == Tried(r.attempts, G, Landed(G))
        new   == G \cap Parked(tries)
    IN [r EXCEPT !.attempts = tries, !.stalled = @ \cup new,
                 !.debt = (@ \cup new) \ SeenGoods(r)]

\* The watermark after the entries of W: one past the last of them.
Frontier(r, W) ==
    {m \in 1 .. Len(Stream) + 1 : IF W = {} THEN m = r.wm
                                  ELSE m - 1 \in W /\ \A i \in W : i < m}

-----------------------------------------------------------------------------
(***************************************************************************)
(* The client.                                                              *)
(***************************************************************************)

\* A frame outside the world: the inputs are swapped and the edge is noted.
\* Before init there is nothing to do.
IdleFrame ==
    /\ stab = "none" /\ rec # None
    /\ LET r == RearmOnWorldEdge(SetInputs(rec)) IN
       /\ rec' = r
       /\ stored' = r.debt
    /\ UNCHANGED <<received, world, saved, game, stab, paced, ghosts, events>>

\* What a tick that writes the flags F, grants the goods G and walks the ledger
\* entries W leaves: the reconciler and its debt, the sidecar, the game, the
\* marker's watermark and the pacing.  A holder that is not ready takes neither
\* the companion flags of a grant nor the marker.
Applied(r, holder, F, G, W, wm) ==
    LET n == [Granted(Wrote(r, F), G) EXCEPT !.wm = wm] IN
    /\ rec' = n
    /\ stored' = n.debt
    /\ world' = [bag |-> world.bag \cup (G \ game.refuses),
                 on |-> IF holder
                        THEN world.on \cup ((F \cup Companions(r.seen, G)) \ game.discards)
                        ELSE world.on,
                 mark |-> IF holder THEN wm ELSE world.mark]
    /\ paced' = (paced \/ G # {} \/ \E i \in W : Effect(i).ledger = "grant")
    /\ drops' = [g \in Goods |->
                   IF g \in G \cap (game.refuses \cup game.late) THEN drops[g] + 1
                   ELSE IF g \in G \cup SeenGoods(r) THEN 0 ELSE drops[g]]
    /\ waste' = [f \in Flags |->
                   IF f \in F \cap game.discards THEN waste[f] + 1
                   ELSE IF f \in F \cup SeenFlags(r, holder) THEN 0 ELSE waste[f]]

\* A frame in the world: init or set_inputs, then tick_with_classes, the debt,
\* the marker commit and the sidecar.
Frame(holder, ptr) ==
    /\ stab # "none"
    /\ \E r \in {Observe(RearmOnWorldEdge(IF rec = None THEN NewRec(holder) ELSE SetInputs(rec)),
                       holder)} :
       \E F \in {FlagWrites(r, holder)}, G \in {Grants(r, ptr)}, W \in {Walked(r, ptr)} :
       \E wm \in Frontier(r, W) : Applied(r, holder, F, G, W, wm)
    /\ UNCHANGED <<received, saved, game, stab, events>>

\* min_grant_interval_ms elapses.
Clock ==
    /\ paced
    /\ paced' = FALSE
    /\ UNCHANGED <<received, rec, stored, world, saved, game, stab, ghosts, events>>

-----------------------------------------------------------------------------
(***************************************************************************)
(* The room and the game.                                                   *)
(***************************************************************************)
Happens == events < MaxEvents /\ events' = events + 1

\* The next item arrives.
Receive ==
    /\ received < Len(Stream)
    /\ received' = received + 1
    /\ UNCHANGED <<rec, stored, world, saved, game, stab, paced, ghosts, events>>

\* The socket drops: core.rs rebuilds the inputs from an empty stream until
\* the room sends it again.
Disconnect ==
    /\ received > 0 /\ Happens
    /\ received' = 0
    /\ UNCHANGED <<rec, stored, world, saved, game, stab, paced, ghosts>>

\* A world edge: the world is left or arrived in, or a warp is requested while
\* the player is still in it.  Each moves the epoch.
Edge ==
    /\ rec' = IF rec = None THEN None ELSE [rec EXCEPT !.armed = FALSE]
    /\ drops' = Zero(Goods) /\ waste' = Zero(Flags)

Leave ==
    /\ stab # "none" /\ Happens
    /\ stab' = "none" /\ Edge
    /\ UNCHANGED <<received, stored, world, saved, game, paced>>

Arrive ==
    /\ stab = "none"
    /\ stab' = "flags" /\ Edge
    /\ UNCHANGED <<received, stored, world, saved, game, paced, events>>

Warp ==
    /\ stab # "none" /\ Happens
    /\ Edge
    /\ UNCHANGED <<received, stored, world, saved, game, stab, paced>>

\* The inventory settles: SETTLE_MS in the world, or a real pickup.
Settle ==
    /\ stab = "flags" /\ stab' = "all"
    /\ UNCHANGED <<received, rec, stored, world, saved, game, paced, ghosts, events>>

\* A death resets the dwell, or a talk script opens: no world edge.
Unsettle ==
    /\ stab = "all" /\ Happens
    /\ stab' = "flags"
    /\ UNCHANGED <<received, rec, stored, world, saved, game, paced, ghosts>>

\* The game changes its mind: a bag fills or empties, a key list is switched.
Fickle ==
    /\ Happens
    /\ game' \in Games
    /\ UNCHANGED <<received, rec, stored, world, saved, stab, paced, ghosts>>

\* A good leaves the bag; a vanilla script clears a contested flag.
Lose(g) ==
    /\ g \in world.bag /\ Happens
    /\ world' = [world EXCEPT !.bag = @ \ {g}]
    /\ UNCHANGED <<received, rec, stored, saved, game, stab, paced, ghosts>>

Vanilla(f) ==
    /\ stab # "none" /\ f \in world.on
    /\ world' = [world EXCEPT !.on = @ \ {f}]
    /\ UNCHANGED <<received, rec, stored, saved, game, stab, paced, ghosts, events>>

Save ==
    /\ stab # "none" /\ saved # world /\ Happens
    /\ saved' = world
    /\ UNCHANGED <<received, rec, stored, world, game, stab, paced, ghosts>>

\* The process dies and starts again from the last save and reconcile.json.
Crash ==
    /\ Happens
    /\ rec' = None /\ received' = 0 /\ world' = saved
    /\ stab' = "none" /\ paced' = FALSE
    /\ drops' = Zero(Goods) /\ waste' = Zero(Flags)
    /\ UNCHANGED <<stored, saved, game>>

Init ==
    /\ received = 0 /\ rec = None /\ stored = {}
    /\ world = [bag |-> {}, on |-> {}, mark |-> 1] /\ saved = world
    /\ game \in Games
    /\ stab = "none" /\ paced = FALSE
    /\ drops = Zero(Goods) /\ waste = Zero(Flags)
    /\ events = 0

Next ==
    \/ IdleFrame
    \/ \E holder, ptr \in BOOLEAN : Frame(holder, ptr)
    \/ Clock
    \/ Receive \/ Disconnect
    \/ Leave \/ Arrive \/ Warp \/ Settle \/ Unsettle
    \/ Fickle
    \/ \E g \in Goods : Lose(g)
    \/ \E f \in Contested : Vanilla(f)
    \/ Save \/ Crash

Spec == Init /\ [][Next]_vars

\* The game keeps running frames, worlds finish loading and settling, the
\* flag holder and the inventory pointer become ready, the room sends its
\* stream.  Nothing else is fair: not the game's answers, nor the vanilla
\* scripts.
FairSpec ==
    /\ Spec
    /\ WF_vars(Arrive) /\ WF_vars(Settle) /\ WF_vars(Receive)
    /\ WF_vars(Clock) /\ WF_vars(stab = "all" /\ Frame(TRUE, TRUE))

-----------------------------------------------------------------------------
\* The type invariant.
TypeOK ==
    /\ received \in 0 .. Len(Stream)
    /\ rec \in Recs \cup {None} /\ stored \subseteq Goods
    /\ world \in Worlds /\ saved \in Worlds /\ game \in Games
    /\ stab \in {"none", "flags", "all"} /\ paced \in BOOLEAN
    /\ drops \in [Goods -> Nat] /\ waste \in [Flags -> Nat]
    /\ events \in 0 .. MaxEvents

\* One bounded burst per world edge (clients#439): between two world edges the
\* game is made to refuse a good, or discard a flag write, at most MaxAttempts
\* times in a row, whatever deaths, talk windows and reconnects come between.
OneBurstPerEdge ==
    /\ \A g \in Goods : drops[g] <= MaxAttempts
    /\ \A f \in Flags : waste[f] <= MaxAttempts

\* "Parking must never lose that fight for a real flag": a flag is parked only
\* while the game is discarding its writes, so a contested flag never is.
OnlyDiscardedFlagsPark ==
    rec # None /\ rec.armed => \A f \in rec.fstalled : waste[f] = MaxAttempts

\* A good the game has refused MaxAttempts times since the last edge is owed in
\* reconcile.json in the frame of the last refusal.
RefusedIsOwed == \A g \in Goods : drops[g] = MaxAttempts => g \in stored

\* A debt is retired by a positive witness only, the good in the bag, never by
\* an accepted call, a crash, a restart or a shorter received stream.
DebtNeedsWitness == [][\A g \in stored \ stored' : g \in world.bag]_vars

\* Convergence: once the room and the game stop changing their minds, every
\* received good is held and no longer owed, unless the game refused it in
\* this very world, every flag is set, unless its writes were discarded in this
\* world or a script keeps clearing it, and the ledger is walked to its end:
\* refused goods do not starve it.  A flag the scripts keep clearing is set
\* again for ever: having converged is not a reason to stop looking.
Converged ==
    /\ rec # None /\ received = Len(Stream)
    /\ \A g \in DesiredGoods(received) :
          \/ g \in world.bag /\ g \notin stored
          \/ drops[g] = MaxAttempts /\ g \in stored
    /\ \A f \in DesiredFlags(received) \ Contested : f \in world.on \/ waste[f] = MaxAttempts
    /\ \A i \in Ledgered(received) : i < world.mark

Converges ==
    /\ <>[]Converged
    /\ \A f \in Contested \cap DesiredFlags(Len(Stream)) : []<>(f \in world.on)
=============================================================================
