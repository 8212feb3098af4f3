------------------------------ MODULE ErSession ------------------------------
(***************************************************************************)
(* One Elden Ring player: the game process with the client loaded in it,    *)
(* the character saves on disk and the Archipelago slots it connects to.    *)
(*                                                                          *)
(* The client's state is rebuilt by every process; the ledger watermark     *)
(* (how far the received stream was granted) survives in two places: in the *)
(* save itself, in a band of event flags (er-logic marker.rs), and in       *)
(* reconcile.json beside the client.  Frame is one pass of Core::update     *)
(* over the parts that decide who is served: the seed-change guard, the     *)
(* reconciler's init, set_inputs and tick, the check reports, the flag poll *)
(* and the menu edge.  The other actions are the player, the game and the   *)
(* room.                                                                    *)
(*                                                                          *)
(* A room is one AP slot of one multiworld: SeedOf and NameOf give its two  *)
(* halves, and marker::identity_hash is taken to be injective.  One         *)
(* location stands for all of them.                                         *)
(***************************************************************************)
EXTENDS Integers, FiniteSets

CONSTANTS
    Rooms,      \* the (seed, AP slot) pairs the player connects to
    Home,       \* the room the player starts with
    SeedOf,     \* the multiworld seed of a room
    NameOf,     \* the AP slot name of a room
    Slots,      \* the save slots of the game
    Base,       \* START_ITEM_INDEX_BASE: the index of the first start item
    NStart,     \* how many start items the slot data lists
    Stream,     \* bound on the received stream of each room
    Echo,       \* received indices whose reward the rewritten shop row sold
    MaxPlay,    \* bound on play time
    Budget,     \* how often each event of Events may happen
    None

Events == {"crash", "rejoin", "reslot", "torn", "recreate", "switch",
           "take", "refusedpickup"}

ASSUME SessionAssumption ==
    /\ Base \in Int /\ NStart \in Nat /\ MaxPlay \in Nat
    /\ Base + NStart <= 0
    /\ Home \in Rooms /\ Stream \in [Rooms -> Nat]
    /\ Echo \subseteq Nat
    /\ Budget \in [Events -> Nat]
    /\ None \notin Rooms \cup Slots
    /\ \E r \in Rooms : \A q \in Rooms : Stream[q] <= Stream[r]
    /\ \A r, q \in Rooms : SeedOf[r] = SeedOf[q] /\ NameOf[r] = NameOf[q] => r = q

VARIABLES
    room,       \* the room the AP client is connected to
    received,   \* the length of each room's received stream
    client,     \* Core and reconcile_io: what the process remembers
    at,         \* the save slot in the world, None in the menu
    live,       \* the character in the game's memory
    saved,      \* the characters on disk
    store,      \* reconcile.json
    baseline,   \* flag_poll_baseline of each room's ap_save file
    reported,   \* the checks each room was told of, by the save they come from
    used        \* how often each of Events has happened

vars == <<room, received, client, at, live, saved, store, baseline, reported, used>>

-----------------------------------------------------------------------------
Start == Base .. Base + NStart - 1
Top   == CHOOSE n \in {Stream[r] : r \in Rooms} : \A r \in Rooms : Stream[r] <= n
Idx   == Start \cup 0 .. Top - 1
Marks == Base .. Top
Floor == IF NStart = 0 THEN 0 ELSE Base
Keys  == {NameOf[r] : r \in Rooms} \X Slots

\* A character: its marker band (identity, absent while None; the double
\* buffered cursor), what the ledger put in its bag, the location's event
\* flag, and GameDataMan.play_time.
Chars == [ident : Rooms \cup {None}, sel : BOOLEAN, cur : [BOOLEAN -> Marks],
          got : [Rooms -> [Idx -> Nat]], flag : BOOLEAN, play : 0 .. MaxPlay]

NewChar == [ident |-> None, sel |-> FALSE, cur |-> [b \in BOOLEAN |-> Base],
            got |-> [r \in Rooms |-> [i \in Idx |-> 0]], flag |-> FALSE, play |-> 0]

Driver    == [ident : Rooms, slot : Slots, wm : Marks]

ASSUME DriverAssumption == None \notin Driver

NewClient == [parsed |-> None, inited |-> FALSE, refused |-> "no",
              driver |-> None, pending |-> {}, was |-> FALSE]

InWorld == at # None
Armed(c) == c.driver # None
Spend(f) == /\ used[f] < Budget[f]
            /\ used' = [used EXCEPT ![f] = @ + 1]

-----------------------------------------------------------------------------
(***************************************************************************)
(* The steps of one frame, each from the client state the one before left.  *)
(***************************************************************************)

\* Mutant: a new seed rebuilds the tables and the armed reconciler is not asked.
DisarmNever(c) == c.refused

\* disarm_if_identity_moved, asked on a new seed only; the AP slot name it
\* compares is the one set_inputs stamped on the driver before this frame.
DisarmIfIdentityMoved(c) ==
    IF Armed(c) /\ <<SeedOf[c.driver.ident], NameOf[c.driver.ident]>>
                      # <<SeedOf[room], NameOf[c.parsed]>>
    THEN "room_changed" ELSE c.refused

\* The guards against another room: the tables are rebuilt for another seed than
\* the parsed one, and for another AP slot of the same seed.  Only the first
\* asks the armed reconciler again, and only the first resets its frontier.
SeedChecked(c) ==
    IF c.parsed = room THEN c
    ELSE IF c.parsed = None THEN [c EXCEPT !.parsed = room]
    ELSE LET moved == SeedOf[c.parsed] # SeedOf[room] IN
         [c EXCEPT !.parsed = room,
                   !.pending = {},
                   !.refused = IF moved THEN DisarmIfIdentityMoved(c) ELSE @,
                   !.driver = IF moved /\ Armed(c) THEN [@ EXCEPT !.wm = Floor] ELSE @]

Key(c, s) == <<NameOf[c.parsed], s>>

\* seed_trust and Reconciler::seeded.  received_through is 0 at every init: the
\* receive cursor is bound later in the same frame.
SeedTrust(entry, play) == entry # None /\ play * 2 >= entry.play

\* Mutant: the persisted frontier is not cross-checked with what was received.
SeededUnfiltered(entry, play) ==
    IF SeedTrust(entry, play) THEN entry.wm ELSE Floor

\* Mutant: a resumed frontier is stepped back one.
SeededOneBack(entry, play) ==
    IF SeedTrust(entry, play) /\ entry.wm <= 0 THEN entry.wm - 1 ELSE Floor

Seeded(entry, play) ==
    IF SeedTrust(entry, play) /\ entry.wm <= 0 THEN entry.wm ELSE Floor

StampPlaytime(entry, play, fresh) ==
    IF fresh \/ entry = None \/ entry.play < play THEN play ELSE entry.play

Active(l) == l.cur[l.sel]

\* Mutant: any marker is resumed from.
DecidedWithoutIdentity(c) ==
    [c EXCEPT !.inited = TRUE,
              !.driver = [ident |-> c.parsed, slot |-> at,
                          wm |-> IF live.ident # None THEN Active(live)
                                 ELSE Seeded(store[Key(c, at)], live.play)]]

\* reconcile_io::init on the first frame in the world: the marker decides.  The
\* flag holder (CSEventFlagMan) is taken to be up by then.  in_world does not
\* ask it, and a holder that is not up reads as a save without a marker, which
\* the code would arm for whatever room the save belongs to.
Decided(c) ==
    LET entry == store[Key(c, at)] IN
    IF live.ident \notin {None, c.parsed}
    THEN [c EXCEPT !.inited = TRUE, !.refused = "wrong_save"]
    ELSE [c EXCEPT !.inited = TRUE,
                   !.driver = [ident |-> c.parsed, slot |-> at,
                               wm |-> IF live.ident = c.parsed THEN Active(live)
                                      ELSE Seeded(entry, live.play)]]

Inited(c) == IF c.inited \/ ~InWorld THEN c ELSE Decided(c)

\* The entry init leaves in reconcile.json before the first tick.
StoreAtInit(before, c) ==
    IF Armed(c) /\ ~Armed(before)
    THEN LET entry == store[Key(c, at)] IN
         [store EXCEPT ![Key(c, at)] =
            [wm |-> c.driver.wm,
             play |-> StampPlaytime(entry, live.play,
                                    live.ident = None /\ ~SeedTrust(entry, live.play))]]
    ELSE store

Ticks(c)   == Armed(c) /\ c.refused = "no"
Serving(c) == InWorld /\ Ticks(c)

\* The entry every tick leaves there, in the menu too.
StoreAfterTick(s, c) ==
    IF ~Ticks(c) THEN s
    ELSE LET k == Key(c, c.driver.slot) IN
         [s EXCEPT ![k] = [wm |-> c.driver.wm,
                           play |-> StampPlaytime(@, live.play, FALSE)]]

\* The ledger the frame's inputs desire, and where a tick may stop in it: at
\* once (the world is not stable), before a grant that is paced, over budget or
\* refused, or at the end.  Echoes advance the frontier without a grant.
Ledger == Start \cup 0 .. received[room] - 1
Owed(c) == {i \in Ledger : i >= c.driver.wm}
Stops(c) == {c.driver.wm} \cup (Owed(c) \ Echo) \cup {Top}

Advanced(c, stop) ==
    LET done == {i \in Owed(c) : i < stop} IN
    IF done = {} THEN c
    ELSE [c EXCEPT !.driver.wm = 1 + CHOOSE i \in done : \A j \in done : j <= i]

Granted(l, c, stop) ==
    [l EXCEPT !.got[room] = [i \in Idx |->
        IF i \in Owed(c) \ Echo /\ i < stop THEN @[i] + 1 ELSE @[i]]]

\* Mutant: the inactive register is written and SEL not flipped.
CommitWithoutFlip(l, c) ==
    IF l.ident = None
    THEN [l EXCEPT !.ident = c.driver.ident, !.sel = FALSE, !.cur[FALSE] = c.driver.wm]
    ELSE [l EXCEPT !.cur[~l.sel] = c.driver.wm]

\* marker::commit after every tick: a fresh band is written whole and PRESENT
\* last; an established one has its inactive register written, then SEL flipped.
Commit(l, c) ==
    CASE l.ident = None ->
            [l EXCEPT !.ident = c.driver.ident, !.sel = FALSE,
                      !.cur[FALSE] = c.driver.wm]
      [] l.ident # None /\ Active(l) = c.driver.wm -> l
      [] OTHER -> [l EXCEPT !.cur[~l.sel] = c.driver.wm, !.sel = ~@]

\* A commit cut short by a flag the holder refused: PRESENT stays clear, or the
\* inactive register holds anything and SEL still names the other one.
TornCommits(l, c) ==
    IF l.ident = None THEN {l}
    ELSE {[l EXCEPT !.cur[~l.sel] = v] : v \in Marks}

Written(l, c, serve, torn) ==
    IF ~serve THEN {l} ELSE IF torn THEN TornCommits(l, c) ELSE {Commit(l, c)}

\* flush_check_reports and the poll: sent is whether the socket took the batch.
Accepts(c) == c.refused = "no"
Flushed(c, rep, sent) ==
    CASE ~Accepts(c) -> [c |-> c, rep |-> rep]
      [] Accepts(c) /\ rep[room] # {} -> [c |-> [c EXCEPT !.pending = {}], rep |-> rep]
      [] Accepts(c) /\ rep[room] = {} /\ sent ->
            [c |-> [c EXCEPT !.pending = {}], rep |-> [rep EXCEPT ![room] = c.pending]]
      [] OTHER -> [c |-> c, rep |-> rep]

\* Mutant: every poll takes the baseline again.
CapturedAlways(c) ==
    [baseline EXCEPT ![c.parsed] = [flag |-> live.flag, of |-> live.ident]]

\* The baseline a room's first poll captures, whatever save is in the world.
Captured(c) ==
    IF baseline[c.parsed] # None THEN baseline
    ELSE [baseline EXCEPT ![c.parsed] = [flag |-> live.flag, of |-> live.ident]]

PollSees(c, bl, rep) == /\ live.flag
                        /\ ~bl[c.parsed].flag
                        /\ rep[room] = {}
                        /\ Accepts(c)
Staged(c, l) == [c EXCEPT !.pending = @ \cup {l.ident}]

\* start_item_backfill: once the start band is behind the frontier, what the
\* bag lacks is granted.
Backfilled(l, c) ==
    IF c.driver.wm < Base + NStart THEN l
    ELSE [l EXCEPT !.got[c.parsed] = [i \in Idx |->
            IF i \in Start /\ \A r \in Rooms : l.got[r][i] = 0 THEN 1 ELSE @[i]]]

-----------------------------------------------------------------------------
\* One frame in the world.  stop is how far the ledger gets (to the end, if
\* whole), torn whether the marker write is cut short, sent whether the socket
\* is up, poll whether this is a polling frame, settled whether the bag may be
\* scanned.
WorldFrame(whole, torn, sent, poll, settled) ==
    LET parsed == SeedChecked(client)
        inited == Inited(parsed)
        serve  == Serving(inited)
        bl     == IF poll THEN Captured(parsed) ELSE baseline
    IN  /\ InWorld
        /\ IF torn THEN serve /\ Spend("torn") ELSE UNCHANGED used
        /\ settled => serve
        /\ baseline' = bl
        /\ \E stop \in IF serve /\ ~whole THEN Stops(inited) ELSE {Top} :
             LET ticked == IF serve THEN Advanced(inited, stop) ELSE inited
                 bag    == IF serve THEN Granted(live, inited, stop) ELSE live
                 first  == Flushed(ticked, reported, sent)
                 second == IF poll /\ PollSees(first.c, bl, first.rep)
                           THEN Flushed(Staged(first.c, live), first.rep, sent)
                           ELSE first
             IN  /\ client' = [second.c EXCEPT !.was = TRUE]
                 /\ reported' = second.rep
                 /\ store' = StoreAfterTick(StoreAtInit(parsed, inited), ticked)
                 /\ \E l \in Written(bag, ticked, serve, torn) :
                      live' = IF settled THEN Backfilled(l, ticked) ELSE l
        /\ UNCHANGED <<room, received, at, saved>>

\* Mutant: the edge out of the world leaves the refusal latched.
MenuFrameHolds(sent) ==
    LET parsed == SeedChecked(client)
        first  == Flushed(parsed, reported, sent)
    IN  /\ ~InWorld
        /\ client' = [first.c EXCEPT !.was = FALSE]
        /\ reported' = first.rep
        /\ store' = StoreAfterTick(store, parsed)
        /\ UNCHANGED <<room, received, at, live, saved, baseline, used>>

\* One frame in the menu: nothing is granted or polled.  The tick's marker goes
\* to event flags that the next load replaces, its entry to reconcile.json,
\* whose stamp the menu's play time of 0 does not lower.  The edge out of the world releases a
\* wrong-save refusal no driver was built under, after this frame's own flush.
MenuFrame(sent) ==
    LET parsed == SeedChecked(client)
        first  == Flushed(parsed, reported, sent)
        freed  == client.was /\ first.c.refused = "wrong_save" /\ ~Armed(first.c)
    IN  /\ ~InWorld
        /\ client' = [first.c EXCEPT !.was = FALSE,
                                     !.refused = IF freed THEN "no" ELSE @,
                                     !.inited = @ /\ ~freed]
        /\ reported' = first.rep
        /\ store' = StoreAfterTick(store, parsed)
        /\ UNCHANGED <<room, received, at, live, saved, baseline, used>>

Frame == \/ \E torn, sent, poll, settled \in BOOLEAN :
                WorldFrame(FALSE, torn, sent, poll, settled)
         \/ \E sent \in BOOLEAN : MenuFrame(sent)

-----------------------------------------------------------------------------
(***************************************************************************)
(* The room, the player and the game.                                       *)
(***************************************************************************)

\* A player of the room finds an item of this slot.
Receive(r) ==
    /\ received[r] < Stream[r]
    /\ received' = [received EXCEPT ![r] = @ + 1]
    /\ UNCHANGED <<room, client, at, live, saved, store, baseline, reported, used>>

\* The player reconnects to another room, in the overlay or by editing the
\* config file; the running game is not restarted.  What no guard asks the armed
\* reconciler about is another AP slot of the parsed seed, whatever rooms came
\* in between two frames.
Reslots(r) == client.parsed \notin {None, r} /\ SeedOf[r] = SeedOf[client.parsed]

Reconnect(r) ==
    /\ r # room
    /\ Spend(IF Reslots(r) THEN "reslot" ELSE "rejoin")
    /\ room' = r
    /\ UNCHANGED <<received, client, at, live, saved, store, baseline, reported>>

\* The player loads a save.  Frames run in the menu, so the edge was seen.
Load(s) ==
    /\ ~InWorld /\ ~client.was
    /\ at' = s
    /\ live' = saved[s]
    /\ IF Armed(client) /\ client.driver.slot # s THEN Spend("switch") ELSE UNCHANGED used
    /\ UNCHANGED <<room, received, client, saved, store, baseline, reported>>

\* The player deletes a character and creates another in its save slot.
Recreate(s) ==
    /\ ~InWorld /\ saved[s] # NewChar
    /\ saved' = [saved EXCEPT ![s] = NewChar]
    /\ Spend(IF Armed(client) /\ client.driver.slot = s THEN "switch" ELSE "recreate")
    /\ UNCHANGED <<room, received, client, at, live, store, baseline, reported>>

\* The game saves, on its own or on the way to the menu.
Save ==
    /\ InWorld /\ saved[at] # live
    /\ saved' = [saved EXCEPT ![at] = live]
    /\ UNCHANGED <<room, received, client, at, live, store, baseline, reported, used>>

Quit ==
    /\ InWorld /\ client.was
    /\ saved' = [saved EXCEPT ![at] = live]
    /\ at' = None
    /\ live' = NewChar
    /\ UNCHANGED <<room, received, client, store, baseline, reported, used>>

\* The location is taken: through the AddItem detour, which hands the check to
\* the next frame, or by a boss or a gift, which only sets the event flag.  It
\* takes longer than the quarter of a second to the room's first poll.
TakeLocation(detour) ==
    /\ InWorld /\ client.was /\ ~live.flag
    /\ baseline[client.parsed] # None
    /\ live' = [live EXCEPT !.flag = TRUE]
    /\ client' = IF detour THEN Staged(client, live) ELSE client
    /\ Spend(IF detour /\ ~Armed(client) /\ live.ident \notin {None, client.parsed}
             THEN "refusedpickup" ELSE "take")
    /\ UNCHANGED <<room, received, at, saved, store, baseline, reported>>

PlayOn ==
    /\ InWorld /\ live.play < MaxPlay
    /\ live' = [live EXCEPT !.play = @ + 1]
    /\ UNCHANGED <<room, received, client, at, saved, store, baseline, reported, used>>

\* The process dies; what was not saved is gone.
Crash ==
    /\ Spend("crash")
    /\ client' = NewClient
    /\ at' = None
    /\ live' = NewChar
    /\ UNCHANGED <<room, received, saved, store, baseline, reported>>

-----------------------------------------------------------------------------
Init ==
    /\ room = Home
    /\ received = [r \in Rooms |-> 0]
    /\ client = NewClient
    /\ at = None
    /\ live = NewChar
    /\ saved = [s \in Slots |-> NewChar]
    /\ store = [k \in Keys |-> None]
    /\ baseline = [r \in Rooms |-> None]
    /\ reported = [r \in Rooms |-> {}]
    /\ used = [f \in Events |-> 0]

Next ==
    \/ Frame
    \/ \E r \in Rooms : Receive(r) \/ Reconnect(r)
    \/ \E s \in Slots : Load(s) \/ Recreate(s)
    \/ Save \/ Quit \/ PlayOn \/ Crash
    \/ \E detour \in BOOLEAN : TakeLocation(detour)

Spec == Init /\ [][Next]_vars

\* Frames keep coming; the socket, the bag and the flag holder are up again and
\* again, and polling frames recur.
GoodFrame == \/ WorldFrame(TRUE, FALSE, TRUE, TRUE,
                           Serving(Inited(SeedChecked(client))))
             \/ MenuFrame(TRUE)
FairSpec == Spec /\ WF_vars(GoodFrame)

-----------------------------------------------------------------------------
\* The type invariant.
TypeOK ==
    /\ room \in Rooms
    /\ received \in [Rooms -> 0 .. Top]
    /\ client \in [parsed : Rooms \cup {None}, inited : BOOLEAN,
                   refused : {"no", "wrong_save", "room_changed"},
                   driver : Driver \cup {None},
                   pending : SUBSET (Rooms \cup {None}), was : BOOLEAN]
    /\ at \in Slots \cup {None}
    /\ live \in Chars
    /\ saved \in [Slots -> Chars]
    /\ store \in [Keys -> [wm : Marks, play : 0 .. MaxPlay] \cup {None}]
    /\ baseline \in [Rooms -> [flag : BOOLEAN, of : Rooms \cup {None}] \cup {None}]
    /\ reported \in [Rooms -> SUBSET (Rooms \cup {None})]
    /\ used \in [Events -> Nat]

\* The player stayed with one character and one AP slot per process.
Steady == used["switch"] = 0 /\ used["reslot"] = 0

Characters == {live} \cup {saved[s] : s \in Slots}

\* A ledgered grant reaches a save at most once, whatever is reloaded, crashed,
\* recreated or rejoined, unless the process died after a marker write was cut
\* short.
OncePerSave ==
    Steady /\ (used["torn"] = 0 \/ used["crash"] = 0)
      => \A c \in Characters, r \in Rooms, i \in Idx : c.got[r][i] <= 1

\* No received item is passed over: below the cursor a save carries, and below
\* the frontier of the driver serving it, everything received is in the bag.
\* Torn marker writes, crashes, rewound saves and inherited reconcile.json
\* entries included.
NothingSkipped ==
    Steady =>
      /\ \A c \in Characters : c.ident # None =>
            \A i \in (0 .. Active(c) - 1) \ Echo : c.got[c.ident][i] >= 1
      /\ Serving(client) =>
            \A i \in (0 .. client.driver.wm - 1) \ Echo :
                live.got[client.driver.ident][i] >= 1

\* A save that carries one room's marker holds no other room's items.
ForeignSaveUntouched ==
    Steady /\ used["torn"] = 0 =>
      \A c \in Characters : c.ident # None =>
        \A r \in Rooms \ {c.ident}, i \in Idx : c.got[r][i] = 0

\* A room is told of a check only by a save of its own, or by one that carries
\* no marker yet.
ChecksNeverLeak == \A r \in Rooms : reported[r] \subseteq {r, None}

\* The same for a player who stays with one character and one AP slot, and
\* picks up nothing on a save that is being refused.
ChecksStayHome == Steady /\ used["refusedpickup"] = 0 => ChecksNeverLeak

\* The baseline that excuses event flags from the poll was taken from a save of
\* that room, or from one that carries no marker yet.
OwnBaseline(r)  == baseline[r] # None => baseline[r].of \in {r, None}
BaselineIsOwn == \A r \in Rooms : OwnBaseline(r)

\* A check a served character earned reaches its room, by the detour's batch or
\* by the poll, through refused sockets: unless the flag is excused by a
\* baseline taken from another room's save, or the character leaves.
EveryCheckReported ==
    \A r \in Rooms :
      (Steady /\ Serving(client) /\ room = r /\ client.driver.ident = r
         /\ live.flag /\ OwnBaseline(r))
        ~> (~Steady \/ ~Serving(client) \/ room # r \/ reported[r] # {}
              \/ ~OwnBaseline(r))

\* A wrong-save refusal does not outlive the way to the menu.
RefusalReleases == (client.refused = "wrong_save" /\ at = None) ~> (client.refused # "wrong_save")
=============================================================================
