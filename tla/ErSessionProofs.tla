--------------------------- MODULE ErSessionProofs ---------------------------
(***************************************************************************)
(* The Elden Ring session for any rooms, save slots, received streams, shop *)
(* echoes and number of crashes, reconnects and torn marker writes.         *)
(***************************************************************************)
EXTENDS ErSession, WellFoundedInduction, TLAPS

-----------------------------------------------------------------------------
(***************************************************************************)
(* The inductive invariant.  Its parts are predicates of a character, of a  *)
(* client and of what has happened, so that they can be said of the         *)
(* characters and clients in the middle of a frame too.                     *)
(***************************************************************************)
Clients == [parsed : Rooms \cup {None}, inited : BOOLEAN,
            refused : {"no", "wrong_save", "room_changed"},
            driver : Driver \cup {None},
            pending : SUBSET (Rooms \cup {None}), was : BOOLEAN]

SteadyIn(u) == u["switch"] = 0 /\ u["reslot"] = 0

\* No process lost what a marker write cut short would have told the next one.
CleanIn(u) == u["torn"] = 0 \/ u["crash"] = 0

\* What the character c holds of the room r, below the index m and from there.
Held(c, r, m)   == \A i \in (0 .. m - 1) \ Echo : c.got[r][i] >= 1
Unpaid(c, r, m) == \A i \in Idx : i >= m => c.got[r][i] = 0
Empty(c)        == \A r \in Rooms, i \in Idx : c.got[r][i] = 0
Single(c)       == \A r \in Rooms, i \in Idx : c.got[r][i] <= 1
Pure(c)         == \A r \in Rooms \ {c.ident}, i \in Idx : c.got[r][i] = 0

\* The marker of a character: what is below its cursor is in the bag, and, as
\* long as no marker write was cut short, nothing else is.
CharOK(c, u) ==
    SteadyIn(u) =>
      /\ c.ident # None => Held(c, c.ident, Active(c))
      /\ u["torn"] = 0 => /\ c.ident # None => Unpaid(c, c.ident, Active(c)) /\ Pure(c)
                          /\ c.ident = None => Empty(c)
      /\ CleanIn(u) => Single(c)

\* The client that is served: its frontier says what the character it was armed
\* for holds.
DriverOK(c, d, u) ==
    SteadyIn(u) =>
      /\ c.ident \in {None, d.ident}
      /\ Held(c, d.ident, d.wm)
      /\ CleanIn(u) => Unpaid(c, d.ident, d.wm)

\* A process whose ticks serve, with whatever driver it has.
Trusted(m) == Armed(m) /\ m.refused = "no"

\* The latches of a process: what is refused, armed and initialised together.
ClientOK(m) ==
    /\ ~m.inited => ~Armed(m) /\ m.refused = "no"
    /\ m.inited /\ m.refused = "no" => Armed(m)
    /\ Armed(m) => m.refused # "wrong_save"
    /\ m.refused = "room_changed" => Armed(m)
    /\ Trusted(m) => SeedOf[m.driver.ident] = SeedOf[m.parsed]
    /\ m.parsed = None => m = NewClient

\* The tables the client works with are those of the room it is connected to,
\* unless the next frame's guard sees that they are not, and the driver was
\* armed for them.
RoomOK(m, u) ==
    SteadyIn(u) =>
      /\ m.parsed # None /\ SeedOf[m.parsed] = SeedOf[room] => m.parsed = room
      /\ Trusted(m) => m.driver.ident = m.parsed

\* What is waiting for a report was earned on a save of the parsed room.
PendingOK(m, u) ==
    SteadyIn(u) /\ u["refusedpickup"] = 0 /\ m.refused # "room_changed"
      => m.pending \subseteq {m.parsed, None}

\* The character the driver was armed for.
Current == IF InWorld THEN live ELSE saved[client.driver.slot]

CharsInv  == CharOK(live, used) /\ \A s \in Slots : CharOK(saved[s], used)
SlotInv   == SteadyIn(used) /\ Armed(client) /\ InWorld => at = client.driver.slot
DriverInv == Trusted(client) => DriverOK(Current, client.driver, used)

\* Until the first process has armed a driver no character has anything.
FreshInv  == SteadyIn(used) /\ used["crash"] = 0 /\ ~Armed(client) =>
               /\ live.ident = None /\ Empty(live)
               /\ \A s \in Slots : saved[s].ident = None /\ Empty(saved[s])

IInv == /\ TypeOK /\ ClientOK(client) /\ RoomOK(client, used) /\ SlotInv
        /\ CharsInv /\ DriverInv /\ FreshInv
        /\ PendingOK(client, used) /\ ChecksStayHome

-----------------------------------------------------------------------------
(***************************************************************************)
(* The numbers.                                                             *)
(***************************************************************************)
\* A set of naturals that is not empty has a least element.
LEMMA NatLeast ==
    ASSUME NEW S, S \subseteq Nat, S # {}
    PROVE  \E n \in S : \A m \in S : n <= m
<1> DEFINE R == OpToRel(<, Nat)
<1>1. IsWellFoundedOn(R, Nat)
  BY NatLessThanWellFounded
<1> HIDE DEF R
<1>2. PICK n \in S : \A m \in S : ~ (<<m, n>> \in R)
  BY <1>1, WFMin
<1>3. ASSUME NEW m \in S, m < n PROVE <<m, n>> \in R
  BY <1>3 DEF R, OpToRel
<1>4. \A m \in S : ~(m < n)
  BY <1>2, <1>3
<1>5. \A m \in S : n <= m
  BY <1>4, S \subseteq Nat
<1> QED
  BY <1>5

\* So a set of integers with a bound has a greatest one: the last index a tick
\* of the ledger walked.
LEMMA Greatest ==
    ASSUME NEW hi \in Int, NEW S, S \subseteq Int, \A i \in S : i <= hi, S # {}
    PROVE  \E n \in S : \A m \in S : m <= n
<1> DEFINE D == {hi - i : i \in S}
<1>0. \A i \in S : hi - i \in Nat
  OBVIOUS
<1>1. D \subseteq Nat /\ D # {}
  BY <1>0
<1>2. PICK d \in D : \A e \in D : d <= e
  BY <1>1, NatLeast
<1>3. PICK n \in S : d = hi - n
  BY <1>2
<1>4. ASSUME NEW m \in S
      PROVE  m <= n
  <2>1. d <= hi - m
    BY <1>2
  <2> QED
    BY <1>3, <2>1
<1> QED
  BY <1>3, <1>4

\* The indices of the start items lie below those of the stream, and a new
\* frontier is at or below both.
LEMMA Numbers ==
    /\ Top \in Nat /\ \A r \in Rooms : Stream[r] <= Top /\ Stream[r] \in Nat
    /\ Base \in Int /\ NStart \in Nat /\ Base + NStart <= 0
    /\ Floor \in Marks /\ Floor <= 0 /\ Base \in Marks
    /\ Idx \subseteq Int /\ Start \subseteq Idx /\ 0 .. Top - 1 \subseteq Idx
    /\ \A i \in Start : i < Base + NStart
    /\ Marks \subseteq Int
<1>1. Top \in Nat /\ \A r \in Rooms : Stream[r] <= Top /\ Stream[r] \in Nat
  <2>1. \E n \in {Stream[r] : r \in Rooms} : \A r \in Rooms : Stream[r] <= n
    BY SessionAssumption
  <2>2. Top \in {Stream[r] : r \in Rooms} /\ \A r \in Rooms : Stream[r] <= Top
    BY <2>1 DEF Top
  <2> QED
    BY <2>2, SessionAssumption
<1>2. Base \in Int /\ NStart \in Nat /\ Base + NStart <= 0
  BY SessionAssumption
<1>3. Floor \in Marks /\ Floor <= 0 /\ Base \in Marks /\ Marks \subseteq Int
  BY <1>1, <1>2 DEF Floor, Marks
<1>4. Idx \subseteq Int /\ Start \subseteq Idx /\ 0 .. Top - 1 \subseteq Idx
      /\ \A i \in Start : i < Base + NStart
  BY <1>1, <1>2 DEF Idx, Start
<1> QED
  BY <1>1, <1>2, <1>3, <1>4

-----------------------------------------------------------------------------
(***************************************************************************)
(* The steps of a frame: the guard and the init.                            *)
(***************************************************************************)
\* A new process has nothing, and neither has a new character.
LEMMA News ==
    /\ NewClient \in Clients /\ ClientOK(NewClient) /\ ~Armed(NewClient)
    /\ NewClient.pending = {} /\ NewClient.parsed = None
    /\ NewChar \in Chars /\ NewChar.ident = None /\ Empty(NewChar)
    /\ \A u : CharOK(NewChar, u)
<1>1. NewClient \in Clients /\ ~Armed(NewClient) /\ NewClient.pending = {}
      /\ NewClient.parsed = None /\ ClientOK(NewClient)
  BY DEF NewClient, Clients, Armed, ClientOK, Trusted
<1>2. NewChar \in Chars /\ NewChar.ident = None /\ Empty(NewChar)
  <2>1. 0 \in 0 .. MaxPlay /\ Base \in Marks
    BY SessionAssumption, Numbers
  <2> QED
    BY <2>1 DEF NewChar, Chars, Empty
<1>3. ASSUME NEW u PROVE CharOK(NewChar, u)
  BY <1>2 DEF CharOK, Empty, Single
<1> QED
  BY <1>1, <1>2, <1>3

\* The guards leave the tables of the connected room.  A client that is still
\* trusted after them was so before, with the same driver.
LEMMA SeedCheckedOK ==
    ASSUME TypeOK, ClientOK(client)
    PROVE  \E p \in {SeedChecked(client)} :
             /\ p \in Clients /\ ClientOK(p)
             /\ p.parsed \in Rooms /\ p.parsed = room
             /\ Armed(p) <=> Armed(client)
             /\ Armed(p) => p.driver.slot = client.driver.slot
             /\ Trusted(p) => Trusted(client) /\ p.driver = client.driver
             /\ p.inited = client.inited /\ p.was = client.was
             /\ p.refused = client.refused \/ p.refused = "room_changed"
             /\ RoomOK(client, used) => RoomOK(p, used)
             /\ PendingOK(client, used) => PendingOK(p, used)
<1> DEFINE p == SeedChecked(client)
<1>1. client \in Clients /\ room \in Rooms /\ None \notin Rooms
  BY SessionAssumption DEF TypeOK, Clients
<1>2. CASE client.parsed = room
  <2>1. p = client
    BY <1>2 DEF SeedChecked
  <2> QED
    BY <1>1, <1>2, <2>1 DEF Clients, RoomOK
<1>3. CASE client.parsed = None
  <2>1. p = [client EXCEPT !.parsed = room] /\ client = NewClient
    BY <1>1, <1>3 DEF SeedChecked, ClientOK
  <2>2. p = [parsed |-> room, inited |-> FALSE, refused |-> "no",
             driver |-> None, pending |-> {}, was |-> FALSE]
    BY <2>1 DEF NewClient
  <2>3. p \in Clients /\ p.parsed = room /\ ~Armed(p) /\ ~Trusted(p) /\ p.pending = {}
        /\ p.inited = client.inited /\ p.was = client.was /\ p.refused = client.refused
    BY <1>1, <2>1, <2>2 DEF Clients, Armed, Trusted, NewClient
  <2>4. ClientOK(p) /\ ~Armed(client)
    BY <1>1, <2>1, <2>2, <2>3 DEF ClientOK, Armed, NewClient
  <2> HIDE DEF p
  <2> QED
    BY <1>1, <2>3, <2>4 DEF PendingOK, RoomOK, p
<1>4. CASE client.parsed # None /\ SeedOf[client.parsed] = SeedOf[room] /\ client.parsed # room
  <2>1. p = [client EXCEPT !.parsed = room, !.pending = {},
                           !.refused = client.refused, !.driver = client.driver]
    BY <1>4 DEF SeedChecked
  <2>2. /\ p \in Clients /\ p.parsed = room /\ p.pending = {} /\ p.driver = client.driver
        /\ p.inited = client.inited /\ p.was = client.was /\ p.refused = client.refused
    BY <1>1, <2>1 DEF Clients
  <2>3. (Armed(p) <=> Armed(client)) /\ (Trusted(p) <=> Trusted(client))
    BY <2>2 DEF Armed, Trusted
  <2>4. ClientOK(p)
    BY <1>1, <1>4, <2>2, <2>3 DEF ClientOK
  <2>5. RoomOK(client, used) => ~SteadyIn(used)
    BY <1>4 DEF RoomOK
  <2> HIDE DEF p
  <2> QED
    BY <1>1, <2>2, <2>3, <2>4, <2>5 DEF RoomOK, PendingOK, p
<1>5. CASE client.parsed # None /\ SeedOf[client.parsed] # SeedOf[room]
  <2> DEFINE d == IF Armed(client) THEN [client.driver EXCEPT !.wm = Floor] ELSE client.driver
  <2>1. p = [client EXCEPT !.parsed = room, !.pending = {},
                           !.refused = DisarmIfIdentityMoved(client), !.driver = d]
    BY <1>5 DEF SeedChecked
  <2>2. /\ d \in Driver \cup {None} /\ (d # None <=> Armed(client))
        /\ Armed(client) => d.slot = client.driver.slot
    <3>1. Armed(client) => client.driver \in Driver
      BY <1>1 DEF Armed, Clients
    <3>2. Armed(client) => d \in Driver /\ d.slot = client.driver.slot
      BY <3>1, Numbers DEF Driver
    <3> QED
      BY <3>2, DriverAssumption DEF Armed
  <2>3. DisarmIfIdentityMoved(client) =
          IF Trusted(client) THEN "room_changed" ELSE client.refused
    <3>1. CASE Trusted(client)
      <4>1. SeedOf[client.driver.ident] # SeedOf[room]
        BY <1>5, <3>1 DEF ClientOK
      <4>2. <<SeedOf[client.driver.ident], NameOf[client.driver.ident]>>
               # <<SeedOf[room], NameOf[client.parsed]>>
        BY <4>1
      <4> QED
        BY <3>1, <4>2 DEF DisarmIfIdentityMoved, Trusted
    <3>2. CASE ~Trusted(client)
      <4>1. Armed(client) => client.refused = "room_changed"
        BY <1>1, <3>2 DEF Trusted, ClientOK, Clients
      <4> QED
        BY <3>2, <4>1 DEF DisarmIfIdentityMoved
    <3> QED
      BY <3>1, <3>2
  <2> HIDE DEF d
  <2>4. /\ p \in Clients /\ p.parsed = room /\ p.pending = {} /\ p.driver = d
        /\ p.inited = client.inited /\ p.was = client.was
        /\ p.refused = IF Trusted(client) THEN "room_changed" ELSE client.refused
    BY <1>1, <2>1, <2>2, <2>3 DEF Clients
  <2>5. (Armed(p) <=> Armed(client)) /\ ~Trusted(p)
    BY <2>2, <2>4 DEF Armed, Trusted
  <2>6. ClientOK(p)
    BY <1>1, <2>4, <2>5 DEF ClientOK, Trusted
  <2> HIDE DEF p
  <2> QED
    BY <1>1, <2>2, <2>4, <2>5, <2>6 DEF PendingOK, RoomOK, p
<1> QED
  BY <1>2, <1>3, <1>4, <1>5

\* A refused or menu frame leaves init for later; a first frame in the world
\* arms the driver for the character in it, from what its marker says or from a
\* frontier that claims nothing of the stream, or refuses the save.
LEMMA InitedOK ==
    ASSUME TypeOK, CharOK(live, used), FreshInv,
           NEW p \in Clients, ClientOK(p), p.parsed \in Rooms,
           Armed(p) <=> Armed(client), SlotInv,
           Armed(p) => p.driver.slot = client.driver.slot,
           Trusted(p) => DriverOK(live, p.driver, used), RoomOK(p, used), InWorld
    PROVE  \E q \in {Inited(p)} :
             /\ q \in Clients /\ ClientOK(q) /\ q.inited
             /\ q.parsed = p.parsed /\ q.pending = p.pending /\ q.was = p.was
             /\ q.refused = "room_changed" <=> p.refused = "room_changed"
             /\ Armed(p) => q.driver = p.driver /\ q.refused = p.refused
             /\ SteadyIn(used) /\ Armed(q) => q.driver.slot = at
             /\ Trusted(q) => DriverOK(live, q.driver, used)
             /\ RoomOK(q, used)
<1> DEFINE q == Inited(p)
<1>1. None \notin Rooms /\ at \in Slots /\ live \in Chars /\ p.parsed # None
  BY SessionAssumption DEF TypeOK, InWorld
<1>2. CASE p.inited
  <2>1. q = p
    BY <1>2 DEF Inited
  <2> QED
    BY <1>2, <2>1 DEF SlotInv
<1>3. CASE ~p.inited
  <2>1. q = Decided(p) /\ ~Armed(p) /\ p.refused = "no"
    BY <1>3 DEF Inited, ClientOK
  <2>2. CASE live.ident \notin {None, p.parsed}
    <3>1. q = [p EXCEPT !.inited = TRUE, !.refused = "wrong_save"]
      BY <2>1, <2>2 DEF Decided
    <3>2. /\ q \in Clients /\ q.inited = TRUE /\ q.refused = "wrong_save"
          /\ q.parsed = p.parsed /\ q.pending = p.pending /\ q.was = p.was /\ q.driver = p.driver
      BY <3>1 DEF Clients
    <3> QED
      BY <1>1, <2>1, <3>2 DEF Armed, ClientOK, Trusted, RoomOK
  <2>3. CASE live.ident \in {None, p.parsed}
    <3> DEFINE entry == store[Key(p, at)]
               w == IF live.ident = p.parsed THEN Active(live) ELSE Seeded(entry, live.play)
               d == [ident |-> p.parsed, slot |-> at, wm |-> w]
    <3>1. q = [p EXCEPT !.inited = TRUE, !.driver = d]
      BY <2>1, <2>3 DEF Decided
    <3>2. entry \in [wm : Marks, play : 0 .. MaxPlay] \cup {None}
      BY <1>1 DEF TypeOK, Key, Keys
    <3>3. Active(live) \in Marks
      BY <1>1 DEF Active, Chars
    <3>4. Seeded(entry, live.play) \in Marks /\ Seeded(entry, live.play) <= 0
      <4> HIDE DEF entry
      <4> QED
        BY <3>2, Numbers DEF Seeded, SeedTrust
    <3>5. w \in Marks /\ (live.ident = None => w <= 0)
      BY <1>1, <3>3, <3>4
    <3>6. /\ SteadyIn(used) => Held(live, p.parsed, w)
          /\ SteadyIn(used) /\ CleanIn(used) => Unpaid(live, p.parsed, w)
      <4>1. CASE live.ident = p.parsed
        <5>1. w = Active(live)
          BY <4>1
        <5>2. SteadyIn(used) /\ used["torn"] = 0 => Unpaid(live, p.parsed, w)
          BY <1>1, <4>1, <5>1 DEF CharOK
        <5>3. ASSUME SteadyIn(used), used["crash"] = 0 PROVE FALSE
          BY <1>1, <2>1, <4>1, <5>3 DEF FreshInv
        <5> HIDE DEF w
        <5> QED
          BY <1>1, <4>1, <5>1, <5>2, <5>3 DEF CharOK, CleanIn
      <4>2. CASE live.ident = None
        <5>1. Held(live, p.parsed, w)
          <6> HIDE DEF w
          <6> QED BY <3>5, <4>2, Numbers DEF Held
        <5>2. SteadyIn(used) /\ CleanIn(used) => Empty(live)
          BY <2>1, <4>2 DEF CharOK, FreshInv, CleanIn
        <5> HIDE DEF w
        <5> QED
          BY <5>1, <5>2 DEF Empty, Unpaid
      <4> QED
        BY <2>3, <4>1, <4>2
    <3> HIDE DEF w
    <3>7. d \in Driver /\ d # None /\ d.ident = p.parsed /\ d.slot = at /\ d.wm = w
      BY <1>1, <3>5, DriverAssumption DEF Driver
    <3> HIDE DEF d
    <3>8. /\ q \in Clients /\ q.inited = TRUE /\ q.refused = "no" /\ q.driver = d
          /\ q.parsed = p.parsed /\ q.pending = p.pending /\ q.was = p.was
      BY <2>1, <3>1, <3>7 DEF Clients
    <3>9. DriverOK(live, d, used)
      BY <2>3, <3>6, <3>7 DEF DriverOK
    <3> HIDE DEF q
    <3>10. Armed(q) /\ ClientOK(q)
      BY <1>1, <3>7, <3>8 DEF Armed, ClientOK, Trusted
    <3>11. RoomOK(q, used)
      BY <3>7, <3>8 DEF RoomOK
    <3> QED
      BY <2>1, <3>7, <3>8, <3>9, <3>10, <3>11 DEF q
  <2> QED
    BY <2>2, <2>3
<1> QED
  BY <1>2, <1>3

-----------------------------------------------------------------------------
(***************************************************************************)
(* The tick, the marker and the backfill.                                   *)
(***************************************************************************)
\* What of the ledger a tick that stops at `stop` pays: everything owed from
\* the old frontier to the new one, and nothing beyond.
LEMMA AdvancedOK ==
    ASSUME TypeOK, NEW m \in Clients, Armed(m), NEW stop \in Int
    PROVE  \E a \in {Advanced(m, stop)} :
             /\ a \in Clients /\ Armed(a)
             /\ a.parsed = m.parsed /\ a.inited = m.inited /\ a.refused = m.refused
             /\ a.pending = m.pending /\ a.was = m.was
             /\ a.driver.ident = m.driver.ident /\ a.driver.slot = m.driver.slot
             /\ m.driver.wm \in Int /\ a.driver.wm \in Int /\ m.driver.wm <= a.driver.wm
             /\ \A i \in Owed(m) : i < stop => i < a.driver.wm
             /\ \A i \in 0 .. a.driver.wm - 1 : i >= m.driver.wm => i \in Owed(m) /\ i < stop
<1> DEFINE a == Advanced(m, stop)
           done == {i \in Owed(m) : i < stop}
<1>1. m.driver \in Driver /\ m.driver.wm \in Marks /\ m.driver.wm \in Int
  BY Numbers DEF Armed, Clients, Driver
<1>2. /\ room \in Rooms /\ received[room] \in 0 .. Top
      /\ Ledger \subseteq Int /\ \A i \in Ledger : Base <= i /\ i <= Top - 1
  BY Numbers DEF TypeOK, Ledger, Start
<1>3. done \subseteq Ledger /\ done \subseteq Int /\ \A i \in done : i <= Top - 1
  BY <1>2 DEF Owed
<1>4. CASE done = {}
  <2>1. a = m
    BY <1>4 DEF Advanced
  <2>2. m.driver.wm <= m.driver.wm /\ \A i \in 0 .. m.driver.wm - 1 : ~(i >= m.driver.wm)
    BY <1>1, Numbers
  <2>3. \A i \in Owed(m) : ~(i < stop)
    BY <1>4
  <2> HIDE DEF a, done
  <2> QED
    BY <1>1, <2>1, <2>2, <2>3 DEF a
<1>5. CASE done # {}
  <2> DEFINE n == CHOOSE i \in done : \A j \in done : j <= i
  <2>1. \E i \in done : \A j \in done : j <= i
    <3> HIDE DEF done
    <3>1. Top - 1 \in Int
      BY Numbers
    <3> QED
      BY <1>3, <1>5, <3>1, Greatest
  <2>2. n \in done /\ \A j \in done : j <= n
    BY <2>1
  <2>3. a = [m EXCEPT !.driver.wm = 1 + n]
    BY <1>5 DEF Advanced
  <2> HIDE DEF n, done
  <2>4. 1 + n \in Marks
    BY <1>2, <1>3, <2>2, Numbers DEF Marks
  <2>5. /\ a \in Clients /\ a.driver \in Driver /\ a.driver.wm = 1 + n
        /\ a.parsed = m.parsed /\ a.inited = m.inited /\ a.refused = m.refused
        /\ a.pending = m.pending /\ a.was = m.was
        /\ a.driver.ident = m.driver.ident /\ a.driver.slot = m.driver.slot
    BY <1>1, <2>3, <2>4 DEF Clients, Driver
  <2> HIDE DEF a
  <2>6. Armed(a)
    BY <2>5, DriverAssumption DEF Armed
  <2>9. a.driver.wm \in Int /\ m.driver.wm <= a.driver.wm
    <3>1. n \in Int /\ n >= m.driver.wm
      BY <1>3, <2>2 DEF done, Owed
    <3> QED
      BY <1>1, <2>5, <3>1
  <2>7. ASSUME NEW i \in Owed(m), i < stop
        PROVE  i < a.driver.wm
    <3>1. i \in done
      BY <2>7 DEF done
    <3> QED
      BY <1>3, <2>2, <2>5, <3>1
  <2>8. ASSUME NEW i \in 0 .. a.driver.wm - 1, i >= m.driver.wm
        PROVE  i \in Owed(m) /\ i < stop
    <3>1. n \in Ledger /\ n < stop /\ n \in Int /\ i <= n /\ 0 <= i /\ i \in Int
      BY <1>3, <2>2, <2>5, <2>8 DEF done
    <3>2. n \in 0 .. received[room] - 1
      BY <3>1, Numbers DEF Ledger
    <3>3. i \in Ledger
      BY <1>2, <3>1, <3>2 DEF Ledger
    <3> QED
      BY <2>8, <3>1, <3>3 DEF Owed
  <2> QED
    BY <1>1, <2>5, <2>6, <2>7, <2>8, <2>9 DEF a
<1> QED
  BY <1>4, <1>5

\* The bag after the tick: each of those is in it once more.
LEMMA GrantedOK ==
    ASSUME NEW l \in Chars, NEW m, NEW stop, room \in Rooms
    PROVE  \E g \in {Granted(l, m, stop)} :
             /\ g \in Chars
             /\ g.ident = l.ident /\ g.sel = l.sel /\ g.cur = l.cur
             /\ \A r \in Rooms : r # room => g.got[r] = l.got[r]
             /\ \A i \in Idx : g.got[room][i] = IF i \in Owed(m) \ Echo /\ i < stop
                                                THEN l.got[room][i] + 1 ELSE l.got[room][i]
<1> DEFINE f == [i \in Idx |-> IF i \in Owed(m) \ Echo /\ i < stop
                               THEN l.got[room][i] + 1 ELSE l.got[room][i]]
           g == [l EXCEPT !.got[room] = f]
<1>1. Granted(l, m, stop) = g
  BY DEF Granted
<1>2. l.got \in [Rooms -> [Idx -> Nat]]
  BY DEF Chars
<1>3. f \in [Idx -> Nat]
  BY <1>2
<1>4. \A i \in Idx : f[i] = IF i \in Owed(m) \ Echo /\ i < stop
                            THEN l.got[room][i] + 1 ELSE l.got[room][i]
  OBVIOUS
<1> HIDE DEF f
<1>5. /\ g \in Chars /\ g.ident = l.ident /\ g.sel = l.sel /\ g.cur = l.cur
      /\ g.got = [l.got EXCEPT ![room] = f]
  BY <1>2, <1>3 DEF Chars
<1>6. g.got[room] = f /\ \A r \in Rooms : r # room => g.got[r] = l.got[r]
  BY <1>2, <1>5
<1> HIDE DEF g
<1> QED
  BY <1>1, <1>4, <1>5, <1>6

\* The tick keeps what the driver's frontier says of the character it serves.
LEMMA TickOK ==
    ASSUME TypeOK, NEW m \in Clients, Armed(m), NEW stop \in Int,
           NEW l \in Chars, DriverOK(l, m.driver, used), CharOK(l, used),
           SteadyIn(used), m.driver.ident = room
    PROVE  \E a \in {Advanced(m, stop)}, g \in {Granted(l, m, stop)} :
             /\ DriverOK(g, a.driver, used)
             /\ l.ident # None => Held(g, l.ident, Active(l))
             /\ used["torn"] = 0 => \A r \in Rooms \ {room}, i \in Idx : g.got[r][i] = 0
             /\ CleanIn(used) => Single(g)
<1> DEFINE a == Advanced(m, stop)
           g == Granted(l, m, stop)
<1>1. /\ Armed(a) /\ a \in Clients /\ a.driver.ident = room
      /\ m.driver.wm \in Int /\ a.driver.wm \in Int /\ m.driver.wm <= a.driver.wm
      /\ \A i \in Owed(m) : i < stop => i < a.driver.wm
      /\ \A i \in 0 .. a.driver.wm - 1 : i >= m.driver.wm => i \in Owed(m) /\ i < stop
  <2>1. PICK b \in {Advanced(m, stop)} :
          /\ b \in Clients /\ Armed(b)
          /\ b.driver.ident = m.driver.ident
          /\ m.driver.wm \in Int /\ b.driver.wm \in Int /\ m.driver.wm <= b.driver.wm
          /\ \A i \in Owed(m) : i < stop => i < b.driver.wm
          /\ \A i \in 0 .. b.driver.wm - 1 : i >= m.driver.wm => i \in Owed(m) /\ i < stop
    BY AdvancedOK, Zenon
  <2>2. b = a
    OBVIOUS
  <2> HIDE DEF a
  <2> QED
    BY <2>1, <2>2
<1>2. room \in Rooms /\ room # None
  BY SessionAssumption DEF TypeOK
<1>3. /\ g \in Chars /\ g.ident = l.ident
      /\ \A r \in Rooms : r # room => g.got[r] = l.got[r]
      /\ \A i \in Idx : g.got[room][i] = IF i \in Owed(m) \ Echo /\ i < stop
                                         THEN l.got[room][i] + 1 ELSE l.got[room][i]
  BY <1>2, GrantedOK
<1> HIDE DEF a, g
<1>4. l.got \in [Rooms -> [Idx -> Nat]] /\ g.got \in [Rooms -> [Idx -> Nat]]
  BY <1>3 DEF Chars
<1>5. \A r \in Rooms, i \in Idx : g.got[r][i] >= l.got[r][i]
  BY <1>3, <1>4
<1>6. /\ m.driver.wm \in Marks /\ a.driver.wm \in Marks /\ m.driver.wm \in Int /\ a.driver.wm \in Int
      /\ a.driver.wm <= Top /\ m.driver.wm <= Top
  BY <1>1, Numbers DEF Armed, Clients, Driver, Marks
<1>7. /\ l.ident \in {None, room} /\ Held(l, room, m.driver.wm)
      /\ CleanIn(used) => Unpaid(l, room, m.driver.wm)
  BY DEF DriverOK
<1>8. Held(g, room, a.driver.wm)
  <2>1. ASSUME NEW i \in (0 .. a.driver.wm - 1) \ Echo
        PROVE  g.got[room][i] >= 1
    <3>1. i \in Idx /\ i \in Int /\ l.got[room][i] \in Nat
      BY <1>2, <1>4, <1>6, Numbers
    <3>2. CASE i >= m.driver.wm
      <4>1. i \in Owed(m) \ Echo /\ i < stop
        BY <1>1, <3>2
      <4> QED
        BY <1>3, <3>1, <4>1
    <3>3. CASE ~(i >= m.driver.wm)
      <4>1. i \in (0 .. m.driver.wm - 1) \ Echo
        BY <1>6, <3>1, <3>3
      <4>2. l.got[room][i] >= 1
        BY <1>7, <4>1 DEF Held
      <4> QED
        BY <1>2, <1>4, <1>5, <3>1, <4>2
    <3> QED
      BY <3>2, <3>3
  <2> QED
    BY <2>1 DEF Held
<1>9. ASSUME CleanIn(used)
      PROVE  Unpaid(g, room, a.driver.wm) /\ Single(g)
  <2>1. ASSUME NEW i \in Idx
        PROVE  /\ i \in Int /\ (i >= m.driver.wm => l.got[room][i] = 0)
               /\ i \in Owed(m) => i >= m.driver.wm /\ l.got[room][i] = 0
    BY <1>7, <1>9, Numbers DEF Unpaid, Owed
  <2>2. ASSUME NEW i \in Idx, i >= a.driver.wm
        PROVE  g.got[room][i] = 0
    <3>1. ~(i \in Owed(m) /\ i < stop)
      BY <1>1, <1>6, <2>1, <2>2
    <3>2. i >= m.driver.wm
      BY <1>1, <1>6, <2>1, <2>2
    <3> QED
      BY <1>3, <2>1, <3>1, <3>2
  <2>3. ASSUME NEW r \in Rooms, NEW i \in Idx
        PROVE  g.got[r][i] <= 1
    <3>1. l.got[r][i] <= 1 /\ l.got[r][i] \in Nat
      BY <1>4, <1>9 DEF CharOK, Single
    <3>2. CASE r = room
      BY <1>3, <2>1, <3>1, <3>2
    <3>3. CASE r # room
      BY <1>3, <3>1, <3>3
    <3> QED
      BY <3>2, <3>3
  <2> QED
    BY <2>2, <2>3 DEF Unpaid, Single
<1>10. DriverOK(g, a.driver, used)
  BY <1>1, <1>3, <1>7, <1>8, <1>9 DEF DriverOK
<1>11. ASSUME l.ident # None
       PROVE  Held(g, l.ident, Active(l))
  <2>1. l.ident = room /\ Held(l, room, Active(l))
    BY <1>7, <1>11 DEF CharOK
  <2>2. Active(l) \in Marks
    BY DEF Active, Chars
  <2>3. ASSUME NEW i \in (0 .. Active(l) - 1) \ Echo
        PROVE  g.got[room][i] >= 1
    <3>1. i \in Idx
      BY <2>2, Numbers DEF Marks
    <3>2. l.got[room][i] >= 1
      BY <2>1 DEF Held
    <3> QED
      BY <1>2, <1>4, <1>5, <3>1, <3>2
  <2> QED
    BY <2>1, <2>3 DEF Held
<1>12. ASSUME used["torn"] = 0, NEW r \in Rooms \ {room}, NEW i \in Idx
       PROVE  g.got[r][i] = 0
  <2>1. l.got[r][i] = 0
    BY <1>7, <1>12 DEF CharOK, Pure, Empty
  <2> QED
    BY <1>3, <1>12, <2>1
<1> QED
  BY <1>9, <1>10, <1>11, <1>12 DEF a, g

\* marker::commit leaves a character whose active register holds the frontier,
\* and nothing else of it changes.
LEMMA CommitOK ==
    ASSUME NEW l \in Chars, NEW m \in Clients, Armed(m)
    PROVE  \E c \in {Commit(l, m)} :
             /\ c \in Chars /\ c.got = l.got
             /\ Active(c) = m.driver.wm
             /\ l.ident = None => c.ident = m.driver.ident
             /\ l.ident # None => c.ident = l.ident
<1> DEFINE c == Commit(l, m)
<1>1. m.driver.ident \in Rooms /\ m.driver.wm \in Marks
  BY DEF Armed, Clients, Driver
<1>2. l.sel \in BOOLEAN /\ l.cur \in [BOOLEAN -> Marks] /\ (~l.sel) \in BOOLEAN /\ (~l.sel) # l.sel
  BY DEF Chars
<1>3. CASE l.ident = None
  <2>1. c = [l EXCEPT !.ident = m.driver.ident, !.sel = FALSE, !.cur[FALSE] = m.driver.wm]
    BY <1>3 DEF Commit
  <2>2. [l.cur EXCEPT ![FALSE] = m.driver.wm] \in [BOOLEAN -> Marks]
        /\ [l.cur EXCEPT ![FALSE] = m.driver.wm][FALSE] = m.driver.wm
    BY <1>1, <1>2
  <2>3. /\ c \in Chars /\ c.got = l.got /\ c.ident = m.driver.ident /\ c.sel = FALSE
        /\ c.cur = [l.cur EXCEPT ![FALSE] = m.driver.wm]
    BY <1>1, <2>1, <2>2 DEF Chars
  <2> HIDE DEF c
  <2> QED
    BY <1>3, <2>2, <2>3 DEF Active, c
<1>4. CASE l.ident # None /\ Active(l) = m.driver.wm
  <2>1. c = l
    BY <1>4 DEF Commit
  <2> QED
    BY <1>4, <2>1
<1>5. CASE l.ident # None /\ Active(l) # m.driver.wm
  <2> DEFINE n == ~l.sel
  <2>1. c = [l EXCEPT !.cur[n] = m.driver.wm, !.sel = n]
    BY <1>5 DEF Commit
  <2>2. n \in BOOLEAN
    BY <1>2
  <2> HIDE DEF n
  <2>3. [l.cur EXCEPT ![n] = m.driver.wm] \in [BOOLEAN -> Marks]
        /\ [l.cur EXCEPT ![n] = m.driver.wm][n] = m.driver.wm
    BY <1>1, <1>2, <2>2
  <2>4. /\ c \in Chars /\ c.got = l.got /\ c.ident = l.ident /\ c.sel = n
        /\ c.cur = [l.cur EXCEPT ![n] = m.driver.wm]
    BY <2>1, <2>2, <2>3 DEF Chars
  <2> HIDE DEF c
  <2> QED
    BY <1>5, <2>3, <2>4 DEF Active, c
<1> QED
  BY <1>3, <1>4, <1>5

\* A commit that is cut short leaves the active register as it was.
LEMMA TornOK ==
    ASSUME NEW l \in Chars, NEW m, NEW c \in TornCommits(l, m)
    PROVE  c \in Chars /\ c.got = l.got /\ c.ident = l.ident /\ Active(c) = Active(l)
<1>1. CASE l.ident = None
  <2>1. c = l
    BY <1>1 DEF TornCommits
  <2> QED
    BY <2>1
<1>2. CASE l.ident # None
  <2> DEFINE n == ~l.sel
  <2>1. PICK v \in Marks : c = [l EXCEPT !.cur[n] = v]
    BY <1>2 DEF TornCommits
  <2>2. l.sel \in BOOLEAN /\ l.cur \in [BOOLEAN -> Marks] /\ n \in BOOLEAN /\ n # l.sel
    BY DEF Chars
  <2> HIDE DEF n
  <2>3. [l.cur EXCEPT ![n] = v] \in [BOOLEAN -> Marks]
        /\ [l.cur EXCEPT ![n] = v][l.sel] = l.cur[l.sel]
    BY <2>2
  <2>4. /\ c \in Chars /\ c.got = l.got /\ c.ident = l.ident /\ c.sel = l.sel
        /\ c.cur = [l.cur EXCEPT ![n] = v]
    BY <2>1, <2>3 DEF Chars
  <2> QED
    BY <2>3, <2>4 DEF Active
<1> QED
  BY <1>1, <1>2

\* start_item_backfill fills in start items behind the frontier, each once.
LEMMA BackfilledOK ==
    ASSUME NEW l \in Chars, NEW m, m.parsed \in Rooms, m.driver.wm \in Int
    PROVE  \E b \in {Backfilled(l, m)} :
             /\ b \in Chars /\ b.ident = l.ident /\ Active(b) = Active(l)
             /\ \A r \in Rooms : r # m.parsed => b.got[r] = l.got[r]
             /\ \A i \in Idx : \/ b.got[m.parsed][i] = l.got[m.parsed][i]
                               \/ b.got[m.parsed][i] = 1 /\ l.got[m.parsed][i] = 0 /\ i < m.driver.wm
<1> DEFINE b == Backfilled(l, m)
<1>1. CASE m.driver.wm < Base + NStart
  <2>1. b = l
    BY <1>1 DEF Backfilled
  <2> QED
    BY <2>1
<1>2. CASE ~(m.driver.wm < Base + NStart)
  <2> DEFINE f == [i \in Idx |-> IF i \in Start /\ \A r \in Rooms : l.got[r][i] = 0
                                 THEN 1 ELSE l.got[m.parsed][i]]
  <2>1. b = [l EXCEPT !.got[m.parsed] = f]
    BY <1>2 DEF Backfilled
  <2>2. l.got \in [Rooms -> [Idx -> Nat]]
    BY DEF Chars
  <2>3. f \in [Idx -> Nat]
    BY <2>2
  <2>4. ASSUME NEW i \in Idx
        PROVE  \/ f[i] = l.got[m.parsed][i]
               \/ f[i] = 1 /\ l.got[m.parsed][i] = 0 /\ i < m.driver.wm
    <3>1. CASE i \in Start /\ \A r \in Rooms : l.got[r][i] = 0
      <4>1. f[i] = 1 /\ l.got[m.parsed][i] = 0
        BY <3>1
      <4>2. i < m.driver.wm
        BY <1>2, <3>1, Numbers
      <4> QED
        BY <4>1, <4>2
    <3>2. CASE ~(i \in Start /\ \A r \in Rooms : l.got[r][i] = 0)
      BY <3>2
    <3> QED
      BY <3>1, <3>2
  <2> HIDE DEF f
  <2>5. /\ b \in Chars /\ b.ident = l.ident /\ b.sel = l.sel /\ b.cur = l.cur
        /\ b.got = [l.got EXCEPT ![m.parsed] = f]
    BY <2>1, <2>2, <2>3 DEF Chars
  <2>6. b.got[m.parsed] = f /\ \A r \in Rooms : r # m.parsed => b.got[r] = l.got[r]
    BY <2>2, <2>5
  <2> HIDE DEF b
  <2> QED
    BY <2>4, <2>5, <2>6 DEF Active, b
<1> QED
  BY <1>1, <1>2

\* What a character's bag says does not depend on the rest of it.
LEMMA SameBag ==
    ASSUME NEW c, NEW g, c.got = g.got, NEW r, NEW m
    PROVE  /\ Held(g, r, m) => Held(c, r, m)
           /\ Unpaid(g, r, m) => Unpaid(c, r, m)
           /\ Single(g) => Single(c)
BY DEF Held, Unpaid, Single

\* The commit, whole or cut short, keeps what the marker and the frontier say.
\* A whole one makes them agree.
LEMMA WrittenKeeps ==
    ASSUME NEW g \in Chars, NEW a \in Clients, Armed(a), NEW u, NEW torn \in BOOLEAN,
           SteadyIn(u), DriverOK(g, a.driver, u),
           g.ident # None => Held(g, g.ident, Active(g)),
           u["torn"] = 0 => ~torn /\ \A r \in Rooms \ {a.driver.ident}, i \in Idx : g.got[r][i] = 0,
           CleanIn(u) => Single(g),
           NEW c \in Written(g, a, TRUE, torn)
    PROVE  /\ CharOK(c, u) /\ DriverOK(c, a.driver, u)
           /\ u["torn"] = 0 => c.ident = a.driver.ident /\ Active(c) = a.driver.wm
<1> DEFINE d == a.driver
<1>1. d.ident \in Rooms /\ None \notin Rooms
  BY SessionAssumption DEF Armed, Clients, Driver
<1>2. /\ g.ident \in {None, d.ident} /\ Held(g, d.ident, d.wm)
      /\ CleanIn(u) => Unpaid(g, d.ident, d.wm)
  BY DEF DriverOK
<1>3. CASE torn
  <2>1. /\ c \in Chars /\ c.got = g.got /\ c.ident = g.ident /\ Active(c) = Active(g)
        /\ u["torn"] # 0
    BY <1>3, TornOK DEF Written
  <2>2. Held(c, d.ident, d.wm) /\ (CleanIn(u) => Unpaid(c, d.ident, d.wm) /\ Single(c))
    BY <1>2, <2>1, SameBag
  <2>3. c.ident # None => Held(c, c.ident, Active(c))
    BY <2>1, SameBag
  <2> QED
    BY <1>2, <2>1, <2>2, <2>3 DEF CharOK, DriverOK
<1>4. CASE ~torn
  <2>1. /\ c \in Chars /\ c.got = g.got /\ c.ident = d.ident /\ Active(c) = d.wm
    BY <1>2, <1>4, CommitOK DEF Written
  <2>2. Held(c, d.ident, d.wm) /\ (CleanIn(u) => Unpaid(c, d.ident, d.wm) /\ Single(c))
    BY <1>2, <2>1, SameBag
  <2>3. u["torn"] = 0 => Pure(c) /\ CleanIn(u)
    BY <2>1 DEF Pure, CleanIn
  <2> QED
    BY <1>1, <2>1, <2>2, <2>3 DEF CharOK, DriverOK
<1> QED
  BY <1>3, <1>4

\* And so does the backfill.
LEMMA BackfillKeeps ==
    ASSUME NEW l \in Chars, NEW a \in Clients, Armed(a), NEW u, SteadyIn(u),
           a.driver.ident = a.parsed, CharOK(l, u), DriverOK(l, a.driver, u),
           u["torn"] = 0 => l.ident = a.driver.ident /\ Active(l) = a.driver.wm
    PROVE  \E b \in {Backfilled(l, a)} : CharOK(b, u) /\ DriverOK(b, a.driver, u)
<1> DEFINE b == Backfilled(l, a)
           d == a.driver
<1>1. /\ d.ident \in Rooms /\ None \notin Rooms /\ d.wm \in Marks /\ d.wm \in Int /\ d.wm <= Top
      /\ a.parsed \in Rooms
  BY SessionAssumption, Numbers DEF Armed, Clients, Driver, Marks
<1>2. /\ b \in Chars /\ b.ident = l.ident /\ Active(b) = Active(l)
      /\ \A r \in Rooms : r # d.ident => b.got[r] = l.got[r]
      /\ \A i \in Idx : \/ b.got[d.ident][i] = l.got[d.ident][i]
                        \/ b.got[d.ident][i] = 1 /\ l.got[d.ident][i] = 0 /\ i < d.wm
  <2>1. PICK e \in {Backfilled(l, a)} :
          /\ e \in Chars /\ e.ident = l.ident /\ Active(e) = Active(l)
          /\ \A r \in Rooms : r # a.parsed => e.got[r] = l.got[r]
          /\ \A i \in Idx : \/ e.got[a.parsed][i] = l.got[a.parsed][i]
                            \/ e.got[a.parsed][i] = 1 /\ l.got[a.parsed][i] = 0 /\ i < d.wm
    BY <1>1, BackfilledOK, Zenon
  <2>2. e = b
    OBVIOUS
  <2> HIDE DEF b
  <2> QED
    BY <2>1, <2>2
<1> HIDE DEF b
<1>3. l.got \in [Rooms -> [Idx -> Nat]] /\ b.got \in [Rooms -> [Idx -> Nat]]
  BY <1>2 DEF Chars
<1>4. Active(l) \in Marks
  BY DEF Active, Chars
<1>5. ASSUME NEW m \in Marks, Held(l, d.ident, m)
      PROVE  Held(b, d.ident, m)
  <2>1. ASSUME NEW i \in (0 .. m - 1) \ Echo
        PROVE  b.got[d.ident][i] >= 1
    <3>1. i \in Idx /\ l.got[d.ident][i] >= 1
      BY <1>5, Numbers DEF Held, Marks
    <3> QED
      BY <1>2, <3>1
  <2> QED
    BY <2>1 DEF Held
<1>6. Held(b, d.ident, d.wm)
  BY <1>1, <1>5 DEF DriverOK
<1>7. ASSUME CleanIn(u)
      PROVE  Unpaid(b, d.ident, d.wm) /\ Single(b)
  <2>1. ASSUME NEW i \in Idx, i >= d.wm
        PROVE  b.got[d.ident][i] = 0
    <3>1. i \in Int /\ l.got[d.ident][i] = 0
      BY <1>7, <2>1, Numbers DEF DriverOK, Unpaid
    <3>2. ~(i < d.wm)
      BY <1>1, <2>1, <3>1
    <3> QED
      BY <1>2, <3>1, <3>2
  <2>2. ASSUME NEW r \in Rooms, NEW i \in Idx
        PROVE  b.got[r][i] <= 1
    <3>1. l.got[r][i] <= 1
      BY <1>7 DEF CharOK, Single
    <3>2. CASE r = d.ident
      BY <1>2, <3>1, <3>2
    <3>3. CASE r # d.ident
      BY <1>2, <3>1, <3>3
    <3> QED
      BY <3>2, <3>3
  <2> QED
    BY <2>1, <2>2 DEF Unpaid, Single
<1>8. DriverOK(b, d, u)
  BY <1>2, <1>6, <1>7 DEF DriverOK
<1>9. CharOK(b, u)
  <2>1. b.ident # None => Held(b, b.ident, Active(b))
    <3>1. SUFFICES ASSUME b.ident # None PROVE Held(b, b.ident, Active(b))
      OBVIOUS
    <3>2. b.ident = d.ident /\ l.ident = d.ident
      BY <1>2, <3>1 DEF DriverOK
    <3>3. Held(l, d.ident, Active(l))
      BY <1>1, <3>2 DEF CharOK
    <3> QED
      BY <1>2, <1>4, <1>5, <3>2, <3>3
  <2>2. ASSUME u["torn"] = 0
        PROVE  b.ident = d.ident /\ Unpaid(b, b.ident, Active(b)) /\ Pure(b)
    <3>1. b.ident = d.ident /\ Active(b) = d.wm /\ CleanIn(u) /\ l.ident = d.ident
      BY <1>2, <2>2 DEF CleanIn
    <3>2. Pure(l)
      BY <1>1, <2>2, <3>1 DEF CharOK
    <3>3. Pure(b)
      BY <1>2, <3>1, <3>2 DEF Pure
    <3> QED
      BY <1>7, <3>1, <3>3
  <2> QED
    BY <1>1, <1>7, <2>1, <2>2 DEF CharOK
<1> QED
  BY <1>8, <1>9 DEF b

\* The character after a frame that serves it has its type, and what the marker
\* and the frontier say of it holds, with the frame's torn write counted in u.
LEMMA ServedOK ==
    ASSUME TypeOK, NEW m \in Clients, Trusted(m), m.parsed \in Rooms, NEW stop \in Int,
           NEW torn \in BOOLEAN, NEW settled \in BOOLEAN,
           NEW l \in Written(Granted(live, m, stop), Advanced(m, stop), TRUE, torn),
           NEW n, n = IF settled THEN Backfilled(l, Advanced(m, stop)) ELSE l,
           NEW u, SteadyIn(u) => SteadyIn(used), CleanIn(u) => CleanIn(used),
           u["torn"] = 0 => used["torn"] = 0 /\ ~torn,
           SteadyIn(u) => /\ m.driver.ident = room /\ m.parsed = room
                          /\ CharOK(live, used) /\ DriverOK(live, m.driver, used)
    PROVE  n \in Chars /\ CharOK(n, u) /\ DriverOK(n, Advanced(m, stop).driver, u)
<1> DEFINE a == Advanced(m, stop)
           g == Granted(live, m, stop)
<1>1. Armed(m) /\ live \in Chars /\ room \in Rooms
  BY DEF Trusted, TypeOK
<1>2. /\ a \in Clients /\ Armed(a) /\ a.parsed = m.parsed
      /\ a.driver.ident = m.driver.ident /\ a.driver.wm \in Int
  <2>1. PICK b \in {Advanced(m, stop)} :
          /\ b \in Clients /\ Armed(b) /\ b.parsed = m.parsed
          /\ b.driver.ident = m.driver.ident /\ b.driver.wm \in Int
    BY <1>1, AdvancedOK, Zenon
  <2>2. b = a
    OBVIOUS
  <2> HIDE DEF a
  <2> QED
    BY <2>1, <2>2
<1>3. g \in Chars /\ g.ident = live.ident /\ Active(g) = Active(live)
  BY <1>1, GrantedOK DEF Active
<1> HIDE DEF a, g
<1>4. l \in Written(g, a, TRUE, torn) /\ n = IF settled THEN Backfilled(l, a) ELSE l
  BY DEF a, g
<1>5. l \in Chars
  BY <1>2, <1>3, <1>4, TornOK, CommitOK DEF Written
<1>6. n \in Chars
  BY <1>2, <1>4, <1>5, BackfilledOK
<1>7. CASE ~SteadyIn(u)
  BY <1>6, <1>7 DEF CharOK, DriverOK
<1>8. CASE SteadyIn(u)
  <2>1. /\ DriverOK(g, a.driver, used)
        /\ live.ident # None => Held(g, live.ident, Active(live))
        /\ used["torn"] = 0 => \A r \in Rooms \ {room}, i \in Idx : g.got[r][i] = 0
        /\ CleanIn(used) => Single(g)
    <3>1. /\ DriverOK(live, m.driver, used) /\ CharOK(live, used) /\ SteadyIn(used)
          /\ m.driver.ident = room
      BY <1>8
    <3>2. PICK x \in {Advanced(m, stop)}, y \in {Granted(live, m, stop)} :
            /\ DriverOK(y, x.driver, used)
            /\ live.ident # None => Held(y, live.ident, Active(live))
            /\ used["torn"] = 0 => \A r \in Rooms \ {room}, i \in Idx : y.got[r][i] = 0
            /\ CleanIn(used) => Single(y)
      BY <1>1, <3>1, TickOK, Zenon
    <3>3. x = a /\ y = g
      BY DEF a, g
    <3> QED
      BY <3>2, <3>3
  <2>2. DriverOK(g, a.driver, u)
    BY <1>8, <2>1 DEF DriverOK
  <2>3. /\ CharOK(l, u) /\ DriverOK(l, a.driver, u)
        /\ u["torn"] = 0 => l.ident = a.driver.ident /\ Active(l) = a.driver.wm
    <3>1. g.ident # None => Held(g, g.ident, Active(g))
      BY <1>3, <2>1
    <3>2. u["torn"] = 0 => ~torn /\ \A r \in Rooms \ {a.driver.ident}, i \in Idx : g.got[r][i] = 0
      BY <1>2, <1>8, <2>1
    <3>3. CleanIn(u) => Single(g)
      BY <2>1
    <3> QED
      BY <1>2, <1>3, <1>4, <1>8, <2>2, <3>1, <3>2, <3>3, WrittenKeeps
  <2>4. CharOK(Backfilled(l, a), u) /\ DriverOK(Backfilled(l, a), a.driver, u)
    <3>1. a.driver.ident = a.parsed
      BY <1>2, <1>8
    <3>2. \E b \in {Backfilled(l, a)} : CharOK(b, u) /\ DriverOK(b, a.driver, u)
      BY <1>2, <1>5, <1>8, <2>3, <3>1, BackfillKeeps
    <3> QED
      BY <3>2
  <2>5. n = l \/ n = Backfilled(l, a)
    BY <1>4
  <2> QED
    BY <1>6, <2>3, <2>4, <2>5 DEF a
<1> QED
  BY <1>7, <1>8

-----------------------------------------------------------------------------
(***************************************************************************)
(* The check reports, and reconcile.json.                                   *)
(***************************************************************************)
Reports == [Rooms -> SUBSET (Rooms \cup {None})]

\* Two client states that differ in the pending checks and the menu edge only.
Alike(x, m) == /\ x.parsed = m.parsed /\ x.inited = m.inited
               /\ x.refused = m.refused /\ x.driver = m.driver

\* flush_check_reports reports what is pending to the connected room, or nothing.
LEMMA FlushedOK ==
    ASSUME NEW m \in Clients, NEW rep \in Reports, NEW sent \in BOOLEAN, room \in Rooms
    PROVE  \E f \in {Flushed(m, rep, sent)} :
             /\ f.c \in Clients /\ Alike(f.c, m) /\ f.c.was = m.was
             /\ f.c.pending \subseteq m.pending
             /\ f.rep \in Reports
             /\ \A r \in Rooms : r # room => f.rep[r] = rep[r]
             /\ f.rep[room] = rep[room] \/ (f.rep[room] = m.pending /\ m.refused = "no")
<1> DEFINE none == [m EXCEPT !.pending = {}]
           told == [rep EXCEPT ![room] = m.pending]
<1>1. none \in Clients /\ Alike(none, m) /\ none.was = m.was /\ none.pending \subseteq m.pending
  BY DEF Clients, Alike
<1>2. told \in Reports /\ told[room] = m.pending /\ \A r \in Rooms : r # room => told[r] = rep[r]
  BY DEF Clients, Reports
<1>3. Alike(m, m)
  BY DEF Alike
<1> HIDE DEF none, told
<1>4. \/ Flushed(m, rep, sent) = [c |-> m, rep |-> rep]
      \/ Flushed(m, rep, sent) = [c |-> none, rep |-> rep]
      \/ Flushed(m, rep, sent) = [c |-> none, rep |-> told] /\ m.refused = "no"
  BY DEF Flushed, Accepts, none, told
<1> QED
  BY <1>1, <1>2, <1>3, <1>4

\* The detour and the poll stage the check with the save it was earned on.
LEMMA StagedOK ==
    ASSUME NEW m \in Clients, NEW l \in Chars
    PROVE  \E x \in {Staged(m, l)} :
             /\ x \in Clients /\ Alike(x, m) /\ x.was = m.was
             /\ x.pending = m.pending \cup {l.ident}
BY DEF Staged, Clients, Chars, Alike

\* The same of a flush that has a name.
LEMMA FlushedIs ==
    ASSUME room \in Rooms, NEW m, m \in Clients, NEW rep, rep \in Reports,
           NEW sent, sent \in BOOLEAN, NEW f, f = Flushed(m, rep, sent)
    PROVE  /\ f.c \in Clients /\ Alike(f.c, m)
           /\ f.c.pending \subseteq m.pending
           /\ f.rep \in Reports
           /\ \A r \in Rooms : r # room => f.rep[r] = rep[r]
           /\ f.rep[room] = rep[room] \/ (f.rep[room] = m.pending /\ m.refused = "no")
BY FlushedOK

\* The flush after the poll staged a check.
LEMMA SecondFlush ==
    ASSUME room \in Rooms, NEW m \in Clients, NEW rep \in Reports, NEW l \in Chars,
           NEW sent \in BOOLEAN, NEW f, f = Flushed(Staged(m, l), rep, sent)
    PROVE  /\ f.c \in Clients /\ Alike(f.c, m)
           /\ f.c.pending \subseteq m.pending \cup {l.ident}
           /\ f.rep \in Reports
           /\ \A r \in Rooms : r # room => f.rep[r] = rep[r]
           /\ f.rep[room] = rep[room] \/ f.rep[room] = m.pending \cup {l.ident}
<1>1. PICK x \in {Staged(m, l)} :
        x \in Clients /\ Alike(x, m) /\ x.pending = m.pending \cup {l.ident}
  BY StagedOK
<1>2. f = Flushed(x, rep, sent)
  OBVIOUS
<1>3. /\ f.c \in Clients /\ Alike(f.c, x)
      /\ f.c.pending \subseteq x.pending
      /\ f.rep \in Reports
      /\ \A r \in Rooms : r # room => f.rep[r] = rep[r]
      /\ f.rep[room] = rep[room] \/ f.rep[room] = x.pending
  BY <1>1, <1>2, FlushedIs
<1> QED
  BY <1>1, <1>3 DEF Alike

\* A frame's two flushes and its poll report only what the served save earned.
LEMMA ReportsOK ==
    ASSUME TypeOK, NEW m \in Clients, NEW sent \in BOOLEAN, NEW bl,
           NEW first, first = Flushed(m, reported, sent),
           NEW second,
           \/ second = first
           \/ /\ PollSees(first.c, bl, first.rep)
              /\ second = Flushed(Staged(first.c, live), first.rep, sent)
    PROVE  /\ second.c \in Clients /\ Alike(second.c, m) /\ second.rep \in Reports
           /\ /\ m.refused # "room_changed" => m.pending \subseteq {room, None}
              /\ m.refused = "no" => live.ident \in {room, None}
              /\ ChecksNeverLeak
              => /\ m.refused # "room_changed" => second.c.pending \subseteq {room, None}
                 /\ \A r \in Rooms : second.rep[r] \subseteq {r, None}
<1>1. reported \in Reports /\ room \in Rooms /\ live \in Chars
  BY DEF TypeOK, Reports
<1>2. /\ first.c \in Clients /\ Alike(first.c, m)
      /\ first.c.pending \subseteq m.pending /\ first.rep \in Reports
      /\ \A r \in Rooms : r # room => first.rep[r] = reported[r]
      /\ first.rep[room] = reported[room] \/ (first.rep[room] = m.pending /\ m.refused = "no")
  BY <1>1, FlushedOK
<1>3. CASE second = first
  BY <1>1, <1>2, <1>3 DEF ChecksNeverLeak
<1>4. CASE /\ PollSees(first.c, bl, first.rep)
           /\ second = Flushed(Staged(first.c, live), first.rep, sent)
  <2>1. PICK c, rep : c = first.c /\ rep = first.rep
    OBVIOUS
  <2>2. /\ second.c \in Clients /\ Alike(second.c, first.c)
        /\ second.c.pending \subseteq first.c.pending \cup {live.ident}
        /\ second.rep \in Reports
        /\ \A r \in Rooms : r # room => second.rep[r] = first.rep[r]
        /\ \/ second.rep[room] = first.rep[room]
           \/ second.rep[room] = first.c.pending \cup {live.ident}
    <3>1. second = Flushed(Staged(c, live), rep, sent) /\ c \in Clients /\ rep \in Reports
      BY <1>2, <1>4, <2>1
    <3>2. /\ second.c \in Clients /\ Alike(second.c, c)
          /\ second.c.pending \subseteq c.pending \cup {live.ident}
          /\ second.rep \in Reports
          /\ \A r \in Rooms : r # room => second.rep[r] = rep[r]
          /\ \/ second.rep[room] = rep[room]
             \/ second.rep[room] = c.pending \cup {live.ident}
      BY <1>1, <3>1, SecondFlush
    <3> QED
      BY <2>1, <3>2
  <2>3. m.refused = "no"
    BY <1>2, <1>4 DEF PollSees, Accepts, Alike
  <2>4. Alike(second.c, m)
    BY <1>2, <2>2 DEF Alike
  <2>5. ASSUME m.pending \subseteq {room, None}, live.ident \in {room, None}, ChecksNeverLeak
        PROVE  /\ second.c.pending \subseteq {room, None}
               /\ \A r \in Rooms : second.rep[r] \subseteq {r, None}
    <3>1. /\ first.c.pending \cup {live.ident} \subseteq {room, None}
          /\ first.rep[room] \subseteq {room, None}
      BY <1>1, <1>2, <2>5 DEF ChecksNeverLeak
    <3>2. ASSUME NEW r \in Rooms PROVE second.rep[r] \subseteq {r, None}
      <4>1. CASE r = room
        BY <2>2, <3>1, <4>1
      <4>2. CASE r # room
        BY <1>2, <2>2, <2>5, <4>2 DEF ChecksNeverLeak
      <4> QED
        BY <4>1, <4>2
    <3> QED
      BY <2>2, <3>1, <3>2
  <2> QED
    BY <2>2, <2>3, <2>4, <2>5
<1> QED
  BY <1>3, <1>4

\* What reconcile.json can hold.
Stores == [Keys -> [wm : Marks, play : 0 .. MaxPlay] \cup {None}]

\* A stamp is a play time.
LEMMA StampOK ==
    ASSUME TypeOK, NEW entry \in [wm : Marks, play : 0 .. MaxPlay] \cup {None}, NEW fresh
    PROVE  StampPlaytime(entry, live.play, fresh) \in 0 .. MaxPlay
BY DEF StampPlaytime, TypeOK, Chars

\* Both writes of a frame to reconcile.json keep its type: the tick's,
LEMMA TickStoreOK ==
    ASSUME TypeOK, NEW s \in Stores, NEW a \in Clients, a.parsed \in Rooms
    PROVE  StoreAfterTick(s, a) \in Stores
<1> DEFINE k == Key(a, a.driver.slot)
           v == [wm |-> a.driver.wm, play |-> StampPlaytime(s[k], live.play, FALSE)]
<1>1. StoreAfterTick(s, a) = IF ~Ticks(a) THEN s ELSE [s EXCEPT ![k] = v]
  BY DEF StoreAfterTick
<1>2. CASE Ticks(a)
  <2>1. a.driver.wm \in Marks /\ a.driver.slot \in Slots
    BY <1>2 DEF Ticks, Armed, Clients, Driver
  <2>2. k \in Keys
    BY <2>1 DEF Key, Keys
  <2>3. s[k] \in [wm : Marks, play : 0 .. MaxPlay] \cup {None}
    BY <2>2 DEF Stores
  <2>4. v \in [wm : Marks, play : 0 .. MaxPlay]
    BY <2>1, <2>3, StampOK
  <2> HIDE DEF k, v
  <2> QED
    BY <1>1, <1>2, <2>2, <2>4 DEF Stores
<1>3. CASE ~Ticks(a)
  BY <1>1, <1>3
<1> QED
  BY <1>2, <1>3

\* and the init's before it.
LEMMA StoreOK ==
    ASSUME TypeOK, InWorld, NEW p \in Clients, NEW q \in Clients, q.parsed \in Rooms,
           NEW a \in Clients, a.parsed \in Rooms
    PROVE  StoreAfterTick(StoreAtInit(p, q), a) \in Stores
<1>1. store \in Stores /\ at \in Slots
  BY DEF TypeOK, Stores, InWorld
<1>2. StoreAtInit(p, q) \in Stores
  <2> DEFINE k == Key(q, at)
             f == live.ident = None /\ ~SeedTrust(store[k], live.play)
             v == [wm |-> q.driver.wm, play |-> StampPlaytime(store[k], live.play, f)]
  <2>1. StoreAtInit(p, q) = IF Armed(q) /\ ~Armed(p) THEN [store EXCEPT ![k] = v] ELSE store
    BY DEF StoreAtInit
  <2>2. k \in Keys
    BY <1>1 DEF Key, Keys
  <2>3. store[k] \in [wm : Marks, play : 0 .. MaxPlay] \cup {None}
    BY <1>1, <2>2 DEF Stores
  <2>4. StampPlaytime(store[k], live.play, f) \in 0 .. MaxPlay
    BY <2>3, StampOK
  <2>5. Armed(q) => q.driver.wm \in Marks
    BY DEF Armed, Clients, Driver
  <2>6. Armed(q) => v \in [wm : Marks, play : 0 .. MaxPlay]
    BY <2>4, <2>5
  <2> HIDE DEF k, v
  <2> QED
    BY <1>1, <2>1, <2>2, <2>6 DEF Stores
<1> QED
  BY <1>2, TickStoreOK

-----------------------------------------------------------------------------
(***************************************************************************)
(* What has happened only grows.                                            *)
(***************************************************************************)
Later(u, v) == \A e \in Events : v[e] = 0 => u[e] = 0

\* What the invariant's parts say of a history they say of a longer one.
LEMMA LaterOK ==
    ASSUME NEW u, NEW v, Later(u, v)
    PROVE  /\ SteadyIn(v) => SteadyIn(u)
           /\ CleanIn(v) => CleanIn(u)
           /\ v["torn"] = 0 => u["torn"] = 0
           /\ v["crash"] = 0 => u["crash"] = 0
           /\ v["refusedpickup"] = 0 => u["refusedpickup"] = 0
           /\ \A c : CharOK(c, u) => CharOK(c, v)
           /\ \A c, d : DriverOK(c, d, u) => DriverOK(c, d, v)
           /\ \A m : PendingOK(m, u) => PendingOK(m, v)
           /\ \A m : RoomOK(m, u) => RoomOK(m, v)
<1>1. /\ SteadyIn(v) => SteadyIn(u)
      /\ CleanIn(v) => CleanIn(u)
      /\ v["torn"] = 0 => u["torn"] = 0
      /\ v["crash"] = 0 => u["crash"] = 0
      /\ v["refusedpickup"] = 0 => u["refusedpickup"] = 0
  BY DEF Later, Events, SteadyIn, CleanIn
<1>2. \A c : CharOK(c, u) => CharOK(c, v)
  BY <1>1 DEF CharOK
<1>3. \A c, d : DriverOK(c, d, u) => DriverOK(c, d, v)
  BY <1>1 DEF DriverOK
<1>4. \A m : PendingOK(m, u) => PendingOK(m, v)
  BY <1>1 DEF PendingOK
<1>5. \A m : RoomOK(m, u) => RoomOK(m, v)
  BY <1>1 DEF RoomOK
<1> QED
  BY <1>1, <1>2, <1>3, <1>4, <1>5

\* An event that happens is counted.
LEMMA SpendOK ==
    ASSUME used \in [Events -> Nat], NEW f \in Events, Spend(f)
    PROVE  used' \in [Events -> Nat] /\ Later(used, used') /\ used'[f] # 0
BY DEF Spend, Later

\* A step that is no counted event.
LEMMA SameUsed ==
    ASSUME used' = used
    PROVE  Later(used, used')
BY DEF Later

-----------------------------------------------------------------------------
(***************************************************************************)
(* The frames.                                                              *)
(***************************************************************************)
\* What the ledger desires are indices.
LEMMA LedgerInt ==
    ASSUME TypeOK
    PROVE  Ledger \subseteq Int
<1>1. received[room] \in Int
  BY Numbers DEF TypeOK
<1>2. 0 .. received[room] - 1 \subseteq Int
  BY <1>1
<1> QED
  BY <1>2, Numbers DEF Ledger

\* A frame in the world keeps the invariant.
LEMMA WorldFrameStep ==
    ASSUME IInv, NEW torn \in BOOLEAN, NEW sent \in BOOLEAN, NEW poll \in BOOLEAN,
           NEW settled \in BOOLEAN, NEW whole \in BOOLEAN,
           WorldFrame(whole, torn, sent, poll, settled)
    PROVE  IInv'
<1> DEFINE p == SeedChecked(client)
           q == Inited(p)
           serve == Serving(q)
           bl == IF poll THEN Captured(p) ELSE baseline
<1>1. TypeOK /\ ClientOK(client) /\ InWorld /\ UNCHANGED <<room, received, at, saved>>
  BY DEF IInv, WorldFrame
<1>2. /\ p \in Clients /\ ClientOK(p)
      /\ p.parsed \in Rooms /\ p.parsed = room
      /\ Armed(p) <=> Armed(client)
      /\ Armed(p) => p.driver.slot = client.driver.slot
      /\ Trusted(p) => Trusted(client) /\ p.driver = client.driver
      /\ RoomOK(p, used) /\ PendingOK(p, used)
  BY <1>1, SeedCheckedOK DEF IInv
<1>3. Trusted(p) => DriverOK(live, p.driver, used)
  BY <1>1, <1>2 DEF IInv, DriverInv, Current
<1> HIDE DEF p
<1>4. /\ q \in Clients /\ ClientOK(q) /\ q.inited
      /\ q.parsed = p.parsed /\ q.pending = p.pending
      /\ q.refused = "room_changed" <=> p.refused = "room_changed"
      /\ Armed(p) => q.driver = p.driver
      /\ SteadyIn(used) /\ Armed(q) => q.driver.slot = at
      /\ Trusted(q) => DriverOK(live, q.driver, used)
      /\ RoomOK(q, used)
  <2>1. CharOK(live, used) /\ FreshInv /\ SlotInv
    BY DEF IInv, CharsInv
  <2> QED
    BY <1>1, <1>2, <1>3, <2>1, InitedOK
<1>5. serve <=> Trusted(q)
  BY <1>1 DEF Serving, Ticks, Trusted
<1>6. /\ used' \in [Events -> Nat] /\ Later(used, used')
      /\ torn => used'["torn"] # 0
  <2>1. CASE torn
    <3>1. Spend("torn")
      BY <2>1 DEF WorldFrame
    <3> QED
      BY <1>1, <3>1, SpendOK DEF TypeOK, Events
  <2>2. CASE ~torn
    BY <1>1, <2>2, SameUsed DEF WorldFrame, TypeOK
  <2> QED
    BY <2>1, <2>2
<1>7. PICK stop \in (IF serve /\ ~whole THEN Stops(q) ELSE {Top}) :
        \E a \in {IF serve THEN Advanced(q, stop) ELSE q} :
        \E bag \in {IF serve THEN Granted(live, q, stop) ELSE live} :
        \E first \in {Flushed(a, reported, sent)} :
        \E second \in {IF poll /\ PollSees(first.c, bl, first.rep)
                       THEN Flushed(Staged(first.c, live), first.rep, sent) ELSE first} :
          /\ client' = [second.c EXCEPT !.was = TRUE]
          /\ reported' = second.rep
          /\ store' = StoreAfterTick(StoreAtInit(p, q), a)
          /\ \E l \in Written(bag, a, serve, torn) :
               live' = IF settled THEN Backfilled(l, a) ELSE l
  BY DEF WorldFrame, p
<1>8. baseline' = bl /\ (settled => serve)
  BY DEF WorldFrame, p
<1>9. stop \in Int
  <2>1. CASE serve
    <3>1. q.driver.wm \in Int
      BY <1>4, <1>5, <2>1, Numbers DEF Trusted, Armed, Clients, Driver
    <3>2. Ledger \subseteq Int
      BY <1>1, LedgerInt
    <3> QED
      BY <1>7, <3>1, <3>2, Numbers DEF Stops, Owed
  <2>2. CASE ~serve
    BY <1>7, <2>2, Numbers
  <2> QED
    BY <2>1, <2>2
<1>10a. PICK a \in {IF serve THEN Advanced(q, stop) ELSE q},
             bag \in {IF serve THEN Granted(live, q, stop) ELSE live} :
        \E first \in {Flushed(a, reported, sent)} :
        \E second \in {IF poll /\ PollSees(first.c, bl, first.rep)
                       THEN Flushed(Staged(first.c, live), first.rep, sent) ELSE first} :
          /\ client' = [second.c EXCEPT !.was = TRUE]
          /\ reported' = second.rep
          /\ store' = StoreAfterTick(StoreAtInit(p, q), a)
          /\ \E l \in Written(bag, a, serve, torn) :
               live' = IF settled THEN Backfilled(l, a) ELSE l
  BY <1>7
<1>10b. PICK first \in {Flushed(a, reported, sent)} :
        \E second \in {IF poll /\ PollSees(first.c, bl, first.rep)
                       THEN Flushed(Staged(first.c, live), first.rep, sent) ELSE first} :
          /\ client' = [second.c EXCEPT !.was = TRUE]
          /\ reported' = second.rep
          /\ store' = StoreAfterTick(StoreAtInit(p, q), a)
          /\ \E l \in Written(bag, a, serve, torn) :
               live' = IF settled THEN Backfilled(l, a) ELSE l
  BY <1>10a
<1>10. PICK second \in {IF poll /\ PollSees(first.c, bl, first.rep)
                        THEN Flushed(Staged(first.c, live), first.rep, sent) ELSE first} :
          /\ client' = [second.c EXCEPT !.was = TRUE]
          /\ reported' = second.rep
          /\ store' = StoreAfterTick(StoreAtInit(p, q), a)
          /\ \E l \in Written(bag, a, serve, torn) :
               live' = IF settled THEN Backfilled(l, a) ELSE l
  BY <1>10b
<1> HIDE DEF q, bl
<1>11. /\ a \in Clients /\ a.parsed = p.parsed /\ a.inited /\ a.refused = q.refused
       /\ a.pending = p.pending
       /\ Armed(a) <=> Armed(q)
       /\ Armed(a) => a.driver.ident = q.driver.ident /\ a.driver.slot = q.driver.slot
  <2>1. CASE serve
    BY <1>1, <1>4, <1>5, <1>9, <2>1, AdvancedOK DEF Trusted
  <2>2. CASE ~serve
    BY <1>4, <2>2
  <2> QED
    BY <2>1, <2>2
<1>12. ClientOK(a)
  <2>1. Trusted(a) <=> Trusted(q)
    BY <1>11 DEF Trusted
  <2> QED
    BY <1>2, <1>4, <1>11, <2>1, SessionAssumption DEF ClientOK, Trusted
<1>13. /\ live' \in Chars
       /\ serve => CharOK(live', used') /\ DriverOK(live', a.driver, used')
       /\ ~serve => live' = live
  <2>1. CASE serve
    <3>1. PICK l \in Written(Granted(live, q, stop), Advanced(q, stop), TRUE, torn) :
            live' = IF settled THEN Backfilled(l, Advanced(q, stop)) ELSE l
      BY <1>10, <2>1
    <3>2. /\ SteadyIn(used') => SteadyIn(used)
          /\ CleanIn(used') => CleanIn(used)
          /\ used'["torn"] = 0 => used["torn"] = 0 /\ ~torn
      BY <1>6, LaterOK
    <3>3. q.parsed \in Rooms /\ Trusted(q)
      BY <1>2, <1>4, <1>5, <2>1
    <3>4. SteadyIn(used') => /\ q.driver.ident = room /\ q.parsed = room
                             /\ CharOK(live, used) /\ DriverOK(live, q.driver, used)
      BY <1>2, <1>4, <3>2, <3>3 DEF IInv, CharsInv, RoomOK
    <3>5. /\ live' \in Chars /\ CharOK(live', used')
          /\ DriverOK(live', Advanced(q, stop).driver, used')
      BY <1>1, <1>4, <1>9, <3>1, <3>2, <3>3, <3>4, ServedOK
    <3> QED
      BY <2>1, <3>5
  <2>2. CASE ~serve
    BY <1>1, <1>8, <1>10, <2>2 DEF Written, TypeOK
  <2> QED
    BY <2>1, <2>2
<1>14. /\ second.c \in Clients /\ Alike(second.c, a) /\ second.rep \in Reports
       /\ /\ a.refused # "room_changed" => a.pending \subseteq {room, None}
          /\ a.refused = "no" => live.ident \in {room, None}
          /\ ChecksNeverLeak
          => /\ a.refused # "room_changed" => second.c.pending \subseteq {room, None}
             /\ \A r \in Rooms : second.rep[r] \subseteq {r, None}
  <2>1. a \in Clients /\ TypeOK
    BY <1>1, <1>11
  <2>2. first = Flushed(a, reported, sent)
    OBVIOUS
  <2>3. \/ second = first
        \/ /\ PollSees(first.c, bl, first.rep)
           /\ second = Flushed(Staged(first.c, live), first.rep, sent)
    OBVIOUS
  <2> QED
    BY <2>1, <2>2, <2>3, ReportsOK
<1>15. store' \in Stores
  BY <1>1, <1>2, <1>4, <1>10, <1>11, StoreOK
<1>16. baseline' \in [Rooms -> [flag : BOOLEAN, of : Rooms \cup {None}] \cup {None}]
  BY <1>1, <1>2, <1>8 DEF bl, Captured, TypeOK, Chars
<1> HIDE DEF serve
<1>17. /\ client' \in Clients /\ Alike(client', a) /\ client'.pending = second.c.pending
  BY <1>10, <1>14 DEF Clients, Alike
<1>18. TypeOK'
  BY <1>1, <1>6, <1>10, <1>13, <1>14, <1>15, <1>16, <1>17 DEF TypeOK, Clients, Stores, Reports
<1>19. /\ Armed(client') <=> Armed(a)
       /\ Trusted(client') <=> Trusted(a)
       /\ client'.parsed = p.parsed /\ client'.driver = a.driver /\ client'.refused = a.refused
  BY <1>11, <1>17 DEF Alike, Armed, Trusted
<1>20. ClientOK(client)'
  BY <1>2, <1>12, <1>17, <1>19, SessionAssumption DEF ClientOK, Alike
<1>21. SteadyIn(used') => SteadyIn(used) /\ p.parsed = room
  BY <1>2, <1>6, LaterOK
<1>22. RoomOK(client, used)'
  <2>1. Trusted(client') => Trusted(q) /\ client'.driver.ident = q.driver.ident
    BY <1>11, <1>19 DEF Trusted
  <2>2. SteadyIn(used) /\ Trusted(q) => q.driver.ident = q.parsed
    BY <1>4 DEF RoomOK
  <2> QED
    BY <1>1, <1>4, <1>19, <1>21, <2>1, <2>2 DEF RoomOK
<1>23. SlotInv'
  BY <1>1, <1>4, <1>11, <1>19, <1>21 DEF SlotInv, InWorld
<1>24. Trusted(a) <=> serve
  BY <1>5, <1>11 DEF Trusted
<1>25. CharsInv'
  <2>1. CharOK(live', used')
    BY <1>6, <1>13, LaterOK DEF IInv, CharsInv
  <2>2. \A s \in Slots : CharOK(saved[s], used')
    BY <1>6, LaterOK DEF IInv, CharsInv
  <2> QED
    BY <1>1, <2>1, <2>2 DEF CharsInv
<1>26. DriverInv'
  BY <1>1, <1>13, <1>19, <1>24 DEF DriverInv, Current, InWorld
<1>27. FreshInv'
  <2>1. SUFFICES ASSUME SteadyIn(used'), used'["crash"] = 0, ~Armed(client')
        PROVE  /\ live'.ident = None /\ Empty(live')
               /\ \A s \in Slots : saved[s].ident = None /\ Empty(saved[s])
    BY <1>1 DEF FreshInv
  <2>2. ~Armed(client) /\ ~serve
    BY <1>2, <1>4, <1>11, <1>19, <1>24, <2>1 DEF Armed, Trusted
  <2>3. used["crash"] = 0
    BY <1>6, <2>1, LaterOK
  <2> QED
    BY <1>13, <1>21, <2>1, <2>2, <2>3 DEF IInv, FreshInv
<1>28. PendingOK(client, used)' /\ ChecksStayHome'
  <2>1. SUFFICES ASSUME SteadyIn(used'), used'["refusedpickup"] = 0
        PROVE  /\ client'.refused # "room_changed" => client'.pending \subseteq {client'.parsed, None}
               /\ \A r \in Rooms : reported'[r] \subseteq {r, None}
    BY DEF PendingOK, ChecksStayHome, ChecksNeverLeak, SteadyIn, Steady
  <2>2. SteadyIn(used) /\ used["refusedpickup"] = 0 /\ p.parsed = room
    BY <1>6, <1>21, <2>1, LaterOK
  <2>3. a.refused # "room_changed" => a.pending \subseteq {room, None}
    BY <1>2, <1>4, <1>11, <2>2 DEF PendingOK
  <2>4. a.refused = "no" => live.ident \in {room, None}
    <3>1. SUFFICES ASSUME a.refused = "no" PROVE live.ident \in {room, None}
      OBVIOUS
    <3>2. Trusted(q)
      BY <1>4, <1>11, <3>1 DEF ClientOK, Trusted
    <3> QED
      BY <1>4, <2>2, <3>2 DEF DriverOK, RoomOK
  <2>5. ChecksNeverLeak
    BY <2>2 DEF IInv, ChecksStayHome, SteadyIn, Steady
  <2> QED
    BY <1>10, <1>14, <1>17, <1>19, <2>2, <2>3, <2>4, <2>5
<1> QED
  BY <1>18, <1>20, <1>22, <1>23, <1>25, <1>26, <1>27, <1>28 DEF IInv

\* A frame in the menu keeps the invariant.
LEMMA MenuFrameStep ==
    ASSUME IInv, NEW sent \in BOOLEAN, MenuFrame(sent)
    PROVE  IInv'
<1>1. /\ TypeOK /\ ClientOK(client) /\ ~InWorld
      /\ UNCHANGED <<room, received, at, live, saved, baseline, used>>
  BY DEF IInv, MenuFrame
<1>2. PICK p \in {SeedChecked(client)} :
        /\ p \in Clients /\ ClientOK(p)
        /\ p.parsed \in Rooms /\ p.parsed = room
        /\ Armed(p) <=> Armed(client)
        /\ Trusted(p) => Trusted(client) /\ p.driver = client.driver
        /\ RoomOK(p, used) /\ PendingOK(p, used)
  BY <1>1, SeedCheckedOK DEF IInv
<1>3. PICK f \in {Flushed(p, reported, sent)} :
        client' = [f.c EXCEPT !.was = FALSE,
                     !.refused = IF client.was /\ f.c.refused = "wrong_save" /\ ~Armed(f.c)
                                 THEN "no" ELSE @,
                     !.inited = @ /\ ~(client.was /\ f.c.refused = "wrong_save" /\ ~Armed(f.c))]
        /\ reported' = f.rep
  BY DEF MenuFrame
<1>4. /\ f.c \in Clients /\ Alike(f.c, p)
      /\ f.c.pending \subseteq p.pending
      /\ f.rep \in Reports
      /\ \A r \in Rooms : r # room => f.rep[r] = reported[r]
      /\ f.rep[room] = reported[room] \/ (f.rep[room] = p.pending /\ p.refused = "no")
  <2>1. f = Flushed(p, reported, sent) /\ reported \in Reports /\ room \in Rooms
    BY <1>1 DEF TypeOK, Reports
  <2> QED
    BY <1>2, <2>1, FlushedIs
<1>5. /\ client' \in Clients /\ client'.parsed = p.parsed /\ client'.driver = p.driver
      /\ client'.pending = f.c.pending
      /\ \/ client'.refused = p.refused /\ client'.inited = p.inited
         \/ /\ client'.refused = "no" /\ client'.inited = FALSE
            /\ p.refused = "wrong_save" /\ ~Armed(p)
  <2>1. CASE client.was /\ f.c.refused = "wrong_save" /\ ~Armed(f.c)
    BY <1>3, <1>4, <2>1 DEF Clients, Alike, Armed
  <2>2. CASE ~(client.was /\ f.c.refused = "wrong_save" /\ ~Armed(f.c))
    BY <1>3, <1>4, <2>2 DEF Clients, Alike, Armed
  <2> QED
    BY <2>1, <2>2
<1>6. TypeOK'
  <2>1. store \in Stores /\ store' = StoreAfterTick(store, p)
    BY <1>1 DEF MenuFrame, TypeOK, Stores
  <2>2. store' \in Stores
    BY <1>1, <1>2, <2>1, TickStoreOK
  <2> QED
    BY <1>1, <1>3, <1>4, <1>5, <2>2 DEF TypeOK, Clients, Reports, Stores
<1>7. /\ Armed(client') <=> Armed(client)
      /\ Trusted(client') => Trusted(p) /\ Trusted(client) /\ client'.driver = client.driver
  BY <1>2, <1>5 DEF Armed, Trusted
<1>8. ClientOK(client)'
  <2>1. client'.parsed # None
    BY <1>2, <1>5, SessionAssumption
  <2>2. Armed(client') <=> Armed(p)
    BY <1>2, <1>7
  <2> QED
    BY <1>2, <1>5, <1>7, <2>1, <2>2 DEF ClientOK, Trusted
<1>9. RoomOK(client, used)'
  BY <1>1, <1>2, <1>5, <1>7 DEF RoomOK
<1>10. SlotInv' /\ CharsInv'
  BY <1>1 DEF IInv, SlotInv, CharsInv, InWorld
<1>11. DriverInv' /\ FreshInv'
  BY <1>1, <1>7 DEF IInv, DriverInv, FreshInv, Current, InWorld
<1>12. PendingOK(client, used)' /\ ChecksStayHome'
  <2>1. SUFFICES ASSUME SteadyIn(used), used["refusedpickup"] = 0
        PROVE  /\ client'.refused # "room_changed" => client'.pending \subseteq {client'.parsed, None}
               /\ \A r \in Rooms : reported'[r] \subseteq {r, None}
    BY <1>1 DEF PendingOK, ChecksStayHome, ChecksNeverLeak, SteadyIn, Steady
  <2>2. p.parsed = room /\ (p.refused # "room_changed" => p.pending \subseteq {room, None})
    BY <1>2, <2>1 DEF PendingOK
  <2>3. \A r \in Rooms : reported[r] \subseteq {r, None}
    BY <2>1 DEF IInv, ChecksStayHome, ChecksNeverLeak, SteadyIn, Steady
  <2>4. client'.refused # "room_changed" => client'.pending \subseteq {client'.parsed, None}
    BY <1>4, <1>5, <2>2
  <2>5. ASSUME NEW r \in Rooms PROVE reported'[r] \subseteq {r, None}
    BY <1>3, <1>4, <2>2, <2>3
  <2> QED
    BY <2>4, <2>5
<1> QED
  BY <1>6, <1>8, <1>9, <1>10, <1>11, <1>12 DEF IInv

-----------------------------------------------------------------------------
(***************************************************************************)
(* The room, the player and the game.                                       *)
(***************************************************************************)
\* An item for this slot is found: only the length of a stream grows.
LEMMA ReceiveStep ==
    ASSUME IInv, NEW r \in Rooms, Receive(r)
    PROVE  IInv'
<1>1. /\ received' = [received EXCEPT ![r] = @ + 1] /\ received[r] < Stream[r]
      /\ UNCHANGED <<room, client, at, live, saved, store, baseline, reported, used>>
  BY DEF Receive
<1>2. received' \in [Rooms -> 0 .. Top]
  <2>1. received \in [Rooms -> 0 .. Top] /\ Top \in Nat /\ Stream[r] \in Nat /\ Stream[r] <= Top
    BY Numbers DEF IInv, TypeOK
  <2> QED
    BY <1>1, <2>1
<1>3. TypeOK'
  BY <1>1, <1>2 DEF IInv, TypeOK
<1> QED
  BY <1>1, <1>3 DEF IInv, ClientOK, RoomOK, SlotInv, CharsInv, DriverInv, FreshInv, PendingOK,
     ChecksStayHome, ChecksNeverLeak, Current, InWorld, Armed, Trusted, Steady, SteadyIn

\* A reconnect: the guard of the next frame sees every room but another AP slot
\* of the seed that is parsed, and that one is counted.
LEMMA ReconnectStep ==
    ASSUME IInv, NEW r \in Rooms, Reconnect(r)
    PROVE  IInv'
<1>1. /\ room' = r
      /\ UNCHANGED <<received, client, at, live, saved, store, baseline, reported>>
      /\ Spend(IF Reslots(r) THEN "reslot" ELSE "rejoin")
  BY DEF Reconnect
<1>2. /\ used' \in [Events -> Nat] /\ Later(used, used')
      /\ Reslots(r) => used'["reslot"] # 0
  <2>1. CASE Reslots(r)
    BY <1>1, <2>1, SpendOK DEF Events, IInv, TypeOK
  <2>2. CASE ~Reslots(r)
    BY <1>1, <2>2, SpendOK DEF Events, IInv, TypeOK
  <2> QED
    BY <2>1, <2>2
<1>3. TypeOK'
  BY <1>1, <1>2 DEF IInv, TypeOK
<1>4. ClientOK(client)'
  BY <1>1 DEF IInv, ClientOK, Armed, Trusted
<1>5. RoomOK(client, used)'
  <2>1. SUFFICES ASSUME SteadyIn(used')
        PROVE  /\ client.parsed # None /\ SeedOf[client.parsed] = SeedOf[r] => client.parsed = r
               /\ Trusted(client) => client.driver.ident = client.parsed
    BY <1>1 DEF RoomOK, Trusted, Armed
  <2>2. SteadyIn(used) /\ ~Reslots(r)
    BY <1>2, <2>1, LaterOK DEF SteadyIn
  <2> QED
    BY <2>2 DEF IInv, RoomOK, Reslots
<1>6. SlotInv' /\ FreshInv'
  BY <1>1, <1>2, LaterOK DEF IInv, SlotInv, FreshInv, InWorld, Armed
<1>7. CharsInv'
  BY <1>1, <1>2, LaterOK DEF IInv, CharsInv
<1>8. DriverInv'
  <2>1. Current' = Current
    BY <1>1 DEF Current, InWorld
  <2> QED
    BY <1>1, <1>2, <2>1, LaterOK DEF IInv, DriverInv, Trusted, Armed
<1>9. PendingOK(client, used)'
  BY <1>1, <1>2, LaterOK DEF IInv
<1>10. ChecksStayHome'
  BY <1>1, <1>2, LaterOK DEF IInv, ChecksStayHome, ChecksNeverLeak, Steady, SteadyIn
<1> QED
  BY <1>3, <1>4, <1>5, <1>6, <1>7, <1>8, <1>9, <1>10 DEF IInv

\* A save is loaded: the armed driver's own, or the switch is counted.
LEMMA LoadStep ==
    ASSUME IInv, NEW s \in Slots, Load(s)
    PROVE  IInv'
<1>1. /\ at' = s /\ live' = saved[s] /\ ~InWorld
      /\ UNCHANGED <<room, received, client, saved, store, baseline, reported>>
      /\ IF Armed(client) /\ client.driver.slot # s THEN Spend("switch") ELSE UNCHANGED used
  BY DEF Load
<1>2. /\ used' \in [Events -> Nat] /\ Later(used, used')
      /\ Armed(client) /\ client.driver.slot # s => used'["switch"] # 0
  <2>1. CASE Armed(client) /\ client.driver.slot # s
    BY <1>1, <2>1, SpendOK DEF Events, IInv, TypeOK
  <2>2. CASE ~(Armed(client) /\ client.driver.slot # s)
    BY <1>1, <2>2, SameUsed DEF IInv, TypeOK
  <2> QED
    BY <2>1, <2>2
<1>3. InWorld'
  BY <1>1, SessionAssumption DEF InWorld
<1>4. TypeOK'
  BY <1>1, <1>2 DEF IInv, TypeOK
<1>5. ClientOK(client)'
  BY <1>1 DEF IInv, ClientOK, Armed, Trusted
<1>6. RoomOK(client, used)'
  BY <1>1, <1>2, LaterOK DEF IInv, RoomOK
<1>7. SlotInv'
  BY <1>1, <1>2 DEF SlotInv, SteadyIn, Armed
<1>8. FreshInv'
  BY <1>1, <1>2, LaterOK DEF IInv, FreshInv, Armed
<1>9. CharsInv'
  BY <1>1, <1>2, LaterOK DEF IInv, CharsInv
<1>10. DriverInv'
  <2>1. SUFFICES ASSUME Trusted(client), SteadyIn(used')
                 PROVE  DriverOK(saved[s], client.driver, used')
    BY <1>1, <1>3 DEF DriverInv, DriverOK, Current, Trusted, Armed
  <2>2. client.driver.slot = s
    BY <1>2, <2>1 DEF Trusted, SteadyIn
  <2>3. DriverOK(saved[s], client.driver, used)
    BY <1>1, <2>1, <2>2 DEF IInv, DriverInv, Current
  <2> QED
    BY <1>2, <2>3, LaterOK
<1>11. PendingOK(client, used)'
  BY <1>1, <1>2, LaterOK DEF IInv
<1>12. ChecksStayHome'
  BY <1>1, <1>2, LaterOK DEF IInv, ChecksStayHome, ChecksNeverLeak, Steady, SteadyIn
<1> QED
  BY <1>4, <1>5, <1>6, <1>7, <1>8, <1>9, <1>10, <1>11, <1>12 DEF IInv

\* A character is recreated: not the one the driver was armed for, or the switch
\* is counted.
LEMMA RecreateStep ==
    ASSUME IInv, NEW s \in Slots, Recreate(s)
    PROVE  IInv'
<1>1. /\ ~InWorld /\ saved' = [saved EXCEPT ![s] = NewChar]
      /\ UNCHANGED <<room, received, client, at, live, store, baseline, reported>>
      /\ Spend(IF Armed(client) /\ client.driver.slot = s THEN "switch" ELSE "recreate")
  BY DEF Recreate
<1>2. /\ used' \in [Events -> Nat] /\ Later(used, used')
      /\ Armed(client) /\ client.driver.slot = s => used'["switch"] # 0
  <2>1. CASE Armed(client) /\ client.driver.slot = s
    BY <1>1, <2>1, SpendOK DEF Events, IInv, TypeOK
  <2>2. CASE ~(Armed(client) /\ client.driver.slot = s)
    BY <1>1, <2>2, SpendOK DEF Events, IInv, TypeOK
  <2> QED
    BY <2>1, <2>2
<1>3. saved \in [Slots -> Chars]
  BY DEF IInv, TypeOK
<1>4. \A t \in Slots : saved'[t] = IF t = s THEN NewChar ELSE saved[t]
  BY <1>1, <1>3
<1>5. TypeOK'
  BY <1>1, <1>2, <1>3, News DEF IInv, TypeOK
<1>6. ClientOK(client)'
  BY <1>1 DEF IInv, ClientOK, Armed, Trusted
<1>7. RoomOK(client, used)'
  BY <1>1, <1>2, LaterOK DEF IInv, RoomOK
<1>8. SlotInv'
  BY <1>1 DEF SlotInv, InWorld
<1>9. FreshInv'
  BY <1>1, <1>2, <1>4, LaterOK, News DEF IInv, FreshInv, Armed
<1>10. CharsInv'
  BY <1>1, <1>2, <1>4, LaterOK, News DEF IInv, CharsInv
<1>11. DriverInv'
  <2>1. SUFFICES ASSUME Trusted(client), SteadyIn(used')
                 PROVE  DriverOK(saved'[client.driver.slot], client.driver, used')
    BY <1>1 DEF DriverInv, DriverOK, Current, Trusted, Armed, InWorld
  <2>2. client.driver.slot # s /\ client.driver.slot \in Slots
    BY <1>2, <2>1 DEF Trusted, SteadyIn, Armed, IInv, TypeOK, Driver
  <2>3. DriverOK(saved[client.driver.slot], client.driver, used)
    BY <1>1, <2>1 DEF IInv, DriverInv, Current
  <2> QED
    BY <1>2, <1>4, <2>2, <2>3, LaterOK
<1>12. PendingOK(client, used)'
  BY <1>1, <1>2, LaterOK DEF IInv
<1>13. ChecksStayHome'
  BY <1>1, <1>2, LaterOK DEF IInv, ChecksStayHome, ChecksNeverLeak, Steady, SteadyIn
<1> QED
  BY <1>5, <1>6, <1>7, <1>8, <1>9, <1>10, <1>11, <1>12, <1>13 DEF IInv

\* What only changes the disk: the character in the world is saved, and may stay
\* or leave for the menu.
LEMMA SaveStep ==
    ASSUME IInv, Save \/ Quit
    PROVE  IInv'
<1>1. /\ InWorld /\ saved' = [saved EXCEPT ![at] = live]
      /\ \/ UNCHANGED <<at, live>>
         \/ at' = None /\ live' = NewChar
      /\ UNCHANGED <<room, received, client, store, baseline, reported, used>>
  BY DEF Save, Quit
<1>2. saved \in [Slots -> Chars] /\ at \in Slots /\ live \in Chars
  BY <1>1 DEF IInv, TypeOK, InWorld
<1>3. \A t \in Slots : saved'[t] = IF t = at THEN live ELSE saved[t]
  BY <1>1, <1>2
<1>4. TypeOK'
  BY <1>1, <1>2, News DEF IInv, TypeOK
<1>5. ClientOK(client)' /\ RoomOK(client, used)'
  BY <1>1 DEF IInv, ClientOK, Armed, Trusted, RoomOK
<1>6. SlotInv'
  BY <1>1 DEF IInv, SlotInv, InWorld, Armed
<1>7. FreshInv'
  BY <1>1, <1>2, <1>3, News DEF IInv, FreshInv, Armed
<1>8. CharsInv'
  BY <1>1, <1>2, <1>3, News DEF IInv, CharsInv
<1>9. DriverInv'
  <2>1. SUFFICES ASSUME Trusted(client), SteadyIn(used)
                 PROVE  Current' = live
    BY <1>1 DEF IInv, DriverInv, DriverOK, Current, Trusted, Armed
  <2>2. at = client.driver.slot
    BY <1>1, <2>1 DEF IInv, SlotInv, Trusted
  <2> QED
    BY <1>1, <1>2, <1>3, <2>2 DEF Current, InWorld
<1>10. PendingOK(client, used)'
  BY <1>1 DEF IInv, PendingOK
<1>11. ChecksStayHome'
  BY <1>1 DEF IInv, ChecksStayHome, ChecksNeverLeak, Steady
<1> QED
  BY <1>4, <1>5, <1>6, <1>7, <1>8, <1>9, <1>10, <1>11 DEF IInv

\* Neither the location's flag nor the play time is part of what the invariant
\* says of a character.
LEMMA SameChar ==
    ASSUME NEW c, NEW g, c.ident = g.ident, c.sel = g.sel, c.cur = g.cur, c.got = g.got
    PROVE  /\ \A u : CharOK(g, u) => CharOK(c, u)
           /\ \A d, u : DriverOK(g, d, u) => DriverOK(c, d, u)
           /\ Empty(g) => Empty(c)
BY DEF CharOK, DriverOK, Active, Held, Unpaid, Pure, Empty, Single

\* What changes the flag or the play time of the character in the world, and
\* perhaps stages a check.
LEMMA PlayStep ==
    ASSUME IInv, InWorld, live' \in Chars,
           live'.ident = live.ident, live'.sel = live.sel,
           live'.cur = live.cur, live'.got = live.got,
           used' \in [Events -> Nat], Later(used, used'),
           client' \in Clients, ClientOK(client)', Alike(client', client),
           PendingOK(client, used)',
           UNCHANGED <<room, received, at, saved, store, baseline, reported>>
    PROVE  IInv'
<1>1. TypeOK'
  BY DEF IInv, TypeOK, Clients
<1>2. RoomOK(client, used)'
  BY LaterOK DEF IInv, RoomOK, Alike, Trusted, Armed
<1>3. /\ Armed(client') <=> Armed(client)
      /\ Trusted(client') <=> Trusted(client)
      /\ client'.driver = client.driver
  BY DEF Alike, Armed, Trusted
<1>4. SlotInv'
  BY <1>3, LaterOK DEF IInv, SlotInv, InWorld
<1>5. FreshInv'
  BY <1>3, LaterOK, SameChar DEF IInv, FreshInv
<1>6. CharsInv'
  <2>1. CharOK(live', used')
    BY LaterOK, SameChar DEF IInv, CharsInv
  <2> QED
    BY <2>1, LaterOK DEF IInv, CharsInv
<1>7. DriverInv'
  <2>1. SUFFICES ASSUME Trusted(client) PROVE DriverOK(live', client.driver, used')
    BY <1>3 DEF DriverInv, Current, InWorld
  <2>2. DriverOK(live, client.driver, used)
    BY <2>1 DEF IInv, DriverInv, Current
  <2> QED
    BY <2>2, LaterOK, SameChar
<1>8. ChecksStayHome'
  BY LaterOK DEF IInv, ChecksStayHome, ChecksNeverLeak, Steady, SteadyIn
<1> QED
  BY <1>1, <1>2, <1>4, <1>5, <1>6, <1>7, <1>8 DEF IInv

\* Time passes.
LEMMA PlayOnStep ==
    ASSUME IInv, PlayOn
    PROVE  IInv'
<1>1. /\ InWorld /\ live' = [live EXCEPT !.play = @ + 1] /\ live.play < MaxPlay
      /\ UNCHANGED <<room, received, client, at, saved, store, baseline, reported, used>>
  BY DEF PlayOn
<1>2. /\ live' \in Chars /\ live'.ident = live.ident /\ live'.sel = live.sel
      /\ live'.cur = live.cur /\ live'.got = live.got
  <2>1. live \in Chars
    BY DEF IInv, TypeOK
  <2>2. live.play + 1 \in 0 .. MaxPlay
    BY <1>1, <2>1, SessionAssumption DEF Chars
  <2>3. ASSUME NEW n \in 0 .. MaxPlay, live' = [live EXCEPT !.play = n]
        PROVE  /\ live' \in Chars /\ live'.ident = live.ident /\ live'.sel = live.sel
               /\ live'.cur = live.cur /\ live'.got = live.got
    BY <2>1, <2>3 DEF Chars
  <2> QED
    BY <1>1, <2>2, <2>3
<1>3. /\ client' \in Clients /\ ClientOK(client)' /\ Alike(client', client)
      /\ PendingOK(client, used)' /\ used' \in [Events -> Nat]
  BY <1>1 DEF IInv, TypeOK, Clients, ClientOK, Alike, Armed, Trusted, PendingOK
<1> QED
  BY <1>1, <1>2, <1>3, SameUsed, PlayStep

\* The location is taken: the check that is staged comes from a save of the
\* parsed room, or the pickup on a refused save is counted.
LEMMA TakeLocationStep ==
    ASSUME IInv, NEW detour \in BOOLEAN, TakeLocation(detour)
    PROVE  IInv'
<1>1. /\ InWorld /\ client.was /\ live' = [live EXCEPT !.flag = TRUE]
      /\ client' = client \/ (client' = Staged(client, live) /\ detour)
      /\ UNCHANGED <<room, received, at, saved, store, baseline, reported>>
  <2>1. client' = IF detour THEN Staged(client, live) ELSE client
    BY DEF TakeLocation
  <2>2. client' = client \/ (client' = Staged(client, live) /\ detour)
    BY <2>1
  <2> QED
    BY <2>2 DEF TakeLocation
<1>2. Spend(IF detour /\ ~Armed(client) /\ live.ident \notin {None, client.parsed}
            THEN "refusedpickup" ELSE "take")
  BY DEF TakeLocation
<1>3. /\ live' \in Chars /\ live'.ident = live.ident /\ live'.sel = live.sel
      /\ live'.cur = live.cur /\ live'.got = live.got
  BY <1>1 DEF IInv, TypeOK, Chars
<1>4. /\ used' \in [Events -> Nat] /\ Later(used, used')
      /\ detour /\ ~Armed(client) /\ live.ident \notin {None, client.parsed}
           => used'["refusedpickup"] # 0
  <2>1. CASE detour /\ ~Armed(client) /\ live.ident \notin {None, client.parsed}
    BY <1>2, <2>1, SpendOK DEF Events, IInv, TypeOK
  <2>2. CASE ~(detour /\ ~Armed(client) /\ live.ident \notin {None, client.parsed})
    BY <1>2, <2>2, SpendOK DEF Events, IInv, TypeOK
  <2> QED
    BY <2>1, <2>2
<1>5. /\ client' \in Clients /\ Alike(client', client)
      /\ \/ client'.pending = client.pending
         \/ client'.pending = client.pending \cup {live.ident} /\ detour
  <2>1. client \in Clients /\ live \in Chars
    BY DEF IInv, TypeOK, Clients
  <2>2. CASE client' = client
    BY <2>1, <2>2 DEF Alike
  <2>3. CASE client' = Staged(client, live) /\ detour
    BY <2>1, <2>3, StagedOK
  <2> QED
    BY <1>1, <2>2, <2>3
<1>6. client.parsed # None
  BY <1>1 DEF IInv, ClientOK, NewClient
<1>7. ClientOK(client)'
  <2>1. /\ Armed(client') <=> Armed(client)
        /\ Trusted(client') <=> Trusted(client)
        /\ client'.parsed # None
    BY <1>5, <1>6 DEF Alike, Armed, Trusted
  <2> QED
    BY <1>5, <2>1 DEF IInv, ClientOK, Alike
<1>8. PendingOK(client, used)'
  <2>1. SUFFICES ASSUME SteadyIn(used'), used'["refusedpickup"] = 0,
                        client.refused # "room_changed"
                 PROVE  client'.pending \subseteq {client.parsed, None}
    BY <1>5 DEF PendingOK, Alike
  <2>2. SteadyIn(used) /\ used["refusedpickup"] = 0
    BY <1>4, <2>1, LaterOK
  <2>3. client.pending \subseteq {client.parsed, None}
    BY <2>1, <2>2 DEF IInv, PendingOK
  <2>4. detour => live.ident \in {None, client.parsed}
    <3>1. CASE ~Armed(client)
      BY <1>4, <2>1, <3>1
    <3>2. CASE Armed(client)
      <4>1. Trusted(client) /\ client.driver.ident = client.parsed
        BY <2>1, <2>2, <3>2 DEF IInv, ClientOK, RoomOK, Trusted, TypeOK
      <4> QED
        BY <1>1, <2>2, <4>1 DEF IInv, DriverInv, Current, DriverOK
    <3> QED
      BY <3>1, <3>2
  <2> QED
    BY <1>5, <2>3, <2>4
<1> QED
  BY <1>1, <1>3, <1>4, <1>5, <1>7, <1>8, PlayStep

\* The process dies: the next one starts with nothing, and the saves are what
\* they were.
LEMMA CrashStep ==
    ASSUME IInv, Crash
    PROVE  IInv'
<1>1. /\ client' = NewClient /\ at' = None /\ live' = NewChar
      /\ UNCHANGED <<room, received, saved, store, baseline, reported>>
  BY DEF Crash
<1>2. used' \in [Events -> Nat] /\ Later(used, used') /\ used'["crash"] # 0
  BY SpendOK DEF Crash, Events, IInv, TypeOK
<1>3. TypeOK'
  BY <1>1, <1>2, News DEF IInv, TypeOK, Clients
<1>4. ClientOK(client)' /\ ~Armed(client')
  <2>1. ClientOK(client') /\ ~Armed(client')
    BY <1>1, News
  <2> QED
    BY <2>1
<1>5. RoomOK(client, used)'
  BY <1>1, <1>4, News DEF RoomOK, Trusted
<1>6. SlotInv' /\ DriverInv' /\ FreshInv'
  BY <1>2, <1>4 DEF SlotInv, DriverInv, FreshInv, Trusted
<1>7. CharsInv'
  BY <1>1, <1>2, LaterOK, News DEF IInv, CharsInv
<1>8. PendingOK(client, used)'
  BY <1>1, News DEF PendingOK
<1>9. ChecksStayHome'
  BY <1>1, <1>2, LaterOK DEF IInv, ChecksStayHome, ChecksNeverLeak, Steady, SteadyIn
<1> QED
  BY <1>3, <1>4, <1>5, <1>6, <1>7, <1>8, <1>9 DEF IInv

-----------------------------------------------------------------------------
(***************************************************************************)
(* The theorems.                                                            *)
(***************************************************************************)
\* A player who has just installed the client.
LEMMA InitIInv == Init => IInv
<1> SUFFICES ASSUME Init PROVE IInv
  OBVIOUS
<1>1. TypeOK
  BY SessionAssumption, News, Numbers DEF Init, TypeOK, Clients
<1>2. ClientOK(client) /\ ~Armed(client)
  BY News DEF Init
<1>3. RoomOK(client, used)
  BY <1>2, News DEF Init, RoomOK, Trusted
<1>4. CharsInv /\ FreshInv
  BY News DEF Init, CharsInv, FreshInv
<1>5. SlotInv /\ DriverInv
  BY <1>2 DEF SlotInv, DriverInv, Trusted
<1>6. PendingOK(client, used)
  BY News DEF Init, PendingOK
<1>7. ChecksStayHome
  BY DEF Init, ChecksStayHome, ChecksNeverLeak
<1> QED
  BY <1>1, <1>2, <1>3, <1>4, <1>5, <1>6, <1>7 DEF IInv

\* Every step keeps the invariant.
LEMMA NextIInv == IInv /\ [Next]_vars => IInv'
<1> SUFFICES ASSUME IInv, [Next]_vars PROVE IInv'
  OBVIOUS
<1>1. CASE Frame
  <2>1. ASSUME NEW torn \in BOOLEAN, NEW sent \in BOOLEAN, NEW poll \in BOOLEAN,
               NEW settled \in BOOLEAN, WorldFrame(FALSE, torn, sent, poll, settled)
        PROVE  IInv'
    BY <2>1, WorldFrameStep
  <2>2. ASSUME NEW sent \in BOOLEAN, MenuFrame(sent) PROVE IInv'
    BY <2>2, MenuFrameStep
  <2> QED
    BY <1>1, <2>1, <2>2 DEF Frame
<1>2. CASE \E r \in Rooms : Receive(r) \/ Reconnect(r)
  BY <1>2, ReceiveStep, ReconnectStep
<1>3. CASE \E s \in Slots : Load(s) \/ Recreate(s)
  BY <1>3, LoadStep, RecreateStep
<1>4. CASE Save \/ Quit
  BY <1>4, SaveStep
<1>5. CASE PlayOn
  BY <1>5, PlayOnStep
<1>6. CASE Crash
  BY <1>6, CrashStep
<1>7. CASE \E detour \in BOOLEAN : TakeLocation(detour)
  BY <1>7, TakeLocationStep
<1>8. CASE UNCHANGED vars
  BY <1>8 DEF vars, IInv, TypeOK, ClientOK, RoomOK, SlotInv, CharsInv, DriverInv, FreshInv,
     PendingOK, ChecksStayHome, ChecksNeverLeak, Current, InWorld, Armed, Trusted, Steady
<1> QED
  BY <1>1, <1>2, <1>3, <1>4, <1>5, <1>6, <1>7, <1>8 DEF Next

\* What the session keeps: the marker a save carries and the frontier of the
\* driver that serves it say what is in its bag, the tables are those of the
\* connected room, and what waits for a report was earned for it.
THEOREM SessionInvariant == Spec => []IInv
<1> QED
  BY InitIInv, NextIInv, PTL DEF Spec

\* The type invariant: above all, that every cursor and frontier stays within
\* the indices the rooms can send.
THEOREM SessionTyped == Spec => []TypeOK
<1>1. IInv => TypeOK
  BY DEF IInv
<1> QED
  BY <1>1, SessionInvariant, PTL

\* A ledgered grant reaches a save at most once.
THEOREM GrantedOncePerSave == Spec => []OncePerSave
<1>1. IInv => OncePerSave
  BY DEF IInv, CharsInv, CharOK, OncePerSave, Steady, SteadyIn, CleanIn, Characters, Single
<1> QED
  BY <1>1, SessionInvariant, PTL

\* Below a save's cursor, and below the frontier of the driver serving it,
\* everything received is in the bag.
THEOREM NoneSkipped == Spec => []NothingSkipped
<1>1. IInv => NothingSkipped
  <2> SUFFICES ASSUME IInv, Steady
               PROVE  /\ \A c \in Characters : c.ident # None =>
                           \A i \in (0 .. Active(c) - 1) \ Echo : c.got[c.ident][i] >= 1
                      /\ Serving(client) =>
                           \A i \in (0 .. client.driver.wm - 1) \ Echo :
                               live.got[client.driver.ident][i] >= 1
    BY DEF NothingSkipped
  <2>1. ASSUME NEW c \in Characters, c.ident # None
        PROVE  \A i \in (0 .. Active(c) - 1) \ Echo : c.got[c.ident][i] >= 1
    BY <2>1 DEF IInv, CharsInv, CharOK, Steady, SteadyIn, Characters, Held
  <2>2. ASSUME Serving(client)
        PROVE  \A i \in (0 .. client.driver.wm - 1) \ Echo :
                  live.got[client.driver.ident][i] >= 1
    BY <2>2 DEF IInv, DriverInv, DriverOK, Serving, Ticks, Trusted, Steady, SteadyIn, Current, Held
  <2> QED
    BY <2>1, <2>2
<1> QED
  BY <1>1, SessionInvariant, PTL

\* A save that carries one room's marker holds no other room's items.
THEOREM ForeignSavesUntouched == Spec => []ForeignSaveUntouched
<1>1. IInv => ForeignSaveUntouched
  BY DEF IInv, CharsInv, CharOK, ForeignSaveUntouched, Steady, SteadyIn, Characters, Pure
<1> QED
  BY <1>1, SessionInvariant, PTL

\* A room is told of a check only by a save of its own, or by one that carries
\* no marker yet.
THEOREM ChecksHome == Spec => []ChecksStayHome
<1>1. IInv => ChecksStayHome
  BY DEF IInv
<1> QED
  BY <1>1, SessionInvariant, PTL
=============================================================================
