------------------------- MODULE LocationChecksProofs -------------------------
(***************************************************************************)
(* The safety of location polling for any locations, characters, debounce   *)
(* of at least two and number of crashes, dead sockets and failed saves.    *)
(***************************************************************************)
EXTENDS LocationChecks, TLAPS

-----------------------------------------------------------------------------
(***************************************************************************)
(* The inductive invariant.                                                 *)
(***************************************************************************)
Earned(l) == \E c \in Saves : l \in flags[c]

\* One read may be torn, two in a row are not: what was read true twice was
\* earned.
StreaksAreReal == \A l \in Locations : loop.streaks[l] >= 2 => Earned(l)

\* A read that may be torn is the first of the streaks it counts in.
TornIsFirst ==
    torn => loaded # None /\ (loop.identity = loaded => loop.streaks = Quiet)

IInv == /\ TypeOK /\ StreaksAreReal /\ TornIsFirst
        /\ NoFalseCheck /\ SustainQueuedFirst /\ VictoryMeansSent

-----------------------------------------------------------------------------
(***************************************************************************)
(* What a poll counts.                                                      *)
(***************************************************************************)
LEMMA QuietTyped == Quiet \in [Locations -> 0 .. Debounce] /\ NoRetry \in [Locations -> Retries]
BY ChecksAssumption DEF Quiet, NoRetry, Retries

LEMMA ForgetTyped ==
    ASSUME NEW m \in Loops
    PROVE  /\ Forget(m) \in Loops
           /\ Forget(m).streaks = Quiet
           /\ Forget(m).identity = m.identity
BY QuietTyped DEF Forget, Loops

LEMMA NewLoopTyped ==
    ASSUME NEW v \in BOOLEAN
    PROVE  NewLoop(v) \in Loops /\ NewLoop(v).streaks = Quiet /\ NewLoop(v).identity = None
BY QuietTyped DEF NewLoop, Loops

\* Following a character keeps the type, and starts over for another one.
LEMMA FollowTyped ==
    ASSUME NEW m \in Loops, loaded \in Saves \cup {None}
    PROVE  /\ Follow(m) \in Loops
           /\ Follow(m).identity = loaded
           /\ Follow(m).streaks = m.streaks \/ Follow(m).streaks = Quiet
           /\ m.identity # loaded => Follow(m).streaks = Quiet
<1>1. CASE m.identity = loaded
  BY <1>1 DEF Follow
<1>2. CASE m.identity # loaded
  <2>1. Forget(m) \in Loops /\ Forget(m).streaks = Quiet
    BY ForgetTyped
  <2>2. Follow(m) = [Forget(m) EXCEPT !.identity = loaded]
    BY <1>2 DEF Follow
  <2> QED
    BY <1>2, <2>1, <2>2 DEF Loops
<1> QED
  BY <1>1, <1>2

\* The streak of a location grows by one with a true read, and is dropped
\* without.
LEMMA CountedStreaks ==
    ASSUME NEW m \in Loops, NEW R \in SUBSET Locations
    PROVE  /\ Counted(m, R) \in Loops
           /\ Counted(m, R).identity = m.identity
           /\ \A l \in Locations :
                /\ Counted(m, R).streaks[l] <= m.streaks[l] + 1
                /\ Counted(m, R).streaks[l] > 0 => l \in R
<1> DEFINE s == [l \in Locations |-> IF l \in Polled(m) \cap R
                                     THEN IF m.streaks[l] < Debounce THEN m.streaks[l] + 1 ELSE Debounce
                                     ELSE 0]
           r == [l \in Locations |-> IF l \in Polled(m) \cap R THEN m.retries[l] ELSE "none"]
<1>1. s \in [Locations -> 0 .. Debounce]
  BY ChecksAssumption DEF Loops
<1>2. r \in [Locations -> Retries]
  BY DEF Loops, Retries
<1>3. Counted(m, R) = [m EXCEPT !.streaks = s, !.retries = r]
  BY DEF Counted
<1>4. Counted(m, R) \in Loops /\ Counted(m, R).identity = m.identity /\ Counted(m, R).streaks = s
  BY <1>1, <1>2, <1>3 DEF Loops
<1>5. ASSUME NEW l \in Locations
      PROVE  s[l] <= m.streaks[l] + 1 /\ (s[l] > 0 => l \in R)
  BY ChecksAssumption DEF Loops
<1> QED
  BY <1>4, <1>5

\* A poll reports nothing that was not earned.
LEMMA PollCountsReal ==
    ASSUME IInv, loaded # None, NEW R \in Reads
    PROVE  LET m == Counted(Follow(loop), R)
           IN  /\ m \in Loops /\ m.identity = loaded
               /\ \A l \in Locations : m.streaks[l] >= 2 => Earned(l)
               /\ NewlyChecked(m) \in SUBSET Locations
               /\ \A l \in NewlyChecked(m) : Earned(l)
<1> DEFINE m == Counted(Follow(loop), R)
<1>1. /\ loop \in Loops /\ loaded \in Saves /\ flags \in [Saves -> SUBSET Locations]
      /\ R \in SUBSET Locations
  BY DEF IInv, TypeOK, Reads
<1>2. /\ Follow(loop) \in Loops /\ Follow(loop).identity = loaded
      /\ Follow(loop).streaks = loop.streaks \/ Follow(loop).streaks = Quiet
      /\ loop.identity # loaded => Follow(loop).streaks = Quiet
  BY <1>1, FollowTyped
<1>3. m \in Loops /\ m.identity = loaded
  BY <1>1, <1>2, CountedStreaks
<1>4. ASSUME NEW l \in Locations, m.streaks[l] >= 2
      PROVE  Earned(l)
  <2>1. m.streaks[l] <= Follow(loop).streaks[l] + 1 /\ m.streaks[l] \in Int
        /\ (m.streaks[l] > 0 => l \in R)
    BY <1>1, <1>2, <1>3, CountedStreaks DEF Loops
  <2>2. CASE torn
    <3>1. Follow(loop).streaks = Quiet
      BY <1>2, <2>2 DEF IInv, TornIsFirst
    <3> QED
      BY <1>4, <2>1, <3>1 DEF Quiet
  <2>3. CASE ~torn
    BY <1>1, <1>4, <2>1, <2>3 DEF Reads, Earned
  <2> QED
    BY <2>2, <2>3
<1>5. ASSUME NEW l \in NewlyChecked(m)
      PROVE  l \in Locations /\ Earned(l)
  <2>1. l \in Locations /\ m.streaks[l] >= Debounce /\ m.streaks[l] \in Int
    BY <1>3, <1>5 DEF NewlyChecked, Loops
  <2> QED
    BY <1>4, <2>1, ChecksAssumption
<1>6. NewlyChecked(m) \in SUBSET Locations
  BY <1>5
<1> HIDE DEF m
<1> QED
  BY <1>3, <1>4, <1>5, <1>6 DEF m

LEMMA BackoffTyped ==
    ASSUME NEW m \in Loops, NEW goal \in BOOLEAN
    PROVE  LET n == [Backoff(m) EXCEPT !.reported = @ \/ goal, !.victory = @ \/ goal]
           IN  n \in Loops /\ n.streaks = m.streaks /\ n.identity = m.identity
<1> DEFINE r == [l \in Locations |-> IF l \in NewlyChecked(m) THEN "wait" ELSE m.retries[l]]
<1>1. r \in [Locations -> Retries]
  BY DEF Loops, Retries
<1>2. Backoff(m) = [m EXCEPT !.retries = r]
  BY DEF Backoff
<1>3. /\ Backoff(m) \in Loops
      /\ Backoff(m).streaks = m.streaks /\ Backoff(m).identity = m.identity
  BY <1>1, <1>2 DEF Loops
<1> HIDE DEF r
<1>4. Backoff(m).reported \in BOOLEAN /\ Backoff(m).victory \in BOOLEAN
  BY <1>3 DEF Loops
<1>5. (Backoff(m).reported \/ goal) \in BOOLEAN /\ (Backoff(m).victory \/ goal) \in BOOLEAN
  BY <1>4
<1> QED
  BY <1>3, <1>5 DEF Loops

\* The four effects keep their order: a check is sent after its reward is
\* queued, a victory recorded after the goal status was sent.
LEMMA EffectsKeep ==
    ASSUME IInv, sock # "down", NEW m \in Loops, NEW new \in SUBSET Locations,
           NEW done \in 0 .. 4, NEW saves \in BOOLEAN,
           Effects(m, new, done, saves), UNCHANGED <<flags, room>>,
           \A l \in new : Earned(l)
    PROVE  /\ ledger' \in [sustain : SUBSET Locations, victory : BOOLEAN]
           /\ wire' \in [goal : BOOLEAN, checks : SUBSET Locations] /\ lost' \in BOOLEAN
           /\ NoFalseCheck' /\ SustainQueuedFirst' /\ VictoryMeansSent'
<1> DEFINE goal == SubmitGoal(m, new) /\ done >= 1
           won  == SubmitGoal(m, new) /\ done >= 2 /\ saves
           sus  == IF done >= 3 THEN ledger.sustain \cup (new \cap Suppressed) ELSE ledger.sustain
           out  == IF done >= 4 THEN new ELSE {}
<1>1. /\ ledger \in [sustain : SUBSET Locations, victory : BOOLEAN]
      /\ wire \in [goal : BOOLEAN, checks : SUBSET Locations] /\ lost \in BOOLEAN
      /\ sock \in {"up", "zombie"} /\ room \in Rooms
  BY DEF IInv, TypeOK
<1>2. /\ ledger' = [sustain |-> sus, victory |-> ledger.victory \/ won]
      /\ wire' = Sent(wire, goal, out)
      /\ lost' = (lost \/ (goal /\ sock = "zombie"))
  BY DEF Effects
<1>3. sus \in SUBSET Locations /\ out \in SUBSET Locations /\ out \subseteq new
      /\ ledger.sustain \subseteq sus /\ out \cap Suppressed \subseteq sus
  BY <1>1
<1>4. (won => goal) /\ (goal => Goal \in new)
  BY DEF SubmitGoal
<1> HIDE DEF goal, won, sus, out
<1>5. /\ ledger'.sustain = sus /\ ledger'.victory = (ledger.victory \/ won)
      /\ ledger' \in [sustain : SUBSET Locations, victory : BOOLEAN]
  BY <1>1, <1>2, <1>3
<1>6. /\ wire' \in [goal : BOOLEAN, checks : SUBSET Locations]
      /\ wire.checks \subseteq wire'.checks /\ wire'.checks \subseteq wire.checks \cup out
      /\ wire.goal => wire'.goal
      /\ wire'.goal => wire.goal \/ goal
      /\ goal /\ sock = "up" => wire'.goal
  <2>1. CASE sock = "up"
    <3>1. wire' = [goal |-> wire.goal \/ goal, checks |-> wire.checks \cup out]
      BY <1>2, <2>1 DEF Sent
    <3> QED
      BY <1>1, <1>3, <2>1, <3>1
  <2>2. CASE sock # "up"
    BY <1>1, <1>2, <2>2 DEF Sent
  <2> QED
    BY <2>1, <2>2
<1>7. lost' \in BOOLEAN
  BY <1>2
<1>8. \A l \in Locations : Earned(l) => Earned(l)'
  BY DEF Earned
<1>9. NoFalseCheck'
  BY <1>1, <1>3, <1>4, <1>6, <1>8 DEF IInv, NoFalseCheck, Earned, Rooms
<1>10. SustainQueuedFirst'
  BY <1>1, <1>3, <1>5, <1>6 DEF IInv, SustainQueuedFirst
<1>11. VictoryMeansSent'
  BY <1>1, <1>2, <1>4, <1>5, <1>6 DEF IInv, VictoryMeansSent
<1> QED
  BY <1>5, <1>6, <1>7, <1>9, <1>10, <1>11

-----------------------------------------------------------------------------
(***************************************************************************)
(* The invariant holds.                                                     *)
(***************************************************************************)
LEMMA InitEstablishes == Init => IInv
<1> SUFFICES ASSUME Init PROVE IInv
  OBVIOUS
<1>1. loop \in Loops /\ loop.streaks = Quiet
  BY NewLoopTyped DEF Init
<1>2. room \in Rooms /\ wire \in [goal : BOOLEAN, checks : SUBSET Locations]
      /\ ledger \in [sustain : SUBSET Locations, victory : BOOLEAN]
  BY DEF Init, Rooms, Nothing
<1>3. events \in 0 .. MaxEvents
  BY ChecksAssumption DEF Init
<1>4. TypeOK
  BY <1>1, <1>2, <1>3 DEF Init, TypeOK
<1>5. StreaksAreReal
  BY <1>1 DEF StreaksAreReal, Quiet
<1>6. TornIsFirst /\ NoFalseCheck /\ SustainQueuedFirst /\ VictoryMeansSent
  BY DEF Init, Nothing, TornIsFirst, NoFalseCheck, SustainQueuedFirst, VictoryMeansSent
<1> QED
  BY <1>4, <1>5, <1>6 DEF IInv

\* A poll that runs to its end, or is cut short by the death of the process.
LEMMA PollPreserves == IInv /\ Poll => IInv'
<1> SUFFICES ASSUME IInv, Poll PROVE IInv'
  OBVIOUS
<1>1. loaded # None /\ sock # "down" /\ torn' = FALSE /\ UNCHANGED loaded
      /\ UNCHANGED <<flags, room>>
  BY DEF Poll
<1>2. TypeOK
  BY DEF IInv
<1>3. PICK R \in Reads :
         LET m == Counted(Follow(loop), R)
             new == NewlyChecked(m)
         IN  \/ \E saves \in BOOLEAN :
                  /\ IF saves THEN UNCHANGED events ELSE SubmitGoal(m, new) /\ Happens
                  /\ Effects(m, new, 4, saves)
                  /\ loop' = [Backoff(m) EXCEPT !.reported = @ \/ SubmitGoal(m, new),
                                                !.victory = @ \/ SubmitGoal(m, new)]
                  /\ UNCHANGED <<sock, view>>
             \/ \E done \in 0 .. 3 :
                  /\ new # {} /\ Happens
                  /\ Effects(m, new, done, TRUE)
                  /\ loop' = NewLoop(ledger'.victory)
                  /\ sock' = "down" /\ UNCHANGED view
  BY DEF Poll
<1> DEFINE m == Counted(Follow(loop), R)
           new == NewlyChecked(m)
<1>4. /\ m \in Loops /\ m.identity = loaded
      /\ \A l \in Locations : m.streaks[l] >= 2 => Earned(l)
      /\ new \in SUBSET Locations
      /\ \A l \in new : Earned(l)
  BY <1>1, PollCountsReal
<1>5. \A l \in Locations : Earned(l) => Earned(l)'
  BY <1>1 DEF Earned
<1>6. CASE \E saves \in BOOLEAN :
              /\ IF saves THEN UNCHANGED events ELSE SubmitGoal(m, new) /\ Happens
              /\ Effects(m, new, 4, saves)
              /\ loop' = [Backoff(m) EXCEPT !.reported = @ \/ SubmitGoal(m, new),
                                            !.victory = @ \/ SubmitGoal(m, new)]
              /\ UNCHANGED <<sock, view>>
  <2>1. PICK saves \in BOOLEAN :
              /\ IF saves THEN UNCHANGED events ELSE SubmitGoal(m, new) /\ Happens
              /\ Effects(m, new, 4, saves)
              /\ loop' = [Backoff(m) EXCEPT !.reported = @ \/ SubmitGoal(m, new),
                                            !.victory = @ \/ SubmitGoal(m, new)]
              /\ UNCHANGED <<sock, view>>
    BY <1>6
  <2> HIDE DEF m, new
  <2>2. /\ ledger' \in [sustain : SUBSET Locations, victory : BOOLEAN]
        /\ wire' \in [goal : BOOLEAN, checks : SUBSET Locations] /\ lost' \in BOOLEAN
        /\ NoFalseCheck' /\ SustainQueuedFirst' /\ VictoryMeansSent'
    <3>1. 4 \in 0 .. 4
      OBVIOUS
    <3> QED
      BY <1>1, <1>4, <2>1, <3>1, EffectsKeep
  <2>3. SubmitGoal(m, new) \in BOOLEAN
    BY DEF SubmitGoal
  <2>4. loop' \in Loops /\ loop'.streaks = m.streaks
    BY <1>4, <2>1, <2>3, BackoffTyped
  <2>5. events' \in 0 .. MaxEvents
    BY <1>2, <2>1, ChecksAssumption DEF Happens, TypeOK
  <2>6. TypeOK'
    BY <1>1, <1>2, <2>1, <2>2, <2>4, <2>5 DEF TypeOK
  <2>7. StreaksAreReal' /\ TornIsFirst'
    BY <1>1, <1>4, <1>5, <2>4 DEF StreaksAreReal, TornIsFirst
  <2> QED
    BY <2>2, <2>6, <2>7 DEF IInv
<1>7. CASE \E done \in 0 .. 3 :
              /\ new # {} /\ Happens
              /\ Effects(m, new, done, TRUE)
              /\ loop' = NewLoop(ledger'.victory)
              /\ sock' = "down" /\ UNCHANGED view
  <2>1. PICK done \in 0 .. 3 :
              /\ new # {} /\ Happens
              /\ Effects(m, new, done, TRUE)
              /\ loop' = NewLoop(ledger'.victory)
              /\ sock' = "down" /\ UNCHANGED view
    BY <1>7
  <2> HIDE DEF m, new
  <2>2. PICK saves \in BOOLEAN : Effects(m, new, done, saves)
    BY <2>1
  <2>3. /\ ledger' \in [sustain : SUBSET Locations, victory : BOOLEAN]
        /\ wire' \in [goal : BOOLEAN, checks : SUBSET Locations] /\ lost' \in BOOLEAN
        /\ NoFalseCheck' /\ SustainQueuedFirst' /\ VictoryMeansSent'
    <3>1. done \in 0 .. 4
      OBVIOUS
    <3> QED
      BY <1>1, <1>4, <2>2, <3>1, EffectsKeep
  <2>4. loop' \in Loops /\ loop'.streaks = Quiet
    BY <2>1, <2>3, NewLoopTyped
  <2>5. events' \in 0 .. MaxEvents
    BY <1>2, <2>1, ChecksAssumption DEF Happens, TypeOK
  <2>6. TypeOK'
    BY <1>1, <1>2, <2>1, <2>3, <2>4, <2>5 DEF TypeOK
  <2>7. StreaksAreReal' /\ TornIsFirst'
    BY <1>1, <2>4 DEF StreaksAreReal, TornIsFirst, Quiet
  <2> QED
    BY <2>3, <2>6, <2>7 DEF IInv
<1> QED
  BY <1>3, <1>6, <1>7

\* What leaves the reports, the ledger and the flags alone keeps what was said
\* of them.
LEMMA ReportsStay ==
    ASSUME IInv, UNCHANGED <<flags, ledger, wire, room, lost>>
    PROVE  NoFalseCheck' /\ SustainQueuedFirst' /\ VictoryMeansSent'
BY DEF IInv, NoFalseCheck, SustainQueuedFirst, VictoryMeansSent

\* A loop that forgets, and a loop that keeps its streaks.
LEMMA LoopPreserves ==
    ASSUME IInv, TypeOK', UNCHANGED <<loaded, torn, flags, ledger, wire, room, lost>>,
           \/ loop'.streaks = Quiet
           \/ loop'.streaks = loop.streaks /\ loop'.identity = loop.identity
    PROVE  IInv'
<1>1. NoFalseCheck' /\ SustainQueuedFirst' /\ VictoryMeansSent'
  BY ReportsStay
<1>2. StreaksAreReal'
  BY DEF IInv, StreaksAreReal, Earned, Quiet
<1>3. TornIsFirst'
  BY DEF IInv, TornIsFirst, Quiet
<1> QED
  BY <1>1, <1>2, <1>3 DEF IInv

LEMMA ClientPreserves ==
    ASSUME IInv, PollOutside \/ PollHeld \/ RetryDue \/ Reconnect \/ Crash
    PROVE  IInv'
<1>1. TypeOK /\ loop \in Loops /\ MaxEvents \in Nat
  BY ChecksAssumption DEF IInv, TypeOK
<1>2. CASE PollOutside
  <2>1. loop' \in Loops /\ loop'.streaks = Quiet
    BY <1>1, <1>2, ForgetTyped DEF PollOutside
  <2>2. TypeOK'
    BY <1>1, <1>2, <2>1 DEF PollOutside, TypeOK
  <2> QED
    BY <1>2, <2>1, <2>2, LoopPreserves DEF PollOutside
<1>3. CASE PollHeld
  <2>1. loop' \in Loops /\ loop'.streaks = Quiet
    BY <1>1, <1>3, ForgetTyped DEF PollHeld
  <2>2. TypeOK'
    BY <1>1, <1>3, <2>1 DEF PollHeld, Happens, TypeOK
  <2> QED
    BY <1>3, <2>1, <2>2, LoopPreserves DEF PollHeld
<1>4. CASE RetryDue
  <2> DEFINE r == [l \in Locations |-> IF loop.retries[l] = "wait" THEN "due" ELSE loop.retries[l]]
  <2>1. r \in [Locations -> Retries]
    BY <1>1 DEF Loops, Retries
  <2>2. loop' = [loop EXCEPT !.retries = r]
    BY <1>4 DEF RetryDue
  <2> HIDE DEF r
  <2>3. loop' \in Loops /\ loop'.streaks = loop.streaks /\ loop'.identity = loop.identity
    BY <1>1, <2>1, <2>2 DEF Loops
  <2>4. TypeOK'
    BY <1>1, <1>4, <2>3 DEF RetryDue, TypeOK
  <2> QED
    BY <1>4, <2>3, <2>4, LoopPreserves DEF RetryDue
<1>5. CASE Reconnect
  <2>1. loop' \in Loops /\ loop'.streaks = loop.streaks /\ loop'.identity = loop.identity
    BY <1>1, <1>5, QuietTyped DEF Reconnect, Loops
  <2>2. TypeOK'
    BY <1>1, <1>5, <2>1 DEF Reconnect, TypeOK, Rooms
  <2> QED
    BY <1>5, <2>1, <2>2, LoopPreserves DEF Reconnect
<1>6. CASE Crash
  <2>1. loop' \in Loops /\ loop'.streaks = Quiet
    BY <1>1, <1>6, NewLoopTyped DEF Crash, TypeOK
  <2>2. TypeOK'
    BY <1>1, <1>6, <2>1 DEF Crash, Happens, TypeOK
  <2> QED
    BY <1>6, <2>1, <2>2, LoopPreserves DEF Crash
<1> QED
  BY <1>2, <1>3, <1>4, <1>5, <1>6

\* What leaves the loop, the character and the flags alone.
LEMMA OutsidePreserves ==
    ASSUME IInv, TypeOK', UNCHANGED <<loaded, torn, flags, loop>>,
           NoFalseCheck', SustainQueuedFirst', VictoryMeansSent'
    PROVE  IInv'
BY DEF IInv, StreaksAreReal, TornIsFirst, Earned

LEMMA RoomPreserves ==
    ASSUME IInv, Arrive \/ Echo \/ Die \/ Notice \/ (\E l \in Locations : Collect(l))
    PROVE  IInv'
<1>1. TypeOK /\ MaxEvents \in Nat
  BY ChecksAssumption DEF IInv
<1>2. CASE Arrive
  <2>1. room' \in Rooms
    <3>1. room \in Rooms /\ wire.checks \in SUBSET Locations
      BY <1>1 DEF TypeOK
    <3>2. CASE room' = [room EXCEPT !.goal = TRUE]
      BY <3>1, <3>2 DEF Rooms
    <3>3. CASE room' = [room EXCEPT !.checks = @ \cup wire.checks, !.ours = @ \cup wire.checks]
      <4>1. room.checks \cup wire.checks \in SUBSET Locations
            /\ room.ours \cup wire.checks \in SUBSET Locations
        BY <3>1 DEF Rooms
      <4> QED
        BY <3>1, <3>3, <4>1 DEF Rooms
    <3> QED
      BY <1>2, <3>2, <3>3 DEF Arrive
  <2>2. wire' \in [goal : BOOLEAN, checks : SUBSET Locations]
    BY <1>1, <1>2 DEF Arrive, TypeOK
  <2>3. TypeOK'
    BY <1>1, <1>2, <2>1, <2>2 DEF Arrive, TypeOK
  <2>4. NoFalseCheck' /\ SustainQueuedFirst' /\ VictoryMeansSent'
    BY <1>1, <1>2 DEF IInv, Arrive, NoFalseCheck, SustainQueuedFirst, VictoryMeansSent, TypeOK, Rooms
  <2> QED
    BY <1>2, <2>3, <2>4, OutsidePreserves DEF Arrive
<1>3. CASE Echo
  <2>1. TypeOK'
    BY <1>1, <1>3 DEF Echo, TypeOK, Rooms
  <2> QED
    BY <1>3, <2>1, ReportsStay, OutsidePreserves DEF Echo
<1>4. CASE Die
  <2>1. wire' \in [goal : BOOLEAN, checks : SUBSET Locations] /\ lost' \in BOOLEAN
    BY <1>4 DEF Die, Nothing
  <2>2. TypeOK'
    BY <1>1, <1>4, <2>1 DEF Die, Happens, TypeOK
  <2>3. NoFalseCheck' /\ SustainQueuedFirst' /\ VictoryMeansSent'
    BY <1>4 DEF IInv, Die, Nothing, NoFalseCheck, SustainQueuedFirst, VictoryMeansSent
  <2> QED
    BY <1>4, <2>2, <2>3, OutsidePreserves DEF Die
<1>5. CASE Notice
  <2>1. TypeOK'
    BY <1>1, <1>5 DEF Notice, TypeOK
  <2> QED
    BY <1>5, <2>1, ReportsStay, OutsidePreserves DEF Notice
<1>6. CASE \E l \in Locations : Collect(l)
  <2>1. PICK l \in Locations : Collect(l)
    BY <1>6
  <2>2. TypeOK'
    BY <1>1, <2>1 DEF Collect, Happens, TypeOK, Rooms
  <2>3. NoFalseCheck' /\ SustainQueuedFirst' /\ VictoryMeansSent'
    BY <1>1, <2>1 DEF IInv, Collect, NoFalseCheck, SustainQueuedFirst, VictoryMeansSent, TypeOK, Rooms
  <2> QED
    BY <2>1, <2>2, <2>3, OutsidePreserves DEF Collect
<1> QED
  BY <1>2, <1>3, <1>4, <1>5, <1>6

LEMMA PlayerPreserves ==
    ASSUME IInv, (\E l \in Locations : Earn(l)) \/ Quit \/ (\E c \in Saves : Load(c))
    PROVE  IInv'
<1>1. TypeOK /\ MaxEvents \in Nat
  BY ChecksAssumption DEF IInv
<1>2. CASE \E l \in Locations : Earn(l)
  <2>1. PICK l \in Locations : Earn(l)
    BY <1>2
  <2>2. /\ flags' \in [Saves -> SUBSET Locations]
        /\ \A c \in Saves : flags[c] \subseteq flags'[c]
    BY <1>1, <2>1 DEF Earn, TypeOK
  <2>3. TypeOK'
    BY <1>1, <2>1, <2>2 DEF Earn, TypeOK
  <2>4. StreaksAreReal' /\ TornIsFirst'
    BY <2>1, <2>2 DEF IInv, Earn, StreaksAreReal, TornIsFirst, Earned
  <2>5. NoFalseCheck'
    BY <2>1, <2>2 DEF IInv, Earn, NoFalseCheck
  <2>6. SustainQueuedFirst' /\ VictoryMeansSent'
    BY <2>1 DEF IInv, Earn, SustainQueuedFirst, VictoryMeansSent
  <2> QED
    BY <2>3, <2>4, <2>5, <2>6 DEF IInv
<1>3. CASE Quit
  <2>1. TypeOK'
    <3>1. events' \in 0 .. MaxEvents
      BY <1>1, <1>3 DEF Quit, Happens, TypeOK
    <3>2. torn' \in BOOLEAN /\ loaded' \in Saves \cup {None}
      BY <1>3 DEF Quit
    <3> QED
      BY <1>1, <1>3, <3>1, <3>2 DEF Quit, TypeOK
  <2>2. StreaksAreReal' /\ TornIsFirst'
    BY <1>3 DEF IInv, Quit, StreaksAreReal, TornIsFirst, Earned
  <2> QED
    BY <1>3, <2>1, <2>2, ReportsStay DEF IInv, Quit
<1>4. CASE \E c \in Saves : Load(c)
  <2>1. PICK c \in Saves : Load(c)
    BY <1>4
  <2>2. loop.identity = c => loop.streaks = Quiet
    BY <1>1, <2>1, ForgetTyped DEF Load, TypeOK
  <2>3. TypeOK'
    BY <1>1, <2>1 DEF Load, TypeOK
  <2>4. StreaksAreReal'
    BY <2>1 DEF IInv, Load, StreaksAreReal, Earned
  <2>5. TornIsFirst'
    BY <2>1, <2>2, ChecksAssumption DEF Load, TornIsFirst, Quiet
  <2> QED
    BY <2>1, <2>3, <2>4, <2>5, ReportsStay DEF IInv, Load
<1> QED
  BY <1>2, <1>3, <1>4

LEMMA StepPreserves == IInv /\ [Next]_vars => IInv'
<1> SUFFICES ASSUME IInv, [Next]_vars PROVE IInv'
  OBVIOUS
<1>1. CASE UNCHANGED vars
  <2>1. TypeOK'
    BY <1>1 DEF IInv, vars, TypeOK
  <2> QED
    BY <1>1, <2>1, ReportsStay, OutsidePreserves DEF vars
<1>2. CASE Poll
  BY <1>2, PollPreserves
<1>3. CASE PollOutside \/ PollHeld \/ RetryDue \/ Reconnect \/ Crash
  BY <1>3, ClientPreserves
<1>4. CASE Arrive \/ Echo \/ Die \/ Notice \/ (\E l \in Locations : Collect(l))
  BY <1>4, RoomPreserves
<1>5. CASE (\E l \in Locations : Earn(l)) \/ Quit \/ (\E c \in Saves : Load(c))
  BY <1>5, PlayerPreserves
<1> QED
  BY <1>1, <1>2, <1>3, <1>4, <1>5 DEF Next

LEMMA Invariance == Spec => []IInv
BY InitEstablishes, StepPreserves, PTL DEF Spec

-----------------------------------------------------------------------------
(***************************************************************************)
(* The theorems.                                                            *)
(***************************************************************************)

\* The streaks stop at the debounce, and every other variable keeps its type.
THEOREM ChecksTyped == Spec => []TypeOK
<1>1. IInv => TypeOK
  BY DEF IInv
<1> QED
  BY <1>1, Invariance, PTL

\* With a debounce of at least two, no torn read, load or change of character
\* ever adds up to a check that nobody earned, or to the goal.
THEOREM NoCheckIsFalse == Spec => []NoFalseCheck
<1>1. IInv => NoFalseCheck
  BY DEF IInv
<1> QED
  BY <1>1, Invariance, PTL

\* Whenever the process dies, a check that was reported has its sustain reward
\* in the ledger.
THEOREM SustainPrecedesCheck == Spec => []SustainQueuedFirst
<1>1. IInv => SustainQueuedFirst
  BY DEF IInv
<1> QED
  BY <1>1, Invariance, PTL

\* Whenever the process dies, a recorded victory was sent before.
THEOREM VictoryFollowsSend == Spec => []VictoryMeansSent
<1>1. IInv => VictoryMeansSent
  BY DEF IInv
<1> QED
  BY <1>1, Invariance, PTL
=============================================================================
