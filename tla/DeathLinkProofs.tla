---------------------------- MODULE DeathLinkProofs ----------------------------
(***************************************************************************)
(* DeathLink for any allowance, any echo latch longer than the confirmation *)
(* and any number of deaths, links, failures and crashes.                   *)
(***************************************************************************)
EXTENDS DeathLink, TLAPS

-----------------------------------------------------------------------------
(***************************************************************************)
(* The inductive invariant.                                                 *)
(***************************************************************************)

\* In a world that was not read yet the observer has forgotten the last one.
Forgotten ==
    player # "away" /\ (~ptr \/ torn) => obs.phase = "unknown" /\ obs.streak = 0

\* Only a dead player has a cause of death, and a player believed alive who is
\* alive has neither a streak nor a latch.
Living ==
    /\ player # "dead" => cause = "none"
    /\ player = "alive" /\ obs.phase = "alive" => obs.streak = 0 /\ obs.echo = 0

\* A player believed alive who is dead has died once since: of himself, with no
\* latch, or of the kill, with a latch as old as the streak.
Dying ==
    obs.phase = "alive" /\ player = "dead"
      => \/ cause = "own" /\ obs.echo = 0
         \/ cause = "link" /\ obs.echo = EchoPolls - obs.streak

\* What a ledger row has counted, the death that is not counted yet and the
\* graced one are among the deaths since the last send.
Counts(a) ==
    a.used + (IF cause = "own" THEN 1 ELSE 0) + (IF a.graced /\ ~sent THEN 1 ELSE 0) <= since

IInv == TypeOK /\ Forgotten /\ Living /\ Dying /\ Counts(amnesty) /\ Counts(disk)

-----------------------------------------------------------------------------
(***************************************************************************)
(* The observer and the counter.                                            *)
(***************************************************************************)
Observers == [phase : {"unknown", "alive", "dead"}, streak : 0 .. ConfirmPolls - 1,
              echo : 0 .. EchoPolls]

\* observe() keeps its state in its type.
LEMMA ObservedTyped ==
    ASSUME NEW o \in Observers, NEW read \in {"none", "alive", "dead"}
    PROVE  Observed(o, read) \in Observers
<1>1. ConfirmPolls \in Nat /\ ConfirmPolls >= 2 /\ EchoPolls \in Nat
  BY DeathLinkAssumption
<1>2. Aged(o) \in 0 .. EchoPolls
  BY <1>1 DEF Aged, Observers
<1>3. Believed(o, read) \in Observers \/ read = "none"
  BY <1>1, <1>2 DEF Believed, Observers
<1>4. [phase |-> "unknown", streak |-> 0, echo |-> o.echo] \in Observers
  BY <1>1 DEF Observers
<1>5. ASSUME read # "none"
      PROVE  [phase |-> read, streak |-> 0, echo |-> Aged(o)] \in Observers
  BY <1>1, <1>2, <1>5 DEF Observers
<1>6. ASSUME o.streak + 1 < ConfirmPolls
      PROVE  [phase |-> o.phase, streak |-> o.streak + 1, echo |-> Aged(o)] \in Observers
  BY <1>1, <1>2, <1>6 DEF Observers
<1> QED
  BY <1>3, <1>4, <1>5, <1>6 DEF Observed

\* A load or a menu makes the observer forget the phase and the streak.
LEMMA NoneForgets ==
    ASSUME NEW o \in Observers
    PROVE  /\ Observed(o, "none").phase = "unknown"
           /\ Observed(o, "none").streak = 0
BY DEF Observed, Observers

\* From an unknown phase one read is never believed.
LEMMA FirstReadIsNotBelieved ==
    ASSUME NEW o \in Observers, NEW read \in {"alive", "dead"},
           o.phase = "unknown", o.streak = 0
    PROVE  Observed(o, read).phase = "unknown"
BY DeathLinkAssumption DEF Observed, Observers

\* A read of a live player leaves a believed phase without streak and latch.
LEMMA AliveRead ==
    ASSUME NEW o \in Observers,
           o.phase = "alive" => o.streak = 0 /\ o.echo = 0,
           Observed(o, "alive").phase = "alive"
    PROVE  Observed(o, "alive").streak = 0 /\ Observed(o, "alive").echo = 0
BY DEF Observed, Observers, Believed, Aged

\* A read of a dead player who stays believed alive is one more of the streak
\* and one less of the latch.
LEMMA DeadRead ==
    ASSUME NEW o \in Observers, Observed(o, "dead").phase = "alive"
    PROVE  /\ o.phase = "alive"
           /\ Observed(o, "dead").streak = o.streak + 1
           /\ Observed(o, "dead").echo = Aged(o)
BY DEF Observed, Observers, Believed

\* An edge is the last read of a full streak of dead reads.
LEMMA EdgeIsConfirmed ==
    ASSUME NEW o \in Observers, NEW read \in {"none", "alive", "dead"}, IsEdge(o, read)
    PROVE  read = "dead" /\ o.phase = "alive" /\ o.streak + 1 >= ConfirmPolls
BY DeathLinkAssumption DEF IsEdge, Observed, Observers, Believed

\* record_qualifying_local_death keeps the counter in its type.
LEMMA RecordedTyped ==
    ASSUME NEW a \in Counters
    PROVE  Recorded(a) \in Counters
<1>1. [a EXCEPT !.graced = TRUE] \in Counters
  BY DEF Counters
<1>2. ASSUME Forgiven(a)
      PROVE  [a EXCEPT !.used = @ + 1] \in Counters
  BY <1>2, DeathLinkAssumption DEF Counters, Forgiven
<1>3. [a EXCEPT !.used = 0] \in Counters
  BY DeathLinkAssumption DEF Counters
<1> QED
  BY <1>1, <1>2, <1>3 DEF Recorded

\* It counts at most the death it is called for.
LEMMA RecordedCounts ==
    ASSUME NEW a \in Counters
    PROVE  /\ Recorded(a).used + (IF Recorded(a).graced THEN 1 ELSE 0)
                 <= a.used + (IF a.graced THEN 1 ELSE 0) + 1
           /\ Recorded(a).used <= a.used + 1
BY DeathLinkAssumption DEF Recorded, Counters, Graced, Forgiven

\* A send is decided only when the allowance is used up and the grace spent.
LEMMA SendsSpent ==
    ASSUME NEW a \in Counters, Sends(a)
    PROVE  /\ a.used = Allowance /\ Recorded(a).used = 0
           /\ Grace => a.graced
BY DeathLinkAssumption DEF Sends, Recorded, Counters, Graced, Forgiven

-----------------------------------------------------------------------------
(***************************************************************************)
(* The invariant holds.                                                     *)
(***************************************************************************)
LEMMA InitEstablishes == Init => IInv
<1> SUFFICES ASSUME Init PROVE IInv
  OBVIOUS
<1>1. TypeOK
  <2>1. obs \in Observers
    BY DeathLinkAssumption DEF Init, Fresh, Observers
  <2>2. amnesty \in Counters /\ disk \in Counters
    BY DeathLinkAssumption DEF Init, Counters
  <2>3. bounces \in Nat /\ since \in Nat /\ events \in 0 .. MaxEvents
    BY DeathLinkAssumption DEF Init
  <2>4. queue \in Seq({"foreign", "own"})
    BY DEF Init
  <2>5. ptr \in BOOLEAN /\ torn \in BOOLEAN /\ outgoing \in BOOLEAN /\ up \in BOOLEAN
        /\ sent \in BOOLEAN
    BY DEF Init
  <2> QED
    BY <2>1, <2>2, <2>3, <2>4, <2>5 DEF Init, TypeOK, Observers
<1>2. Forgotten /\ Living /\ Dying /\ Counts(amnesty) /\ Counts(disk)
  BY DEF Init, Fresh, Forgotten, Living, Dying, Counts
<1> QED
  BY <1>1, <1>2 DEF IInv

\* The kill: the player dies of it, with a full latch and no streak.
LEMMA KillPreserves == IInv /\ Kill => IInv'
<1> SUFFICES ASSUME IInv, Kill PROVE IInv'
  OBVIOUS
<1>1. TypeOK /\ obs \in Observers
  BY DEF IInv, TypeOK, Observers
<1>2. CASE queue # <<>> /\ MayKill /\ Killed
  <2>1. TypeOK'
    BY <1>1, <1>2, DeathLinkAssumption DEF Kill, Killed, Popped, TypeOK, counts
  <2>2. Forgotten'
    BY <1>1, <1>2 DEF IInv, Killed, MayKill, Forgotten, Observers
  <2>3. Living' /\ Dying'
    BY <1>1, <1>2, DeathLinkAssumption DEF IInv, Killed, MayKill, Living, Dying, Observers
  <2>4. Counts(amnesty)' /\ Counts(disk)'
    BY <1>2 DEF IInv, Kill, Killed, MayKill, Living, Counts, counts
  <2> QED
    BY <2>1, <2>2, <2>3, <2>4 DEF IInv
<1>3. CASE NotKilled /\ UNCHANGED events
  <2>1. TypeOK'
    BY <1>1, <1>3 DEF Kill, NotKilled, TypeOK, counts
  <2>2. Forgotten' /\ Living' /\ Dying'
    BY <1>3 DEF IInv, NotKilled, Forgotten, Living, Dying
  <2>3. Counts(amnesty)' /\ Counts(disk)'
    BY <1>3 DEF IInv, Kill, NotKilled, Counts, counts
  <2> QED
    BY <2>1, <2>2, <2>3 DEF IInv
<1>4. CASE Happens /\ UNCHANGED <<world, link, obs>>
  <2>1. TypeOK'
    BY <1>1, <1>4, DeathLinkAssumption DEF Kill, Happens, TypeOK, counts, world, link
  <2>2. Forgotten' /\ Living' /\ Dying' /\ Counts(amnesty)' /\ Counts(disk)'
    BY <1>4 DEF IInv, Kill, Forgotten, Living, Dying, Counts, counts, world
  <2> QED
    BY <2>1, <2>2 DEF IInv
<1> QED
  BY <1>2, <1>3, <1>4 DEF Kill

\* An edge is reported for an undecided death, with the latch of its cause.
LEMMA EdgeAttributed ==
    ASSUME IInv, NEW read \in Reads, IsEdge(obs, read)
    PROVE  /\ player = "dead"
           /\ cause = IF IsEcho(obs) THEN "link" ELSE "own"
<1>1. obs \in Observers /\ player \in {"alive", "dead", "away"}
  BY DEF IInv, TypeOK, Observers
<1>2. read \in {"none", "alive", "dead"}
  BY <1>1 DEF Reads
<1>3. read = "dead" /\ obs.phase = "alive" /\ obs.streak + 1 >= ConfirmPolls
  BY <1>1, <1>2, EdgeIsConfirmed
<1>4. player = "dead"
  BY <1>1, <1>3 DEF IInv, Reads, Forgotten
<1>5. CASE cause = "own" /\ obs.echo = 0
  BY <1>4, <1>5 DEF IsEcho, Aged
<1>6. CASE cause = "link" /\ obs.echo = EchoPolls - obs.streak
  BY <1>1, <1>3, <1>4, <1>6, DeathLinkAssumption DEF IsEcho, Aged, Observers
<1> QED
  BY <1>3, <1>4, <1>5, <1>6 DEF IInv, Dying

\* The observation: without an edge a streak and its latch move together, and
\* an edge of the player's own death is counted.
LEMMA LookPreserves == IInv /\ Observe /\ Look => IInv'
<1> SUFFICES ASSUME IInv, Observe, Look PROVE IInv'
  OBVIOUS
<1>1. TypeOK /\ obs \in Observers /\ amnesty \in Counters /\ disk \in Counters
  BY DEF IInv, TypeOK, Observers
<1>2. PICK read \in Reads :
         /\ obs' = Observed(obs, read)
         /\ cause' = IF IsEdge(obs, read) THEN "counted" ELSE cause
         /\ IF IsEdge(obs, read) /\ ~IsEcho(obs)
            THEN \E saves \in BOOLEAN : Decide(saves)
            ELSE UNCHANGED <<counts, outgoing, events>>
  BY DEF Look
<1>3. read \in {"none", "alive", "dead"}
  BY <1>1 DEF Reads, TypeOK
<1>4. obs' \in Observers
  BY <1>1, <1>2, <1>3, ObservedTyped
<1>5. ptr' \in BOOLEAN /\ torn' \in BOOLEAN /\ player' = player
  BY <1>1 DEF Look, TypeOK
<1>6. Forgotten'
  <2>1. CASE player = "away" \/ ~ptr
    BY <1>1, <1>2, <1>5, <2>1, NoneForgets DEF Reads, Forgotten
  <2>2. CASE player # "away" /\ ptr
    BY <2>2 DEF Look, Forgotten
  <2> QED
    BY <2>1, <2>2
<1>7. Living' /\ Dying'
  <2>1. CASE player = "away" \/ ~ptr
    BY <1>1, <1>2, <1>5, <2>1, NoneForgets DEF IInv, Reads, Living, Dying, IsEdge, TypeOK
  <2>2. CASE player # "away" /\ ptr /\ torn
    <3>1. obs.phase = "unknown" /\ obs.streak = 0
      BY <2>2 DEF IInv, Forgotten
    <3>2. obs'.phase = "unknown" /\ cause' = cause
      BY <1>1, <1>2, <2>2, <3>1, FirstReadIsNotBelieved DEF Reads, IsEdge
    <3> QED
      BY <1>5, <3>2 DEF IInv, Living, Dying
  <2>3. CASE player = "alive" /\ ptr /\ ~torn
    <3>1. read = "alive"
      BY <2>3 DEF Reads
    <3>2. ~IsEdge(obs, read)
      BY <1>1, <3>1, EdgeIsConfirmed
    <3>3. obs'.phase = "alive" => obs'.streak = 0 /\ obs'.echo = 0
      BY <1>1, <1>2, <2>3, <3>1, AliveRead DEF IInv, Living
    <3> QED
      BY <1>2, <1>5, <2>3, <3>2, <3>3 DEF IInv, Living, Dying
  <2>4. CASE player = "dead" /\ ptr /\ ~torn
    <3>1. read = "dead"
      BY <2>4 DEF Reads
    <3>2. ASSUME obs'.phase = "alive"
          PROVE  \/ cause' = "own" /\ obs'.echo = 0
                 \/ cause' = "link" /\ obs'.echo = EchoPolls - obs'.streak
      <4>1. obs.phase = "alive" /\ obs'.streak = obs.streak + 1 /\ obs'.echo = Aged(obs)
        BY <1>1, <1>2, <3>1, <3>2, DeadRead
      <4>2. cause' = cause
        BY <1>2, <3>2 DEF IsEdge
      <4>3. obs.streak + 1 <= ConfirmPolls - 1
        BY <1>4, <4>1, DeathLinkAssumption DEF Observers
      <4> QED
        BY <1>1, <2>4, <4>1, <4>2, <4>3, DeathLinkAssumption DEF IInv, Dying, Aged, Observers
    <3> QED
      BY <1>5, <2>4, <3>2 DEF Living, Dying
  <2> QED
    BY <1>1, <2>1, <2>2, <2>3, <2>4 DEF TypeOK
<1>8. pc' \in {"kill", "observe", "send"} /\ cause' \in {"none", "own", "link", "counted"}
      /\ queue' = queue /\ up' = up /\ bounces' = bounces
  BY <1>1, <1>2 DEF Observe, TypeOK
<1>9. CASE ~(IsEdge(obs, read) /\ ~IsEcho(obs))
  <2>1. UNCHANGED <<counts, outgoing, events>>
    BY <1>2, <1>9
  <2>2. TypeOK'
    BY <1>1, <1>4, <1>5, <1>8, <2>1 DEF TypeOK, Observers, counts
  <2>3. Counts(amnesty)' /\ Counts(disk)'
    <3>1. cause' = "own" => cause = "own"
      BY <1>2
    <3> QED
      BY <1>1, <2>1, <3>1 DEF IInv, Counts, counts, Counters, TypeOK
  <2> QED
    BY <1>6, <1>7, <2>2, <2>3 DEF IInv
<1>10. CASE IsEdge(obs, read) /\ ~IsEcho(obs)
  <2>1. cause = "own" /\ cause' = "counted"
    BY <1>2, <1>10, EdgeAttributed
  <2>2. PICK saves \in BOOLEAN : Decide(saves)
    BY <1>2, <1>10
  <2>3. amnesty' = Recorded(amnesty) /\ amnesty' \in Counters
    BY <1>1, <2>2, RecordedTyped DEF Decide
  <2>4. disk' \in Counters
    BY <1>1, <2>2, <2>3 DEF Decide
  <2>5. since' \in Nat /\ outgoing' \in BOOLEAN /\ sent' \in BOOLEAN /\ events' \in 0 .. MaxEvents
    BY <1>1, <2>2, DeathLinkAssumption DEF Decide, Happens, TypeOK, Sends, Graced, Forgiven
  <2>6. TypeOK'
    BY <1>1, <1>4, <1>5, <1>8, <2>3, <2>4, <2>5 DEF TypeOK, Observers
  <2>7. amnesty.used + 1 + (IF amnesty.graced /\ ~sent THEN 1 ELSE 0) <= since
    BY <2>1 DEF IInv, Counts
  <2>8. disk.used + 1 + (IF disk.graced /\ ~sent THEN 1 ELSE 0) <= since
    BY <2>1 DEF IInv, Counts
  <2>9. CASE saves /\ Sends(amnesty)
    <3>1. since' = 0 /\ sent' /\ disk' = amnesty' /\ amnesty'.used = 0
      BY <1>1, <2>2, <2>3, <2>9, SendsSpent DEF Decide
    <3>2. Counts(amnesty)' /\ Counts(disk)'
      BY <2>1, <3>1 DEF Counts
    <3> QED
      BY <1>6, <1>7, <2>6, <3>2 DEF IInv
  <2>10. CASE ~(saves /\ Sends(amnesty))
    <3>1. since' = since /\ sent' = sent /\ (disk' = disk \/ disk' = amnesty')
      BY <1>1, <2>2, <2>3, <2>10 DEF Decide, TypeOK
    <3>2. amnesty'.used + (IF amnesty'.graced /\ ~sent THEN 1 ELSE 0) <= since
      BY <1>1, <2>3, <2>7, RecordedCounts DEF Counters, TypeOK
    <3>3. disk'.used + (IF disk'.graced /\ ~sent THEN 1 ELSE 0) <= since
      BY <1>1, <2>8, <3>1, <3>2 DEF Counters, TypeOK
    <3>4. Counts(amnesty)' /\ Counts(disk)'
      BY <2>1, <2>3, <2>4, <3>1, <3>2, <3>3 DEF Counts, Counters
    <3> QED
      BY <1>6, <1>7, <2>6, <3>4 DEF IInv
  <2> QED
    BY <2>9, <2>10
<1> QED
  BY <1>9, <1>10

\* A failed observation changes nothing that was observed.
LEMMA LookFailsPreserves == IInv /\ Observe /\ LookFails => IInv'
<1> SUFFICES ASSUME IInv, Observe, LookFails PROVE IInv'
  OBVIOUS
<1>1. TypeOK'
  BY DeathLinkAssumption DEF IInv, Observe, LookFails, Happens, TypeOK, counts, world
<1>2. Forgotten' /\ Living' /\ Dying' /\ Counts(amnesty)' /\ Counts(disk)'
  BY DEF IInv, LookFails, Forgotten, Living, Dying, Counts, counts, world
<1> QED
  BY <1>1, <1>2 DEF IInv

\* What leaves the player, the observer and the counters alone.
LEMMA QuietPreserves ==
    ASSUME IInv, TypeOK', UNCHANGED <<world, obs, counts>>
    PROVE  IInv'
BY DEF IInv, Forgotten, Living, Dying, Counts, counts, world

\* The broadcast and the room.
LEMMA LinkPreserves ==
    ASSUME IInv, Send \/ Link \/ Bounce \/ Disconnect \/ Connect
    PROVE  IInv'
<1>1. TypeOK /\ MaxEvents \in Nat
  BY DeathLinkAssumption DEF IInv
<1>2. CASE Send
  <2>1. TypeOK'
    <3>1. bounces' \in Nat /\ events' \in 0 .. MaxEvents
      BY <1>1, <1>2 DEF Send, Happens, TypeOK
    <3>2. outgoing' \in BOOLEAN
      BY <1>1, <1>2 DEF Send, TypeOK
    <3> QED
      BY <1>1, <1>2, <3>1, <3>2 DEF Send, TypeOK, counts, world
  <2> QED
    BY <1>2, <2>1, QuietPreserves DEF Send
<1>3. CASE Link
  <2>1. TypeOK'
    BY <1>1, <1>3 DEF Link, Arrives, Happens, TypeOK, counts, world
  <2> QED
    BY <1>3, <2>1, QuietPreserves DEF Link
<1>4. CASE Bounce
  <2>1. TypeOK'
    BY <1>1, <1>4 DEF Bounce, Arrives, TypeOK, counts, world
  <2> QED
    BY <1>4, <2>1, QuietPreserves DEF Bounce
<1>5. CASE Disconnect
  <2>1. TypeOK'
    <3>1. bounces' \in Nat /\ events' \in 0 .. MaxEvents
      BY <1>1, <1>5 DEF Disconnect, Happens, TypeOK
    <3>2. up' \in BOOLEAN
      BY <1>5 DEF Disconnect
    <3> QED
      BY <1>1, <1>5, <3>1, <3>2 DEF Disconnect, TypeOK, counts, world
  <2> QED
    BY <1>5, <2>1, QuietPreserves DEF Disconnect
<1>6. CASE Connect
  <2>1. TypeOK'
    BY <1>1, <1>6 DEF Connect, TypeOK, counts, world
  <2> QED
    BY <1>6, <2>1, QuietPreserves DEF Connect
<1> QED
  BY <1>2, <1>3, <1>4, <1>5, <1>6

\* The ledger and the process: both rows are counted, so either may survive.
LEMMA ProcessPreserves ==
    ASSUME IInv, OtherSave \/ Crash
    PROVE  IInv'
<1>1. TypeOK
  BY DEF IInv
<1>2. CASE OtherSave
  <2>1. TypeOK'
    BY <1>1, <1>2 DEF OtherSave, TypeOK, world, link
  <2>2. Forgotten' /\ Living' /\ Dying' /\ Counts(amnesty)' /\ Counts(disk)'
    BY <1>2 DEF IInv, OtherSave, Forgotten, Living, Dying, Counts, world
  <2> QED
    BY <2>1, <2>2 DEF IInv
<1>3. CASE Crash
  <2>1. Fresh \in Observers
    BY DeathLinkAssumption DEF Fresh, Observers
  <2>2. TypeOK'
    <3>1. bounces' \in Nat /\ events' \in 0 .. MaxEvents
      BY <1>1, <1>3, DeathLinkAssumption DEF Crash, Happens, TypeOK
    <3>2. outgoing' \in BOOLEAN /\ up' \in BOOLEAN
      BY <1>3 DEF Crash
    <3>3. queue' \in Seq({"foreign", "own"})
      BY <1>3 DEF Crash
    <3> QED
      BY <1>1, <1>3, <2>1, <3>1, <3>2, <3>3 DEF Crash, TypeOK, Observers, world
  <2>3. Forgotten' /\ Living' /\ Dying' /\ Counts(amnesty)' /\ Counts(disk)'
    BY <1>3 DEF IInv, Crash, Fresh, Forgotten, Living, Dying, Counts, world
  <2> QED
    BY <2>2, <2>3 DEF IInv
<1> QED
  BY <1>2, <1>3

\* The player and the game.
LEMMA WorldPreserves ==
    ASSUME IInv, Die \/ GoAway \/ Load \/ Hook
    PROVE  IInv'
<1>1. TypeOK /\ obs \in Observers /\ MaxEvents \in Nat
  BY DeathLinkAssumption DEF IInv, TypeOK, Observers
<1>2. CASE Die
  <2>1. TypeOK'
    BY <1>1, <1>2 DEF Die, Happens, TypeOK, link
  <2>2. Forgotten' /\ Living' /\ Dying'
    BY <1>2 DEF IInv, Die, Forgotten, Living, Dying
  <2>3. Counts(amnesty)' /\ Counts(disk)'
    BY <1>1, <1>2 DEF IInv, Die, Living, Counts, Counters, TypeOK
  <2> QED
    BY <2>1, <2>2, <2>3 DEF IInv
<1>3. CASE GoAway
  <2>1. TypeOK'
    BY <1>1, <1>3 DEF GoAway, Happens, TypeOK, link, counts
  <2>2. Forgotten' /\ Living' /\ Dying'
    BY <1>3 DEF GoAway, Forgotten, Living, Dying
  <2>3. Counts(amnesty)' /\ Counts(disk)'
    BY <1>1, <1>3 DEF IInv, GoAway, Counts, Counters, TypeOK, counts
  <2> QED
    BY <2>1, <2>2, <2>3 DEF IInv
<1>4. CASE Load
  <2>1. TypeOK'
    BY <1>1, <1>4 DEF Load, TypeOK, link, counts
  <2>2. obs.phase = "unknown" /\ obs.streak = 0
    BY <1>1, <1>4, NoneForgets DEF Load
  <2>3. cause = "none"
    BY <1>4 DEF IInv, Load, Living
  <2>4. Forgotten' /\ Living' /\ Dying' /\ Counts(amnesty)' /\ Counts(disk)'
    BY <1>4, <2>2, <2>3 DEF IInv, Load, Forgotten, Living, Dying, Counts, counts
  <2> QED
    BY <2>1, <2>4 DEF IInv
<1>5. CASE Hook
  <2>1. TypeOK'
    BY <1>1, <1>5 DEF Hook, TypeOK, link, counts
  <2>2. Forgotten' /\ Living' /\ Dying' /\ Counts(amnesty)' /\ Counts(disk)'
    BY <1>5 DEF IInv, Hook, Forgotten, Living, Dying, Counts, counts
  <2> QED
    BY <2>1, <2>2 DEF IInv
<1> QED
  BY <1>2, <1>3, <1>4, <1>5

LEMMA StepPreserves == IInv /\ [Next]_vars => IInv'
<1> SUFFICES ASSUME IInv, [Next]_vars PROVE IInv'
  OBVIOUS
<1>1. CASE UNCHANGED vars
  <2>1. TypeOK'
    BY <1>1 DEF IInv, vars, TypeOK
  <2> QED
    BY <1>1, <2>1, QuietPreserves DEF vars, world, counts
<1>2. CASE Kill
  BY <1>2, KillPreserves
<1>3. CASE Observe
  BY <1>3, LookPreserves, LookFailsPreserves DEF Observe
<1>4. CASE Send \/ Link \/ Bounce \/ Disconnect \/ Connect
  BY <1>4, LinkPreserves
<1>5. CASE OtherSave \/ Crash
  BY <1>5, ProcessPreserves
<1>6. CASE Die \/ GoAway \/ Load \/ Hook
  BY <1>6, WorldPreserves
<1> QED
  BY <1>1, <1>2, <1>3, <1>4, <1>5, <1>6 DEF Next

LEMMA Invariance == Spec => []IInv
BY InitEstablishes, StepPreserves, PTL DEF Spec

-----------------------------------------------------------------------------
(***************************************************************************)
(* The theorems.                                                            *)
(***************************************************************************)

\* The observer, the counters and the queue keep their types whatever dies.
THEOREM DeathLinkTyped == Spec => []TypeOK
<1>1. IInv => TypeOK
  BY DEF IInv
<1> QED
  BY <1>1, Invariance, PTL

LEMMA StepAttributes ==
    IInv /\ [Next]_vars
      => [obs.phase = "alive" /\ obs'.phase = "dead"
            => cause = IF IsEcho(obs) THEN "link" ELSE "own"]_vars
<1> SUFFICES ASSUME IInv, Next, obs.phase = "alive", obs'.phase = "dead"
             PROVE  cause = IF IsEcho(obs) THEN "link" ELSE "own"
  OBVIOUS
<1>1. obs \in Observers
  BY DEF IInv, TypeOK, Observers
<1>2. CASE Observe /\ Look
  <2>1. PICK read \in Reads : obs' = Observed(obs, read)
    BY <1>2 DEF Look
  <2> QED
    BY <2>1, EdgeAttributed DEF IsEdge
<1>3. CASE UNCHANGED obs
  BY <1>3
<1>4. CASE Kill
  <2>1. obs'.phase = obs.phase
    BY <1>1, <1>4 DEF Kill, Killed, NotKilled, Observers
  <2> QED
    BY <2>1
<1>5. CASE Crash
  BY <1>5 DEF Crash, Fresh
<1> QED
  BY <1>2, <1>3, <1>4, <1>5
     DEF Next, Observe, LookFails, Send, OtherSave, Link, Bounce, Disconnect, Connect,
         Die, GoAway, Load, Hook

\* No own kill is ever charged or broadcast, no death of the player is taken
\* for one, and neither a torn read nor a load is a death.
THEOREM EdgesAttributed == Spec => EdgesAreAttributed
BY Invariance, StepAttributes, PTL DEF Spec, EdgesAreAttributed

LEMMA StepEarns ==
    IInv /\ [Next]_vars
      => [~outgoing /\ outgoing'
            => since >= Allowance + 1 + (IF Grace /\ ~sent THEN 1 ELSE 0)]_vars
<1> SUFFICES ASSUME IInv, Next, ~outgoing, outgoing'
             PROVE  since >= Allowance + 1 + (IF Grace /\ ~sent THEN 1 ELSE 0)
  OBVIOUS
<1>1. amnesty \in Counters /\ since \in Nat /\ Allowance \in Nat
  BY DeathLinkAssumption DEF IInv, TypeOK
<1>2. Observe /\ Look
  BY DEF Next, Kill, Killed, NotKilled, Observe, LookFails, Send, OtherSave, Crash, Link,
         Bounce, Disconnect, Connect, Die, GoAway, Load, Hook, link
<1>3. PICK read \in Reads :
         /\ IsEdge(obs, read) /\ ~IsEcho(obs)
         /\ \E saves \in BOOLEAN : Decide(saves)
  BY <1>2 DEF Look
<1>4. cause = "own"
  BY <1>3, EdgeAttributed
<1>5. Sends(amnesty)
  BY <1>3 DEF Decide
<1>6. amnesty.used = Allowance /\ (Grace => amnesty.graced)
  BY <1>1, <1>5, SendsSpent
<1> QED
  BY <1>1, <1>4, <1>6 DEF IInv, Counts, Counters

\* No failed save and no crash cuts the amnesty or the grace short.
THEOREM SendsEarned == Spec => SendsAreEarned
BY Invariance, StepEarns, PTL DEF Spec, SendsAreEarned
=============================================================================
