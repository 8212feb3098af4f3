------------------------------- MODULE DeathLink -------------------------------
(***************************************************************************)
(* DeathLink of the Bloodborne client: links from the room kill the player, *)
(* the player's own deaths, seen as an edge of the HP cell, are graced,     *)
(* forgiven or broadcast.                                                   *)
(*                                                                          *)
(* A pass of the main loop has three parts here, the kill, the observation  *)
(* and the broadcast, between which the game, the socket and the process do *)
(* what they like.  The client reads HP through a pointer that a hook of    *)
(* the game captures after a load; a poll outside gameplay clears it.  The  *)
(* slot has death_link and death_link_send on.                              *)
(***************************************************************************)
EXTENDS Integers, Sequences

CONSTANTS
    Allowance,     \* config.death_link_amnesty
    Grace,         \* config.death_link_first_death_grace
    ConfirmPolls,  \* DEATH_CONFIRM_POLLS and ALIVE_ARM_POLLS
    EchoPolls,     \* ECHO_SUPPRESSION_POLLS
    MaxEvents      \* bound on deaths, links, failures, disconnects and crashes

ASSUME DeathLinkAssumption ==
    /\ Allowance \in Nat /\ Grace \in BOOLEAN
    /\ ConfirmPolls \in Nat /\ ConfirmPolls >= 2
    /\ EchoPolls \in Nat /\ EchoPolls > ConfirmPolls  \* or no echo is recognized
    /\ MaxEvents \in Nat

VARIABLES
    player,    \* "alive", "dead", or "away": in a menu or a load
    ptr,       \* the player_status cell holds a pointer
    torn,      \* the next read is the first through it and may be torn
    obs,       \* LocalDeathObserver
    amnesty,   \* death_link_first_death_graced and death_link_amnesty_used
    disk,      \* the same in receipts.json
    queue,     \* pending_death_links, by origin
    outgoing,  \* pending_outgoing_death
    up,        \* the connection has a client
    bounces,   \* our broadcasts the room has not sent back yet
    pc,        \* the next part of the pass: "kill", "observe" or "send"
    cause,     \* what zeroed the HP: "own" or "link"; "counted" once an edge
               \* was reported for it, "none" while the player lives
    since,     \* the player's own deaths since a send was decided
    sent,      \* a send was ever decided
    events     \* how many of the bounded events have happened

vars == <<player, ptr, torn, obs, amnesty, disk, queue, outgoing, up, bounces, pc,
          cause, since, sent, events>>
world  == <<player, ptr, torn, cause>>
link   == <<queue, outgoing, up, bounces>>
counts == <<amnesty, disk, since, sent>>

Happens == events < MaxEvents /\ events' = events + 1

-----------------------------------------------------------------------------
(***************************************************************************)
(* LocalDeathObserver::observe.                                             *)
(***************************************************************************)
Fresh == [phase |-> "unknown", streak |-> 0, echo |-> 0]

Aged(o) == IF o.echo > 0 THEN o.echo - 1 ELSE 0

\* Mutant: the player coming back does not clear the echo latch.
BelievedKeepsLatch(o, read) ==
    [phase |-> read, streak |-> 0, echo |-> IF o.phase = "alive" THEN 0 ELSE Aged(o)]

\* A reading that was confirmed.  A live player makes the latch stale, and the
\* edge it explains spends it.
Believed(o, read) ==
    [phase |-> read, streak |-> 0,
     echo |-> IF read = "alive" \/ o.phase = "alive" THEN 0 ELSE Aged(o)]

Observed(o, read) ==
    IF read = "none" THEN [phase |-> "unknown", streak |-> 0, echo |-> o.echo]
    ELSE IF read = o.phase THEN [phase |-> read, streak |-> 0, echo |-> Aged(o)]
    ELSE IF o.streak + 1 < ConfirmPolls
         THEN [phase |-> o.phase, streak |-> o.streak + 1, echo |-> Aged(o)]
    ELSE Believed(o, read)

IsEdge(o, read) == o.phase = "alive" /\ Observed(o, read).phase = "dead"

\* Whether an edge is taken for the client's own kill.
IsEcho(o) == Aged(o) > 0

-----------------------------------------------------------------------------
(***************************************************************************)
(* record_qualifying_local_death.                                           *)
(***************************************************************************)
Graced(a) == Grace /\ ~a.graced

\* Mutant: a death is forgiven while the allowance is not used up by one.
ForgivenOneShort(a) == ~Graced(a) /\ a.used + 1 < Allowance

Forgiven(a) == ~Graced(a) /\ a.used < Allowance

Recorded(a) ==
    IF Graced(a) THEN [a EXCEPT !.graced = TRUE]
    ELSE IF Forgiven(a) THEN [a EXCEPT !.used = @ + 1]
    ELSE [a EXCEPT !.used = 0]

Sends(a) == ~Graced(a) /\ ~Forgiven(a)

-----------------------------------------------------------------------------
(***************************************************************************)
(* The main loop.                                                           *)
(***************************************************************************)

\* GuestRuntime::death_link_kill: gameplay, a captured pointer, HP not zero.
MayKill == player = "alive" /\ ptr

\* Mutant: the link stays at the front after the kill.
PoppedNever == queue

Popped == Tail(queue)

\* receive_death_link for the front of the queue.
Killed ==
    /\ player' = "dead" /\ cause' = "link"
    /\ queue' = Popped
    /\ obs' = [obs EXCEPT !.echo = EchoPolls]
    /\ UNCHANGED <<ptr, torn, outgoing, up, bounces, events>>

NotKilled ==
    /\ ptr' = IF queue = <<>> THEN ptr ELSE ptr /\ player # "away"
    /\ UNCHANGED <<player, torn, cause, queue, obs, outgoing, up, bounces>>

Kill ==
    /\ pc = "kill" /\ pc' = "observe"
    /\ \/ queue # <<>> /\ MayKill /\ Killed
       \/ ~(queue # <<>> /\ MayKill) /\ NotKilled /\ UNCHANGED events
       \/ queue # <<>> /\ Happens /\ UNCHANGED <<world, link, obs>>
    /\ UNCHANGED counts

\* A Local edge: the counter moves in memory and is then saved.  A failed save
\* drops the decision.
Decide(saves) ==
    /\ amnesty' = Recorded(amnesty)
    /\ IF saves
       THEN /\ disk' = Recorded(amnesty)
            /\ outgoing' = (outgoing \/ Sends(amnesty))
            /\ since' = IF Sends(amnesty) THEN 0 ELSE since
            /\ sent' = (sent \/ Sends(amnesty))
            /\ UNCHANGED events
       ELSE Happens /\ UNCHANGED <<disk, outgoing, since, sent>>

\* What observe_player_hp answers.
Reads == IF player = "away" \/ ~ptr THEN {"none"}
         ELSE IF torn THEN {"alive", "dead"} ELSE {player}

\* poll_local_death.
Look ==
    /\ ptr' = (ptr /\ player # "away") /\ torn' = (torn /\ ~ptr)
    /\ \E read \in Reads :
         /\ obs' = Observed(obs, read)
         /\ cause' = IF IsEdge(obs, read) THEN "counted" ELSE cause
         /\ IF IsEdge(obs, read) /\ ~IsEcho(obs)
            THEN \E saves \in BOOLEAN : Decide(saves)
            ELSE UNCHANGED <<counts, outgoing, events>>
    /\ UNCHANGED player

\* The context or the HP cannot be read: an error is not "not observable".
LookFails == Happens /\ UNCHANGED <<world, obs, counts, outgoing>>

Observe ==
    /\ pc = "observe" /\ pc' = "send"
    /\ Look \/ LookFails
    /\ UNCHANGED <<queue, up, bounces>>

\* A failed broadcast is not retried.
Send ==
    /\ pc = "send" /\ pc' = "kill"
    /\ IF outgoing /\ up
       THEN /\ outgoing' = FALSE
            /\ \/ bounces' = bounces + 1 /\ UNCHANGED events
               \/ bounces' = bounces /\ Happens
       ELSE UNCHANGED <<outgoing, bounces, events>>
    /\ UNCHANGED <<world, obs, counts, queue, up>>

\* Any other part of the client saves the ledger.
OtherSave ==
    /\ disk # amnesty /\ disk' = amnesty
    /\ UNCHANGED <<world, obs, amnesty, since, sent, link, pc, events>>

\* The process dies and starts again.
Crash ==
    /\ Happens
    /\ obs' = Fresh /\ amnesty' = disk
    /\ queue' = <<>> /\ outgoing' = FALSE /\ up' = FALSE /\ bounces' = 0
    /\ pc' = "kill"
    /\ UNCHANGED <<world, disk, since, sent>>

-----------------------------------------------------------------------------
(***************************************************************************)
(* The room, the game and the player.                                       *)
(***************************************************************************)
Arrives(origin) == up /\ queue' = Append(queue, origin)

\* Someone else dies.
Link ==
    /\ Arrives("foreign") /\ Happens
    /\ UNCHANGED <<world, obs, counts, outgoing, up, bounces, pc>>

\* The room sends a broadcast to every client with the tag, its sender
\* included: the Elden Ring and the Dark Souls III clients drop their own.
Bounce ==
    /\ bounces > 0 /\ Arrives("own")
    /\ bounces' = bounces - 1
    /\ UNCHANGED <<world, obs, counts, outgoing, up, pc, events>>

Disconnect ==
    /\ up /\ Happens
    /\ up' = FALSE /\ bounces' = 0
    /\ UNCHANGED <<world, obs, counts, queue, outgoing, pc>>

Connect ==
    /\ ~up /\ up' = TRUE
    /\ UNCHANGED <<world, obs, counts, queue, outgoing, bounces, pc, events>>

Die ==
    /\ player = "alive" /\ Happens
    /\ player' = "dead" /\ cause' = "own" /\ since' = since + 1
    /\ UNCHANGED <<ptr, torn, obs, amnesty, disk, sent, link, pc>>

\* A dead player respawns through a load; a live one may quit to the menu.
GoAway ==
    /\ \/ player = "dead" /\ UNCHANGED events
       \/ player = "alive" /\ Happens
    /\ player' = "away" /\ cause' = "none"
    /\ UNCHANGED <<ptr, torn, obs, counts, link, pc>>

\* A load takes longer than a pass of the loop: some poll has seen it, and
\* what it answered was that nothing is observable.
Load ==
    /\ player = "away" /\ ~ptr /\ obs = Observed(obs, "none")
    /\ player' = "alive"
    /\ UNCHANGED <<ptr, torn, cause, obs, counts, link, pc, events>>

\* The hook captures the pointer.
Hook ==
    /\ player # "away" /\ ~ptr
    /\ ptr' = TRUE /\ torn' = TRUE
    /\ UNCHANGED <<player, cause, obs, counts, link, pc, events>>

Init ==
    /\ player = "away" /\ ptr = FALSE /\ torn = FALSE /\ cause = "none"
    /\ obs = Fresh
    /\ amnesty = [graced |-> FALSE, used |-> 0] /\ disk = amnesty
    /\ queue = <<>> /\ outgoing = FALSE /\ up = FALSE /\ bounces = 0
    /\ pc = "kill"
    /\ since = 0 /\ sent = FALSE
    /\ events = 0

Next ==
    \/ Kill \/ Observe \/ Send
    \/ OtherSave \/ Crash
    \/ Link \/ Bounce \/ Disconnect \/ Connect
    \/ Die \/ GoAway \/ Load \/ Hook

Spec == Init /\ [][Next]_vars

\* The loop runs, a dead player respawns and a load ends.
FairSpec ==
    /\ Spec
    /\ WF_vars(Kill) /\ WF_vars(Observe) /\ WF_vars(Send)
    /\ WF_vars(player = "dead" /\ GoAway) /\ WF_vars(Load) /\ WF_vars(Hook)

-----------------------------------------------------------------------------
Counters == [graced : BOOLEAN, used : 0 .. Allowance]

\* The type invariant.
TypeOK ==
    /\ player \in {"alive", "dead", "away"} /\ ptr \in BOOLEAN /\ torn \in BOOLEAN
    /\ obs \in [phase : {"unknown", "alive", "dead"}, streak : 0 .. ConfirmPolls - 1,
                echo : 0 .. EchoPolls]
    /\ amnesty \in Counters /\ disk \in Counters
    /\ queue \in Seq({"foreign", "own"}) /\ outgoing \in BOOLEAN
    /\ up \in BOOLEAN /\ bounces \in Nat
    /\ pc \in {"kill", "observe", "send"}
    /\ cause \in {"none", "own", "link", "counted"}
    /\ since \in Nat /\ sent \in BOOLEAN
    /\ events \in 0 .. MaxEvents

\* Every reported death is attributed to what caused it, once: the client's own
\* kill is never charged to the player or broadcast ("the classic DeathLink
\* echo loop"), a death of the player is never swallowed by a stale latch, and
\* neither a torn read nor a load is a death.
EdgesAreAttributed ==
    [][obs.phase = "alive" /\ obs'.phase = "dead"
        => cause = IF IsEcho(obs) THEN "link" ELSE "own"]_vars

\* The amnesty is never cut short: a send is decided only after the allowance
\* of own deaths plus one since the last, and one more for a graced first one,
\* whatever saves fail and whenever the process dies.
SendsAreEarned ==
    [][~outgoing /\ outgoing'
        => since >= Allowance + 1 + (IF Grace /\ ~sent THEN 1 ELSE 0)]_vars

\* Every link kills in the end, one respawn after the other, unless the process
\* dies with it.
EveryLinkLands == <>[](queue = <<>>)

\* The player does not die of a death of his own a second time.
OwnDeathStaysOut ==
    [][cause' = "link" /\ cause # "link" => Head(queue) = "foreign"]_vars
=============================================================================
