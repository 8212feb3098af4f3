---------------------------- MODULE LocationChecks ----------------------------
(***************************************************************************)
(* Location checks and the goal of the Bloodborne client: event flags read  *)
(* from the game, debounced, reported to the room until the room confirms   *)
(* them, with the goal status and the sustain rewards that ride on a check. *)
(*                                                                          *)
(* Poll is the part of one pass of the main loop from poll_locations to     *)
(* mark_checked.  Its four effects reach the outside one after another (the *)
(* goal status, the victory record, the sustain queue, the checks), and the *)
(* process may die after any of them.  A socket may be dead without anyone  *)
(* having noticed: what is written into it is lost without an error.        *)
(***************************************************************************)
EXTENDS Integers, FiniteSets

CONSTANTS
    Locations,  \* the locations of the slot
    Goal,       \* config.goal_location
    Suppressed, \* those whose vanilla award is suppressed: they earn sustain
    Saves,      \* the characters the player loads
    Debounce,   \* config.location_check_debounce
    MaxEvents,  \* bound on crashes, dead sockets, failed saves and the like
    None

ASSUME ChecksAssumption ==
    /\ Goal \in Locations /\ Suppressed \subseteq Locations
    /\ Debounce \in Nat /\ Debounce >= 2
    /\ MaxEvents \in Nat
    /\ None \notin Saves

VARIABLES
    loaded,   \* the character in gameplay, None outside
    torn,     \* the next poll is the first since a load: its reads may be torn
    flags,    \* the event flags each character has earned
    loop,     \* ClientLoop and the main loop: what the process remembers
    ledger,   \* receipts.json: the sustain rows and the victory record
    sock,     \* "up", "zombie" (dead and not yet noticed) or "down"
    view,     \* server_checked_locations of the connection
    wire,     \* what was sent and neither arrived nor got lost yet
    room,     \* the room: the checks it has and whether the goal was reached
    lost,     \* a goal status was written into a dead socket
    events    \* how many of those have happened

vars == <<loaded, torn, flags, loop, ledger, sock, view, wire, room, lost, events>>

-----------------------------------------------------------------------------
Retries == {"none", "wait", "due"}
Quiet   == [l \in Locations |-> 0]
NoRetry == [l \in Locations |-> "none"]
Nothing == [goal |-> FALSE, checks |-> {}]

\* A process starts: goal_reported is restored from the victory record.
NewLoop(victory) == [identity |-> None, streaks |-> Quiet, retries |-> NoRetry,
                     victory |-> victory, reported |-> victory]

Happens == events < MaxEvents /\ events' = events + 1

-----------------------------------------------------------------------------
(***************************************************************************)
(* poll_locations_at.                                                       *)
(***************************************************************************)
Forget(m) == [m EXCEPT !.streaks = Quiet, !.retries = NoRetry]

\* Mutant: the streaks of the previous character are kept.
FollowKeepsStreaks(m) == [m EXCEPT !.identity = loaded]

\* Another character than the one the streaks were counted on.
Follow(m) == IF m.identity = loaded THEN m ELSE [Forget(m) EXCEPT !.identity = loaded]

\* Mutant: a location the room has is not read again, the goal included.
PolledUnlessChecked(m) == Locations \ view

\* The locations read: not those the room has, except a goal whose victory is
\* not recorded.
Polled(m) == Locations \ (view \ (IF m.victory THEN {} ELSE {Goal}))

\* One read of every polled location, of which R read true.
Counted(m, R) ==
    [m EXCEPT !.streaks = [l \in Locations |-> IF l \in Polled(m) \cap R
                                               THEN IF @[l] < Debounce THEN @[l] + 1 ELSE Debounce
                                               ELSE 0],
              !.retries = [l \in Locations |-> IF l \in Polled(m) \cap R THEN @[l] ELSE "none"]]

NewlyChecked(m) ==
    {l \in Locations : m.streaks[l] >= Debounce /\ m.retries[l] \in {"none", "due"}}

Backoff(m) == [m EXCEPT !.retries = [l \in Locations |->
                          IF l \in NewlyChecked(m) THEN "wait" ELSE @[l]]]

\* should_submit_goal.
SubmitGoal(m, new) == ~m.reported /\ Goal \in new

-----------------------------------------------------------------------------
(***************************************************************************)
(* The client.                                                              *)
(***************************************************************************)
Sent(w, goal, checks) ==
    IF sock = "up" THEN [goal |-> w.goal \/ goal, checks |-> w.checks \cup checks] ELSE w

\* Mutant: the checks go out before their sustain rewards are queued.
EffectsChecksFirst(m, new, done, saves) ==
    LET goal == SubmitGoal(m, new) /\ done >= 1
        won  == SubmitGoal(m, new) /\ done >= 2 /\ saves
    IN  /\ ledger' = [sustain |-> IF done >= 4 THEN ledger.sustain \cup (new \cap Suppressed)
                                  ELSE ledger.sustain,
                      victory |-> ledger.victory \/ won]
        /\ wire' = Sent(wire, goal, IF done >= 3 THEN new ELSE {})
        /\ lost' = (lost \/ (goal /\ sock = "zombie"))

\* Mutant: the victory is recorded before the goal status is sent.
EffectsVictoryFirst(m, new, done, saves) ==
    LET goal == SubmitGoal(m, new) /\ done >= 2
        won  == SubmitGoal(m, new) /\ done >= 1 /\ saves
    IN  /\ ledger' = [sustain |-> IF done >= 3 THEN ledger.sustain \cup (new \cap Suppressed)
                                  ELSE ledger.sustain,
                      victory |-> ledger.victory \/ won]
        /\ wire' = Sent(wire, goal, IF done >= 4 THEN new ELSE {})
        /\ lost' = (lost \/ (goal /\ sock = "zombie"))

\* The first `done` of: set_status(Goal), record_victory, whose save may fail
\* without stopping anything, queue_sustain_for_checks, mark_checked.
Effects(m, new, done, saves) ==
    LET goal == SubmitGoal(m, new) /\ done >= 1
        won  == SubmitGoal(m, new) /\ done >= 2 /\ saves
    IN  /\ ledger' = [sustain |-> IF done >= 3 THEN ledger.sustain \cup (new \cap Suppressed)
                                  ELSE ledger.sustain,
                      victory |-> ledger.victory \/ won]
        /\ wire' = Sent(wire, goal, IF done >= 4 THEN new ELSE {})
        /\ lost' = (lost \/ (goal /\ sock = "zombie"))

\* A poll in gameplay: it reads the flags of the character, or anything right
\* after a load.
Reads == IF torn THEN SUBSET Locations ELSE {flags[loaded]}

Poll ==
    /\ loaded # None /\ sock # "down"
    /\ torn' = FALSE
    /\ \E R \in Reads : \E m \in {Counted(Follow(loop), R)} : \E new \in {NewlyChecked(m)} :
           \/ \E saves \in BOOLEAN :
                /\ IF saves THEN UNCHANGED events ELSE SubmitGoal(m, new) /\ Happens
                /\ Effects(m, new, 4, saves)
                /\ loop' = [Backoff(m) EXCEPT !.reported = @ \/ SubmitGoal(m, new),
                                              !.victory = @ \/ SubmitGoal(m, new)]
                /\ UNCHANGED <<sock, view>>
           \/ \E done \in 0 .. 3 :
                /\ new # {} /\ Happens
                /\ Effects(m, new, done, TRUE)
                /\ loop' = NewLoop(ledger'.victory)
                /\ sock' = "down" /\ UNCHANGED view
    /\ UNCHANGED <<loaded, flags, room>>

\* Outside gameplay every poll forgets the streaks and the retries.
PollOutside ==
    /\ loaded = None /\ sock # "down"
    /\ loop # Forget(loop)
    /\ loop' = Forget(loop)
    /\ UNCHANGED <<loaded, torn, flags, ledger, sock, view, wire, room, lost, events>>

\* So do a held watermark, a read error and a missing identity in gameplay.
PollHeld ==
    /\ loaded # None /\ sock # "down" /\ Happens
    /\ loop' = Forget(loop)
    /\ UNCHANGED <<loaded, torn, flags, ledger, sock, view, wire, room, lost>>

\* LOCATION_RETRY_INITIAL, doubled up to LOCATION_RETRY_MAX, elapses.
RetryDue ==
    /\ \E l \in Locations : loop.retries[l] = "wait"
    /\ loop' = [loop EXCEPT !.retries = [l \in Locations |-> IF @[l] = "wait" THEN "due" ELSE @[l]]]
    /\ UNCHANGED <<loaded, torn, flags, ledger, sock, view, wire, room, lost, events>>

\* Mutant: what was reported before the connection broke counts as checked.
ReconnectTrustsReports ==
    /\ sock = "down"
    /\ sock' = "up" /\ view' = room.checks \cup {l \in Locations : loop.retries[l] # "none"}
    /\ loop' = [loop EXCEPT !.retries = NoRetry]
    /\ UNCHANGED <<loaded, torn, flags, ledger, wire, room, lost, events>>

\* Event::Connected: the room's checks come with it, and
\* reset_location_retry_backoff.
Reconnect ==
    /\ sock = "down"
    /\ sock' = "up" /\ view' = room.checks
    /\ loop' = [loop EXCEPT !.retries = NoRetry]
    /\ UNCHANGED <<loaded, torn, flags, ledger, wire, room, lost, events>>

-----------------------------------------------------------------------------
(***************************************************************************)
(* The socket, the room, the game and the player.                           *)
(***************************************************************************)

\* What was sent arrives, one message at a time.
Arrive ==
    \/ /\ wire.goal
       /\ wire' = [wire EXCEPT !.goal = FALSE] /\ room' = [room EXCEPT !.goal = TRUE]
       /\ UNCHANGED <<loaded, torn, flags, loop, ledger, sock, view, lost, events>>
    \/ /\ wire.checks # {}
       /\ wire' = [wire EXCEPT !.checks = {}]
       /\ room' = [room EXCEPT !.checks = @ \cup wire.checks, !.ours = @ \cup wire.checks]
       /\ UNCHANGED <<loaded, torn, flags, loop, ledger, sock, view, lost, events>>

\* RoomUpdate.
Echo ==
    /\ sock = "up" /\ ~(room.checks \subseteq view)
    /\ view' = view \cup room.checks
    /\ UNCHANGED <<loaded, torn, flags, loop, ledger, sock, wire, room, lost, events>>

\* The socket dies: what is under way is lost, and so is what follows until
\* the client notices.
Die ==
    /\ sock = "up" /\ Happens
    /\ sock' = "zombie" /\ wire' = Nothing
    /\ lost' = (lost \/ wire.goal)
    /\ UNCHANGED <<loaded, torn, flags, loop, ledger, view, room>>

Notice ==
    /\ sock = "zombie"
    /\ sock' = "down"
    /\ UNCHANGED <<loaded, torn, flags, loop, ledger, view, wire, room, lost, events>>

\* Another client of the slot checks a location.
Collect(l) ==
    /\ l \notin room.checks /\ Happens
    /\ room' = [room EXCEPT !.checks = @ \cup {l}]
    /\ UNCHANGED <<loaded, torn, flags, loop, ledger, sock, view, wire, lost>>

Earn(l) ==
    /\ loaded # None /\ l \notin flags[loaded]
    /\ flags' = [flags EXCEPT ![loaded] = @ \cup {l}]
    /\ UNCHANGED <<loaded, torn, loop, ledger, sock, view, wire, room, lost, events>>

Quit ==
    /\ loaded # None /\ Happens
    /\ loaded' = None /\ torn' = FALSE
    /\ UNCHANGED <<flags, loop, ledger, sock, view, wire, room, lost>>

\* Loading the same character takes a loading screen the loop polls through.
Load(c) ==
    /\ loaded = None
    /\ loop.identity = c => loop = Forget(loop)
    /\ loaded' = c /\ torn' = TRUE
    /\ UNCHANGED <<flags, loop, ledger, sock, view, wire, room, lost, events>>

\* The process dies between polls and starts again.
Crash ==
    /\ Happens
    /\ loop' = NewLoop(ledger.victory) /\ sock' = "down"
    /\ UNCHANGED <<loaded, torn, flags, ledger, view, wire, room, lost>>

Init ==
    /\ loaded = None /\ torn = FALSE
    /\ flags = [c \in Saves |-> {}]
    /\ ledger = [sustain |-> {}, victory |-> FALSE]
    /\ loop = NewLoop(FALSE)
    /\ sock = "down" /\ view = {} /\ wire = Nothing
    /\ room = [checks |-> {}, ours |-> {}, goal |-> FALSE]
    /\ lost = FALSE
    /\ events = 0

Next ==
    \/ Poll \/ PollOutside \/ PollHeld
    \/ RetryDue \/ Reconnect
    \/ Arrive \/ Echo \/ Die \/ Notice
    \/ \E l \in Locations : Collect(l) \/ Earn(l)
    \/ Quit \/ (\E c \in Saves : Load(c))
    \/ Crash

Spec == Init /\ [][Next]_vars

\* The loop keeps polling and reconnecting, a dead socket is noticed, a live
\* one delivers, and the player plays.  What the player earns and when the
\* process or the socket dies is not fair.
FairSpec ==
    /\ Spec
    /\ WF_vars(Poll) /\ WF_vars(PollOutside)
    /\ WF_vars(RetryDue) /\ WF_vars(Reconnect)
    /\ WF_vars(Arrive) /\ WF_vars(Echo) /\ WF_vars(Notice)
    /\ WF_vars(\E c \in Saves : Load(c))

-----------------------------------------------------------------------------
Rooms == [checks : SUBSET Locations, ours : SUBSET Locations, goal : BOOLEAN]
Loops == [identity : Saves \cup {None}, streaks : [Locations -> 0 .. Debounce],
          retries : [Locations -> Retries], victory : BOOLEAN, reported : BOOLEAN]

\* The type invariant.
TypeOK ==
    /\ loaded \in Saves \cup {None} /\ torn \in BOOLEAN
    /\ flags \in [Saves -> SUBSET Locations]
    /\ loop \in Loops
    /\ ledger \in [sustain : SUBSET Locations, victory : BOOLEAN]
    /\ sock \in {"up", "zombie", "down"} /\ view \subseteq Locations
    /\ wire \in [goal : BOOLEAN, checks : SUBSET Locations]
    /\ room \in Rooms /\ lost \in BOOLEAN
    /\ events \in 0 .. MaxEvents

\* Only what some character really earned is reported, and the goal only when
\* its flag is: a torn read on either side of a load or of a change of
\* character never adds up to a check.
NoFalseCheck ==
    /\ \A l \in room.ours \cup wire.checks : \E c \in Saves : l \in flags[c]
    /\ room.goal \/ wire.goal => \E c \in Saves : Goal \in flags[c]

\* A check the client reported has its sustain reward in receipts.json, so a
\* death between the two never loses it.
SustainQueuedFirst == (room.ours \cup wire.checks) \cap Suppressed \subseteq ledger.sustain

\* A recorded victory means the goal status was sent, lost or not.
VictoryMeansSent == ledger.victory => room.goal \/ wire.goal \/ lost

\* Every check reaches the room: a flag the played character has, however the
\* socket and the process died, is in the end in the room.
Kept(l) == loaded # None /\ l \in flags[loaded]
EveryCheckArrives == \A l \in Locations : (<>[]Kept(l)) => <>(l \in room.checks)

\* So does the goal, also when another client checked the goal location and
\* when the victory record could not be saved, unless the one status was
\* written into a dead socket.
GoalArrivesUnlessLost == (<>[]Kept(Goal)) => <>(room.goal \/ lost)

\* The goal reaches the room.
GoalArrives == (<>[]Kept(Goal)) => <>room.goal
=============================================================================
