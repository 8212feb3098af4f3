# A verification project for the From Software Archipelago clients

TLA+ models of the clients in this repository, the TLC runs that check them on
small instances, and proofs, checked by TLAPS, for every value of the constants.
Paths below are relative to the repository root; `bb/` abbreviates
`crates/bb-archipelago/src/`, `er/` `crates/eldenring-archipelago/src/` and `el/`
`crates/er-logic/src/`.

Contents: [1 The system](#1-the-system), [2 The models](#2-the-models),
[3 The runs](#3-the-runs), [4 Where the code and its comments disagree](#4-where-the-code-and-its-comments-disagree),
[5 The proofs](#5-the-proofs), [6 What is not modelled](#6-what-is-not-modelled),
[7 The plan](#7-the-plan), [8 Running it](#8-running-it).

## 1 The system

An Archipelago client connects a game to a multiworld server. The server sends a
stream of items, numbered from 0, and repeats it from the start on every
connection; the client must put each of them into the game exactly once, report
the locations the player checks, report the goal, and pass deaths on. The game is
a process the client does not control: it loads, dies, restores saves, and its
inventory changes by itself. That is where the difficulty of this code lies.

| Part | State it keeps | Operations | What is hard | What makes it correct |
|---|---|---|---|---|
| **Bloodborne ledger files** `bb/ledger.rs` | `receipts.json`, its `.tmp` and `.bak` | `save`, `load`, retries on file locks | death between two file operations; a torn file | a load returns the newest saved ledger, or the one before it, or refuses |
| **Bloodborne ledger rows** `bb/ledger.rs` | per slot: cursor, acknowledged items, the pending plan, requeue set, deferred Vials, save watermark | `begin`, `record_observed_before`, `mark_grant_complete`, `acknowledge`, `acknowledge_blocked`, `requeue_*`, `unblock`, `rewind`, `reconcile_save_watermark` | long sequences of legal calls | the plan is always the plan of the next index |
| **Bloodborne receive loop** `bb/client_loop.rs`, `bb/main.rs` | the row in memory and on disk | `poll_items` every 50 ms, `park_terminal_grant`, start-up reconciliation, `retry`, `bb-blocked` | death and failed saves between any two stages; state read before a wait and used after it | no index twice, none lost, every index settles |
| **Bloodborne native lane** `bb/native/{engine,delivery,guest,backend}.rs` | the one lane, latched verdicts, the grant session, request cells shared with the game thread | `grant_with_warning`, `poll_pending`, `poll_active`, `withdraw_unwitnessed` | two threads on the same cells, budgets that expire, an inventory that cannot be read | a grant is counted as made exactly when the game made it |
| **Bloodborne save reconciliation** `bb/client_loop.rs`, `bb/ledger.rs`, `bb/bin/bb-restored.rs` | the receive watermark in the save and in the ledger | compare, rewind, adopt, hold; attest a restore | saves, ledger and backend roll back independently | what a restore erased comes back, nothing else is repeated |
| **Bloodborne locations and goal** `bb/client_loop.rs`, `bb/main.rs`, `bb/event_flags.rs`, `bb/victory.rs` | flag streaks, checked set, victory record | poll flags, send checks, send the goal | order of sending and saving; a character switch in mid-streak | every check and the goal reach the server, none from another character |
| **Bloodborne DeathLink** `bb/client_loop.rs`, `bb/main.rs` | amnesty counters, the death detector | record a death, send, receive, kill | the client's own kill reads back as a death; the counter is saved after the decision | every death is attributed to its cause, the amnesty is not cut short, every link kills |
| **Bloodborne sustain and operator grants** `bb/client_loop.rs` | queued rewards, operator grants | `poll_sustain`, `poll_operator_grant` | they share the native lane with `poll_items` | the row that is polled is the one in the lane, nothing is granted twice, every row settles |
| Bloodborne attachment and installation `bb/native/{attach_wait,install,threads,save_identity}.rs` | suspended threads, the code cave, the bound save | attach, install, verify, bind | a partly installed hook | no request before the hook is whole |
| Archipelago protocol `crates/archipelago-rs` | connection state, received items, data-package cache | connect, update, events | resync of the item index, reconnects | the received stream has no hole and no repeat |
| Shared core `crates/shared` | connection, seed, event buffer, tags | `update`, `reconnect`, `reconcile_connection_tags` | reconnect against a different seed | never deliver to a save of another seed |
| Dark Souls III, Sekiro `crates/{ds3,sdt}-archipelago` | granted counter in the save, goal and death latches | `update_live` | the counter and the inventory are saved by the game | each item once per save |
| **Elden Ring reconciler** `el/reconcile.rs`, `er/reconcile_io.rs` | desired and observed state, stall guard, debt of refused goods, ledger frontier | `tick_with_classes`, `set_inputs`, `rearm_on_world_edge` | a game that accepts a write and does not keep it; loads at any time | one bounded burst per world, nothing forgotten, a fixpoint |
| **Elden Ring session** `el/marker.rs`, `el/seed_change.rs`, `el/check_report.rs`, `er/reconcile_io.rs`, `er/core.rs` | the marker in the save, `reconcile.json`, the armed driver, refusals, staged checks, poll baseline | `init`, `decide`, `tick`, `disarm`, the check flush and the flag poll | saves, the file beside the client and the room change independently | each item of a save's room once, no other room's items or checks |
| Elden Ring, the rest of `crates/{er-logic,eldenring-archipelago}` | hooks, trap queue, DeathLink gate, shops, scaling, tables | gather, apply, enforce | reads and writes of a running game | - |
| Codec, version gate `crates/{er-codec,er-semver}` | none | pure functions | signed halves, pre-release rules | agree with the reference definition |
| User interface `crates/{client-ui,standalone-egui,standalone-windows}` | newest snapshot, bounded action queue | publish, take, send | a stalled window | the worker never blocks |
| Tools `tools/` | none | generators | - | - |

How the Bloodborne parts interact. `main.rs` runs one loop. Each turn takes the
server's items from the protocol client, polls deaths and flags, and then calls
`poll_items` unless an operator grant holds the lane. `poll_items` works on the
ledger row in memory and saves it after every change it relies on; it drives the
native lane, which writes a descriptor and a request word into cells in the game's
memory, and later reads `done` and `result` back. The game's own thread serves the
cells. Sustain rewards use the same lane when no item is due. `bb-blocked` and
`bb-restored` are separate processes that load, change and save the same ledger.

How the Elden Ring parts interact. The client is loaded into the game. Every frame
`Core::update_live` checks whether the room has changed, builds or keeps the
reconciler's driver for the save that is loaded, lets it read the world and write
back what is missing, and reports the checks. The watermark of what was granted is
written into the save, in a band of event flags, and into `reconcile.json`.

The models start with the receive paths because an item handed over twice or lost
cannot be noticed later, and the code's own comments argue about nothing else at such
length. Then come the parts that decide *for whom* something is done, and the parts
that compete for one resource.

## 2 The models

```
DurableRegister  <--refines--  LedgerFile  <-- LedgerFileProofs
                               LedgerFile  <-- MCLedgerFile

SlotLedger <-- NativeGrant <-- ItemDelivery <-- ItemDeliveryProofs
    ^                          ItemDelivery <-- MCItemDelivery
    +--------- SaveReconciliation <-- SaveReconciliationProofs, MCSaveReconciliation

SharedLane                     <-- SharedLaneProofs,     MCSharedLane
LocationChecks                 <-- LocationChecksProofs, MCLocationChecks
DeathLink                      <-- DeathLinkProofs,      MCDeathLink

ErSession                      <-- ErSessionProofs,      MCErSession
ErReconciler                   <-- ErReconcilerProofs,   MCErReconciler
```

`SharedLane` composes the three users of the native lane at the level of whole polls;
`ItemDelivery` opens one of them up. Likewise `ErSession` says which save is served and
from where, and `ErReconciler` what one served save goes through.

### LedgerFile, DurableRegister

`ReceiveLedger::save` and `load`. A ledger is its generation number; a file holds a
generation, is `Absent` or is `Torn`. `StartSave`, `WriteTemporary`/`WriteFails`,
`CopyToBackup`, `Publish` are the file operations of `save` in order;
`RetrySharingViolation` and `GiveUp` are the bounded loop of `retry_io_with`; `Crash`
may come between any two, and may leave the file that was being written torn;
`DamageLive` stands for what happens to `receipts.json` from outside; `Load` and
`LoadRefused` are `load` with its fallback to `.bak`. `DurableRegister` is what the
three files promise: one cell whose value changes only to a newer generation.
That promise ends when something else damages the files.
`commits` is a history variable: the two newest published generations.

### SlotLedger

The row of one slot as a record, and its methods as operators, each with its guard
(`CanBegin`, `CanAcknowledge`, ...) where the method returns an error. The cursor is
`highest`; `acked[i]` is `"none"`, `"delivered"` or the class of a park: `"fixed"` (the
parks that `park_cause_is_fixed` selects), `"vial"` (the absent-Vial refusals that are
retried by themselves) or `"other"`; `pending` is the plan or `NoPlan`; `redeliver`,
`deferred` and `mark` are the requeue set, `deferred_vial_ap` and `save_watermark`.

### NativeGrant

`NativeDelivery` (lane, latched verdicts, released Vial refusals), the `GrantSession`
it drives, the request cells and the game thread. All goods are one consumable with
one stack; equipment has no stack. Each grant has quantity 1. `PollPending` has one
disjunct for each way `poll_pending` returns (inventory unreadable, absent but not
long enough, already at the expected total, mismatch, absent-Vial refusal, lane busy,
publish), `PollActive` one for each way `poll_active` returns (not done, witnessed,
surplus, re-planned, storage retry or exhaustion, another look, budget spent). The game thread is
external: it takes a request and then either hands the unit over (to the pouch or to
storage) and sets `done`, or discards or refuses it; each of these may also happen in the
middle of a withdrawal (`GameRaces`).

`applied[i]` counts what the game really handed over. No code reads it; the
properties do. `used` bounds the environment: `Limits[d]` is how often disturbance `d`
may happen (`crash`, `savefail`, `spend`, `pick`, `move`, `storage`, `refuse`, `retry`,
`unblock`, `race`).

### ItemDelivery

`poll_items` over both. `pc` is the stage of the poll, so a death, a load, the player
or the game thread may come between any two stages; one stage is a stretch of the
function with at most one ledger save or one call into the native lane.

| `pc` | Code |
|---|---|
| `idle` | `retry_deferred_vials_if_ready` at the head of `poll_items` |
| `next` | next index, runtime context |
| `plan` | `plan_item`, `begin`, or the durable plan |
| `baseline` | the three cases FRESH, RETAINED, BINDING of the baseline |
| `grant`, `poll` | `grant_item` into the engine: latched verdict, submit, continue; then one poll of the session |
| `verdict` | `mark_grant_complete` or `park_terminal_grant` |
| `equip`, `ack` | auto-equip, `acknowledge` |
| `withdraw`, `clear` | `withdraw_stale` and `forget_observed_baseline`, in two steps because the game may run between the reads and the write |
| `requeue` | `requeue_fixed_cause_parks` at start-up |
| `down` | no process |

`Commit` is `ledger.save`: it succeeds, or it fails and the poll ends with the change in
memory only, which is what `?` does in the code. `StartUp` loads the row and runs
`reconcile_pending_command`. `RetryBlocked` is the operator's `retry INDEX CONFIRM`,
`ConfirmBlocked` is `bb-blocked INDEX --confirm`, run while the client is down.

### SaveReconciliation

`reconcile_watermark` and the watermark writes, with whole polls as steps (the stages
are ItemDelivery's business). `save` is the loaded save: how often it holds each index,
and its watermark; `copies` are older saves the player can load. `supported` chooses
between a backend with a writable save field and attested mode, where the operator
runs `bb-restored`. Only the mock backend implements the field today; the native
backend keeps the trait's defaults and is in attested mode. The history variables
`reordered` and `erased` name the indices whose order or watermark was broken on the
way; the properties exempt exactly these and section 4 says what happens to them.

### SharedLane

One pass of the loop over the lane: `OperatorPoll`, `ItemPoll` and `SustainPoll` in turn, chosen
by `pc`; `Poll` is whichever is next. A row of the ledger is a tag (item, operator grant
or sustain key) with a state and an observed baseline; `Verdict` is what `grant_item`
answers for it, which is "busy" when another command has the lane. `Give` is `rescue_give`,
`Check` queues a sustain reward, `Reconnect` empties the received list and `Receive` fills
it (between two passes, because the loop reads the connection at the head of a pass).
`Serve` is the game, `LeavePlay`/`ReturnToPlay` loads, `Crash`/`StartUp` the process.

Each command has a stack of its own, saves of the ledger succeed and the save carries no
watermark: those questions are ItemDelivery's and SaveReconciliation's. `crossed` is a
history variable: a row was put before the one whose command is in the lane, either
because `give` named a lower id or because a reconnect hid the item in the lane while
another row recorded its baseline. Section 4 says what follows.

### LocationChecks

`poll_locations_at` and what the loop does with its answer. `Poll` follows the identity
(`Follow`), reads the polled locations, counts the streaks (`Counted`), and then performs
its effects in the order of the code: goal status, victory record, sustain rows, checks.
The process may die after any of them (`Effects` gives the outcomes). `PollHeld` is a poll
in gameplay that forgets the streaks and retries: a held watermark, a read error or a
missing identity. `RetryDue` is the end of a back-off, `Echo` the room's
confirmation, `Collect` another client of the slot. A read is torn at most once, right
after a load. The socket is up, down, or a *zombie*: dead and not yet noticed, so that
what is written into it is lost without an error.

### DeathLink

The three parts of a pass (`Kill`, `Observe`, `Send`) with the game, the socket and the
process between them. `Observed` is `LocalDeathObserver::observe` with its confirmation
streaks and its echo latch, `Recorded` is `record_qualifying_local_death` with grace and
allowance, and the save of the counter may fail. `OtherSave` is a ledger save for another
reason, which carries the counter to disk. A load lasts for at least one poll that
answers `None`; only the first read through a new pointer may be torn; the kill's read,
check and write are one step; `death_link` and `death_link_send` are on. A death decided
offline is sent after the reconnect.
`cause`, `since` and `sent` are history variables: what really happened to the player.

### ErSession

One player, one process, several rooms and saves. `WorldFrame` is one pass of `update_live`
in the world: the guards against another seed and another AP slot of the same seed
(`SeedChecked`; only the first asks `DisarmIfIdentityMoved`), the reconciler's initialisation from marker and `reconcile.json` (`Inited`, `Decided`,
`Seeded`), the ledger walk up to some item, the marker write (`Commit`: the inactive half
of the band, then the selector; `TornCommits` when it is cut short), the store, the check
batch (`Flushed`), the flag poll with its baseline, and the backfill of start items.
`MenuFrame` ticks too, which keeps the entry of `reconcile.json`, and releases a refusal;
the marker it commits goes to event flags that the next load replaces. `Load`, `Save`, `Quit`, `Recreate`, `PlayOn`, `TakeLocation`,
`Reconnect`, `Receive`, `Crash` are the player, the game and the room.

Assumed: the inventory pointer resolves on the first frame in the world, and the flag
holder is up then. `flags::in_world` does not ask the holder, and a holder that is not up
reads as a save without a marker (`er/reconcile_io.rs:1651`): the code would arm for that
save, another room's included. Also assumed: `reconcile.json` is written; `marker::identity_hash` is injective; start items are not used up; no
location is taken before the first poll; one location stands for all. The older receive
path with its cursor is not modelled (`received_through` is 0 when the driver starts).

### ErReconciler

One served character. `Frame(holder, ptr)` is `Driver::tick`: rebuild the desired state from
the stream (`DesiredGoods`, `DesiredFlags`, progressive copies as tiers and overflow),
read the world, diff, write within the budgets, read back, count refusals (`Tried`,
`Parked`), record the debt, walk the ledger with what the budget leaves (`Walked`), save
`reconcile.json`. `holder` and `ptr` say whether the flag holder and the inventory pointer
are there: without the holder no marker is found at init, no flag is seen, and neither
companion flags nor the marker are written. `Fickle` changes how the game answers (refused, shown a frame late, discarded
flags), `Vanilla` clears a contested flag, `Lose` takes a good away, `Leave`, `Arrive`,
`Settle`, `Unsettle` are the stages of a load, a death or a talk window, `Warp` is a warp
requested in the world, which moves the epoch as both edges of a load do, `Save` and `Crash`
the game's.

Assumed: `SlotData::seal_flags` is empty, as in the live client; the stream is empty
while disconnected; fewer flags are contested at a time than a frame may write (32,
which the code does not guarantee). The verdict that a character is a fresh one, which
clears the debt, is not modelled: the character resumes.

## 3 The runs

| Run | Checks | Instance | Shows |
|---|---|---|---|
| `ledger_file` | `AtMostOneGenerationStale`, `RefinesRegister` | 5 generations, 2 lock attempts, 2 damages | the files are one register under crashes and I/O errors, until they are damaged from outside; a damaged live file costs at most one generation, or the client refuses to start |
| `delivery_play` | `TypeOK`, `NothingLost`, `AutoRetryIsUnapplied` | one good, one auto-equipped weapon; the player spends 2 and loots 1; a stored and 2 refused inserts; a failed save | a live session loses nothing, and only unapplied grants are retried unasked |
| `delivery_anything` | `PlanIsNext`, `LaneServesPlan`, `OwnRetryReachesGame`, `DeferredIsParked` | 2 Vials and every disturbance but refusals and storage, once each | plan, lane, requeue set and deferred set never contradict each other |
| `delivery_live` | `AtMostOnce`, `BaselineDurable`, `EveryItemSettles` | 2 goods, one each of crash, load, refusal, failed save, spend | the durable baseline recognises an applied grant after a restart, while the stack is `Kept`; it is on disk whenever a request is out, within the exemptions of `BaselineDurable`; and the stream never stops |
| `save_reconciliation` | `TypeOK`, `NoDuplicate`, `ResumeIsComplete`, `ErasedTailComesBack` | 2 items, 2 restores, every other mishap once | restores in any order with the other mishaps |
| `bb_lane` | `TypeOK`, `HandedOverOnce`, `LaneIsPolled`, `RowsSettleUnlessCrossed` | one item, one operator grant, two sustain rewards, one a Vial; 2 mishaps | the three users of the lane never wait for each other, unless a row is put before the one in the lane |
| `bb_checks` | `NoFalseCheck`, `SustainQueuedFirst`, `VictoryMeansSent`, `EveryCheckArrives`, `GoalArrivesUnlessLost` | the goal and a location with a sustain reward, 2 characters, debounce 2, 3 mishaps | no check is false, none is lost, no reward is lost |
| `bb_death` | `EdgesAreAttributed`, `SendsAreEarned`, `EveryLinkLands` | allowance 1 with grace, 2 polls to confirm, a latch of 6, 7 events | own deaths, kills and loads are told apart in any order |
| `er_grants` | `TypeOK`, `OncePerSave`, `NothingSkipped`, `ForeignSaveUntouched` | 2 rooms of one slot name, one save slot, a start item, a stream of 2 with one echo; crash, room change, torn marker, recreated character once each | a save gets every item of its room, once, and no other room's |
| `er_checks` | `ChecksStayHome`, `EveryCheckReported`, `RefusalReleases` | 2 rooms, 2 save slots, a crash, a room change, 2 pickups | a room is told of its own saves' checks, and in the end of all of them |
| `er_reconciler` | `OneBurstPerEdge`, `OnlyDiscardedFlagsPark`, `RefusedIsOwed`, `DebtNeedsWitness`, `Converges` | 2 goods, 2 flags, one contested, a progressive item with overflow, 2 attempts, 3 events | bounded bursts, durable debts, convergence |
| `lane_give` | `EveryRowSettles`, violated | 2 operator grants, nothing goes wrong | section 4 |

**Bounds.** `N = 2` indices give a pending and a later one, which is what the cursor,
the requeue set and the lane distinguish; the third index would only repeat the
second. `MaxStack = 2` has the three stacks that matter: absent, present with room,
full. Poll budgets of 2 have a first, a last and an exhausted poll; the storage limit
of 1 has a retry and an exhaustion. Two rooms with one slot name are what
`reconcile.json` cannot tell apart, and one save slot makes them meet in it. `EchoPolls = 6`
is longer than a death screen and a respawn, so that a latch could outlive them;
`Debounce = 2` is the least with a first and a last read. Two sustain keys have a
published and a merely queued reward. The limits of the disturbances are the bounds that
hide most: two crashes, or a crash and a looted unit, do break
properties, and section 4 lists which. What is proved holds for all bounds.

**Deadlock** is checked in the delivery and the Elden Ring session runs. Elsewhere the
system may come to rest: a client that refuses to start, a save that is up to date, a
converged reconciler, a room that has every check.

**Fairness.** The same reasons everywhere: the main loop sleeps 50 ms and polls again,
frames keep coming, a killed client is started again, loads end, the game's hook runs in
its frame loop. Nothing is assumed of the player, the operator's commands, how the game
answers, or when a process or a socket dies. In detail:

- `ItemDelivery`: `WF(ClientStep)`, `WF(GameRuns)`, `WF(Recovery)` (the inventory hydrates).
  Weak fairness suffices because a poll stage stays enabled until it is taken.
- `SaveReconciliation`: `WF(Poll)`, the field becomes readable again, and in attested mode
  the operator attests the restore.
- `SharedLane`: `WF` of `Poll`, `StartUp`, `Serve("complete")`, `ReturnToPlay`; `SF(Receive)`,
  because the connection is read only at the head of a pass and `Receive` is disabled
  between two heads.
- `LocationChecks`: `WF` of the polls, `RetryDue`, `Reconnect`, `Arrive`, `Echo`, `Notice` (TCP
  and the keep-alive find a dead socket), and the player loads some character.
- `DeathLink`: `WF` of the three parts of a pass, of the respawn, `Load` and `Hook`.
- `ErSession`: `WF(GoodFrame)`: frames on which socket, bag and flag holder are up, and
  which poll, recur.
- `ErReconciler`: `WF` of `Arrive`, `Settle`, `Receive`, `Clock` and of a frame in a stable
  world with both pointers.

**Mutants.** Each property of a passing run has a mutated definition in the model's
module (`SettleKeepsLane`, `FollowKeepsStreaks`, `RewindCursorOnly`, ...), a bug this code
could plausibly have, with which the same run violates the property.

## 4 Where the code and its comments disagree

The run `lane_give` violates `EveryRowSettles`. `poll_operator_grant` takes the first
unfinished row of a map ordered by item id (`bb/client_loop.rs:1757`), and `rescue_give`
adds a row without looking at the lane. Given a lower id while the higher one's command
is in the lane, every poll submits the lower one and is refused as busy; `main.rs` takes
the error as busy and skips `poll_items`; nobody polls the command in the lane again. The
repository says an operator row must not "hold the lane, and stop `poll_items` for the
rest of the session" (`bb/client_loop.rs:1840`); `next_sustain` has the rule that is
missing here (`bb/client_loop.rs:548`).

The following are violated by the same models with other constants, and have no
configuration of their own. To see one, put the property and the constants into the
configuration of its module.

In `ItemDelivery` (the `Limits` are defined in `MCItemDelivery`, one item is enough):

- `BaselineDurable` without its exemptions. A failed save, `SaveFails`: "Written durably
  BEFORE the grant can execute" (`bb/ledger.rs:476`); a failed save of the baseline ends
  the poll with the baseline in memory, and the next poll takes it for a recorded one.
  A unit looted and a unit used, with a load: while the session waits for the inventory
  the client records a newer baseline and the session keeps the first; the stack goes
  back to the first, and the request is published against it. A hand-over after a crash,
  or in a raced withdrawal, can take the place of the looted unit.
- `AtMostOnce` without what `Kept` exempts; each is a way to hand an index over twice.
  `CrashTwiceInLoad`: "Only a proof of non-application may unbind the baseline"
  (`bb/native/engine.rs:212`), but a restart while the inventory is unreadable changes the
  session's status to `awaiting_inventory`, which unbinds a baseline whose grant was
  applied; the session still has the old one, and a second death loses it. The others: a
  crash with a failed save or a used unit, or with a looted one and a second crash (the
  mismatch parks as a fixed cause, which start-up requeues); `CrashAfterStorage`;
  `OneCrashOnly` with `CapKnown`, where a unit beyond the cap is stored; `RacingLoad`.
- `RetryReachesGame`, `OperatorRetries`. A park is recorded "so `retry INDEX CONFIRM` can
  re-queue it" (`bb/native/delivery.rs:690`). In the same session the engine's latched
  verdict answers the retry, and the index parks again without an attempt.
- `EveryItemSettles`, `ToolConfirms` and `IsVial`. Deferred Vials are parked "so later AP
  indices can progress" (`bb/ledger.rs:42`). `bb-blocked --confirm` leaves the index in
  `deferred_vial_ap`; once a Vial stack exists, every poll fails before it delivers.
- `NothingLost` without its exemption of looted units, `PickUp`: the player loots exactly the granted quantity while the grant waits; the
  stack equals the expected total, the grant counts as `recovered_complete`, the item is
  lost. `BaselineIsCurrent` is violated too: the ledger observes a RETAINED baseline
  again, the session keeps the number it was submitted with.
- `NothingLost` with a failed save and a crash: an index that was handed over but could not
  be recorded is taken, after the restart, for the hand-over of the index on disk.
- `CrashThenPickUp`: an applied grant is parked as `quantity_mismatch`, which start-up
  requeues as a park whose cause is fixed (`AutoRetryIsUnapplied`).
- `AtMostOnce` for gear, `OneCrashOnly` with `Equipment = {0}`: no stack to compare with, so
  the replayed grant is handed over again (the code states this limitation,
  `bb/native/delivery.rs:893`). A stored unit is as invisible.
- `RacingLoad`: the game takes the request between the reads and the write of
  `withdraw_unwitnessed`; the grant is applied and withdrawn. `AtMostOnce` does not survive
  it, nor would `AutoRetryIsUnapplied` without its condition on races.
- A re-planned grant or a storage retry is published against a live quantity that is
  never recorded, which is why `BaselineDurable` speaks of the first attempt only.

In `LedgerFile`, `SaveKeepsReadable`: the `.bak` "is what `load` falls back to"
(`bb/ledger.rs:336`). The first save after such a fallback copies the torn live file over
the good backup before it renames.

In `SharedLane`, `EveryRowSettles` with one sustain key and `MaxEvents = 1`: a reconnect
empties the item list, a pass before the list arrives sees no item due and publishes the
sustain row's baseline (`bb/client_loop.rs:2547`, `:2555`), and the item in the lane is not
polled any more; "AP waits at most one sustain budget, never indefinitely" (`:2543`).

In `LocationChecks`, `GoalArrives`: "If this send fails, the next poll sees the flag as new
and retries both" (`bb/main.rs:2039`). A write into a dead socket that nobody has noticed
does not fail; the victory is recorded and the goal status is never sent again.

In `DeathLink`, `OwnDeathStaysOut`: the room sends a broadcast back to its sender, and the
loop queues it like any other (`bb/main.rs:1614`). The Dark Souls III client says "Always
ignore death links that we sent" and does.

In `ErSession`:

- `ChecksNeverLeak` with `Switching`: checks staged on one save are flushed for another room
  after the player changes character in one process (`er/core.rs:5029`); and checks picked
  up on a save that is being refused are staged (`er/core.rs:1293` has no guard).
- `BaselineIsOwn`: the baseline of the flag poll is captured from whichever save is in the
  world (`er/core.rs:3576`), a refused one included.
- `ForeignSaveUntouched` without `Steady`, `OneSeed` with `TwoNames` and a budget for `reslot`: another
  AP slot of the same seed rebuilds the tables, but only another seed asks the armed
  reconciler, which goes on with the driver of the first slot.
- A driver that is refused because the room changed stays so, although the message says
  "or reconnect to the original one".
- `OncePerSave` exempts a process that dies after a torn marker write: the older cursor
  grants the items again. The code prefers that to a loss.

And in `SaveReconciliation`, where the properties exempt them by name:

- a failed watermark write ("the delivery stands", `bb/client_loop.rs:2917`) or a retry
  out of order leaves the save's watermark below the cursor; the next poll takes it for
  a restored save and, after a restart, delivers again;
- a save older than the first watermark reads as unreadable and is held for as long as
  it is loaded;
- in attested mode, deliveries between the restore and the attestation are repeated by
  the rewind;
- a restore between `mark_grant_complete` and the acknowledgement loses the item; the
  operator's `reissue` exists for it and is not modelled yet;
- a lost ledger together with an unreadable field is taken for attested mode, so
  `LoseLedger` requires a readable one;
- saves of two diverging playthroughs are excluded (`RestoreSave` drops the copies made
  later): with them a watermark says nothing about what the save holds.

## 5 The proofs

`LedgerFileProofs`, from `LedgerFileAssumption` (at least one lock attempt, natural
bounds):

- `LedgerFileTypeOK`, with `TypeInv`: after the write, the temporary is the generation
  being saved.
- `LedgerFileStale`: `AtMostOneGenerationStale`. The inductive part `StaleInv` says which
  generations each file may hold, and that a client that found no live file has a
  backup as new as itself: otherwise publishing once more would leave the backup two
  behind.
- `LedgerFileRefines`: `Spec` implements the durable register, whose promise ends with the
  first outside damage. `FileInv` carries the argument: until then the live file is never
  torn and never disappears, and what is being saved is newer than what a load returns,
  so only the rename changes the abstract value. What damage costs is `LedgerFileStale`.

`ItemDeliveryProofs`, from `SlotLedgerAssumption`, `NativeGrantAssumption` and
`ItemDeliveryAssumption` (at least one item, at least one poll in each budget, a stack
that can hold something, equip targets are equipment): `DeliveryTypeOK`,
`DeliveryPlanIsNext`, `DeliveryLaneServesPlan`, for any number of items, any budgets and
any number of crashes, failed saves, races and operator commands. None of the three
is inductive alone. `IInv` adds

- `Good` of both copies of the row: typed, and the plan is the plan of the next index.
  Each ledger operation has a lemma that it keeps a row good; the two that matter are
  the requeues, which are refused or do nothing beside a plan;
- `LaneOpen`: a lane that is held has no verdict yet, so that the poll that latches one
  can free it;
- `StageInv`: what each stage of the poll relies on from the stages before it, such as a
  plan that is not granted while `pc` is in `baseline`..`verdict`, `lane = Cur` at `poll`, and a
  verdict at `verdict`. Without it a state in the middle of a poll could have lost its
  plan.

`PollOutcome` sums up the native session: a poll either goes on without a verdict or
latches one and frees the lane. With it every action is one step of the induction.

The other six results add one layer of invariants each, and each layer is proved on its
own from those below:

- `DeliveryDeferredIsParked`, `DeliveryOwnRetryReachesGame`. `RowsInv`: in both copies of the
  row a requeued index has no acknowledgement, nothing above the cursor has one, and a
  deferred reward is parked as a Vial until `bb-blocked` is run. `LatchInv`: an index without
  an acknowledgement that nobody asked for has no latched failure, but in the stage that
  is about to park it; start-up begins with no verdicts. `StepMovesRows` sums up what any
  step may do to a row.
- `DeliveryAutoRetryIsUnapplied`, and the first half of `DeliveryAtMostOnce`, as long as no
  client died and no withdrawal was raced (`Alone`). `OwnerInv`: the active session's request is the lane's.
  `LiveInv`: a request in the cell has an active session, and `done` is not set before it is
  served. `OnceInv`: an index is either not handed over beyond what the operator asked for,
  or handed over once more and known so, by a verdict of completion or `other`, or by the
  executed result that its session has yet to read. `PollCase` divides the polls of the
  session into those that wait, publish, start over and judge, the last with its `Evidence`.
- `DeliveryNothingLost`, as long as nothing is looted, `bb-blocked` is not run, and not both
  a save failed and a client died (`Sound`). `PublishInv`: the ways a request may be published.
  `SyncInv`: without failed saves memory and disk have the same plan. `RequestInv`: a request
  in the cell is that of the plan, in a process that died and was started again too.
  `StackInv`: the stack is above the baseline of the plan, or of the session, only if the
  grant was applied. `DeliveredInv`: what is complete, granted or acknowledged was applied.
- `DeliveryBaselineDurable`. Whether the published baseline is the recorded one depends on
  the stack's having moved in one direction only. Without a used unit (`Rising`), the
  session's baseline is at most the plan's, which is at most the stack (`RiseInv`). In a
  live client without looting (`Level`), it is the other way round until the hand-over is
  known (`LevelInv`). `OrderInv` keeps the three in order while the request is unsent; when
  the session finds the stack at its baseline they are equal, and `SentInv` says they stay
  so, because a published request binds the baseline.
- `DeliveryAtMostOnce` over deaths of the client, for goods, while the stack is `Kept`.
  `PlanInv`: the grant of the open plan is `Clean` (not handed over, and the stack is where
  the baselines of the plan and of the session say) or `Landed`. A landed grant is known
  to the client (`Told`), or the stack is one unit above the baseline that the next
  process reads from disk, so that its session finds the expected total and publishes
  nothing. One step weakens this: after a load the client may record the raised stack as a
  new baseline, because a waiting session counts as not applied. Then the session's own
  baseline is still the old one (`Late`), and only a second death loses it, which is the
  condition of `Kept` on crashes around a load. `HandedInv` carries the count beyond the
  plan: what was handed over once more than asked is acknowledged, or parked as `other`,
  which nothing requeues unasked. Four invariants hold this up across a restart: `TagInv`
  (a waiting session is the lane's; without a load the inventory is readable), `ShelfInv`
  (a deferred entry is a parked Vial or resolved; what disk calls acknowledged, memory did
  or the tool), `FreshInv` (a request in the cell has no verdict yet) and `InsertInv` (an
  insert of goods with an unknown cap is one into an empty pouch, so it is never stored).

`SharedLaneProofs`, from `LaneAssumption` (finitely many operator grants and sustain keys, a
positive sustain budget) and `NoneAssumption`: `LaneTyped`, `NothingHandedOverTwice`,
`LanePolled`. The inductive invariant has six parts: `RowInv` (a row without a baseline was
never handed over), `CellInv` and `EngineInv` (request, lane and row belong together, also
over a death), `QueueInv` (items are planned in order, one sustain row has a baseline),
`AheadInv` (a row with a baseline that is polled before the lane's was not handed over, or
its baseline would not protect it) and `UncrossedInv` for `LaneIsPolled`.

`SaveReconciliationProofs`, from `SaveReconciliationAssumption`: `ReconciliationTyped`,
`NothingDuplicated`, `ResumesComplete`, for any number of items, copies, restores and
mishaps. `ChainInv` says the copies are one playthrough, each older than the next; a
restore is then a step back on it. `MarkInv` says what a watermark is worth: nothing above
it is in the save, everything delivered below it is. `AttestInv` is the same of the cursor
in attested mode, and `GrantInv` covers the time between the grant and the
acknowledgement. All are relative to the indices delivered out of order and to those a
restore erased.

`ErSessionProofs`, from `SessionAssumption` (there is a longest stream; `Home` is a room; seed
and slot name identify a room) and `DriverAssumption`: `SessionTyped`, `GrantedOncePerSave`,
`NoneSkipped`, `ForeignSavesUntouched`, `ChecksHome`, for any rooms, slots, streams and budgets.
The parts of `IInv` are predicates of a character, of a client and of the events so far,
because a frame passes through clients and characters that no state shows: `CharOK` (below
the marker's cursor everything is in the bag; without a torn write nothing else is),
`DriverOK` (the same of the driver's frontier), `ClientOK` (refused, armed and initialised
agree), `RoomOK` (the tables, and the driver, are those of the connected room unless the
next frame sees that they are not) and `PendingOK`. `FreshInv` covers the time before any driver.

Two corrections of the models came from these proofs. `Reconnect` used to count a change
between AP slots of one seed by comparing the new room with the last one; with two
rejoins between two frames the guard, which compares with the seed it has *parsed*, can
be passed by although each rejoin changes the seed (`Reslots`). And a raced withdrawal was
bounded but not counted, so that a property could not name it.
`AtMostOnce` was stated with too few exemptions: it held in its run because of the run's
limits, and `Kept` is what the search for an inductive invariant left over.

Where the code takes the least element of a set (`NextIndex`, the first deferred Vial, the
lowest row), the proofs take it from the well-foundedness of the natural numbers, as
induction over data is out of reach.

`ErReconcilerProofs`, from `ReconcilerAssumption` (finite sets of goods and flags, at least
one attempt): `ReconcilerTyped`, `BurstsBounded`, `ParkedAreDiscarded`, `RefusedOwed`,
`DebtsWitnessed`, for every stream, every budget and every behaviour of the game. `IInv`
is `TypeOK` and `Guard`: in an armed reconciler the guard's own counters equal the number
of refusals the game has really made since the last edge, and parked means the counter
is full (`Gauge`); parked goods are owed, and what is owed in memory is owed on disk; an
edge the guard has not noticed yet finds nothing refused since. `BegunOK` and the
lemmas after it carry `Gauge` through the two halves of a frame.

`LocationChecksProofs`, from `ChecksAssumption` (a debounce of at least 2): `ChecksTyped`,
`NoCheckIsFalse`, `SustainPrecedesCheck`, `VictoryFollowsSend`. `IInv` adds `StreaksAreReal`
(what was read true twice was earned) and `TornIsFirst` (a read that may be torn is the
first of its streak, because the load before it, or the change of character, has
cleared the streaks).

`DeathLinkProofs`, from `DeathLinkAssumption` (at least 2 polls to confirm, a latch that
outlives the confirmation): `DeathLinkTyped`, `EdgesAttributed`, `SendsEarned`. `IInv` adds
`Forgotten` (an unread world finds an observer that has forgotten the last one), `Living`,
`Dying` (a player believed alive who is dead died of himself with no latch, or of the
kill with a latch exactly as old as the streak) and `Counts` of the counter in memory and
of the one on disk.

Every invariant that a run checks is a theorem. Only model-checked is all liveness:
`EveryItemSettles`, `ErasedTailComesBack`, `RowsSettleUnlessCrossed`,
`EveryCheckArrives`, `GoalArrivesUnlessLost`, `EveryLinkLands`, `EveryCheckReported`,
`RefusalReleases` and `Converges`. The prover handles neither fairness nor `ENABLED`, nor
induction over data, nor modules with `RECURSIVE` operators, of which there are none here.

## 6 What is not modelled

- In the receive path: quantities above 1 and several consumables; category-255 flag
  grants and category-8 gem allocation; auto-upgrade repricing (`refresh_pending_upgrade`);
  `requeue_now_compatible_parks`, `recover_historical_vial_refusals`,
  `rescue_reissue_pending`; the tools run beside a live client; loss of the page cache
  after a rename. `write_error` of `queue_native` is left out because the live runtime does
  not reach it: it needs a stack without a quantity address, and `find_stack` of the guest
  always gives one (`bb/native/guest.rs:382`).
- Around the lane: census and rescue recipes (batches of `give`), the legacy
  `deferred_sustain_capacity` set, the received-items index and its resync in the protocol
  client.
- In Elden Ring: the older receive path with its cursor, the trap queue, the DeathLink
  gate, dry-run and partial ownership of classes, hooks, shops, scaling, region
  enforcement.
- The shared core, Dark Souls III and Sekiro (planned), the codec and the version gate,
  attachment and installation, windows and tools.

Time is counted in polls and frames; back-off delays are a state without a length.
Each part is listed with its reason in `PROJECT.json`: memory scanning, hooks and thread
suspension are operating-system calls; tables, text and windows hold no state the
properties are about. Most of the repository by lines is generated tables
(`el/mfg_match_data.rs`), data, hooks and tests.

## 7 The plan

1. Proofs: the steps of `SharedLane` as steps of the receive path's lane.
2. `Connection` and the shared core: reconnect, resync and seed conflict; abstract
   specification: the prefix of the server's stream. Dark Souls III and Sekiro granting
   composed with it.
3. The tools beside a running client; `reissue_pending` and the other start-up requeues.
4. `SemverRange` and `ItemDecode` as operators checked against reference definitions.

## 8 Running it

`tlc -config MCDeliveryLive.cfg MCItemDelivery` (and likewise the other `.cfg` files, in
this directory) checks a run; `tlapm ItemDeliveryProofs.tla` and likewise the other seven
`*Proofs` modules check the proofs. `PROJECT.json` lists components, runs, mutants, the
source lines of every definition, findings, hazards and theorems.
