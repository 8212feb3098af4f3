----------------------------- MODULE LedgerFile ------------------------------
(***************************************************************************)
(* The receive ledger's files (crates/bb-archipelago/src/ledger.rs):       *)
(* ReceiveLedger::save writes receipts.tmp, copies receipts.json to        *)
(* receipts.bak and renames the temporary over receipts.json;              *)
(* ReceiveLedger::load reads receipts.json, else receipts.bak.             *)
(*                                                                         *)
(* A ledger's content is abstracted to its generation number: every        *)
(* mutation the client makes before a save makes the next generation, and  *)
(* generation 0 is ReceiveLedger::default().  A file is absent, torn (it   *)
(* exists and json::from_slice refuses it) or holds one generation.        *)
(***************************************************************************)
EXTENDS Integers

CONSTANTS
  LEDGER_LOCK_ATTEMPTS,  \* tries of a copy or rename that meets a file lock
  MaxGen,                \* bound: generations the client makes
  MaxDamage              \* bound: times something else truncates or removes
                         \* receipts.json while the client is down

ASSUME LedgerFileAssumption ==
  /\ LEDGER_LOCK_ATTEMPTS \in Nat \ {0}
  /\ MaxGen \in Nat
  /\ MaxDamage \in Nat

VARIABLES
  live,     \* receipts.json
  bak,      \* receipts.bak
  tmp,      \* receipts.tmp
  mem,      \* the generation in the client's memory
  pc,       \* where the client is: in save, between saves, or not running
  attempt,  \* retry_io_with's loop variable
  damage,   \* times receipts.json has been damaged from outside
  commits   \* history: the newest generation of the ledger the client continues
            \* and the one published before it; 0 stands for none

vars == <<live, bak, tmp, mem, pc, attempt, damage, commits>>

Absent == -1
Torn   == -2
Gens   == 0 .. MaxGen
File   == Gens \cup {Absent, Torn}

Readable(f) == f \notin {Absent, Torn}

TypeOK ==
  /\ live \in File /\ bak \in File /\ tmp \in File
  /\ mem \in Gens
  /\ pc \in {"running", "write", "copy", "rename", "down", "refused"}
  /\ attempt \in 1 .. LEDGER_LOCK_ATTEMPTS
  /\ damage \in 0 .. MaxDamage
  /\ commits \in Gens \X Gens

Init ==
  /\ live = Absent /\ bak = Absent /\ tmp = Absent
  /\ mem = 0
  /\ pc = "running"
  /\ attempt = 1
  /\ damage = 0
  /\ commits = <<0, 0>>

-----------------------------------------------------------------------------
(* ReceiveLedger::save, one action per file-system call.                   *)

\* The client changes its ledger and calls save.
StartSave ==
  /\ pc = "running" /\ mem < MaxGen
  /\ mem' = mem + 1
  /\ pc' = "write"
  /\ attempt' = 1
  /\ UNCHANGED <<live, bak, tmp, damage, commits>>

\* fs::write(&temporary, bytes), and the path.exists() test after it.
WriteTemporary ==
  /\ pc = "write"
  /\ tmp' = mem
  /\ pc' = IF live = Absent THEN "rename" ELSE "copy"
  /\ UNCHANGED <<live, bak, mem, attempt, damage, commits>>

\* A plausible bug: save writes receipts.json in place.
WriteInPlaceFails ==
  /\ pc = "write"
  /\ live' \in {live, Torn}
  /\ pc' = "running"
  /\ UNCHANGED <<bak, tmp, mem, attempt, damage, commits>>

\* fs::write fails with the temporary untouched or half written: save
\* returns the error and the client keeps the newer ledger in memory.
WriteFails ==
  /\ pc = "write"
  /\ tmp' \in {tmp, Torn}
  /\ pc' = "running"
  /\ UNCHANGED <<live, bak, mem, attempt, damage, commits>>

\* A plausible bug: the backup is made once and never refreshed.
CopyOnceToBackup ==
  /\ pc = "copy"
  /\ bak' = IF bak = Absent THEN live ELSE bak
  /\ pc' = "rename" /\ attempt' = 1
  /\ UNCHANGED <<live, tmp, mem, damage, commits>>

\* fs::copy(path, &backup) succeeds.
CopyToBackup ==
  /\ pc = "copy"
  /\ bak' = live
  /\ pc' = "rename" /\ attempt' = 1
  /\ UNCHANGED <<live, tmp, mem, damage, commits>>

\* fs::rename(&temporary, path) succeeds: the commit point.
Publish ==
  /\ pc = "rename"
  /\ live' = tmp
  /\ tmp' = Absent
  /\ pc' = "running" /\ attempt' = 1
  /\ commits' = <<tmp, commits[1]>>
  /\ UNCHANGED <<bak, mem, damage>>

\* The file one call of the retried operation may leave half written.
DisturbBackup == IF pc = "copy" THEN bak' \in {bak, Torn} ELSE bak' = bak

\* retry_io_with: a sharing violation before the last attempt is retried.
RetrySharingViolation ==
  /\ pc \in {"copy", "rename"} /\ attempt < LEDGER_LOCK_ATTEMPTS
  /\ attempt' = attempt + 1
  /\ UNCHANGED <<live, bak, tmp, mem, pc, damage, commits>>

\* retry_io_with gives up: the last attempt failed, or the error is not a
\* sharing violation.  save returns the error.
GiveUp ==
  /\ pc \in {"copy", "rename"}
  /\ DisturbBackup
  /\ pc' = "running" /\ attempt' = 1
  /\ UNCHANGED <<live, tmp, mem, damage, commits>>

-----------------------------------------------------------------------------
(* Crash, damage and ReceiveLedger::load.                                  *)

\* The client is killed.  A write or copy in progress leaves a torn file;
\* the rename is atomic.
Crash ==
  /\ pc \in {"running", "write", "copy", "rename"}
  /\ pc' = "down" /\ attempt' = 1
  /\ IF pc = "write" THEN tmp' \in {tmp, Torn} ELSE tmp' = tmp
  /\ DisturbBackup
  /\ UNCHANGED <<live, mem, damage, commits>>

\* receipts.json is lost or truncated while no client runs.
DamageLive ==
  /\ pc = "down" /\ damage < MaxDamage /\ Readable(live)
  /\ live' \in {Absent, Torn}
  /\ damage' = damage + 1
  /\ UNCHANGED <<bak, tmp, mem, pc, attempt, commits>>

\* read_generation on both files, as load combines them: what the next
\* start sees, or Torn when load returns the live file's error.
LoadResult ==
  IF Readable(live) THEN live
  ELSE IF Readable(bak) THEN bak
  ELSE IF live = Torn THEN Torn ELSE 0

\* ReceiveLedger::load succeeds and the client starts from its result.
Load ==
  /\ pc = "down" /\ LoadResult # Torn
  /\ mem' = LoadResult
  /\ pc' = "running"
  /\ commits' = IF Readable(live) THEN commits ELSE <<LoadResult, LoadResult>>
  /\ UNCHANGED <<live, bak, tmp, attempt, damage>>

\* load returns an error: run() ends before any item is delivered.
LoadRefused ==
  /\ pc = "down" /\ LoadResult = Torn
  /\ pc' = "refused"
  /\ UNCHANGED <<live, bak, tmp, mem, attempt, damage, commits>>

Next ==
  \/ StartSave \/ WriteTemporary \/ WriteFails
  \/ CopyToBackup \/ Publish \/ RetrySharingViolation \/ GiveUp
  \/ Crash \/ DamageLive \/ Load \/ LoadRefused

Spec == Init /\ [][Next]_vars

-----------------------------------------------------------------------------
(* Properties.                                                             *)

Register == INSTANCE DurableRegister WITH value <- LoadResult, damaged <- damage > 0

\* The files implement one atomic register: what the next load returns
\* changes only when a save's rename commits, and then to a newer
\* generation, wherever save is interrupted or gives up (ledger.rs:322), as
\* long as nothing else has touched receipts.json.
RefinesRegister == Register!Spec

\* However receipts.json is damaged while the client is down, the next start
\* finds the newest generation or the one before it, or refuses to start;
\* the only start from an empty ledger is one with neither file usable and
\* receipts.json gone ("One generation of staleness is recoverable; an empty
\* ledger is not", ledger.rs, load).
AtMostOneGenerationStale ==
  \/ LoadResult \in {commits[1], commits[2], Torn}
  \/ live = Absent /\ ~Readable(bak)

\* A step of the client never leaves load without a readable generation when
\* it had one: the backup is "what `load` falls back to if the live file is
\* ever lost or truncated" (ledger.rs, save).
SaveKeepsReadable ==
  [][LoadResult # Torn /\ damage' = damage => LoadResult' # Torn]_vars
=============================================================================
