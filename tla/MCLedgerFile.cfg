\* Crashes and I/O errors at every file operation; receipts.json is lost or
\* truncated up to twice while the client is down.  A client that refuses to
\* start has stopped: deadlock is not an error here.
SPECIFICATION Spec
CONSTANTS
  LEDGER_LOCK_ATTEMPTS = 2
  MaxGen = 5
  MaxDamage = 2
INVARIANTS
  AtMostOneGenerationStale
PROPERTY RefinesRegister
CHECK_DEADLOCK FALSE
