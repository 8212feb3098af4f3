---------------------------- MODULE MCLedgerFile -----------------------------
(* LedgerFile on a small instance: five generations, two lock attempts.   *)
EXTENDS LedgerFile
=============================================================================
