--------------------------- MODULE DurableRegister ---------------------------
(***************************************************************************)
(* What ReceiveLedger::save and ReceiveLedger::load promise together: the  *)
(* ledger on disk behaves like one register that holds a whole generation. *)
(* A commit replaces the generation by a newer one in a single step, and   *)
(* nothing else, a crash included, changes what the next load returns.     *)
(* The promise is about the client's own steps: it ends when something     *)
(* else damages the files, and is not taken up again.                      *)
(***************************************************************************)
EXTENDS Integers

VARIABLES
  value,    \* the generation the next load returns; 0 is the empty ledger
  damaged   \* something other than the client has touched the files

Init == value = 0 /\ damaged = FALSE

\* A save that takes effect publishes a generation newer than the last one.
Commit == ~damaged /\ damaged' = FALSE /\ value' \in Nat /\ value' > value

\* The register is damaged from outside, or already was.
Damage == damaged' = TRUE

Next == Commit \/ Damage

Spec == Init /\ [][Next]_<<value, damaged>>
=============================================================================
