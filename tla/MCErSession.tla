---------------------------- MODULE MCErSession ----------------------------
\* Small instances of ErSession.  Two rooms with different seeds and the same
\* AP slot name (reconcile.json cannot tell them apart), or two AP slots of one
\* seed.
EXTENDS ErSession, TLC

CONSTANTS r1, r2

Seeds      == (r1 :> "A") @@ (r2 :> "B")
OneSeed    == (r1 :> "A") @@ (r2 :> "A")
OneName    == (r1 :> "p") @@ (r2 :> "p")
TwoNames   == (r1 :> "p") @@ (r2 :> "q")

FirstStart == -2
NoStart    == 0

Faultless == [f \in Events |-> 0]
\* For the ledger: crashes, another room, torn marker writes and a recreated
\* character, and nothing to check.
Granting  == [Faultless EXCEPT !["crash"] = 1, !["rejoin"] = 1, !["torn"] = 1,
                               !["recreate"] = 1]
\* For the checks: a location taken before or after another room is joined.
Checking  == [Faultless EXCEPT !["crash"] = 1, !["rejoin"] = 1, !["take"] = 2]
Switching == [Faultless EXCEPT !["crash"] = 1, !["rejoin"] = 1, !["take"] = 1, !["switch"] = 1]

TwoItems == (r1 :> 2) @@ (r2 :> 0)
NoItems  == (r1 :> 0) @@ (r2 :> 0)
=============================================================================
