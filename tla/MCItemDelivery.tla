--------------------------- MODULE MCItemDelivery ---------------------------
(***************************************************************************)
(* Instances of ItemDelivery for TLC: which disturbances each run allows,  *)
(* and how often.                                                          *)
(***************************************************************************)
EXTENDS ItemDelivery

Allow(some) ==
  [d \in Disturbances |-> IF d \in DOMAIN some THEN some[d] ELSE 0]

\* The player uses and loots the consumable, and the disk fails now and then.
Playing  == Allow([spend |-> 2, pick |-> 1, move |-> 1, refuse |-> 2, storage |-> 1,
                   savefail |-> 1])
\* The client dies in the middle of anything, during loads, refusals and a
\* failed save: what must neither stop the stream for good nor repeat a grant.
Living   == Allow([spend |-> 1, move |-> 1, refuse |-> 1, savefail |-> 1, crash |-> 1])
\* Everything at once, the operator and the tool included.
Anything == Allow([crash |-> 1, retry |-> 1, unblock |-> 1, race |-> 1, pick |-> 1, spend |-> 1,
                   move |-> 1, savefail |-> 1])

\* The smallest disturbances that refute a property which the code's comments
\* state without them.
SaveFails         == Allow([savefail |-> 1])
PickUp            == Allow([pick |-> 1])
CrashThenPickUp   == Allow([crash |-> 1, pick |-> 1])
OneCrashOnly      == Allow([crash |-> 1])
CrashAfterStorage == Allow([crash |-> 1, storage |-> 1])
CrashTwiceInLoad  == Allow([crash |-> 2, move |-> 1])
RacingLoad        == Allow([race |-> 1, move |-> 1])
OperatorRetries   == Allow([retry |-> 1, refuse |-> 1])
ToolConfirms      == Allow([crash |-> 1, unblock |-> 1, pick |-> 1])
=============================================================================
