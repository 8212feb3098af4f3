---------------------------- MODULE MCSharedLane ----------------------------
(***************************************************************************)
(* Instances of SharedLane.                                                 *)
(***************************************************************************)
EXTENDS SharedLane

\* Two operator grants: the second may be given while the first has the lane.
TwoOps == {1, 2}

OneOp == {1}

\* The Vial and the bullet of one location.
MCKeys == {-1, 1}
MCVials == {-1}

NoKeys == {}
=============================================================================
