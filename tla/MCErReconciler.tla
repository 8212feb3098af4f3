---------------------------- MODULE MCErReconciler ----------------------------
EXTENDS ErReconciler

\* A key item whose flag is contested, and two copies of a progressive item of
\* one tier, the second an overflow consumable.
Key(g, F) == [goods |-> {g}, flags |-> F, ledger |-> "none"]

MCGoods  == {1, 2}
MCFlags  == {1, 2}
MCStream == <<Key(1, {1}), Prog, Prog>>
MCTiers  == <<Key(2, {2})>>

Answers(R, L, D) == [refuses |-> R, late |-> L, discards |-> D]
MCGames == {Answers({}, {}, {}), Answers({1}, {2}, {2})}
=============================================================================
