----------------------------- MODULE MCConsole -----------------------------
(* Two workers; tiers with two and three steps, and some that are refused. *)
EXTENDS Console, TLC

T(min, max, multiplier) == [min |-> min, max |-> max, multiplier |-> multiplier]

TwoTiers == <<T(0, {2}, 0), T(2, {}, 10)>>
ThreeTiers == <<T(1, {3}, 0), T(3, {6}, 10), T(6, {}, 15)>>
Bodies == {TwoTiers, ThreeTiers, <<T(0, {}, 10)>>, <<T(0, {2}, 0), T(5, {}, 10)>>,
           <<T(0, {4}, 0), T(2, {}, 10)>>}

Symmetry == Permutations(Workers)

=============================================================================
