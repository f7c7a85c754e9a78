----------------------------- MODULE MCPayouts -----------------------------
(* Bounds for checking Payouts; see payouts_*.cfg and the README. *)
EXTENDS PayoutsRefine, TLC

MCAmounts == {1, 2}
MCCredits == {2}
MCDebit == {-1}

Symmetry == Permutations(Users) \cup Permutations(Wids)
            \cup Permutations(Calls) \cup Permutations(Receipts)
            \cup Permutations(AdjIds)
=============================================================================
