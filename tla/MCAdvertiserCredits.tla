------------------------ MODULE MCAdvertiserCredits ------------------------
(* Bounds for checking AdvertiserCredits; see credits_*.cfg and the README. *)
EXTENDS AdvertiserCredits, TLC

Symmetry == Permutations(Orders) \cup Permutations(Refunds)
            \cup Permutations(Disputes) \cup Permutations(Campaigns)
            \cup Permutations(Calls)
=============================================================================
