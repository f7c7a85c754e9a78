----------------------------- MODULE MCEarnings -----------------------------
(* Earnings for TLC. *)
EXTENDS Earnings, TLC

MCAmounts == {1}
MCCredits == {1}
MCCorrections == {-1}
=============================================================================
