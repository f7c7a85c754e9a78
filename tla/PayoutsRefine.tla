--------------------------- MODULE PayoutsRefine ---------------------------
(***************************************************************************)
(* Payouts implements PayoutPromise: the wallet is the available balance,  *)
(* and a withdrawal's status says where its sum is.                        *)
(***************************************************************************)
EXTENDS Payouts

StageOf(s) ==
    CASE s = "none" -> "unborn"
      [] s \in InFlight -> "held"
      [] s = "paid" -> "sent"
      [] OTHER -> "back"

Promise == INSTANCE PayoutPromise WITH
    Nobody <- NoUser,
    wallet <- [u \in Users |-> balance[u].available],
    stage <- [w \in Wids |-> StageOf(status[w])],
    sum <- amount

(* What happens to the money is what PayoutPromise allows, step by step.    *)
KeepsPromise == Promise!Spec
=============================================================================
