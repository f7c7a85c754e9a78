--------------------------- MODULE PayoutPromise ---------------------------
(***************************************************************************)
(* What the payout system promises a user, without handlers, ledger or     *)
(* statuses: each sum they ask for leaves their wallet once, and then is   *)
(* either sent, or put back, or sent and (when the transfer bounces) put   *)
(* back - so it is never both kept by them and missing, never put back     *)
(* twice, and one sum at most is on its way at a time.  Payouts implements *)
(* this (PayoutsRefine).                                                   *)
(***************************************************************************)
EXTENDS Integers

CONSTANTS Users, Wids, Nobody

VARIABLES
    wallet,     \* money each user may still ask for
    stage,      \* where each requested sum is
    owner,      \* whose it is
    sum         \* how much it is

vars == <<wallet, stage, owner, sum>>

Stages == {"unborn", "held", "sent", "back"}

Init ==
    /\ wallet = [u \in Users |-> 0]
    /\ stage = [w \in Wids |-> "unborn"]
    /\ owner = [w \in Wids |-> Nobody]
    /\ sum = [w \in Wids |-> 0]

(* Earning money, or having it corrected by any amount. *)
Change(u) ==
    /\ wallet' \in [Users -> Int]
    /\ \A v \in Users \ {u} : wallet'[v] = wallet[v]
    /\ UNCHANGED <<stage, owner, sum>>

(* Asking for any sum the wallet covers, with no other on its way. *)
Hold(u, w) ==
    /\ stage[w] = "unborn"
    /\ \A v \in Wids : owner[v] = u => stage[v] # "held"
    /\ sum'[w] \in Nat
    /\ sum'[w] <= wallet[u]
    /\ sum' = [sum EXCEPT ![w] = sum'[w]]
    /\ wallet' = [wallet EXCEPT ![u] = @ - sum'[w]]
    /\ stage' = [stage EXCEPT ![w] = "held"]
    /\ owner' = [owner EXCEPT ![w] = u]

Send(w) ==
    /\ stage[w] = "held"
    /\ stage' = [stage EXCEPT ![w] = "sent"]
    /\ UNCHANGED <<wallet, owner, sum>>

PutBack(w) ==
    /\ stage[w] \in {"held", "sent"}
    /\ stage' = [stage EXCEPT ![w] = "back"]
    /\ wallet' = [wallet EXCEPT ![owner[w]] = @ + sum[w]]
    /\ UNCHANGED <<owner, sum>>

Next ==
    \/ \E u \in Users : Change(u) \/ \E w \in Wids : Hold(u, w)
    \/ \E w \in Wids : Send(w) \/ PutBack(w)

Spec == Init /\ [][Next]_vars
=============================================================================
