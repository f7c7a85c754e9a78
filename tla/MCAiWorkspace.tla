--------------------------- MODULE MCAiWorkspace ---------------------------
(* A task on two files.                                                     *)
EXTENDS AiWorkspace, TLC

MCBase == [f \in Files |-> "base"]
MCProposed == <<"p1", "p2", "p3">>
MCPartial == ("p1" :> "h1") @@ [p \in {"p2", "p3"} |-> p]   \* p1 has several hunks
MCSymmetry == Permutations(Files)
MCTyped == <<"edit">>
=============================================================================
