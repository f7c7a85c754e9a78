------------------------ MODULE MCReceiptDelivery ------------------------
(* ReceiptDelivery for TLC. *)
EXTENDS ReceiptDelivery, TLC

Symmetry == Permutations(ReceiptIds) \cup Permutations(Flushes)
=============================================================================
