---------------------------- MODULE MCCloudHome ----------------------------
(* One home: two containers, one edit, three archives of which two are kept, *)
(* two of them in the background at once; and a call that fails, a deletion  *)
(* whose calls may fail, or an eviction.                                    *)
EXTENDS CloudHome, TLC

MCTroubles == {[faults |-> 1, evictions |-> 0, deletes |-> 0],
               [faults |-> 0, evictions |-> 1, deletes |-> 0],
               [faults |-> 0, evictions |-> 0, deletes |-> 1]}

MCSymmetry == Permutations(Snapshots)
=============================================================================
