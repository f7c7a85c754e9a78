\* Three views, two flushes at a time, a queue of two, one death of the editor.
CONSTANTS
    ReceiptIds = {r1, r2, r3}
    Flushes = {f1, f2}
    Cap = 2
    MaxCrashes = 1
SPECIFICATION DeliverySafeSpec
SYMMETRY Symmetry
INVARIANT DeliveryTypeOK
PROPERTY LeavesOnlyDecided
CHECK_DEADLOCK FALSE
