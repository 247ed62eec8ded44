CONSTANTS
 r1 = r1
 r2 = r2
 r3 = r3
 Runs = {r1, r2, r3}
 MaxRecords = 1
 ExpiryTicks = 1
 RecallLimit = 1
 MaxClock = 2
SPECIFICATION Spec
PROPERTY PinnedNeverPruned
CHECK_DEADLOCK FALSE
