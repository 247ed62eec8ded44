CONSTANTS
 MaxEvents = 2
 MaxCuts = 1
 MaxCrashes = 1
SPECIFICATION FairSpec
INVARIANT ViewIsPrefix
INVARIANT DeliveredIsDurable
PROPERTY PageCatchesUp
PROPERTY HubEmpties
CHECK_DEADLOCK FALSE
