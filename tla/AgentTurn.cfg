CONSTANTS
 MaxIterations = 3
 RepairAttempts = 1
 MaxModelCalls = 7
 MaxToolCalls = 4
SPECIFICATION FairSpec
INVARIANT ToolCallsAnswered
INVARIANT CancelStopsSpending
PROPERTY ImplementsCall
CHECK_DEADLOCK FALSE
