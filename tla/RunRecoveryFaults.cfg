CONSTANTS
 MaxTasks = 2
 MaxRetries = 1
 MaxReplans = 1
 MaxModelCalls = 6
 MaxToolCalls = 2
 PlannerCalls = 1
 ExecutorCalls = 1
 ExecutorTools = 1
 MaxTokens = 1
 Reflection = TRUE
 ForceSynthesis = FALSE
 MemoryEnabled = TRUE
 RecoveryEnabled = TRUE
 MaxCrashes = 2
 MaxFaults = 1
SPECIFICATION RecoverySpec
INVARIANT NoOrphanRun
INVARIANT InterruptedTasksClosed
INVARIANT RowsLeadLedger
PROPERTY FinishedUntouched
PROPERTY SealedLedger
