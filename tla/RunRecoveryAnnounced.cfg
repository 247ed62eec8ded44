CONSTANTS
 MaxTasks = 2
 MaxRetries = 1
 MaxReplans = 1
 MaxModelCalls = 6
 MaxToolCalls = 2
 PlannerCalls = 1
 ExecutorCalls = 1
 ExecutorTools = 1
 MaxTokens = 1
 Reflection = TRUE
 ForceSynthesis = FALSE
 MemoryEnabled = TRUE
 RecoveryEnabled = TRUE
 MaxCrashes = 1
 MaxFaults = 0
SPECIFICATION RecoverySpec
INVARIANT FinishedAnnouncedAfterRestart
