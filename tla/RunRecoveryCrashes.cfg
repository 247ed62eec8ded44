CONSTANTS
 MaxTasks = 3
 MaxRetries = 1
 MaxReplans = 1
 MaxModelCalls = 7
 MaxToolCalls = 3
 PlannerCalls = 8
 ExecutorCalls = 2
 ExecutorTools = 1
 MaxTokens = 1
 Reflection = FALSE
 ForceSynthesis = TRUE
 MemoryEnabled = FALSE
 RecoveryEnabled = TRUE
 MaxCrashes = 2
 MaxFaults = 0
SPECIFICATION RecoveryFairSpec
PROPERTY EventuallyTerminal
PROPERTY OutcomeFinal
