CONSTANTS
 MaxTasks = 2
 MaxRetries = 1
 MaxReplans = 1
 MaxModelCalls = 11
 MaxToolCalls = 2
 PlannerCalls = 12
 ExecutorCalls = 2
 ExecutorTools = 1
 MaxTokens = 2
 Reflection = TRUE
 ForceSynthesis = FALSE
 MemoryEnabled = TRUE
SPECIFICATION PageFairSpec
INVARIANT TypeOK
INVARIANT ExecutedInOrder
INVARIANT NoOpenTaskLeft
INVARIANT AnswerMatchesOutcome
INVARIANT LedgerTellsAll
INVARIANT FoldsAgree
INVARIANT PageTellsRun
PROPERTY FinalTasksKept
PROPERTY CancelPreventsDone
PROPERTY Terminates
PROPERTY ImplementsLifecycle
