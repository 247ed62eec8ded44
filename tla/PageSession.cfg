CONSTANTS
 MaxRuns = 3
 MaxEvents = 2
 MaxCuts = 1
SPECIFICATION FairSpec
INVARIANT ShowsOwnRun
INVARIANT OneRunAtATime
PROPERTY PageFollows
CHECK_DEADLOCK FALSE
