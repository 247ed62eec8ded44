CONSTANTS
 MaxRuns = 2
 MaxEvents = 2
 MaxCuts = 0
SPECIFICATION Spec
INVARIANT DrivesSingleRun
CHECK_DEADLOCK FALSE
