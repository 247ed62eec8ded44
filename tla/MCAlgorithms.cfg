SPECIFICATION Spec
CONSTANTS
    Library <- MCLibrary
    MaxStored = 5
    Terms = 2
    Ks = {0, 1, 2, 3}
    CharBudgets = {0, 1, 4, 5, 6, 7}
    MinScore = 50
    MinPerItem = 3
    Scale = 20
    MaxText = 6
    RepairAttempts = 2
    MaxTasks = 2
    MaxListed = 4
    Floors = {0, 5, 7}
    Numbers <- MCNumbers
INVARIANT LessonsFit
INVARIANT SelectionJustified
INVARIANT PinnedFirst
INVARIANT ScanFindsFirst
INVARIANT VerdictJustified
INVARIANT PlanUsable
CHECK_DEADLOCK FALSE
