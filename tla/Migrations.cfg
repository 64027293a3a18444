SPECIFICATION Spec
CONSTANTS
    Trees <- trees
    Unlistable = Unlistable
    KeyColumn = {"id"}
    MaxInt = 24
INVARIANTS
    CleanIsSequential
    GapsReportedOnce
    ContentComplete
