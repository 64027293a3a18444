SPECIFICATION Spec
CONSTANTS
    Files <- files
    Absent = Absent
    Unreadable = Unreadable
INVARIANTS
    ReportedUntracked
    SilentCovered
