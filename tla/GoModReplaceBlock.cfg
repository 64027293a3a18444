SPECIFICATION Spec
CONSTANTS
    Files <- blockFiles
    Absent = Absent
    Unreadable = Unreadable
INVARIANT
    SilentTracked
