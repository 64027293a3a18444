SPECIFICATION Spec
CONSTANTS
    Packages <- packages
    Param = {"p", "q"}
    Other = Other
INVARIANTS
    RedundantNeverNil
    RedundantFound
    HalvesAgree
