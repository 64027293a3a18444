SPECIFICATION FairSpec
CONSTANTS
    Decl <- decls
    IfaceMethod <- ifaces
    Library = Library
    Plumbing = Plumbing
    Opaque = Opaque
    Programs <- packages
INVARIANTS
    CountsExactly
    InstrumentedExactly
    LoopsAreNotThin
PROPERTY
    Termination
CHECK_DEADLOCK FALSE
