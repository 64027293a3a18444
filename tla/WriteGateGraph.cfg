SPECIFICATION FairSpec
CONSTANTS
    Decl <- graphDecl
    Iface <- graphIface
    Foreign <- graphForeign
    Imported <- graphImported
    SqlWrite = {"Exec"}
    TxScope = {}
    Var = {}
    Lit = {}
    Opaque = Opaque
    Programs <- graphPrograms
INVARIANTS
    MarksJustified
    ExportsComplete
PROPERTIES
    ImplementsMarking
    OrderIndependent
    Termination
CHECK_DEADLOCK FALSE
