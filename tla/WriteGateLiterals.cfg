SPECIFICATION Spec
CONSTANTS
    Decl <- litDecl
    Iface = {}
    Foreign = {}
    Imported <- litImported
    SqlWrite = {"Exec"}
    TxScope = {"InTxScope"}
    Var <- litVar
    Lit <- litLit
    Opaque = Opaque
    Programs <- litPrograms
INVARIANTS
    HandlersReported
    ReportsJustified
PROPERTY
    RecollectStable
CHECK_DEADLOCK FALSE
