SPECIFICATION Spec
CONSTANT
    Trees <- trees
INVARIANTS
    SuccessMeansClean
    AllOrNothing
    FailsOnErrors
