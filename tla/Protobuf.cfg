SPECIFICATION ProtoSpec
CONSTANT
    ProtoFiles <- files
INVARIANTS
    ReuseReal
    ReuseCounted
    GapsExact
    PIIExact
