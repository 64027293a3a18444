SPECIFICATION ProtoSpec
CONSTANT
    ProtoFiles <- nestedFiles
INVARIANT
    ReuseReported
