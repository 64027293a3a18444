SPECIFICATION Spec
CONSTANTS
    Passes <- passes
    Fields <- taggedFields
    Function <- functionNames
    Package <- packages_
    WholePrograms <- wholePrograms
INVARIANTS
    EveryTriggerReports
    OffGoroutineReported
    OuterAssertionsReported
    LostCancelsReported
    SpanFaultsReported
    CorrectFunctionSilent
    UnflaggedReturnsReported
    CallsReportedOnce
    AttrVerdictExact
    FactsJustified
    FactsWhateverOrder
PROPERTY RunsEnd
