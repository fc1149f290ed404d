CONSTANT MAX_ATTEMPTS = 2
SPECIFICATION FairFlowSpec
INVARIANTS
    FlowTypeOK
    OutcomeRecordedOnce
    StepsReportedOnce
PROPERTIES
    KeepsPromise
    Decided
