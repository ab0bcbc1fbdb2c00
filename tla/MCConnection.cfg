CONSTANT Runs <- MCRuns
SPECIFICATION Spec
INVARIANTS
    TypeOK
    SessionUndisturbed
    AlarmOutlivesOnlySsl
    SuccessLeavesNothing
PROPERTIES
    OpenReturns
    Opening
CHECK_DEADLOCK FALSE
