SPECIFICATION Spec
CHECK_DEADLOCK FALSE
CONSTANTS
    Steps <- OrderSaga
    MaxRuns = 2
    Tags = {"bad", "busy", "other"}
INVARIANTS EveryStepAccounted UndoneInReverse
PROPERTY SagaEnds
