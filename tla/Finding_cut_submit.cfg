SPECIFICATION Spec
CONSTANTS
    BodiesCut = TRUE
    MaxTransient = 3
    MaxStoreRetries = 5
    FetchAttempts = 4
    Payloads <- MCAudio
INVARIANTS RejectedIsNotEnqueued
CHECK_DEADLOCK FALSE
