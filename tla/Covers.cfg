SPECIFICATION FairSpec
CONSTANTS
    u1 = u1
    s1 = s1
    alice = alice
    Uploads = {u1}
    Library = {s1}
    Account <- OneAccount
    LinkTTL = 4
    UploadTTL = 5
    QueueBudget = 1
    RunBudget = 1
    Lag = 1
INVARIANTS TypeOK LinkOutlivesJob StagedIsTracked DeletedAccountLeavesNothing
PROPERTIES NothingStagedStays
