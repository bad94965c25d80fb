SPECIFICATION Spec
CONSTANTS
    s1 = s1
    s2 = s2
    s3 = s3
    Submitted = {s1, s2, s3}
    NullifiersOf <- TwiceNullifiersOf
    AnchorBlock <- FirstBlock
    MaxPending = 1
    IsPriority = TRUE
    Periods = {"open", "ours"}
    BLOB_SIZE = 16
    MinTransactions = 1
    MaxTransactions = 1
    MaxBlobs = 1
    RecordsSaved = {TRUE}
    OtherSpends <- SpendsTwice
    MaxPosts = 2
    MaxDay = 0
    MaxDeposits = 0
    MaxFaults = 1
INVARIANTS
    AcceptedNotLost
    PendingHasOwner
    WaitingIsPending
    SpentAgainWasContested
SYMMETRY SameNote
