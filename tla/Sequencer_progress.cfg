SPECIFICATION FairSpec
CONSTANTS
    s1 = s1
    s2 = s2
    s3 = s3
    Submitted = {s1, s2}
    NullifiersOf <- ApartNullifiersOf
    AnchorBlock <- FirstBlock
    MaxPending = 2
    IsPriority = FALSE
    Periods = {"open", "theirs"}
    BLOB_SIZE = 31
    MinTransactions = 2
    MaxTransactions = 2
    MaxBlobs = 1
    RecordsSaved = {FALSE}
    OtherSpends <- NoSpends
    MaxPosts = 1
    MaxDay = 1
    MaxDeposits = 1
    MaxFaults = 1
PROPERTIES
    FirstComeFirstServed
    FullBlobLeavesAlone
