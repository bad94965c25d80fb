SPECIFICATION FairEventLoopSpec
CONSTANTS
    START = 1
    MaxTime = 4
    DAY = 1
    CHALLENGE_PERIOD = 2
    MAX_DEPOSITS = 1
    MAX_LEAVES = 10
    BLOB_SIZE = 60
    BLOCKS_PER_DAY = 8
    Anchors = {g}
    GENESIS_ANCHOR = g
    Sequencers = {p}
    Blobs = {Good, Bad}
    Good = Good
    Bad = Bad
    NoHash = NoHash
    Submissions <- MCSubmissions
    CONFIRMATIONS = 0
    LOOKBACK = 2
    MAX_RETRIES = 2
    HasWrongLeaf <- MCHasWrongLeaf
    None = None
    MaxEvents = 3
    MaxFaults = 2
    MaxBlocks = 3
    TxBlocks = {1}
INVARIANTS
    DatabaseIsChain TreeIsOfBlocks FraudNotForgotten PendingStands
PROPERTIES
    FraudRolledBack
CHECK_DEADLOCK FALSE
