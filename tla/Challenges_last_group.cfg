SPECIFICATION MCSpec
CONSTANTS
    START = 5
    MaxTime = 5
    DAY = 100
    CHALLENGE_PERIOD = 2
    MAX_DEPOSITS = 2
    MAX_LEAVES = 10
    BLOB_SIZE = 60
    BLOCKS_PER_DAY = 8
    Anchors <- MCAnchors
    GENESIS_ANCHOR <- MCGenesis
    Sequencers = {q}
    Blobs = {}
    NoHash = NoHash
    Submissions = {}
    ROUTER_START = 5
    PERIOD_LENGTH = 4
    EPOCHS_PER_PERIOD = 2
    FIXED_BASE = 10
    Token = t
    Tokens <- MCTokens
    Vaults = {v}
    NoVault = NoVault
    Periods = {}
    MaxValue = 4
    MaxIdle = 0
    Leaves <- MCLeaves
    MaxDepositBlock = 2
    ZeroLeaf = ZeroLeaf
    NoKey = NoKey
    EPOCH_LENGTH = 100
    CHALLENGE_WINDOW = 100
    STAKE_DIVISOR = 1
    MAX_STAKE = 0
    INITIAL_STAKE = 0
    PRIORITY_INDEXES = 4
    Accounts = {q}
    NoOne = NoOne
    FundAmounts = {0}
    MaxBalance = 0
    MaxFirstLook = 0
    Signers = {k}
    Key = k
    Kinds = {"honest", "anchor", "root", "leaf", "padding", "twice", "spent", "proof", "ahead", "outside", "older", "keyed", "genesis"}
    LateKinds = {"honest", "older"}
    LastKinds = {}
    TxCounts = {0, 1, 2}
    MaxBlocks = 2
    MaxPosts = 2
    MaxDeposits = 2
INVARIANTS
    ValidIsAlwaysSafe
CHECK_DEADLOCK FALSE
