SPECIFICATION MCSpec
CONSTANTS
    START = 5
    MaxTime = 7
    DAY = 100
    CHALLENGE_PERIOD = 0
    MAX_DEPOSITS = 2
    MAX_LEAVES = 10
    BLOB_SIZE = 60
    BLOCKS_PER_DAY = 8
    Anchors <- MCAnchors
    GENESIS_ANCHOR <- MCGenesis
    Sequencers = {p, q}
    Blobs = {}
    NoHash = NoHash
    Submissions = {}
    ROUTER_START = 5
    PERIOD_LENGTH = 4
    EPOCHS_PER_PERIOD = 2
    FIXED_BASE = 10
    Token = t
    Tokens <- MCTokens
    Vaults = {v}
    NoVault = NoVault
    Periods = {0}
    MaxValue = 4
    MaxIdle = 1
    Leaves <- MCLeaves
    MaxDepositBlock = 2
    ZeroLeaf = ZeroLeaf
    NoKey = NoKey
    EPOCH_LENGTH = 100
    CHALLENGE_WINDOW = 100
    STAKE_DIVISOR = 1
    MAX_STAKE = 0
    INITIAL_STAKE = 0
    PRIORITY_INDEXES = 4
    Accounts = {p, q}
    NoOne = NoOne
    FundAmounts = {0}
    MaxBalance = 0
    MaxFirstLook = 0
    Signers = {k}
    Key = k
    PRIORITY_BONUS = 2
    BASE = 1
    Approvals <- MCApprovals
    Kinds = {"anchor"}
    LateKinds = {"anchor"}
    TxCounts = {1}
    MaxBlocks = 2
    MaxPosts = 3
    MaxDeposits = 1
    Named = {q}
    Posters = {p}
    Challengers = {q}
    MaxMoves = 3
    Stakers = {}
PROPERTY SettlementHolds
CHECK_DEADLOCK FALSE
