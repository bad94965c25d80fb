SPECIFICATION MCSpec
CONSTANTS
    START = 5
    MaxTime = 11
    DAY = 100
    CHALLENGE_PERIOD = 2
    MAX_DEPOSITS = 0
    MAX_LEAVES = 10
    BLOB_SIZE = 60
    BLOCKS_PER_DAY = 8
    Anchors <- MCAnchors
    GENESIS_ANCHOR <- MCGenesis
    Sequencers = {p, q}
    Blobs = {}
    NoHash = NoHash
    Submissions = {}
    ROUTER_START = 5
    PERIOD_LENGTH = 100
    EPOCHS_PER_PERIOD = 10
    FIXED_BASE = 10
    Token = t
    Tokens <- MCTokens
    Vaults = {v}
    NoVault = NoVault
    Periods = {0}
    MaxValue = 0
    MaxIdle = 0
    Leaves = {}
    MaxDepositBlock = 4
    ZeroLeaf = ZeroLeaf
    NoKey = NoKey
    EPOCH_LENGTH = 2
    CHALLENGE_WINDOW = 2
    STAKE_DIVISOR = 1
    MAX_STAKE = 0
    INITIAL_STAKE = 1
    PRIORITY_INDEXES = 4
    Accounts = {p, q}
    NoOne = NoOne
    FundAmounts = {1}
    MaxBalance = 2
    MaxFirstLook = 0
    Signers = {k}
    Key = k
    PRIORITY_BONUS = 2
    BASE = 1
    Approvals <- MCApprovals
    Kinds = {"anchor"}
    LateKinds = {"anchor"}
    TxCounts = {1}
    MaxBlocks = 2
    MaxPosts = 2
    MaxDeposits = 0
    Named = {p, q}
    Posters = {p, q}
    Challengers = {p}
    MaxMoves = 1
    Stakers = {p}
INVARIANTS
    SharesWithinWhole StakeHeldInWindow
    PaidIsConfirmed
CHECK_DEADLOCK FALSE
