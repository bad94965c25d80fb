SPECIFICATION DepositsSpec
CONSTANTS
    START = 1
    MaxTime = 2
    DAY = 1
    CHALLENGE_PERIOD = 0
    MAX_DEPOSITS = 2
    MAX_LEAVES = 6
    BLOB_SIZE = 24
    BLOCKS_PER_DAY = 8
    Anchors = {g, a1}
    GENESIS_ANCHOR = g
    Sequencers = {s1}
    Blobs = {b1}
    NoHash = NoHash
    Submissions <- MCSubmissions
    MaxBlocks = 4
    ROUTER_START = 1
    PERIOD_LENGTH = 4
    EPOCHS_PER_PERIOD = 2
    FIXED_BASE = 10
    Token = t
    Tokens <- MCTokens
    Vaults = {v1}
    NoVault = NoVault
    Periods = {0}
    MaxValue = 12
    MaxIdle = 0
    Leaves <- MCLeaves
    MaxDepositBlock = 6
INVARIANTS
    ConfirmedPrefix
    SlotAfterPredecessor
    AnchorLookupSound
    PriorAnchorResolves
    DepositsFit
    DepositsFrozen
PROPERTIES
    SubmissionWindow
    AssignedInOrder
CHECK_DEADLOCK FALSE
