SPECIFICATION MCSpec
CONSTANTS
    Parts = {"registry", "router", "builder", "provider"}
    START = 1
    MaxTime = 5
    LastCall = 4
    EPOCH_LENGTH = 2
    CHALLENGE_WINDOW = 2
    STAKE_DIVISOR = 2
    MAX_STAKE = 1
    INITIAL_STAKE = 1
    PRIORITY_INDEXES = 3
    Accounts = {p, q}
    NoOne = NoOne
    FundAmounts = {3}
    MaxBalance = 6
    MaxFirstLook = 3
    SlashBlocks = {1, 2}
    ROUTER_START = 1
    PERIOD_LENGTH = 4
    EPOCHS_PER_PERIOD = 2
    FINALITY = 0
    FIXED_BASE = 10
    Tokens = {t}
    Vaults = {v1, v2}
    NoVault = NoVault
    Periods = {0, 1}
    Epochs = {0, 1}
    MaxValue = 4
    MaxIdle = 3
    Amounts = {2}
    ShareTables <- MCShareTables
    Claimants = {p, q}
    Losses = TRUE
    BLOB_SIZE = 40
    MAX_DEPOSITS = 30
    MAX_LEAVES = 32
    CACHE_SIZE = 1
    BLOBS_PER_BLOCK = 2
    MaxPosted = 2
    MAX_BLOBS_PER_BLOCK = 3
    MaxDepositsTried = 31
    MaxTxsTried = 7
INVARIANTS
    Solvent
    ChallengedInactive
    PriorityIndexIsPlace
    EarliestFraudWins
    PayoutsWithinYield
    ShortfallWasPaidOut
    PostedIsReadable
    PostedIsParsed
    RecordedIsServed
PROPERTIES
    SlashedStakeIsReward
    RecordedOnce
SYMMETRY OtherNames
CHECK_DEADLOCK FALSE
