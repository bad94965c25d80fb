SPECIFICATION MCSpec
CONSTANTS
    Parts = {"router"}
    START = 1
    MaxTime = 7
    LastCall = 4
    EPOCH_LENGTH = 2
    CHALLENGE_WINDOW = 2
    STAKE_DIVISOR = 2
    MAX_STAKE = 1
    INITIAL_STAKE = 1
    PRIORITY_INDEXES = 3
    Accounts = {p, q}
    NoOne = NoOne
    FundAmounts = {3}
    MaxBalance = 6
    MaxFirstLook = 3
    SlashBlocks = {1, 2}
    ROUTER_START = 1
    PERIOD_LENGTH = 4
    EPOCHS_PER_PERIOD = 2
    FINALITY = 0
    FIXED_BASE = 10
    Tokens = {t}
    Vaults = {v1, v2}
    NoVault = NoVault
    Periods = {0, 1}
    Epochs = {0, 1}
    MaxValue = 6
    MaxIdle = 3
    Amounts = {3}
    ShareTables <- MCShareTables
    Claimants = {p, q}
    Losses = TRUE
    BLOB_SIZE = 40
    MAX_DEPOSITS = 30
    MAX_LEAVES = 32
    CACHE_SIZE = 1
    BLOBS_PER_BLOCK = 2
    MaxPosted = 2
    MAX_BLOBS_PER_BLOCK = 3
    MaxDepositsTried = 31
    MaxTxsTried = 7
PROPERTY LossNeverPaysMore
CHECK_DEADLOCK FALSE
