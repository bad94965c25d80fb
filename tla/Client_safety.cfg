SPECIFICATION Spec
CONSTANTS
    n1 = n1
    n2 = n2
    n3 = n3
    Amount <- Amounts
    Contents <- DepositBlocks
    Targets = {3, 4}
    MaxBlocks = 3
    LastDay = 1
    MaxCommands = 2
    MaxFaults = 1
    MaxActions = 4
    w1 = w1
    w2 = w2
    Commitments <- BothCommitments
    SEARCH_DEPTH = 1
    MaxMoves = 3
    MaxNoteBlocks = 2
    Parts = {"spend", "withdraw"}
INVARIANTS
    SyncedProvesAnchor
    SpentIffAccepted
    ExecutedWasPaid
SYMMETRY EitherCommitment
CHECK_DEADLOCK FALSE
