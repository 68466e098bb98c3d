SPECIFICATION Spec
CONSTANTS
    Locking = {TRUE, FALSE}
    MaxTurns = 3
    MaxRedraws = 1
    MaxFailures = 1
INVARIANTS LockedReaderCountsDrawnTurns NoTurnIsLost
PROPERTY EveryTurnIsCounted
