SPECIFICATION Spec
CONSTANTS
    Locking = {FALSE}
    MaxTurns = 3
    MaxRedraws = 1
    MaxFailures = 0
INVARIANT CountedTurnWasDrawn
