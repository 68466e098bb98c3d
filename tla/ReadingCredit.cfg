SPECIFICATION LiveSpec
CONSTANTS
    MinuteSeconds = 2
    ActiveWindow = 4
    CheckpointMinutes = 2
    MaxMinutes = 100
    WordMod = 32
    Books = {1, 2}
    ClockMod = 20
    Boots = {0, 18}
    Gaps = {0, 1, 3, 5}
    MaxReading = 9
    MaxTurns = 2
INVARIANTS NoSecondIsCreditedTwice TurnsBoundTheCredit CreditUsesItsOwnBook
PROPERTIES DueMinutesAreBanked WholeMinutesAreKept
