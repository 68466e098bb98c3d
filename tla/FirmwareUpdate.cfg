SPECIFICATION Spec
CONSTANTS
    Cells = 3
    BlockCells = 2
    Sizes = {2, 3, 4}
    MaxImages = 3
INVARIANTS
    RunningImageIsWhole
PROPERTIES
    SelectionChangesToAWholeImage
    SelectionChangesOnSuccess
    ImplementsAtomicInstall
