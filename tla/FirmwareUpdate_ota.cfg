SPECIFICATION Spec
CONSTANTS
    Cells = 2
    BlockCells = 1
    Sizes = {2}
    MaxImages = 2
INVARIANT OnlyValidatedImagesAreWritten
