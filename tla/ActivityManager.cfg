SPECIFICATION Spec
CONSTANTS
    Instances = {1, 2, 3}
    Helpers = {"helper"}
    MaxCalls = 2
INVARIANTS
    DrawnActivityIsAlive
    EveryScreenHasOneOwner
    PendingActionCanRun
    RenderedMeansDrawn
PROPERTIES
    ResultGoesToTheStarter
    WaiterResumes
    UpdateIsDrawn
