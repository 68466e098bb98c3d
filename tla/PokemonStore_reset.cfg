SPECIFICATION Spec
CONSTANTS
  SeqMod = 6
  RecordIds = {1}
  Species = {1}
  RecordLimit = 1
  ReadFaults = FALSE
  InitialDisks <- FreshCard
INVARIANTS ResetDeletesBothSnapshots
