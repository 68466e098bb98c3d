SPECIFICATION Spec
CONSTANTS
  SeqMod = 6
  RecordIds = {1, 2}
  Species = {1}
  RecordLimit = 2
  ReadFaults = FALSE
  InitialDisks <- AnyCards
INVARIANTS AcknowledgedWriteWinsNextStart
PROPERTIES ImplementsDurableSave LiveSlotIsNeverWritten ForeignSlotIsNeverLost LegacyFilesOnlyMigrate
    CommitChangesAtMostOneRecord
