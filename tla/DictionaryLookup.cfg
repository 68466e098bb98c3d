SPECIFICATION Spec
CONSTANTS
    MaxControllers = 2
    MaxLookups = 3
INVARIANTS
    OwnerExists
    WorkerWritesOnlyALookup
    AnswerBelongsToTheWord
    SuggestionsAreMarked
PROPERTIES
    LookupsEnd
    ExitsEnd
