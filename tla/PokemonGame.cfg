SPECIFICATION Spec
CONSTANTS
    Wild = {"nidoran", "nidorina"}
    EvolutionOnly = {"nidoqueen"}
    Legendary = {"mewtwo"}
    Mew = "mew"
    Starters = {"nidoran"}
    LevelRules <- MCLevelRules
    ItemRules <- MCItemRules
    Items = {"stone"}
    XpRequired <- MCXpRequired
    EncounterLevels = {1}
    StarterLevel = 1
    PartySize = 2
    Capacity = 2
    EncounterMisses = 2
    ItemMisses = 1
    HourMinutes = 2
    CheckMinutes = 1
    MaxItems = 2
    MaxRecords = 2
INVARIANTS SaveIsSound EvolutionEventsAreCurrent
    AnnouncedItemsAreThere NoticeMatchesFront DrySpellIsBounded MewComesLast
PROPERTY EventsKeepTheirOrder
