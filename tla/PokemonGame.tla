------------------------------- MODULE PokemonGame -------------------------------
(***************************************************************************)
(* The rules of the game and the operations of PokemonService on a save    *)
(* that is ready: what one credited minute does, the queue of pending      *)
(* events, catching, evolving, the party and the Pokedex.                  *)
(*                                                                         *)
(* Every operation ends in one commit.  The store makes it atomic          *)
(* (ImplementsDurableSave in PokemonStore), so an operation is a step from *)
(* save to save; one whose commit fails leaves the save alone.  A call     *)
(* that credits several minutes applies them one after the other, and any  *)
(* number of them is a call of its own, so that one minute is the step.    *)
(*                                                                         *)
(* Names, genders and the choice of level and rarity by book progress and  *)
(* lifetime minutes are left out: an encounter may be any species and      *)
(* level that some progress allows.                                        *)
(***************************************************************************)
EXTENDS Integers, SequencesExt

CONSTANTS
    Wild, EvolutionOnly, Legendary,  \* species by acquisition
    Mew,                             \* the species that completes the Pokedex
    Starters,                        \* a subset of Wild
    LevelRules,      \* [from, to, level]: evolutions by level
    ItemRules,       \* [from, to, item]: evolutions by item
    Items,           \* the evolution items
    XpRequired,      \* the total experience each level takes
    EncounterLevels, \* levels an encounter may have
    StarterLevel,    \* 5
    PartySize,       \* PARTY_SIZE = 6
    Capacity,        \* PENDING_EVENT_CAPACITY = 3
    EncounterMisses, \* ENCOUNTER_MISSES_BEFORE_GUARANTEE = 3
    ItemMisses,      \* 19
    HourMinutes,     \* 60
    CheckMinutes,    \* ENCOUNTER_CHECK_MINUTES = 15
    MaxItems,        \* the greatest uint16_t
    MaxRecords       \* 1024, the records the service allows

Species == Wild \cup EvolutionOnly \cup Legendary \cup {Mew}
Levels == DOMAIN XpRequired
MaxLevel == Len(XpRequired)
MaximumXp == XpRequired[MaxLevel]

ASSUME GameAssumption ==
    /\ Starters \subseteq Wild
    /\ Mew \notin Wild \cup EvolutionOnly \cup Legendary
    /\ LevelRules \subseteq [from : Species, to : Species, level : Levels]
    /\ ItemRules \subseteq [from : Species, to : Species, item : Items]
    /\ \A rule \in LevelRules \cup ItemRules : rule.to # Mew  \* nothing evolves into it
    /\ XpRequired \in Seq(Nat) /\ XpRequired # <<>> /\ XpRequired[1] = 0
    /\ \A l, m \in Levels : l < m => XpRequired[l] < XpRequired[m]
    /\ EncounterLevels \subseteq Levels /\ StarterLevel \in Levels
    /\ {PartySize, Capacity, HourMinutes, CheckMinutes, MaxItems, MaxRecords} \subseteq Nat \ {0}
    /\ EncounterMisses \in Nat /\ ItemMisses \in Nat

VARIABLES
    game,     \* PokemonState
    records,  \* the records, by id
    dry       \* encounter checks since the last encounter, as a player counts them

vars == <<game, records, dry>>

Ids == 1 .. MaxRecords
Events == [kind : {"Encounter"}, species : Species, level : Levels]
          \cup [kind : {"Item"}, item : Items]
          \cup [kind : {"Evolution"}, id : Ids, species : Species]
Notices == {"None", "Encounter", "Item", "Evolution"}

Games == [party : Seq(Ids), queue : Seq(Events), items : [Items -> 0 .. MaxItems],
          seen : SUBSET Species, caught : SUBSET Species, minute : 0 .. (HourMinutes - 1),
          encounterMisses : 0 .. EncounterMisses, itemMisses : 0 .. ItemMisses,
          notice : Notices]

Records == [species : Species, xp : 0 .. MaximumXp, prompts : BOOLEAN]

NewGame == [party |-> <<>>, queue |-> <<>>, items |-> [i \in Items |-> 0],
            seen |-> {}, caught |-> {}, minute |-> 0,
            encounterMisses |-> 0, itemMisses |-> 0, notice |-> "None"]
NoRecords == [id \in {} |-> {}]

Owned == DOMAIN records
Leader == game.party[1]
HasLeader == game.party # <<>> /\ Leader \in Owned

LevelForXp(xp) == CHOOSE l \in Levels :
    /\ XpRequired[l] <= xp
    /\ \A m \in Levels : XpRequired[m] <= xp => m <= l

Capped(n, cap) == IF n < cap THEN n ELSE cap

---------------------------------------------------------------------------------
(* The queue of pending events                                                 *)

Full(g) == Len(g.queue) = Capacity

\* refreshDashboardNotice(): the notice names the kind of the front event.
Refresh(g) == [g EXCEPT !.notice = IF g.queue = <<>> THEN "None" ELSE Head(g.queue).kind]

Enqueued(g, event) == Refresh([g EXCEPT !.queue = Append(@, event)])

\* Plausible bug: the newest event is removed, not the oldest.
PoppedLast(g) == Refresh([g EXCEPT !.queue = Front(@)])

Popped(g) == Refresh([g EXCEPT !.queue = Tail(@)])

IsEvolutionOf(event, id) == event.kind = "Evolution" /\ event.id = id

\* The events at the positions of `kept' only, each written at the index that
\* counts the kept ones up to it.
Compacted(queue, kept) ==
    [n \in 1 .. Cardinality(kept) |->
        queue[CHOOSE i \in kept : Cardinality({j \in kept : j <= i}) = n]]

OthersThan(queue, id) == {i \in DOMAIN queue : ~ IsEvolutionOf(queue[i], id)}

\* Plausible bug: the notice is not refreshed when events are removed.
WithoutEvolutionsStale(g, id) == [g EXCEPT !.queue = Compacted(@, OthersThan(@, id))]

\* removePendingEvolutionsForRecord(), and the notice.
WithoutEvolutions(g, id) == Refresh([g EXCEPT !.queue = Compacted(@, OthersThan(@, id))])

---------------------------------------------------------------------------------
(* One credited minute                                                         *)

\* Plausible bug: the legendary species are forgotten.
MewIsReadyEarly(g) == Mew \notin g.caught /\ Wild \cup EvolutionOnly \subseteq g.caught

\* Mew comes when every other species has been caught, and Mew has not.
MewIsReady(g) == Mew \notin g.caught /\ Species \ {Mew} \subseteq g.caught

LegendaryChoices(g) == IF Legendary \subseteq g.caught THEN Legendary ELSE Legendary \ g.caught

EncounterChoices(g) == IF MewIsReady(g) THEN {Mew} ELSE Wild \cup LegendaryChoices(g)

Encounters(g) ==
    {Enqueued([g EXCEPT !.seen = @ \cup {s}, !.encounterMisses = 0],
              [kind |-> "Encounter", species |-> s, level |-> l]) :
        s \in EncounterChoices(g), l \in EncounterLevels}

\* Plausible bug: a check that finds the queue full is simply skipped.
EncounterCheckSkipped(g) ==
    IF Full(g) THEN {g}
    ELSE Encounters(g) \cup
         (IF g.encounterMisses >= EncounterMisses THEN {}
          ELSE {[g EXCEPT !.encounterMisses = Capped(@ + 1, EncounterMisses)]})

\* processEncounterCheck(): a roll, or the guarantee after enough misses; a full
\* queue turns the check into a guarantee for the next one.
EncounterCheck(g) ==
    IF Full(g) THEN {[g EXCEPT !.encounterMisses = EncounterMisses]}
    ELSE Encounters(g) \cup
         (IF g.encounterMisses >= EncounterMisses THEN {}
          ELSE {[g EXCEPT !.encounterMisses = Capped(@ + 1, EncounterMisses)]})

\* The items some owned record can evolve with.
Needs == {rule.item : rule \in {r \in ItemRules : \E id \in Owned : records[id].species = r.from}}

\* Items that are needed come first; an item at its limit does not come at all.
ItemChoices(g) ==
    LET room == {i \in Items : g.items[i] < MaxItems} IN
    IF room \cap Needs # {} THEN room \cap Needs ELSE room

FoundItems(g) ==
    LET found == [g EXCEPT !.itemMisses = 0] IN
    IF ItemChoices(g) = {} THEN {found}
    ELSE {Enqueued([found EXCEPT !.items[i] = @ + 1], [kind |-> "Item", item |-> i]) :
              i \in ItemChoices(g)}

\* processHourlyItem(): as the encounter check, for items.
HourlyItem(g) ==
    IF Full(g) THEN {[g EXCEPT !.itemMisses = ItemMisses]}
    ELSE FoundItems(g) \cup
         (IF g.itemMisses = ItemMisses THEN {}
          ELSE {[g EXCEPT !.itemMisses = Capped(@ + 1, ItemMisses)]})

LevelRulesOf(record) ==
    {rule \in LevelRules : rule.from = record.species /\ LevelForXp(record.xp) >= rule.level}

EvolutionPrompts(g, id, record) ==
    {Enqueued([g EXCEPT !.seen = @ \cup {rule.to}],
              [kind |-> "Evolution", id |-> id, species |-> rule.to]) :
        rule \in LevelRulesOf(record)}

\* Plausible bug: a record may have two evolutions pending.
QueueEvolutionTwice(g, id, record) ==
    IF ~ record.prompts \/ Full(g) \/ LevelRulesOf(record) = {}
    THEN {g} ELSE EvolutionPrompts(g, id, record)

\* queueEvolutionAfterLevelGain(): at most one pending evolution per record, none
\* when its prompts are off, none when the queue is full.
QueueEvolution(g, id, record) ==
    IF \/ ~ record.prompts
       \/ \E event \in ToSet(g.queue) : IsEvolutionOf(event, id)
       \/ Full(g)
       \/ LevelRulesOf(record) = {}
    THEN {g} ELSE EvolutionPrompts(g, id, record)

\* The count of checks as a player sees it: a check the queue had no room for is
\* made up for by the next one.
DryAfter(before, after) ==
    IF Full(before) THEN EncounterMisses
    ELSE IF Len(after.queue) > Len(before.queue) THEN 0 ELSE dry + 1

\* applyCreditedMinutes(), one minute of it.
CreditMinute ==
    /\ HasLeader
    /\ LET old == records[Leader]
           new == [old EXCEPT !.xp = Capped(@ + 1, MaximumXp)]
           minute == game.minute + 1
           hourly == minute = HourMinutes
           started == [game EXCEPT !.minute = IF hourly THEN 0 ELSE minute]
           check == hourly \/ minute % CheckMinutes = 0
       IN  \E item \in IF hourly THEN HourlyItem(started) ELSE {started} :
           \E checked \in IF check THEN EncounterCheck(item) ELSE {item} :
               /\ records' = [records EXCEPT ![Leader] = new]
               /\ game' \in IF LevelForXp(new.xp) > LevelForXp(old.xp)
                            THEN QueueEvolution(checked, Leader, new) ELSE {checked}
               /\ dry' = IF check THEN DryAfter(item, checked) ELSE dry

---------------------------------------------------------------------------------
(* Pending events                                                              *)

Pending == Head(game.queue)
FrontIs(kind) == HasLeader /\ game.queue # <<>> /\ Pending.kind = kind

\* The id of a record to append: one more than there are records.
NextId == Cardinality(Owned) + 1

Caught(g, species) == [g EXCEPT !.seen = @ \cup {species}, !.caught = @ \cup {species}]

Joined(g, id) == IF Len(g.party) < PartySize THEN [g EXCEPT !.party = Append(@, id)] ELSE g

CatchEncounter ==
    /\ FrontIs("Encounter")
    /\ Cardinality(Owned) < MaxRecords
    /\ game' = Popped(Joined(Caught(game, Pending.species), NextId))
    /\ records' = [id \in Owned \cup {NextId} |->
                      IF id = NextId
                      THEN [species |-> Pending.species, xp |-> XpRequired[Pending.level],
                            prompts |-> TRUE]
                      ELSE records[id]]
    /\ UNCHANGED dry

PassEncounter ==
    /\ FrontIs("Encounter")
    /\ game' = Popped(game)
    /\ UNCHANGED <<records, dry>>

AcknowledgeItem ==
    /\ FrontIs("Item")
    /\ game' = Popped(game)
    /\ UNCHANGED <<records, dry>>

\* The rule that lets an evolution event be resolved, either way.
IsCurrent(event) ==
    /\ event.id \in Owned
    /\ \E rule \in LevelRulesOf(records[event.id]) : rule.to = event.species

Evolved(id, species) == [records EXCEPT ![id].species = species]

\* Plausible bug: an evolution is not entered in the Pokedex.
EvolveUncaught ==
    /\ game.queue # <<>> /\ Pending.kind = "Evolution"
    /\ IsCurrent(Pending)
    /\ game' = Popped(game)
    /\ records' = Evolved(Pending.id, Pending.species)
    /\ UNCHANGED dry

Evolve ==
    /\ game.queue # <<>> /\ Pending.kind = "Evolution"
    /\ IsCurrent(Pending)
    /\ game' = Popped(Caught(game, Pending.species))
    /\ records' = Evolved(Pending.id, Pending.species)
    /\ UNCHANGED dry

CancelEvolution ==
    /\ game.queue # <<>> /\ Pending.kind = "Evolution"
    /\ IsCurrent(Pending)
    /\ game' = Popped(game)
    /\ UNCHANGED <<records, dry>>

EnablePrompts == \E id \in Owned :
    /\ records' = [records EXCEPT ![id].prompts = TRUE]
    /\ UNCHANGED <<game, dry>>

DisablePrompts == \E id \in Owned :
    /\ records' = [records EXCEPT ![id].prompts = FALSE]
    /\ game' = WithoutEvolutions(game, id)
    /\ UNCHANGED dry

\* Plausible bug: an item may be used while events are pending.
UseItemAnytime == \E id \in Owned, rule \in ItemRules :
    /\ records[id].species = rule.from
    /\ game.items[rule.item] > 0
    /\ game' = [Caught(game, rule.to) EXCEPT !.items[rule.item] = @ - 1]
    /\ records' = Evolved(id, rule.to)
    /\ UNCHANGED dry

UseEvolutionItem == \E id \in Owned, rule \in ItemRules :
    /\ game.queue = <<>>
    /\ records[id].species = rule.from
    /\ game.items[rule.item] > 0
    /\ game' = [Caught(game, rule.to) EXCEPT !.items[rule.item] = @ - 1]
    /\ records' = Evolved(id, rule.to)
    /\ UNCHANGED dry

---------------------------------------------------------------------------------
(* The party, the first partner, reset                                         *)

CreateStarter == \E species \in Starters :
    /\ Owned = {}
    /\ game' = Caught([NewGame EXCEPT !.party = <<1>>], species)
    /\ records' = [id \in {1} |-> [species |-> species, xp |-> XpRequired[StarterLevel],
                                   prompts |-> TRUE]]
    /\ dry' = 0

MovePartyMember == \E from, to \in DOMAIN game.party :
    /\ from # to
    /\ game' = [game EXCEPT !.party = InsertAt(RemoveAt(@, from), to, game.party[from])]
    /\ UNCHANGED <<records, dry>>

Deposit == \E slot \in DOMAIN game.party :
    /\ Len(game.party) > 1
    /\ game' = [game EXCEPT !.party = RemoveAt(@, slot)]
    /\ UNCHANGED <<records, dry>>

Withdraw == \E id \in Owned \ ToSet(game.party) :
    /\ Len(game.party) < PartySize
    /\ game' = [game EXCEPT !.party = Append(@, id)]
    /\ UNCHANGED <<records, dry>>

\* A save without records, as reset() writes it.
Reset ==
    /\ game' = NewGame
    /\ records' = NoRecords
    /\ dry' = 0

Init == game = NewGame /\ records = NoRecords /\ dry = 0

Next ==
    \/ CreateStarter \/ CreditMinute
    \/ CatchEncounter \/ PassEncounter \/ AcknowledgeItem
    \/ Evolve \/ CancelEvolution \/ EnablePrompts \/ DisablePrompts \/ UseEvolutionItem
    \/ MovePartyMember \/ Deposit \/ Withdraw \/ Reset

Spec == Init /\ [][Next]_vars

---------------------------------------------------------------------------------
(* Properties                                                                  *)

TypeOK ==
    /\ game \in Games /\ Len(game.party) <= PartySize /\ Len(game.queue) <= Capacity
    /\ Owned \subseteq Ids /\ \A id \in Owned : records[id] \in Records
    /\ dry \in Nat

\* Every save an operation commits passes the inspection the store ends a write
\* with (and every start begins with): party and evolution events name records,
\* every record's species is caught, what is caught has been seen, no record is
\* in the party twice.  A save that broke this would be refused when written.
SaveIsSound ==
    /\ ToSet(game.party) \subseteq Owned
    /\ \A event \in ToSet(game.queue) : event.kind = "Evolution" => event.id \in Owned
    /\ \A id \in Owned : records[id].species \in game.caught
    /\ game.caught \subseteq game.seen
    /\ IsInjective(game.party)

\* Ids stay 1 .. count, so that the id of the next catch is greater than every
\* id before it: the store refuses any other append.
IdsAreContiguous == Owned = 1 .. Cardinality(Owned)

\* A game that has begun always has a leader to credit.
LeaderExists == Owned # {} => game.party # <<>>

\* The queue never blocks: an evolution event, whenever it gets to the front, can
\* be resolved (the record still has the rule, at its level), and there is at
\* most one for a record and none for a record whose prompts are off.
EvolutionEventsAreCurrent ==
    \A i \in DOMAIN game.queue : game.queue[i].kind = "Evolution" =>
        /\ IsCurrent(game.queue[i])
        /\ records[game.queue[i].id].prompts
        /\ \A j \in DOMAIN game.queue :
              IsEvolutionOf(game.queue[j], game.queue[i].id) => i = j

\* An item that is announced is still there when the player gets to see it.
AnnouncedItemsAreThere ==
    \A item \in Items :
        Cardinality({i \in DOMAIN game.queue : game.queue[i] = [kind |-> "Item", item |-> item]})
            <= game.items[item]

\* The dashboard announces the event that is at the front of the queue.
NoticeMatchesFront ==
    game.notice = IF game.queue = <<>> THEN "None" ELSE Pending.kind

\* The guarantee: never more than EncounterMisses checks in a row without an
\* encounter, and a check lost to a full queue is made up for by the next one.
DrySpellIsBounded == dry <= EncounterMisses

\* Mew appears only to a player who has caught every other species.
MewComesLast == Mew \in game.seen => Species \ {Mew} \subseteq game.caught

\* Events are seen in the order they came, and none is lost: one step removes the
\* front, or the evolutions of one record, or adds at the end.
EventsKeepTheirOrder ==
    [][\/ Reset \/ CreateStarter
       \/ IsPrefix(game.queue, game'.queue)
       \/ game'.queue = Tail(game.queue)
       \/ \E id \in Owned : /\ ~ records'[id].prompts
                            /\ game'.queue = WithoutEvolutions(game, id).queue]_vars

\* What a player has is not taken back but by a reset: every operation keeps the
\* Pokedex and every record, whose experience never falls and whose species changes
\* by a rule of evolution only; and an item is spent only on such an evolution.
NothingIsTakenBack ==
    [][\/ Reset
       \/ /\ game.seen \subseteq game'.seen /\ game.caught \subseteq game'.caught
          /\ Owned \subseteq Owned'
          /\ \A id \in Owned :
                /\ records'[id].xp >= records[id].xp
                /\ records'[id].species # records[id].species =>
                      \E rule \in LevelRules \cup ItemRules :
                          /\ rule.from = records[id].species
                          /\ rule.to = records'[id].species
          /\ \A item \in Items : game'.items[item] < game.items[item] =>
                \E id \in Owned, rule \in ItemRules :
                    /\ rule.item = item
                    /\ rule.from = records[id].species
                    /\ rule.to = records'[id].species]_vars
=================================================================================
