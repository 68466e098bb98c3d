---------------------------- MODULE MCPokemonStore ----------------------------
(* Instances of PokemonStore for TLC: the cards it may start from.             *)
EXTENDS PokemonStore

Rich == [kind |-> "Snapshot", sequence |-> 1,
         state |-> [refs |-> RecordIds, caught |-> Species],
         roster |-> [id \in RecordIds |-> CHOOSE s \in Species : TRUE]]
Bare == [Rich EXCEPT !.state.refs = {}, !.roster = EmptyRoster]
At(file, s) == [file EXCEPT !.sequence = s]

Card(a, b, legacyA, legacyB) ==
    [p \in Paths |-> CASE p = "A" -> a [] p = "B" -> b
                       [] p = "LegacyA" -> legacyA [] p = "LegacyB" -> legacyB]

\* A new card, and the cards an earlier release or a newer one leaves.
FreshCard == {Card(Missing, Missing, Missing, Missing)}

\* Pairs of files whose sequences may lie anywhere on the circle, torn files,
\* and files of a newer format, in the current slots.
SomeFiles == {Missing, Torn, Foreign, At(Bare, 1), At(Rich, 2), At(Rich, SeqMod - 1)}
CurrentCards == {Card(a, b, Missing, At(Bare, 3)) : a, b \in SomeFiles}

\* The legacy slots of a card that has no current file: A missing, torn, foreign
\* or valid, B older, newer across the wrap, or torn.
LegacyCards == {Card(Missing, Missing, a, b) :
    a \in {Missing, Torn, Foreign, At(Rich, 2)},
    b \in {At(Bare, 1), At(Rich, SeqMod - 1), Torn}}

AnyCards == FreshCard \cup CurrentCards \cup LegacyCards

\* Cards in which one slot belongs to a newer format.
DowngradeCards == {Card(Foreign, At(Rich, 2), Missing, Missing),
                   Card(At(Rich, 2), Foreign, Missing, Missing)}

===============================================================================
