------------------------------ MODULE PokemonLevels ------------------------------
(***************************************************************************)
(* Experience and levels: the experience a level takes, and the binary     *)
(* search that finds the level of an experience, one iteration a step.     *)
(* PokemonGame uses the level the search is shown to find.                 *)
(***************************************************************************)
EXTENDS Integers

CONSTANT MaxXp  \* experience is searched for up to this bound; 8340 in the game

ASSUME MaxXpAssumption == MaxXp \in Nat

Levels == 1 .. 100

VARIABLES xp, low, high

vars == <<xp, low, high>>

\* xpRequired(), for the levels the search asks about: no clamping is needed.
XpRequired(level) == 10 * (level - 1) + (3 * (level - 1) * (level - 1)) \div 4

Middle == low + (high - low + 1) \div 2

Init == xp \in 0 .. MaxXp /\ low = 1 /\ high = 100

\* Plausible bug: experience that just suffices for a level does not count.
FitsStrictly == XpRequired(Middle) < xp

\* The comparison of the loop: the middle level takes no more than there is.
Fits == XpRequired(Middle) <= xp

RaiseLow ==
    /\ low < high
    /\ Fits
    /\ low' = Middle
    /\ UNCHANGED <<xp, high>>

\* Plausible bug: the level that takes too much is searched again.
LowerHighToMiddle ==
    /\ low < high
    /\ ~ Fits
    /\ high' = Middle
    /\ UNCHANGED <<xp, low>>

LowerHigh ==
    /\ low < high
    /\ ~ Fits
    /\ high' = Middle - 1
    /\ UNCHANGED <<xp, low>>

\* The search has returned low.
Return == low = high /\ UNCHANGED vars

Next == RaiseLow \/ LowerHigh \/ Return

Spec == Init /\ [][Next]_vars /\ WF_vars(Next)

TypeOK == xp \in 0 .. MaxXp /\ low \in Levels /\ high \in Levels

\* The level searched for stays within low .. high.
LevelIsInRange ==
    /\ low <= high
    /\ XpRequired(low) <= xp
    /\ high < 100 => xp < XpRequired(high + 1)

\* levelForXp() returns the greatest level that takes at most xp.
ReturnsGreatestLevel ==
    low = high => \A level \in Levels : level <= low <=> XpRequired(level) <= xp

\* Each iteration at least halves what is left to search: 100 levels take seven
\* iterations at most, and none leaves the range as it was.
RangeHalves == [][low < high => 2 * (high' - low') <= high - low]_vars

\* The search ends.
Terminates == <>(low = high)
=================================================================================
