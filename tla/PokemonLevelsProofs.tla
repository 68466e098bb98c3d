--------------------------- MODULE PokemonLevelsProofs ---------------------------
(***************************************************************************)
(* The binary search of levelForXp() is right for every experience: what   *)
(* it keeps is that the level searched for lies in low .. high, and that   *)
(* the experience a level takes grows with the level.                      *)
(***************************************************************************)
EXTENDS PokemonLevels, SequenceTheorems, TLAPS

\* Each level takes more experience than the levels below it.
LEMMA XpRequiredGrows ==
    ASSUME NEW l \in Levels, NEW m \in Levels, l < m
    PROVE  /\ XpRequired(l) \in Int /\ XpRequired(m) \in Int
           /\ XpRequired(l) < XpRequired(m)
<1> DEFINE Square(n) == (3 * (n - 1) * (n - 1)) \div 4
<1>1. l \in 1 .. 100 /\ m \in 1 .. 100
  BY DEF Levels
<1>2. 3 * (l - 1) * (l - 1) \in Int /\ 3 * (m - 1) * (m - 1) \in Int
  BY <1>1
<1>3. 3 * (l - 1) * (l - 1) <= 3 * (m - 1) * (m - 1)
  <2>1. (l - 1) * (l - 1) <= (m - 1) * (l - 1)
    BY <1>1
  <2>2. (m - 1) * (l - 1) <= (m - 1) * (m - 1)
    BY <1>1
  <2> QED
    BY <1>1, <2>1, <2>2
<1>4. \A i, j \in Int : i <= j => i \div 4 \in Int /\ j \div 4 \in Int /\ i \div 4 <= j \div 4
  OBVIOUS
<1>5. Square(l) \in Int /\ Square(m) \in Int /\ Square(l) <= Square(m)
  BY <1>2, <1>3, <1>4
<1> HIDE DEF Square
<1>6. XpRequired(l) = 10 * (l - 1) + Square(l) /\ XpRequired(m) = 10 * (m - 1) + Square(m)
  BY DEF XpRequired, Square
<1> QED
  BY <1>1, <1>5, <1>6

\* The middle of a search that goes on is above low, and not above high.
LEMMA MiddleIsAboveLow ==
    ASSUME TypeOK, low < high
    PROVE  Middle \in Levels /\ low < Middle /\ Middle <= high
BY DEF TypeOK, Levels, Middle

SearchInv == TypeOK /\ LevelIsInRange

\* The whole range of levels is searched first: level 1 takes no experience.
LEMMA SearchStarts == Init => SearchInv
<1> SUFFICES ASSUME Init PROVE SearchInv
  OBVIOUS
<1>1. TypeOK
  BY DEF Init, TypeOK, Levels
<1>2. XpRequired(1) = 0
  BY DEF XpRequired
<1>3. LevelIsInRange
  BY <1>2, MaxXpAssumption DEF Init, LevelIsInRange
<1> QED
  BY <1>1, <1>3 DEF SearchInv

\* Each iteration keeps the level searched for in the range.
LEMMA SearchGoesOn == SearchInv /\ [Next]_vars => SearchInv'
<1> SUFFICES ASSUME SearchInv, [Next]_vars PROVE SearchInv'
  OBVIOUS
<1>0. xp \in Int
  BY MaxXpAssumption DEF SearchInv, TypeOK
<1>1. CASE RaiseLow
  <2>1. Middle \in Levels /\ low < Middle /\ Middle <= high
    BY <1>1, MiddleIsAboveLow DEF SearchInv, RaiseLow
  <2>2. XpRequired(low') = XpRequired(Middle) /\ XpRequired(Middle) <= xp
    BY <1>1 DEF RaiseLow, Fits
  <2> QED
    BY <1>1, <2>1, <2>2 DEF SearchInv, TypeOK, LevelIsInRange, RaiseLow
<1>2. CASE LowerHigh
  <2>1. Middle \in Levels /\ low < Middle /\ Middle <= high
    BY <1>2, MiddleIsAboveLow DEF SearchInv, LowerHigh
  <2>2. high' \in Levels /\ high' + 1 = Middle /\ low <= high'
    BY <1>2, <2>1 DEF LowerHigh, SearchInv, TypeOK, Levels
  <2>3. xp < XpRequired(Middle)
    <3>1. XpRequired(Middle) \in Int
      BY <2>1, XpRequiredGrows DEF SearchInv, TypeOK
    <3> QED
      BY <1>0, <1>2, <3>1 DEF LowerHigh, Fits
  <2>4. low' = low /\ xp' = xp
    BY <1>2 DEF LowerHigh
  <2> QED
    BY <2>2, <2>3, <2>4 DEF SearchInv, TypeOK, LevelIsInRange
<1>3. CASE Return
  BY <1>3 DEF Return, vars, SearchInv, TypeOK, LevelIsInRange
<1>4. CASE UNCHANGED vars
  BY <1>4 DEF vars, SearchInv, TypeOK, LevelIsInRange
<1> QED
  BY <1>1, <1>2, <1>3, <1>4 DEF Next

\* The invariant of the search holds throughout.
LEMMA SearchInvariant == Spec => []SearchInv
  BY SearchStarts, SearchGoesOn, PTL DEF Spec

\* The search never leaves the levels, whatever the experience.
THEOREM SearchIsTypeCorrect == Spec => []TypeOK
<1>1. SearchInv => TypeOK
  BY DEF SearchInv
<1> QED
  BY <1>1, SearchInvariant, PTL

\* The search never leaves its range, and never loses the level it looks for.
THEOREM SearchKeepsTheLevel == Spec => []LevelIsInRange
<1>1. SearchInv => LevelIsInRange
  BY DEF SearchInv
<1> QED
  BY <1>1, SearchInvariant, PTL

\* For every experience, the level returned is the greatest one it suffices for.
THEOREM SearchReturnsGreatestLevel == Spec => []ReturnsGreatestLevel
<1>1. SearchInv => ReturnsGreatestLevel
  <2> SUFFICES ASSUME SearchInv, low = high, NEW level \in Levels
               PROVE  level <= low <=> XpRequired(level) <= xp
    BY DEF ReturnsGreatestLevel
  <2>1. xp \in Int /\ low \in Levels /\ low \in Int /\ level \in Int
    BY MaxXpAssumption DEF SearchInv, TypeOK, Levels
  <2>2. XpRequired(low) <= xp
    BY DEF SearchInv, LevelIsInRange
  <2>3. CASE level = low
    BY <2>1, <2>2, <2>3
  <2>4. CASE level < low
    <3>1. XpRequired(level) < XpRequired(low) /\ XpRequired(level) \in Int /\ XpRequired(low) \in Int
      BY <2>1, <2>4, XpRequiredGrows
    <3> QED
      BY <2>1, <2>2, <2>4, <3>1
  <2>5. CASE low < level
    <3>1. low + 1 \in Levels /\ high < 100 /\ low + 1 <= level
      BY <2>1, <2>5 DEF Levels
    <3>2. xp < XpRequired(low + 1)
      BY <3>1 DEF SearchInv, LevelIsInRange
    <3>3. XpRequired(low + 1) \in Int /\ XpRequired(level) \in Int
      BY <2>1, <2>5, <3>1, XpRequiredGrows DEF Levels
    <3>4. XpRequired(low + 1) <= XpRequired(level)
      <4>1. CASE low + 1 = level
        BY <4>1, <3>3
      <4>2. CASE low + 1 < level
        BY <4>2, <3>1, <3>3, XpRequiredGrows
      <4> QED
        BY <2>1, <3>1, <4>1, <4>2
    <3> QED
      BY <2>1, <2>5, <3>2, <3>3, <3>4
  <2> QED
    BY <2>1, <2>3, <2>4, <2>5
<1> QED
  BY <1>1, SearchInvariant, PTL


\* What levelForXp() has left to search is at least halved by each iteration, for
\* every experience: it takes seven of them at most.
THEOREM SearchHalvesItsRange == Spec => RangeHalves
<1>1. SearchInv /\ [Next]_vars => [low < high => 2 * (high' - low') <= high - low]_vars
  <2> SUFFICES ASSUME SearchInv, Next, low < high PROVE 2 * (high' - low') <= high - low
    OBVIOUS
  <2>1. low \in Int /\ high \in Int
    BY DEF SearchInv, TypeOK, Levels
  <2>2. CASE RaiseLow
    BY <2>1, <2>2 DEF RaiseLow, Middle
  <2>3. CASE LowerHigh
    BY <2>1, <2>3 DEF LowerHigh, Middle
  <2>4. CASE Return
    BY <2>1, <2>4 DEF Return
  <2> QED
    BY <2>2, <2>3, <2>4 DEF Next
<1> QED
  BY <1>1, SearchInvariant, PTL DEF Spec, RangeHalves

\* The table of the experience each level takes.
XpTable == [level \in Levels |-> XpRequired(level)]

\* The table is what the rules of the game are proved for (GameAssumption in
\* PokemonGame): the first level takes nothing, and each level takes more than the
\* one below it (xpRequired()).
THEOREM XpTableSuitsTheGame ==
    /\ XpTable \in Seq(Nat) /\ XpTable # <<>> /\ XpTable[1] = 0
    /\ \A l, m \in DOMAIN XpTable : l < m => XpTable[l] < XpTable[m]
<1>1. 1 \in Levels /\ DOMAIN XpTable = Levels
  BY DEF XpTable, Levels
<1>2. XpRequired(1) = 0
  BY DEF XpRequired
<1>3. \A level \in Levels : XpRequired(level) \in Nat
  <2> TAKE level \in Levels
  <2>1. CASE level = 1
    BY <1>2, <2>1
  <2>2. CASE level # 1
    <3>1. 1 < level
      BY <2>2 DEF Levels
    <3> QED
      BY <1>1, <1>2, <3>1, XpRequiredGrows
  <2> QED
    BY <2>1, <2>2
<1>4. XpTable \in Seq(Nat)
  <2>1. XpTable \in [1 .. 100 -> Nat]
    BY <1>3 DEF XpTable, Levels
  <2> QED
    BY <2>1, 100 \in Nat, SeqDef
<1>5. \A l, m \in Levels : l < m => XpTable[l] < XpTable[m]
  BY XpRequiredGrows DEF XpTable
<1>6. XpTable # <<>>
  <2>1. DOMAIN XpTable # {}
    BY <1>1
  <2> QED
    BY <2>1
<1> QED
  BY <1>1, <1>2, <1>4, <1>5, <1>6 DEF XpTable

=================================================================================
