---------------------------- MODULE PokemonGameProofs ----------------------------
(***************************************************************************)
(* The rules of the game, for any species, rules, levels and capacities.   *)
(*                                                                         *)
(* One predicate relates a game to its records (GameOK): every helper that *)
(* changes a game is shown to keep it, and every operation is a sequence   *)
(* of such helpers.  What the queue says of a record stays true because    *)
(* experience only grows, and because an evolution is at the front, and    *)
(* the only one of its record, when it changes the species.                *)
(***************************************************************************)
EXTENDS PokemonGame, TLAPS, FiniteSetTheorems, WellFoundedInduction

\* Two parts of the assumption on the constants.
LEMMA LimitIsNat == MaxItems \in Nat
  BY GameAssumption

LEMMA LevelsGetDearer == \A l, m \in Levels : l < m => XpRequired[l] < XpRequired[m]
  BY GameAssumption

---------------------------------------------------------------------------------
(* Sequences                                                                   *)

\* RemoveAt() moves the elements behind the position forward.
LEMMA RemoveAtFacts ==
    ASSUME NEW S, NEW s \in Seq(S), NEW i \in DOMAIN s
    PROVE  /\ RemoveAt(s, i) \in Seq(S)
           /\ Len(RemoveAt(s, i)) = Len(s) - 1
           /\ \A k \in 1 .. (Len(s) - 1) : RemoveAt(s, i)[k] = IF k < i THEN s[k] ELSE s[k + 1]
<1>1. i \in 1 .. Len(s) /\ Len(s) \in Nat
  OBVIOUS
<1> DEFINE a == SubSeq(s, 1, i - 1)
           b == SubSeq(s, i + 1, Len(s))
<1>2. a \in Seq(S) /\ Len(a) = i - 1 /\ \A k \in 1 .. (i - 1) : a[k] = s[k]
  BY <1>1
<1>3. b \in Seq(S) /\ Len(b) = Len(s) - i /\ \A k \in 1 .. (Len(s) - i) : b[k] = s[k + i]
  BY <1>1
<1> HIDE DEF a, b
<1>4. RemoveAt(s, i) = a \o b
  BY DEF RemoveAt, a, b
<1>5. a \o b \in Seq(S) /\ Len(a \o b) = Len(s) - 1
  BY <1>1, <1>2, <1>3
<1>6. \A k \in 1 .. (Len(s) - 1) : (a \o b)[k] = IF k < i THEN s[k] ELSE s[k + 1]
  <2> TAKE k \in 1 .. (Len(s) - 1)
  <2>1. (a \o b)[k] = IF k <= Len(a) THEN a[k] ELSE b[k - Len(a)]
    BY <1>1, <1>2, <1>3
  <2>2. CASE k < i
    BY <1>1, <1>2, <2>1, <2>2
  <2>3. CASE ~ (k < i)
    <3>1. k - (i - 1) \in 1 .. (Len(s) - i) /\ ~ (k <= i - 1) /\ (k - (i - 1)) + i = k + 1
      BY <1>1, <2>3
    <3> QED
      BY <1>2, <1>3, <2>1, <2>3, <3>1
  <2> QED
    BY <2>2, <2>3
<1> QED
  BY <1>4, <1>5, <1>6

\* InsertAt() makes room at the position.
LEMMA InsertAtFacts ==
    ASSUME NEW S, NEW s \in Seq(S), NEW i \in 1 .. (Len(s) + 1), NEW e \in S
    PROVE  /\ InsertAt(s, i, e) \in Seq(S)
           /\ Len(InsertAt(s, i, e)) = Len(s) + 1
           /\ \A k \in 1 .. (Len(s) + 1) :
                 InsertAt(s, i, e)[k] = IF k < i THEN s[k] ELSE IF k = i THEN e ELSE s[k - 1]
<1>1. Len(s) \in Nat
  OBVIOUS
<1> DEFINE a == SubSeq(s, 1, i - 1)
           b == SubSeq(s, i, Len(s))
<1>2. a \in Seq(S) /\ Len(a) = i - 1 /\ \A k \in 1 .. (i - 1) : a[k] = s[k]
  BY <1>1
<1>3. b \in Seq(S) /\ Len(b) = Len(s) - i + 1 /\ \A k \in 1 .. (Len(s) - i + 1) : b[k] = s[k + i - 1]
  BY <1>1
<1> HIDE DEF a, b
<1>4. InsertAt(s, i, e) = a \o <<e>> \o b
  BY DEF InsertAt, a, b
<1>5. a \o <<e>> \in Seq(S) /\ Len(a \o <<e>>) = i /\ \A k \in 1 .. i : (a \o <<e>>)[k] = IF k < i THEN s[k] ELSE e
  BY <1>1, <1>2
<1> DEFINE c == a \o <<e>>
<1> HIDE DEF c
<1>6. c \in Seq(S) /\ Len(c) = i /\ \A k \in 1 .. i : c[k] = IF k < i THEN s[k] ELSE e
  BY <1>5 DEF c
<1>7. InsertAt(s, i, e) = c \o b
  BY <1>4 DEF c
<1>8. /\ c \o b \in Seq(S) /\ Len(c \o b) = Len(s) + 1
      /\ \A k \in 1 .. (Len(s) + 1) : (c \o b)[k] = IF k <= i THEN c[k] ELSE b[k - i]
  BY <1>1, <1>3, <1>6
<1>9. ASSUME NEW k \in 1 .. (Len(s) + 1)
      PROVE  (c \o b)[k] = IF k < i THEN s[k] ELSE IF k = i THEN e ELSE s[k - 1]
  <2>1. CASE k <= i
    BY <1>6, <1>8, <2>1
  <2>2. CASE k > i
    <3>1. k - i \in 1 .. (Len(s) - i + 1) /\ (k - i) + i - 1 = k - 1
      BY <1>1, <2>2
    <3>2. b[k - i] = s[(k - i) + i - 1]
      BY <1>3, <3>1
    <3> QED
      BY <1>8, <2>2, <3>1, <3>2
  <2>3. k <= i \/ k > i
    BY <1>1
  <2> QED
    BY <2>1, <2>2, <2>3
<1> QED
  BY <1>7, <1>8, <1>9

\* A nonempty set of levels has a greatest one.
LEMMA GreatestExists ==
    ASSUME NEW n \in Nat, NEW T \in SUBSET (0 .. n), T # {}
    PROVE  \E x \in T : \A y \in T : y <= x
<1> DEFINE R == OpToRel(<, Nat)
           D == {n - y : y \in T}
<1>1. \A y \in T : y \in Nat /\ y <= n /\ n - y \in Nat
  OBVIOUS
<1>2. IsWellFoundedOn(R, Nat)
  BY NatLessThanWellFounded
<1>3. D \subseteq Nat /\ D # {}
  BY <1>1
<1>4. PICK d \in D : \A y \in D : ~ (<<y, d>> \in R)
  BY <1>2, <1>3, WFMin
<1>5. \A y \in D : ~ (y < d)
  BY <1>3, <1>4 DEF OpToRel
<1>6. PICK x \in T : d = n - x
  BY <1>4
<1>7. ASSUME NEW y \in T PROVE y <= x
  <2>1. n - y \in D /\ ~ (n - y < n - x)
    BY <1>5, <1>6
  <2>2. n \in Nat /\ x \in Nat /\ y \in Nat
    BY <1>1
  <2> HIDE DEF R, D
  <2> QED
    BY <2>1, <2>2
<1> QED
  BY <1>6, <1>7

\* Compacting keeps events of the queue, each at most once.
LEMMA CompactedFacts ==
    ASSUME NEW E, NEW q \in Seq(E), NEW kept \in SUBSET (DOMAIN q)
    PROVE  \E f : LET m == Len(Compacted(q, kept))
                  IN  /\ Compacted(q, kept) \in Seq(E) /\ m <= Len(q)
                      /\ f \in [1 .. m -> kept]
                      /\ \A k \in 1 .. m : Compacted(q, kept)[k] = q[f[k]]
                      /\ \A k, l \in 1 .. m : f[k] = f[l] => k = l
<1> DEFINE upto(i) == {j \in kept : j <= i}
           m == Cardinality(kept)
           rank == [i \in kept |-> Cardinality(upto(i))]
           f == [n \in 1 .. m |-> CHOOSE i \in kept : Cardinality(upto(i)) = n]
<1>1. kept \in SUBSET (1 .. Len(q)) /\ Len(q) \in Nat
  OBVIOUS
<1>2. IsFiniteSet(kept) /\ m \in Nat /\ m <= Len(q)
  <2>1. IsFiniteSet(1 .. Len(q)) /\ Cardinality(1 .. Len(q)) = Len(q)
    <3>1. ASSUME NEW n \in Nat PROVE IsFiniteSet(1 .. n) /\ Cardinality(1 .. n) = n
      BY FS_Interval
    <3> QED
      BY <1>1, <3>1
  <2>2. IsFiniteSet(kept) /\ Cardinality(kept) <= Len(q)
    BY <1>1, <2>1, FS_Subset
  <2> QED
    BY <2>2, FS_CardinalityType
<1> HIDE DEF m
<1>3. \A i \in kept : IsFiniteSet(upto(i)) /\ Cardinality(upto(i)) \in 1 .. m
  <2> TAKE i \in kept
  <2>1. upto(i) \in SUBSET kept /\ i \in upto(i)
    BY <1>1
  <2>2. IsFiniteSet(upto(i)) /\ Cardinality(upto(i)) <= m
    BY <1>2, <2>1, FS_Subset DEF m
  <2>3. Cardinality(upto(i)) \in Nat /\ Cardinality(upto(i)) # 0
    BY <2>1, <2>2, FS_CardinalityType, FS_EmptySet
  <2> QED
    BY <1>2, <2>2, <2>3
<1>4. \A i, j \in kept : i < j => Cardinality(upto(i)) # Cardinality(upto(j))
  <2> TAKE i, j \in kept
  <2>1. SUFFICES ASSUME i < j PROVE Cardinality(upto(i)) # Cardinality(upto(j))
    OBVIOUS
  <2>2. i \in Int /\ j \in Int /\ \A k \in kept : k \in Int
    BY <1>1
  <2>3. upto(i) \in SUBSET upto(j) /\ j \in upto(j) /\ j \notin upto(i)
    BY <2>1, <2>2
  <2> QED
    BY <1>3, <2>3, FS_Subset
<1>5. rank \in Injection(kept, 1 .. m)
  <2>1. rank \in [kept -> 1 .. m]
    BY <1>3
  <2>2. ASSUME NEW i \in kept, NEW j \in kept, rank[i] = rank[j] PROVE i = j
    <3>1. Cardinality(upto(i)) = Cardinality(upto(j)) /\ i \in Int /\ j \in Int
      BY <1>1, <2>2
    <3>2. ~ (i < j) /\ ~ (j < i)
      BY <1>4, <3>1
    <3> QED
      BY <3>1, <3>2
  <2> HIDE DEF rank
  <2> QED
    BY <2>1, <2>2 DEF Injection, IsInjective
<1>6. IsFiniteSet(1 .. m) /\ Cardinality(1 .. m) = m
  BY <1>2, FS_Interval
<1>7. rank \in Surjection(kept, 1 .. m)
  BY <1>5, <1>6, FS_Injection DEF m
<1>8. \A n \in 1 .. m : \E i \in kept : Cardinality(upto(i)) = n
  <2> TAKE n \in 1 .. m
  <2>1. PICK i \in kept : rank[i] = n
    BY <1>7 DEF Surjection
  <2> QED
    BY <2>1
<1>9. \A n \in 1 .. m : f[n] \in kept /\ Cardinality(upto(f[n])) = n
  BY <1>8
<1>10. Compacted(q, kept) = [n \in 1 .. m |-> q[f[n]]]
  BY DEF Compacted, m
<1> HIDE DEF f, rank
<1>11. \A n \in 1 .. m : q[f[n]] \in E
  <2> TAKE n \in 1 .. m
  <2>1. f[n] \in 1 .. Len(q)
    BY <1>1, <1>9
  <2> QED
    BY <2>1
<1>12. Compacted(q, kept) \in Seq(E) /\ Len(Compacted(q, kept)) = m
  BY <1>2, <1>10, <1>11
<1>13. f \in [1 .. m -> kept]
  BY <1>9 DEF f
<1>14. \A k, l \in 1 .. m : f[k] = f[l] => k = l
  BY <1>9
<1> QED
  BY <1>2, <1>10, <1>12, <1>13, <1>14

---------------------------------------------------------------------------------
(* Levels                                                                      *)

\* levelForXp() is the greatest level the experience suffices for.
LEMMA LevelFacts ==
    ASSUME NEW xp \in Nat
    PROVE  /\ LevelForXp(xp) \in Levels
           /\ XpRequired[LevelForXp(xp)] <= xp
           /\ \A m \in Levels : XpRequired[m] <= xp => m <= LevelForXp(xp)
<1> DEFINE T == {l \in Levels : XpRequired[l] <= xp}
<1>1. Levels = 1 .. Len(XpRequired) /\ Len(XpRequired) \in Nat /\ Len(XpRequired) # 0 /\ XpRequired[1] = 0
  BY GameAssumption DEF Levels
<1>2. T \in SUBSET (0 .. Len(XpRequired)) /\ 1 \in T
  BY <1>1
<1>3. \E x \in T : \A y \in T : y <= x
  BY <1>1, <1>2, GreatestExists
<1>4. \E l \in Levels : XpRequired[l] <= xp /\ \A m \in Levels : XpRequired[m] <= xp => m <= l
  BY <1>3
<1> QED
  BY <1>4 DEF LevelForXp

\* More experience is the same level or a higher one.
LEMMA LevelsGrow ==
    ASSUME NEW x \in Nat, NEW y \in Nat, x <= y
    PROVE  LevelForXp(x) <= LevelForXp(y)
<1>1. XpRequired[LevelForXp(x)] \in Nat /\ LevelForXp(x) \in Levels
  <2>1. LevelForXp(x) \in DOMAIN XpRequired
    BY LevelFacts DEF Levels
  <2>2. XpRequired \in Seq(Nat)
    BY GameAssumption
  <2> QED
    BY <2>1, <2>2 DEF Levels
<1>2. XpRequired[LevelForXp(x)] <= y
  BY <1>1, LevelFacts
<1> QED
  BY <1>1, <1>2, LevelFacts

---------------------------------------------------------------------------------
(* What a game says of its records                                             *)

ItemEvent(item) == [kind |-> "Item", item |-> item]
Announced(queue, item) == Cardinality({i \in DOMAIN queue : queue[i] = ItemEvent(item)})

\* The party names different records, and a game with records has a leader.
PartyOK(g, r) ==
    /\ Len(g.party) <= PartySize
    /\ \A i \in DOMAIN g.party : g.party[i] \in DOMAIN r
    /\ \A i, j \in DOMAIN g.party : g.party[i] = g.party[j] => i = j
    /\ DOMAIN r # {} => Len(g.party) > 0

\* Records are numbered from 1, and their species are caught.
RosterOK(g, r) ==
    /\ \E n \in 0 .. MaxRecords : DOMAIN r = 1 .. n
    /\ \A id \in DOMAIN r : r[id] \in Records /\ r[id].species \in g.caught

\* What is caught was seen; Mew is seen last.
DexOK(g) == g.caught \subseteq g.seen /\ (Mew \in g.seen => Species \ {Mew} \subseteq g.caught)

\* An event names a species that was seen; an evolution can be resolved.
EventOK(event, g, r) ==
    /\ event.kind = "Encounter" => event.species \in g.seen
    /\ event.kind = "Evolution" =>
          /\ event.species \in g.seen /\ event.species # Mew
          /\ event.id \in DOMAIN r
          /\ r[event.id].prompts
          /\ \E rule \in LevelRulesOf(r[event.id]) : rule.to = event.species

\* The queue holds such events, with one evolution for a record at most.
QueueOK(g, r) ==
    /\ Len(g.queue) <= Capacity
    /\ \A i \in DOMAIN g.queue : EventOK(g.queue[i], g, r)
    /\ \A i, j \in DOMAIN g.queue :
          g.queue[i].kind = "Evolution" /\ IsEvolutionOf(g.queue[j], g.queue[i].id) => i = j

\* Announced items are there.
ItemsOK(g) == \A item \in Items : Announced(g.queue, item) <= g.items[item]

NoticeOK(g) == g.notice = IF g.queue = <<>> THEN "None" ELSE Head(g.queue).kind

Core(g, r) == g \in Games /\ PartyOK(g, r) /\ RosterOK(g, r) /\ DexOK(g) /\ QueueOK(g, r) /\ ItemsOK(g)
GameOK(g, r) == Core(g, r) /\ NoticeOK(g)

\* The checks since the last encounter, as the player counts them, are those the
\* game counts.
GameInv == GameOK(game, records) /\ dry = game.encounterMisses

\* A queue with events added at its end.
Extends(p, q) == /\ p \in Seq(Events) /\ q \in Seq(Events) /\ Len(p) <= Len(q)
                 /\ \A i \in 1 .. Len(p) : q[i] = p[i]

\* The fields that queue operations leave alone.
Rest(g) == <<g.party, g.items, g.seen, g.caught, g.minute, g.encounterMisses, g.itemMisses>>

\* The kind of an event tells which fields it has.
LEMMA EventFacts ==
    ASSUME NEW e \in Events
    PROVE  /\ e.kind \in {"Encounter", "Item", "Evolution"}
           /\ e.kind = "Encounter" => e.species \in Species /\ e.level \in Levels
           /\ e.kind = "Item" => e.item \in Items /\ e = ItemEvent(e.item)
           /\ e.kind = "Evolution" => e.id \in Ids /\ e.species \in Species
<1>1. CASE e \in [kind : {"Encounter"}, species : Species, level : Levels]
  BY <1>1
<1>2. CASE e \in [kind : {"Item"}, item : Items]
  BY <1>2 DEF ItemEvent
<1>3. CASE e \in [kind : {"Evolution"}, id : Ids, species : Species]
  BY <1>3
<1> QED
  BY <1>1, <1>2, <1>3 DEF Events

\* Refreshing changes the notice only, to what the front says.
LEMMA RefreshFacts ==
    ASSUME NEW g \in Games
    PROVE  /\ Refresh(g) \in Games /\ Refresh(g).queue = g.queue
           /\ Rest(Refresh(g)) = Rest(g) /\ NoticeOK(Refresh(g))
<1> DEFINE n == IF g.queue = <<>> THEN "None" ELSE Head(g.queue).kind
<1>1. g.queue \in Seq(Events)
  BY DEF Games
<1>2. n \in Notices
  BY <1>1, EventFacts DEF Notices
<1>3. Refresh(g) = [g EXCEPT !.notice = n]
  BY DEF Refresh
<1> HIDE DEF n
<1>4. /\ Refresh(g) \in Games /\ Refresh(g).queue = g.queue /\ Refresh(g).notice = n
      /\ Rest(Refresh(g)) = Rest(g)
  BY <1>2, <1>3 DEF Games, Rest
<1> QED
  BY <1>4 DEF NoticeOK, n

\* The queue replaced, and the notice refreshed.
LEMMA RequeuedFacts ==
    ASSUME NEW g \in Games, NEW q \in Seq(Events)
    PROVE  LET h == Refresh([g EXCEPT !.queue = q])
           IN  h \in Games /\ h.queue = q /\ Rest(h) = Rest(g) /\ NoticeOK(h)
<1> DEFINE k == [g EXCEPT !.queue = q]
<1>1. k \in Games /\ k.queue = q /\ Rest(k) = Rest(g)
  BY DEF Games, Rest
<1> HIDE DEF k
<1>2. Refresh(k) \in Games /\ Refresh(k).queue = q /\ Rest(Refresh(k)) = Rest(g) /\ NoticeOK(Refresh(k))
  BY <1>1, RefreshFacts
<1> QED
  BY <1>2 DEF k

\* Equal fields, equal judgement: what Core says of a game without its queue.
LEMMA RestKeeps ==
    ASSUME NEW g \in Games, NEW h \in Games, NEW r, Rest(h) = Rest(g), Core(g, r)
    PROVE  /\ PartyOK(h, r) /\ RosterOK(h, r) /\ DexOK(h)
           /\ h.items = g.items /\ h.seen = g.seen /\ h.caught = g.caught /\ h.party = g.party
           /\ h.encounterMisses = g.encounterMisses /\ h.minute = g.minute
           /\ \A e : EventOK(e, g, r) <=> EventOK(e, h, r)
<1>1. /\ h.items = g.items /\ h.seen = g.seen /\ h.caught = g.caught /\ h.party = g.party
      /\ h.encounterMisses = g.encounterMisses /\ h.minute = g.minute
  BY DEF Rest
<1> QED
  BY <1>1 DEF Core, PartyOK, RosterOK, DexOK, EventOK

\* A set of positions of a queue is finite.
LEMMA PositionsAreFinite ==
    ASSUME NEW q \in Seq(Events), NEW T \in SUBSET (DOMAIN q)
    PROVE  IsFiniteSet(T) /\ Cardinality(T) \in Nat
<1>1. ASSUME NEW n \in Nat PROVE IsFiniteSet(1 .. n)
  BY FS_Interval
<1>2. DOMAIN q = 1 .. Len(q) /\ Len(q) \in Nat
  OBVIOUS
<1>3. IsFiniteSet(DOMAIN q)
  BY <1>1, <1>2
<1> QED
  BY <1>3, FS_Subset, FS_CardinalityType

\* Announcements of a queue whose positions come from another one.
LEMMA AnnouncedEmbeds ==
    ASSUME NEW p \in Seq(Events), NEW q \in Seq(Events), NEW item,
           NEW f \in [DOMAIN q -> DOMAIN p],
           \A k \in DOMAIN q : q[k] = p[f[k]],
           \A k, l \in DOMAIN q : f[k] = f[l] => k = l
    PROVE  Announced(q, item) <= Announced(p, item)
<1> DEFINE P == {i \in DOMAIN p : p[i] = ItemEvent(item)}
           Q == {i \in DOMAIN q : q[i] = ItemEvent(item)}
           h == [k \in Q |-> f[k]]
<1>1. h \in [Q -> P] /\ \A k, l \in Q : h[k] = h[l] => k = l
  OBVIOUS
<1>2. h \in Injection(Q, P)
  <2> HIDE DEF h
  <2> QED
    BY <1>1 DEF Injection, IsInjective
<1>3. IsFiniteSet(P)
  BY PositionsAreFinite
<1> HIDE DEF P, Q
<1>4. Cardinality(Q) <= Cardinality(P)
  BY <1>2, <1>3, FS_Injection
<1> QED
  BY <1>4 DEF P, Q, Announced

---------------------------------------------------------------------------------
(* What keeps Core                                                             *)

\* More seen, more caught, more items, other counters: Core remains.
LEMMA MoreKeepsCore ==
    ASSUME NEW g, NEW h \in Games, NEW r, Core(g, r), DexOK(h),
           h.party = g.party, h.queue = g.queue,
           g.seen \subseteq h.seen, g.caught \subseteq h.caught,
           \A item \in Items : g.items[item] <= h.items[item]
    PROVE  Core(h, r)
<1>1. PartyOK(h, r) /\ RosterOK(h, r)
  BY DEF Core, PartyOK, RosterOK
<1>2. \A e : EventOK(e, g, r) => EventOK(e, h, r)
  BY DEF EventOK
<1>3. QueueOK(h, r)
  BY <1>2 DEF Core, QueueOK
<1>4. ItemsOK(h)
  <2> SUFFICES ASSUME NEW item \in Items PROVE Announced(h.queue, item) <= h.items[item]
    BY DEF ItemsOK
  <2>1. g \in Games /\ g.queue \in Seq(Events)
    BY DEF Core, Games
  <2>2. Announced(g.queue, item) \in Nat
    BY <2>1, PositionsAreFinite DEF Announced
  <2>3. g.items[item] \in Nat /\ h.items[item] \in Nat
    BY <2>1, GameAssumption DEF Games
  <2>4. Announced(g.queue, item) <= g.items[item]
    BY DEF Core, ItemsOK
  <2> QED
    BY <2>2, <2>3, <2>4
<1> QED
  BY <1>1, <1>3, <1>4 DEF Core

\* Other records under the same ids, under which every event is still all right.
LEMMA RecordsKeepCore ==
    ASSUME NEW g, NEW r, NEW s, Core(g, r), DOMAIN s = DOMAIN r,
           \A id \in DOMAIN s : s[id] \in Records /\ s[id].species \in g.caught,
           \A i \in DOMAIN g.queue : EventOK(g.queue[i], g, s)
    PROVE  Core(g, s)
<1>1. PartyOK(g, s) /\ RosterOK(g, s) /\ QueueOK(g, s)
  BY DEF Core, PartyOK, RosterOK, QueueOK
<1> QED
  BY <1>1 DEF Core

\* The front event removed.
LEMMA PoppedKeeps ==
    ASSUME NEW g, NEW r, Core(g, r), g.queue # <<>>
    PROVE  /\ GameOK(Popped(g), r) /\ Popped(g).queue = Tail(g.queue)
           /\ Rest(Popped(g)) = Rest(g)
<1> DEFINE h == Popped(g)
           q == Tail(g.queue)
<1>1. g \in Games /\ g.queue \in Seq(Events) /\ Len(g.queue) \in Nat /\ Len(g.queue) > 0
  BY DEF Core, Games
<1>2. q \in Seq(Events) /\ Len(q) = Len(g.queue) - 1 /\ \A k \in DOMAIN q : k + 1 \in DOMAIN g.queue /\ q[k] = g.queue[k + 1]
  BY <1>1
<1>3. h = Refresh([g EXCEPT !.queue = q])
  BY DEF Popped
<1> HIDE DEF q, h
<1>4. h \in Games /\ h.queue = q /\ Rest(h) = Rest(g) /\ NoticeOK(h)
  BY <1>1, <1>2, <1>3, RequeuedFacts
<1>5. PartyOK(h, r) /\ RosterOK(h, r) /\ DexOK(h) /\ h.items = g.items /\ \A e : EventOK(e, g, r) <=> EventOK(e, h, r)
  BY <1>1, <1>4, RestKeeps
<1>6. QueueOK(h, r)
  <2>1. Len(h.queue) <= Capacity
    BY <1>1, <1>2, <1>4, GameAssumption DEF Core, QueueOK
  <2>2. \A i \in DOMAIN h.queue : EventOK(h.queue[i], h, r)
    BY <1>2, <1>4, <1>5 DEF Core, QueueOK
  <2>3. ASSUME NEW i \in DOMAIN h.queue, NEW j \in DOMAIN h.queue,
               h.queue[i].kind = "Evolution", IsEvolutionOf(h.queue[j], h.queue[i].id)
        PROVE  i = j
    <3>1. i + 1 = j + 1
      BY <1>2, <1>4, <2>3 DEF Core, QueueOK
    <3>2. i \in Int /\ j \in Int
      BY <1>2, <1>4
    <3> QED
      BY <3>1, <3>2
  <2> QED
    BY <2>1, <2>2, <2>3 DEF QueueOK
<1>7. ItemsOK(h)
  <2> SUFFICES ASSUME NEW item \in Items PROVE Announced(q, item) <= g.items[item]
    BY <1>4, <1>5 DEF ItemsOK
  <2> DEFINE f == [k \in DOMAIN q |-> k + 1]
  <2>1. \A k \in DOMAIN q : k \in Int
    BY <1>2
  <2>2. f \in [DOMAIN q -> DOMAIN g.queue] /\ \A k \in DOMAIN q : f[k] = k + 1 /\ q[k] = g.queue[f[k]]
    BY <1>2
  <2>3. \A k, l \in DOMAIN q : f[k] = f[l] => k = l
    BY <2>1
  <2> HIDE DEF f
  <2> DEFINE p == g.queue
  <2>6. /\ p \in Seq(Events) /\ q \in Seq(Events) /\ f \in [DOMAIN q -> DOMAIN p]
        /\ \A k \in DOMAIN q : q[k] = p[f[k]]
    BY <1>1, <1>2, <2>2
  <2> HIDE DEF p
  <2>7. Announced(q, item) <= Announced(p, item)
    BY <2>3, <2>6, AnnouncedEmbeds
  <2>4. Announced(q, item) <= Announced(g.queue, item)
    BY <2>7 DEF p
  <2>5. Announced(q, item) \in Nat /\ Announced(g.queue, item) \in Nat
    BY <1>1, <1>2, PositionsAreFinite DEF Announced
  <2>8. g.items[item] \in Nat /\ Announced(g.queue, item) <= g.items[item]
    BY <1>1, GameAssumption DEF Core, ItemsOK, Games
  <2> QED
    BY <2>4, <2>5, <2>8
<1> QED
  BY <1>4, <1>5, <1>6, <1>7 DEF GameOK, Core, h, q

\* The evolutions of one record removed.
LEMMA WithoutEvolutionsKeeps ==
    ASSUME NEW g, NEW r, Core(g, r), NEW id
    PROVE  LET h == WithoutEvolutions(g, id)
           IN  /\ GameOK(h, r) /\ Rest(h) = Rest(g)
               /\ \A i \in DOMAIN h.queue : ~ IsEvolutionOf(h.queue[i], id)
<1> DEFINE h == WithoutEvolutions(g, id)
           p == g.queue
           kept == OthersThan(p, id)
           q == Compacted(p, kept)
           m == Len(q)
<1>1. g \in Games /\ p \in Seq(Events) /\ kept \in SUBSET (DOMAIN p)
      /\ \A i \in kept : ~ IsEvolutionOf(p[i], id)
  BY DEF Core, Games, OthersThan
<1>2. h = Refresh([g EXCEPT !.queue = q])
  BY DEF WithoutEvolutions
<1> HIDE DEF h, p, kept
<1>3. PICK f : /\ q \in Seq(Events) /\ m <= Len(p)
               /\ f \in [1 .. m -> kept]
               /\ \A k \in 1 .. m : q[k] = p[f[k]]
               /\ \A k, l \in 1 .. m : f[k] = f[l] => k = l
  BY <1>1, CompactedFacts, SMTT(40)
<1>4. DOMAIN q = 1 .. m /\ m \in Nat /\ Len(p) \in Nat
  BY <1>1, <1>3
<1> HIDE DEF q, m
<1>5. h \in Games /\ h.queue = q /\ Rest(h) = Rest(g) /\ NoticeOK(h)
  BY <1>1, <1>2, <1>3, RequeuedFacts
<1>6. PartyOK(h, r) /\ RosterOK(h, r) /\ DexOK(h) /\ h.items = g.items /\ \A e : EventOK(e, g, r) <=> EventOK(e, h, r)
  BY <1>1, <1>5, RestKeeps
<1>8. \A k \in DOMAIN q : f[k] \in DOMAIN p /\ f[k] \in kept /\ q[k] = p[f[k]]
  BY <1>1, <1>3, <1>4
<1>9. /\ Len(p) <= Capacity /\ \A i \in DOMAIN p : EventOK(p[i], g, r)
      /\ \A i, j \in DOMAIN p : p[i].kind = "Evolution" /\ IsEvolutionOf(p[j], p[i].id) => i = j
  BY DEF Core, QueueOK, p
<1>10. QueueOK(h, r)
  <2>1. Len(h.queue) <= Capacity
    BY <1>3, <1>4, <1>5, <1>9, GameAssumption DEF m
  <2>2. \A i \in DOMAIN h.queue : EventOK(h.queue[i], h, r)
    BY <1>5, <1>6, <1>8, <1>9
  <2>3. ASSUME NEW i \in DOMAIN h.queue, NEW j \in DOMAIN h.queue,
               h.queue[i].kind = "Evolution", IsEvolutionOf(h.queue[j], h.queue[i].id)
        PROVE  i = j
    <3>1. f[i] = f[j]
      BY <1>5, <1>8, <1>9, <2>3
    <3> QED
      BY <1>3, <1>4, <1>5, <3>1
  <2> QED
    BY <2>1, <2>2, <2>3 DEF QueueOK
<1>11. ItemsOK(h)
  <2> SUFFICES ASSUME NEW item \in Items PROVE Announced(q, item) <= g.items[item]
    BY <1>5, <1>6 DEF ItemsOK
  <2>1. f \in [DOMAIN q -> DOMAIN p]
    BY <1>1, <1>3, <1>4
  <2>2. Announced(q, item) <= Announced(p, item)
    BY <1>1, <1>3, <1>4, <1>8, <2>1, AnnouncedEmbeds
  <2>3. Announced(q, item) \in Nat /\ Announced(p, item) \in Nat
    BY <1>1, <1>3, PositionsAreFinite DEF Announced
  <2>4. g.items[item] \in Nat /\ Announced(p, item) <= g.items[item]
    BY <1>1, GameAssumption DEF Core, ItemsOK, Games, p
  <2> QED
    BY <2>2, <2>3, <2>4
<1>12. \A i \in DOMAIN h.queue : ~ IsEvolutionOf(h.queue[i], id)
  BY <1>1, <1>5, <1>8
<1> QED
  BY <1>5, <1>6, <1>10, <1>11, <1>12 DEF GameOK, Core, h

\* An event appended: one that is all right, and new.
LEMMA EnqueuedKeeps ==
    ASSUME NEW g, NEW r, Core(g, r), ~ Full(g), NEW e \in Events, EventOK(e, g, r),
           e.kind = "Evolution" => \A i \in DOMAIN g.queue : ~ IsEvolutionOf(g.queue[i], e.id),
           e.kind = "Item" => Announced(g.queue, e.item) < g.items[e.item]
    PROVE  /\ GameOK(Enqueued(g, e), r) /\ Rest(Enqueued(g, e)) = Rest(g)
           /\ Len(Enqueued(g, e).queue) = Len(g.queue) + 1
           /\ Extends(g.queue, Enqueued(g, e).queue)
<1> DEFINE h == Enqueued(g, e)
           p == g.queue
           q == Append(p, e)
           n == Len(p)
<1>1. g \in Games /\ p \in Seq(Events) /\ n \in Nat /\ DOMAIN p = 1 .. n
  BY DEF Core, Games
<1>2. h = Refresh([g EXCEPT !.queue = q])
  BY DEF Enqueued
<1>3. /\ q \in Seq(Events) /\ Len(q) = n + 1 /\ DOMAIN q = 1 .. (n + 1)
      /\ q[n + 1] = e /\ \A k \in 1 .. n : q[k] = p[k]
  BY <1>1
<1>4. /\ n <= Capacity /\ n # Capacity /\ \A i \in DOMAIN p : EventOK(p[i], g, r)
      /\ \A i, j \in DOMAIN p : p[i].kind = "Evolution" /\ IsEvolutionOf(p[j], p[i].id) => i = j
  BY DEF Core, QueueOK, Full
<1> HIDE DEF h, p, q, n
<1>5. h \in Games /\ h.queue = q /\ Rest(h) = Rest(g) /\ NoticeOK(h)
  BY <1>1, <1>2, <1>3, RequeuedFacts
<1>6. PartyOK(h, r) /\ RosterOK(h, r) /\ DexOK(h) /\ h.items = g.items /\ \A x : EventOK(x, g, r) <=> EventOK(x, h, r)
  BY <1>1, <1>5, RestKeeps
<1>7. QueueOK(h, r)
  <2>1. Len(h.queue) <= Capacity
    BY <1>1, <1>3, <1>4, <1>5, GameAssumption
  <2>0. \A i \in DOMAIN q : i \in 1 .. n \/ i = n + 1
    BY <1>1, <1>3
  <2>2. \A i \in DOMAIN h.queue : EventOK(h.queue[i], h, r)
    BY <1>1, <1>3, <1>4, <1>5, <1>6, <2>0
  <2>3. ASSUME NEW i \in DOMAIN q, NEW j \in DOMAIN q,
               q[i].kind = "Evolution", IsEvolutionOf(q[j], q[i].id)
        PROVE  i = j
    <3>0. q[j].kind = "Evolution" /\ q[j].id = q[i].id
      BY <2>3 DEF IsEvolutionOf
    <3>1. CASE i \in 1 .. n /\ j \in 1 .. n
      BY <1>1, <1>3, <1>4, <2>3, <3>1
    <3>2. CASE i = n + 1 /\ j \in 1 .. n
      BY <1>1, <1>3, <2>3, <3>2 DEF p
    <3>3. CASE i \in 1 .. n /\ j = n + 1
      <4>1. IsEvolutionOf(q[i], q[j].id)
        BY <2>3, <3>0 DEF IsEvolutionOf
      <4> QED
        BY <1>1, <1>3, <3>0, <3>3, <4>1 DEF p
    <3> QED
      BY <2>0, <3>1, <3>2, <3>3
  <2> QED
    BY <1>5, <2>1, <2>2, <2>3 DEF QueueOK
<1>8. ItemsOK(h)
  <2> SUFFICES ASSUME NEW item \in Items PROVE Announced(q, item) <= g.items[item]
    BY <1>5, <1>6 DEF ItemsOK
  <2> DEFINE P == {i \in DOMAIN p : p[i] = ItemEvent(item)}
             Q == {i \in DOMAIN q : q[i] = ItemEvent(item)}
  <2>1. IsFiniteSet(P) /\ Cardinality(P) \in Nat /\ Cardinality(P) = Announced(p, item)
        /\ Cardinality(Q) = Announced(q, item)
    BY <1>1, PositionsAreFinite DEF Announced
  <2>2. g.items[item] \in Nat /\ Announced(p, item) <= g.items[item]
    BY <1>1, GameAssumption DEF Core, ItemsOK, Games, p
  <2>3. CASE e = ItemEvent(item)
    <3>1. e.kind = "Item" /\ e.item = item
      BY <2>3 DEF ItemEvent
    <3>2. Q = P \cup {n + 1} /\ n + 1 \notin P
      BY <1>1, <1>3, <2>3
    <3>3. Cardinality(Q) = Cardinality(P) + 1
      BY <2>1, <3>2, FS_AddElement
    <3> QED
      BY <2>1, <2>2, <3>1, <3>3 DEF p
  <2>4. CASE e # ItemEvent(item)
    <3>1. Q = P
      BY <1>1, <1>3, <2>4
    <3> QED
      BY <2>1, <2>2, <3>1
  <2> QED
    BY <2>3, <2>4
<1>9. Len(h.queue) = n + 1
  BY <1>3, <1>5
<1>10. Extends(p, h.queue)
  BY <1>1, <1>3, <1>5 DEF Extends, n
<1> QED
  BY <1>5, <1>6, <1>7, <1>8, <1>9, <1>10 DEF GameOK, Core, h, n, p

LEMMA ExtendsIsTransitive ==
    ASSUME NEW p, NEW q, NEW s, NEW t, Extends(p, q), Extends(q, s), Extends(s, t)
    PROVE  Extends(p, t)
<1>1. Len(p) \in Nat /\ Len(q) \in Nat /\ Len(s) \in Nat /\ Len(t) \in Nat
  BY DEF Extends
<1>2. Len(p) <= Len(t)
  BY <1>1 DEF Extends
<1>3. ASSUME NEW i \in 1 .. Len(p) PROVE t[i] = p[i]
  <2>1. i \in 1 .. Len(q) /\ i \in 1 .. Len(s)
    BY <1>1 DEF Extends
  <2> QED
    BY <2>1 DEF Extends
<1> QED
  BY <1>2, <1>3 DEF Extends

LEMMA ExtendsIsPrefix ==
    ASSUME NEW p, NEW q, Extends(p, q) PROVE IsPrefix(p, q)
<1>1. /\ p \in Seq(Events) /\ q \in Seq(Events) /\ Len(p) \in Nat /\ Len(q) \in Nat
      /\ Len(p) <= Len(q) /\ \A i \in 1 .. Len(p) : q[i] = p[i]
  BY DEF Extends
<1>2. /\ SubSeq(p, 1, Len(p)) \in Seq(Events) /\ SubSeq(q, 1, Len(p)) \in Seq(Events)
      /\ Len(SubSeq(p, 1, Len(p))) = Len(p) /\ Len(SubSeq(q, 1, Len(p))) = Len(p)
      /\ \A i \in 1 .. Len(p) : SubSeq(p, 1, Len(p))[i] = p[i] /\ SubSeq(q, 1, Len(p))[i] = q[i]
  BY <1>1
<1>3. SubSeq(p, 1, Len(p)) = SubSeq(q, 1, Len(p))
  BY <1>1, <1>2
<1> QED
  BY <1>1, <1>3 DEF IsPrefix

---------------------------------------------------------------------------------
(* One credited minute                                                         *)

\* The hourly item.
LEMMA HourlyItemKeeps ==
    ASSUME NEW g, NEW r, GameOK(g, r), NEW h \in HourlyItem(g)
    PROVE  GameOK(h, r) /\ h.encounterMisses = g.encounterMisses /\ Extends(g.queue, h.queue)
<1>0. \A q \in Seq(Events) : Extends(q, q)
  BY DEF Extends
<1>1. g \in Games /\ Core(g, r) /\ NoticeOK(g) /\ ItemMisses \in Nat
  BY GameAssumption DEF GameOK, Core
<1>6. g.queue \in Seq(Events) /\ Extends(g.queue, g.queue)
  BY <1>0, <1>1 DEF Games
<1>2. ASSUME NEW n \in 0 .. ItemMisses
      PROVE  LET k == [g EXCEPT !.itemMisses = n]
             IN  GameOK(k, r) /\ k \in Games /\ k.encounterMisses = g.encounterMisses
                 /\ k.queue = g.queue /\ k.items = g.items
  <2> DEFINE k == [g EXCEPT !.itemMisses = n]
  <2>1. /\ k \in Games /\ k.party = g.party /\ k.queue = g.queue /\ k.seen = g.seen
        /\ k.caught = g.caught /\ k.items = g.items /\ k.notice = g.notice
        /\ k.encounterMisses = g.encounterMisses
    BY <1>1 DEF Games
  <2> HIDE DEF k
  <2>2. \A item \in Items : g.items[item] <= k.items[item]
    BY <1>1, <2>1, LimitIsNat DEF Games
  <2>3. DexOK(k)
    BY <1>1, <2>1 DEF Core, DexOK
  <2>4. Core(k, r)
    BY <1>1, <2>1, <2>2, <2>3, MoreKeepsCore
  <2>5. NoticeOK(k)
    BY <1>1, <2>1 DEF NoticeOK
  <2> QED
    BY <2>1, <2>4, <2>5 DEF GameOK, k
<1>3. CASE Full(g)
  <2>1. h = [g EXCEPT !.itemMisses = ItemMisses]
    BY <1>3 DEF HourlyItem
  <2>2. GameOK(h, r) /\ h.encounterMisses = g.encounterMisses /\ h.queue = g.queue
    BY <1>1, <1>2, <2>1
  <2> QED
    BY <1>6, <2>2
<1>4. CASE ~ Full(g) /\ h \in FoundItems(g)
  <2> DEFINE found == [g EXCEPT !.itemMisses = 0]
  <2>1. /\ GameOK(found, r) /\ found \in Games /\ found.encounterMisses = g.encounterMisses
        /\ found.queue = g.queue /\ found.items = g.items
    BY <1>1, <1>2
  <2>2. h = found \/ \E i \in ItemChoices(g) :
            h = Enqueued([found EXCEPT !.items[i] = @ + 1], [kind |-> "Item", item |-> i])
    BY <1>4 DEF FoundItems
  <2> HIDE DEF found
  <2>3. ASSUME NEW i \in ItemChoices(g),
               h = Enqueued([found EXCEPT !.items[i] = @ + 1], [kind |-> "Item", item |-> i])
        PROVE  GameOK(h, r) /\ h.encounterMisses = g.encounterMisses /\ Extends(g.queue, h.queue)
    <3> DEFINE k == [found EXCEPT !.items[i] = @ + 1]
               e == [kind |-> "Item", item |-> i]
    <3>1. i \in Items /\ g.items[i] < MaxItems
      BY DEF ItemChoices
    <3>2. found.items \in [Items -> 0 .. MaxItems] /\ found.items[i] \in Nat /\ MaxItems \in Nat
      <4>1. MaxItems \in Nat
        BY GameAssumption
      <4>2. found.items \in [Items -> 0 .. MaxItems]
        BY <2>1 DEF Games
      <4> QED
        BY <3>1, <4>1, <4>2
    <3>3. /\ k \in Games /\ k.party = found.party /\ k.queue = found.queue /\ k.seen = found.seen
          /\ k.caught = found.caught /\ k.encounterMisses = found.encounterMisses
          /\ k.items = [found.items EXCEPT ![i] = @ + 1]
      <4> DEFINE items == [found.items EXCEPT ![i] = @ + 1]
      <4>1. items \in [Items -> 0 .. MaxItems]
        BY <2>1, <3>1, <3>2
      <4>2. k = [found EXCEPT !.items = items]
        OBVIOUS
      <4> HIDE DEF items, k
      <4>3. /\ k \in Games /\ k.party = found.party /\ k.queue = found.queue /\ k.seen = found.seen
            /\ k.caught = found.caught /\ k.encounterMisses = found.encounterMisses
            /\ k.items = items
        BY <2>1, <4>1, <4>2 DEF Games
      <4> QED
        BY <4>3 DEF items
    <3> HIDE DEF k
    <3>4. \A item \in Items : found.items[item] <= k.items[item]
      <4> TAKE item \in Items
      <4>1. found.items[item] \in Nat
        BY <3>2
      <4> QED
        BY <3>1, <3>2, <3>3, <4>1
    <3>5. Core(found, r) /\ DexOK(k)
      BY <2>1, <3>3 DEF GameOK, Core, DexOK
    <3>6. Core(k, r)
      BY <3>3, <3>4, <3>5, MoreKeepsCore
    <3>7. e \in Events /\ EventOK(e, k, r) /\ e.kind = "Item" /\ e.item = i
      BY <3>1 DEF Events, EventOK
    <3>8. ~ Full(k)
      BY <1>4, <2>1, <3>3 DEF Full
    <3>9. Announced(k.queue, i) < k.items[i]
      <4>1. Announced(found.queue, i) <= found.items[i]
        BY <3>1, <3>5 DEF Core, ItemsOK
      <4>2. found.queue \in Seq(Events)
        BY <2>1 DEF Games
      <4>3. Announced(found.queue, i) \in Nat
        BY <4>2, PositionsAreFinite DEF Announced
      <4>4. k.items[i] = found.items[i] + 1
        BY <3>1, <3>2, <3>3
      <4> QED
        BY <3>2, <3>3, <4>1, <4>3, <4>4
    <3> HIDE DEF e
    <3>10. /\ GameOK(Enqueued(k, e), r) /\ Rest(Enqueued(k, e)) = Rest(k)
           /\ Extends(k.queue, Enqueued(k, e).queue)
      BY <3>6, <3>7, <3>8, <3>9, EnqueuedKeeps
    <3>11. h = Enqueued(k, e)
      BY <2>3 DEF k, e
    <3>12. h.encounterMisses = k.encounterMisses
      BY <3>10, <3>11 DEF Rest
    <3> QED
      BY <2>1, <3>3, <3>10, <3>11, <3>12
  <2> QED
    BY <1>6, <2>1, <2>2, <2>3
<1>5. CASE ~ Full(g) /\ g.itemMisses # ItemMisses /\ h = [g EXCEPT !.itemMisses = Capped(@ + 1, ItemMisses)]
  <2>1. Capped(g.itemMisses + 1, ItemMisses) \in 0 .. ItemMisses
    BY <1>1 DEF Capped, Games
  <2> QED
    BY <1>2, <1>5, <1>6, <2>1
<1> QED
  BY <1>3, <1>4, <1>5 DEF HourlyItem

\* The encounter check, and the checks a player counts.
LEMMA EncounterCheckKeeps ==
    ASSUME NEW g, NEW r, GameOK(g, r), NEW h \in EncounterCheck(g), dry = g.encounterMisses
    PROVE  GameOK(h, r) /\ DryAfter(g, h) = h.encounterMisses /\ Extends(g.queue, h.queue)
<1>1. g \in Games /\ Core(g, r) /\ NoticeOK(g) /\ EncounterMisses \in Nat
  BY GameAssumption DEF GameOK, Core
<1>6. Extends(g.queue, g.queue)
  BY <1>1 DEF Extends, Games
<1>2. ASSUME NEW n \in 0 .. EncounterMisses
      PROVE  LET k == [g EXCEPT !.encounterMisses = n]
             IN  GameOK(k, r) /\ k.queue = g.queue /\ k.encounterMisses = n
  <2> DEFINE k == [g EXCEPT !.encounterMisses = n]
  <2>1. /\ k \in Games /\ k.party = g.party /\ k.queue = g.queue /\ k.seen = g.seen
        /\ k.caught = g.caught /\ k.items = g.items /\ k.notice = g.notice
        /\ k.encounterMisses = n
    BY <1>1 DEF Games
  <2> HIDE DEF k
  <2>2. \A item \in Items : g.items[item] <= k.items[item]
    BY <1>1, <2>1, LimitIsNat DEF Games
  <2>3. DexOK(k)
    BY <1>1, <2>1 DEF Core, DexOK
  <2>4. Core(k, r)
    BY <1>1, <2>1, <2>2, <2>3, MoreKeepsCore
  <2>5. NoticeOK(k)
    BY <1>1, <2>1 DEF NoticeOK
  <2> QED
    BY <2>1, <2>4, <2>5 DEF GameOK, k
<1>3. CASE Full(g)
  <2>1. h = [g EXCEPT !.encounterMisses = EncounterMisses]
    BY <1>3 DEF EncounterCheck
  <2>2. GameOK(h, r) /\ h.encounterMisses = EncounterMisses /\ h.queue = g.queue
    BY <1>1, <1>2, <2>1
  <2> QED
    BY <1>3, <1>6, <2>2 DEF DryAfter
<1>4. CASE ~ Full(g) /\ h \in Encounters(g)
  <2> DEFINE Shown(s, l) == Enqueued([g EXCEPT !.seen = @ \cup {s}, !.encounterMisses = 0],
                                     [kind |-> "Encounter", species |-> s, level |-> l])
  <2>0. Encounters(g) = {Shown(s, l) : s \in EncounterChoices(g), l \in EncounterLevels}
    BY DEF Encounters
  <2> HIDE DEF Shown
  <2>14. PICK s \in EncounterChoices(g), l \in EncounterLevels : h = Shown(s, l)
    BY <1>4, <2>0
  <2>1. h = Enqueued([g EXCEPT !.seen = @ \cup {s}, !.encounterMisses = 0],
                     [kind |-> "Encounter", species |-> s, level |-> l])
    BY <2>14 DEF Shown
  <2> DEFINE k == [g EXCEPT !.seen = @ \cup {s}, !.encounterMisses = 0]
             e == [kind |-> "Encounter", species |-> s, level |-> l]
  <2>2. s \in Species /\ l \in Levels
    <3>1. l \in Levels
      BY GameAssumption
    <3> QED
      BY <3>1 DEF EncounterChoices, LegendaryChoices, Species
  <2>3. s = Mew => Species \ {Mew} \subseteq g.caught
    BY GameAssumption DEF EncounterChoices, LegendaryChoices, MewIsReady
  <2>4. /\ k \in Games /\ k.party = g.party /\ k.queue = g.queue /\ k.seen = g.seen \cup {s}
        /\ k.caught = g.caught /\ k.items = g.items /\ k.encounterMisses = 0
    <3>1. k = [[g EXCEPT !.seen = @ \cup {s}] EXCEPT !.encounterMisses = 0]
      OBVIOUS
    <3> DEFINE j == [g EXCEPT !.seen = @ \cup {s}]
    <3>2. /\ j \in Games /\ j.party = g.party /\ j.queue = g.queue /\ j.seen = g.seen \cup {s}
          /\ j.caught = g.caught /\ j.items = g.items
      BY <1>1, <2>2 DEF Games
    <3> HIDE DEF j
    <3>3. k = [j EXCEPT !.encounterMisses = 0]
      BY <3>1 DEF j
    <3>4. 0 \in 0 .. EncounterMisses
      BY <1>1
    <3>5. k \in Games
      BY <3>2, <3>3, <3>4 DEF Games
    <3>6. /\ k.party = j.party /\ k.queue = j.queue /\ k.seen = j.seen
          /\ k.caught = j.caught /\ k.items = j.items
      BY <3>2, <3>3 DEF Games
    <3>7. k.encounterMisses = 0
      BY <3>2, <3>3 DEF Games
    <3> QED
      BY <3>2, <3>5, <3>6, <3>7
  <2> HIDE DEF k
  <2>5. \A item \in Items : g.items[item] <= k.items[item]
    BY <1>1, <2>4, LimitIsNat DEF Games
  <2>6. DexOK(k)
    BY <1>1, <2>3, <2>4 DEF Core, DexOK
  <2>7. Core(k, r)
    BY <1>1, <2>4, <2>5, <2>6, MoreKeepsCore
  <2>8. e \in Events /\ EventOK(e, k, r) /\ e.kind = "Encounter"
    BY <2>2, <2>4 DEF Events, EventOK
  <2>9. ~ Full(k)
    BY <1>4, <2>4 DEF Full
  <2> HIDE DEF e
  <2>10. /\ GameOK(Enqueued(k, e), r) /\ Rest(Enqueued(k, e)) = Rest(k)
         /\ Len(Enqueued(k, e).queue) = Len(k.queue) + 1
         /\ Extends(k.queue, Enqueued(k, e).queue)
    BY <2>7, <2>8, <2>9, EnqueuedKeeps
  <2>11. h = Enqueued(k, e)
    BY <2>1 DEF k, e
  <2>12. /\ GameOK(h, r) /\ h.encounterMisses = 0 /\ Len(h.queue) = Len(g.queue) + 1
         /\ Extends(g.queue, h.queue)
    BY <2>4, <2>10, <2>11 DEF Rest
  <2>13. Len(g.queue) \in Nat
    BY <1>1 DEF Games
  <2> QED
    BY <1>4, <2>12, <2>13 DEF DryAfter
<1>5. CASE ~ Full(g) /\ ~ (g.encounterMisses >= EncounterMisses)
           /\ h = [g EXCEPT !.encounterMisses = Capped(@ + 1, EncounterMisses)]
  <2>1. /\ Capped(g.encounterMisses + 1, EncounterMisses) \in 0 .. EncounterMisses
        /\ Capped(g.encounterMisses + 1, EncounterMisses) = g.encounterMisses + 1
        /\ Len(g.queue) \in Nat
    BY <1>1, <1>5 DEF Capped, Games
  <2>2. GameOK(h, r) /\ h.queue = g.queue /\ h.encounterMisses = g.encounterMisses + 1
    BY <1>2, <1>5, <2>1
  <2> QED
    BY <1>5, <1>6, <2>1, <2>2 DEF DryAfter
<1> QED
  BY <1>3, <1>4, <1>5 DEF EncounterCheck

\* The prompt for an evolution by level.
LEMMA QueueEvolutionKeeps ==
    ASSUME NEW g, NEW r, GameOK(g, r), NEW id \in DOMAIN r, NEW h \in QueueEvolution(g, id, r[id])
    PROVE  GameOK(h, r) /\ h.encounterMisses = g.encounterMisses /\ Extends(g.queue, h.queue)
<1>1. g \in Games /\ Core(g, r)
  BY DEF GameOK, Core
<1>2. CASE h = g
  BY <1>1, <1>2 DEF Extends, Games
<1>3. CASE /\ r[id].prompts /\ ~ Full(g)
           /\ ~ \E event \in ToSet(g.queue) : IsEvolutionOf(event, id)
           /\ h \in EvolutionPrompts(g, id, r[id])
  <2>1. PICK rule \in LevelRulesOf(r[id]) :
          h = Enqueued([g EXCEPT !.seen = @ \cup {rule.to}],
                       [kind |-> "Evolution", id |-> id, species |-> rule.to])
    BY <1>3 DEF EvolutionPrompts
  <2> DEFINE k == [g EXCEPT !.seen = @ \cup {rule.to}]
             e == [kind |-> "Evolution", id |-> id, species |-> rule.to]
  <2>2. rule.to \in Species /\ rule.to # Mew
    BY GameAssumption DEF LevelRulesOf
  <2>3. /\ k \in Games /\ k.party = g.party /\ k.queue = g.queue /\ k.seen = g.seen \cup {rule.to}
        /\ k.caught = g.caught /\ k.items = g.items /\ k.encounterMisses = g.encounterMisses
    BY <1>1, <2>2 DEF Games
  <2> HIDE DEF k
  <2>4. \A item \in Items : g.items[item] <= k.items[item]
    BY <1>1, <2>3, LimitIsNat DEF Games
  <2>5. DexOK(k)
    BY <1>1, <2>2, <2>3 DEF Core, DexOK
  <2>6. Core(k, r)
    BY <1>1, <2>3, <2>4, <2>5, MoreKeepsCore
  <2>7. id \in Ids
    BY <1>1, GameAssumption DEF Core, RosterOK, Ids
  <2>8. e \in Events /\ e.kind = "Evolution" /\ e.id = id /\ EventOK(e, k, r)
    BY <1>3, <2>2, <2>3, <2>7 DEF Events, EventOK
  <2>9. ~ Full(k) /\ \A i \in DOMAIN k.queue : ~ IsEvolutionOf(k.queue[i], e.id)
    BY <1>3, <2>3 DEF Full, ToSet
  <2> HIDE DEF e
  <2>10. /\ GameOK(Enqueued(k, e), r) /\ Rest(Enqueued(k, e)) = Rest(k)
         /\ Extends(k.queue, Enqueued(k, e).queue)
    BY <2>6, <2>8, <2>9, EnqueuedKeeps
  <2>11. h = Enqueued(k, e)
    BY <2>1 DEF k, e
  <2>12. h.encounterMisses = k.encounterMisses
    BY <2>10, <2>11 DEF Rest
  <2> QED
    BY <2>3, <2>10, <2>11, <2>12
<1> QED
  BY <1>2, <1>3 DEF QueueEvolution

---------------------------------------------------------------------------------
(* The records                                                                 *)

\* Experience is bounded by that of the greatest level.
LEMMA XpFacts ==
    /\ MaximumXp \in Nat
    /\ \A l \in Levels : XpRequired[l] \in 0 .. MaximumXp
    /\ Levels \subseteq Nat
<1>1. /\ XpRequired \in Seq(Nat) /\ Len(XpRequired) \in Nat /\ Len(XpRequired) # 0
      /\ Levels = 1 .. Len(XpRequired)
  BY GameAssumption DEF Levels
<1>2. MaxLevel \in Levels /\ \A l \in Levels : l <= MaxLevel /\ l \in Nat
  BY <1>1 DEF MaxLevel
<1>3. \A l \in Levels : XpRequired[l] \in Nat
  BY <1>1
<1>4. \A l \in Levels : XpRequired[l] <= MaximumXp
  <2> TAKE l \in Levels
  <2>1. CASE l < MaxLevel
    BY <1>2, <1>3, <2>1, LevelsGetDearer DEF MaximumXp
  <2>2. CASE l = MaxLevel
    BY <1>3, <2>2 DEF MaximumXp
  <2> QED
    BY <1>2, <2>1, <2>2
<1> QED
  BY <1>2, <1>3, <1>4 DEF MaximumXp

\* One record changed, its evolution in the queue still all right.
LEMMA OneRecordKeepsCore ==
    ASSUME NEW g, NEW r, Core(g, r), NEW id \in DOMAIN r, NEW v \in Records, v.species \in g.caught,
           \A i \in DOMAIN g.queue :
              IsEvolutionOf(g.queue[i], id) => EventOK(g.queue[i], g, [r EXCEPT ![id] = v])
    PROVE  Core(g, [r EXCEPT ![id] = v])
<1> DEFINE s == [r EXCEPT ![id] = v]
<1>1. DOMAIN s = DOMAIN r /\ s[id] = v /\ \A x \in DOMAIN r : x # id => s[x] = r[x]
  OBVIOUS
<1>2. \A x \in DOMAIN s : s[x] \in Records /\ s[x].species \in g.caught
  BY <1>1 DEF Core, RosterOK
<1> HIDE DEF s
<1>3. ASSUME NEW i \in DOMAIN g.queue PROVE EventOK(g.queue[i], g, s)
  <2>1. EventOK(g.queue[i], g, r)
    BY DEF Core, QueueOK
  <2>2. CASE IsEvolutionOf(g.queue[i], id)
    BY <2>2 DEF s
  <2>3. CASE ~ IsEvolutionOf(g.queue[i], id)
    BY <1>1, <2>1, <2>3 DEF EventOK, IsEvolutionOf
  <2> QED
    BY <2>2, <2>3
<1>4. Core(g, s)
  BY <1>1, <1>2, <1>3, RecordsKeepCore
<1> QED
  BY <1>4 DEF s

\* A record that keeps its species, with prompts on and no less experience.
LEMMA GrownKeepsCore ==
    ASSUME NEW g, NEW r, Core(g, r), NEW id \in DOMAIN r, NEW v \in Records,
           v.species = r[id].species, r[id].xp <= v.xp, r[id].prompts => v.prompts
    PROVE  Core(g, [r EXCEPT ![id] = v])
<1> DEFINE s == [r EXCEPT ![id] = v]
<1>1. DOMAIN s = DOMAIN r /\ s[id] = v
  OBVIOUS
<1>2. r[id] \in Records /\ v.species \in g.caught
  BY DEF Core, RosterOK
<1>3. LevelForXp(r[id].xp) <= LevelForXp(v.xp)
  BY <1>2, XpFacts, LevelsGrow DEF Records
<1>4. LevelRulesOf(r[id]) \subseteq LevelRulesOf(v)
  <2> SUFFICES ASSUME NEW rule \in LevelRulesOf(r[id]) PROVE rule \in LevelRulesOf(v)
    OBVIOUS
  <2>1. /\ rule \in LevelRules /\ rule.from = v.species /\ LevelForXp(r[id].xp) >= rule.level
        /\ rule.level \in Levels
    BY GameAssumption DEF LevelRulesOf
  <2>4. r[id].xp \in Nat /\ v.xp \in Nat
    BY <1>2, XpFacts DEF Records
  <2>5. LevelForXp(r[id].xp) \in Levels /\ LevelForXp(v.xp) \in Levels
    BY <2>4, LevelFacts
  <2>2. rule.level \in Nat /\ LevelForXp(r[id].xp) \in Nat /\ LevelForXp(v.xp) \in Nat
    BY <2>1, <2>5, XpFacts
  <2>3. LevelForXp(v.xp) >= rule.level
    BY <1>3, <2>1, <2>2
  <2> QED
    BY <2>1, <2>3 DEF LevelRulesOf
<1> HIDE DEF s
<1>5. ASSUME NEW i \in DOMAIN g.queue, IsEvolutionOf(g.queue[i], id) PROVE EventOK(g.queue[i], g, s)
  <2>1. EventOK(g.queue[i], g, r)
    BY DEF Core, QueueOK
  <2> QED
    BY <1>1, <1>4, <1>5, <2>1 DEF EventOK, IsEvolutionOf
<1> QED
  BY <1>2, <1>5, OneRecordKeepsCore DEF s

---------------------------------------------------------------------------------
(* The operations                                                              *)

LEMMA NewGameOK == GameOK(NewGame, NoRecords) /\ 0 = NewGame.encounterMisses
<1>1. NewGame \in Games
  <2>1. /\ <<>> \in Seq(Ids) /\ <<>> \in Seq(Events) /\ {} \in SUBSET Species
        /\ 0 \in 0 .. (HourMinutes - 1) /\ 0 \in 0 .. EncounterMisses /\ 0 \in 0 .. ItemMisses
        /\ [i \in Items |-> 0] \in [Items -> 0 .. MaxItems] /\ "None" \in Notices
    BY GameAssumption DEF Notices
  <2> QED
    BY <2>1 DEF NewGame, Games
<1>2. DOMAIN NoRecords = {} /\ DOMAIN NoRecords = 1 .. 0 /\ 0 \in 0 .. MaxRecords
  BY GameAssumption DEF NoRecords
<1>3. PartyOK(NewGame, NoRecords) /\ RosterOK(NewGame, NoRecords) /\ DexOK(NewGame)
  BY <1>2, GameAssumption DEF PartyOK, RosterOK, DexOK, NewGame
<1>4. QueueOK(NewGame, NoRecords) /\ NoticeOK(NewGame)
  BY GameAssumption DEF QueueOK, NoticeOK, NewGame
<1>5. ItemsOK(NewGame)
  <2> SUFFICES ASSUME NEW item \in Items PROVE Announced(<<>>, item) <= 0
    BY DEF ItemsOK, NewGame
  <2>1. {i \in DOMAIN <<>> : <<>>[i] = ItemEvent(item)} = {}
    OBVIOUS
  <2> QED
    BY <2>1, FS_EmptySet DEF Announced
<1> QED
  BY <1>1, <1>3, <1>4, <1>5 DEF GameOK, Core, NewGame

LEMMA CreateStarterKeeps ==
    ASSUME GameInv, CreateStarter PROVE GameInv'
<1>1. PICK species \in Starters :
        /\ game' = Caught([NewGame EXCEPT !.party = <<1>>], species)
        /\ records' = [id \in {1} |-> [species |-> species, xp |-> XpRequired[StarterLevel],
                                       prompts |-> TRUE]]
        /\ dry' = 0
  BY DEF CreateStarter
<1>2. /\ NewGame \in Games /\ NewGame.queue = <<>> /\ NewGame.seen = {} /\ NewGame.caught = {}
      /\ ItemsOK(NewGame) /\ NewGame.notice = "None" /\ NewGame.encounterMisses = 0
  BY NewGameOK DEF GameOK, Core, NewGame
<1>3. species \in Species /\ species # Mew /\ StarterLevel \in Levels /\ 1 \in Ids
  BY GameAssumption DEF Species, Ids
<1> DEFINE first == [NewGame EXCEPT !.party = <<1>>]
<1>4. /\ first \in Games /\ first.party = <<1>> /\ first.queue = <<>> /\ first.seen = {}
      /\ first.caught = {} /\ first.items = NewGame.items /\ first.notice = "None"
      /\ first.encounterMisses = 0
  <2>1. <<1>> \in Seq(Ids)
    BY <1>3
  <2> QED
    BY <1>2, <2>1 DEF Games
<1> HIDE DEF first
<1>5. game' = [[first EXCEPT !.seen = @ \cup {species}] EXCEPT !.caught = @ \cup {species}]
  BY <1>1 DEF Caught, first
<1> DEFINE mid == [first EXCEPT !.seen = @ \cup {species}]
<1>6. /\ mid \in Games /\ mid.party = <<1>> /\ mid.queue = <<>> /\ mid.seen = {species}
      /\ mid.caught = {} /\ mid.items = NewGame.items /\ mid.notice = "None"
      /\ mid.encounterMisses = 0
  BY <1>3, <1>4 DEF Games
<1>7. game' = [mid EXCEPT !.caught = @ \cup {species}]
  BY <1>5
<1> HIDE DEF mid
<1>8. /\ game' \in Games /\ game'.party = <<1>> /\ game'.queue = <<>> /\ game'.seen = {species}
      /\ game'.caught = {species} /\ game'.items = NewGame.items /\ game'.notice = "None"
      /\ game'.encounterMisses = 0
  BY <1>3, <1>6, <1>7 DEF Games
<1>9. /\ DOMAIN records' = 1 .. 1 /\ DOMAIN records' = {1}
      /\ records'[1] = [species |-> species, xp |-> XpRequired[StarterLevel], prompts |-> TRUE]
  BY <1>1
<1>10. records'[1] \in Records
  BY <1>3, <1>9, XpFacts DEF Records
<1>11. PartyOK(game', records') /\ RosterOK(game', records') /\ DexOK(game')
  <2>1. PartyOK(game', records')
    BY <1>8, <1>9, GameAssumption DEF PartyOK
  <2>2. 1 \in 0 .. MaxRecords
    BY GameAssumption
  <2>3. \A id \in DOMAIN records' : records'[id] \in Records /\ records'[id].species \in game'.caught
    <3>1. records'[1].species = species /\ species \in game'.caught
      BY <1>8, <1>9
    <3>2. \A id \in DOMAIN records' : id = 1
      BY <1>9
    <3> QED
      BY <1>10, <3>1, <3>2
  <2>4. RosterOK(game', records')
    BY <1>9, <2>2, <2>3 DEF RosterOK
  <2> QED
    BY <1>3, <1>8, <2>1, <2>4 DEF DexOK
<1>12. QueueOK(game', records') /\ NoticeOK(game')
  BY <1>8, GameAssumption DEF QueueOK, NoticeOK
<1>13. ItemsOK(game')
  BY <1>2, <1>8 DEF ItemsOK
<1> QED
  BY <1>1, <1>8, <1>11, <1>12, <1>13 DEF GameInv, GameOK, Core

LEMMA CreditMinuteKeeps ==
    ASSUME GameInv, CreditMinute PROVE GameInv' /\ Extends(game.queue, game'.queue)
<1> DEFINE old == records[Leader]
           new == [old EXCEPT !.xp = Capped(@ + 1, MaximumXp)]
           minute == game.minute + 1
           hourly == minute = HourMinutes
           started == [game EXCEPT !.minute = IF hourly THEN 0 ELSE minute]
           check == hourly \/ minute % CheckMinutes = 0
           r == [records EXCEPT ![Leader] = new]
<1>0. PICK item \in IF hourly THEN HourlyItem(started) ELSE {started} :
        \E checked \in IF check THEN EncounterCheck(item) ELSE {item} :
            /\ records' = r
            /\ game' \in IF LevelForXp(new.xp) > LevelForXp(old.xp)
                         THEN QueueEvolution(checked, Leader, new) ELSE {checked}
            /\ dry' = IF check THEN DryAfter(item, checked) ELSE dry
  BY DEF CreditMinute
<1>1. PICK checked \in IF check THEN EncounterCheck(item) ELSE {item} :
        /\ records' = r
        /\ game' \in IF LevelForXp(new.xp) > LevelForXp(old.xp)
                     THEN QueueEvolution(checked, Leader, new) ELSE {checked}
        /\ dry' = IF check THEN DryAfter(item, checked) ELSE dry
  BY <1>0
<1>2. /\ game \in Games /\ Core(game, records) /\ NoticeOK(game) /\ Leader \in DOMAIN records
      /\ dry = game.encounterMisses
  BY DEF CreditMinute, HasLeader, Owned, GameInv, GameOK, Core
<1>3. old \in Records /\ old.species \in game.caught
  BY <1>2 DEF Core, RosterOK
<1>4. new \in Records /\ new.species = old.species /\ new.prompts = old.prompts /\ old.xp <= new.xp
  <2> HIDE DEF old
  <2>1. Capped(old.xp + 1, MaximumXp) \in 0 .. MaximumXp /\ old.xp <= Capped(old.xp + 1, MaximumXp)
    BY <1>3, XpFacts DEF Capped, Records
  <2> QED
    BY <1>3, <2>1 DEF Records
<1> HIDE DEF new
<1>5. Core(game, r)
  <2> HIDE DEF r
  <2> QED
    BY <1>2, <1>4, GrownKeepsCore DEF r
<1>6. r[Leader] = new /\ Leader \in DOMAIN r
  BY <1>2
<1> HIDE DEF r, old
<1>7. GameOK(started, r) /\ started.encounterMisses = dry /\ started.queue = game.queue
  <2> DEFINE n == IF hourly THEN 0 ELSE minute
  <2>1. n \in 0 .. (HourMinutes - 1)
    <3>1. HourMinutes \in Nat /\ HourMinutes # 0
      BY GameAssumption
    <3>2. game.minute \in 0 .. (HourMinutes - 1)
      BY <1>2 DEF Games
    <3> QED
      BY <3>1, <3>2
  <2>2. started = [game EXCEPT !.minute = n]
    OBVIOUS
  <2> HIDE DEF n, started
  <2>3. /\ started \in Games /\ started.party = game.party /\ started.queue = game.queue
        /\ started.seen = game.seen /\ started.caught = game.caught /\ started.items = game.items
        /\ started.notice = game.notice /\ started.encounterMisses = game.encounterMisses
    BY <1>2, <2>1, <2>2 DEF Games
  <2>4. \A i \in Items : game.items[i] <= started.items[i]
    BY <1>2, <2>3, GameAssumption DEF Games
  <2>5. DexOK(started)
    BY <1>5, <2>3 DEF Core, DexOK
  <2>6. Core(started, r)
    BY <1>5, <2>3, <2>4, <2>5, MoreKeepsCore
  <2>7. NoticeOK(started)
    BY <1>2, <2>3 DEF NoticeOK
  <2> QED
    BY <1>2, <2>3, <2>6, <2>7 DEF GameOK
<1> HIDE DEF started, hourly, check
<1>12. game.queue \in Seq(Events) /\ Extends(game.queue, game.queue)
  BY <1>2 DEF Extends, Games
<1>8. GameOK(item, r) /\ dry = item.encounterMisses /\ Extends(game.queue, item.queue)
  BY <1>0, <1>7, <1>12, HourlyItemKeeps
<1>9. GameOK(checked, r) /\ (IF check THEN DryAfter(item, checked) ELSE dry) = checked.encounterMisses
      /\ Extends(item.queue, checked.queue)
  <2>1. CASE check
    BY <1>1, <1>8, <2>1, EncounterCheckKeeps
  <2>2. CASE ~ check
    BY <1>1, <1>8, <2>2 DEF Extends
  <2> QED
    BY <2>1, <2>2
<1>10. GameOK(game', r) /\ game'.encounterMisses = checked.encounterMisses
       /\ Extends(checked.queue, game'.queue)
  <2>1. CASE LevelForXp(new.xp) > LevelForXp(old.xp)
    BY <1>1, <1>6, <1>9, <2>1, QueueEvolutionKeeps
  <2>2. CASE ~ (LevelForXp(new.xp) > LevelForXp(old.xp))
    BY <1>1, <1>9, <2>2 DEF Extends
  <2> QED
    BY <2>1, <2>2
<1>11. records' = r /\ dry' = game'.encounterMisses
  BY <1>1, <1>9, <1>10
<1>13. Extends(game.queue, game'.queue)
  BY <1>8, <1>9, <1>10, ExtendsIsTransitive
<1> QED
  BY <1>10, <1>11, <1>13 DEF GameInv

\* The front event dismissed.
LEMMA DismissKeeps ==
    ASSUME GameInv, game.queue # <<>>, game' = Popped(game), UNCHANGED <<records, dry>>
    PROVE  GameInv'
<1>1. GameOK(game', records) /\ Rest(game') = Rest(game)
  BY PoppedKeeps DEF GameInv, GameOK
<1>2. game'.encounterMisses = game.encounterMisses
  BY <1>1 DEF Rest
<1> QED
  BY <1>1, <1>2 DEF GameInv

\* A species entered in the Pokedex.
LEMMA CaughtKeepsCore ==
    ASSUME NEW g, NEW r, Core(g, r), NEW s \in Species, s = Mew => s \in g.seen
    PROVE  LET h == Caught(g, s)
           IN  /\ Core(h, r) /\ s \in h.caught /\ h.encounterMisses = g.encounterMisses
               /\ h.queue = g.queue /\ h.party = g.party /\ h.items = g.items
<1> DEFINE h == Caught(g, s)
           k == [g EXCEPT !.seen = @ \cup {s}]
<1>1. g \in Games
  BY DEF Core
<1>2. /\ k \in Games /\ k.party = g.party /\ k.queue = g.queue /\ k.seen = g.seen \cup {s}
      /\ k.caught = g.caught /\ k.items = g.items /\ k.encounterMisses = g.encounterMisses
  BY <1>1 DEF Games
<1>3. h = [k EXCEPT !.caught = @ \cup {s}]
  BY DEF Caught
<1> HIDE DEF k, h
<1>4. /\ h \in Games /\ h.party = g.party /\ h.queue = g.queue /\ h.seen = g.seen \cup {s}
      /\ h.caught = g.caught \cup {s} /\ h.items = g.items /\ h.encounterMisses = g.encounterMisses
  BY <1>2, <1>3 DEF Games
<1>5. DexOK(h)
  BY <1>4 DEF Core, DexOK
<1>6. \A item \in Items : g.items[item] <= h.items[item]
  BY <1>1, <1>4, GameAssumption DEF Games
<1>7. Core(h, r)
  BY <1>4, <1>5, <1>6, MoreKeepsCore
<1> QED
  BY <1>4, <1>7 DEF h

LEMMA CatchEncounterKeeps ==
    ASSUME GameInv, CatchEncounter PROVE GameInv'
<1> DEFINE e == Pending
           id == NextId
           g1 == Caught(game, e.species)
           g2 == Joined(g1, id)
           v == [species |-> e.species, xp |-> XpRequired[e.level], prompts |-> TRUE]
<1>1. /\ Core(game, records) /\ game \in Games /\ dry = game.encounterMisses
      /\ game.queue # <<>> /\ e.kind = "Encounter" /\ Cardinality(Owned) < MaxRecords
      /\ game.party # <<>>
      /\ game' = Popped(g2) /\ UNCHANGED dry
      /\ records' = [x \in Owned \cup {id} |-> IF x = id THEN v ELSE records[x]]
  BY DEF GameInv, GameOK, Core, CatchEncounter, FrontIs, HasLeader
<1>2. PICK n \in 0 .. MaxRecords : Owned = 1 .. n
  BY <1>1 DEF Core, RosterOK, Owned
<1>3. n \in Nat /\ Cardinality(Owned) = n /\ n < MaxRecords /\ id = n + 1
  <2>1. n \in Nat
    BY <1>2, GameAssumption
  <2>2. Cardinality(1 .. n) = n
    BY <2>1, FS_Interval
  <2> QED
    BY <1>1, <1>2, <2>1, <2>2 DEF NextId
<1>4. id \in Ids /\ id \notin Owned /\ Owned \cup {id} = 1 .. (n + 1) /\ n + 1 \in 0 .. MaxRecords
  BY <1>2, <1>3, GameAssumption DEF Ids
<1>5. e \in Events /\ e.species \in game.seen /\ e.species \in Species /\ e.level \in Levels
  <2>1. game.queue \in Seq(Events) /\ 1 \in DOMAIN game.queue /\ e = game.queue[1]
    BY <1>1 DEF Games, Pending
  <2>2. e \in Events /\ EventOK(e, game, records)
    BY <1>1, <2>1 DEF Core, QueueOK
  <2> QED
    BY <1>1, <2>2, EventFacts DEF EventOK
<1>6. v \in Records /\ v.species = e.species
  BY <1>5, XpFacts DEF Records
<1> HIDE DEF e, id, g1, v
<1>7. /\ Core(g1, records) /\ e.species \in g1.caught /\ g1.encounterMisses = game.encounterMisses
      /\ g1.queue = game.queue /\ g1.party = game.party
  BY <1>1, <1>5, CaughtKeepsCore DEF g1
<1>8. /\ DOMAIN records' = 1 .. (n + 1) /\ records'[id] = v /\ id \in DOMAIN records'
      /\ \A x \in Owned : x \in DOMAIN records' /\ records'[x] = records[x]
  BY <1>1, <1>4
<1>9. /\ g2 \in Games /\ g2.queue = g1.queue /\ g2.seen = g1.seen /\ g2.caught = g1.caught
      /\ g2.items = g1.items /\ g2.encounterMisses = g1.encounterMisses
      /\ g2.party = g1.party \/ (Len(g1.party) < PartySize /\ g2.party = Append(g1.party, id))
  <2>1. g1 \in Games /\ g1.party \in Seq(Ids)
    BY <1>7 DEF Core, Games
  <2>2. Append(g1.party, id) \in Seq(Ids)
    BY <1>4, <2>1
  <2>3. CASE Len(g1.party) < PartySize
    <3>1. g2 = [g1 EXCEPT !.party = Append(g1.party, id)]
      BY <2>3 DEF Joined
    <3> HIDE DEF g2
    <3> QED
      BY <2>1, <2>2, <2>3, <3>1 DEF Games
  <2>4. CASE ~ (Len(g1.party) < PartySize)
    BY <2>1, <2>4 DEF Joined
  <2> QED
    BY <2>3, <2>4
<1> HIDE DEF g2
<1>10. PartyOK(g2, records')
  <2>1. /\ g1.party \in Seq(Ids) /\ Len(g1.party) \in Nat /\ Len(g1.party) > 0
        /\ Len(g1.party) <= PartySize /\ PartySize \in Nat
        /\ \A i \in DOMAIN g1.party : g1.party[i] \in Owned
        /\ \A i, j \in DOMAIN g1.party : g1.party[i] = g1.party[j] => i = j
    <3>1. g1.party \in Seq(Ids) /\ PartyOK(g1, records) /\ PartySize \in Nat
      BY <1>7, GameAssumption DEF Core, Games
    <3> QED
      BY <1>1, <1>7, <3>1 DEF PartyOK, Owned
  <2>2. CASE g2.party = g1.party
    BY <1>8, <2>1, <2>2 DEF PartyOK
  <2>3. CASE Len(g1.party) < PartySize /\ g2.party = Append(g1.party, id)
    <3> DEFINE p == g1.party
               q == Append(p, id)
               m == Len(p)
    <3>1. /\ Len(q) = m + 1 /\ DOMAIN q = 1 .. (m + 1) /\ q[m + 1] = id
          /\ \A i \in 1 .. m : i \in DOMAIN p /\ q[i] = p[i]
      BY <2>1
    <3> HIDE DEF p, q, m
    <3>2. \A i \in DOMAIN q : i \in 1 .. m \/ i = m + 1
      BY <2>1, <3>1 DEF m, p
    <3>3. \A i \in DOMAIN q : q[i] \in DOMAIN records'
      BY <1>8, <2>1, <3>1, <3>2 DEF p
    <3>4. \A i, j \in DOMAIN q : q[i] = q[j] => i = j
      <4>1. \A i \in 1 .. m : q[i] \in Owned /\ q[i] # id
        BY <1>4, <2>1, <3>1 DEF p
      <4> QED
        BY <2>1, <3>1, <3>2, <4>1 DEF p
    <3>5. Len(q) <= PartySize /\ Len(q) > 0
      BY <2>1, <2>3, <3>1 DEF m, p
    <3>6. g2.party = q
      BY <2>3 DEF q, p
    <3> QED
      BY <3>3, <3>4, <3>5, <3>6 DEF PartyOK
  <2> QED
    BY <1>9, <2>2, <2>3
<1>11. RosterOK(g2, records')
  <2>1. ASSUME NEW x \in DOMAIN records'
        PROVE  records'[x] \in Records /\ records'[x].species \in g2.caught
    <3>1. CASE x = id
      BY <1>6, <1>7, <1>8, <1>9, <3>1
    <3>2. CASE x \in Owned
      BY <1>7, <1>8, <1>9, <3>2 DEF Core, RosterOK, Owned
    <3> QED
      BY <1>1, <3>1, <3>2
  <2> QED
    BY <1>4, <1>8, <2>1 DEF RosterOK
<1>12. DexOK(g2)
  BY <1>7, <1>9 DEF Core, DexOK
<1>13. QueueOK(g2, records')
  <2>1. ASSUME NEW i \in DOMAIN g2.queue PROVE EventOK(g2.queue[i], g2, records')
    <3>1. EventOK(g2.queue[i], g1, records)
      BY <1>7, <1>9 DEF Core, QueueOK
    <3> QED
      BY <1>8, <1>9, <3>1 DEF EventOK, Owned
  <2> QED
    BY <1>7, <1>9, <2>1 DEF Core, QueueOK
<1>14. ItemsOK(g2)
  BY <1>7, <1>9 DEF Core, ItemsOK
<1>15. Core(g2, records') /\ g2.queue # <<>>
  BY <1>1, <1>7, <1>9, <1>10, <1>11, <1>12, <1>13, <1>14 DEF Core
<1>16. GameOK(game', records') /\ Rest(game') = Rest(g2)
  BY <1>1, <1>15, PoppedKeeps
<1>17. game'.encounterMisses = game.encounterMisses
  BY <1>7, <1>9, <1>16 DEF Rest
<1> QED
  BY <1>1, <1>16, <1>17 DEF GameInv

LEMMA EvolveKeeps ==
    ASSUME GameInv, Evolve PROVE GameInv'
<1> DEFINE e == Pending
           g == Caught(game, e.species)
           h == Popped(g)
           v == [records[e.id] EXCEPT !.species = e.species]
<1>1. /\ Core(game, records) /\ game \in Games /\ dry = game.encounterMisses
      /\ game.queue # <<>> /\ e.kind = "Evolution"
      /\ game' = h /\ UNCHANGED dry /\ records' = [records EXCEPT ![e.id] = v]
  BY DEF GameInv, GameOK, Core, Evolve, Evolved
<1>2. /\ game.queue \in Seq(Events) /\ Len(game.queue) \in Nat /\ 1 \in DOMAIN game.queue
      /\ e = game.queue[1] /\ e \in Events /\ EventOK(e, game, records)
  <2>1. game.queue \in Seq(Events) /\ Len(game.queue) \in Nat /\ 1 \in DOMAIN game.queue
        /\ e = game.queue[1]
    BY <1>1 DEF Games, Pending
  <2> HIDE DEF e
  <2>2. e \in Events /\ EventOK(e, game, records)
    BY <1>1, <2>1 DEF Core, QueueOK
  <2> QED
    BY <2>1, <2>2
<1> HIDE DEF e, g, h, v
<1>3. e.species \in Species /\ e.species \in game.seen /\ e.id \in DOMAIN records
  BY <1>1, <1>2, EventFacts DEF EventOK
<1>4. records[e.id] \in Records
  BY <1>1, <1>3 DEF Core, RosterOK
<1>5. v \in Records /\ v.species = e.species
  BY <1>3, <1>4 DEF Records, v
<1>6. /\ Core(g, records) /\ e.species \in g.caught /\ g.encounterMisses = game.encounterMisses
      /\ g.queue = game.queue
  BY <1>1, <1>3, CaughtKeepsCore DEF g
<1>7. GameOK(h, records) /\ h.queue = Tail(game.queue) /\ Rest(h) = Rest(g)
  BY <1>1, <1>6, PoppedKeeps DEF h
<1>8. e.species \in h.caught /\ h.encounterMisses = game.encounterMisses
  BY <1>6, <1>7 DEF Rest
<1>9. ASSUME NEW i \in DOMAIN h.queue PROVE ~ IsEvolutionOf(h.queue[i], e.id)
  <2>1. i + 1 \in DOMAIN game.queue /\ h.queue[i] = game.queue[i + 1] /\ i \in Nat /\ i # 0
    BY <1>1, <1>2, <1>7
  <2>2. IsEvolutionOf(game.queue[i + 1], game.queue[1].id) => 1 = i + 1
    BY <1>1, <1>2, <2>1 DEF Core, QueueOK
  <2> QED
    BY <1>2, <2>1, <2>2
<1>10. Core(h, [records EXCEPT ![e.id] = v])
  BY <1>3, <1>5, <1>7, <1>8, <1>9, OneRecordKeepsCore DEF GameOK
<1> QED
  BY <1>1, <1>7, <1>8, <1>10 DEF GameInv, GameOK

LEMMA EnablePromptsKeeps ==
    ASSUME GameInv, EnablePrompts PROVE GameInv'
<1>1. PICK id \in Owned : records' = [records EXCEPT ![id].prompts = TRUE] /\ UNCHANGED <<game, dry>>
  BY DEF EnablePrompts
<1> DEFINE v == [records[id] EXCEPT !.prompts = TRUE]
<1>2. Core(game, records) /\ id \in DOMAIN records
  BY DEF GameInv, GameOK, Owned
<1>3. records[id] \in Records
  BY <1>2 DEF Core, RosterOK
<1>4. /\ v \in Records /\ v.species = records[id].species /\ v.xp = records[id].xp /\ v.prompts
      /\ records[id].xp <= v.xp
  <2>1. v \in Records /\ v.species = records[id].species /\ v.xp = records[id].xp /\ v.prompts
    BY <1>3 DEF Records
  <2>2. records[id].xp \in Nat
    BY <1>3, XpFacts DEF Records
  <2> HIDE DEF v
  <2> QED
    BY <2>1, <2>2
<1>5. records' = [records EXCEPT ![id] = v]
  BY <1>1
<1> HIDE DEF v
<1>6. Core(game, records')
  BY <1>2, <1>4, <1>5, GrownKeepsCore
<1> QED
  BY <1>1, <1>6 DEF GameInv, GameOK

LEMMA DisablePromptsKeeps ==
    ASSUME GameInv, DisablePrompts PROVE GameInv'
<1>1. PICK id \in Owned : /\ records' = [records EXCEPT ![id].prompts = FALSE]
                          /\ game' = WithoutEvolutions(game, id) /\ UNCHANGED dry
  BY DEF DisablePrompts
<1> DEFINE v == [records[id] EXCEPT !.prompts = FALSE]
           h == WithoutEvolutions(game, id)
<1>2. Core(game, records) /\ id \in DOMAIN records
  BY DEF GameInv, GameOK, Owned
<1>3. records[id] \in Records /\ records[id].species \in game.caught
  BY <1>2 DEF Core, RosterOK
<1>4. v \in Records /\ v.species = records[id].species
  BY <1>3 DEF Records
<1>5. records' = [records EXCEPT ![id] = v]
  BY <1>1
<1> HIDE DEF v
<1>6. /\ GameOK(h, records) /\ Rest(h) = Rest(game)
      /\ \A i \in DOMAIN h.queue : ~ IsEvolutionOf(h.queue[i], id)
  BY <1>2, WithoutEvolutionsKeeps
<1> HIDE DEF h
<1>7. v.species \in h.caught /\ h.encounterMisses = game.encounterMisses
  BY <1>3, <1>4, <1>6 DEF Rest
<1>8. Core(h, [records EXCEPT ![id] = v])
  BY <1>2, <1>4, <1>6, <1>7, OneRecordKeepsCore DEF GameOK
<1>9. game' = h /\ dry' = dry
  BY <1>1 DEF h
<1> QED
  BY <1>5, <1>6, <1>7, <1>8, <1>9 DEF GameInv, GameOK

LEMMA UseEvolutionItemKeeps ==
    ASSUME GameInv, UseEvolutionItem PROVE GameInv'
<1>1. PICK id \in Owned, rule \in ItemRules :
        /\ game.queue = <<>> /\ records[id].species = rule.from /\ game.items[rule.item] > 0
        /\ game' = [Caught(game, rule.to) EXCEPT !.items[rule.item] = @ - 1]
        /\ records' = Evolved(id, rule.to) /\ UNCHANGED dry
  BY DEF UseEvolutionItem
<1> DEFINE g == Caught(game, rule.to)
           h == [g EXCEPT !.items[rule.item] = @ - 1]
           v == [records[id] EXCEPT !.species = rule.to]
<1>2. /\ Core(game, records) /\ NoticeOK(game) /\ dry = game.encounterMisses
      /\ id \in DOMAIN records /\ game \in Games
  BY DEF GameInv, GameOK, Core, Owned
<1>3. rule.to \in Species /\ rule.to # Mew /\ rule.item \in Items
  BY GameAssumption
<1>4. /\ Core(g, records) /\ rule.to \in g.caught /\ g.encounterMisses = game.encounterMisses
      /\ g.queue = <<>> /\ g.items = game.items /\ g \in Games
  BY <1>1, <1>2, <1>3, CaughtKeepsCore DEF Core
<1>5. g.notice = "None"
  <2>1. game.notice = "None"
    BY <1>1, <1>2 DEF NoticeOK
  <2> QED
    BY <1>2, <2>1 DEF Caught, Games
<1> DEFINE items == [g.items EXCEPT ![rule.item] = @ - 1]
<1> HIDE DEF g
<1>6. items \in [Items -> 0 .. MaxItems]
  <2>1. g.items \in [Items -> 0 .. MaxItems] /\ MaxItems \in Nat
    BY <1>4, GameAssumption DEF Games
  <2>2. g.items[rule.item] - 1 \in 0 .. MaxItems
    BY <1>1, <1>3, <1>4, <2>1
  <2> QED
    BY <2>1, <2>2
<1>7. h = [g EXCEPT !.items = items]
  OBVIOUS
<1> HIDE DEF h, items
<1>8. /\ h \in Games /\ h.party = g.party /\ h.queue = <<>> /\ h.seen = g.seen /\ h.caught = g.caught
      /\ h.notice = "None" /\ h.encounterMisses = game.encounterMisses /\ h.items = items
  BY <1>4, <1>5, <1>6, <1>7 DEF Games
<1>9. PartyOK(h, records) /\ RosterOK(h, records) /\ DexOK(h)
  BY <1>4, <1>8 DEF Core, PartyOK, RosterOK, DexOK
<1>10. QueueOK(h, records) /\ NoticeOK(h)
  BY <1>8, GameAssumption DEF QueueOK, NoticeOK
<1>11. ItemsOK(h)
  <2> SUFFICES ASSUME NEW item \in Items PROVE Announced(h.queue, item) <= h.items[item]
    BY DEF ItemsOK
  <2>1. {i \in DOMAIN <<>> : <<>>[i] = ItemEvent(item)} = {}
    OBVIOUS
  <2>2. Announced(<<>>, item) = 0
    BY <2>1, FS_EmptySet DEF Announced
  <2>3. h.items[item] \in 0 .. MaxItems /\ MaxItems \in Nat
    BY <1>8, GameAssumption DEF Games
  <2> QED
    BY <1>8, <2>2, <2>3
<1>12. Core(h, records)
  BY <1>8, <1>9, <1>10, <1>11 DEF Core
<1>13. records[id] \in Records
  BY <1>2 DEF Core, RosterOK
<1>14. v \in Records /\ v.species \in h.caught
  BY <1>3, <1>4, <1>8, <1>13 DEF Records
<1>15. records' = [records EXCEPT ![id] = v]
  BY <1>1 DEF Evolved
<1> HIDE DEF v
<1>16. Core(h, [records EXCEPT ![id] = v])
  <2>1. \A i \in DOMAIN h.queue : IsEvolutionOf(h.queue[i], id) => EventOK(h.queue[i], h, [records EXCEPT ![id] = v])
    BY <1>8
  <2> QED
    BY <1>2, <1>12, <1>14, <2>1, OneRecordKeepsCore
<1>17. game' = h /\ dry' = dry
  BY <1>1 DEF g, h
<1> QED
  BY <1>2, <1>8, <1>10, <1>15, <1>16, <1>17 DEF GameInv, GameOK

\* Another party of the same records.
LEMMA PartyChangeKeeps ==
    ASSUME GameInv, NEW p \in Seq(Ids), game' = [game EXCEPT !.party = p],
           UNCHANGED <<records, dry>>,
           Len(p) <= PartySize, Owned # {} => Len(p) > 0,
           \A i \in DOMAIN p : p[i] \in Owned,
           \A i, j \in DOMAIN p : p[i] = p[j] => i = j
    PROVE  GameInv'
<1> DEFINE h == [game EXCEPT !.party = p]
<1>1. Core(game, records) /\ NoticeOK(game) /\ dry = game.encounterMisses /\ game \in Games
  BY DEF GameInv, GameOK, Core
<1>2. /\ h \in Games /\ h.party = p /\ h.queue = game.queue /\ h.seen = game.seen
      /\ h.caught = game.caught /\ h.items = game.items /\ h.notice = game.notice
      /\ h.encounterMisses = game.encounterMisses
  BY <1>1 DEF Games
<1> HIDE DEF h
<1>3. PartyOK(h, records)
  BY <1>2 DEF PartyOK, Owned
<1>4. RosterOK(h, records) /\ DexOK(h) /\ ItemsOK(h) /\ NoticeOK(h)
  BY <1>1, <1>2 DEF Core, RosterOK, DexOK, ItemsOK, NoticeOK
<1>5. QueueOK(h, records)
  <2>1. \A e : EventOK(e, game, records) => EventOK(e, h, records)
    BY <1>2 DEF EventOK
  <2> QED
    BY <1>1, <1>2, <2>1 DEF Core, QueueOK
<1>6. GameOK(h, records)
  BY <1>2, <1>3, <1>4, <1>5 DEF GameOK, Core
<1> QED
  BY <1>1, <1>2, <1>6 DEF GameInv, h

LEMMA MovePartyMemberKeeps ==
    ASSUME GameInv, MovePartyMember PROVE GameInv'
<1> DEFINE p == game.party
<1>1. PICK from \in DOMAIN p, to \in DOMAIN p :
        /\ from # to /\ game' = [game EXCEPT !.party = InsertAt(RemoveAt(@, from), to, p[from])]
        /\ UNCHANGED <<records, dry>>
  BY DEF MovePartyMember
<1>2. /\ p \in Seq(Ids) /\ Len(p) \in Nat /\ DOMAIN p = 1 .. Len(p) /\ Len(p) <= PartySize
      /\ \A i \in DOMAIN p : p[i] \in Owned
      /\ \A i, j \in DOMAIN p : p[i] = p[j] => i = j
  <2>1. p \in Seq(Ids) /\ PartyOK(game, records)
    BY DEF GameInv, GameOK, Core, Games
  <2> QED
    BY <2>1 DEF PartyOK, Owned
<1> DEFINE a == RemoveAt(p, from)
           b == InsertAt(a, to, p[from])
           back(k) == IF k < from THEN k ELSE k + 1
           source == [k \in 1 .. Len(p) |-> IF k < to THEN back(k) ELSE IF k = to THEN from ELSE back(k - 1)]
<1>3. game' = [game EXCEPT !.party = b]
  BY <1>1
<1> HIDE DEF p
<1>4. /\ a \in Seq(Ids) /\ Len(a) = Len(p) - 1
      /\ \A k \in 1 .. (Len(p) - 1) : a[k] = p[back(k)]
  <2>0. p \in Seq(Ids) /\ from \in DOMAIN p
    BY <1>1, <1>2
  <2>1. /\ RemoveAt(p, from) \in Seq(Ids) /\ Len(RemoveAt(p, from)) = Len(p) - 1
        /\ \A k \in 1 .. (Len(p) - 1) : RemoveAt(p, from)[k] = IF k < from THEN p[k] ELSE p[k + 1]
    BY <2>0, RemoveAtFacts
  <2> QED
    BY <2>1
<1> HIDE DEF a
<1>5. /\ b \in Seq(Ids) /\ Len(b) = Len(p)
      /\ \A k \in 1 .. Len(p) : b[k] = IF k < to THEN a[k] ELSE IF k = to THEN p[from] ELSE a[k - 1]
  <2>1. to \in 1 .. (Len(a) + 1) /\ p[from] \in Ids /\ Len(a) + 1 = Len(p)
    BY <1>1, <1>2, <1>4
  <2>2. /\ InsertAt(a, to, p[from]) \in Seq(Ids) /\ Len(InsertAt(a, to, p[from])) = Len(a) + 1
        /\ \A k \in 1 .. (Len(a) + 1) : InsertAt(a, to, p[from])[k] =
              IF k < to THEN a[k] ELSE IF k = to THEN p[from] ELSE a[k - 1]
    <3> DEFINE x == p[from]
    <3>1. a \in Seq(Ids) /\ to \in 1 .. (Len(a) + 1) /\ x \in Ids
      BY <1>4, <2>1
    <3> HIDE DEF x
    <3>3. ASSUME NEW s \in Seq(Ids), NEW i \in 1 .. (Len(s) + 1), NEW e \in Ids
          PROVE  /\ InsertAt(s, i, e) \in Seq(Ids) /\ Len(InsertAt(s, i, e)) = Len(s) + 1
                 /\ \A k \in 1 .. (Len(s) + 1) : InsertAt(s, i, e)[k] =
                       IF k < i THEN s[k] ELSE IF k = i THEN e ELSE s[k - 1]
      BY InsertAtFacts
    <3>2. /\ InsertAt(a, to, x) \in Seq(Ids) /\ Len(InsertAt(a, to, x)) = Len(a) + 1
          /\ \A k \in 1 .. (Len(a) + 1) : InsertAt(a, to, x)[k] =
                IF k < to THEN a[k] ELSE IF k = to THEN x ELSE a[k - 1]
      BY <3>1, <3>3, ZenonT(40)
    <3> QED
      BY <3>2 DEF x
  <2> QED
    BY <2>1, <2>2
<1> HIDE DEF b
<1>6. ASSUME NEW k \in 1 .. Len(p)
      PROVE  source[k] \in DOMAIN p /\ b[k] = p[source[k]]
  <2>4. k \in Int /\ to \in 1 .. Len(p) /\ from \in 1 .. Len(p)
    BY <1>1, <1>2
  <2>1. CASE k < to
    <3>1. k \in 1 .. (Len(p) - 1)
      BY <1>2, <2>1, <2>4
    <3>2. b[k] = p[back(k)]
      BY <1>4, <1>5, <2>1, <3>1
    <3>3. source[k] = back(k) /\ back(k) \in DOMAIN p
      BY <1>2, <2>1, <2>4, <3>1
    <3> QED
      BY <3>2, <3>3
  <2>2. CASE k = to
    BY <1>1, <1>2, <1>5, <2>2
  <2>3. CASE k > to
    <3>1. k - 1 \in 1 .. (Len(p) - 1)
      BY <1>2, <2>3, <2>4
    <3>2. b[k] = a[k - 1]
      BY <1>5, <2>3, <2>4
    <3>3. a[k - 1] = p[back(k - 1)]
      BY <1>4, <3>1
    <3>4. source[k] = back(k - 1) /\ back(k - 1) \in DOMAIN p
      <4>1. ~ (k < to) /\ k # to
        BY <2>3, <2>4
      <4>2. source[k] = back(k - 1)
        BY <4>1
      <4>3. back(k - 1) \in 1 .. Len(p)
        BY <1>2, <2>4, <3>1
      <4> QED
        BY <1>2, <4>2, <4>3
    <3> QED
      BY <3>2, <3>3, <3>4
  <2> QED
    BY <2>1, <2>2, <2>3, <2>4
<1>7. ASSUME NEW k \in 1 .. Len(p), NEW l \in 1 .. Len(p), source[k] = source[l] PROVE k = l
  BY <1>1, <1>2, <1>7
<1> HIDE DEF source
<1>8. DOMAIN b = 1 .. Len(p)
  BY <1>2, <1>5
<1>9. \A i \in DOMAIN b : b[i] \in Owned
  BY <1>2, <1>6, <1>8
<1>10. \A i, j \in DOMAIN b : b[i] = b[j] => i = j
  <2> TAKE i, j \in DOMAIN b
  <2> HAVE b[i] = b[j]
  <2>1. source[i] = source[j]
    BY <1>2, <1>6, <1>8
  <2> QED
    BY <1>7, <1>8, <2>1
<1>11. Len(b) <= PartySize /\ Len(b) > 0
  BY <1>1, <1>2, <1>5
<1> QED
  BY <1>1, <1>3, <1>5, <1>9, <1>10, <1>11, PartyChangeKeeps

LEMMA DepositKeeps ==
    ASSUME GameInv, Deposit PROVE GameInv'
<1> DEFINE p == game.party
<1>1. PICK slot \in DOMAIN p :
        Len(p) > 1 /\ game' = [game EXCEPT !.party = RemoveAt(@, slot)] /\ UNCHANGED <<records, dry>>
  BY DEF Deposit
<1>2. /\ p \in Seq(Ids) /\ Len(p) \in Nat /\ DOMAIN p = 1 .. Len(p) /\ Len(p) <= PartySize
      /\ PartySize \in Nat
      /\ \A i \in DOMAIN p : p[i] \in Owned
      /\ \A i, j \in DOMAIN p : p[i] = p[j] => i = j
  <2>1. p \in Seq(Ids) /\ PartyOK(game, records) /\ PartySize \in Nat
    BY GameAssumption DEF GameInv, GameOK, Core, Games
  <2> QED
    BY <2>1 DEF PartyOK, Owned
<1> DEFINE a == RemoveAt(p, slot)
<1>3. game' = [game EXCEPT !.party = a]
  BY <1>1
<1> HIDE DEF p
<1>4. /\ a \in Seq(Ids) /\ Len(a) = Len(p) - 1
      /\ \A k \in 1 .. (Len(p) - 1) : a[k] = IF k < slot THEN p[k] ELSE p[k + 1]
  <2>1. p \in Seq(Ids) /\ slot \in DOMAIN p
    BY <1>1, <1>2
  <2> QED
    BY <2>1, RemoveAtFacts
<1> HIDE DEF a
<1>5. DOMAIN a = 1 .. (Len(p) - 1)
  BY <1>2, <1>4
<1>6. ASSUME NEW k \in DOMAIN a PROVE (IF k < slot THEN k ELSE k + 1) \in DOMAIN p
                                      /\ a[k] = p[IF k < slot THEN k ELSE k + 1]
  BY <1>2, <1>4, <1>5
<1>7. \A i \in DOMAIN a : a[i] \in Owned
  BY <1>2, <1>6
<1>8. \A i, j \in DOMAIN a : a[i] = a[j] => i = j
  <2> TAKE i, j \in DOMAIN a
  <2> HAVE a[i] = a[j]
  <2>1. (IF i < slot THEN i ELSE i + 1) = (IF j < slot THEN j ELSE j + 1)
    BY <1>2, <1>6
  <2>2. i \in Int /\ j \in Int /\ slot \in Int
    BY <1>2, <1>5
  <2> QED
    BY <2>1, <2>2
<1>9. Len(a) <= PartySize /\ Len(a) > 0
  BY <1>1, <1>2, <1>4
<1> QED
  BY <1>1, <1>3, <1>4, <1>7, <1>8, <1>9, PartyChangeKeeps

LEMMA WithdrawKeeps ==
    ASSUME GameInv, Withdraw PROVE GameInv'
<1> DEFINE p == game.party
<1>1. PICK id \in Owned \ ToSet(p) :
        Len(p) < PartySize /\ game' = [game EXCEPT !.party = Append(@, id)] /\ UNCHANGED <<records, dry>>
  BY DEF Withdraw
<1>2. /\ p \in Seq(Ids) /\ Len(p) \in Nat /\ DOMAIN p = 1 .. Len(p) /\ PartySize \in Nat
      /\ \A i \in DOMAIN p : p[i] \in Owned
      /\ \A i, j \in DOMAIN p : p[i] = p[j] => i = j
      /\ \E n \in 0 .. MaxRecords : Owned = 1 .. n
  <2>1. p \in Seq(Ids) /\ PartyOK(game, records) /\ RosterOK(game, records) /\ PartySize \in Nat
    BY GameAssumption DEF GameInv, GameOK, Core, Games
  <2> QED
    BY <2>1 DEF PartyOK, RosterOK, Owned
<1> DEFINE a == Append(p, id)
           m == Len(p)
<1>3. game' = [game EXCEPT !.party = a]
  BY <1>1
<1> HIDE DEF p
<1>4. id \in Ids /\ id \in Owned /\ \A i \in DOMAIN p : p[i] # id
  BY <1>1, <1>2, GameAssumption DEF Ids, ToSet
<1>5. /\ a \in Seq(Ids) /\ Len(a) = m + 1 /\ DOMAIN a = 1 .. (m + 1) /\ a[m + 1] = id
      /\ \A i \in 1 .. m : i \in DOMAIN p /\ a[i] = p[i]
  BY <1>2, <1>4
<1> HIDE DEF a, m
<1>6. \A i \in DOMAIN a : i \in 1 .. m \/ i = m + 1
  BY <1>2, <1>5 DEF m
<1>7. \A i \in DOMAIN a : a[i] \in Owned
  BY <1>2, <1>4, <1>5, <1>6
<1>8. \A i, j \in DOMAIN a : a[i] = a[j] => i = j
  BY <1>2, <1>4, <1>5, <1>6
<1>9. Len(a) <= PartySize /\ Len(a) > 0
  BY <1>1, <1>2, <1>5 DEF m
<1> QED
  BY <1>1, <1>3, <1>5, <1>7, <1>8, <1>9, PartyChangeKeeps

---------------------------------------------------------------------------------
(* The invariant and the theorems                                              *)

LEMMA GameInitial == Init => GameInv
BY NewGameOK DEF Init, GameInv

LEMMA GameStep == GameInv /\ [Next]_vars => GameInv'
<1> SUFFICES ASSUME GameInv, [Next]_vars PROVE GameInv'
  OBVIOUS
<1>1. ASSUME CreateStarter PROVE GameInv'
  BY <1>1, CreateStarterKeeps
<1>2. ASSUME CreditMinute PROVE GameInv'
  BY <1>2, CreditMinuteKeeps
<1>3. ASSUME CatchEncounter PROVE GameInv'
  BY <1>3, CatchEncounterKeeps
<1>4. ASSUME PassEncounter PROVE GameInv'
  BY <1>4, DismissKeeps DEF PassEncounter, FrontIs
<1>5. ASSUME AcknowledgeItem PROVE GameInv'
  BY <1>5, DismissKeeps DEF AcknowledgeItem, FrontIs
<1>6. ASSUME Evolve PROVE GameInv'
  BY <1>6, EvolveKeeps
<1>7. ASSUME CancelEvolution PROVE GameInv'
  BY <1>7, DismissKeeps DEF CancelEvolution
<1>8. ASSUME EnablePrompts PROVE GameInv'
  BY <1>8, EnablePromptsKeeps
<1>9. ASSUME DisablePrompts PROVE GameInv'
  BY <1>9, DisablePromptsKeeps
<1>10. ASSUME UseEvolutionItem PROVE GameInv'
  BY <1>10, UseEvolutionItemKeeps
<1>11. ASSUME MovePartyMember PROVE GameInv'
  BY <1>11, MovePartyMemberKeeps
<1>12. ASSUME Deposit PROVE GameInv'
  BY <1>12, DepositKeeps
<1>13. ASSUME Withdraw PROVE GameInv'
  BY <1>13, WithdrawKeeps
<1>14. ASSUME Reset PROVE GameInv'
  BY <1>14, NewGameOK DEF Reset, GameInv
<1>15. ASSUME UNCHANGED vars PROVE GameInv'
  BY <1>15 DEF vars, GameInv
<1> QED
  BY <1>1, <1>2, <1>3, <1>4, <1>5, <1>6, <1>7, <1>8, <1>9, <1>10, <1>11, <1>12, <1>13, <1>14, <1>15
  DEF Next

LEMMA GameInvariant == Spec => []GameInv
BY GameInitial, GameStep, PTL DEF Spec

\* What the invariant says of one save.
LEMMA GameInvFacts ==
    ASSUME GameInv
    PROVE  /\ game \in Games /\ PartyOK(game, records) /\ RosterOK(game, records) /\ DexOK(game)
           /\ QueueOK(game, records) /\ ItemsOK(game) /\ NoticeOK(game) /\ dry = game.encounterMisses
           /\ \E n \in Nat : n <= MaxRecords /\ Owned = 1 .. n
<1>1. \E n \in 0 .. MaxRecords : Owned = 1 .. n
  BY DEF GameInv, GameOK, Core, RosterOK, Owned
<1>2. MaxRecords \in Nat
  BY GameAssumption
<1>3. \E n \in Nat : n <= MaxRecords /\ Owned = 1 .. n
  BY <1>1, <1>2
<1> QED
  BY <1>3 DEF GameInv, GameOK, Core

\* The save, the records and the count of checks keep their types: the queue and
\* the party within their capacity, the experience within its maximum, the items
\* within 16 bits (the state of PokemonService and PokemonGame).
THEOREM GameIsTypeCorrect == Spec => []TypeOK
<1>1. ASSUME GameInv PROVE TypeOK
  <2>1. Len(game.party) <= PartySize /\ Len(game.queue) <= Capacity
    BY <1>1, GameInvFacts DEF PartyOK, QueueOK
  <2>2. Owned \subseteq Ids
    <3>1. PICK n \in Nat : n <= MaxRecords /\ Owned = 1 .. n
      BY <1>1, GameInvFacts
    <3> QED
      BY <3>1, GameAssumption DEF Ids
  <2>3. \A id \in Owned : records[id] \in Records
    BY <1>1, GameInvFacts DEF RosterOK, Owned
  <2>4. EncounterMisses \in Nat
    BY GameAssumption
  <2>5. dry \in Nat
    BY <1>1, <2>4, GameInvFacts DEF Games
  <2> QED
    BY <1>1, <2>1, <2>2, <2>3, <2>5, GameInvFacts DEF TypeOK
<1> QED
  BY <1>1, GameInvariant, PTL

\* Whatever the player does, the save that is written passes the inspection of
\* the store: no operation of PokemonService can lock its own game out.
THEOREM SavesAreSound == Spec => []SaveIsSound
<1>1. ASSUME GameInv PROVE SaveIsSound
  <2>1. ToSet(game.party) \subseteq Owned /\ IsInjective(game.party)
    BY <1>1, GameInvFacts DEF PartyOK, ToSet, IsInjective, Owned
  <2>2. \A event \in ToSet(game.queue) : event.kind = "Evolution" => event.id \in Owned
    BY <1>1, GameInvFacts DEF QueueOK, EventOK, ToSet, Owned
  <2>3. (\A id \in Owned : records[id].species \in game.caught) /\ game.caught \subseteq game.seen
    BY <1>1, GameInvFacts DEF RosterOK, DexOK, Owned
  <2> QED
    BY <2>1, <2>2, <2>3 DEF SaveIsSound
<1> QED
  BY <1>1, GameInvariant, PTL

\* The id of the next catch is always greater than every id before it, as the
\* append of the store demands.
THEOREM RosterIsContiguous == Spec => []IdsAreContiguous
<1>1. ASSUME GameInv PROVE IdsAreContiguous
  <2>1. PICK n \in Nat : Owned = 1 .. n
    BY <1>1, GameInvFacts
  <2>2. Cardinality(1 .. n) = n
    BY FS_Interval
  <2> QED
    BY <2>1, <2>2 DEF IdsAreContiguous
<1> QED
  BY <1>1, GameInvariant, PTL

\* The party of a game that has begun never empties: every minute finds the
\* record it is credited to.
THEOREM PartyHasALeader == Spec => []LeaderExists
<1>1. ASSUME GameInv PROVE LeaderExists
  BY <1>1, GameInvFacts DEF PartyOK, LeaderExists, Owned
<1> QED
  BY <1>1, GameInvariant, PTL

\* No evolution prompt ever blocks the queue: it can be resolved when it gets to
\* the front, however long it waited behind others.
THEOREM EvolutionsStayCurrent == Spec => []EvolutionEventsAreCurrent
<1>1. ASSUME GameInv PROVE EvolutionEventsAreCurrent
  <2> SUFFICES ASSUME NEW i \in DOMAIN game.queue, game.queue[i].kind = "Evolution"
               PROVE  /\ IsCurrent(game.queue[i]) /\ records[game.queue[i].id].prompts
                      /\ \A j \in DOMAIN game.queue :
                            IsEvolutionOf(game.queue[j], game.queue[i].id) => i = j
    BY DEF EvolutionEventsAreCurrent
  <2>1. EventOK(game.queue[i], game, records)
    BY <1>1, GameInvFacts DEF QueueOK
  <2>2. IsCurrent(game.queue[i]) /\ records[game.queue[i].id].prompts
    BY <2>1 DEF EventOK, IsCurrent, Owned
  <2>3. \A j \in DOMAIN game.queue : IsEvolutionOf(game.queue[j], game.queue[i].id) => i = j
    BY <1>1, GameInvFacts DEF QueueOK
  <2> QED
    BY <2>2, <2>3
<1> QED
  BY <1>1, GameInvariant, PTL

\* An item is not spent between its announcement and its acknowledgement.
THEOREM AnnouncementsAreKept == Spec => []AnnouncedItemsAreThere
<1>1. ASSUME GameInv PROVE AnnouncedItemsAreThere
  BY <1>1, GameInvFacts DEF ItemsOK, Announced, ItemEvent, AnnouncedItemsAreThere
<1> QED
  BY <1>1, GameInvariant, PTL

\* The dashboard never announces an event that is not the next one.
THEOREM NoticeIsTrue == Spec => []NoticeMatchesFront
<1>1. ASSUME GameInv PROVE NoticeMatchesFront
  BY <1>1, GameInvFacts DEF NoticeOK, NoticeMatchesFront, Pending
<1> QED
  BY <1>1, GameInvariant, PTL

\* The guarantee of an encounter holds through full queues, for any number of
\* misses and any capacity.
THEOREM EncountersAreGuaranteed == Spec => []DrySpellIsBounded
<1>1. ASSUME GameInv PROVE DrySpellIsBounded
  <2>1. EncounterMisses \in Nat
    BY GameAssumption
  <2> QED
    BY <1>1, <2>1, GameInvFacts DEF Games, DrySpellIsBounded
<1> QED
  BY <1>1, GameInvariant, PTL

\* Mew is met by a player who has caught every other species, and by no other.
THEOREM MewIsTheLast == Spec => []MewComesLast
<1>1. ASSUME GameInv PROVE MewComesLast
  BY <1>1, GameInvFacts DEF DexOK, MewComesLast
<1> QED
  BY <1>1, GameInvariant, PTL

\* No step reorders or loses pending events: a minute only adds at the end, and an
\* event leaves from the front, or with the evolutions of the record whose prompts
\* are turned off.
THEOREM EventsAreInOrder == Spec => EventsKeepTheirOrder
<1> DEFINE Ordered == \/ Reset \/ CreateStarter
                      \/ IsPrefix(game.queue, game'.queue)
                      \/ game'.queue = Tail(game.queue)
                      \/ \E id \in Owned : /\ ~ records'[id].prompts
                                           /\ game'.queue = WithoutEvolutions(game, id).queue
<1>1. GameInv /\ [Next]_vars => [Ordered]_vars
  <2> SUFFICES ASSUME GameInv, Next PROVE Ordered
    OBVIOUS
  <2>1. game \in Games /\ game.queue \in Seq(Events) /\ Extends(game.queue, game.queue)
    BY GameInvFacts DEF Games, Extends
  <2>2. game'.queue = game.queue => IsPrefix(game.queue, game'.queue)
    BY <2>1, ExtendsIsPrefix
  <2>3. \A g, r : Core(g, r) /\ g.queue # <<>> => Popped(g).queue = Tail(g.queue)
    BY PoppedKeeps
  <2>4. Core(game, records)
    BY DEF GameInv, GameOK
  <2>5. ASSUME CreditMinute PROVE Ordered
    BY <2>5, CreditMinuteKeeps, ExtendsIsPrefix
  <2>6. ASSUME CatchEncounter PROVE Ordered
    <3> DEFINE g1 == Caught(game, Pending.species)
               g2 == Joined(g1, NextId)
    <3>1. game' = Popped(g2) /\ game.queue # <<>>
      BY <2>6 DEF CatchEncounter, FrontIs
    <3>2. g1 = [game EXCEPT !.seen = @ \cup {Pending.species}, !.caught = @ \cup {Pending.species}]
      BY DEF Caught
    <3>3. Popped(g2).queue = Tail(game.queue)
      BY <2>1 DEF Popped, Refresh, Joined, Caught, Games
    <3> QED
      BY <3>1, <3>3
  <2>7. ASSUME PassEncounter \/ AcknowledgeItem \/ CancelEvolution PROVE Ordered
    <3>1. game' = Popped(game) /\ game.queue # <<>>
      BY <2>7 DEF PassEncounter, AcknowledgeItem, CancelEvolution, FrontIs
    <3> QED
      BY <2>3, <2>4, <3>1
  <2>8. ASSUME Evolve PROVE Ordered
    <3>1. game' = Popped(Caught(game, Pending.species))
      BY <2>8 DEF Evolve
    <3>2. game'.queue = Tail(game.queue)
      BY <2>1, <3>1 DEF Popped, Refresh, Caught, Games
    <3> QED
      BY <3>2
  <2>9. ASSUME EnablePrompts PROVE Ordered
    BY <2>2, <2>9 DEF EnablePrompts
  <2>10. ASSUME DisablePrompts PROVE Ordered
    <3>1. PICK id \in Owned : /\ records' = [records EXCEPT ![id].prompts = FALSE]
                              /\ game' = WithoutEvolutions(game, id)
      BY <2>10 DEF DisablePrompts
    <3>2. records[id] \in Records
      BY <2>4 DEF Core, RosterOK, Owned
    <3>3. ~ records'[id].prompts
      BY <3>1, <3>2 DEF Owned, Records
    <3> QED
      BY <3>1, <3>3
  <2>11. ASSUME UseEvolutionItem PROVE Ordered
    <3>1. game'.queue = game.queue
      BY <2>1, <2>11 DEF UseEvolutionItem, Caught, Games
    <3> QED
      BY <2>2, <3>1
  <2>12. ASSUME MovePartyMember \/ Deposit \/ Withdraw PROVE Ordered
    <3>1. \E p : game' = [game EXCEPT !.party = p]
      BY <2>12 DEF MovePartyMember, Deposit, Withdraw
    <3>2. game'.queue = game.queue
      BY <2>1, <3>1 DEF Games
    <3> QED
      BY <2>2, <3>2
  <2> QED
    BY <2>5, <2>6, <2>7, <2>8, <2>9, <2>10, <2>11, <2>12 DEF Next
<1>2. Spec => [][Ordered]_vars
  BY <1>1, GameInvariant, PTL DEF Spec
<1> QED
  BY <1>2 DEF EventsKeepTheirOrder

---------------------------------------------------------------------------------
(* What a player keeps                                                         *)

\* A game, as far as its Pokedex and items are concerned.
HasDex(g) ==
    /\ g = [f \in DOMAIN g |-> g[f]]
    /\ g.items \in [Items -> Nat]
    /\ {"seen", "caught", "queue", "notice", "party", "items", "minute",
        "encounterMisses", "itemMisses"} \subseteq DOMAIN g

\* Nothing leaves the Pokedex, and no item is spent.
DexKept(g, h) ==
    /\ HasDex(h) /\ g.seen \subseteq h.seen /\ g.caught \subseteq h.caught
    /\ \A item \in Items : g.items[item] <= h.items[item]

LEMMA GamesHaveADex == ASSUME NEW g \in Games PROVE HasDex(g)
BY LimitIsNat DEF Games, HasDex

LEMMA DexKeptOn ==
    /\ \A g : HasDex(g) => DexKept(g, g)
    /\ \A g, h, k : HasDex(g) /\ DexKept(g, h) /\ DexKept(h, k) => DexKept(g, k)
BY DEF DexKept, HasDex

\* A change of other fields, or of fields that gain.
LEMMA GainsKeepDex ==
    ASSUME NEW g, HasDex(g), NEW h, h = [f \in DOMAIN h |-> h[f]], DOMAIN h = DOMAIN g,
           g.seen \subseteq h.seen, g.caught \subseteq h.caught, h.items \in [Items -> Nat],
           \A item \in Items : g.items[item] <= h.items[item]
    PROVE  DexKept(g, h)
BY DEF HasDex, DexKept

LEMMA SightKeepsDex ==
    ASSUME NEW g, HasDex(g), NEW S, NEW n
    PROVE  /\ DexKept(g, [g EXCEPT !.seen = @ \cup S])
           /\ DexKept(g, [g EXCEPT !.caught = @ \cup S])
           /\ DexKept(g, [g EXCEPT !.seen = @ \cup S, !.encounterMisses = n])
<1>1. ASSUME NEW h, h = [f \in DOMAIN h |-> h[f]], DOMAIN h = DOMAIN g, h.items = g.items,
             g.seen \subseteq h.seen, g.caught \subseteq h.caught
      PROVE  DexKept(g, h)
  <2>1. g.items \in [Items -> Nat] /\ \A item \in Items : g.items[item] <= g.items[item]
    BY DEF HasDex
  <2>2. h.items \in [Items -> Nat] /\ \A item \in Items : g.items[item] <= h.items[item]
    BY <1>1, <2>1
  <2> QED
    BY <1>1, <2>2, GainsKeepDex
<1>2. DexKept(g, [g EXCEPT !.seen = @ \cup S])
  BY <1>1 DEF HasDex
<1>3. DexKept(g, [g EXCEPT !.caught = @ \cup S])
  BY <1>1 DEF HasDex
<1>4. DexKept(g, [g EXCEPT !.seen = @ \cup S, !.encounterMisses = n])
  <2> DEFINE h == [g EXCEPT !.seen = @ \cup S, !.encounterMisses = n]
  <2>1. /\ h = [f \in DOMAIN h |-> h[f]] /\ DOMAIN h = DOMAIN g
        /\ h.items = g.items /\ h.seen = g.seen \cup S /\ h.caught = g.caught
    BY DEF HasDex
  <2> HIDE DEF h
  <2>2. DexKept(g, h)
    BY <1>1, <2>1
  <2> QED
    BY <2>2 DEF h
<1> QED
  BY <1>2, <1>3, <1>4

LEMMA RefreshKeepsDex == ASSUME NEW g, HasDex(g) PROVE DexKept(g, Refresh(g))
<1> DEFINE n == IF g.queue = <<>> THEN "None" ELSE Head(g.queue).kind
<1>1. Refresh(g) = [g EXCEPT !.notice = n]
  BY DEF Refresh
<1> HIDE DEF n
<1> QED
  BY <1>1 DEF HasDex, DexKept

LEMMA RequeueKeepsDex == ASSUME NEW g, HasDex(g), NEW q PROVE DexKept(g, Refresh([g EXCEPT !.queue = q]))
<1>1. DexKept(g, [g EXCEPT !.queue = q])
  BY DEF HasDex, DexKept
<1>2. HasDex([g EXCEPT !.queue = q])
  BY <1>1 DEF DexKept
<1> QED
  BY <1>1, <1>2, RefreshKeepsDex, DexKeptOn

LEMMA QueueKeepsDex ==
    ASSUME NEW g, HasDex(g)
    PROVE  /\ DexKept(g, Popped(g))
           /\ \A e : DexKept(g, Enqueued(g, e))
           /\ \A id : DexKept(g, WithoutEvolutions(g, id))
BY RequeueKeepsDex DEF Popped, Enqueued, WithoutEvolutions

LEMMA CaughtKeepsDex == ASSUME NEW g, HasDex(g), NEW s PROVE DexKept(g, Caught(g, s))
<1>1. DexKept(g, [g EXCEPT !.seen = @ \cup {s}])
  BY SightKeepsDex
<1> DEFINE k == [g EXCEPT !.seen = @ \cup {s}]
<1> HIDE DEF k
<1>2. DexKept(g, k)
  BY <1>1 DEF k
<1>3. DexKept(k, [k EXCEPT !.caught = @ \cup {s}])
  BY <1>2, SightKeepsDex DEF DexKept
<1>4. Caught(g, s) = [k EXCEPT !.caught = @ \cup {s}]
  BY DEF Caught, k
<1> QED
  BY <1>2, <1>3, <1>4, DexKeptOn

\* A minute only adds to the Pokedex, whatever it finds.
LEMMA HourlyItemKeepsDex == ASSUME NEW g, HasDex(g), NEW h \in HourlyItem(g) PROVE DexKept(g, h)
<1>1. \A n : DexKept(g, [g EXCEPT !.itemMisses = n])
  BY DEF HasDex, DexKept
<1>2. CASE h \in FoundItems(g)
  <2> DEFINE found == [g EXCEPT !.itemMisses = 0]
  <2>1. DexKept(g, found) /\ HasDex(found)
    BY <1>1 DEF DexKept
  <2>2. h = found \/ \E i \in ItemChoices(g) :
            h = Enqueued([found EXCEPT !.items[i] = @ + 1], [kind |-> "Item", item |-> i])
    BY <1>2 DEF FoundItems
  <2> HIDE DEF found
  <2>3. ASSUME NEW i \in ItemChoices(g),
               h = Enqueued([found EXCEPT !.items[i] = @ + 1], [kind |-> "Item", item |-> i])
        PROVE  DexKept(g, h)
    <3> DEFINE items == [found.items EXCEPT ![i] = @ + 1]
               e == [kind |-> "Item", item |-> i]
    <3>1. h = Enqueued([found EXCEPT !.items = items], e)
      BY <2>3
    <3>4. found.items \in [Items -> Nat] /\ i \in Items
      BY <2>1 DEF HasDex, ItemChoices
    <3>5. items \in [Items -> Nat] /\ \A item \in Items : found.items[item] <= items[item]
      BY <3>4
    <3> HIDE DEF items, e
    <3>2. DexKept(found, [found EXCEPT !.items = items])
      BY <2>1, <3>5, GainsKeepDex DEF HasDex
    <3>3. DexKept([found EXCEPT !.items = items], h)
      BY <3>1, <3>2, QueueKeepsDex DEF DexKept
    <3> QED
      BY <2>1, <3>2, <3>3, DexKeptOn
  <2> QED
    BY <2>1, <2>2, <2>3
<1>3. CASE h = [g EXCEPT !.itemMisses = ItemMisses]
  BY <1>1, <1>3
<1>4. CASE h = [g EXCEPT !.itemMisses = Capped(@ + 1, ItemMisses)]
  BY <1>1, <1>4
<1> QED
  BY <1>2, <1>3, <1>4 DEF HourlyItem

LEMMA EncounterCheckKeepsDex ==
    ASSUME NEW g, HasDex(g), NEW h \in EncounterCheck(g) PROVE DexKept(g, h)
<1>1. \A n : DexKept(g, [g EXCEPT !.encounterMisses = n])
  BY DEF HasDex, DexKept
<1>2. CASE h \in Encounters(g)
  <2> DEFINE k(s) == [g EXCEPT !.seen = @ \cup {s}, !.encounterMisses = 0]
             e(s, l) == [kind |-> "Encounter", species |-> s, level |-> l]
             Shown(s, l) == Enqueued(k(s), e(s, l))
  <2>4. Encounters(g) = {Shown(s, l) : s \in EncounterChoices(g), l \in EncounterLevels}
    BY DEF Encounters
  <2> HIDE DEF Shown
  <2>5. PICK s \in EncounterChoices(g), l \in EncounterLevels : h = Shown(s, l)
    BY <1>2, <2>4
  <2>1. h = Enqueued(k(s), e(s, l))
    BY <2>5 DEF Shown
  <2>2. DexKept(g, k(s))
    BY SightKeepsDex
  <2> HIDE DEF k, e
  <2>3. DexKept(k(s), h)
    BY <2>1, <2>2, QueueKeepsDex DEF DexKept
  <2> QED
    BY <2>2, <2>3, DexKeptOn
<1>3. CASE h = [g EXCEPT !.encounterMisses = EncounterMisses]
  BY <1>1, <1>3
<1>4. CASE h = [g EXCEPT !.encounterMisses = Capped(@ + 1, EncounterMisses)]
  BY <1>1, <1>4
<1> QED
  BY <1>2, <1>3, <1>4 DEF EncounterCheck

LEMMA QueueEvolutionKeepsDex ==
    ASSUME NEW g, HasDex(g), NEW id, NEW record, NEW h \in QueueEvolution(g, id, record)
    PROVE  DexKept(g, h)
<1>1. CASE h = g
  BY <1>1, DexKeptOn
<1>2. CASE h \in EvolutionPrompts(g, id, record)
  <2> DEFINE k(s) == [g EXCEPT !.seen = @ \cup {s}]
             e(s) == [kind |-> "Evolution", id |-> id, species |-> s]
  <2>1. PICK rule \in LevelRulesOf(record) : h = Enqueued(k(rule.to), e(rule.to))
    BY <1>2 DEF EvolutionPrompts
  <2>2. DexKept(g, k(rule.to))
    BY SightKeepsDex
  <2> HIDE DEF k, e
  <2>3. DexKept(k(rule.to), h)
    BY <2>1, <2>2, QueueKeepsDex DEF DexKept
  <2> QED
    BY <2>2, <2>3, DexKeptOn
<1> QED
  BY <1>1, <1>2 DEF QueueEvolution

\* The records are still there: no less experience, and a species that is the one
\* it was or one a rule leads to.
Grows(old, new) ==
    /\ new.xp >= old.xp
    /\ new.species # old.species =>
          \E rule \in LevelRules \cup ItemRules : rule.from = old.species /\ rule.to = new.species

RecordsKept == Owned \subseteq Owned' /\ \A id \in Owned : Grows(records[id], records'[id])

LEMMA SameRecordGrows == ASSUME NEW r \in Records PROVE Grows(r, r)
BY XpFacts DEF Grows, Records

LEMMA RecordsAreRecords == ASSUME GameInv PROVE \A id \in Owned : records[id] \in Records
BY GameInvFacts DEF RosterOK, Owned

LEMMA SameRecordsAreKept == ASSUME GameInv, UNCHANGED records PROVE RecordsKept
BY SameRecordGrows, RecordsAreRecords DEF RecordsKept, Owned

LEMMA OneRecordGrows ==
    ASSUME GameInv, NEW id \in Owned, NEW v, Grows(records[id], v),
           records' = [records EXCEPT ![id] = v]
    PROVE  RecordsKept
<1>1. Owned' = Owned /\ records'[id] = v /\ \A x \in Owned : x # id => records'[x] = records[x]
  BY DEF Owned
<1>2. \A x \in Owned : Grows(records[x], records'[x])
  BY <1>1, SameRecordGrows, RecordsAreRecords
<1> QED
  BY <1>1, <1>2 DEF RecordsKept

LEMMA EvolvedRecordGrows ==
    ASSUME NEW r \in Records, NEW rule \in LevelRules \cup ItemRules, rule.from = r.species
    PROVE  Grows(r, [r EXCEPT !.species = rule.to])
<1>1. r.xp \in Nat
  BY XpFacts DEF Records
<1> QED
  BY <1>1 DEF Grows, Records

---------------------------------------------------------------------------------
(* Each operation keeps the Pokedex and the records                            *)

LEMMA CreditMinuteTakesNothing ==
    ASSUME GameInv, CreditMinute PROVE DexKept(game, game') /\ RecordsKept
<1> DEFINE old == records[Leader]
           new == [old EXCEPT !.xp = Capped(@ + 1, MaximumXp)]
           minute == game.minute + 1
           hourly == minute = HourMinutes
           started == [game EXCEPT !.minute = IF hourly THEN 0 ELSE minute]
           check == hourly \/ minute % CheckMinutes = 0
<1>1. PICK item \in IF hourly THEN HourlyItem(started) ELSE {started} :
        \E checked \in IF check THEN EncounterCheck(item) ELSE {item} :
            /\ records' = [records EXCEPT ![Leader] = new]
            /\ game' \in IF LevelForXp(new.xp) > LevelForXp(old.xp)
                         THEN QueueEvolution(checked, Leader, new) ELSE {checked}
  BY DEF CreditMinute
<1>2. PICK checked \in IF check THEN EncounterCheck(item) ELSE {item} :
        /\ records' = [records EXCEPT ![Leader] = new]
        /\ game' \in IF LevelForXp(new.xp) > LevelForXp(old.xp)
                     THEN QueueEvolution(checked, Leader, new) ELSE {checked}
  BY <1>1
<1>3. HasDex(game) /\ Leader \in Owned
  BY GameInvFacts, GamesHaveADex DEF CreditMinute, HasLeader
<1>4. RecordsKept
  <2>1. old \in Records
    BY <1>3, RecordsAreRecords
  <2> HIDE DEF old
  <2>2. old.xp \in Nat /\ old.xp <= MaximumXp /\ MaximumXp \in Nat
    BY <2>1, XpFacts DEF Records
  <2>3. Capped(old.xp + 1, MaximumXp) >= old.xp
    BY <2>2 DEF Capped
  <2>4. new.xp = Capped(old.xp + 1, MaximumXp) /\ new.species = old.species
    BY <2>1 DEF Records
  <2>5. Grows(old, new)
    BY <2>3, <2>4 DEF Grows
  <2> HIDE DEF new
  <2> QED
    BY <1>2, <1>3, <2>5, OneRecordGrows DEF old
<1>5. DexKept(game, started)
  BY <1>3 DEF HasDex, DexKept
<1> HIDE DEF started, hourly, check, new, old
<1>6. DexKept(started, item)
  BY <1>1, <1>5, HourlyItemKeepsDex, DexKeptOn DEF DexKept
<1>7. DexKept(item, checked)
  BY <1>2, <1>6, EncounterCheckKeepsDex, DexKeptOn DEF DexKept
<1>8. DexKept(checked, game')
  BY <1>2, <1>7, QueueEvolutionKeepsDex, DexKeptOn DEF DexKept
<1>9. DexKept(game, item)
  BY <1>3, <1>5, <1>6, DexKeptOn
<1>10. DexKept(game, checked)
  BY <1>3, <1>7, <1>9, DexKeptOn
<1>11. DexKept(game, game')
  BY <1>3, <1>8, <1>10, DexKeptOn
<1> QED
  BY <1>4, <1>11

LEMMA CatchTakesNothing ==
    ASSUME GameInv, CatchEncounter PROVE DexKept(game, game') /\ RecordsKept
<1>1. HasDex(game)
  BY GameInvFacts, GamesHaveADex
<1>2. DexKept(game, Caught(game, Pending.species))
  BY <1>1, CaughtKeepsDex
<1>3. ASSUME NEW g, HasDex(g) PROVE DexKept(g, Popped(Joined(g, NextId)))
  <2>1. DexKept(g, Joined(g, NextId))
    BY <1>3, DexKeptOn DEF HasDex, DexKept, Joined
  <2>2. DexKept(Joined(g, NextId), Popped(Joined(g, NextId)))
    BY <2>1, QueueKeepsDex DEF DexKept
  <2> QED
    BY <1>3, <2>1, <2>2, DexKeptOn
<1>4. DexKept(game, game')
  <2> DEFINE k == Caught(game, Pending.species)
  <2>1. DexKept(game, k) /\ game' = Popped(Joined(k, NextId))
    BY <1>2 DEF CatchEncounter
  <2> HIDE DEF k
  <2>2. DexKept(k, game')
    BY <1>3, <2>1 DEF DexKept
  <2> QED
    BY <1>1, <2>1, <2>2, DexKeptOn
<1>5. NextId \notin Owned
  <2>1. PICK n \in Nat : Owned = 1 .. n
    BY GameInvFacts
  <2>2. Cardinality(Owned) = n
    BY <2>1, FS_Interval
  <2> QED
    BY <2>1, <2>2 DEF NextId
<1>6. Owned' = Owned \cup {NextId} /\ \A id \in Owned : records'[id] = records[id]
  BY <1>5 DEF CatchEncounter, Owned
<1> QED
  BY <1>4, <1>6, SameRecordGrows, RecordsAreRecords DEF RecordsKept

LEMMA EvolveTakesNothing ==
    ASSUME GameInv, Evolve PROVE DexKept(game, game') /\ RecordsKept
<1>1. DexKept(game, game')
  BY GameInvFacts, GamesHaveADex, CaughtKeepsDex, QueueKeepsDex, DexKeptOn DEF Evolve, DexKept
<1>2. PICK rule \in LevelRules : /\ Pending.id \in Owned
                                 /\ rule.from = records[Pending.id].species
                                 /\ rule.to = Pending.species
  BY DEF Evolve, IsCurrent, LevelRulesOf
<1> DEFINE v == [records[Pending.id] EXCEPT !.species = rule.to]
<1>3. Grows(records[Pending.id], v)
  BY <1>2, RecordsAreRecords, EvolvedRecordGrows
<1>4. records' = [records EXCEPT ![Pending.id] = v]
  BY <1>2 DEF Evolve, Evolved
<1> HIDE DEF v
<1> QED
  BY <1>1, <1>2, <1>3, <1>4, OneRecordGrows

LEMMA PromptsTakeNothing ==
    ASSUME GameInv, EnablePrompts \/ DisablePrompts PROVE DexKept(game, game') /\ RecordsKept
<1>1. PICK id \in Owned, b \in BOOLEAN :
        /\ records' = [records EXCEPT ![id].prompts = b]
        /\ game' = game \/ game' = WithoutEvolutions(game, id)
  BY DEF EnablePrompts, DisablePrompts
<1> DEFINE v == [records[id] EXCEPT !.prompts = b]
<1>2. Grows(records[id], v)
  BY RecordsAreRecords, XpFacts DEF Grows, Records
<1>3. records' = [records EXCEPT ![id] = v]
  BY <1>1
<1> HIDE DEF v
<1>4. RecordsKept
  BY <1>2, <1>3, OneRecordGrows
<1> QED
  BY <1>1, <1>4, GameInvFacts, GamesHaveADex, QueueKeepsDex, DexKeptOn

\* An item that is gone was used up by the evolution of a record.
ItemsAreSpent ==
    \A item \in Items : game'.items[item] < game.items[item] =>
        \E id \in Owned, rule \in ItemRules :
            rule.item = item /\ rule.from = records[id].species /\ rule.to = records'[id].species

LEMMA ItemEvolves ==
    ASSUME GameInv, UseEvolutionItem
    PROVE  /\ game.seen \subseteq game'.seen /\ game.caught \subseteq game'.caught
           /\ RecordsKept /\ ItemsAreSpent
<1>1. PICK id \in Owned, rule \in ItemRules :
        /\ records[id].species = rule.from
        /\ game' = [Caught(game, rule.to) EXCEPT !.items[rule.item] = @ - 1]
        /\ records' = Evolved(id, rule.to)
  BY DEF UseEvolutionItem
<1> DEFINE v == [records[id] EXCEPT !.species = rule.to]
           k == Caught(game, rule.to)
<1>2. Grows(records[id], v) /\ v.species = rule.to
  BY <1>1, RecordsAreRecords, EvolvedRecordGrows DEF Records
<1>3. records' = [records EXCEPT ![id] = v]
  BY <1>1 DEF Evolved
<1> HIDE DEF v
<1>4. RecordsKept
  BY <1>2, <1>3, OneRecordGrows
<1>5. DexKept(game, k) /\ HasDex(game)
  BY GameInvFacts, GamesHaveADex, CaughtKeepsDex
<1>6. k.items = game.items
  BY <1>5 DEF Caught, HasDex
<1>7. records'[id].species = rule.to
  BY <1>2, <1>3 DEF Owned
<1> HIDE DEF k
<1>8. /\ game'.seen = k.seen /\ game'.caught = k.caught
      /\ game'.items = [game.items EXCEPT ![rule.item] = @ - 1]
  BY <1>1, <1>5, <1>6 DEF HasDex, DexKept, k
<1>9. ItemsAreSpent
  <2> SUFFICES ASSUME NEW item \in Items, game'.items[item] < game.items[item]
               PROVE  rule.item = item
    BY <1>1, <1>7 DEF ItemsAreSpent
  <2> QED
    BY <1>5, <1>8 DEF HasDex
<1> QED
  BY <1>4, <1>5, <1>8, <1>9 DEF DexKept

LEMMA PartyTakesNothing ==
    ASSUME GameInv, MovePartyMember \/ Deposit \/ Withdraw
    PROVE  /\ DexKept(game, game') /\ RecordsKept
           /\ game'.seen = game.seen /\ game'.caught = game.caught /\ game'.items = game.items
<1>1. UNCHANGED records /\ \E p : game' = [game EXCEPT !.party = p]
  BY DEF MovePartyMember, Deposit, Withdraw
<1>2. HasDex(game)
  BY GameInvFacts, GamesHaveADex
<1> QED
  BY <1>1, <1>2, SameRecordsAreKept DEF HasDex, DexKept

LEMMA DismissTakesNothing ==
    ASSUME GameInv, PassEncounter \/ AcknowledgeItem \/ CancelEvolution
    PROVE  DexKept(game, game') /\ RecordsKept
BY GameInvFacts, GamesHaveADex, QueueKeepsDex, SameRecordsAreKept
   DEF PassEncounter, AcknowledgeItem, CancelEvolution

\* Without a first partner there is nothing in the Pokedex and no item, so that
\* choosing one loses nothing.
Fresh == Owned = {} => game.seen = {} /\ game.caught = {} /\ game.items = NewGame.items

Plays == \/ CreditMinute \/ CatchEncounter \/ PassEncounter \/ AcknowledgeItem \/ Evolve
         \/ CancelEvolution \/ EnablePrompts \/ DisablePrompts
         \/ MovePartyMember \/ Deposit \/ Withdraw

LEMMA PlayTakesNothing ==
    ASSUME GameInv, Plays PROVE DexKept(game, game') /\ RecordsKept
BY CreditMinuteTakesNothing, CatchTakesNothing, EvolveTakesNothing, PromptsTakeNothing,
   PartyTakesNothing, DismissTakesNothing DEF Plays

LEMMA FreshStep == GameInv /\ Fresh /\ [Next]_vars => Fresh'
<1> SUFFICES ASSUME GameInv, Fresh, [Next]_vars PROVE Fresh'
  OBVIOUS
<1>1. ASSUME CreateStarter PROVE Fresh'
  <2>1. 1 \in Owned'
    BY <1>1 DEF CreateStarter, Owned
  <2> QED
    BY <2>1 DEF Fresh
<1>2. ASSUME Reset PROVE Fresh'
  BY <1>2 DEF Reset, Fresh, NewGame
<1>3. ASSUME Plays \/ UseEvolutionItem, Owned' = {} PROVE Fresh'
  <2>1. Owned = {}
    BY <1>3, PlayTakesNothing, ItemEvolves DEF RecordsKept
  <2>2. MovePartyMember \/ Deposit
    BY <1>3, <2>1 DEF Plays, CreditMinute, CatchEncounter, PassEncounter, AcknowledgeItem, Evolve,
       CancelEvolution, EnablePrompts, DisablePrompts, UseEvolutionItem, Withdraw, FrontIs,
       HasLeader, IsCurrent
  <2> QED
    BY <2>1, <2>2, PartyTakesNothing DEF Fresh
<1>4. ASSUME UNCHANGED vars PROVE Fresh'
  BY <1>4 DEF vars, Fresh, Owned
<1>5. Owned' # {} => Fresh'
  BY DEF Fresh
<1> QED
  BY <1>1, <1>2, <1>3, <1>4, <1>5 DEF Next, Plays

LEMMA FreshInvariant == Spec => []Fresh
<1>1. Init => Fresh
  BY DEF Init, Fresh, NewGame
<1> QED
  BY <1>1, FreshStep, GameInvariant, PTL DEF Spec

\* Nothing but a reset takes away what a player has: whatever the minutes bring
\* and the player does, the Pokedex only grows, every record stays, its experience
\* never falls, its species changes by a rule of evolution only, and an item is gone
\* only when it made such a change (PokemonService, every operation that commits).
THEOREM PlayersKeepWhatTheyHave == Spec => NothingIsTakenBack
<1> DEFINE Kept ==
      \/ Reset
      \/ /\ game.seen \subseteq game'.seen /\ game.caught \subseteq game'.caught
         /\ Owned \subseteq Owned'
         /\ \A id \in Owned :
               /\ records'[id].xp >= records[id].xp
               /\ records'[id].species # records[id].species =>
                     \E rule \in LevelRules \cup ItemRules :
                         /\ rule.from = records[id].species
                         /\ rule.to = records'[id].species
         /\ \A item \in Items : game'.items[item] < game.items[item] =>
               \E id \in Owned, rule \in ItemRules :
                   /\ rule.item = item
                   /\ rule.from = records[id].species
                   /\ rule.to = records'[id].species
<1>1. GameInv /\ Fresh /\ [Next]_vars => [Kept]_vars
  <2> SUFFICES ASSUME GameInv, Fresh, Next PROVE Kept
    OBVIOUS
  <2>1. ASSUME Plays PROVE Kept
    <3>1. ItemsAreSpent
      <4>1. HasDex(game) /\ DexKept(game, game')
        BY <2>1, PlayTakesNothing, GameInvFacts, GamesHaveADex
      <4>2. \A item \in Items : ~ (game'.items[item] < game.items[item])
        BY <4>1 DEF HasDex, DexKept
      <4> QED
        BY <4>2 DEF ItemsAreSpent
    <3> QED
      BY <2>1, <3>1, PlayTakesNothing DEF DexKept, RecordsKept, Grows, ItemsAreSpent
  <2>2. ASSUME UseEvolutionItem PROVE Kept
    BY <2>2, ItemEvolves DEF RecordsKept, Grows, ItemsAreSpent
  <2>3. ASSUME CreateStarter PROVE Kept
    <3>1. Owned = {} /\ game.seen = {} /\ game.caught = {} /\ game.items = NewGame.items
      BY <2>3 DEF CreateStarter, Fresh
    <3>2. game'.items = NewGame.items
      BY <2>3 DEF CreateStarter, Caught, NewGame
    <3>3. \A item \in Items : ~ (game'.items[item] < game.items[item])
      BY <3>1, <3>2, GameInvFacts, GamesHaveADex DEF HasDex
    <3> QED
      BY <3>1, <3>3
  <2> QED
    BY <2>1, <2>2, <2>3 DEF Next, Plays
<1>2. Spec => [][Kept]_vars
  BY <1>1, GameInvariant, FreshInvariant, PTL DEF Spec
<1> QED
  BY <1>2 DEF NothingIsTakenBack
=================================================================================
