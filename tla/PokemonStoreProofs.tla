-------------------------- MODULE PokemonStoreProofs --------------------------
(***************************************************************************)
(* Proofs about PokemonStore, for every modulus, every set of record ids   *)
(* and species and every card the firmware may start from.  The refinement *)
(* of DurableSave, and what becomes of foreign and legacy files, assume    *)
(* that a file can be opened for inspection; the rest does not.            *)
(***************************************************************************)
EXTENDS PokemonStore, FiniteSetTheorems, TLAPS

\* The next sequence is a sequence again, it is newer than the one it follows
\* and never the other way round, at the wraparound too.
LEMMA SequenceAfterIsNewer ==
    ASSUME NEW s \in Sequences
    PROVE  /\ SequenceAfter(s) \in Sequences
           /\ SequenceIsNewer(SequenceAfter(s), s)
           /\ ~ SequenceIsNewer(s, SequenceAfter(s))
BY SeqModAssumption DEF Sequences, SequenceAfter, SequenceIsNewer, UnsignedDifference

\* The header of a snapshot is a header.
LEMMA HeaderType ==
    ASSUME NEW f \in Snapshots
    PROVE  HeaderOf(f) \in [sequence : Sequences \cup {0}, recordCount : Nat]
<1>1. Stored(f.roster) \subseteq RecordIds
  BY DEF Stored
<1>2. Cardinality(Stored(f.roster)) \in Nat
  BY <1>1, DataAssumption, FS_Subset, FS_CardinalityType
<1> QED
  BY <1>2 DEF HeaderOf, Snapshots

\* Only a sound snapshot is inspected as Ready.
LEMMA ReadyMeansSound ==
    ASSUME NEW f, Inspect(f) = "Ready"
    PROVE  f.kind = "Snapshot" /\ Sound(f)
BY DEF Inspect, Sound

LEMMA ReadyIsSnapshot ==
    ASSUME NEW f \in Files, Inspect(f) = "Ready"
    PROVE  f \in Snapshots
BY ReadyMeansSound DEF Files, Missing, Torn, Foreign

\* A pair that begin() classifies as Ready has its newest slot Ready.
LEMMA NewestIsReady ==
    ASSUME NEW d, NEW unreadable, NEW a, NEW b, ClassifyPair(d, unreadable, a, b) = "Ready"
    PROVE  /\ Newest(d, unreadable, a, b) \in {a, b}
           /\ Inspect(d[Newest(d, unreadable, a, b)]) = "Ready"
<1>1. InspectAt(d, unreadable, a) = "Ready" \/ InspectAt(d, unreadable, b) = "Ready"
  BY DEF ClassifyPair, Classify
<1> QED
  BY <1>1 DEF Newest, InspectAt

---------------------------------------------------------------------------------
(* Types                                                                         *)

LEMMA OtherSlot ==
    ASSUME NEW s \in Slots
    PROVE  Other(s) \in Slots /\ Other(s) # s /\ Other(Other(s)) = s /\ Slots = {s, Other(s)}
BY DEF Slots, Other

\* The write a call carries out is a well-formed one.
LEMMA JobType ==
    ASSUME TypeOK, NEW state \in States, NEW mutation \in Mutations, NEW discard \in BOOLEAN,
           Accepted(mutation, discard),
           ready => header.sequence \in Sequences /\ disk[active] \in Snapshots
    PROVE  JobFor(state, mutation, discard) \in Jobs
<1> DEFINE j == JobFor(state, mutation, discard)
<1>1. Preserved(discard) \in Rosters
  BY DEF Preserved, EmptyRoster, Rosters, Snapshots
<1>2. j.snapshot.roster \in Rosters
  <2>1. CASE mutation.kind = "None"
    BY <1>1, <2>1 DEF JobFor
  <2>2. CASE mutation.kind # "None"
    <3>1. mutation.id \in RecordIds /\ mutation.species \in Species
      BY <2>2 DEF Accepted, Mutations
    <3> QED
      BY <1>1, <2>2, <3>1 DEF JobFor, Rosters
  <2> QED
    BY <2>1, <2>2
<1>3. NextSequence \in Sequences
  BY SequenceAfterIsNewer, SeqModAssumption DEF NextSequence, Sequences
<1>4. Destination \in Slots
  BY OtherSlot DEF TypeOK, Destination, Slots
<1> QED
  BY <1>2, <1>3, <1>4 DEF JobFor, Jobs, Snapshots

---------------------------------------------------------------------------------
(* The inductive invariant                                                       *)

Writing == pc \in {"streaming", "written", "verifying"}

\* Between calls an acknowledged write leaves the store ready.
OutcomeOK == outcome \in {"committed", "reset"} => pc = "idle" /\ ready

\* A store that is not ready accepts writes only on a card without slot B.
FirstWriteOK == ~ ready /\ writable => disk["B"] = Missing

\* The running write goes to the other slot and carries the next sequence; the
\* file is torn until it was synced.
JobOK ==
    Writing =>
        /\ writable
        /\ job \in Jobs
        /\ job.destination = Destination
        /\ job.snapshot.sequence = NextSequence
        /\ disk[job.destination] = IF pc = "verifying" THEN job.snapshot ELSE Torn

MigrationOK == pc = "migrating" => ~ ready /\ ~ writable /\ disk["B"] = Missing

StoreInv ==
    /\ TypeOK
    /\ LiveSnapshotIsValid
    /\ AcknowledgedWriteWinsNextStart
    /\ OutcomeOK
    /\ FirstWriteOK
    /\ JobOK
    /\ MigrationOK
    /\ ready => writable

LEMMA InitialInvariant == Init => StoreInv
<1> SUFFICES ASSUME Init PROVE StoreInv
  OBVIOUS
<1>1. TypeOK
  BY DataAssumption DEF Init, TypeOK, Slots, NoHeader, Phases
<1> QED
  BY <1>1 DEF Init, StoreInv, LiveSnapshotIsValid, AcknowledgedWriteWinsNextStart,
     OutcomeOK, FirstWriteOK, JobOK, MigrationOK, Writing

\* begin() that ends with slot s active re-establishes the invariant.
LEMMA BeginReadyKeepsInvariant ==
    ASSUME TypeOK, OutcomeOK, ~ ready, UNCHANGED <<disk, job, outcome>>, pc' = "idle",
           NEW s \in Slots, Inspect(disk[s]) = "Ready", BeginReady(s)
    PROVE  StoreInv'
<1>1. disk[s] \in Snapshots
  BY ReadyIsSnapshot DEF TypeOK, Paths
<1>2. HeaderOf(disk[s]) \in [sequence : Sequences \cup {0}, recordCount : Nat]
  BY <1>1, HeaderType
<1>3. TypeOK'
  BY <1>2 DEF TypeOK, BeginReady, Phases
<1>4. outcome' \notin {"committed", "reset"}
  BY DEF OutcomeOK
<1> QED
  BY <1>3, <1>4 DEF StoreInv, BeginReady, LiveSnapshotIsValid, AcknowledgedWriteWinsNextStart,
     OutcomeOK, FirstWriteOK, JobOK, MigrationOK, Writing

\* Nothing is in slot B: a first write, or a migration, goes to slot A.
SlotBMissing == disk["B"] = Missing

\* begin() that ends without a usable snapshot, and refuses writes, re-establishes it.
LEMMA BeginWithoutKeepsInvariant ==
    ASSUME TypeOK, OutcomeOK, ~ ready, UNCHANGED <<job, outcome>>, disk' \in [Paths -> Files],
           pc' = "idle" \/ (pc' = "migrating" /\ SlotBMissing'),
           ready' = FALSE, writable' = FALSE, active' = "B", header' = NoHeader
    PROVE  StoreInv'
<1>1. TypeOK'
  BY DEF TypeOK, Phases, NoHeader, Slots
<1>2. outcome' \notin {"committed", "reset"}
  BY DEF OutcomeOK
<1> QED
  BY <1>1, <1>2 DEF StoreInv, LiveSnapshotIsValid, AcknowledgedWriteWinsNextStart,
     OutcomeOK, FirstWriteOK, JobOK, MigrationOK, Writing, SlotBMissing

\* The case in which it ends idle on a card without slot B.
LEMMA BeginEmptyKeepsInvariant ==
    ASSUME TypeOK, OutcomeOK, ~ ready, UNCHANGED <<job, outcome>>, disk' \in [Paths -> Files],
           pc' = "idle", ready' = FALSE, writable' \in BOOLEAN, active' = "B", header' = NoHeader,
           SlotBMissing'
    PROVE  StoreInv'
<1>1. TypeOK'
  BY DEF TypeOK, Phases, NoHeader, Slots
<1>2. outcome' \notin {"committed", "reset"}
  BY DEF OutcomeOK
<1> QED
  BY <1>1, <1>2 DEF StoreInv, LiveSnapshotIsValid, AcknowledgedWriteWinsNextStart,
     OutcomeOK, FirstWriteOK, JobOK, MigrationOK, Writing, SlotBMissing

\* An empty pair of files is a pair of missing files.
LEMMA EmptyMeansMissing ==
    ASSUME NEW d, NEW a, NEW b, ClassifyPair(d, {}, a, b) = "Empty"
    PROVE  d[a] = Missing /\ d[b] = Missing
<1>1. Inspect(d[a]) = "Missing" /\ Inspect(d[b]) = "Missing"
  BY DEF ClassifyPair, Classify, InspectAt
<1> QED
  BY <1>1 DEF Inspect

\* A failed call that leaves the live slot alone keeps the invariant.
LEMMA FailKeepsInvariant ==
    ASSUME StoreInv, Fail, UNCHANGED <<job, live>>, disk' \in [Paths -> Files],
           ready => disk'[active] = disk[active],
           ~ ready /\ writable => disk'["B"] = disk["B"]
    PROVE  StoreInv'
<1>1. TypeOK'
  BY DEF StoreInv, TypeOK, Fail, live, Phases
<1>2. LiveSnapshotIsValid'
  BY DEF StoreInv, LiveSnapshotIsValid, live
<1> QED
  BY <1>1, <1>2 DEF StoreInv, Fail, live, AcknowledgedWriteWinsNextStart, OutcomeOK, FirstWriteOK,
     JobOK, MigrationOK, Writing

LEMMA UnfaultyRead == ASSUME NEW d, NEW p PROVE InspectAt(d, {}, p) = Inspect(d[p])
BY DEF InspectAt

\* The switch to the verified slot: the new snapshot wins against the one it
\* follows, or against nothing at all.
LEMMA VerifiedSlotWins ==
    ASSUME StoreInv, Verify
    PROVE  /\ ClassifyPair(disk, {}, "A", "B") = "Ready"
           /\ Newest(disk, {}, "A", "B") = job.destination
<1> DEFINE dest == job.destination
<1>1. /\ Inspect(disk[dest]) = "Ready" /\ disk[dest] = job.snapshot
      /\ dest = Destination /\ disk[dest].sequence = NextSequence /\ writable
  BY DEF StoreInv, JobOK, Verify, Writing
<1>2. CASE ready
  <2>1. active \in Slots /\ disk[active] \in Snapshots /\ Inspect(disk[active]) = "Ready"
    BY <1>2, ReadyIsSnapshot DEF StoreInv, TypeOK, LiveSnapshotIsValid, Paths
  <2>2. dest = Other(active)
    BY <1>1, <1>2 DEF Destination
  <2>3. disk[dest].sequence = SequenceAfter(disk[active].sequence)
    BY <1>1, <1>2 DEF NextSequence, StoreInv, LiveSnapshotIsValid, HeaderOf
  <2>4. disk[active].sequence \in Sequences
    BY <2>1 DEF Snapshots
  <2>5. /\ SequenceIsNewer(disk[dest].sequence, disk[active].sequence)
        /\ ~ SequenceIsNewer(disk[active].sequence, disk[dest].sequence)
    BY <2>3, <2>4, SequenceAfterIsNewer
  <2>6. ClassifyPair(disk, {}, "A", "B") = "Ready"
    BY <1>1, <2>1, <2>2, UnfaultyRead DEF ClassifyPair, Classify, Slots, Other
  <2>7. InspectAt(disk, {}, dest) = "Ready" /\ InspectAt(disk, {}, active) = "Ready"
    BY <1>1, <2>1, UnfaultyRead
  <2>8. Newest(disk, {}, "A", "B") = dest
    <3>1. CASE active = "A" /\ dest = "B"
      BY <2>5, <2>7, <3>1 DEF Newest
    <3>2. CASE active = "B" /\ dest = "A"
      BY <2>5, <2>7, <3>2 DEF Newest
    <3> QED
      BY <2>1, <2>2, <3>1, <3>2 DEF Slots, Other
  <2> QED
    BY <2>6, <2>8
<1>3. CASE ~ ready
  <2>1. dest = "A" /\ disk["B"] = Missing
    BY <1>1, <1>3 DEF Destination, StoreInv, FirstWriteOK
  <2>2. InspectAt(disk, {}, "A") = "Ready" /\ InspectAt(disk, {}, "B") = "Missing"
    BY <1>1, <2>1, UnfaultyRead DEF Inspect
  <2> QED
    BY <2>1, <2>2 DEF ClassifyPair, Classify, Newest
<1> QED
  BY <1>2, <1>3

LEMMA StepKeepsInvariant == StoreInv /\ [Next]_vars => StoreInv'
<1> SUFFICES ASSUME StoreInv, [Next]_vars PROVE StoreInv'
  OBVIOUS
<1>types. TypeOK /\ OutcomeOK
  BY DEF StoreInv
<1>disk. disk \in [Paths -> Files]
  BY <1>types DEF TypeOK
<1>1. CASE BeginNoDirectory
  BY <1>1, <1>types, <1>disk, BeginWithoutKeepsInvariant DEF BeginNoDirectory, BeginCalled, BeginWithout
<1>2. CASE BeginCurrent
  <2>1. PICK unreadable \in UnreadableSets :
           LET result == ClassifyPair(disk, unreadable, "A", "B") IN
           /\ result # "Empty"
           /\ IF result = "Ready" THEN BeginReady(Newest(disk, unreadable, "A", "B"))
                                  ELSE BeginWithout(result)
    BY <1>2 DEF BeginCurrent
  <2>2. CASE ClassifyPair(disk, unreadable, "A", "B") = "Ready"
    <3>1. /\ Newest(disk, unreadable, "A", "B") \in Slots
          /\ Inspect(disk[Newest(disk, unreadable, "A", "B")]) = "Ready"
      BY <2>2, NewestIsReady DEF Slots
    <3> QED
      BY <1>2, <1>types, <2>1, <2>2, <3>1, BeginReadyKeepsInvariant DEF BeginCurrent, BeginCalled
  <2>3. CASE ClassifyPair(disk, unreadable, "A", "B") # "Ready"
    <3>1. ~ ready /\ pc' = "idle" /\ UNCHANGED <<disk, job, outcome>>
      BY <1>2 DEF BeginCurrent, BeginCalled
    <3>2. ready' = FALSE /\ writable' = FALSE /\ active' = "B" /\ header' = NoHeader
      BY <2>1, <2>3 DEF BeginWithout
    <3> QED
      BY <1>types, <1>disk, <3>1, <3>2, BeginWithoutKeepsInvariant
  <2> QED
    BY <2>2, <2>3
<1>3. CASE BeginNoMigration
  <2>1. disk["B"] = Missing
    BY <1>3, EmptyMeansMissing DEF BeginNoMigration
  <2>2. PICK unreadable \in UnreadableSets :
           BeginWithout(ClassifyPair(disk, unreadable, "LegacyA", "LegacyB"))
    BY <1>3 DEF BeginNoMigration
  <2>3. ~ ready /\ pc' = "idle" /\ UNCHANGED <<disk, job, outcome>>
    BY <1>3 DEF BeginNoMigration, BeginCalled
  <2>4. ready' = FALSE /\ writable' \in BOOLEAN /\ active' = "B" /\ header' = NoHeader
    BY <2>2 DEF BeginWithout
  <2>5. disk' \in [Paths -> Files] /\ disk'["B"] = Missing
    BY <1>disk, <2>1, <2>3
  <2>6. ~ ready /\ pc' = "idle" /\ UNCHANGED <<job, outcome>>
    BY <2>3
  <2>7. SlotBMissing'
    BY <2>5 DEF SlotBMissing
  <2> QED
    BY <1>types, <2>4, <2>5, <2>6, <2>7, BeginEmptyKeepsInvariant
<1>4. CASE BeginMigrate
  <2>1. PICK unreadable \in UnreadableSets :
           LET from == Newest(disk, unreadable, "LegacyA", "LegacyB") IN
           /\ ClassifyPair(disk, unreadable, "LegacyA", "LegacyB") = "Ready"
           /\ \/ /\ disk' = [disk EXCEPT !["A"] = disk[from], ![from] = Missing]
                 /\ pc' = "migrating"
                 /\ BeginWithout("Migrating")
              \/ /\ BeginWithout("Corrupt")
                 /\ UNCHANGED <<disk, pc>>
    BY <1>4 DEF BeginMigrate
  <2> DEFINE from == Newest(disk, unreadable, "LegacyA", "LegacyB")
  <2>2. from \in LegacySlots
    BY <2>1, NewestIsReady DEF LegacySlots
  <2>3. CASE /\ disk' = [disk EXCEPT !["A"] = disk[from], ![from] = Missing]
             /\ pc' = "migrating"
             /\ BeginWithout("Migrating")
    <3>1. disk' \in [Paths -> Files] /\ disk'["B"] = disk["B"]
      BY <1>types, <2>2, <2>3 DEF TypeOK, Paths, LegacySlots, Slots, Files
    <3>2. SlotBMissing'
      BY <1>4, <3>1, EmptyMeansMissing DEF BeginMigrate, SlotBMissing
    <3> QED
      BY <1>4, <1>types, <2>3, <3>1, <3>2, BeginWithoutKeepsInvariant
         DEF BeginMigrate, BeginCalled, BeginWithout
  <2>4. CASE BeginWithout("Corrupt") /\ UNCHANGED <<disk, pc>>
    BY <1>4, <1>types, <1>disk, <2>4, BeginWithoutKeepsInvariant
       DEF BeginMigrate, BeginCalled, BeginWithout
  <2> QED
    BY <2>1, <2>3, <2>4
<1>5. CASE VerifyMigration
  <2>1. ~ ready
    BY <1>5 DEF VerifyMigration, StoreInv, MigrationOK
  <2>2. CASE BeginWithout("Corrupt")
    BY <1>5, <1>types, <1>disk, <2>1, <2>2, BeginWithoutKeepsInvariant DEF VerifyMigration, BeginWithout
  <2>3. CASE BeginReady("A") /\ Inspect(disk["A"]) = "Ready"
    BY <1>5, <1>types, <2>1, <2>3, BeginReadyKeepsInvariant DEF VerifyMigration, Slots
  <2> QED
    BY <1>5, <2>2, <2>3 DEF VerifyMigration, InspectAt
<1>6. CASE Refuse
  BY <1>6, <1>types, FailKeepsInvariant DEF Refuse, TypeOK
<1>7. ASSUME NEW state \in States, NEW mutation \in Mutations, NEW discard \in BOOLEAN,
             OpenDestination(state, mutation, discard)
      PROVE  StoreInv'
  <2>1. ready => header.sequence \in Sequences /\ disk[active] \in Snapshots
    <3> SUFFICES ASSUME ready PROVE header.sequence \in Sequences /\ disk[active] \in Snapshots
      OBVIOUS
    <3>1. disk[active] \in Snapshots
      BY ReadyIsSnapshot DEF StoreInv, TypeOK, LiveSnapshotIsValid, Paths
    <3> QED
      BY <3>1 DEF StoreInv, LiveSnapshotIsValid, HeaderOf, Snapshots
  <2>2. Accepted(mutation, discard) /\ job' = JobFor(state, mutation, discard)
    BY <1>7 DEF OpenDestination
  <2>3. job' \in Jobs /\ job'.destination = Destination /\ job'.snapshot.sequence = NextSequence
    BY <1>types, <2>1, <2>2, JobType DEF JobFor
  <2>4. disk' = [disk EXCEPT ![Destination] = Torn]
    BY <1>7, <2>3 DEF OpenDestination
  <2>5. Destination \in Slots /\ (ready => Destination # active) /\ (~ ready => Destination = "A")
    BY <1>types, OtherSlot DEF TypeOK, Destination, Slots
  <2>6. TypeOK'
    BY <1>7, <1>types, <2>3, <2>4 DEF TypeOK, OpenDestination, live, Phases, Files, Paths
  <2>7. LiveSnapshotIsValid' /\ FirstWriteOK'
    BY <1>7, <1>types, <2>4, <2>5
       DEF StoreInv, TypeOK, LiveSnapshotIsValid, FirstWriteOK, OpenDestination, live, Paths, Slots
  <2>8. JobOK'
    <3>1. Destination' = Destination /\ NextSequence' = NextSequence /\ writable'
      BY <1>7, <2>2 DEF OpenDestination, live, Destination, NextSequence, Accepted
    <3>2. disk'[job'.destination] = Torn
      BY <1>types, <2>3, <2>4, <2>5 DEF TypeOK, Paths
    <3> QED
      BY <1>7, <2>3, <3>1, <3>2 DEF JobOK, OpenDestination
  <2> QED
    BY <1>7, <2>2, <2>6, <2>7, <2>8
       DEF StoreInv, OpenDestination, live, AcknowledgedWriteWinsNextStart, OutcomeOK, MigrationOK
<1>8. CASE Commit
  BY <1>7, <1>8 DEF Commit
<1>9. CASE Reset
  <2>1. EmptyState \in States /\ NoMutation \in Mutations
    BY DEF EmptyState, States, NoMutation, Mutations
  <2> QED
    BY <1>7, <1>9, <2>1 DEF Reset
<1>10. CASE Stream
  BY <1>10 DEF Stream, StoreInv, TypeOK, Phases, live, LiveSnapshotIsValid,
     AcknowledgedWriteWinsNextStart, OutcomeOK, FirstWriteOK, JobOK, MigrationOK, Writing,
     Destination, NextSequence
<1>11. CASE StreamFails
  BY <1>11, <1>types, FailKeepsInvariant DEF StreamFails, TypeOK
<1>dest. ASSUME pc \in {"written", "verifying"}, NEW file \in {Torn, job.snapshot}
         PROVE  /\ WithDestination(file) \in [Paths -> Files]
                /\ WithDestination(file)[job.destination] = file
                /\ ready => WithDestination(file)[active] = disk[active]
                /\ ~ ready => WithDestination(file)["B"] = disk["B"]
  <2>1. job \in Jobs /\ job.destination = Destination
    BY <1>dest DEF StoreInv, JobOK, Writing
  <2>2. Destination \in Slots /\ (ready => Destination # active) /\ (~ ready => Destination = "A")
    BY <1>types, OtherSlot DEF TypeOK, Destination, Slots
  <2>3. file \in Files
    BY <1>dest, <2>1 DEF Jobs, Files
  <2> QED
    BY <1>types, <2>1, <2>2, <2>3 DEF WithDestination, TypeOK, Paths, Slots
<1>12. CASE SyncAndClose
  <2>1. disk' = WithDestination(job.snapshot) /\ pc = "written"
    BY <1>12 DEF SyncAndClose
  <2>2. TypeOK' /\ disk'[job.destination] = job.snapshot /\ LiveSnapshotIsValid' /\ FirstWriteOK'
    BY <1>12, <2>1, <1>dest DEF SyncAndClose, StoreInv, TypeOK, LiveSnapshotIsValid, FirstWriteOK,
       live, Phases
  <2> QED
    BY <1>12, <2>2 DEF SyncAndClose, StoreInv, live, AcknowledgedWriteWinsNextStart,
       OutcomeOK, JobOK, MigrationOK, Writing, Destination, NextSequence
<1>13. CASE SyncFails
  <2>1. PICK file \in {Torn, job.snapshot} : disk' = WithDestination(file)
    BY <1>13 DEF SyncFails
  <2> QED
    BY <1>13, <1>dest, <2>1, FailKeepsInvariant DEF SyncFails
<1>14. CASE Verify
  <2>1. job \in Jobs /\ disk[job.destination] = job.snapshot /\ writable
    BY <1>14 DEF Verify, StoreInv, JobOK, Writing
  <2>2. HeaderOf(job.snapshot) \in [sequence : Sequences \cup {0}, recordCount : Nat]
    BY <2>1, HeaderType DEF Jobs
  <2>3. TypeOK'
    BY <1>14, <1>types, <2>1, <2>2 DEF Verify, TypeOK, Phases, Jobs
  <2>4. AcknowledgedWriteWinsNextStart'
    BY <1>14, VerifiedSlotWins DEF Verify, AcknowledgedWriteWinsNextStart, ClassifyPair, Classify,
       Newest, InspectAt
  <2>5. LiveSnapshotIsValid'
    BY <1>14, <2>1 DEF Verify, LiveSnapshotIsValid
  <2> QED
    BY <1>14, <2>1, <2>3, <2>4, <2>5 DEF Verify, StoreInv, OutcomeOK, FirstWriteOK, JobOK,
       MigrationOK, Writing
<1>15. CASE VerifyFails
  BY <1>15, <1>types, FailKeepsInvariant DEF VerifyFails, TypeOK
<1>16. CASE PowerLoss
  <2>1. disk' \in [Paths -> Files]
    BY <1>16, <1>types, <1>dest DEF PowerLoss, DisksAfterPowerLoss, TypeOK
  <2>2. TypeOK'
    BY <1>16, <1>types, <2>1 DEF PowerLoss, TypeOK, Phases, Slots, NoHeader
  <2> QED
    BY <1>16, <2>2 DEF PowerLoss, StoreInv, LiveSnapshotIsValid, AcknowledgedWriteWinsNextStart,
       OutcomeOK, FirstWriteOK, JobOK, MigrationOK, Writing
<1>17. CASE UNCHANGED vars
  BY <1>17 DEF vars, StoreInv, TypeOK, LiveSnapshotIsValid, AcknowledgedWriteWinsNextStart,
     OutcomeOK, FirstWriteOK, JobOK, MigrationOK, Writing, Destination, NextSequence
<1> QED
  BY <1>1, <1>2, <1>3, <1>4, <1>5, <1>6, <1>8, <1>9, <1>10, <1>11, <1>12, <1>13, <1>14, <1>15,
     <1>16, <1>17 DEF Next

---------------------------------------------------------------------------------
(* Theorems                                                                      *)

\* The inductive invariant holds in every behaviour.
THEOREM StoreInvariant == Spec => []StoreInv
<1>1. Init => StoreInv
  BY InitialInvariant
<1>2. StoreInv /\ [Next]_vars => StoreInv'
  BY StepKeepsInvariant
<1> QED
  BY <1>1, <1>2, PTL DEF Spec

\* Every variable of the store and every file of the card keeps its type.
THEOREM StoreTypeCorrect == Spec => []TypeOK
<1>1. StoreInv => TypeOK
  BY DEF StoreInv
<1> QED
  BY <1>1, StoreInvariant, PTL

\* A ready store always reads a valid snapshot whose header it holds.
THEOREM StoreReadsAValidSnapshot == Spec => []LiveSnapshotIsValid
<1>1. StoreInv => LiveSnapshotIsValid
  BY DEF StoreInv
<1> QED
  BY <1>1, StoreInvariant, PTL

\* What commit() or reset() acknowledged is what the next start selects.
THEOREM AcknowledgedWriteIsDurable == Spec => []AcknowledgedWriteWinsNextStart
<1>1. StoreInv => AcknowledgedWriteWinsNextStart
  BY DEF StoreInv
<1> QED
  BY <1>1, StoreInvariant, PTL

\* No step writes the slot the live store reads.
THEOREM StoreNeverWritesItsLiveSlot == Spec => LiveSlotIsNeverWritten
<1>1. StoreInv /\ [Next]_vars => [ready => disk'[active] = disk[active]]_vars
  <2> SUFFICES ASSUME StoreInv, Next, ready PROVE disk'[active] = disk[active]
    BY DEF vars
  <2> USE DEF live
  <2>1. active \in Slots /\ Other(active) \in Slots /\ Other(active) # active
    BY OtherSlot DEF StoreInv, TypeOK
  <2>2. disk \in [Paths -> Files] /\ Slots \subseteq Paths
    BY DEF StoreInv, TypeOK, Paths
  <2>3. ASSUME NEW state \in States, NEW mutation \in Mutations, NEW discard \in BOOLEAN,
               OpenDestination(state, mutation, discard)
        PROVE  disk'[active] = disk[active]
    BY <2>1, <2>2, <2>3 DEF OpenDestination, JobFor, Destination
  <2>4. ASSUME Writing, NEW file PROVE WithDestination(file)[active] = disk[active]
    BY <2>1, <2>2, <2>4 DEF StoreInv, JobOK, WithDestination, Destination
  <2>5. CASE Commit
    BY <2>3, <2>5 DEF Commit
  <2>6. CASE Reset
    <3>1. EmptyState \in States /\ NoMutation \in Mutations
      BY DEF EmptyState, States, NoMutation, Mutations
    <3> QED
      BY <2>3, <2>6, <3>1 DEF Reset
  <2>7. CASE SyncAndClose \/ SyncFails
    BY <2>4, <2>7 DEF SyncAndClose, SyncFails, Writing
  <2>8. CASE PowerLoss
    BY <2>4, <2>8 DEF PowerLoss, DisksAfterPowerLoss, Writing
  <2>9. CASE Refuse \/ Stream \/ StreamFails \/ Verify \/ VerifyFails
    BY <2>9 DEF Refuse, Stream, StreamFails, Verify, VerifyFails
  <2>10. ~ (BeginNoDirectory \/ BeginCurrent \/ BeginNoMigration \/ BeginMigrate \/ VerifyMigration)
    BY DEF BeginNoDirectory, BeginCurrent, BeginNoMigration, BeginMigrate, VerifyMigration,
       BeginCalled, StoreInv, MigrationOK
  <2> QED
    BY <2>5, <2>6, <2>7, <2>8, <2>9, <2>10 DEF Next
<1> QED
  BY <1>1, StoreInvariant, PTL DEF Spec, LiveSlotIsNeverWritten

---------------------------------------------------------------------------------
(* The store implements DurableSave                                              *)

Contents == [kind : {"Ready"}, state : States, roster : Rosters]
Recover == {BootValue(d) : d \in DisksAfterPowerLoss}
Leftovers(v) == {LiveValue, v} \cup (IF LiveValue = Nothing("Empty") THEN {Nothing("Corrupt")} ELSE {})

Attempted == /\ LiveValue \in Contents \cup {Nothing("Empty")}
             /\ \E v \in Contents : Recover' \subseteq Leftovers(v)
             /\ Recover' # {} /\ LiveValue' = LiveValue
Acknowledged == /\ LiveValue \in Contents \cup {Nothing("Empty")}
                /\ LiveValue' \in Contents /\ Recover' = {LiveValue'}
Restarted == LiveValue' \in Recover /\ Recover' = {LiveValue'}
Quiet == LiveValue' = LiveValue /\ Recover' = Recover

\* These four are the steps DurableSave allows.
LEMMA SaveStepMaps ==
    Attempted \/ Acknowledged \/ Restarted \/ Quiet => [Save!Next]_<<LiveValue, Recover>>
<1>1. ASSUME Attempted PROVE \E v \in Contents : Save!Attempt(v)
  <2>1. PICK v \in Contents : Recover' \subseteq Leftovers(v)
    BY <1>1 DEF Attempted
  <2>2. Save!Leftovers(v) = Leftovers(v)
    BY DEF Save!Leftovers, Leftovers
  <2>3. Recover' \in (SUBSET Save!Leftovers(v)) \ {{}}
    BY <1>1, <2>1, <2>2 DEF Attempted
  <2>4. Save!Writable /\ LiveValue' = LiveValue
    BY <1>1 DEF Attempted, Save!Writable, Contents
  <2>5. Save!Attempt(v)
    BY <2>3, <2>4 DEF Save!Attempt, Recover
  <2> QED
    BY <2>5
<1>2. Acknowledged => Save!Acknowledge(LiveValue') /\ LiveValue' \in Contents
  BY DEF Acknowledged, Contents, Recover, Save!Acknowledge, Save!Writable
<1>3. Restarted => Save!Restart
  BY DEF Restarted, Recover, Save!Restart
<1> QED
  BY <1>1, <1>2, <1>3 DEF Quiet, Save!Next, Contents

\* What a start may find: the card as it is or, before the sync, as it will be.
LEMMA RecoverIs ==
    /\ pc # "written" => Recover = {BootValue(disk)}
    /\ pc = "written" => Recover = {BootValue(disk), BootValue(WithDestination(job.snapshot))}
BY DEF Recover, DisksAfterPowerLoss

LEMMA RecoverIsNext ==
    /\ pc' # "written" => Recover' = {BootValue(disk')}
    /\ pc' = "written" => Recover' = {BootValue(disk'), BootValue(WithDestination(job.snapshot)')}
BY DEF Recover, DisksAfterPowerLoss

LEMMA InspectFacts ==
    /\ Inspect(Torn) = "Corrupt" /\ Inspect(Missing) = "Missing"
    /\ \A f \in Snapshots : Inspect(f) \in {"Ready", "Corrupt"}
BY DEF Inspect, Sound, Snapshots, Torn, Missing, Foreign

\* A start reads the only valid slot of a pair without newer formats.
LEMMA OnlyValidSlotIsRead ==
    ASSUME NEW d, NEW s \in Slots, Inspect(d[s]) = "Ready",
           Inspect(d[Other(s)]) \in {"Corrupt", "Missing"}
    PROVE  BootValue(d) = Content(d[s])
<1>1. CASE s = "A"
  BY <1>1, UnfaultyRead DEF BootValue, ClassifyPair, Classify, Newest, Other
<1>2. CASE s = "B"
  BY <1>2, UnfaultyRead DEF BootValue, ClassifyPair, Classify, Newest, Other
<1> QED
  BY <1>1, <1>2 DEF Slots

\* Of two valid slots, a start reads the newer one.
LEMMA NewerSlotIsRead ==
    ASSUME NEW d, NEW s \in Slots, Inspect(d[s]) = "Ready", Inspect(d[Other(s)]) = "Ready",
           SequenceIsNewer(d[s].sequence, d[Other(s)].sequence),
           ~ SequenceIsNewer(d[Other(s)].sequence, d[s].sequence)
    PROVE  BootValue(d) = Content(d[s])
<1>1. CASE s = "A"
  BY <1>1, UnfaultyRead DEF BootValue, ClassifyPair, Classify, Newest, Other
<1>2. CASE s = "B"
  BY <1>2, UnfaultyRead DEF BootValue, ClassifyPair, Classify, Newest, Other
<1> QED
  BY <1>1, <1>2 DEF Slots

LEMMA ContentType == ASSUME NEW f \in Snapshots PROVE Content(f) \in Contents
BY DEF Content, Contents, Snapshots

\* A writable store sees a valid content or an empty card.
LEMMA WritableValue ==
    ASSUME StoreInv, writable
    PROVE  LiveValue \in Contents \cup {Nothing("Empty")}
<1>1. ready => disk[active] \in Snapshots
  BY ReadyIsSnapshot DEF StoreInv, TypeOK, LiveSnapshotIsValid, Paths
<1> QED
  BY <1>1, ContentType DEF LiveValue

\* Whatever a write leaves in its destination, torn or whole, a start finds the
\* old content or the new one; or, without an old one, a save that is corrupt.
LEMMA BootAfterWrite ==
    ASSUME StoreInv, writable, NEW snapshot \in Snapshots, snapshot.sequence = NextSequence,
           NEW d, d[Destination] \in {Torn, snapshot},
           ready => d[active] = disk[active],
           ~ ready => d["B"] = Missing
    PROVE  BootValue(d) \in Leftovers(Content(snapshot))
<1> DEFINE file == d[Destination]
<1>1. Inspect(file) \in {"Ready", "Corrupt"} /\ (Inspect(file) = "Ready" => file = snapshot)
  BY InspectFacts
<1>2. CASE ready
  <2>1. active \in Slots /\ Inspect(d[active]) = "Ready" /\ LiveValue = Content(d[active])
    BY <1>2 DEF StoreInv, TypeOK, LiveSnapshotIsValid, LiveValue
  <2>2. Destination \in Slots /\ Destination = Other(active) /\ Other(Destination) = active
    BY <1>2, <2>1, OtherSlot DEF Destination
  <2>3. CASE Inspect(file) = "Ready"
    <3>1. disk[active].sequence \in Sequences
      BY <1>2, ReadyIsSnapshot DEF StoreInv, TypeOK, LiveSnapshotIsValid, Paths, Snapshots
    <3>2. file.sequence = SequenceAfter(d[active].sequence)
      BY <1>1, <1>2, <2>3 DEF NextSequence, StoreInv, LiveSnapshotIsValid, HeaderOf
    <3>3. /\ SequenceIsNewer(file.sequence, d[active].sequence)
          /\ ~ SequenceIsNewer(d[active].sequence, file.sequence)
      BY <1>2, <3>1, <3>2, SequenceAfterIsNewer
    <3>4. BootValue(d) = Content(file)
      BY <2>1, <2>2, <2>3, <3>3, NewerSlotIsRead
    <3> QED
      BY <1>1, <2>3, <3>4 DEF Leftovers
  <2>4. CASE Inspect(file) = "Corrupt"
    <3>1. BootValue(d) = Content(d[active])
      BY <2>1, <2>2, <2>4, OnlyValidSlotIsRead
    <3> QED
      BY <2>1, <3>1 DEF Leftovers
  <2> QED
    BY <1>1, <2>3, <2>4
<1>3. CASE ~ ready
  <2>1. Destination = "A" /\ Inspect(d["B"]) = "Missing" /\ LiveValue = Nothing("Empty")
    BY <1>3, InspectFacts DEF Destination, LiveValue
  <2>2. CASE Inspect(file) = "Ready"
    <3>1. BootValue(d) = Content(file)
      BY <2>1, <2>2, OnlyValidSlotIsRead DEF Slots, Other
    <3> QED
      BY <1>1, <2>2, <3>1 DEF Leftovers
  <2>3. CASE Inspect(file) = "Corrupt"
    <3>1. ClassifyPair(d, {}, "A", "B") = "Corrupt"
      BY <2>1, <2>3, UnfaultyRead DEF ClassifyPair, Classify
    <3>2. BootValue(d) = Nothing("Corrupt")
      BY <3>1 DEF BootValue
    <3> QED
      BY <2>1, <3>2 DEF Leftovers
  <2> QED
    BY <1>1, <2>2, <2>3
<1> QED
  BY <1>2, <1>3

\* The cards a running write may leave.
Left(d, snapshot) ==
    /\ d[Destination] \in {Torn, snapshot}
    /\ ready => d[active] = disk[active]
    /\ ~ ready => d["B"] = Missing

\* A step of a write that leaves the live slot alone is an attempt.
LEMMA WriteStepMaps ==
    ASSUME StoreInv, writable, UNCHANGED live, NEW snapshot \in Snapshots,
           snapshot.sequence = NextSequence, Recover' # {},
           \A b \in Recover' : \E d : b = BootValue(d) /\ Left(d, snapshot),
           ready => disk'[active] = disk[active]
    PROVE  Attempted
<1>1. Recover' \subseteq Leftovers(Content(snapshot)) /\ Recover' # {}
  BY BootAfterWrite DEF Left
<1>2. LiveValue' = LiveValue
  BY DEF live, LiveValue
<1> QED
  BY <1>1, <1>2, WritableValue, ContentType DEF Attempted

\* A start that read the card maps to a restart.
LEMMA BeginStepMaps ==
    ASSUME pc # "written", pc' # "written", BootValue(disk') = BootValue(disk),
           LiveValue' = BootValue(disk')
    PROVE  Restarted
BY RecoverIs, RecoverIsNext DEF Restarted

LEMMA BeginWithoutMaps ==
    ASSUME NEW result, BeginWithout(result), result = "Empty" => BootValue(disk') = Nothing("Empty")
    PROVE  LiveValue' = BootValue(disk')
BY DEF BeginWithout, LiveValue

\* Every step of begin().
LEMMA BeginMaps ==
    ASSUME ~ ReadFaults, StoreInv,
           BeginNoDirectory \/ BeginCurrent \/ BeginNoMigration \/ BeginMigrate \/ VerifyMigration
    PROVE  Restarted
<1>1. UnreadableSets = {{}}
  BY DataAssumption DEF UnreadableSets
<1>2. CASE BeginNoDirectory
  BY <1>2, BeginWithoutMaps, BeginStepMaps DEF BeginNoDirectory, BeginCalled
<1>3. CASE BeginCurrent
  <2> DEFINE result == ClassifyPair(disk, {}, "A", "B")
             newest == Newest(disk, {}, "A", "B")
  <2>1. /\ result # "Empty" /\ pc = "idle" /\ UNCHANGED <<disk, pc>>
        /\ IF result = "Ready" THEN BeginReady(newest) ELSE BeginWithout(result)
    BY <1>1, <1>3 DEF BeginCurrent, BeginCalled
  <2>2. CASE result = "Ready"
    <3>1. LiveValue' = Content(disk[newest])
      BY <2>1, <2>2 DEF BeginReady, LiveValue
    <3>2. BootValue(disk) = Content(disk[newest])
      BY <2>2 DEF BootValue
    <3> QED
      BY <2>1, <3>1, <3>2, BeginStepMaps
  <2>3. CASE result # "Ready"
    BY <2>1, <2>3, BeginWithoutMaps, BeginStepMaps
  <2> QED
    BY <2>2, <2>3
<1>4. CASE BeginNoMigration
  <2> DEFINE result == ClassifyPair(disk, {}, "LegacyA", "LegacyB")
  <2>1. /\ ClassifyPair(disk, {}, "A", "B") = "Empty" /\ pc = "idle" /\ UNCHANGED <<disk, pc>>
        /\ result # "Ready" /\ BeginWithout(result)
    BY <1>1, <1>4 DEF BeginNoMigration, BeginCalled
  <2>2. BootValue(disk) = Nothing(result)
    BY <2>1 DEF BootValue
  <2> QED
    BY <2>1, <2>2, BeginWithoutMaps, BeginStepMaps
<1>5. CASE BeginMigrate
  <2> DEFINE from == Newest(disk, {}, "LegacyA", "LegacyB")
  <2>1. /\ ClassifyPair(disk, {}, "A", "B") = "Empty" /\ pc = "idle"
        /\ ClassifyPair(disk, {}, "LegacyA", "LegacyB") = "Ready"
        /\ \/ /\ disk' = [disk EXCEPT !["A"] = disk[from], ![from] = Missing]
              /\ pc' = "migrating"
              /\ BeginWithout("Migrating")
           \/ /\ BeginWithout("Corrupt")
              /\ UNCHANGED <<disk, pc>>
    BY <1>1, <1>5 DEF BeginMigrate, BeginCalled
  <2>2. BootValue(disk) = Content(disk[from]) /\ Inspect(disk[from]) = "Ready" /\ from \in LegacySlots
    BY <2>1, NewestIsReady DEF BootValue, LegacySlots
  <2>3. CASE disk' = [disk EXCEPT !["A"] = disk[from], ![from] = Missing]
             /\ pc' = "migrating" /\ BeginWithout("Migrating")
    <3>1. disk'["A"] = disk[from] /\ disk'["B"] = Missing
      BY <2>1, <2>2, <2>3, EmptyMeansMissing DEF StoreInv, TypeOK, Paths, Slots, LegacySlots
    <3>2. BootValue(disk') = Content(disk[from])
      BY <2>2, <3>1, OnlyValidSlotIsRead, InspectFacts DEF Slots, Other
    <3> QED
      BY <2>1, <2>2, <2>3, <3>2, BeginWithoutMaps, BeginStepMaps
  <2>4. CASE BeginWithout("Corrupt") /\ UNCHANGED <<disk, pc>>
    BY <2>1, <2>4, BeginWithoutMaps, BeginStepMaps
  <2> QED
    BY <2>1, <2>3, <2>4
<1>6. CASE VerifyMigration
  <2>1. /\ pc = "migrating" /\ pc' = "idle" /\ disk' = disk /\ disk["B"] = Missing
        /\ IF Inspect(disk["A"]) = "Ready" THEN BeginReady("A") ELSE BeginWithout("Corrupt")
    BY <1>1, <1>6, UnfaultyRead DEF VerifyMigration, StoreInv, MigrationOK
  <2>2. CASE Inspect(disk["A"]) = "Ready"
    <3>1. BootValue(disk) = Content(disk["A"])
      BY <2>1, <2>2, OnlyValidSlotIsRead, InspectFacts DEF Slots, Other
    <3>2. LiveValue' = Content(disk["A"])
      BY <2>1, <2>2 DEF BeginReady, LiveValue
    <3> QED
      BY <2>1, <3>1, <3>2, BeginStepMaps
  <2>3. CASE Inspect(disk["A"]) # "Ready"
    BY <2>1, <2>3, BeginWithoutMaps, BeginStepMaps
  <2> QED
    BY <2>2, <2>3
<1> QED
  BY <1>2, <1>3, <1>4, <1>5, <1>6

LEMMA WriteFacts ==
    ASSUME StoreInv, Writing
    PROVE  /\ writable /\ job.snapshot \in Snapshots /\ job.snapshot.sequence = NextSequence
           /\ Left(disk, job.snapshot)
           /\ \A file \in {Torn, job.snapshot} : Left(WithDestination(file), job.snapshot)
<1>1. /\ writable /\ job \in Jobs /\ job.destination = Destination
      /\ job.snapshot.sequence = NextSequence /\ disk[Destination] \in {Torn, job.snapshot}
  BY DEF StoreInv, JobOK
<1>2. disk \in [Paths -> Files] /\ (~ ready => disk["B"] = Missing)
  BY <1>1 DEF StoreInv, TypeOK, FirstWriteOK
<1>3. Destination \in Slots /\ (ready => Destination # active) /\ (~ ready => Destination = "A")
  BY OtherSlot DEF StoreInv, TypeOK, Destination, Slots
<1>4. ASSUME NEW file \in {Torn, job.snapshot} PROVE Left(WithDestination(file), job.snapshot)
  <2>1. WithDestination(file) = [disk EXCEPT ![Destination] = file]
    BY <1>1 DEF WithDestination
  <2>2. \A p \in Paths : WithDestination(file)[p] = IF p = Destination THEN file ELSE disk[p]
    BY <1>2, <2>1
  <2>3. Slots \subseteq Paths /\ "B" \in Slots /\ active \in Slots
    BY DEF Paths, Slots, StoreInv, TypeOK
  <2> QED
    BY <1>2, <1>3, <2>2, <2>3 DEF Left
<1> QED
  BY <1>1, <1>2, <1>4 DEF Left, Jobs

\* A failed or unfinished step of a running write.
LEMMA WritingMaps ==
    ASSUME StoreInv, Writing, UNCHANGED <<job, live>>, ready => disk'[active] = disk[active],
           Left(disk', job.snapshot),
           pc' = "written" => Left(WithDestination(job.snapshot)', job.snapshot)
    PROVE  Attempted
<1>1. CASE pc' # "written"
  <2>1. Recover' = {BootValue(disk')}
    BY <1>1, RecoverIsNext
  <2> QED
    BY <2>1, WriteFacts, WriteStepMaps
<1>2. CASE pc' = "written"
  <2>1. Recover' = {BootValue(disk'), BootValue(WithDestination(job.snapshot)')}
    BY <1>2, RecoverIsNext
  <2> QED
    BY <1>2, <2>1, WriteFacts, WriteStepMaps
<1> QED
  BY <1>1, <1>2

LEMMA OpenMaps ==
    ASSUME StoreInv, StoreInv', NEW state \in States, NEW mutation \in Mutations, NEW discard \in BOOLEAN,
           OpenDestination(state, mutation, discard)
    PROVE  Attempted
<1>1. /\ writable /\ UNCHANGED live /\ pc' = "streaming" /\ job'.destination = Destination
      /\ disk' = [disk EXCEPT ![Destination] = Torn]
  BY DEF OpenDestination, Accepted, JobFor
<1>2. job'.snapshot \in Snapshots /\ job'.snapshot.sequence = NextSequence
  <2>1. job' \in Jobs
    BY <1>1 DEF StoreInv, JobOK, Writing
  <2> QED
    BY <2>1 DEF Jobs, OpenDestination, JobFor
<1>3. disk \in [Paths -> Files] /\ (~ ready => disk["B"] = Missing)
  BY <1>1 DEF StoreInv, TypeOK, FirstWriteOK
<1>4. Destination \in Slots /\ (ready => Destination # active) /\ (~ ready => Destination = "A")
  BY OtherSlot DEF StoreInv, TypeOK, Destination, Slots
<1>5. Slots \subseteq Paths /\ "B" \in Slots /\ active \in Slots
  BY DEF Paths, Slots, StoreInv, TypeOK
<1>6. /\ disk'[Destination] = Torn
      /\ ready => disk'[active] = disk[active]
      /\ ~ ready => disk'["B"] = Missing
  BY <1>1, <1>3, <1>4, <1>5
<1>7. Recover' = {BootValue(disk')} /\ Left(disk', job'.snapshot)
  BY <1>1, <1>6, RecoverIsNext DEF Left
<1> QED
  BY <1>1, <1>2, <1>6, <1>7, WriteStepMaps

\* The switch to the verified slot acknowledges its content.
LEMMA VerifyMaps ==
    ASSUME StoreInv, Verify
    PROVE  Acknowledged
<1>1. /\ ClassifyPair(disk, {}, "A", "B") = "Ready"
      /\ Newest(disk, {}, "A", "B") = job.destination
  BY VerifiedSlotWins
<1>2. writable /\ job.snapshot \in Snapshots /\ disk[job.destination] = job.snapshot
  BY WriteFacts DEF Verify, Writing, StoreInv, JobOK
<1>3. LiveValue' = Content(job.snapshot)
  BY <1>2 DEF Verify, LiveValue
<1>4. Recover' = {Content(job.snapshot)}
  BY <1>1, <1>2, RecoverIsNext DEF Verify, BootValue
<1> QED
  BY <1>2, <1>3, <1>4, WritableValue, ContentType DEF Acknowledged

\* A step that changes neither the card nor what is read of it.
LEMMA QuietMaps ==
    ASSUME UNCHANGED <<disk, live>>, pc # "written", pc' # "written"
    PROVE  Quiet
<1>1. LiveValue' = LiveValue
  BY DEF LiveValue, live
<1> QED
  BY <1>1, RecoverIs, RecoverIsNext DEF Quiet

LEMMA StepMaps ==
    ASSUME ~ ReadFaults, StoreInv, StoreInv', [Next]_vars
    PROVE  [Save!Next]_<<LiveValue, Recover>>
<1>1. CASE BeginNoDirectory \/ BeginCurrent \/ BeginNoMigration \/ BeginMigrate \/ VerifyMigration
  BY <1>1, BeginMaps, SaveStepMaps
<1>2. CASE Refuse
  BY <1>2, QuietMaps, SaveStepMaps DEF Refuse, Fail
<1>3. CASE Commit \/ Reset
  <2>1. EmptyState \in States /\ NoMutation \in Mutations
    BY DEF EmptyState, States, NoMutation, Mutations
  <2> QED
    BY <1>3, <2>1, OpenMaps, SaveStepMaps DEF Commit, Reset
<1>4. CASE Stream
  <2>1. Writing /\ UNCHANGED <<disk, job, live>> /\ WithDestination(job.snapshot)' = WithDestination(job.snapshot)
    BY <1>4 DEF Stream, Writing, WithDestination
  <2> QED
    BY <2>1, WriteFacts, WritingMaps, SaveStepMaps
<1>5. CASE StreamFails
  BY <1>5, WriteFacts, WritingMaps, SaveStepMaps DEF StreamFails, Fail, Writing
<1>6. CASE SyncAndClose
  <2>1. Writing /\ UNCHANGED <<job, live>> /\ pc' = "verifying" /\ disk' = WithDestination(job.snapshot)
    BY <1>6 DEF SyncAndClose, Writing
  <2>2. Left(disk', job.snapshot)
    BY <2>1, WriteFacts
  <2> QED
    BY <2>1, <2>2, WritingMaps, SaveStepMaps DEF Left
<1>7. CASE SyncFails
  <2>1. Writing /\ UNCHANGED <<job, live>> /\ pc' = "idle"
        /\ disk' \in {WithDestination(Torn), WithDestination(job.snapshot)}
    BY <1>7 DEF SyncFails, Fail, Writing
  <2>2. Left(disk', job.snapshot)
    BY <2>1, WriteFacts
  <2> QED
    BY <2>1, <2>2, WritingMaps, SaveStepMaps DEF Left
<1>8. CASE Verify
  BY <1>8, VerifyMaps, SaveStepMaps
<1>9. CASE VerifyFails
  BY <1>9, QuietMaps, SaveStepMaps DEF VerifyFails, Fail
<1>10. CASE PowerLoss
  <2>1. LiveValue' = BootValue(disk') /\ pc' = "idle" /\ disk' \in DisksAfterPowerLoss
    BY <1>10 DEF PowerLoss, LiveValue
  <2>2. Restarted
    BY <2>1, RecoverIsNext DEF Restarted, Recover
  <2> QED
    BY <2>2, SaveStepMaps
<1>11. CASE UNCHANGED vars
  <2>1. LiveValue' = LiveValue /\ Recover' = Recover
    BY <1>11 DEF vars, LiveValue, Recover, DisksAfterPowerLoss, WithDestination
  <2> QED
    BY <2>1
<1> QED
  BY <1>1, <1>2, <1>3, <1>4, <1>5, <1>6, <1>7, <1>8, <1>9, <1>10, <1>11 DEF Next

LEMMA InitMaps == ASSUME Init PROVE Save!Init
<1>1. Recover = {BootValue(disk)} /\ LiveValue = BootValue(disk)
  BY RecoverIs DEF Init, LiveValue
<1>2. \A p \in Paths : Inspect(disk[p]) = "Ready" => disk[p] \in Snapshots
  BY ReadyIsSnapshot, InitialInvariant DEF StoreInv, TypeOK
<1>3. BootValue(disk) \in Contents \cup {Nothing("Empty"), Nothing("Corrupt"), Nothing("Unsupported")}
  BY <1>2, NewestIsReady, ContentType DEF BootValue, ClassifyPair, Classify, Paths, Slots, LegacySlots
<1> QED
  BY <1>1, <1>3 DEF Save!Init, Save!Outcomes, Contents, Recover

\* The two files implement the atomic save: whatever step fails and wherever
\* the power goes, the program and the next start find an old or a new content.
THEOREM StoreImplementsDurableSave ==
    ASSUME ~ ReadFaults
    PROVE  Spec => ImplementsDurableSave
<1>1. StoreInv /\ StoreInv' /\ [Next]_vars => [Save!Next]_<<LiveValue, Recover>>
  BY StepMaps
<1>2. Init => Save!Init
  BY InitMaps
<1> QED
  BY <1>1, <1>2, StoreInvariant, PTL DEF Spec, ImplementsDurableSave, Save!Spec, Recover

\* An atomic save that was found once is found by every start: an attempt leaves
\* the old content or a new one, and only a first write may leave something else.
LEMMA AbstractSaveIsFound ==
    ASSUME Save!StartsFindASave, [Save!Next]_<<LiveValue, Recover>>
    PROVE  /\ Save!StartsFindASave'
           /\ LiveValue \in Contents => LiveValue' \in Contents
<1>1. LiveValue \in Contents => Recover \subseteq Contents
  BY DEF Save!StartsFindASave, Contents, Recover
<1>2. Nothing("Empty") \notin Contents
  BY DEF Nothing, Contents
<1>3. ASSUME NEW v \in Contents, Save!Attempt(v)
      PROVE  LiveValue' = LiveValue /\ (LiveValue \in Contents => Recover' \subseteq Contents)
  <2>1. LiveValue' = LiveValue /\ Recover' \subseteq Save!Leftovers(v)
    BY <1>3 DEF Save!Attempt, Recover
  <2> QED
    BY <1>2, <2>1 DEF Save!Leftovers
<1>4. ASSUME NEW v \in Contents, Save!Acknowledge(v)
      PROVE  LiveValue' \in Contents /\ Recover' \subseteq Contents
  BY <1>4 DEF Save!Acknowledge, Recover
<1>5. Save!Restart => LiveValue' \in Recover /\ Recover' = {LiveValue'}
  BY DEF Save!Restart, Recover
<1>6. /\ LiveValue \in Contents => LiveValue' \in Contents
      /\ LiveValue' \in Contents => Recover' \subseteq Contents
  <2>1. CASE \E v \in Contents : Save!Attempt(v)
    BY <1>3, <2>1
  <2>2. CASE \E v \in Contents : Save!Acknowledge(v)
    BY <1>4, <2>2
  <2>3. CASE Save!Restart
    BY <1>1, <1>5, <2>3
  <2>4. CASE UNCHANGED <<LiveValue, Recover>>
    BY <1>1, <2>4
  <2> QED
    BY <2>1, <2>2, <2>3, <2>4 DEF Save!Next, Contents
<1> QED
  BY <1>6 DEF Save!StartsFindASave, Contents, Recover

\* A player who has a save has one for ever: whatever write fails and wherever
\* the power goes, the program and every later start find a valid snapshot.
THEOREM ASaveIsNeverLost ==
    ASSUME ~ ReadFaults
    PROVE  Spec => []Save!StartsFindASave /\ Save!ASaveIsForever
<1>1. Save!Init => Save!StartsFindASave
  BY DEF Save!Init, Save!StartsFindASave
<1>2. Save!StartsFindASave /\ [Save!Next]_<<LiveValue, Recover>>
        => /\ Save!StartsFindASave'
           /\ [(LiveValue \in Contents) => (LiveValue' \in Contents)]_<<LiveValue, Recover>>
  BY AbstractSaveIsFound
<1>3. Save!Spec => []Save!StartsFindASave /\ Save!ASaveIsForever
  BY <1>1, <1>2, PTL DEF Save!Spec, Save!ASaveIsForever, Contents, Recover
<1> QED
  BY <1>3, StoreImplementsDurableSave, PTL DEF ImplementsDurableSave

---------------------------------------------------------------------------------
(* What a step may do to the card                                                *)

\* The newest legacy file moves to slot A of a card without current files.
Migrates(from) ==
    /\ from \in LegacySlots /\ Inspect(disk[from]) = "Ready"
    /\ disk["A"] = Missing /\ disk["B"] = Missing
    /\ disk' = [disk EXCEPT !["A"] = disk[from], ![from] = Missing]
    /\ disk'["A"] = disk[from] /\ disk'[from] = Missing
    /\ BootValue(disk') = BootValue(disk)

\* A write changes one file, which it may write.
Writes(file) ==
    /\ writable /\ writable' \in {writable, FALSE}
    /\ file \in {Torn} \cup Snapshots
    /\ disk' = [disk EXCEPT ![Destination] = file] /\ Destination \in Slots

LEMMA MigrationFacts ==
    ASSUME ~ ReadFaults, StoreInv, BeginMigrate, disk' # disk
    PROVE  \E from : Migrates(from)
<1> DEFINE from == Newest(disk, {}, "LegacyA", "LegacyB")
<1>1. /\ ClassifyPair(disk, {}, "A", "B") = "Empty"
      /\ ClassifyPair(disk, {}, "LegacyA", "LegacyB") = "Ready"
      /\ disk' = [disk EXCEPT !["A"] = disk[from], ![from] = Missing]
  BY DataAssumption DEF BeginMigrate, UnreadableSets
<1>2. BootValue(disk) = Content(disk[from]) /\ Inspect(disk[from]) = "Ready" /\ from \in LegacySlots
  BY <1>1, NewestIsReady DEF BootValue, LegacySlots
<1>3. /\ disk["A"] = Missing /\ disk["B"] = Missing
      /\ disk'["A"] = disk[from] /\ disk'["B"] = Missing /\ disk'[from] = Missing
  BY <1>1, <1>2, EmptyMeansMissing DEF StoreInv, TypeOK, Paths, Slots, LegacySlots
<1>4. BootValue(disk') = Content(disk[from])
  BY <1>2, <1>3, OnlyValidSlotIsRead, InspectFacts DEF Slots, Other
<1> QED
  BY <1>1, <1>2, <1>3, <1>4 DEF Migrates

\* The steps of a write change its destination, if anything.
LEMMA WriteChanges ==
    ASSUME StoreInv, StoreInv', disk' # disk,
           Commit \/ Reset \/ SyncAndClose \/ SyncFails \/ PowerLoss
    PROVE  \E file : Writes(file)
<1>1. Destination \in Slots
  BY OtherSlot DEF StoreInv, TypeOK, Destination, Slots
<1>2. ASSUME NEW state \in States, NEW mutation \in Mutations, NEW discard \in BOOLEAN,
             OpenDestination(state, mutation, discard)
      PROVE  Writes(Torn)
  BY <1>1, <1>2 DEF OpenDestination, Accepted, JobFor, Writes, live
<1>3. CASE Commit \/ Reset
  <2>1. EmptyState \in States /\ NoMutation \in Mutations
    BY DEF EmptyState, States, NoMutation, Mutations
  <2> QED
    BY <1>2, <1>3, <2>1 DEF Commit, Reset
<1>4. CASE SyncAndClose \/ SyncFails \/ PowerLoss
  <2>1. Writing /\ \E file \in {Torn, job.snapshot} : disk' = WithDestination(file)
    BY <1>4 DEF SyncAndClose, SyncFails, PowerLoss, DisksAfterPowerLoss, Writing
  <2>2. writable /\ job.snapshot \in Snapshots /\ job.destination = Destination
    BY <2>1, WriteFacts DEF StoreInv, JobOK
  <2>3. writable' \in {writable, FALSE}
    BY <1>4 DEF SyncAndClose, SyncFails, PowerLoss, live
  <2> QED
    BY <1>1, <2>1, <2>2, <2>3 DEF Writes, WithDestination
<1> QED
  BY <1>3, <1>4

\* A step changes the card by a migration or by a write, or not at all.
LEMMA WhatChanges ==
    ASSUME ~ ReadFaults, StoreInv, StoreInv', Next, disk' # disk
    PROVE  (\E from : Migrates(from)) \/ (\E file : Writes(file))
<1>1. CASE BeginMigrate
  BY <1>1, MigrationFacts
<1>2. CASE BeginNoDirectory \/ BeginCurrent \/ BeginNoMigration \/ VerifyMigration
           \/ Refuse \/ Stream \/ StreamFails \/ Verify \/ VerifyFails
  BY <1>2 DEF BeginNoDirectory, BeginCurrent, BeginNoMigration, VerifyMigration,
     Refuse, Stream, StreamFails, Verify, VerifyFails
<1>3. CASE Commit \/ Reset \/ SyncAndClose \/ SyncFails \/ PowerLoss
  BY <1>3, WriteChanges
<1> QED
  BY <1>1, <1>2, <1>3 DEF Next

\* A legacy file only ever moves to slot A of a card without current files.
THEOREM LegacyFilesAreKept ==
    ASSUME ~ ReadFaults
    PROVE  Spec => LegacyFilesOnlyMigrate
<1> DEFINE Kept == \A p \in LegacySlots : disk'[p] # disk[p] =>
                      /\ disk'[p] = Missing
                      /\ disk["A"] = Missing /\ disk["B"] = Missing
                      /\ disk'["A"] = disk[p]
                      /\ BootValue(disk') = BootValue(disk)
<1>1. StoreInv /\ StoreInv' /\ [Next]_vars => [Kept]_vars
  <2> SUFFICES ASSUME StoreInv, StoreInv', Next, NEW p \in LegacySlots, disk'[p] # disk[p]
               PROVE  /\ disk'[p] = Missing
                      /\ disk["A"] = Missing /\ disk["B"] = Missing
                      /\ disk'["A"] = disk[p]
                      /\ BootValue(disk') = BootValue(disk)
    BY DEF vars
  <2>1. disk \in [Paths -> Files] /\ p \in Paths /\ p \notin Slots /\ p # "A"
    BY DEF StoreInv, TypeOK, Paths, Slots, LegacySlots
  <2>2. CASE \E file : Writes(file)
    BY <2>1, <2>2 DEF Writes
  <2>3. CASE \E from : Migrates(from)
    <3>1. PICK from : Migrates(from)
      BY <2>3
    <3>2. from = p
      BY <2>1, <3>1 DEF Migrates
    <3> QED
      BY <3>1, <3>2 DEF Migrates
  <2> QED
    BY <2>2, <2>3, WhatChanges
<1> QED
  BY <1>1, StoreInvariant, PTL DEF Spec, LegacyFilesOnlyMigrate

\* A store that accepts writes has no slot of a newer format.
NothingForeign == writable => \A s \in Slots : disk[s] # Foreign

LEMMA ForeignFacts ==
    /\ Inspect(Foreign) = "Unsupported" /\ Foreign # Torn /\ Foreign # Missing
    /\ \A f \in Snapshots : f # Foreign
    /\ \A d, a, b : Inspect(d[a]) = "Unsupported" \/ Inspect(d[b]) = "Unsupported"
                      => ClassifyPair(d, {}, a, b) \notin {"Ready", "Empty"}
<1>1. Inspect(Foreign) = "Unsupported" /\ Foreign # Torn /\ Foreign # Missing
  BY DEF Inspect, Foreign, Torn, Missing
<1>2. \A f \in Snapshots : f # Foreign
  BY DEF Snapshots, Foreign
<1>3. ASSUME NEW d, NEW a, NEW b, Inspect(d[a]) = "Unsupported" \/ Inspect(d[b]) = "Unsupported"
      PROVE  ClassifyPair(d, {}, a, b) \notin {"Ready", "Empty"}
  BY <1>3, UnfaultyRead DEF ClassifyPair, Classify
<1> QED
  BY <1>1, <1>2, <1>3

LEMMA NothingForeignKept ==
    ASSUME ~ ReadFaults, StoreInv, StoreInv', NothingForeign, [Next]_vars
    PROVE  NothingForeign'
<1>1. UnreadableSets = {{}}
  BY DataAssumption DEF UnreadableSets
<1>2. CASE BeginNoDirectory \/ BeginMigrate \/ PowerLoss
  BY <1>2 DEF BeginNoDirectory, BeginMigrate, BeginWithout, PowerLoss, NothingForeign
<1>3. CASE BeginCurrent
  <2> DEFINE result == ClassifyPair(disk, {}, "A", "B")
  <2>1. result # "Empty" /\ disk' = disk /\ (result = "Ready" \/ BeginWithout(result))
    BY <1>1, <1>3 DEF BeginCurrent
  <2>2. writable' => result = "Ready"
    BY <2>1 DEF BeginWithout
  <2> QED
    BY <2>1, <2>2, ForeignFacts DEF NothingForeign, Slots
<1>4. CASE BeginNoMigration
  BY <1>4, EmptyMeansMissing, ForeignFacts DEF BeginNoMigration, NothingForeign, Slots
<1>5. CASE VerifyMigration
  <2>1. disk' = disk /\ disk["B"] = Missing /\ (writable' => Inspect(disk["A"]) = "Ready")
    BY <1>1, <1>5, UnfaultyRead DEF VerifyMigration, BeginWithout, StoreInv, MigrationOK
  <2> QED
    BY <2>1, ForeignFacts DEF NothingForeign, Slots
<1>6. CASE Refuse \/ Stream \/ StreamFails \/ Verify \/ VerifyFails \/ UNCHANGED vars
  BY <1>6 DEF Refuse, Stream, StreamFails, Verify, VerifyFails, vars, live, NothingForeign
<1>7. CASE Commit \/ Reset \/ SyncAndClose \/ SyncFails
  <2>1. writable' = writable
    BY <1>7 DEF Commit, Reset, OpenDestination, SyncAndClose, SyncFails, live
  <2>2. disk' = disk \/ \E file : Writes(file)
    BY <1>7, WriteChanges
  <2>3. disk \in [Paths -> Files] /\ Slots \subseteq Paths
    BY DEF StoreInv, TypeOK, Paths
  <2> QED
    BY <2>1, <2>2, <2>3, ForeignFacts DEF NothingForeign, Writes
<1> QED
  BY <1>2, <1>3, <1>4, <1>5, <1>6, <1>7 DEF Next

\* A build that does not know the format of a file never changes that file.
THEOREM ForeignSlotsAreKept ==
    ASSUME ~ ReadFaults
    PROVE  Spec => ForeignSlotIsNeverLost
<1> DEFINE Kept == \A p \in Paths : disk[p] = Foreign => disk'[p] = Foreign
<1>1. Init => NothingForeign
  BY DEF Init, NothingForeign
<1>2. StoreInv /\ StoreInv' /\ NothingForeign /\ [Next]_vars => NothingForeign'
  BY NothingForeignKept
<1>3. StoreInv /\ StoreInv' /\ NothingForeign /\ [Next]_vars => [Kept]_vars
  <2> SUFFICES ASSUME StoreInv, StoreInv', NothingForeign, Next, NEW p \in Paths, disk[p] = Foreign
               PROVE  disk'[p] = Foreign
    BY DEF vars
  <2>1. disk \in [Paths -> Files]
    BY DEF StoreInv, TypeOK
  <2>2. CASE \E file : Writes(file)
    BY <2>1, <2>2 DEF Writes, NothingForeign
  <2>3. CASE \E from : Migrates(from)
    <3>1. PICK from : Migrates(from)
      BY <2>3
    <3>2. p # from /\ p # "A"
      BY <3>1, ForeignFacts DEF Migrates
    <3> QED
      BY <2>1, <3>1, <3>2 DEF Migrates
  <2> QED
    BY <2>2, <2>3, WhatChanges
<1> QED
  BY <1>1, <1>2, <1>3, StoreInvariant, PTL DEF Spec, ForeignSlotIsNeverLost

\* The record a mutation changes, and when a write of it can be completed.
Changed(m, roster) == IF m.kind = "None" THEN roster ELSE [roster EXCEPT ![m.id] = m.species]
Completes(m, roster) ==
    /\ m.kind = "Append" => FollowsRoster(roster, m.id)
    /\ m.kind = "Replace" => m.id \in Stored(roster)

\* A commit under way carries the live roster with one mutation applied.
ChangeOK ==
    Writing /\ ready /\ ~ job.reset =>
        \E m \in Mutations :
            /\ m.kind # "None" => m.id \in RecordIds /\ m.species \in Species
            /\ job.snapshot.roster = Changed(m, disk[active].roster)
            /\ pc # "streaming" => Completes(m, disk[active].roster)
            /\ job.complete => Completes(m, disk[active].roster)

LEMMA ChangeKept ==
    ASSUME StoreInv, StoreInv', ChangeOK, [Next]_vars
    PROVE  ChangeOK'
<1>1. ASSUME NEW state \in States, NEW m \in Mutations, NEW discard \in BOOLEAN,
             OpenDestination(state, m, discard)
      PROVE  ChangeOK'
  <2> SUFFICES ASSUME ready', ~ job'.reset PROVE ChangeOK'
    BY DEF ChangeOK
  <2>1. /\ UNCHANGED live /\ pc' = "streaming" /\ ready /\ ~ discard
        /\ Accepted(m, discard) /\ job' = JobFor(state, m, discard)
    BY <1>1 DEF OpenDestination, live, JobFor
  <2>2. disk'[active] = disk[active]
    <3>1. disk' = [disk EXCEPT ![Destination] = Torn] /\ Destination # active /\ active \in Paths
      BY <1>1, <2>1, OtherSlot DEF OpenDestination, JobFor, Destination, StoreInv, TypeOK, Paths
    <3> QED
      BY <3>1 DEF StoreInv, TypeOK
  <2>3. Preserved(discard) = disk[active].roster
    BY <2>1 DEF Preserved
  <2>4. /\ job'.snapshot.roster = Changed(m, disk[active].roster)
        /\ job'.complete => Completes(m, disk[active].roster)
    BY <2>1, <2>3 DEF JobFor, Changed, Completes
  <2>5. m.kind # "None" => m.id \in RecordIds /\ m.species \in Species
    BY <2>1 DEF Accepted, Mutations
  <2> QED
    BY <2>1, <2>2, <2>4, <2>5 DEF ChangeOK, live
<1>2. CASE Commit \/ Reset
  <2>1. EmptyState \in States /\ NoMutation \in Mutations
    BY DEF EmptyState, States, NoMutation, Mutations
  <2> QED
    BY <1>1, <1>2, <2>1 DEF Commit, Reset
<1>3. CASE Stream \/ UNCHANGED vars
  BY <1>3 DEF Stream, vars, live, ChangeOK, Writing
<1>4. CASE SyncAndClose
  <2>1. Writing /\ UNCHANGED <<job, live>> /\ pc = "written" /\ disk' = WithDestination(job.snapshot)
    BY <1>4 DEF SyncAndClose, Writing
  <2>2. ready => disk'[active] = disk[active]
    BY <2>1, WriteFacts DEF Left
  <2> QED
    BY <2>1, <2>2 DEF ChangeOK, live
<1>5. ASSUME ~ Writing' PROVE ChangeOK'
  BY <1>5 DEF ChangeOK
<1>6. CASE \/ BeginNoDirectory \/ BeginCurrent \/ BeginNoMigration \/ BeginMigrate \/ VerifyMigration
           \/ Refuse \/ StreamFails \/ SyncFails \/ Verify \/ VerifyFails \/ PowerLoss
  <2>1. pc' \in {"idle", "migrating"}
    BY <1>6 DEF BeginNoDirectory, BeginCurrent, BeginNoMigration, BeginMigrate, BeginCalled,
       VerifyMigration, Refuse, StreamFails, SyncFails, Verify, VerifyFails, PowerLoss, Fail
  <2> QED
    BY <1>5, <2>1 DEF Writing
<1> QED
  BY <1>2, <1>3, <1>4, <1>6 DEF Next

\* One mutation changes at most one record, drops none and appends behind all.
LEMMA OneRecordChanges ==
    ASSUME NEW old \in Rosters, NEW m \in Mutations, Completes(m, old),
           m.kind # "None" => m.id \in RecordIds /\ m.species \in Species
    PROVE  LET new == Changed(m, old)
               changed == {id \in RecordIds : old[id] # new[id]}
           IN  /\ Cardinality(changed) <= 1
               /\ Stored(old) \subseteq Stored(new)
               /\ \A id \in Stored(new) \ Stored(old), other \in Stored(old) : other < id
<1> DEFINE new == Changed(m, old)
           changed == {id \in RecordIds : old[id] # new[id]}
<1>1. \A id \in RecordIds : new[id] = IF m.kind # "None" /\ id = m.id THEN m.species ELSE old[id]
  BY DEF Changed, Rosters
<1>2. Cardinality(changed) <= 1
  <2>1. changed \subseteq {m.id}
    BY <1>1
  <2>2. IsFiniteSet({m.id}) /\ Cardinality({m.id}) = 1
    BY FS_Singleton
  <2>3. IsFiniteSet(changed) /\ Cardinality(changed) <= Cardinality({m.id})
    BY <2>1, <2>2, FS_Subset
  <2> QED
    BY <2>2, <2>3
<1>3. m.kind # "None" => m.species # 0
  BY DataAssumption
<1>4. Stored(old) \subseteq Stored(new)
  BY <1>1, <1>3 DEF Stored
<1>5. \A id \in Stored(new) \ Stored(old) : m.kind = "Append" /\ id = m.id
  BY <1>1 DEF Stored, Completes, Mutations
<1>6. \A id \in Stored(new) \ Stored(old), other \in Stored(old) : other < id
  BY <1>5 DEF Completes, FollowsRoster
<1> QED
  BY <1>2, <1>4, <1>6

\* A commit never loses a record, and the catches stay in the order of their ids.
THEOREM CommitsChangeOneRecord == Spec => CommitChangesAtMostOneRecord
<1> DEFINE Kept == ready /\ pc = "verifying" /\ outcome' = "committed" =>
                     LET old == disk[active].roster
                         new == disk'[active'].roster
                         changed == {id \in RecordIds : old[id] # new[id]}
                     IN  /\ Cardinality(changed) <= 1
                         /\ Stored(old) \subseteq Stored(new)
                         /\ \A id \in Stored(new) \ Stored(old), other \in Stored(old) : other < id
<1>1. Init => ChangeOK
  BY DEF Init, ChangeOK, Writing
<1>2. StoreInv /\ StoreInv' /\ ChangeOK /\ [Next]_vars => ChangeOK'
  BY ChangeKept
<1>3. StoreInv /\ ChangeOK /\ [Next]_vars => [Kept]_vars
  <2> SUFFICES ASSUME StoreInv, ChangeOK, Next, ready, pc = "verifying", outcome' = "committed"
               PROVE  Kept
    BY DEF vars
  <2>1. outcome # "committed"
    BY DEF StoreInv, OutcomeOK
  <2>2. Verify
    BY <2>1 DEF Next, BeginNoDirectory, BeginCurrent, BeginNoMigration, BeginMigrate, BeginCalled,
       VerifyMigration, Refuse, Commit, Reset, OpenDestination, Stream, StreamFails, SyncAndClose,
       SyncFails, Verify, VerifyFails, PowerLoss, Fail
  <2>3. disk'[active'] = job.snapshot /\ ~ job.reset
    BY <2>2 DEF Verify, StoreInv, JobOK, Writing
  <2>4. disk[active].roster \in Rosters
    BY ReadyIsSnapshot DEF StoreInv, TypeOK, LiveSnapshotIsValid, Paths, Snapshots
  <2>5. PICK m \in Mutations :
            /\ m.kind # "None" => m.id \in RecordIds /\ m.species \in Species
            /\ job.snapshot.roster = Changed(m, disk[active].roster)
            /\ Completes(m, disk[active].roster)
    BY <2>3 DEF ChangeOK, Writing
  <2> QED
    BY <2>3, <2>4, <2>5, OneRecordChanges
<1> QED
  BY <1>1, <1>2, <1>3, StoreInvariant, PTL DEF Spec, CommitChangesAtMostOneRecord

===============================================================================
