------------------------------ MODULE PokemonStore ------------------------------
(***************************************************************************)
(* The save of the Pokemon companion: two alternating snapshot files on    *)
(* the SD card, the pair of files of an earlier release, and the live      *)
(* PokemonStore object that opens, reads and rewrites them.                *)
(*                                                                         *)
(* A write is several steps (open with O_TRUNC, stream, sync and close,    *)
(* verify, switch), each of which may fail, and power may be lost between  *)
(* any two of them.  All calls come from one task, so calls do not overlap.*)
(*                                                                         *)
(* Data is reduced to what the store looks at: a roster maps a record id   *)
(* to its species (0: no such record); a state carries the ids it refers   *)
(* to (party slots and queued evolutions) and the caught species.          *)
(***************************************************************************)
EXTENDS SnapshotSequence, FiniteSets

CONSTANTS
    RecordIds,     \* ids a record may have; 0 is never one of them
    Species,       \* species a record may have; 0 is never one of them
    RecordLimit,   \* greatest record count the 32-bit payload size can hold
    InitialDisks,  \* what the card may hold when the firmware first starts
    ReadFaults     \* TRUE: opening a file for inspection may transiently fail

Slots == {"A", "B"}
LegacySlots == {"LegacyA", "LegacyB"}
Paths == Slots \cup LegacySlots

Rosters == [RecordIds -> Species \cup {0}]
EmptyRoster == [id \in RecordIds |-> 0]
Stored(roster) == {id \in RecordIds : roster[id] # 0}

States == [refs : SUBSET RecordIds, caught : SUBSET Species]
EmptyState == [refs |-> {}, caught |-> {}]

Snapshots == [kind : {"Snapshot"}, sequence : Sequences, state : States, roster : Rosters]
Missing == [kind |-> "Missing"]
Torn == [kind |-> "Torn"]        \* short, wrong size or wrong checksum
Foreign == [kind |-> "Foreign"]  \* a valid header of a version this build does not know
Files == Snapshots \cup {Missing, Torn, Foreign}

Mutations == [kind : {"None", "Append", "Replace"}, requested : RecordIds \cup {0},
              id : RecordIds \cup {0}, species : Species \cup {0}]
NoMutation == [kind |-> "None", requested |-> 0, id |-> 0, species |-> 0]

Phases == {"idle", "migrating", "streaming", "written", "verifying"}
Jobs == [destination : Slots, snapshot : Snapshots, complete : BOOLEAN, reset : BOOLEAN]
NoJob == [destination |-> "none"]

ASSUME DataAssumption ==
    /\ RecordIds \subseteq Nat \ {0} /\ IsFiniteSet(RecordIds)
    /\ Species \subseteq Nat \ {0}
    /\ RecordLimit \in Nat
    /\ InitialDisks \subseteq [Paths -> Files]
    /\ ReadFaults \in BOOLEAN

VARIABLES
    disk,         \* the files on the card, as a power loss would leave them
    pc,           \* where the running call is; "idle" between calls
    job,          \* the write in progress or, between calls, the last one
    ready,        \* ready_
    writable,     \* writable_
    active,       \* the slot activeIsA_ names
    header,       \* activeHeader_: [sequence, recordCount]
    outcome       \* what the last commit() or reset() returned

vars == <<disk, pc, job, ready, writable, active, header, outcome>>
live == <<ready, writable, active, header>>

NoHeader == [sequence |-> 0, recordCount |-> 0]
HeaderOf(file) == [sequence |-> file.sequence, recordCount |-> Cardinality(Stored(file.roster))]
Other(slot) == IF slot = "A" THEN "B" ELSE "A"

---------------------------------------------------------------------------------
(* Inspection and choice of a slot                                             *)

\* Every reference resolves to a record and every record's species is caught.
Sound(file) ==
    /\ file.kind = "Snapshot"
    /\ file.state.refs \subseteq Stored(file.roster)
    /\ \A id \in Stored(file.roster) : file.roster[id] \in file.state.caught

Inspect(file) ==
    IF file = Missing THEN "Missing"
    ELSE IF file = Foreign THEN "Unsupported"
    ELSE IF Sound(file) THEN "Ready"
    ELSE "Corrupt"

\* inspectSnapshot of path p when the files of `unreadable' cannot be opened.
InspectAt(d, unreadable, p) ==
    IF p \in unreadable /\ d[p] # Missing THEN "Corrupt" ELSE Inspect(d[p])

\* Plausible bug: a readable slot is used although the other one is newer-format.
ClassifyReadyFirst(resultA, resultB) ==
    LET results == {resultA, resultB} IN
    IF "Ready" \in results THEN "Ready"
    ELSE IF results = {"Missing"} THEN "Empty" ELSE "Corrupt"

\* The verdict begin() draws from the results of a pair of files.
Classify(resultA, resultB) ==
    LET results == {resultA, resultB} IN
    IF "Unsupported" \in results
    THEN IF "Corrupt" \in results THEN "Corrupt" ELSE "Unsupported"
    ELSE IF "Ready" \in results THEN "Ready"
    ELSE IF results = {"Missing"} THEN "Empty" ELSE "Corrupt"

\* The slot of the pair (a, b) begin() picks when at least one of them is Ready.
Newest(d, unreadable, a, b) ==
    IF /\ InspectAt(d, unreadable, a) = "Ready"
       /\ \/ InspectAt(d, unreadable, b) # "Ready"
          \/ ~ SequenceIsNewer(d[b].sequence, d[a].sequence)
    THEN a ELSE b

ClassifyPair(d, unreadable, a, b) ==
    Classify(InspectAt(d, unreadable, a), InspectAt(d, unreadable, b))

UnreadableSets == IF ReadFaults THEN SUBSET Paths ELSE {{}}

---------------------------------------------------------------------------------
(* begin()                                                                     *)

Init ==
    /\ disk \in InitialDisks
    /\ pc = "idle"
    /\ job = NoJob
    /\ ready = FALSE
    /\ writable = FALSE
    /\ active = "B"
    /\ header = NoHeader
    /\ outcome = "none"

\* begin() returns without a usable snapshot; only an empty card is writable.
BeginWithout(result) ==
    /\ ready' = FALSE
    /\ writable' = (result = "Empty")
    /\ active' = "B"
    /\ header' = NoHeader

\* begin() returns Ready with slot s active.
BeginReady(s) ==
    /\ ready' = TRUE
    /\ writable' = TRUE
    /\ active' = s
    /\ header' = HeaderOf(disk[s])

\* Every caller of begin() calls it only while the store is not ready.
BeginCalled == pc = "idle" /\ ~ ready

\* The data directory cannot be prepared.
BeginNoDirectory ==
    /\ BeginCalled
    /\ BeginWithout("Corrupt")
    /\ UNCHANGED <<disk, pc, job, outcome>>

\* One of the current filenames exists: the legacy files are not looked at.
BeginCurrent ==
    /\ BeginCalled
    /\ \E unreadable \in UnreadableSets :
         LET result == ClassifyPair(disk, unreadable, "A", "B") IN
         /\ result # "Empty"
         /\ IF result = "Ready" THEN BeginReady(Newest(disk, unreadable, "A", "B"))
                                ELSE BeginWithout(result)
    /\ UNCHANGED <<disk, pc, job, outcome>>

\* Neither current filename exists and no legacy snapshot can be migrated.
BeginNoMigration ==
    /\ BeginCalled
    /\ ClassifyPair(disk, {}, "A", "B") = "Empty"
    /\ \E unreadable \in UnreadableSets :
         LET result == ClassifyPair(disk, unreadable, "LegacyA", "LegacyB") IN
         /\ result # "Ready"
         /\ BeginWithout(result)
    /\ UNCHANGED <<disk, pc, job, outcome>>

\* Plausible bug: the legacy files are migrated although a current file exists.
BeginMigrateAlways ==
    /\ BeginCalled
    /\ LET from == Newest(disk, {}, "LegacyA", "LegacyB") IN
         /\ ClassifyPair(disk, {}, "LegacyA", "LegacyB") = "Ready"
         /\ disk' = [disk EXCEPT !["A"] = disk[from], ![from] = Missing]
         /\ pc' = "migrating"
         /\ BeginWithout("Migrating")
    /\ UNCHANGED <<job, outcome>>

\* The newest legacy snapshot is renamed to slot A, or the rename fails.
BeginMigrate ==
    /\ BeginCalled
    /\ ClassifyPair(disk, {}, "A", "B") = "Empty"
    /\ \E unreadable \in UnreadableSets :
         LET from == Newest(disk, unreadable, "LegacyA", "LegacyB") IN
         /\ ClassifyPair(disk, unreadable, "LegacyA", "LegacyB") = "Ready"
         /\ \/ /\ disk' = [disk EXCEPT !["A"] = disk[from], ![from] = Missing]
               /\ pc' = "migrating"
               /\ BeginWithout("Migrating")
            \/ /\ BeginWithout("Corrupt")
               /\ UNCHANGED <<disk, pc>>
    /\ UNCHANGED <<job, outcome>>

\* The renamed snapshot is inspected again before it is used.
VerifyMigration ==
    /\ pc = "migrating"
    /\ pc' = "idle"
    /\ \E unreadable \in UnreadableSets :
         IF InspectAt(disk, unreadable, "A") = "Ready"
         THEN BeginReady("A") ELSE BeginWithout("Corrupt")
    /\ UNCHANGED <<disk, job, outcome>>

---------------------------------------------------------------------------------
(* writeSnapshot()                                                             *)

\* The records a write preserves: those of the active snapshot unless discarded.
Preserved(discard) == IF ready /\ ~ discard THEN disk[active].roster ELSE EmptyRoster

Accepted(mutation, discard) ==
    LET changesRecord == mutation.kind \in {"Append", "Replace"}
        count == Cardinality(Stored(Preserved(discard)))
    IN  /\ writable
        /\ discard => mutation.kind = "None"
        /\ changesRecord => mutation.requested = mutation.id /\ mutation.id # 0 /\ mutation.species # 0
        /\ mutation.kind = "Replace" => ready
        /\ mutation.kind = "Append" => count < RecordLimit

\* Plausible bug: a write reuses the sequence of the snapshot it replaces.
SameSequence == IF ready THEN header.sequence ELSE 1

\* The sequence this write will carry: 1 on a card without a save.
NextSequence == IF ready THEN SequenceAfter(header.sequence) ELSE 1
\* Plausible bug: the write goes over the snapshot the store is reading.
LiveDestination == IF ready THEN active ELSE "A"

\* The slot a write goes to: never the one the store is reading.
Destination == IF ready THEN Other(active) ELSE "A"

\* Plausible bug: an appended record may land before the last one.
FollowsAny(roster, id) == id # 0

\* An appended record must carry a greater id than every record before it.
FollowsRoster(roster, id) == \A other \in Stored(roster) : other < id

\* The write this call would carry out.  It is complete unless an appended id
\* does not follow the last one or the record to replace is not in the roster.
JobFor(state, mutation, discard) ==
    LET roster == Preserved(discard) IN
    [destination |-> Destination,
     snapshot |-> [kind |-> "Snapshot", sequence |-> NextSequence, state |-> state,
                   roster |-> IF mutation.kind = "None" THEN roster
                              ELSE [roster EXCEPT ![mutation.id] = mutation.species]],
     complete |-> /\ mutation.kind = "Append" => FollowsRoster(roster, mutation.id)
                  /\ mutation.kind = "Replace" => mutation.id \in Stored(roster),
     reset |-> discard]

Fail == pc' = "idle" /\ outcome' = "failed"

\* The call is refused, or one of the two files cannot be opened.
Refuse ==
    /\ pc = "idle"
    /\ Fail
    /\ UNCHANGED <<disk, job, live>>

\* The destination is opened and truncated.
OpenDestination(state, mutation, discard) ==
    /\ pc = "idle"
    /\ Accepted(mutation, discard)
    /\ job' = JobFor(state, mutation, discard)
    /\ disk' = [disk EXCEPT ![job'.destination] = Torn]
    /\ pc' = "streaming"
    /\ outcome' = "none"
    /\ UNCHANGED <<live>>

Commit == \E state \in States, mutation \in Mutations : OpenDestination(state, mutation, FALSE)
Reset == OpenDestination(EmptyState, NoMutation, TRUE)

\* Header, state, records and checksum are streamed; nothing is durable yet.
Stream ==
    /\ pc = "streaming"
    /\ job.complete
    /\ pc' = "written"
    /\ UNCHANGED <<disk, job, live, outcome>>

\* A read or write fails on the way, or the write is not complete.
StreamFails ==
    /\ pc = "streaming"
    /\ Fail
    /\ UNCHANGED <<disk, job, live>>

WithDestination(file) == [disk EXCEPT ![job.destination] = file]

SyncAndClose ==
    /\ pc = "written"
    /\ disk' = WithDestination(job.snapshot)
    /\ pc' = "verifying"
    /\ UNCHANGED <<job, live, outcome>>

\* sync() or close() reports failure although every byte was written: the file
\* on the card may be complete or not.
SyncFails ==
    /\ pc = "written"
    /\ Fail
    /\ \E file \in {Torn, job.snapshot} : disk' = WithDestination(file)
    /\ UNCHANGED <<job, live>>

\* The written file is inspected again; only then does it become active.
Verify ==
    /\ pc = "verifying"
    /\ Inspect(disk[job.destination]) = "Ready"
    /\ pc' = "idle"
    /\ ready' = TRUE
    /\ active' = job.destination
    /\ header' = HeaderOf(job.snapshot)
    /\ outcome' = IF job.reset THEN "reset" ELSE "committed"
    /\ UNCHANGED <<disk, job, writable>>

VerifyFails ==
    /\ pc = "verifying"
    /\ ReadFaults \/ Inspect(disk[job.destination]) # "Ready"
    /\ Fail
    /\ UNCHANGED <<disk, job, live>>

---------------------------------------------------------------------------------
\* The cards a power loss may leave: an unsynced destination holds all of its
\* bytes or not.
DisksAfterPowerLoss ==
    {disk} \cup (IF pc = "written" THEN {WithDestination(job.snapshot)} ELSE {})

\* Power is lost and the firmware starts again with an object as constructed.
PowerLoss ==
    /\ disk' \in DisksAfterPowerLoss
    /\ pc' = "idle"
    /\ ready' = FALSE
    /\ writable' = FALSE
    /\ active' = "B"
    /\ header' = NoHeader
    /\ outcome' = "none"
    /\ UNCHANGED job

Next ==
    \/ BeginNoDirectory \/ BeginCurrent \/ BeginNoMigration \/ BeginMigrate \/ VerifyMigration
    \/ Refuse \/ Commit \/ Reset
    \/ Stream \/ StreamFails \/ SyncAndClose \/ SyncFails \/ Verify \/ VerifyFails
    \/ PowerLoss

Spec == Init /\ [][Next]_vars

---------------------------------------------------------------------------------
(* What a start would find                                                     *)

\* What the program sees in a valid snapshot: everything but its sequence.
Content(file) == [kind |-> "Ready", state |-> file.state, roster |-> file.roster]
Nothing(result) == [kind |-> result]

\* What begin() would give the program on card d, with no read fault.
BootValue(d) ==
    LET current == ClassifyPair(d, {}, "A", "B")
        legacy  == ClassifyPair(d, {}, "LegacyA", "LegacyB")
    IN  IF current = "Ready" THEN Content(d[Newest(d, {}, "A", "B")])
        ELSE IF current # "Empty" THEN Nothing(current)
        ELSE IF legacy = "Ready" THEN Content(d[Newest(d, {}, "LegacyA", "LegacyB")])
        ELSE Nothing(legacy)

\* What the running program sees.
LiveValue ==
    IF ready THEN Content(disk[active])
    ELSE IF writable THEN Nothing("Empty")
    ELSE BootValue(disk)

Save == INSTANCE DurableSave WITH
    Values  <- [kind : {"Ready"}, state : States, roster : Rosters],
    NoSave  <- Nothing("Empty"),
    Lost    <- Nothing("Corrupt"),
    Blocked <- Nothing("Unsupported"),
    saved   <- LiveValue,
    recover <- {BootValue(d) : d \in DisksAfterPowerLoss}

---------------------------------------------------------------------------------
(* Properties                                                                  *)

TypeOK ==
    /\ disk \in [Paths -> Files]
    /\ pc \in Phases
    /\ job \in Jobs \cup {NoJob}
    /\ ready \in BOOLEAN
    /\ writable \in BOOLEAN
    /\ active \in Slots
    /\ header \in [sequence : Sequences \cup {0}, recordCount : Nat]
    /\ outcome \in {"none", "failed", "committed", "reset"}

\* Without read faults the two files, the five-step write and the migration
\* implement the atomic save of DurableSave: whatever step fails and whenever
\* power is lost, the program and every later start see the old or the new
\* content, and only the new one once commit() or reset() has returned true.
ImplementsDurableSave == Save!Spec

\* Once commit() or reset() has returned true, the next start selects exactly
\* the slot the live store reads, across sequence wraparound and whatever the
\* other slot holds (the verification and the switch that end writeSnapshot).
AcknowledgedWriteWinsNextStart ==
    pc = "idle" /\ outcome \in {"committed", "reset"} =>
        /\ ClassifyPair(disk, {}, "A", "B") = "Ready"
        /\ Newest(disk, {}, "A", "B") = active

\* A ready store always has a snapshot to go on with: the slot it reads holds a
\* valid snapshot and activeHeader_, from which the next sequence, the record
\* count and the records offset are taken, is the header of that file.
LiveSnapshotIsValid ==
    ready => Inspect(disk[active]) = "Ready" /\ header = HeaderOf(disk[active])

\* No step of a write, failed or not, and no power loss touches the slot the
\* live store reads: a write only ever opens the other one.
LiveSlotIsNeverWritten == [][ready => disk'[active] = disk[active]]_vars

\* A slot of a newer format is never truncated, renamed or overwritten: the gate
\* that refuses writes on a downgraded build.
ForeignSlotIsNeverLost ==
    [][\A p \in Paths : disk[p] = Foreign => disk'[p] = Foreign]_vars

\* Legacy files change only when the whole pair is migrated: at most the newest
\* one moves, unchanged, to slot A, and no second migration ever replaces a
\* current file with the older legacy copy.
LegacyFilesOnlyMigrate ==
    [][\A p \in LegacySlots : disk'[p] # disk[p] =>
          /\ disk'[p] = Missing
          /\ disk["A"] = Missing /\ disk["B"] = Missing
          /\ disk'["A"] = disk[p]
          /\ BootValue(disk') = BootValue(disk)]_vars

\* A commit over an existing save changes at most one record, never drops one,
\* and adds one only behind all others, so that catch order stays id order.
CommitChangesAtMostOneRecord ==
    [][ready /\ pc = "verifying" /\ outcome' = "committed" =>
          LET old == disk[active].roster
              new == disk'[active'].roster
              changed == {id \in RecordIds : old[id] # new[id]}
          IN  /\ Cardinality(changed) <= 1
              /\ Stored(old) \subseteq Stored(new)
              /\ \A id \in Stored(new) \ Stored(old), other \in Stored(old) : other < id]_vars

\* docs/file-formats.md:92-94 says that Reset deletes both snapshots: no file of
\* the card keeps a record of the collection that was reset.
ResetDeletesBothSnapshots ==
    pc = "idle" /\ outcome = "reset" =>
        \A s \in Slots : disk[s].kind = "Snapshot" => disk[s].roster = EmptyRoster

=================================================================================
