# A TLA+ model of the Pokémon reading game and of the firmware it runs in

The repository is the firmware of an e-book reader (ESP32-C3, one core, FreeRTOS) with a game built in: time spent
reading is credited to the leader of a party, and credited minutes bring levels, encounters, items and evolutions. This
directory holds TLA+ modules for the game's own logic and for the parts of the firmware whose correctness depends on
tasks, failures and power losses (the activity manager, dictionary lookups, firmware updates), the TLC runs that check
them and TLAPS proofs about every one of them. Paths below are relative to the repository; the device sources are under
`src/` and `lib/`.

## Inventory

| part | state it keeps | operations | talks to |
|---|---|---|---|
| save store (`src/pokemon/PokemonStore.cpp`) | two snapshot files on the SD card, which of them is live, its header, `ready_`, `writable_` | `begin` (inspection, migration of an earlier pair), `commit`, `reset`, reads | the card's file system |
| turn verification (`PokemonTurnVerifier` in `lib/Pokemon/PokemonTracker.cpp`) | five atomics shared by two tasks | `request`, `renderSucceeded`, `consume` | the reader's `loop()` (main task) and `render()` (render task) |
| tracker (`PokemonTracker`) | last tick, last turn, credited and committed seconds, book progress | `beginSession`, `onSuccessfulPageTurn`, `checkpointIfDue`, `flushOnExit` | calls back into the service to bank minutes |
| service (`src/pokemon/PokemonService.cpp`) | the store, the tracker, `readingSessionActive_` | every operation of the game as load, change, commit | called by readers and by the game's screens, on the main task |
| rules (`lib/Pokemon/PokemonGame.cpp`, `PokemonTypes.cpp`) | none: functions on `PokemonState` and `PokemonRecord` | credited minutes, events, evolution, party, Pokédex, levels | called by the service |
| activity manager (`src/activities/ActivityManager.cpp`, `Activity.cpp`) | activity stack, pending action, result handlers, render lock, update flags, waiting task | `loop`, `renderTaskLoop`, push, pop, replace, `requestUpdate`, `requestUpdateAndWait`, `goToSleep` | every activity; the render task |
| dictionary lookup (`src/util/DictionaryLookupController.cpp`, `DictionaryLookupWorker.cpp`) | per controller a state and five flags; one `owner_` and one task notification | `startLookup`, `handleInput`, `onExit`; the worker's `run` | the word-selection and definition screens, the suggestions list |
| firmware update (`src/network/FirmwareFlasher.cpp`, `OtaBootSwitch.cpp`, `OtaUpdater.cpp`, `SdFirmwareUpdateActivity.cpp`) | two app partitions, two otadata entries | validate, flash, download, switch | the card, the network, the bootloader |
| screens (`src/activities/pokemon/`) | menu position, prompt shown | menus over the service | service, artwork pack |
| reader policies (`src/activities/reader/*.h`, `src/util/SleepWakePolicy.h`) | timers and small flags | debounced saves of the page, guards of manual turns, deferred repositioning | readers |
| rest of the base firmware: book formats, fonts, web server, settings, drivers | | | not modelled |

What makes each part correct:

- **Store**: at any power loss, failed write or failed sync the next start finds the last acknowledged save or a later
  attempt; the file being read is never written; a file of a newer format is never destroyed.
- **Turn verification**: a turn is counted once, never before its page was drawn, and in the end always.
- **Tracker and credit**: no second is credited twice, no whole minute is lost except to a reset, a power loss takes
  only minutes whose credit was still pending, and those are less than a checkpoint while commits succeed.
- **Rules**: every save that an operation produces passes the inspection that ends the commit; the event queue never
  blocks and keeps its order; a full queue costs no guarantee; an announced item is there.
- **Activity manager**: what is drawn exists and is current; every screen has one owner and every result goes to the
  screen that asked for it; no update is lost, nobody waits for a render that cannot happen, and whoever waited sees what
  it changed drawn.
- **Dictionary lookup**: no screen is destroyed under the worker; an answer belongs to the word asked for last; every
  lookup and every exit ends.
- **Firmware update**: whenever it stops, the device starts the image it runs or a whole new one.

The hard behaviours are a crash between any two file operations, errors that leave a complete file behind, 32-bit
wraparound of sequence and clock, two tasks that share atomics without a common lock, retries of credit that may have
been saved, long histories of legal operations, a worker task that outlives the screen that started it, and flash that is
erased and programmed piece by piece (`hazards` in `PROJECT.json` has each at its line).

## The modules

| module | models | state and actions |
|---|---|---|
| `SnapshotSequence` | `sequenceIsNewer`, the successor of a sequence | operators on numbers modulo `SeqMod` |
| `DurableSave` | what a store promises | abstract: the value the program reads and the values a restart may find; `Acknowledge`, `Attempt`, `Restart` |
| `PokemonStore` | `PokemonStore.cpp`, file by file and step by step | `disk` (four files: two current, two legacy), what of them is synced, the live slot and header, the step of the write; actions for each way `begin()` may end, each step of `writeSnapshot()` and its failure, and `PowerLoss` |
| `MCPokemonStore` | initial cards for TLC | |
| `PokemonStoreProofs` | the store's theorems | |
| `PokemonTurnVerifier` | the atomics, the readers' loops and renders, the render task | a program counter for each task and one action per atomic access |
| `PokemonTurnVerifierProofs` | its theorems | |
| `PokemonTracker` | the arithmetic of the tracker | operators from tracker to tracker |
| `ReadingCredit` | sessions of the service: `PokemonTracker` composed with `DurableSave` | opening and closing a reader, one loop of a reader with its checkpoint, failing commits, reset, power loss |
| `PokemonGame` | the rules and the operations of the service | `game` (the `PokemonState`), `records` (the roster); one action per operation, one credited minute per step |
| `MCPokemonGame` | small species and level tables for TLC | |
| `PokemonLevels` | `xpRequired`, `levelForXp` | one step per iteration of the search |
| `PokemonLevelsProofs` | its theorems | |
| `ReadingCreditProofs`, `PokemonGameProofs` | the theorems of the two modules | |
| `ActivityManager` | `loop`, the pending actions, what an activity's code may call, `requestUpdateAndWait`, the render task | a program counter for each task; `stack`, `current`, `pending`, the objects that are `alive` and the child each result handler is for |
| `ActivityManagerProofs` | its theorems | |
| `DictionaryLookup` | the controllers of stacked screens and the worker task they share | a record of flags per controller; one action per read or write of shared state on the worker's side |
| `DictionaryLookupProofs` | its theorems | |
| `AtomicInstall` | what an installation promises | abstract: the image that runs and the image the next start runs |
| `FirmwareUpdate` | both update paths, `switchTo`, the bootloader | the chunks of both partitions, the sequences of both entries, the step of the update |
| `FirmwareUpdateProofs` | its theorems, the refinement of `AtomicInstall` among them | |

**How they compose.** `PokemonStore` implements `DurableSave` (`ImplementsDurableSave`, with a refinement mapping from
files to contents). `ReadingCredit` is built on `DurableSave`, so it inherits everything a failed but durable commit
can do. `PokemonGame` takes a commit as one step, which the same refinement justifies. `PokemonTurnVerifier` delivers
the verified turns that `ReadingCredit` takes as its input, and `PokemonLevels` shows that the search computes the
`LevelForXp` that `PokemonGame` defines by what it means. `ActivityManager` is the general form of the render loop that
`PokemonTurnVerifier` uses with one reader on display: there each atomic of the verifier is a step, here each screen and
each lock is. `DictionaryLookup` relies on one fact of `ActivityManager`: only the screen on display gets input.
`FirmwareUpdate` implements `AtomicInstall` (`ImplementsAtomicInstall`).

**What is abstracted.**

- *Store*: the bytes. A file is missing, torn, of a newer format, or a snapshot with a sequence, a content and a roster
  (record id to species, which stands for all a record holds). Unsynced data of a file being written may be torn or
  whole after a power loss. A CRC collision is excluded.
- *Turn verification*: a page is the number of turns that led to it, so every turn goes forward; time is the number of
  pages drawn. Memory orders need no weaker model: one core executes both tasks.
- *Credit*: a save is its minutes and whether it has a leader; the progress percentage stands for the book it was read in.
- *Game*: names, genders and the probabilities. A random choice is any choice the code's branches allow, and an encounter
  has any level the progress of some book allows. Crediting n minutes in one call is n steps: each smaller number is a
  call of its own, so no state is added. A failed operation changes nothing and has no step.
- *Activities*: a screen is the address of its object; addresses are used again. Its code makes any sequence of up to
  `MaxCalls` calls of the manager in one `loop()`, and at most one of them asks for another screen, after which it returns,
  as the screens do. It changes what it draws under the render lock. Home, the only screen launched while a
  render may be under way outside the lock, makes no synchronous request.
- *Lookups*: a word is the number of its lookup, and what the dictionary's files hold for it is any result. The creation
  of the static task, which happens once and cannot run out of memory, is left out.
- *Firmware*: a partition is `Cells` chunks, an image its kind and size. The kind says which of the three checks
  (`validateImageFile`, the bootloader, the running system) accepts it. An otadata entry is its sequence, and zero stands
  for one that is erased, torn (its CRC fails) or marked invalid; the firmware is built without the rollback that
  would mark an image on trial. The bootloader tries the other partition when it refuses the selected one. A card
  exchanged while a file is open shows as a failed read. Version, URL and chip checks only refuse more images.

## What the runs check

| run | instance | shows |
|---|---|---|
| `store_any_card` | every combination of files, sequences modulo 6, two record ids | refinement, durability, the live slot is safe, a newer format is kept, legacy files only migrate, a commit changes at most one record and appends in order |
| `turns` | readers that change the page under the render lock (XTC) and without it (TXT); 3 turns, 1 redraw, 1 page that fails to load | no request is lost between the flags, every turn whose page loads is counted, and with the lock a counted turn was drawn |
| `credit` | two books, two turns, 9 seconds of reading, minutes of 2 s, window 4 s, checkpoint 2 min | no double credit, no lost minute, a start finds what was banked, each minute to its book, due minutes are banked |
| `game_rules` | five species with a level and an item evolution, party of 2, queue of 2, 2 records, items up to 2 | the save stays sound, the queue live and ordered, items and guarantees kept, the notice true, Mew last |
| `level_search` | all experience from 0 to the maximum, 8340 | the search is right and ends |
| `activities` | 3 objects, one helper task, 2 calls per loop | nothing is drawn after its end or leaked, results go where they belong, no update is lost, every waiter resumes |
| `dictionary` | 2 stacked screens, 3 lookups | answers and marks belong to their lookup, the worker outlives no screen, lookups and exits end |
| `firmware` | partitions of 3 chunks, erase blocks of 2, images of 2, 3 and 4, 3 images offered | the device always starts, a failure selects nothing, only whole images are selected, the update is atomic |

The runs spend their checks on what the proofs need TLC for, or cannot reach. Type correctness and nine more
invariants are theorems, for every value of the constants, and no run repeats them: `LiveSnapshotIsValid`,
`CountsNeverExceedRequests`, `CheckpointBoundsTheLoss`, `IdsAreContiguous`, `LeaderExists`, `LevelIsInRange`,
`NoStrayWakeUp`, `CancelledOnlyOnRequest` and `SuccessMeansSelected`. TLC checked each before it was proved.

Four more runs expect a violation; each compares a sentence of the repository with the code (`findings`):

- `store_reset_keeps_old_file`: a reset writes an empty snapshot and leaves the old one in the other slot; the
  documentation says both are deleted.
- `store_downgrade_read_fault`: a newer-format file that fails to open once counts as corrupt, and the next write
  truncates it, which the documentation says an older build refuses to do.
- `turns_txt_early_count`: a TXT page changed while the previous one is being drawn is counted by that older render; the
  class comment says it is not counted until it has rendered.
- `firmware_ota_unvalidated`: the header of the flasher says that an update over the air is stored on the card and
  flashed from there, hence validated as a whole first; `installUpdate()` writes the download straight to the partition.
  `firmware` shows what this costs: nothing that is selected is unverified, since `esp_ota_end()` verifies afterwards.

An interrupted first write is not among them, although it leaves a card that starts as corrupt: there is no older file
then, and `DurableSave` lists that outcome (`Lost`) for the first write only. `O_TRUNC` is taken to be durable, as the
file library syncs the directory entry when it truncates.

**Bounds and why they suffice.**
Six sequence numbers put the wraparound, the skipped zero and both signs of the difference within reach, and any more
only repeat the distances. The store reads two slots, so one record shows every content change; ordering needs two ids, which the run has.
Three turns let a request overtake an answer that is itself being consumed. In `ReadingCredit` the clock has 20 seconds
and starts at 0 or just before it wraps; gaps between loops are zero, shorter than a minute, between a minute and the
window, and longer than the window. It assumes nobody reads for a whole turn of the clock (49 days): `ReadingAssumption`
says so, since a stale turn time would then look recent. In `PokemonGame` the queue, party, roster, item counts and
miss counters are so small that each reaches its limit; each limit is a constant whose real value the module names.
Three objects are a current, a stacked and a pending screen at once, and the addresses are used again, so that a handler
can meet a child it was not set for; two calls let a loop lock, change and ask, or ask twice. Two controllers are the
deepest stack the screens build, and three lookups are one before, one under way and one after. Three chunks with
blocks of two put a block boundary inside the image and the end of the partition inside a block; three images show a
new image over an older and over a failed one, with the entries in either order. The theorems drop all these bounds.

**Fairness.** The two FreeRTOS tasks have the same priority and are time-sliced, so both are weakly fair
(`PokemonTurnVerifier`). In `ReadingCredit` the loop of an open reader is weakly fair, because `main.cpp` calls it on
every turn; whether its checkpoint succeeds is not assumed. That the save accepts commits again is the premise of
`DueMinutesAreBanked` itself (`<>[][~ CheckpointFails]_vars`): a card that never accepts a write again is outside what
the code can promise. A failure that changes nothing is a stuttering step, so it does not count as a loop.
`PokemonLevels` is a loop of one task. In `ActivityManager` both tasks are strongly fair, since FreeRTOS wakes the
waiters of a mutex in turn: a task that needs the lock again and again gets it. `StartLoop` has its own, because
`main.cpp` calls `loop()` on every turn, whatever gestures come before. In `DictionaryLookup` the worker and the calls
the main task has begun go on; nothing is assumed of the user. `FirmwareUpdate` states safety only and assumes no
fairness.

## What is proved

`PokemonStoreProofs` proves, for every `SeqMod`, every set of record ids and species and every initial card that satisfies the
module's assumptions:

- `StoreInvariant`: the inductive invariant `StoreInv`;
- `StoreTypeCorrect`: type correctness;
- `StoreReadsAValidSnapshot`: `LiveSnapshotIsValid`;
- `AcknowledgedWriteIsDurable`: `AcknowledgedWriteWinsNextStart`;
- `StoreNeverWritesItsLiveSlot`: the action property `LiveSlotIsNeverWritten`;
- `CommitsChangeOneRecord`: the action property `CommitChangesAtMostOneRecord`;
- `StoreImplementsDurableSave`: `Spec` implements `DurableSave!Spec`;
- `ASaveIsNeverLost`: `StartsFindASave` and `ASaveIsForever` of `DurableSave`, proved of the abstract specification and
  carried over by the refinement: once there is a save there always is one, and every start finds it;
- `ForeignSlotsAreKept` and `LegacyFilesAreKept`: the action properties `ForeignSlotIsNeverLost` and
  `LegacyFilesOnlyMigrate`.

The last four assume `~ ReadFaults`: that a file can be opened for inspection. `store_downgrade_read_fault` shows what
becomes of a newer format otherwise.

Neither property is inductive alone. That the live file stays valid needs what the writer knows at each step: that the
job's destination is the other slot, that its header has the next sequence, and what the destination holds once it
was streamed and synced. That an acknowledged write wins the next start needs in addition that the new sequence is newer
than the live one in the sense of `sequenceIsNewer`, also around the wrap; these facts about modular
arithmetic are lemmas. `StoreInv` is the conjunction of the type invariant, these facts by step, and the two properties.
The proof has one step per action of `Next`.

For the refinement, `BootAfterWrite` is the heart: whatever a write leaves in its destination, torn or whole, a start finds
the old content, the new one, or, without an old one, a save that is corrupt. Every step of a write is then an `Attempt`,
the switch an `Acknowledge` and every way `begin()` may end a `Restart`. Two more inductive facts serve the action
properties: a store that accepts writes has no slot of a newer format (`NothingForeign`), and the snapshot being written
is the live roster with one mutation (`ChangeOK`).

`PokemonTurnVerifierProofs` proves, for any number of turns, redraws and failed pages:

- `TurnsAreTypeCorrect`: type correctness, which includes that the counters stay within their bounds;
- `LockedTurnsAreDrawn`: `LockedReaderCountsDrawnTurns`;
- `RequestsAreAnsweredOnce`: `CountsNeverExceedRequests`;
- `LastTurnIsCounted`: `NoTurnIsLost`;
- `AnswersArriveInOrder`: the action property `TurnsArriveInOrder`: whatever the two tasks do in between, the tracker gets
  the verified turns in the order they were made. Its invariant `OrderInv` orders the places an answer passes through.

The invariant `TurnInv` adds four facts to the types. The render lock is held by the task inside its critical section
(`LockInv`). With the lock, the page being drawn is the current page until the render ends, and every progress value on
its way to the tracker was drawn (`DrawInv`). A request is awaiting a render, being answered, answered, being taken or
delivered, and these places together hold no more than was requested (`CountInv`). And the progress of the current page
is always somewhere on its way from the request to the delivery, with a notification pending where one is needed
(`WayInv`).

`PokemonLevelsProofs` proves for every experience type correctness (`SearchIsTypeCorrect`), that the search keeps the
level it looks for in its range (`SearchKeepsTheLevel`) and returns the greatest level the experience suffices for (`SearchReturnsGreatestLevel`). It
rests on the lemma that `XpRequired` grows with the level. `SearchHalvesItsRange` bounds the search by seven iterations,
and `XpTableSuitsTheGame` proves of the table what `PokemonGame` assumes of its constant `XpRequired`, so that the
theorems about the game hold with the program's own table.

`ReadingCreditProofs` proves, for any books, windows, clock and save, type correctness, the three safety invariants of
the run, `CheckpointBoundsTheLoss` and the action property `WholeMinutesAreKept`. Its invariant `CreditInv` is a ledger:
the seconds banked in the save (or in any save the next start may find), those pending in the tracker, and those the
active window may still give exceed neither what was read nor what the turns are worth; and the tracker's last turn is
no further back than the reading since. Two theorems, `MinutesStayWithTheirBook` and `LossIsLessThanACheckpoint`, assume
`ReadingFitsOneCallback`: the callback's minutes are a `uint16_t`, 45 days, and only a callback that takes all pending
minutes leaves none behind. `StartsFindWhatWasBanked` is about the saves the next start may find after credits, resets
and new games that failed: each has all acknowledged minutes, unless it is the game reset, and no others but those still
pending. It is an invariant of its own (`SurviveInv`), which needs that a game without a leader has banked nothing; that
a callback keeps pending what it could not bank is what carries it from a failed commit to the next. With it
`MinutesAreKept` says of a power loss that it takes only minutes that were pending.

`PokemonGameProofs` proves type correctness, every property of `game_rules`, that ids are contiguous
(`IdsAreContiguous`) and that a leader exists (`LeaderExists`), for any species, rules, items, levels and limits. Its
invariant `GameInv` relates the game to its records: party and ids (`PartyOK`, `RosterOK`), Pokédex (`DexOK`), every
queued event against the record and the items it is about (`QueueOK`, `ItemsOK`), the cached notice (`NoticeOK`).
The operations are compositions of the helpers of `PokemonGame.cpp`, so the proof has one lemma per helper that keeps
`GameOK`, and the operations cite them. That evolutions stay current needs that experience only grows, that at most one
evolution of a record is queued, and that an item is used only while the queue is empty. `PlayersKeepWhatTheyHave` is about two
saves: but for a reset, no operation takes an entry of the Pokédex, a record or experience, changes a species but by a rule,
or spends an item but on an evolution. Each helper is shown to keep the Pokédex and the items (`DexKept`) and each operation the records
(`RecordsKept`); that a first partner overwrites nothing needs that a save without records is an empty one (`Fresh`).

`ActivityManagerProofs` proves type correctness, the safety invariants of the run, `NoStrayWakeUp` and
`ResultGoesToTheStarter`, for any number of
objects, helper tasks and calls. `ActInv` adds to the properties: who holds the lock at which step (`LockInv`), that the
drawn object is the current one while the lock is the render task's (`DrawInv`), where each waiter stands between
registering and resuming (`WaitInv`), that a change made before waiting is either still undrawn with the waiter
registered or seen (`SeenInv`), and that the object a handler is for is the one above it or pending (`AwaitInv`).
`NoWakeUpIsLost` is the safety half of `WaiterResumes`: a blocked task has been notified, or its handle is kept while the
notification or the draw is under way, and the lock this draw waits for is held by a main task that runs. It is the absence
of lost wake-ups and of a circle of waiting tasks, for any number of them. `NoUpdateIsDropped` is that of `UpdateIsDrawn`.

`DictionaryLookupProofs` proves type correctness, the four safety invariants of the run and
`CancelledOnlyOnRequest` for any number of screens and
lookups. Its `DictInv` says that a lookup the worker accepted and has not announced belongs to the running controller,
which is looking up; once announced, the worker touches no field of it. `LookupsAreServed` is the safety half of `LookupsEnd`
and `ExitsEnd`: no lookup without an answer is left to a worker that sleeps, and no `waitForOwner()` waits for one
(`ServeInv`).

`FirmwareUpdateProofs` proves type correctness, `RunningImageIsWhole`, `SuccessMeansSelected`, both action properties, and
`UpdateIsAtomic`: `Spec` implements `AtomicInstall!Spec`, for any sizes of partitions, erase blocks and images, and any
number of updates. Its `FwInv` says that an update writes the partition that does not run, that the chunks behind it are
the image's or garbage and those ahead of it are erased up to `erased` (`WritingInv`), and that the partition holds the
whole image once it comes to the switch (`WrittenInv`). `FlashingNeverStalls` says that each pass of the loops that write
increases `pos + erased`, which `Cells` bounds, and that the card's path writes each chunk to erased flash, also when
image, block and partition sizes do not divide each other.

The properties `StartsFindASave`, `ASaveIsForever`, `BankedMinutesSurvive`, `TurnsArriveInOrder`, `NothingIsTakenBack`, `RangeHalves`,
`BlockedTaskWillBeWoken`, `UpdateIsKept`, `NoLookupIsForgotten` and `FlashingAdvances` are theorems only: TLC checked
them on the instances of the runs before they were proved, and no run repeats them.

The proofs assume the named `ASSUME`s of the modules only, which TLC evaluates on its instances.

Only model-checked: liveness, which is out of the prover's reach (it needs `ENABLED` under fairness): `EveryTurnIsCounted`,
`DueMinutesAreBanked`, `Terminates`, `WaiterResumes`, `UpdateIsDrawn`, `LookupsEnd`, `ExitsEnd`. What each of them rests on
beside the scheduling is proved: `LastTurnIsCounted`, `MinutesAreKept`, `SearchHalvesItsRange`, `NoWakeUpIsLost`,
`NoUpdateIsDropped` and `LookupsAreServed` leave no state in which the awaited step has been forgotten.

## What is not modelled

- The encoding of records and the CRC: sequential conversions with unit tests of their own.
- Renaming, genders and species tables: data the rules do not look at.
- Pages of the personal computer (`readPcPage`): a sorted reading of the roster. Its order only shows with more records
  than the game's run can have: with three records `game_rules` has millions of states.
- The screens, artwork and layout: menus over the service. What the manager's model says of an activity's code (the
  calls it makes, the lock it takes) holds for all of them, not what each draws.
- The reader policies (debounced saves, guards of manual turns, repositioning, sleep and wake): sequential functions
  without shared state, which the repository's own tests step through.
- The EPUB reader beyond its page turns; the settings and other JSON stores, which are loaded and saved whole; the web
  server, WebDAV and downloads.
- Book formats, fonts, images, hyphenation tables, drivers and vendored libraries. They are nearly all of the
  repository's lines (generated fonts and tables alone several hundred thousand), hold no protocol, and
  keep the share of lines the model stands for small, whatever is modelled of the rest.

Four hazards are in the models, but no property covers them, since nothing says what is right (`PROJECT.json` has each
with its reason): the unsaved minutes that `reset()` leaves to the next game, an alert or the sleep screen replaced by a
late request, a suggestion mark that outlives its list, and a lookup refused while the worker ends the one before.

## Plan

Done: the store, turn verification, reading credit, rules and levels; the activity manager with
`requestUpdateAndWait`; dictionary lookups; firmware updates; theorems for each of them.

Next, in this order:

1. `PokemonScreens`: the prompts that `PokemonActivity` derives from the queue, and stale selections.
2. `PersonalComputer`: the pages of `readPcPage` against the sorted roster, over rosters without a game.
3. Reader policies: the debouncer of progress saves and the guard of manual turns, composed with the XTC reader.
4. What a `render()` may read before `onEnter()` has returned, for the screens pushed while a render is under way.
