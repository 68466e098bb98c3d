----------------------------- MODULE ReadingCredit -----------------------------
(***************************************************************************)
(* Reading sessions of PokemonService: the open reader feeds verified page *)
(* turns and the clock to the tracker, which banks whole minutes in the    *)
(* save.  The save is the abstract one of DurableSave, which the two-file  *)
(* store implements: a commit may succeed, may fail without a trace, or    *)
(* may fail and yet be what the next start finds.                          *)
(*                                                                         *)
(* A save is reduced to whether the party has a leader and to the minutes  *)
(* banked.  The progress percentage stands for the book it belongs to:     *)
(* 0 until a turn is verified, then the number of the book.                *)
(***************************************************************************)
EXTENDS PokemonTracker

CONSTANTS
    Books,      \* progress values of the books read, a subset of 1 .. 100
    ClockMod,   \* 2^32 / 1000 rounded up: where the seconds of millis() wrap
    Boots,      \* the clock when a behaviour starts: just booted, or about to wrap
    Gaps,       \* seconds that may pass between two loops of the reader
    MaxReading, \* bound on the seconds read in a behaviour
    MaxTurns    \* bound on the turns verified in a behaviour

ASSUME ReadingAssumption ==
    /\ Books \subseteq 1 .. 100
    /\ ClockMod \in Nat \ {0} /\ ClockMod + ActiveWindow < WordMod
    /\ Boots \subseteq 0 .. (ClockMod - 1)
    /\ MaxReading + ActiveWindow < ClockMod  \* nobody reads for 49 days on end
    /\ Gaps \subseteq Nat /\ MaxReading \in Nat /\ MaxTurns \in Nat

VARIABLES
    clock,          \* millis() / 1000
    tracker,        \* tracker_ of the service
    sessionActive,  \* readingSessionActive_
    book,           \* the book the reader has open; 0: no reader is open
    saved, recover, \* the save: see DurableSave
    failing,        \* the last call of the credit callback failed
    reading,        \* seconds that passed in active sessions
    turns,          \* turns verified in active sessions
    owner           \* the book in which the minutes not yet banked were read

vars == <<clock, tracker, sessionActive, book, saved, recover, failing, reading, turns, owner>>
save == <<saved, recover>>

Saves == [kind : {"Save"}, leader : BOOLEAN, minutes : Nat]
NewSave == [kind |-> "Save", leader |-> TRUE, minutes |-> 0]
NoSave == [kind |-> "Empty"]
Lost == [kind |-> "Corrupt"]
Blocked == [kind |-> "Unsupported"]

Save == INSTANCE DurableSave WITH Values <- Saves

HasLeader == saved.kind = "Save" /\ saved.leader

Init ==
    /\ clock \in Boots
    /\ tracker = NewTracker
    /\ sessionActive = FALSE
    /\ book = 0
    /\ saved \in {NoSave, NewSave}
    /\ recover = {saved}
    /\ failing = FALSE
    /\ reading = 0 /\ turns = 0 /\ owner = 0

\* A commit that fails leaves the save alone, for good or until the next start.
CommitFails(v) == UNCHANGED save \/ Save!Attempt(v)

---------------------------------------------------------------------------------
(* The credit callback and its three callers                                   *)

Credited(t) == [saved EXCEPT !.minutes = @ + Due(t)]

\* Plausible bug: minutes are due only when they are exactly the least number.
IsDueExactly(t, least) == WholeMinutes(t) = least

\* commitWholeMinutes() calls back for `least' whole minutes and more.
IsDue(t, least) == WholeMinutes(t) >= least

\* commitWholeMinutes() of tracker t with fewer whole minutes than `least'.
NothingDue(t, least) ==
    /\ ~ IsDue(t, least)
    /\ tracker' = t
    /\ UNCHANGED <<save, failing>>

\* creditMinutes() returns true.
CreditSucceeds(t, least) ==
    /\ IsDue(t, least)
    /\ HasLeader
    /\ Save!Acknowledge(Credited(t))
    /\ tracker' = Committed(t)
    /\ failing' = FALSE

\* Plausible bug: minutes whose commit failed count as committed.
CreditFailsButCounts(t, least) ==
    /\ IsDue(t, least)
    /\ \/ HasLeader /\ CommitFails(Credited(t))
       \/ UNCHANGED save
    /\ tracker' = Committed(t)
    /\ failing' = TRUE

\* creditMinutes() returns false: nothing could be read, or the commit failed.
CreditFails(t, least) ==
    /\ IsDue(t, least)
    /\ \/ HasLeader /\ CommitFails(Credited(t))
       \/ UNCHANGED save
    /\ tracker' = t
    /\ failing' = TRUE

\* Time passes before the next loop of an open reader.
Elapse(seconds) ==
    /\ reading + seconds <= MaxReading
    /\ clock' = (clock + seconds) % ClockMod
    /\ reading' = IF sessionActive THEN reading + seconds ELSE reading

\* The tracker as loop() has it after consume() and, in checkpointIfDue(), tick():
\* `turned' says whether a turn was verified, `ago' how long before this loop.
LoopTracker(turned, ago) ==
    Tick(IF turned THEN OnTurn(tracker, (clock' - ago) % ClockMod, book) ELSE tracker, clock')

\* What a loop of the reader has in common, whatever becomes of its checkpoint.
Loop(seconds, turned, ago) ==
    /\ sessionActive
    /\ Elapse(seconds)
    /\ ago <= seconds
    /\ turned => turns < MaxTurns
    /\ turns' = IF turned THEN turns + 1 ELSE turns
    /\ UNCHANGED <<sessionActive, book, owner>>

Checkpoint ==
    \E seconds, ago \in Gaps, turned \in BOOLEAN :
        /\ Loop(seconds, turned, ago)
        /\ CreditSucceeds(LoopTracker(turned, ago), CheckpointMinutes)

CheckpointFails ==
    \E seconds, ago \in Gaps, turned \in BOOLEAN :
        /\ Loop(seconds, turned, ago)
        /\ CreditFails(LoopTracker(turned, ago), CheckpointMinutes)

CheckpointNotDue ==
    \E seconds, ago \in Gaps, turned \in BOOLEAN :
        /\ Loop(seconds, turned, ago)
        /\ NothingDue(LoopTracker(turned, ago), CheckpointMinutes)

---------------------------------------------------------------------------------
(* Opening and closing a reader                                                *)

\* The reader opens, but the save cannot be read or has no leader yet.
OpenWithoutSession(b) ==
    /\ book = 0
    /\ book' = b
    /\ sessionActive' = FALSE
    /\ UNCHANGED <<clock, tracker, save, failing, reading, turns, owner>>

\* The reader opens and nothing is left to retry, or the retry succeeds.
OpenWithSession(b) ==
    LET t == Retry(tracker) IN
    /\ book = 0 /\ HasLeader
    /\ book' = b
    /\ sessionActive' = TRUE
    /\ owner' = b
    /\ \/ /\ ~ IsDue(t, 1)
          /\ tracker' = Begun(t)
          /\ UNCHANGED <<save, failing>>
       \/ /\ IsDue(t, 1)
          /\ Save!Acknowledge(Credited(t))
          /\ tracker' = Begun(Committed(t))
          /\ failing' = FALSE
    /\ UNCHANGED <<clock, reading, turns>>

\* The retry fails: the minutes stay pending and this session is not credited.
OpenRetryFails(b) ==
    /\ book = 0 /\ HasLeader
    /\ book' = b
    /\ sessionActive' = FALSE
    /\ CreditFails(Retry(tracker), 1)
    /\ UNCHANGED <<clock, reading, turns, owner>>

Open == \E b \in Books : OpenWithoutSession(b) \/ OpenWithSession(b) \/ OpenRetryFails(b)

\* flushOnExit() of a session: what is left of whole minutes is banked, or kept.
Close ==
    /\ sessionActive
    /\ \E seconds \in Gaps :
         /\ Elapse(seconds)
         /\ LET t == Tick(tracker, clock')
            IN  NothingDue(t, 1) \/ CreditSucceeds(t, 1) \/ CreditFails(t, 1)
    /\ sessionActive' = FALSE
    /\ book' = 0
    /\ UNCHANGED <<turns, owner>>

CloseWithoutSession ==
    /\ book # 0 /\ ~ sessionActive
    /\ book' = 0
    /\ UNCHANGED <<clock, tracker, sessionActive, save, failing, reading, turns, owner>>

---------------------------------------------------------------------------------
(* Other users of the save, and power                                          *)

\* reset(), from the game's own screen: the minutes not yet banked stay pending.
Reset ==
    LET empty == [NewSave EXCEPT !.leader = FALSE] IN
    /\ book = 0
    /\ sessionActive' = FALSE
    /\ Save!Acknowledge(empty) \/ CommitFails(empty)
    /\ UNCHANGED <<clock, tracker, book, failing, reading, turns, owner>>

CreateStarter ==
    /\ book = 0 /\ ~ HasLeader
    /\ Save!Acknowledge(NewSave) \/ CommitFails(NewSave)
    /\ UNCHANGED <<clock, tracker, sessionActive, book, failing, reading, turns, owner>>

PowerLoss ==
    /\ Save!Restart
    /\ clock' = 0
    /\ tracker' = NewTracker
    /\ sessionActive' = FALSE
    /\ book' = 0
    /\ failing' = FALSE
    /\ owner' = 0
    /\ UNCHANGED <<reading, turns>>

ReaderLoop == Checkpoint \/ CheckpointFails \/ CheckpointNotDue

Next == \/ Checkpoint \/ CheckpointFails \/ CheckpointNotDue
        \/ Open \/ Close \/ CloseWithoutSession
        \/ Reset \/ CreateStarter \/ PowerLoss

\* main.cpp calls the loop of an open reader again and again.  Its checkpoint may
\* fail each time; a failure that changes nothing is a stuttering step, no loop.
Fairness == WF_vars(ReaderLoop)

Spec == Init /\ [][Next]_vars
LiveSpec == Spec /\ Fairness

---------------------------------------------------------------------------------
(* Properties                                                                  *)

TypeOK ==
    /\ clock \in 0 .. (ClockMod - 1)
    /\ tracker \in Trackers
    /\ sessionActive \in BOOLEAN /\ failing \in BOOLEAN
    /\ book \in Books \cup {0} /\ owner \in Books \cup {0}
    /\ saved \in Save!Outcomes
    /\ recover \in SUBSET Save!Outcomes
    /\ reading \in 0 .. MaxReading /\ turns \in 0 .. MaxTurns
    /\ sessionActive => book # 0

Minutes(v) == IF v.kind = "Save" THEN v.minutes ELSE 0

\* No second is credited twice, whatever fails and whenever power is lost: what
\* is banked in the save, in any save the next start may find, and what is
\* pending for it never exceed the seconds read in sessions (the retry of
\* beginSession() and commitWholeMinutes()).
NoSecondIsCreditedTwice ==
    /\ Minutes(saved) * MinuteSeconds + Pending(tracker) <= reading
    /\ \A v \in recover : Minutes(v) * MinuteSeconds <= reading

\* A start that finds v finds what was banked: no minutes but those acknowledged
\* and those still pending, and all that were acknowledged, unless it finds the
\* game reset.
IsWhatWasBanked(v) ==
    /\ Minutes(v) <= Minutes(saved) + WholeMinutes(tracker)
    /\ HasLeader => v.kind = "Save" /\ (v.leader => v.minutes >= saved.minutes)

\* Every save the next start may find is what was banked, however many credits,
\* resets and new games failed before: a credit that failed and is nevertheless
\* found was pending until the end (creditMinutes() and commitWholeMinutes()).
BankedMinutesSurvive == \A v \in recover : IsWhatWasBanked(v)

\* A whole minute once credited is banked or kept for a retry, across failed
\* commits, closed readers, new sessions and a new game; only a reset takes banked
\* minutes away, and a power loss no more than those that were still pending.
WholeMinutesAreKept ==
    [][\/ Reset
       \/ PowerLoss /\ IsWhatWasBanked(saved')
       \/ Minutes(saved') + WholeMinutes(tracker') >= Minutes(saved) + WholeMinutes(tracker)]_vars

\* While commits succeed, a power loss costs less than one checkpoint of minutes.
CheckpointBoundsTheLoss == ~ failing => WholeMinutes(tracker) < CheckpointMinutes

\* Time is credited around turns only: one verified turn is worth at most the
\* active window that follows it and one window of the loop that found it.
TurnsBoundTheCredit ==
    Minutes(saved) * MinuteSeconds + Pending(tracker) <= 2 * ActiveWindow * turns

\* Minutes are banked with the progress of the book in which they were read,
\* also when they are retried at the start of a session with another book.
CreditUsesItsOwnBook == WholeMinutes(tracker) > 0 => tracker.progress = owner

\* If the save accepts commits again, minutes that are due reach it as long as the
\* reader stays open: no loop passes over them (checkpointIfDue()).
DueMinutesAreBanked ==
    <>[][~ CheckpointFails]_vars
        => (sessionActive /\ WholeMinutes(tracker) >= CheckpointMinutes
                ~> WholeMinutes(tracker) < CheckpointMinutes \/ ~ sessionActive)
=================================================================================
