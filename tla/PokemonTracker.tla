----------------------------- MODULE PokemonTracker -----------------------------
(***************************************************************************)
(* The arithmetic of the reading tracker: elapsed seconds are credited     *)
(* while a manual page turn happened in the trailing active window, and    *)
(* whole minutes are handed to the save by a callback that may fail.       *)
(* A tracker is a record; every method is an operator from tracker to      *)
(* tracker, and the composition with the save is in ReadingCredit.         *)
(***************************************************************************)
EXTENDS Integers

CONSTANTS
    MinuteSeconds,      \* 60
    ActiveWindow,       \* ACTIVE_WINDOW_SECONDS = 300
    CheckpointMinutes,  \* CHECKPOINT_MINUTES = 5
    MaxMinutes,         \* the greatest uint16_t: minutes of one callback
    WordMod             \* 2^32: the modulus of the counters

ASSUME TrackerAssumption ==
    /\ MinuteSeconds \in Nat \ {0}
    /\ ActiveWindow \in Nat \ {0}
    /\ CheckpointMinutes \in Nat \ {0}
    /\ MaxMinutes \in Nat \ {0}
    /\ WordMod \in Nat /\ WordMod > ActiveWindow

Words == 0 .. (WordMod - 1)
Progress == 0 .. 100

Trackers == [lastTick : Words, lastTurn : Words, credited : Words, committed : Words,
             progress : Progress, started : BOOLEAN, sawTurn : BOOLEAN]

NewTracker == [lastTick |-> 0, lastTurn |-> 0, credited |-> 0, committed |-> 0,
               progress |-> 0, started |-> FALSE, sawTurn |-> FALSE]

Smaller(a, b) == IF a < b THEN a ELSE b

\* The unsigned subtraction of the code.
Since(a, b) == IF a >= b THEN a - b ELSE a - b + WordMod

Pending(t) == Since(t.credited, t.committed)
WholeMinutes(t) == Pending(t) \div MinuteSeconds

\* The minutes one callback carries.
Due(t) == Smaller(WholeMinutes(t), MaxMinutes)

\* Plausible bug: elapsed time is credited without looking at the last turn.
TickAlways(t, now) ==
    IF ~ t.started \/ now < t.lastTick THEN [t EXCEPT !.started = TRUE, !.lastTick = now]
    ELSE [t EXCEPT !.lastTick = now, !.credited = @ + (now - t.lastTick)]

\* tick(): a clock that went back, and the first tick, only restart the count.
Tick(t, now) ==
    LET ticked == [t EXCEPT !.started = TRUE, !.lastTick = now]
        active == t.sawTurn /\ Since(now, t.lastTurn) <= ActiveWindow
    IN  IF t.started /\ now >= t.lastTick /\ active
        THEN [ticked EXCEPT !.credited =
                 Smaller(@ + Smaller(now - t.lastTick, ActiveWindow), WordMod - 1)]
        ELSE ticked

\* setBookProgressPercent() and onSuccessfulPageTurn() of one verified turn.
OnTurn(t, at, percent) ==
    [t EXCEPT !.progress = Smaller(percent, 100),
              !.lastTick = IF t.started THEN @ ELSE at,
              !.started = TRUE,
              !.lastTurn = at,
              !.sawTurn = TRUE]

\* commitWholeMinutes() after a callback that succeeded.
Committed(t) == [t EXCEPT !.committed = (@ + Due(t) * MinuteSeconds) % WordMod]

\* Plausible bug: only one of the two counters is reset for the retry.
RetryTwice(t) == [t EXCEPT !.started = FALSE, !.sawTurn = FALSE, !.committed = 0]

\* Plausible bug: the minutes to retry lose the progress they were read at.
RetryWithoutProgress(t) == [NewTracker EXCEPT !.credited = WholeMinutes(t) * MinuteSeconds]

\* beginSession() up to its callback: whole minutes that could not be saved are
\* kept, with the progress they were read at; the rest of a minute is not.
Retry(t) ==
    LET seconds == WholeMinutes(t) * MinuteSeconds IN
    [NewTracker EXCEPT !.credited = seconds,
                       !.progress = IF seconds = 0 THEN 0 ELSE t.progress]

\* beginSession() that returns true.
Begun(t) == [t EXCEPT !.progress = 0]
=================================================================================
