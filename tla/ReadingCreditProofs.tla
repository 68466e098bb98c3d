--------------------------- MODULE ReadingCreditProofs ---------------------------
(***************************************************************************)
(* Reading credit, for any books, windows, clock and save.                 *)
(*                                                                         *)
(* The proof keeps one ledger: the seconds banked in the save, those       *)
(* pending in the tracker and those the active window may still give never *)
(* exceed what was read, nor what the turns are worth.  Every loop of a    *)
(* reader grows the tracker by no more than the seconds that passed, and   *)
(* settles it: nothing was due, minutes moved to the save, or they stayed. *)
(* What a power loss may bring back is a second invariant: a credit that   *)
(* failed is pending as long as a later start may find it.                 *)
(***************************************************************************)
EXTENDS ReadingCredit, TLAPS

---------------------------------------------------------------------------------
(* Division into minutes                                                       *)

\* The quotient is the greatest number of whole divisors.
LEMMA Quotient ==
    ASSUME NEW x \in Nat, NEW k \in Nat \ {0}
    PROVE  x \div k \in Nat /\ (x \div k) * k <= x /\ x < ((x \div k) + 1) * k
  BY SMTT(30)

\* Whole minutes turned into seconds and back are the same minutes.
LEMMA WholeQuotient ==
    ASSUME NEW n \in Nat, NEW k \in Nat \ {0}
    PROVE  (n * k) \div k = n
  BY SMTT(30)

\* Whole minutes taken away leave the others.
LEMMA QuotientOfRest ==
    ASSUME NEW x \in Nat, NEW n \in Nat, NEW k \in Nat \ {0}, n * k <= x
    PROVE  (x - n * k) \div k = (x \div k) - n
  BY SMTT(30)

\* More seconds are as many minutes, or more.
LEMMA QuotientGrows ==
    ASSUME NEW x \in Nat, NEW y \in Nat, x <= y, NEW k \in Nat \ {0}
    PROVE  x \div k <= y \div k
  BY SMTT(30)

\* Fewer seconds than n minutes are fewer minutes.
LEMMA SmallQuotient ==
    ASSUME NEW x \in Nat, NEW n \in Nat, NEW k \in Nat \ {0}, x <= n * k
    PROVE  x \div k <= n
  BY SMTT(30)

\* Products grow with their first factor.
LEMMA ProductGrows ==
    ASSUME NEW m \in Nat, NEW n \in Nat, m <= n, NEW k \in Nat
    PROVE  m * k \in Nat /\ n * k \in Nat /\ m * k <= n * k /\ (m + n) * k = m * k + n * k
  BY SMTT(30)

\* A remainder is below its modulus, and the number itself when that already is.
LEMMA Remainder ==
    ASSUME NEW x \in Int, NEW k \in Nat \ {0}
    PROVE  x % k \in 0 .. (k - 1) /\ (x \in 0 .. (k - 1) => x % k = x)
  BY SMTT(30)

\* A clock that moves on by less than its modulus wraps once or not at all.
LEMMA ClockMoves ==
    ASSUME NEW x, NEW d \in Nat, NEW k \in Nat \ {0}, x \in 0 .. (k - 1), d < k
    PROVE  /\ (x + d) % k = IF x + d < k THEN x + d ELSE x + d - k
           /\ (x - d) % k = IF x < d THEN x - d + k ELSE x - d
  BY SMTT(30)

---------------------------------------------------------------------------------
(* What the operators of the tracker return                                    *)

\* The seconds a tracker holds for its save, and whether they are counted right.
Counted(t) == t.committed <= t.credited

\* What the active window may still credit at time `now'.
Window(t, now) ==
    IF t.sawTurn /\ Since(now, t.lastTurn) <= ActiveWindow
    THEN ActiveWindow - Since(now, t.lastTurn) ELSE 0

\* The seconds since the last turn, on a clock that may have wrapped.
Ago(t, now) == IF now >= t.lastTurn THEN now - t.lastTurn ELSE now - t.lastTurn + ClockMod

\* Nothing is pending in a new tracker.
LEMMA NewTrackerFacts == NewTracker \in Trackers /\ Counted(NewTracker) /\ Pending(NewTracker) = 0
  BY TrackerAssumption DEF NewTracker, Trackers, Words, Progress, Counted, Pending, Since

\* The unsigned difference of counters that did not wrap is the difference.
LEMMA PendingFacts ==
    ASSUME NEW t \in Trackers, Counted(t)
    PROVE  /\ Pending(t) = t.credited - t.committed /\ Pending(t) \in Nat
           /\ WholeMinutes(t) \in Nat /\ Due(t) \in Nat
           /\ Due(t) <= WholeMinutes(t) /\ Due(t) <= MaxMinutes
           /\ WholeMinutes(t) <= MaxMinutes => Due(t) = WholeMinutes(t)
           /\ Due(t) * MinuteSeconds \in Nat
           /\ Due(t) * MinuteSeconds <= Pending(t)
           /\ WholeMinutes(t) * MinuteSeconds \in Nat
           /\ WholeMinutes(t) * MinuteSeconds <= Pending(t)
<1> USE TrackerAssumption
<1>1. t.credited \in Words /\ t.committed \in Words
  BY DEF Trackers
<1>2. Pending(t) = t.credited - t.committed /\ Pending(t) \in Nat
  BY <1>1 DEF Counted, Pending, Since, Words
<1>3. /\ WholeMinutes(t) \in Nat
      /\ WholeMinutes(t) * MinuteSeconds <= Pending(t)
  BY <1>2, Quotient DEF WholeMinutes
<1>4. Due(t) \in Nat /\ Due(t) <= WholeMinutes(t) /\ Due(t) <= MaxMinutes
      /\ (WholeMinutes(t) <= MaxMinutes => Due(t) = WholeMinutes(t))
  BY <1>3 DEF Due, Smaller
<1>5. /\ Due(t) * MinuteSeconds \in Nat
      /\ Due(t) * MinuteSeconds <= WholeMinutes(t) * MinuteSeconds
      /\ WholeMinutes(t) * MinuteSeconds \in Nat
  BY <1>3, <1>4, ProductGrows
<1> HIDE DEF Pending
<1> QED
  BY <1>2, <1>3, <1>4, <1>5

\* tick() credits at most the time since the last tick, and only in the window.
LEMMA TickFacts ==
    ASSUME NEW t \in Trackers, NEW now \in Words
    PROVE  LET u == Tick(t, now)
           IN  /\ u \in Trackers
               /\ u.started /\ u.lastTick = now
               /\ u.committed = t.committed /\ u.progress = t.progress
               /\ u.sawTurn = t.sawTurn /\ u.lastTurn = t.lastTurn
               /\ t.credited <= u.credited
               /\ u.credited # t.credited =>
                     /\ t.started /\ now >= t.lastTick /\ t.sawTurn
                     /\ Since(now, t.lastTurn) <= ActiveWindow
                     /\ u.credited <= t.credited + (now - t.lastTick)
                     /\ u.credited <= t.credited + ActiveWindow
<1> USE TrackerAssumption
<1> DEFINE u == Tick(t, now)
           active == t.sawTurn /\ Since(now, t.lastTurn) <= ActiveWindow
           grown == Smaller(t.credited + Smaller(now - t.lastTick, ActiveWindow), WordMod - 1)
           ticked == [t EXCEPT !.started = TRUE, !.lastTick = now]
<1>1. /\ t.lastTick \in Words /\ t.lastTurn \in Words /\ t.credited \in Words
      /\ t.committed \in Words /\ t.progress \in Progress /\ t.sawTurn \in BOOLEAN
  BY DEF Trackers
<1>2. /\ ticked \in Trackers /\ ticked.started /\ ticked.lastTick = now
      /\ ticked.committed = t.committed /\ ticked.progress = t.progress
      /\ ticked.sawTurn = t.sawTurn /\ ticked.lastTurn = t.lastTurn /\ ticked.credited = t.credited
  BY DEF Trackers
<1>3. now >= t.lastTick =>
         /\ grown \in Words /\ t.credited <= grown
         /\ grown <= t.credited + (now - t.lastTick) /\ grown <= t.credited + ActiveWindow
  BY <1>1 DEF Smaller, Words
<1>4. u = IF t.started /\ now >= t.lastTick /\ active
          THEN [ticked EXCEPT !.credited = grown] ELSE ticked
  BY <1>2 DEF Tick
<1> HIDE DEF u, ticked, grown
<1>5. CASE t.started /\ now >= t.lastTick /\ active
  <2>1. u = [ticked EXCEPT !.credited = grown]
    BY <1>4, <1>5
  <2>2. /\ u \in Trackers /\ u.started /\ u.lastTick = now
        /\ u.committed = t.committed /\ u.progress = t.progress
        /\ u.sawTurn = t.sawTurn /\ u.lastTurn = t.lastTurn /\ u.credited = grown
    BY <1>2, <1>3, <1>5, <2>1 DEF Trackers
  <2> QED
    BY <1>3, <1>5, <2>2 DEF u
<1>6. CASE ~ (t.started /\ now >= t.lastTick /\ active)
  <2>1. u = ticked
    BY <1>4, <1>6
  <2> QED
    BY <1>1, <1>2, <2>1 DEF u, Words
<1> QED
  BY <1>5, <1>6

\* onSuccessfulPageTurn() credits nothing itself.
LEMMA OnTurnFacts ==
    ASSUME NEW t \in Trackers, NEW at \in Words, NEW percent \in Books
    PROVE  LET u == OnTurn(t, at, percent)
           IN  /\ u \in Trackers
               /\ u.started /\ u.lastTick = IF t.started THEN t.lastTick ELSE at
               /\ u.committed = t.committed /\ u.credited = t.credited
               /\ u.progress = percent /\ u.sawTurn /\ u.lastTurn = at
<1> DEFINE u == OnTurn(t, at, percent)
<1>1. percent \in 1 .. 100
  BY ReadingAssumption
<1>2. Smaller(percent, 100) = percent
  BY <1>1 DEF Smaller
<1>3. u = [t EXCEPT !.progress = percent, !.lastTick = IF t.started THEN @ ELSE at,
                    !.started = TRUE, !.lastTurn = at, !.sawTurn = TRUE]
  BY <1>2 DEF OnTurn
<1>4. u = [lastTick |-> IF t.started THEN t.lastTick ELSE at, lastTurn |-> at,
           credited |-> t.credited, committed |-> t.committed,
           progress |-> percent, started |-> TRUE, sawTurn |-> TRUE]
  BY <1>3 DEF Trackers
<1>5. /\ t.lastTick \in Words /\ t.credited \in Words /\ t.committed \in Words
      /\ t.started \in BOOLEAN /\ percent \in Progress
  BY <1>1 DEF Trackers, Progress
<1> HIDE DEF u
<1>6. u \in Trackers
  BY <1>4, <1>5 DEF Trackers
<1> QED
  BY <1>4, <1>6 DEF u

\* A callback that succeeded leaves what it did not carry.
LEMMA CommittedFacts ==
    ASSUME NEW t \in Trackers, Counted(t)
    PROVE  LET u == Committed(t)
           IN  /\ u \in Trackers /\ Counted(u)
               /\ u.credited = t.credited /\ u.started = t.started /\ u.lastTick = t.lastTick
               /\ u.progress = t.progress /\ u.sawTurn = t.sawTurn /\ u.lastTurn = t.lastTurn
               /\ Pending(u) = Pending(t) - Due(t) * MinuteSeconds
               /\ WholeMinutes(u) = WholeMinutes(t) - Due(t)
<1> USE TrackerAssumption
<1> DEFINE u == Committed(t)
           paid == Due(t) * MinuteSeconds
<1>1. t.credited \in Words /\ t.committed \in Words
  BY DEF Trackers
<1>2. /\ paid \in Nat /\ paid <= t.credited - t.committed
      /\ Pending(t) = t.credited - t.committed /\ Pending(t) \in Nat /\ Due(t) \in Nat
  BY PendingFacts
<1> HIDE DEF paid
<1>3. t.committed + paid \in 0 .. (WordMod - 1)
  BY <1>1, <1>2 DEF Words
<1>4. (t.committed + paid) % WordMod = t.committed + paid
  <2>1. t.committed + paid \in Int /\ WordMod \in Nat \ {0}
    BY <1>1, <1>2 DEF Words
  <2> QED
    BY <1>3, <2>1, Remainder
<1>5. u = [t EXCEPT !.committed = t.committed + paid]
  BY <1>4 DEF Committed, paid, Trackers
<1>6. u \in Trackers
  BY <1>3, <1>5 DEF Trackers, Words
<1>7. /\ u.credited = t.credited /\ u.started = t.started /\ u.lastTick = t.lastTick
      /\ u.progress = t.progress /\ u.sawTurn = t.sawTurn /\ u.lastTurn = t.lastTurn
      /\ u.committed = t.committed + paid
  BY <1>5 DEF Trackers
<1> HIDE DEF u
<1>8. Counted(u)
  BY <1>1, <1>2, <1>7 DEF Counted, Words
<1>9. Pending(u) = Pending(t) - paid
  BY <1>1, <1>2, <1>6, <1>7, <1>8, PendingFacts DEF Words
<1>10. WholeMinutes(u) = WholeMinutes(t) - Due(t)
  BY <1>2, <1>9, QuotientOfRest DEF paid, WholeMinutes
<1> QED
  BY <1>6, <1>7, <1>8, <1>9, <1>10 DEF u, paid

\* The retry keeps the whole minutes, and only those.
LEMMA RetryFacts ==
    ASSUME NEW t \in Trackers, Counted(t)
    PROVE  LET u == Retry(t)
           IN  /\ u \in Trackers /\ Counted(u)
               /\ ~ u.started /\ ~ u.sawTurn
               /\ Pending(u) <= Pending(t)
               /\ WholeMinutes(u) = WholeMinutes(t)
               /\ WholeMinutes(u) = 0 => Pending(u) = 0
               /\ WholeMinutes(u) > 0 => u.progress = t.progress
<1> USE TrackerAssumption
<1> DEFINE u == Retry(t)
           seconds == WholeMinutes(t) * MinuteSeconds
<1>1. t.credited \in Words /\ t.committed \in Words /\ t.progress \in Progress
  BY DEF Trackers
<1>2. /\ seconds \in Nat /\ seconds <= t.credited - t.committed
      /\ Pending(t) = t.credited - t.committed /\ Pending(t) \in Nat /\ WholeMinutes(t) \in Nat
  BY PendingFacts
<1>3. u = [NewTracker EXCEPT !.credited = seconds, !.progress = IF seconds = 0 THEN 0 ELSE t.progress]
  BY DEF Retry
<1>4. seconds \div MinuteSeconds = WholeMinutes(t)
  BY <1>2, WholeQuotient
<1>5. WholeMinutes(t) = 0 => seconds = 0
  BY <1>2
<1>6. seconds = 0 => WholeMinutes(t) = 0
  BY <1>2
<1> HIDE DEF seconds
<1>7. u = [lastTick |-> 0, lastTurn |-> 0, credited |-> seconds, committed |-> 0,
           progress |-> IF seconds = 0 THEN 0 ELSE t.progress, started |-> FALSE, sawTurn |-> FALSE]
  BY <1>3 DEF NewTracker
<1>8. seconds \in Words
  BY <1>1, <1>2 DEF Words
<1> HIDE DEF u
<1>9. u \in Trackers /\ Counted(u) /\ ~ u.started /\ ~ u.sawTurn
  BY <1>1, <1>7, <1>8 DEF Trackers, Words, Progress, Counted
<1>10. Pending(u) = seconds
  BY <1>2, <1>7 DEF Pending, Since
<1>11. WholeMinutes(u) = WholeMinutes(t)
  BY <1>4, <1>10 DEF WholeMinutes
<1>12. WholeMinutes(u) > 0 => u.progress = t.progress
  BY <1>5, <1>6, <1>7, <1>11
<1> QED
  BY <1>2, <1>5, <1>9, <1>10, <1>11, <1>12 DEF u

\* beginSession() that returns true changes the progress only.
LEMMA BegunFacts ==
    ASSUME NEW t \in Trackers
    PROVE  LET u == Begun(t)
           IN  /\ u \in Trackers /\ (Counted(t) => Counted(u))
               /\ u.started = t.started /\ u.sawTurn = t.sawTurn /\ u.progress = 0
               /\ Pending(u) = Pending(t) /\ WholeMinutes(u) = WholeMinutes(t)
  BY DEF Begun, Trackers, Progress, Counted, Pending, WholeMinutes

---------------------------------------------------------------------------------
(* The invariant                                                               *)

\* A session credits its own book, from its last tick, and knows its last turn.
SessionInv ==
    sessionActive =>
        /\ owner = book
        /\ tracker.started => tracker.lastTick = clock
        /\ tracker.sawTurn => /\ tracker.progress = book
                              /\ tracker.lastTurn < ClockMod /\ Ago(tracker, clock) <= reading

\* What the seconds banked in save v are worth.
Banked(v) == Minutes(v) * MinuteSeconds

OpenWindow == IF sessionActive THEN Window(tracker, clock) ELSE 0
TurnsWorth == 2 * ActiveWindow * turns

\* Banked, pending and still to come stay below what was read and turned.
LedgerInv ==
    /\ Banked(saved) + Pending(tracker) <= reading
    /\ Banked(saved) + Pending(tracker) + OpenWindow <= TurnsWorth
    /\ \A v \in recover : Banked(v) <= reading /\ Banked(v) <= TurnsWorth

CreditInv == TypeOK /\ Counted(tracker) /\ SessionInv /\ LedgerInv

\* What is read in a behaviour fits one callback, 45 days with the firmware's
\* uint16_t: only then does a callback that succeeded leave no whole minute.
ReadingFitsOneCallback == MaxReading <= MaxMinutes * MinuteSeconds

BookInv == CreditInv /\ CreditUsesItsOwnBook /\ CheckpointBoundsTheLoss

\* The minutes of a save are a number, and no minute is worth nothing.
LEMMA BankedFacts ==
    ASSUME NEW v \in Save!Outcomes
    PROVE  Minutes(v) \in Nat /\ Banked(v) \in Nat /\ (Minutes(v) = 0 => Banked(v) = 0)
<1>1. Minutes(v) \in Nat
  BY DEF Save!Outcomes, Saves, NoSave, Lost, Blocked, Minutes
<1> QED
  BY <1>1, TrackerAssumption, ProductGrows DEF Banked

\* The save a callback writes holds the minutes it was given.
LEMMA CreditedFacts ==
    ASSUME saved \in Save!Outcomes, HasLeader, NEW t \in Trackers, Counted(t)
    PROVE  /\ Credited(t) \in Saves /\ Credited(t) \in Save!Outcomes
           /\ Minutes(Credited(t)) = Minutes(saved) + Due(t)
           /\ Banked(Credited(t)) = Banked(saved) + Due(t) * MinuteSeconds
<1>1. saved \in Saves /\ saved.kind = "Save"
  BY DEF Save!Outcomes, HasLeader, NoSave, Lost, Blocked
<1>2. Due(t) \in Nat
  BY PendingFacts
<1>3. Credited(t) \in Saves /\ Minutes(Credited(t)) = Minutes(saved) + Due(t)
  BY <1>1, <1>2 DEF Credited, Saves, Minutes
<1>4. Minutes(saved) \in Nat
  BY <1>1 DEF Saves, Minutes
<1>5. (Minutes(saved) + Due(t)) * MinuteSeconds
         = Minutes(saved) * MinuteSeconds + Due(t) * MinuteSeconds
  BY <1>2, <1>4, TrackerAssumption
<1> QED
  BY <1>3, <1>5 DEF Banked, Save!Outcomes

---------------------------------------------------------------------------------
(* One loop: the clock, the turn, the tick                                     *)

\* A reader's clock moves by what is read, and wraps at most once.
LEMMA ElapseFacts ==
    ASSUME TypeOK, sessionActive, NEW seconds \in Gaps, Elapse(seconds)
    PROVE  /\ seconds \in Nat /\ seconds < ClockMod
           /\ reading' = reading + seconds /\ reading' \in 0 .. MaxReading
           /\ clock' \in 0 .. (ClockMod - 1) /\ clock' \in Words
           /\ clock' = IF clock + seconds < ClockMod THEN clock + seconds
                       ELSE clock + seconds - ClockMod
<1> USE ReadingAssumption, TrackerAssumption
<1>1. seconds \in Nat /\ reading + seconds <= MaxReading /\ reading \in Nat
  BY DEF Elapse, TypeOK
<1>2. seconds < ClockMod /\ clock \in 0 .. (ClockMod - 1)
  BY <1>1 DEF TypeOK
<1>3. clock' = (clock + seconds) % ClockMod /\ reading' = reading + seconds
  BY DEF Elapse
<1>4. clock' = IF clock + seconds < ClockMod THEN clock + seconds ELSE clock + seconds - ClockMod
  BY <1>1, <1>2, <1>3, ClockMoves
<1> QED
  BY <1>1, <1>2, <1>3, <1>4 DEF Words

\* What a tick makes of the tracker: no more than the seconds that passed are
\* credited, and no more than the window, with `worth' more for a turn.
Grown(t, seconds, worth) ==
    /\ t \in Trackers /\ Counted(t) /\ t.started /\ t.lastTick = clock'
    /\ Pending(tracker) <= Pending(t) /\ Pending(t) <= Pending(tracker) + seconds
    /\ Pending(t) + Window(t, clock') <= Pending(tracker) + OpenWindow + worth
    /\ t.sawTurn => t.progress = book /\ t.lastTurn < ClockMod /\ Ago(t, clock') <= reading'
    /\ t.progress \in {tracker.progress, book}
    /\ Pending(t) # Pending(tracker) => t.progress = book

\* A window is never longer than the active window.
LEMMA WindowFacts ==
    ASSUME NEW t \in Trackers, NEW now \in Words
    PROVE  Window(t, now) \in Nat /\ Window(t, now) <= ActiveWindow
<1>1. t.lastTurn \in Words
  BY DEF Trackers
<1> QED
  BY <1>1, TrackerAssumption DEF Window, Since, Words

\* A loop that found no turn: the window shrinks by what is credited.
LEMMA TickGrows ==
    ASSUME CreditInv, sessionActive, NEW seconds \in Gaps, Elapse(seconds)
    PROVE  Grown(Tick(tracker, clock'), seconds, 0)
<1> USE ReadingAssumption, TrackerAssumption
<1> DEFINE u == Tick(tracker, clock')
<1>1. /\ seconds \in Nat /\ seconds < ClockMod
      /\ reading' = reading + seconds /\ reading' <= MaxReading /\ reading \in Nat
      /\ clock' \in 0 .. (ClockMod - 1) /\ clock' \in Words
      /\ clock' = IF clock + seconds < ClockMod THEN clock + seconds
                  ELSE clock + seconds - ClockMod
  BY ElapseFacts DEF CreditInv, TypeOK
<1>2. /\ tracker \in Trackers /\ Counted(tracker) /\ clock \in 0 .. (ClockMod - 1)
      /\ tracker.lastTurn \in Words /\ tracker.credited \in Words /\ tracker.committed \in Words
      /\ tracker.started => tracker.lastTick = clock
      /\ tracker.sawTurn => /\ tracker.progress = book
                            /\ tracker.lastTurn < ClockMod /\ Ago(tracker, clock) <= reading
  BY DEF CreditInv, TypeOK, SessionInv, Trackers
<1>3. /\ u \in Trackers /\ u.started /\ u.lastTick = clock'
      /\ u.committed = tracker.committed /\ u.progress = tracker.progress
      /\ u.sawTurn = tracker.sawTurn /\ u.lastTurn = tracker.lastTurn
      /\ tracker.credited <= u.credited /\ u.credited \in Words
      /\ u.credited # tracker.credited =>
            /\ clock' >= clock /\ tracker.sawTurn
            /\ Since(clock', tracker.lastTurn) <= ActiveWindow
            /\ u.credited <= tracker.credited + (clock' - clock)
            /\ u.credited <= tracker.credited + ActiveWindow
  BY <1>1, <1>2, TickFacts DEF Trackers
<1> HIDE DEF u
<1>4. Counted(u)
  BY <1>2, <1>3 DEF Counted, Words
<1>5. /\ Pending(u) = u.credited - u.committed
      /\ Pending(tracker) = tracker.credited - tracker.committed
  BY <1>2, <1>3, <1>4, PendingFacts
<1>6. Pending(tracker) <= Pending(u) /\ Pending(u) <= Pending(tracker) + seconds
  BY <1>1, <1>2, <1>3, <1>5 DEF Words
<1>7. u.sawTurn => u.lastTurn < ClockMod /\ Ago(u, clock') <= reading'
  BY <1>1, <1>2, <1>3 DEF Ago, Words
<1>8. Pending(u) + Window(u, clock') <= Pending(tracker) + Window(tracker, clock)
  <2>1. CASE ~ tracker.sawTurn
    BY <1>1, <1>2, <1>3, <1>5, <2>1 DEF Window, Words
  <2>2. CASE tracker.sawTurn
    <3>1. Window(tracker, clock) = IF Since(clock, tracker.lastTurn) <= ActiveWindow
                THEN ActiveWindow - Since(clock, tracker.lastTurn) ELSE 0
      BY <2>2 DEF Window
    <3>2. Window(u, clock') = IF Since(clock', tracker.lastTurn) <= ActiveWindow
                THEN ActiveWindow - Since(clock', tracker.lastTurn) ELSE 0
      BY <1>3, <2>2 DEF Window
    <3>3. /\ Ago(tracker, clock) <= reading /\ tracker.lastTurn \in 0 .. (ClockMod - 1)
      BY <1>2, <2>2 DEF Words
    <3>4. Since(clock', tracker.lastTurn) <= ActiveWindow =>
             /\ clock' >= clock /\ clock >= tracker.lastTurn
             /\ Since(clock', tracker.lastTurn) = clock' - tracker.lastTurn
             /\ Since(clock, tracker.lastTurn) = clock - tracker.lastTurn
      BY <1>1, <1>2, <3>3 DEF Since, Ago
    <3>5. Window(tracker, clock) \in Nat
      BY <1>2, WindowFacts DEF Words
    <3> QED
      BY <1>1, <1>2, <1>3, <1>5, <3>1, <3>2, <3>3, <3>4, <3>5 DEF Words
  <2> QED
    BY <2>1, <2>2
<1>9. OpenWindow = Window(tracker, clock)
  BY DEF OpenWindow
<1>10. Window(tracker, clock) \in Nat
  BY <1>2, WindowFacts DEF Words
<1>11. u.sawTurn => u.progress = book
  BY <1>2, <1>3
<1>12. Pending(u) # Pending(tracker) => u.progress = book
  BY <1>2, <1>3, <1>5
<1> QED
  BY <1>2, <1>3, <1>4, <1>5, <1>6, <1>7, <1>8, <1>9, <1>10, <1>11, <1>12 DEF Grown, Words, u

\* A loop that found a turn: the turn opens a new window.
LEMMA TurnGrows ==
    ASSUME CreditInv, sessionActive, NEW seconds \in Gaps, Elapse(seconds),
           NEW ago \in Gaps, ago <= seconds
    PROVE  Grown(Tick(OnTurn(tracker, (clock' - ago) % ClockMod, book), clock'),
                 seconds, 2 * ActiveWindow)
<1> USE ReadingAssumption, TrackerAssumption
<1> DEFINE at == (clock' - ago) % ClockMod
           b == OnTurn(tracker, at, book)
           u == Tick(b, clock')
<1>1. /\ seconds \in Nat /\ seconds < ClockMod
      /\ reading' = reading + seconds /\ reading \in Nat
      /\ clock' \in 0 .. (ClockMod - 1) /\ clock' \in Words
      /\ clock' = IF clock + seconds < ClockMod THEN clock + seconds
                  ELSE clock + seconds - ClockMod
  BY ElapseFacts DEF CreditInv, TypeOK
<1>2. /\ tracker \in Trackers /\ Counted(tracker) /\ clock \in 0 .. (ClockMod - 1)
      /\ tracker.credited \in Words /\ tracker.committed \in Words
      /\ tracker.started => tracker.lastTick = clock
      /\ book \in Books
  BY DEF CreditInv, TypeOK, SessionInv, Trackers
<1>3. ago \in Nat /\ ago < ClockMod
  BY <1>1
<1>4. at = IF clock' < ago THEN clock' - ago + ClockMod ELSE clock' - ago
  BY <1>1, <1>3, ClockMoves
<1>5. at \in Words
  BY <1>1, <1>3, <1>4 DEF Words
<1> HIDE DEF at
<1>6. /\ b \in Trackers /\ b.started
      /\ b.lastTick = (IF tracker.started THEN tracker.lastTick ELSE at)
      /\ b.committed = tracker.committed /\ b.credited = tracker.credited
      /\ b.progress = book /\ b.sawTurn /\ b.lastTurn = at
  BY <1>2, <1>5, OnTurnFacts
<1> HIDE DEF b
<1>7. /\ u \in Trackers /\ u.started /\ u.lastTick = clock'
      /\ u.committed = tracker.committed /\ u.progress = book
      /\ u.sawTurn /\ u.lastTurn = at
      /\ tracker.credited <= u.credited /\ u.credited \in Words
      /\ u.credited # tracker.credited =>
            /\ clock' >= b.lastTick
            /\ u.credited <= tracker.credited + (clock' - b.lastTick)
            /\ u.credited <= tracker.credited + ActiveWindow
  BY <1>1, <1>6, TickFacts DEF Trackers
<1> HIDE DEF u
<1>8. Counted(u)
  BY <1>2, <1>7 DEF Counted, Words
<1>9. /\ Pending(u) = u.credited - u.committed
      /\ Pending(tracker) = tracker.credited - tracker.committed
  BY <1>2, <1>7, <1>8, PendingFacts
<1>10. Pending(tracker) <= Pending(u) /\ Pending(u) <= Pending(tracker) + seconds
  BY <1>1, <1>2, <1>3, <1>4, <1>6, <1>7, <1>9 DEF Words
<1>11. u.lastTurn < ClockMod /\ Ago(u, clock') <= reading'
  BY <1>1, <1>3, <1>4, <1>7 DEF Ago, Words
<1>12. Window(u, clock') \in Nat /\ Window(u, clock') <= ActiveWindow
  BY <1>1, <1>7, WindowFacts
<1>13. OpenWindow = Window(tracker, clock) /\ Window(tracker, clock) \in Nat
  BY <1>2, WindowFacts DEF OpenWindow, Words
<1>14. Pending(u) <= Pending(tracker) + ActiveWindow
  BY <1>2, <1>7, <1>9 DEF Words
<1>15. Pending(u) + Window(u, clock') <= Pending(tracker) + OpenWindow + 2 * ActiveWindow
  BY <1>2, <1>7, <1>9, <1>12, <1>13, <1>14 DEF Words
<1> QED
  BY <1>7, <1>8, <1>10, <1>11, <1>15 DEF Grown, u, b, at

---------------------------------------------------------------------------------
(* The callback: what it settles                                               *)

Settle(t, least) == NothingDue(t, least) \/ CreditSucceeds(t, least) \/ CreditFails(t, least)

\* Parts of a tracker a callback leaves alone.
SamePlace(t, u) ==
    /\ u.started = t.started /\ u.lastTick = t.lastTick /\ u.progress = t.progress
    /\ u.sawTurn = t.sawTurn /\ u.lastTurn = t.lastTurn

\* Minutes move from the tracker to the save or stay; a commit that failed may be
\* found later, with those minutes and no others.
LEMMA SettleFacts ==
    ASSUME TypeOK, NEW t \in Trackers, Counted(t), NEW least \in Nat \ {0}, Settle(t, least)
    PROVE  /\ saved' \in Save!Outcomes /\ recover' \in SUBSET Save!Outcomes /\ failing' \in BOOLEAN
           /\ tracker' \in Trackers /\ Counted(tracker') /\ SamePlace(t, tracker')
           /\ Banked(saved') + Pending(tracker') = Banked(saved) + Pending(t)
           /\ Pending(tracker') \in Nat /\ Pending(tracker') <= Pending(t)
           /\ Minutes(saved') + WholeMinutes(tracker') = Minutes(saved) + WholeMinutes(t)
           /\ WholeMinutes(tracker') <= WholeMinutes(t)
           /\ \A v \in recover' : v \in recover \/ Banked(v) <= Banked(saved) + Pending(t)
           /\ WholeMinutes(t) <= MaxMinutes => WholeMinutes(tracker') < least \/ failing'
<1>1. /\ saved \in Save!Outcomes /\ recover \in SUBSET Save!Outcomes /\ failing \in BOOLEAN
  BY DEF TypeOK
<1>2. /\ Pending(t) \in Nat /\ WholeMinutes(t) \in Nat /\ Due(t) \in Nat
      /\ Due(t) * MinuteSeconds \in Nat /\ Due(t) * MinuteSeconds <= Pending(t)
      /\ WholeMinutes(t) <= MaxMinutes => Due(t) = WholeMinutes(t)
      /\ Due(t) <= WholeMinutes(t)
  BY PendingFacts
<1>3. Banked(saved) \in Nat /\ Minutes(saved) \in Nat
  BY <1>1, BankedFacts
<1>4. CASE NothingDue(t, least)
  BY <1>1, <1>2, <1>4 DEF NothingDue, IsDue, save, SamePlace
<1>5. CASE CreditSucceeds(t, least)
  <2>1. HasLeader /\ saved' = Credited(t) /\ recover' = {Credited(t)} /\ tracker' = Committed(t)
        /\ failing' = FALSE
    BY <1>5 DEF CreditSucceeds, Save!Acknowledge
  <2>2. /\ Credited(t) \in Save!Outcomes
        /\ Minutes(Credited(t)) = Minutes(saved) + Due(t)
        /\ Banked(Credited(t)) = Banked(saved) + Due(t) * MinuteSeconds
    BY <1>1, <2>1, CreditedFacts
  <2>3. /\ tracker' \in Trackers /\ Counted(tracker') /\ SamePlace(t, tracker')
        /\ Pending(tracker') = Pending(t) - Due(t) * MinuteSeconds
        /\ WholeMinutes(tracker') = WholeMinutes(t) - Due(t)
    BY <2>1, CommittedFacts DEF SamePlace
  <2>4. Banked(saved') = Banked(saved) + Due(t) * MinuteSeconds /\ Minutes(saved') = Minutes(saved) + Due(t)
    BY <2>1, <2>2
  <2>5. Pending(tracker') \in Nat /\ Pending(tracker') <= Pending(t)
    BY <1>2, <2>3
  <2>6. \A v \in recover' : Banked(v) <= Banked(saved) + Pending(t)
    BY <1>2, <1>3, <2>1, <2>2
  <2>7. WholeMinutes(t) <= MaxMinutes => WholeMinutes(tracker') < least
    BY <1>2, <2>3
  <2>8. Banked(saved') + Pending(tracker') = Banked(saved) + Pending(t)
    BY <1>2, <1>3, <2>3, <2>4
  <2>9. /\ Minutes(saved') + WholeMinutes(tracker') = Minutes(saved) + WholeMinutes(t)
        /\ WholeMinutes(tracker') <= WholeMinutes(t)
    BY <1>2, <1>3, <2>3, <2>4
  <2>10. saved' \in Save!Outcomes /\ recover' \in SUBSET Save!Outcomes /\ failing' \in BOOLEAN
    BY <2>1, <2>2
  <2> QED
    BY <2>3, <2>5, <2>6, <2>7, <2>8, <2>9, <2>10
<1>6. CASE CreditFails(t, least)
  <2>1. tracker' = t /\ failing' = TRUE
    BY <1>6 DEF CreditFails
  <2>2. CASE UNCHANGED save
    BY <1>1, <1>2, <2>1, <2>2 DEF save, SamePlace
  <2>3. CASE HasLeader /\ Save!Attempt(Credited(t))
    <3>1. saved' = saved /\ recover' \subseteq {saved, Credited(t), Lost}
      BY <2>3 DEF Save!Attempt, Save!Leftovers
    <3>2. /\ Credited(t) \in Save!Outcomes
          /\ Banked(Credited(t)) = Banked(saved) + Due(t) * MinuteSeconds
      BY <1>1, <2>3, CreditedFacts
    <3>3. Lost \in Save!Outcomes /\ Minutes(Lost) = 0
      BY DEF Save!Outcomes, Minutes, Lost
    <3>4. Banked(Lost) = 0
      BY <3>3, BankedFacts
    <3>5. \A v \in recover' : Banked(v) <= Banked(saved) + Pending(t)
      BY <1>2, <1>3, <3>1, <3>2, <3>4
    <3> QED
      BY <1>1, <1>2, <2>1, <3>1, <3>2, <3>3, <3>5 DEF SamePlace
  <2> QED
    BY <1>6, <2>2, <2>3 DEF CreditFails, CommitFails
<1> QED
  BY <1>4, <1>5, <1>6 DEF Settle

\* The ledger after a loop: a grown tracker, settled.
LEMMA LoopKeepsTheLedger ==
    ASSUME CreditInv, sessionActive, NEW seconds \in Gaps, Elapse(seconds),
           NEW t, NEW worth \in Nat, Grown(t, seconds, worth),
           NEW least \in Nat \ {0}, Settle(t, least)
    PROVE  /\ saved' \in Save!Outcomes /\ recover' \in SUBSET Save!Outcomes /\ failing' \in BOOLEAN
           /\ tracker' \in Trackers /\ Counted(tracker')
           /\ tracker'.lastTick = clock'
           /\ tracker'.sawTurn => /\ tracker'.progress = book
                                  /\ tracker'.lastTurn < ClockMod /\ Ago(tracker', clock') <= reading'
           /\ Banked(saved') + Pending(tracker') <= reading'
           /\ Banked(saved') + Pending(tracker') + Window(tracker', clock') <= TurnsWorth + worth
           /\ Banked(saved') + Pending(tracker') <= TurnsWorth + worth
           /\ \A v \in recover' : Banked(v) <= reading' /\ Banked(v) <= TurnsWorth + worth
           /\ Minutes(saved') + WholeMinutes(tracker') >= Minutes(saved) + WholeMinutes(tracker)
           /\ CreditUsesItsOwnBook => (WholeMinutes(tracker') > 0 => tracker'.progress = owner)
           /\ ReadingFitsOneCallback => WholeMinutes(tracker') < least \/ failing'
<1> USE ReadingAssumption, TrackerAssumption
<1>1. /\ TypeOK /\ tracker \in Trackers /\ Counted(tracker)
      /\ Banked(saved) + Pending(tracker) <= reading
      /\ Banked(saved) + Pending(tracker) + OpenWindow <= TurnsWorth
      /\ \A v \in recover : Banked(v) <= reading /\ Banked(v) <= TurnsWorth
      /\ owner = book /\ turns \in Nat /\ reading \in Nat /\ saved \in Save!Outcomes
      /\ recover \subseteq Save!Outcomes
  BY DEF CreditInv, TypeOK, LedgerInv, SessionInv
<1>2. seconds \in Nat /\ reading' = reading + seconds /\ reading' \in 0 .. MaxReading /\ clock' \in Words
  BY <1>1, ElapseFacts
<1>3. /\ t \in Trackers /\ Counted(t) /\ t.lastTick = clock'
      /\ Pending(tracker) <= Pending(t) /\ Pending(t) <= Pending(tracker) + seconds
      /\ Pending(t) + Window(t, clock') <= Pending(tracker) + OpenWindow + worth
      /\ t.sawTurn => t.progress = book /\ t.lastTurn < ClockMod /\ Ago(t, clock') <= reading'
      /\ t.progress \in {tracker.progress, book}
      /\ Pending(t) # Pending(tracker) => t.progress = book
  BY DEF Grown
<1>4. /\ saved' \in Save!Outcomes /\ recover' \in SUBSET Save!Outcomes /\ failing' \in BOOLEAN
      /\ tracker' \in Trackers /\ Counted(tracker') /\ SamePlace(t, tracker')
      /\ Banked(saved') + Pending(tracker') = Banked(saved) + Pending(t)
      /\ Pending(tracker') \in Nat
      /\ Minutes(saved') + WholeMinutes(tracker') = Minutes(saved) + WholeMinutes(t)
      /\ WholeMinutes(tracker') <= WholeMinutes(t)
      /\ \A v \in recover' : v \in recover \/ Banked(v) <= Banked(saved) + Pending(t)
      /\ WholeMinutes(t) <= MaxMinutes => WholeMinutes(tracker') < least \/ failing'
  BY <1>1, <1>3, SettleFacts
<1>5. Banked(saved) \in Nat /\ Minutes(saved) \in Nat /\ Minutes(saved') \in Nat /\ Banked(saved') \in Nat
  BY <1>1, <1>4, BankedFacts
<1>6. /\ Pending(tracker) \in Nat /\ Pending(t) \in Nat
      /\ WholeMinutes(tracker) \in Nat /\ WholeMinutes(t) \in Nat /\ WholeMinutes(tracker') \in Nat
  BY <1>1, <1>3, <1>4, PendingFacts
<1>7. Window(t, clock') \in Nat /\ OpenWindow \in Nat
  BY <1>1, <1>2, <1>3, WindowFacts DEF OpenWindow, TypeOK, Words
<1>8. TurnsWorth \in Nat
  BY <1>1, ProductGrows DEF TurnsWorth
<1>9. Window(tracker', clock') = Window(t, clock') /\ Ago(tracker', clock') = Ago(t, clock')
  BY <1>4 DEF SamePlace, Window, Ago
<1>10. Banked(saved) + Pending(t) <= reading' /\ Banked(saved) + Pending(t) <= TurnsWorth + worth
  BY <1>1, <1>2, <1>3, <1>5, <1>6, <1>7, <1>8
<1>11. \A v \in recover' : Banked(v) <= reading' /\ Banked(v) <= TurnsWorth + worth
  <2> TAKE v \in recover'
  <2>1. CASE v \in recover
    <3>1. Banked(v) \in Nat /\ Banked(v) <= reading /\ Banked(v) <= TurnsWorth
      BY <1>1, <2>1, BankedFacts
    <3> QED
      BY <1>1, <1>2, <1>8, <3>1
  <2>2. CASE v \notin recover
    <3>1. Banked(v) \in Nat /\ Banked(v) <= Banked(saved) + Pending(t)
      BY <1>4, <2>2, BankedFacts
    <3> QED
      BY <1>2, <1>5, <1>6, <1>8, <1>10, <3>1
  <2> QED
    BY <2>1, <2>2
<1>12. WholeMinutes(tracker) <= WholeMinutes(t)
  BY <1>3, <1>6, QuotientGrows DEF WholeMinutes
<1>13. CreditUsesItsOwnBook => (WholeMinutes(tracker') > 0 => tracker'.progress = owner)
  <2>1. SUFFICES ASSUME CreditUsesItsOwnBook, WholeMinutes(tracker') > 0
                 PROVE  t.progress = owner
    BY <1>4 DEF SamePlace
  <2>2. WholeMinutes(t) > 0
    BY <1>4, <1>6, <2>1
  <2>3. CASE Pending(t) = Pending(tracker)
    BY <1>1, <1>3, <2>1, <2>2, <2>3 DEF CreditUsesItsOwnBook, WholeMinutes
  <2>4. CASE Pending(t) # Pending(tracker)
    BY <1>1, <1>3, <2>4
  <2> QED
    BY <2>3, <2>4
<1>14. ReadingFitsOneCallback => WholeMinutes(t) <= MaxMinutes
  <2>1. Pending(t) <= MaxReading
    BY <1>2, <1>5, <1>6, <1>10
  <2>2. ReadingFitsOneCallback => Pending(t) <= MaxMinutes * MinuteSeconds
    BY <1>6, <2>1, ProductGrows DEF ReadingFitsOneCallback
  <2> QED
    BY <1>6, <2>2, SmallQuotient DEF WholeMinutes
<1>15. Banked(saved') + Pending(tracker') + Window(tracker', clock') <= TurnsWorth + worth
  BY <1>1, <1>3, <1>4, <1>5, <1>6, <1>7, <1>8, <1>9
<1> QED
  BY <1>3, <1>4, <1>5, <1>6, <1>8, <1>9, <1>10, <1>11, <1>12, <1>13, <1>14, <1>15 DEF SamePlace

---------------------------------------------------------------------------------
(* Every step                                                                  *)

\* What else a step keeps: the minutes, and, when reading fits one callback, the
\* book they belong to and the bound on what a power loss costs.
MinutesStay == Minutes(saved') + WholeMinutes(tracker') >= Minutes(saved) + WholeMinutes(tracker)
BookStays ==
    ReadingFitsOneCallback /\ CreditUsesItsOwnBook /\ CheckpointBoundsTheLoss
        => CreditUsesItsOwnBook' /\ CheckpointBoundsTheLoss'

\* A loop of an open reader, whatever becomes of its checkpoint.
LEMMA LoopsKeep ==
    ASSUME CreditInv, Checkpoint \/ CheckpointFails \/ CheckpointNotDue
    PROVE  CreditInv' /\ BookStays /\ MinutesStay
<1> USE ReadingAssumption, TrackerAssumption
<1>1. PICK seconds \in Gaps, ago \in Gaps, turned \in BOOLEAN :
         /\ Loop(seconds, turned, ago)
         /\ Settle(LoopTracker(turned, ago), CheckpointMinutes)
  BY DEF Checkpoint, CheckpointFails, CheckpointNotDue, Settle
<1> DEFINE t == LoopTracker(turned, ago)
           worth == IF turned THEN 2 * ActiveWindow ELSE 0
<1>2. /\ sessionActive /\ sessionActive' = sessionActive /\ book' = book /\ owner' = owner
      /\ Elapse(seconds) /\ ago <= seconds
      /\ turned => turns < MaxTurns
      /\ turns' = IF turned THEN turns + 1 ELSE turns
  BY <1>1 DEF Loop
<1>3. Grown(t, seconds, worth)
  <2>1. CASE turned
    BY <1>2, <2>1, TurnGrows DEF LoopTracker
  <2>2. CASE ~ turned
    BY <1>2, <2>2, TickGrows DEF LoopTracker
  <2> QED
    BY <2>1, <2>2
<1>4. worth \in Nat
  OBVIOUS
<1>5. CheckpointMinutes \in Nat \ {0} /\ Settle(t, CheckpointMinutes)
  BY <1>1
<1>6. TypeOK /\ turns \in Nat /\ owner = book /\ clock \in 0 .. (ClockMod - 1)
  BY <1>2 DEF CreditInv, TypeOK, SessionInv
<1>7. TurnsWorth' = TurnsWorth + worth
  BY <1>2, <1>6 DEF TurnsWorth
<1>8. clock' \in 0 .. (ClockMod - 1) /\ reading' \in 0 .. MaxReading
  BY <1>2, <1>6, ElapseFacts
<1> HIDE DEF t, worth
<1>9. /\ saved' \in Save!Outcomes /\ recover' \in SUBSET Save!Outcomes /\ failing' \in BOOLEAN
      /\ tracker' \in Trackers /\ Counted(tracker') /\ tracker'.lastTick = clock'
      /\ tracker'.sawTurn => /\ tracker'.progress = book
                             /\ tracker'.lastTurn < ClockMod /\ Ago(tracker', clock') <= reading'
      /\ Banked(saved') + Pending(tracker') <= reading'
      /\ Banked(saved') + Pending(tracker') + Window(tracker', clock') <= TurnsWorth + worth
      /\ \A v \in recover' : Banked(v) <= reading' /\ Banked(v) <= TurnsWorth + worth
      /\ Minutes(saved') + WholeMinutes(tracker') >= Minutes(saved) + WholeMinutes(tracker)
      /\ CreditUsesItsOwnBook => (WholeMinutes(tracker') > 0 => tracker'.progress = owner)
      /\ ReadingFitsOneCallback => WholeMinutes(tracker') < CheckpointMinutes \/ failing'
  BY <1>2, <1>3, <1>4, <1>5, LoopKeepsTheLedger
<1>10. TypeOK'
  BY <1>2, <1>6, <1>8, <1>9 DEF TypeOK
<1>11. SessionInv'
  BY <1>2, <1>6, <1>9 DEF SessionInv, Ago
<1>12. OpenWindow' = Window(tracker', clock')
  BY <1>2 DEF OpenWindow, Window, Since
<1>13. LedgerInv'
  BY <1>7, <1>9, <1>12 DEF LedgerInv, Banked, Minutes, Pending, Since
<1>14. Counted(tracker)'
  BY <1>9 DEF Counted
<1>15. BookStays
  BY <1>2, <1>9 DEF BookStays, CreditUsesItsOwnBook, CheckpointBoundsTheLoss, WholeMinutes, Pending, Since
<1> QED
  BY <1>9, <1>10, <1>11, <1>13, <1>14, <1>15 DEF CreditInv, MinutesStay

\* A reader that closes ticks once more, and its window closes.
LEMMA ClosingKeeps ==
    ASSUME CreditInv, Close
    PROVE  CreditInv' /\ BookStays /\ MinutesStay
<1> USE ReadingAssumption, TrackerAssumption
<1>1. PICK seconds \in Gaps : Elapse(seconds) /\ Settle(Tick(tracker, clock'), 1)
  BY DEF Close, Settle
<1> DEFINE t == Tick(tracker, clock')
<1>2. /\ sessionActive /\ sessionActive' = FALSE /\ book' = 0 /\ owner' = owner /\ turns' = turns
  BY DEF Close
<1>3. Grown(t, seconds, 0)
  BY <1>1, <1>2, TickGrows
<1>4. TypeOK /\ turns \in Nat /\ clock \in 0 .. (ClockMod - 1)
  BY DEF CreditInv, TypeOK
<1>5. TurnsWorth' = TurnsWorth /\ TurnsWorth \in Nat
  BY <1>2, <1>4, ProductGrows DEF TurnsWorth
<1>6. clock' \in 0 .. (ClockMod - 1) /\ reading' \in 0 .. MaxReading
  BY <1>1, <1>2, <1>4, ElapseFacts
<1> HIDE DEF t
<1>7. /\ saved' \in Save!Outcomes /\ recover' \in SUBSET Save!Outcomes /\ failing' \in BOOLEAN
      /\ tracker' \in Trackers /\ Counted(tracker')
      /\ Banked(saved') + Pending(tracker') <= reading'
      /\ Banked(saved') + Pending(tracker') <= TurnsWorth
      /\ \A v \in recover' : Banked(v) <= reading' /\ Banked(v) <= TurnsWorth
      /\ Minutes(saved') + WholeMinutes(tracker') >= Minutes(saved) + WholeMinutes(tracker)
      /\ CreditUsesItsOwnBook => (WholeMinutes(tracker') > 0 => tracker'.progress = owner)
      /\ ReadingFitsOneCallback => WholeMinutes(tracker') < 1 \/ failing'
  <2>1. TurnsWorth + 0 = TurnsWorth
    BY <1>5
  <2>2. Settle(t, 1) /\ 0 \in Nat /\ 1 \in Nat \ {0}
    BY <1>1 DEF t
  <2> QED
    BY <1>1, <1>2, <1>3, <2>1, <2>2, LoopKeepsTheLedger
<1>8. TypeOK'
  BY <1>2, <1>4, <1>6, <1>7 DEF TypeOK
<1>9. SessionInv' /\ OpenWindow' = 0
  BY <1>2 DEF SessionInv, OpenWindow
<1>10. Banked(saved') \in Nat /\ Pending(tracker') \in Nat /\ WholeMinutes(tracker') \in Nat
  BY <1>7, BankedFacts, PendingFacts
<1>11. LedgerInv'
  BY <1>5, <1>7, <1>9, <1>10 DEF LedgerInv, Banked, Minutes, Pending, Since
<1>12. Counted(tracker)'
  BY <1>7 DEF Counted
<1>13. BookStays
  BY <1>2, <1>7, <1>10 DEF BookStays, CreditUsesItsOwnBook, CheckpointBoundsTheLoss, WholeMinutes, Pending, Since
<1> QED
  BY <1>7, <1>8, <1>9, <1>11, <1>12, <1>13 DEF CreditInv, MinutesStay

\* Facts about a state in which no session runs.
LEMMA IdleFacts ==
    ASSUME CreditInv
    PROVE  /\ TypeOK /\ tracker \in Trackers /\ Counted(tracker) /\ saved \in Save!Outcomes
           /\ recover \in SUBSET Save!Outcomes
           /\ Banked(saved) \in Nat /\ Minutes(saved) \in Nat /\ TurnsWorth \in Nat /\ OpenWindow \in Nat
           /\ Pending(tracker) \in Nat /\ WholeMinutes(tracker) \in Nat
           /\ Banked(saved) + Pending(tracker) <= reading
           /\ Banked(saved) + Pending(tracker) <= TurnsWorth
           /\ \A v \in recover : Banked(v) <= reading /\ Banked(v) <= TurnsWorth
           /\ reading \in Nat /\ turns \in Nat /\ reading <= MaxReading
           /\ book = 0 => ~ sessionActive
<1> USE ReadingAssumption, TrackerAssumption
<1>1. /\ TypeOK /\ tracker \in Trackers /\ Counted(tracker) /\ saved \in Save!Outcomes
      /\ recover \in SUBSET Save!Outcomes
      /\ reading \in Nat /\ turns \in Nat /\ reading <= MaxReading /\ clock \in Words
      /\ book = 0 => ~ sessionActive
  BY DEF CreditInv, TypeOK, Words
<1>2. Banked(saved) \in Nat /\ Minutes(saved) \in Nat
  BY <1>1, BankedFacts
<1>3. Pending(tracker) \in Nat /\ WholeMinutes(tracker) \in Nat
  BY <1>1, PendingFacts
<1>4. TurnsWorth \in Nat
  BY <1>1, ProductGrows DEF TurnsWorth
<1>5. OpenWindow \in Nat
  BY <1>1, WindowFacts DEF OpenWindow
<1>6. /\ Banked(saved) + Pending(tracker) <= reading
      /\ Banked(saved) + Pending(tracker) + OpenWindow <= TurnsWorth
      /\ \A v \in recover : Banked(v) <= reading /\ Banked(v) <= TurnsWorth
  BY DEF CreditInv, LedgerInv
<1> QED
  BY <1>1, <1>2, <1>3, <1>4, <1>5, <1>6

\* Opening keeps the whole minutes of the session before, banked or pending.
LEMMA OpeningKeeps ==
    ASSUME CreditInv, NEW b \in Books,
           OpenWithoutSession(b) \/ OpenWithSession(b) \/ OpenRetryFails(b)
    PROVE  CreditInv' /\ BookStays /\ MinutesStay
<1> USE ReadingAssumption, TrackerAssumption
<1>1. /\ TypeOK /\ tracker \in Trackers /\ Counted(tracker) /\ saved \in Save!Outcomes
      /\ recover \in SUBSET Save!Outcomes
      /\ Banked(saved) \in Nat /\ Minutes(saved) \in Nat /\ TurnsWorth \in Nat /\ OpenWindow \in Nat
      /\ Pending(tracker) \in Nat /\ WholeMinutes(tracker) \in Nat
      /\ Banked(saved) + Pending(tracker) <= reading
      /\ Banked(saved) + Pending(tracker) <= TurnsWorth
      /\ \A v \in recover : Banked(v) <= reading /\ Banked(v) <= TurnsWorth
      /\ reading \in Nat /\ turns \in Nat /\ reading <= MaxReading
  BY IdleFacts
<1>2. /\ book = 0 /\ book' = b /\ clock' = clock /\ reading' = reading /\ turns' = turns
      /\ sessionActive' \in BOOLEAN /\ b # 0
      /\ TurnsWorth' = TurnsWorth
  <2>1. /\ book = 0 /\ book' = b /\ clock' = clock /\ reading' = reading /\ turns' = turns
        /\ sessionActive' \in BOOLEAN
    <3>1. CASE OpenWithoutSession(b)
      BY <3>1 DEF OpenWithoutSession
    <3>2. CASE OpenWithSession(b)
      BY <3>2 DEF OpenWithSession
    <3>3. CASE OpenRetryFails(b)
      BY <3>3 DEF OpenRetryFails
    <3> QED
      BY <3>1, <3>2, <3>3
  <2>2. b # 0
    OBVIOUS
  <2> QED
    BY <2>1, <2>2 DEF TurnsWorth
<1> DEFINE t == Retry(tracker)
<1>3. /\ t \in Trackers /\ Counted(t) /\ ~ t.started /\ ~ t.sawTurn
      /\ Pending(t) <= Pending(tracker)
      /\ WholeMinutes(t) = WholeMinutes(tracker)
      /\ WholeMinutes(t) = 0 => Pending(t) = 0
      /\ WholeMinutes(t) > 0 => t.progress = tracker.progress
  BY <1>1, RetryFacts
<1>4. /\ Pending(t) \in Nat /\ WholeMinutes(t) \in Nat /\ Due(t) \in Nat
      /\ WholeMinutes(t) <= MaxMinutes => Due(t) = WholeMinutes(t)
  BY <1>3, PendingFacts
<1>5. ReadingFitsOneCallback => WholeMinutes(t) <= MaxMinutes
  <2>1. Pending(t) <= MaxReading
    BY <1>1, <1>3, <1>4
  <2>2. ReadingFitsOneCallback => Pending(t) <= MaxMinutes * MinuteSeconds
    BY <1>4, <2>1, ProductGrows DEF ReadingFitsOneCallback
  <2> QED
    BY <1>4, <2>2, SmallQuotient DEF WholeMinutes
<1>6. CASE OpenWithoutSession(b)
  <2>1. UNCHANGED <<tracker, saved, recover, failing, owner>> /\ sessionActive' = FALSE
    BY <1>6 DEF OpenWithoutSession, save
  <2>2. TypeOK'
    BY <1>1, <1>2, <2>1 DEF TypeOK
  <2>3. SessionInv' /\ OpenWindow' = 0
    BY <2>1 DEF SessionInv, OpenWindow
  <2>4. LedgerInv'
    BY <1>1, <1>2, <2>1, <2>3 DEF LedgerInv, Banked, Minutes, Pending, Since
  <2>5. Counted(tracker)' /\ BookStays /\ MinutesStay
    BY <1>1, <2>1 DEF Counted, BookStays, MinutesStay, CreditUsesItsOwnBook,
       CheckpointBoundsTheLoss, WholeMinutes, Pending, Since, Minutes
  <2> QED
    BY <2>2, <2>3, <2>4, <2>5 DEF CreditInv
<1>7. CASE OpenWithSession(b)
  <2>1. sessionActive' = TRUE /\ owner' = b /\ HasLeader
    BY <1>7 DEF OpenWithSession
  <2>2. /\ saved' \in Save!Outcomes /\ recover' \in SUBSET Save!Outcomes /\ failing' \in BOOLEAN
        /\ tracker' \in Trackers /\ Counted(tracker')
        /\ ~ tracker'.started /\ ~ tracker'.sawTurn
        /\ Banked(saved') + Pending(tracker') <= Banked(saved) + Pending(tracker)
        /\ Minutes(saved') + WholeMinutes(tracker') = Minutes(saved) + WholeMinutes(tracker)
        /\ \A v \in recover' : v \in recover \/ Banked(v) <= Banked(saved) + Pending(tracker)
        /\ ReadingFitsOneCallback => WholeMinutes(tracker') = 0
    <3>1. CASE WholeMinutes(t) < 1 /\ tracker' = Begun(t) /\ UNCHANGED <<save, failing>>
      <4>1. /\ tracker' \in Trackers /\ Counted(tracker')
            /\ ~ tracker'.started /\ ~ tracker'.sawTurn
            /\ Pending(tracker') = Pending(t) /\ WholeMinutes(tracker') = WholeMinutes(t)
        BY <1>3, <3>1, BegunFacts
      <4>2. saved' = saved /\ recover' = recover /\ failing' = failing
        BY <3>1 DEF save
      <4>3. saved' \in Save!Outcomes /\ recover' \in SUBSET Save!Outcomes /\ failing' \in BOOLEAN
        BY <1>1, <4>2 DEF TypeOK
      <4>4. /\ Banked(saved') + Pending(tracker') <= Banked(saved) + Pending(tracker)
            /\ Minutes(saved') + WholeMinutes(tracker') = Minutes(saved) + WholeMinutes(tracker)
        BY <1>1, <1>3, <1>4, <4>1, <4>2
      <4> QED
        BY <1>4, <3>1, <4>1, <4>2, <4>3, <4>4
    <3>2. CASE /\ WholeMinutes(t) >= 1 /\ Save!Acknowledge(Credited(t))
               /\ tracker' = Begun(Committed(t)) /\ failing' = FALSE
      <4>1. /\ Committed(t) \in Trackers /\ Counted(Committed(t))
            /\ ~ Committed(t).started /\ ~ Committed(t).sawTurn
            /\ Pending(Committed(t)) = Pending(t) - Due(t) * MinuteSeconds
            /\ WholeMinutes(Committed(t)) = WholeMinutes(t) - Due(t)
        BY <1>3, CommittedFacts
      <4>2. /\ tracker' \in Trackers /\ Counted(tracker')
            /\ ~ tracker'.started /\ ~ tracker'.sawTurn
            /\ Pending(tracker') = Pending(t) - Due(t) * MinuteSeconds
            /\ WholeMinutes(tracker') = WholeMinutes(t) - Due(t)
        BY <3>2, <4>1, BegunFacts
      <4>3. /\ Credited(t) \in Save!Outcomes
            /\ Minutes(Credited(t)) = Minutes(saved) + Due(t)
            /\ Banked(Credited(t)) = Banked(saved) + Due(t) * MinuteSeconds
        BY <1>1, <1>3, <2>1, CreditedFacts
      <4>4. saved' = Credited(t) /\ recover' = {Credited(t)}
        BY <3>2 DEF Save!Acknowledge
      <4>5. Due(t) * MinuteSeconds \in Nat /\ Due(t) * MinuteSeconds <= Pending(t)
        BY <1>3, PendingFacts
      <4>6. Banked(saved') = Banked(saved) + Due(t) * MinuteSeconds
            /\ Minutes(saved') = Minutes(saved) + Due(t)
        BY <4>3, <4>4
      <4>7. Banked(saved') + Pending(tracker') <= Banked(saved) + Pending(tracker)
        BY <1>1, <1>3, <1>4, <4>2, <4>5, <4>6
      <4>8. Minutes(saved') + WholeMinutes(tracker') = Minutes(saved) + WholeMinutes(tracker)
        BY <1>1, <1>3, <1>4, <4>2, <4>6
      <4>9. \A v \in recover' : Banked(v) <= Banked(saved) + Pending(tracker)
        BY <1>1, <1>3, <1>4, <4>3, <4>4, <4>5
      <4>10. ReadingFitsOneCallback => WholeMinutes(tracker') = 0
        BY <1>4, <1>5, <4>2
      <4> QED
        BY <3>2, <4>2, <4>3, <4>4, <4>7, <4>8, <4>9, <4>10
    <3>3. IF IsDue(t, 1) THEN WholeMinutes(t) >= 1 ELSE WholeMinutes(t) < 1
      BY <1>4 DEF IsDue
    <3> QED
      BY <1>7, <3>1, <3>2, <3>3 DEF OpenWithSession
  <2>3. Banked(saved') \in Nat /\ Pending(tracker') \in Nat
    BY <2>2, BankedFacts, PendingFacts
  <2>4. OpenWindow' = 0
    BY <2>2 DEF OpenWindow, Window
  <2>5. TypeOK'
    BY <1>1, <1>2, <2>1, <2>2 DEF TypeOK
  <2>6. SessionInv'
    BY <1>2, <2>1, <2>2 DEF SessionInv
  <2>7. \A v \in recover' : Banked(v) <= reading /\ Banked(v) <= TurnsWorth
    <3> TAKE v \in recover'
    <3>1. Banked(v) \in Nat
      BY <2>2, BankedFacts
    <3> QED
      BY <1>1, <2>2, <3>1
  <2>8. LedgerInv'
    BY <1>1, <1>2, <2>2, <2>3, <2>4, <2>7 DEF LedgerInv, Banked, Minutes, Pending, Since
  <2>9. Counted(tracker)'
    BY <2>2 DEF Counted
  <2>10. MinutesStay
    BY <1>1, <2>2 DEF MinutesStay
  <2>11. BookStays
    BY <2>2 DEF BookStays, CreditUsesItsOwnBook, CheckpointBoundsTheLoss, WholeMinutes, Pending, Since
  <2> QED
    BY <2>5, <2>6, <2>8, <2>9, <2>10, <2>11 DEF CreditInv
<1>8. CASE OpenRetryFails(b)
  <2>1. sessionActive' = FALSE /\ owner' = owner /\ CreditFails(t, 1) /\ failing' = TRUE /\ tracker' = t
    BY <1>8 DEF OpenRetryFails, CreditFails
  <2>2. /\ saved' \in Save!Outcomes /\ recover' \in SUBSET Save!Outcomes /\ failing' \in BOOLEAN
        /\ Banked(saved') + Pending(tracker') = Banked(saved) + Pending(t)
        /\ Minutes(saved') + WholeMinutes(tracker') = Minutes(saved) + WholeMinutes(t)
        /\ \A v \in recover' : v \in recover \/ Banked(v) <= Banked(saved) + Pending(t)
    BY <1>1, <1>3, <2>1, SettleFacts DEF Settle
  <2>3. SessionInv' /\ OpenWindow' = 0
    BY <2>1 DEF SessionInv, OpenWindow
  <2>4. TypeOK'
    BY <1>1, <1>2, <1>3, <2>1, <2>2 DEF TypeOK
  <2>5. \A v \in recover' : Banked(v) <= reading /\ Banked(v) <= TurnsWorth
    <3> TAKE v \in recover'
    <3>1. Banked(v) \in Nat
      BY <2>2, BankedFacts
    <3> QED
      BY <1>1, <1>3, <1>4, <2>2, <3>1
  <2>6. Banked(saved') \in Nat
    BY <2>2, BankedFacts
  <2>7. LedgerInv'
    BY <1>1, <1>2, <1>3, <1>4, <2>1, <2>2, <2>3, <2>5, <2>6 DEF LedgerInv, Banked, Minutes, Pending, Since
  <2>8. Counted(tracker)'
    BY <1>3, <2>1 DEF Counted
  <2>9. MinutesStay
    BY <1>1, <1>3, <2>2 DEF MinutesStay
  <2>10. CreditUsesItsOwnBook => CreditUsesItsOwnBook'
    BY <1>3, <2>1 DEF CreditUsesItsOwnBook, WholeMinutes, Pending, Since
  <2>11. BookStays
    BY <2>1, <2>10 DEF BookStays, CheckpointBoundsTheLoss
  <2> QED
    BY <2>3, <2>4, <2>7, <2>8, <2>9, <2>11 DEF CreditInv
<1> QED
  BY <1>6, <1>7, <1>8

\* A commit of a save without minutes, acknowledged or not, is no credit.
LEMMA EmptySaves ==
    ASSUME CreditInv, NEW e \in Saves, e.minutes = 0, Save!Acknowledge(e) \/ CommitFails(e)
    PROVE  /\ saved' \in Save!Outcomes /\ recover' \in SUBSET Save!Outcomes
           /\ Banked(saved') \in Nat /\ Banked(saved') <= Banked(saved)
           /\ \A v \in recover' : Banked(v) <= reading /\ Banked(v) <= TurnsWorth
<1>1. /\ saved \in Save!Outcomes /\ recover \in SUBSET Save!Outcomes
      /\ Banked(saved) \in Nat /\ TurnsWorth \in Nat /\ reading \in Nat
      /\ Pending(tracker) \in Nat
      /\ Banked(saved) + Pending(tracker) <= reading
      /\ Banked(saved) + Pending(tracker) <= TurnsWorth
      /\ \A v \in recover : Banked(v) <= reading /\ Banked(v) <= TurnsWorth
  BY IdleFacts
<1>2. e \in Save!Outcomes /\ Lost \in Save!Outcomes
  BY DEF Save!Outcomes
<1>3. Minutes(e) = 0 /\ Minutes(Lost) = 0
  BY DEF Saves, Minutes, Lost
<1>4. Banked(e) = 0 /\ Banked(Lost) = 0
  BY <1>2, <1>3, BankedFacts
<1>5. CASE Save!Acknowledge(e)
  <2>1. saved' = e /\ recover' = {e}
    BY <1>5 DEF Save!Acknowledge
  <2> QED
    BY <1>1, <1>2, <1>4, <2>1
<1>6. CASE UNCHANGED save
  BY <1>1, <1>6 DEF save
<1>7. CASE Save!Attempt(e)
  <2>1. saved' = saved /\ recover' \subseteq {saved, e, Lost}
    BY <1>7 DEF Save!Attempt, Save!Leftovers
  <2> QED
    BY <1>1, <1>2, <1>4, <2>1
<1> QED
  BY <1>5, <1>6, <1>7 DEF CommitFails

\* Another user of the save: the tracker stays as it is, and no reader is open.
LEMMA OthersKeep ==
    ASSUME CreditInv, Reset \/ CreateStarter
    PROVE  CreditInv' /\ BookStays
<1>1. /\ TypeOK /\ tracker \in Trackers /\ Counted(tracker)
      /\ Banked(saved) \in Nat /\ TurnsWorth \in Nat /\ Pending(tracker) \in Nat
      /\ Banked(saved) + Pending(tracker) <= reading
      /\ Banked(saved) + Pending(tracker) <= TurnsWorth
      /\ reading \in Nat
      /\ book = 0 => ~ sessionActive
  BY IdleFacts
<1>2. /\ book = 0 /\ UNCHANGED <<clock, tracker, book, failing, reading, turns, owner>>
      /\ ~ sessionActive'
      /\ sessionActive' \in BOOLEAN
      /\ \E e \in Saves : e.minutes = 0 /\ (Save!Acknowledge(e) \/ CommitFails(e))
  <2>1. CASE Reset
    <3>1. [NewSave EXCEPT !.leader = FALSE] \in Saves /\ [NewSave EXCEPT !.leader = FALSE].minutes = 0
      BY DEF NewSave, Saves
    <3> QED
      BY <2>1, <3>1 DEF Reset
  <2>2. CASE CreateStarter
    <3>1. NewSave \in Saves /\ NewSave.minutes = 0
      BY DEF NewSave, Saves
    <3> QED
      BY <1>1, <2>2, <3>1 DEF CreateStarter, TypeOK
  <2> QED
    BY <2>1, <2>2
<1>3. /\ saved' \in Save!Outcomes /\ recover' \in SUBSET Save!Outcomes
      /\ Banked(saved') \in Nat /\ Banked(saved') <= Banked(saved)
      /\ \A v \in recover' : Banked(v) <= reading /\ Banked(v) <= TurnsWorth
  BY <1>2, EmptySaves
<1>4. TypeOK'
  BY <1>1, <1>2, <1>3 DEF TypeOK
<1>5. SessionInv' /\ OpenWindow' = 0
  BY <1>2 DEF SessionInv, OpenWindow
<1>6. LedgerInv'
  BY <1>1, <1>2, <1>3, <1>5 DEF LedgerInv, Banked, Minutes, Pending, Since, TurnsWorth
<1>7. Counted(tracker)' /\ BookStays
  BY <1>1, <1>2 DEF Counted, BookStays, CreditUsesItsOwnBook, CheckpointBoundsTheLoss,
     WholeMinutes, Pending, Since
<1> QED
  BY <1>4, <1>5, <1>6, <1>7 DEF CreditInv

\* After a power loss nothing is pending, and the save is one that might be found.
LEMMA PowerLossKeeps ==
    ASSUME CreditInv, PowerLoss
    PROVE  CreditInv' /\ BookStays
<1> USE ReadingAssumption, TrackerAssumption
<1>1. /\ TypeOK /\ recover \in SUBSET Save!Outcomes /\ TurnsWorth \in Nat /\ reading \in Nat
      /\ \A v \in recover : Banked(v) <= reading /\ Banked(v) <= TurnsWorth
  BY IdleFacts
<1>2. /\ saved' \in recover /\ recover' = {saved'} /\ tracker' = NewTracker /\ clock' = 0
      /\ sessionActive' = FALSE /\ book' = 0 /\ failing' = FALSE /\ owner' = 0
      /\ reading' = reading /\ turns' = turns
  BY DEF PowerLoss, Save!Restart
<1>3. tracker' \in Trackers /\ Counted(tracker') /\ Pending(tracker') = 0
  BY <1>2, NewTrackerFacts
<1>4. TypeOK'
  <2>1. saved' \in Save!Outcomes /\ recover' \in SUBSET Save!Outcomes
    BY <1>1, <1>2
  <2>2. clock' \in 0 .. (ClockMod - 1)
    BY <1>2
  <2>3. reading' \in 0 .. MaxReading /\ turns' \in 0 .. MaxTurns
    BY <1>1, <1>2 DEF TypeOK
  <2> QED
    BY <1>2, <1>3, <2>1, <2>2, <2>3 DEF TypeOK
<1>5. SessionInv' /\ OpenWindow' = 0
  BY <1>2 DEF SessionInv, OpenWindow
<1>6. saved' \in Save!Outcomes /\ Banked(saved') <= reading /\ Banked(saved') <= TurnsWorth
  BY <1>1, <1>2
<1>7. Banked(saved') \in Nat
  BY <1>6, BankedFacts
<1>8. LedgerInv'
  BY <1>1, <1>2, <1>3, <1>5, <1>6, <1>7 DEF LedgerInv, Banked, Minutes, Pending, Since, TurnsWorth
<1>9. WholeMinutes(tracker') = 0
  <2>1. (0 * MinuteSeconds) \div MinuteSeconds = 0
    BY WholeQuotient
  <2> QED
    BY <1>3, <2>1 DEF WholeMinutes
<1>10. Counted(tracker)' /\ BookStays
  BY <1>3, <1>9 DEF Counted, BookStays, CreditUsesItsOwnBook, CheckpointBoundsTheLoss,
     WholeMinutes, Pending, Since
<1> QED
  BY <1>4, <1>5, <1>8, <1>10 DEF CreditInv

\* A stuttering step changes nothing.
LEMMA StutterKeeps ==
    ASSUME CreditInv, UNCHANGED vars
    PROVE  CreditInv' /\ BookStays /\ MinutesStay
<1>1. WholeMinutes(tracker) \in Nat /\ Minutes(saved) \in Nat
  BY IdleFacts
<1>2. /\ clock' = clock /\ tracker' = tracker /\ sessionActive' = sessionActive /\ book' = book
      /\ saved' = saved /\ recover' = recover /\ failing' = failing /\ reading' = reading
      /\ turns' = turns /\ owner' = owner
  BY DEF vars
<1>3. TypeOK' /\ Counted(tracker)' /\ SessionInv' /\ LedgerInv'
  BY <1>2 DEF CreditInv, TypeOK, Counted, SessionInv, LedgerInv, OpenWindow, Window, Since, Ago,
     Banked, Minutes, Pending, TurnsWorth
<1> QED
  BY <1>1, <1>2, <1>3 DEF CreditInv, BookStays, MinutesStay, CreditUsesItsOwnBook,
     CheckpointBoundsTheLoss, WholeMinutes, Pending, Since, Minutes

\* Every step keeps the invariant, and with it the book and the bound.
LEMMA StepsKeep ==
    CreditInv /\ [Next]_vars => CreditInv' /\ BookStays
<1> SUFFICES ASSUME CreditInv, [Next]_vars PROVE CreditInv' /\ BookStays
  OBVIOUS
<1>1. CASE Checkpoint \/ CheckpointFails \/ CheckpointNotDue
  BY <1>1, LoopsKeep
<1>2. CASE Open
  BY <1>2, OpeningKeeps DEF Open
<1>3. CASE Close
  BY <1>3, ClosingKeeps
<1>4. CASE CloseWithoutSession
  <2>1. /\ UNCHANGED <<clock, tracker, sessionActive, saved, recover, failing, reading, turns, owner>>
        /\ ~ sessionActive /\ book' = 0
    BY <1>4 DEF CloseWithoutSession, save
  <2>2. TypeOK' /\ Counted(tracker)' /\ SessionInv' /\ LedgerInv'
    BY <2>1 DEF CreditInv, TypeOK, Counted, SessionInv, LedgerInv, OpenWindow,
       Banked, Minutes, Pending, Since, TurnsWorth
  <2> QED
    BY <2>1, <2>2 DEF CreditInv, BookStays, CreditUsesItsOwnBook, CheckpointBoundsTheLoss,
       WholeMinutes, Pending, Since
<1>5. CASE Reset \/ CreateStarter
  BY <1>5, OthersKeep
<1>6. CASE PowerLoss
  BY <1>6, PowerLossKeeps
<1>7. CASE UNCHANGED vars
  BY <1>7, StutterKeeps
<1> QED
  BY <1>1, <1>2, <1>3, <1>4, <1>5, <1>6, <1>7 DEF Next

\* Steps other than a power loss and other users of the save keep the minutes.
LEMMA StepsKeepMinutes ==
    CreditInv /\ [Next]_vars => PowerLoss \/ Reset \/ CreateStarter \/ MinutesStay
<1> SUFFICES ASSUME CreditInv, [Next]_vars, ~ (PowerLoss \/ Reset \/ CreateStarter) PROVE MinutesStay
  OBVIOUS
<1>1. CASE Checkpoint \/ CheckpointFails \/ CheckpointNotDue
  BY <1>1, LoopsKeep
<1>2. CASE Open
  BY <1>2, OpeningKeeps DEF Open
<1>3. CASE Close
  BY <1>3, ClosingKeeps
<1>4. CASE CloseWithoutSession
  <2>1. UNCHANGED <<tracker, saved>> /\ WholeMinutes(tracker) \in Nat /\ Minutes(saved) \in Nat
    BY <1>4, IdleFacts DEF CloseWithoutSession, save
  <2> QED
    BY <2>1 DEF MinutesStay
<1>5. CASE UNCHANGED vars
  BY <1>5, StutterKeeps
<1> QED
  BY <1>1, <1>2, <1>3, <1>4, <1>5 DEF Next

\* Nothing is read, banked or pending at the start.
LEMMA CreditInitial == Init => CreditInv /\ CreditUsesItsOwnBook /\ CheckpointBoundsTheLoss
<1> SUFFICES ASSUME Init PROVE CreditInv /\ CreditUsesItsOwnBook /\ CheckpointBoundsTheLoss
  OBVIOUS
<1> USE ReadingAssumption, TrackerAssumption DEF Init
<1>1. tracker \in Trackers /\ Counted(tracker) /\ Pending(tracker) = 0
  BY NewTrackerFacts
<1>2. saved \in Save!Outcomes /\ Minutes(saved) = 0
  <2>1. NewSave \in Saves /\ Minutes(NewSave) = 0
    BY DEF Saves, NewSave, Minutes
  <2>2. Minutes(NoSave) = 0
    BY DEF NoSave, Minutes
  <2>3. saved = NoSave \/ saved = NewSave
    OBVIOUS
  <2> QED
    BY <2>1, <2>2, <2>3 DEF Save!Outcomes
<1>3. Banked(saved) = 0
  BY <1>2, BankedFacts
<1>4. TypeOK
  <2>1. clock \in 0 .. (ClockMod - 1) /\ reading \in 0 .. MaxReading /\ turns \in 0 .. MaxTurns
    OBVIOUS
  <2>2. recover \in SUBSET Save!Outcomes
    BY <1>2
  <2> QED
    BY <1>1, <1>2, <2>1, <2>2 DEF TypeOK
<1>5. SessionInv /\ OpenWindow = 0
  BY DEF SessionInv, OpenWindow
<1>6. TurnsWorth = 0
  BY DEF TurnsWorth
<1>7. LedgerInv
  BY <1>1, <1>3, <1>5, <1>6 DEF LedgerInv
<1>8. WholeMinutes(tracker) = 0
  <2>1. (0 * MinuteSeconds) \div MinuteSeconds = 0
    BY WholeQuotient
  <2> QED
    BY <1>1, <2>1 DEF WholeMinutes
<1> QED
  BY <1>1, <1>4, <1>5, <1>7, <1>8 DEF CreditInv, CreditUsesItsOwnBook, CheckpointBoundsTheLoss

\* The ledger holds throughout.
LEMMA CreditInvariant == Spec => []CreditInv
<1>1. CreditInv /\ [Next]_vars => CreditInv'
  BY StepsKeep
<1>2. Init => CreditInv
  BY CreditInitial
<1> QED
  BY <1>1, <1>2, PTL DEF Spec

---------------------------------------------------------------------------------
(* What a start may find                                                       *)

\* A game without a leader, new or reset, has banked nothing.
Earned(v) == v.kind = "Save" /\ ~ v.leader => v.minutes = 0

SurviveInv ==
    /\ BankedMinutesSurvive
    /\ Earned(saved)
    /\ \A v \in recover : Earned(v)

\* A save that is written again is what was banked, if the minutes it adds stay
\* pending when its commit fails.
LEMMA WritesSurvive ==
    ASSUME TypeOK, SurviveInv, WholeMinutes(tracker) \in Nat, WholeMinutes(tracker') \in Nat,
           NEW v \in Saves, Earned(v),
           \/ Save!Acknowledge(v)
           \/ /\ Save!Attempt(v)
              /\ v.minutes <= Minutes(saved) + WholeMinutes(tracker')
              /\ HasLeader /\ v.leader => v.minutes >= saved.minutes
           \/ UNCHANGED save /\ WholeMinutes(tracker) <= WholeMinutes(tracker')
    PROVE  SurviveInv'
<1>1. saved \in Save!Outcomes /\ Minutes(saved) \in Nat /\ recover \in SUBSET Save!Outcomes
  BY BankedFacts DEF TypeOK
<1>2. v.kind = "Save" /\ v.minutes \in Nat /\ v.leader \in BOOLEAN /\ Minutes(v) = v.minutes
  BY DEF Saves, Minutes
<1>3. WholeMinutes(tracker)' = WholeMinutes(tracker')
  BY DEF WholeMinutes, Pending, Since
<1> HIDE DEF WholeMinutes
<1>4. CASE Save!Acknowledge(v)
  <2>1. saved' = v /\ recover' = {v}
    BY <1>4 DEF Save!Acknowledge
  <2>2. Minutes(v) <= Minutes(v) + WholeMinutes(tracker')
    BY <1>2
  <2> QED
    BY <1>2, <1>3, <2>1, <2>2 DEF SurviveInv, BankedMinutesSurvive, IsWhatWasBanked, Earned, HasLeader, Minutes
<1>5. CASE /\ Save!Attempt(v)
           /\ v.minutes <= Minutes(saved) + WholeMinutes(tracker')
           /\ HasLeader /\ v.leader => v.minutes >= saved.minutes
  <2>1. /\ saved' = saved /\ recover' \subseteq {saved, v} \cup (IF saved = NoSave THEN {Lost} ELSE {})
    BY <1>5 DEF Save!Attempt, Save!Leftovers
  <2>2. HasLeader => saved # NoSave
    BY DEF HasLeader, NoSave
  <2>3. Earned(Lost) /\ Minutes(Lost) = 0
    BY DEF Earned, Lost, Minutes
  <2>4. HasLeader => saved.minutes = Minutes(saved)
    BY DEF HasLeader, Minutes
  <2>5. ASSUME NEW w \in recover'
        PROVE  /\ Earned(w)
               /\ Minutes(w) <= Minutes(saved) + WholeMinutes(tracker')
               /\ HasLeader => w.kind = "Save" /\ (w.leader => w.minutes >= saved.minutes)
    <3>1. CASE w = saved
      BY <1>1, <2>4, <3>1 DEF SurviveInv, HasLeader
    <3>2. CASE w = v
      BY <1>2, <1>5, <3>2
    <3>3. CASE saved = NoSave /\ w = Lost
      BY <1>1, <2>2, <2>3, <3>3
    <3> QED
      BY <2>1, <2>5, <3>1, <3>2, <3>3
  <2> QED
    BY <1>3, <2>1, <2>5 DEF SurviveInv, BankedMinutesSurvive, IsWhatWasBanked, Earned, HasLeader, Minutes
<1>6. CASE UNCHANGED save /\ WholeMinutes(tracker) <= WholeMinutes(tracker')
  <2>1. saved' = saved /\ recover' = recover
    BY <1>6 DEF save
  <2>2. ASSUME NEW w \in recover
        PROVE  Minutes(w) <= Minutes(saved) + WholeMinutes(tracker')
    <3>1. Minutes(w) \in Nat /\ Minutes(w) <= Minutes(saved) + WholeMinutes(tracker)
      BY <1>1, BankedFacts DEF SurviveInv, BankedMinutesSurvive, IsWhatWasBanked
    <3> QED
      BY <1>1, <1>6, <3>1
  <2> QED
    BY <1>3, <2>1, <2>2 DEF SurviveInv, BankedMinutesSurvive, IsWhatWasBanked, Earned, HasLeader, Minutes
<1> QED
  BY <1>4, <1>5, <1>6

\* A callback keeps pending what it could not bank.
LEMMA SettlingSurvives ==
    ASSUME TypeOK, SurviveInv, WholeMinutes(tracker) \in Nat, NEW t \in Trackers, Counted(t),
           WholeMinutes(tracker) <= WholeMinutes(t), NEW least \in Nat \ {0}, Settle(t, least)
    PROVE  SurviveInv'
<1>1. WholeMinutes(t) \in Nat /\ Due(t) \in Nat /\ Due(t) <= WholeMinutes(t)
  BY PendingFacts
<1>2. tracker' \in Trackers /\ Counted(tracker')
  BY SettleFacts
<1>3. WholeMinutes(tracker') \in Nat
  BY <1>2, PendingFacts
<1>4. NewSave \in Saves /\ Earned(NewSave)
  BY DEF NewSave, Saves, Earned
<1>5. ASSUME HasLeader
      PROVE  /\ Credited(t) \in Saves /\ Credited(t).leader /\ Earned(Credited(t))
             /\ Credited(t).minutes = Minutes(saved) + Due(t)
             /\ saved.minutes = Minutes(saved) /\ Minutes(saved) \in Nat
  <2>1. saved \in Save!Outcomes
    BY DEF TypeOK
  <2>2. saved \in Saves /\ saved.kind = "Save" /\ saved.leader
    BY <1>5, <2>1 DEF HasLeader, Save!Outcomes, NoSave, Lost, Blocked
  <2>3. Credited(t) = [saved EXCEPT !.minutes = saved.minutes + Due(t)]
    BY DEF Credited
  <2> QED
    BY <1>1, <2>2, <2>3 DEF Saves, Earned, Minutes
<1>6. CASE NothingDue(t, least)
  BY <1>3, <1>4, <1>6, WritesSurvive DEF NothingDue
<1>7. CASE CreditSucceeds(t, least)
  BY <1>3, <1>5, <1>7, WritesSurvive DEF CreditSucceeds
<1>8. CASE CreditFails(t, least)
  <2>1. tracker' = t
    BY <1>8 DEF CreditFails
  <2>2. CASE UNCHANGED save
    BY <1>3, <1>4, <2>1, <2>2, WritesSurvive
  <2>3. CASE HasLeader /\ Save!Attempt(Credited(t))
    <3>1. /\ Credited(t).minutes <= Minutes(saved) + WholeMinutes(tracker')
          /\ Credited(t).minutes >= saved.minutes
      BY <1>1, <1>5, <2>1, <2>3
    <3> QED
      BY <1>3, <1>5, <2>3, <3>1, WritesSurvive
  <2> QED
    BY <1>8, <2>2, <2>3 DEF CreditFails, CommitFails
<1> QED
  BY <1>6, <1>7, <1>8 DEF Settle

\* Every step of the service keeps it.
LEMMA StepsSurvive ==
    CreditInv /\ SurviveInv /\ [Next]_vars => SurviveInv'
<1> SUFFICES ASSUME CreditInv, SurviveInv, [Next]_vars PROVE SurviveInv'
  OBVIOUS
<1>1. /\ TypeOK /\ tracker \in Trackers /\ Counted(tracker) /\ saved \in Save!Outcomes
      /\ Pending(tracker) \in Nat /\ WholeMinutes(tracker) \in Nat /\ Minutes(saved) \in Nat
      /\ book = 0 => ~ sessionActive
  BY IdleFacts
<1>2. tracker' \in Trackers /\ Counted(tracker')
  BY StepsKeep DEF CreditInv, TypeOK, Counted
<1>3. WholeMinutes(tracker') \in Nat
  BY <1>2, PendingFacts
<1>4. NewSave \in Saves /\ Earned(NewSave) /\ NewSave.minutes = 0
  BY DEF NewSave, Saves, Earned
<1>5. ASSUME UNCHANGED <<tracker, save>>
      PROVE  SurviveInv'
  <2>1. WholeMinutes(tracker) <= WholeMinutes(tracker')
    BY <1>1, <1>5
  <2> QED
    BY <1>1, <1>3, <1>4, <1>5, <2>1, WritesSurvive
<1>6. ASSUME NEW t, NEW seconds, NEW worth, Grown(t, seconds, worth)
      PROVE  t \in Trackers /\ Counted(t) /\ WholeMinutes(tracker) <= WholeMinutes(t)
  <2>1. t \in Trackers /\ Counted(t) /\ Pending(tracker) <= Pending(t)
    BY <1>6 DEF Grown
  <2>2. Pending(t) \in Nat
    BY <2>1, PendingFacts
  <2> QED
    BY <1>1, <2>1, <2>2, QuotientGrows, TrackerAssumption DEF WholeMinutes
<1>7. CASE Checkpoint \/ CheckpointFails \/ CheckpointNotDue
  <2>1. PICK seconds \in Gaps, ago \in Gaps, turned \in BOOLEAN :
           /\ Loop(seconds, turned, ago)
           /\ Settle(LoopTracker(turned, ago), CheckpointMinutes)
    BY <1>7 DEF Checkpoint, CheckpointFails, CheckpointNotDue, Settle
  <2>2. sessionActive /\ Elapse(seconds) /\ ago <= seconds
    BY <2>1 DEF Loop
  <2>3. \E worth : Grown(LoopTracker(turned, ago), seconds, worth)
    <3>1. CASE turned
      BY <2>2, <3>1, TurnGrows DEF LoopTracker
    <3>2. CASE ~ turned
      BY <2>2, <3>2, TickGrows DEF LoopTracker
    <3> QED
      BY <3>1, <3>2
  <2> QED
    BY <1>1, <1>6, <2>1, <2>3, SettlingSurvives, TrackerAssumption
<1>8. CASE Open
  <2>1. PICK b \in Books : OpenWithoutSession(b) \/ OpenWithSession(b) \/ OpenRetryFails(b)
    BY <1>8 DEF Open
  <2> DEFINE t == Retry(tracker)
  <2>2. t \in Trackers /\ Counted(t) /\ WholeMinutes(t) = WholeMinutes(tracker)
    BY <1>1, RetryFacts
  <2>3. WholeMinutes(tracker) <= WholeMinutes(t)
    BY <1>1, <2>2
  <2>4. CASE OpenWithoutSession(b)
    BY <1>5, <2>4 DEF OpenWithoutSession
  <2>5. CASE OpenWithSession(b)
    <3>1. CASE tracker' = Begun(t) /\ UNCHANGED <<save, failing>>
      <4>1. WholeMinutes(tracker) <= WholeMinutes(tracker')
        BY <2>2, <2>3, <3>1, BegunFacts
      <4> QED
        BY <1>1, <1>3, <1>4, <3>1, <4>1, WritesSurvive
    <3>2. CASE Save!Acknowledge(Credited(t))
      <4>1. saved \in Saves /\ saved.leader
        BY <1>1, <2>5 DEF OpenWithSession, HasLeader, Save!Outcomes, NoSave, Lost, Blocked
      <4>2. Credited(t) \in Saves
        BY <1>1, <2>2, <2>5, CreditedFacts DEF OpenWithSession
      <4>3. Credited(t).leader
        BY <4>1 DEF Credited, Saves
      <4>4. Earned(Credited(t))
        BY <4>3 DEF Earned
      <4> QED
        BY <1>1, <1>3, <3>2, <4>2, <4>4, WritesSurvive
    <3> QED
      BY <2>5, <3>1, <3>2 DEF OpenWithSession
  <2>6. CASE OpenRetryFails(b)
    <3>1. Settle(t, 1)
      BY <2>6 DEF OpenRetryFails, Settle
    <3> QED
      BY <1>1, <2>2, <2>3, <3>1, SettlingSurvives
  <2> QED
    BY <2>1, <2>4, <2>5, <2>6
<1>9. CASE Close
  <2>1. PICK seconds \in Gaps : Elapse(seconds) /\ Settle(Tick(tracker, clock'), 1)
    BY <1>9 DEF Close, Settle
  <2>2. Grown(Tick(tracker, clock'), seconds, 0)
    BY <1>9, <2>1, TickGrows DEF Close
  <2> QED
    BY <1>1, <1>6, <2>1, <2>2, SettlingSurvives
<1>10. CASE CloseWithoutSession \/ UNCHANGED vars
  BY <1>5, <1>10 DEF CloseWithoutSession, vars, save
<1>11. CASE Reset
  <2> DEFINE empty == [NewSave EXCEPT !.leader = FALSE]
  <2>1. empty \in Saves /\ Earned(empty) /\ empty.minutes = 0 /\ ~ empty.leader
    BY DEF NewSave, Saves, Earned
  <2>2. UNCHANGED tracker /\ (Save!Acknowledge(empty) \/ CommitFails(empty))
    BY <1>11 DEF Reset
  <2> HIDE DEF empty
  <2>3. 0 <= Minutes(saved) + WholeMinutes(tracker')
    BY <1>1, <1>3
  <2>4. CASE Save!Acknowledge(empty)
    BY <1>1, <1>3, <2>1, <2>4, WritesSurvive
  <2>5. CASE Save!Attempt(empty)
    BY <1>1, <1>3, <2>1, <2>3, <2>5, WritesSurvive
  <2> QED
    BY <1>5, <2>2, <2>4, <2>5 DEF CommitFails
<1>12. CASE CreateStarter
  <2>1. UNCHANGED tracker /\ ~ HasLeader /\ (Save!Acknowledge(NewSave) \/ CommitFails(NewSave))
    BY <1>12 DEF CreateStarter
  <2>2. 0 <= Minutes(saved) + WholeMinutes(tracker')
    BY <1>1, <1>3
  <2>3. CASE Save!Acknowledge(NewSave)
    BY <1>1, <1>3, <1>4, <2>3, WritesSurvive
  <2>4. CASE Save!Attempt(NewSave)
    BY <1>1, <1>3, <1>4, <2>1, <2>2, <2>4, WritesSurvive
  <2> QED
    BY <1>5, <2>1, <2>3, <2>4 DEF CommitFails
<1>13. CASE PowerLoss
  <2>1. saved' \in recover /\ recover' = {saved'}
    BY <1>13 DEF PowerLoss, Save!Restart
  <2>2. saved' \in Save!Outcomes /\ Earned(saved')
    BY <1>1, <2>1 DEF TypeOK, SurviveInv
  <2>3. Minutes(saved') \in Nat
    BY <2>2, BankedFacts
  <2>4. Minutes(saved') <= Minutes(saved') + WholeMinutes(tracker')
    BY <1>3, <2>3
  <2>5. saved'.kind = "Save" => saved'.minutes \in Nat
    BY <2>3 DEF Minutes
  <2> QED
    BY <2>1, <2>2, <2>4, <2>5 DEF SurviveInv, BankedMinutesSurvive, IsWhatWasBanked, Earned, HasLeader,
       Minutes, WholeMinutes, Pending, Since
<1> QED
  BY <1>7, <1>8, <1>9, <1>10, <1>11, <1>12, <1>13 DEF Next

\* What a start may find is what was banked, throughout.
LEMMA SurviveInvariant == Spec => [](CreditInv /\ SurviveInv)
<1>1. Init => SurviveInv
  <2> SUFFICES ASSUME Init PROVE SurviveInv
    OBVIOUS
  <2>1. WholeMinutes(tracker) \in Nat /\ Minutes(saved) \in Nat
    BY CreditInitial, IdleFacts
  <2>2. saved \in {NoSave, NewSave} /\ recover = {saved}
    BY DEF Init
  <2> QED
    BY <2>1, <2>2 DEF SurviveInv, BankedMinutesSurvive, IsWhatWasBanked, Earned, HasLeader, Minutes,
       NoSave, NewSave
<1> QED
  BY <1>1, StepsSurvive, CreditInvariant, PTL DEF Spec

---------------------------------------------------------------------------------
(* Theorems                                                                    *)

\* Every variable keeps its type, and every counter of the tracker its width.
THEOREM CreditIsTypeCorrect == Spec => []TypeOK
<1>1. CreditInv => TypeOK
  BY DEF CreditInv
<1> QED
  BY <1>1, CreditInvariant, PTL

\* Whatever fails and whenever power is lost, no second is credited twice: not in
\* the save, not in a save a later start may find, not in what is retried.
THEOREM SecondsAreCreditedOnce == Spec => []NoSecondIsCreditedTwice
<1>1. CreditInv => NoSecondIsCreditedTwice
  BY DEF CreditInv, LedgerInv, Banked, NoSecondIsCreditedTwice
<1> QED
  BY <1>1, CreditInvariant, PTL

\* No reading is worth more than its turns: two active windows each.
THEOREM CreditNeedsTurns == Spec => []TurnsBoundTheCredit
<1>1. CreditInv => TurnsBoundTheCredit
  BY IdleFacts DEF Banked, TurnsWorth, TurnsBoundTheCredit
<1> QED
  BY <1>1, CreditInvariant, PTL

\* Every save the next start may find has the minutes acknowledged, but for a
\* reset, and none but those acknowledged or still pending.
THEOREM StartsFindWhatWasBanked == Spec => []BankedMinutesSurvive
<1>1. SurviveInv => BankedMinutesSurvive
  BY DEF SurviveInv
<1> QED
  BY <1>1, SurviveInvariant, PTL

\* A whole minute once credited stays in the save or in the tracker, whatever
\* fails, until the game is reset; a power loss takes no more than was pending.
THEOREM MinutesAreKept == Spec => WholeMinutesAreKept
<1> DEFINE Kept == \/ Reset
                   \/ PowerLoss /\ IsWhatWasBanked(saved')
                   \/ Minutes(saved') + WholeMinutes(tracker') >= Minutes(saved) + WholeMinutes(tracker)
<1>1. CreditInv /\ SurviveInv /\ [Next]_vars => [Kept]_vars
  <2> SUFFICES ASSUME CreditInv, SurviveInv, [Next]_vars PROVE Kept
    OBVIOUS
  <2>1. CASE PowerLoss
    BY <2>1 DEF PowerLoss, Save!Restart, SurviveInv, BankedMinutesSurvive
  <2>2. CASE CreateStarter
    <3>1. /\ saved \in Save!Outcomes /\ WholeMinutes(tracker) \in Nat
          /\ tracker' = tracker /\ ~ HasLeader
      BY <2>2, IdleFacts DEF CreateStarter
    <3>2. Minutes(saved) = 0
      BY <3>1 DEF SurviveInv, Earned, HasLeader, Minutes
    <3>3. saved' \in {saved, NewSave}
      BY <2>2 DEF CreateStarter, CommitFails, save, Save!Acknowledge, Save!Attempt
    <3>4. Minutes(saved') = 0
      BY <3>2, <3>3 DEF Minutes, NewSave
    <3> QED
      BY <3>1, <3>2, <3>4
  <2>3. CASE ~ (PowerLoss \/ CreateStarter)
    BY <2>3, StepsKeepMinutes DEF MinutesStay
  <2> QED
    BY <2>1, <2>2, <2>3
<1>2. Spec => [][Kept]_vars
  <2> HIDE DEF Kept
  <2> QED
    BY <1>1, SurviveInvariant, PTL DEF Spec
<1> QED
  BY <1>2 DEF WholeMinutesAreKept

\* Minutes are banked with the progress of the book they were read in, if what a
\* behaviour reads fits one callback.
THEOREM MinutesStayWithTheirBook ==
    ReadingFitsOneCallback => (Spec => []CreditUsesItsOwnBook)
<1>1. SUFFICES ASSUME ReadingFitsOneCallback PROVE Spec => []CreditUsesItsOwnBook
  OBVIOUS
<1>2. BookInv /\ [Next]_vars => BookInv'
  BY <1>1, StepsKeep DEF BookInv, BookStays
<1>3. Init => BookInv
  BY CreditInitial DEF BookInv
<1>4. BookInv => CreditUsesItsOwnBook
  BY DEF BookInv
<1> QED
  BY <1>2, <1>3, <1>4, PTL DEF Spec

\* While commits succeed, a power loss costs less than one checkpoint, if what a
\* behaviour reads fits one callback.
THEOREM LossIsLessThanACheckpoint ==
    ReadingFitsOneCallback => (Spec => []CheckpointBoundsTheLoss)
<1>1. SUFFICES ASSUME ReadingFitsOneCallback PROVE Spec => []CheckpointBoundsTheLoss
  OBVIOUS
<1>2. BookInv /\ [Next]_vars => BookInv'
  BY <1>1, StepsKeep DEF BookInv, BookStays
<1>3. Init => BookInv
  BY CreditInitial DEF BookInv
<1>4. BookInv => CheckpointBoundsTheLoss
  BY DEF BookInv
<1> QED
  BY <1>2, <1>3, <1>4, PTL DEF Spec
=================================================================================
