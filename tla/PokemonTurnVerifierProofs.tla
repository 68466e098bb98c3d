------------------------ MODULE PokemonTurnVerifierProofs ------------------------
(***************************************************************************)
(* Page turn verification, for any number of turns, redraws and failures.  *)
(*                                                                         *)
(* Three arguments carry the proof.  A request is at one place at a time:  *)
(* awaiting a render, being answered, answered, being taken, delivered; so *)
(* the places that hold one never outnumber the requests.  And under the   *)
(* lock the page that is drawn is the page that is current until the       *)
(* render ends, so that the progress an answer carries has been drawn.     *)
(* And the progress of the current page is always somewhere on its way     *)
(* from the request to the delivery, never behind a newer one.             *)
(***************************************************************************)
EXTENDS PokemonTurnVerifier, TLAPS

\* Where the tasks are while they draw, answer, turn and take.
AnsweringSteps == {"loadProgress", "storeProgress", "storeTime", "setReady"}
DrawnSteps == {"verify"} \cup AnsweringSteps
TurningSteps == {"unlock", "request", "await"}
TakingSteps == {"takeTime", "takeProgress", "deliver"}
PendingDraw == {"lock", "load", "draw"}

One(p) == IF p THEN 1 ELSE 0

\* The render lock is held by whoever is inside its critical section.
LockInv ==
    /\ mutex = "render" <=> render \notin {"wait", "lock"}
    /\ mutex = "main" <=> main = "unlock"

\* What is drawn, requested and answered, compared with the page.
DrawInv ==
    /\ requestedProgress <= page /\ drawing <= page
    /\ render \in DrawnSteps => drawing <= seen
    /\ locksPageTurn =>
        /\ render \in {"draw"} \cup DrawnSteps => drawing = page
        /\ progress <= seen /\ renderedProgress <= seen
        /\ output.progress <= seen /\ delivered.progress <= seen

\* A request is at one place at a time, and a page is drawn once for each update.
CountInv ==
    /\ counts.delivered + One(main \in TakingSteps) + One(ready)
         + One(render \in AnsweringSteps) + One(awaitingRender) <= counts.requested
    /\ counts.requested + One(main \in TurningSteps) = page
    /\ clock + One(render \in PendingDraw) + One(notified) + One(requestedUpdate)
         + One(main \in TurningSteps) <= 1 + page + redraws

\* Progress is handed on in order, and the current page's is on its way: about to
\* be requested, requested (with an update pending for it), loaded, stored, ready,
\* being taken, or delivered.
WayInv ==
    /\ delivered.progress <= output.progress /\ output.progress <= renderedProgress
    /\ renderedProgress <= progress /\ progress <= requestedProgress
    /\ main \notin {"unlock", "request"} => requestedProgress = page
    /\ awaitingRender => \/ requestedUpdate \/ notified
                         \/ render \in PendingDraw \cup {"verify"}
                         \/ failures > 0
    /\ \/ main \in TurningSteps \/ awaitingRender
       \/ render = "loadProgress"
       \/ render = "storeProgress" /\ progress = page
       \/ /\ renderedProgress = page
          /\ \/ render \in {"storeTime", "setReady"}
             \/ ready
             \/ main \in {"takeTime", "takeProgress"}
       \/ main = "deliver" /\ output.progress = page
       \/ delivered.progress = page

TurnInv == TypeOK /\ LockInv /\ DrawInv /\ CountInv /\ WayInv

\* Nothing is requested, drawn or locked at the start.
LEMMA TurnInitial == Init => TurnInv
<1> SUFFICES ASSUME Init PROVE TurnInv
  OBVIOUS
<1> USE BoundsAssumption DEF Init, NoTurn
<1>1. TypeOK
  <2>1. 0 \in Turns /\ 0 \in Draws /\ 0 \in 0 .. MaxRedraws /\ 0 \in 0 .. MaxFailures
    BY DEF Turns, Draws
  <2>2. NoTurn \in [renderedAt : Draws, progress : Turns]
    BY <2>1
  <2>3. counts \in [requested : Turns, delivered : Turns]
    BY <2>1
  <2>4. locksPageTurn \in Locking /\ {requestedUpdate, notified, awaitingRender, ready} \subseteq BOOLEAN
    OBVIOUS
  <2> HIDE DEF NoTurn
  <2> QED
    BY <2>1, <2>2, <2>3, <2>4 DEF TypeOK, MainSteps, RenderSteps
<1>2. LockInv
  BY DEF LockInv
<1>3. DrawInv
  BY DEF DrawInv, DrawnSteps, AnsweringSteps
<1>4. CountInv
  BY DEF CountInv, One, TakingSteps, TurningSteps, AnsweringSteps, PendingDraw
<1>5. WayInv
  BY DEF WayInv
<1> QED
  BY <1>1, <1>2, <1>3, <1>4, <1>5 DEF TurnInv

\* Every step keeps the types: the counters stay within their bounds.
LEMMA TypesAreKept == TurnInv /\ [Next]_vars => TypeOK'
<1> SUFFICES ASSUME TurnInv, [Next]_vars PROVE TypeOK'
  OBVIOUS
<1> USE BoundsAssumption DEF TurnInv, TypeOK, CountInv, One, Turns, Draws, MainSteps, RenderSteps,
            TakingSteps, TurningSteps, AnsweringSteps, PendingDraw, MainStep, RenderStep,
            vars, reader, update, request, answer, taken
<1>1. CASE ConsumeNothing
  BY <1>1 DEF ConsumeNothing
<1>2. CASE ConsumeReady
  BY <1>2 DEF ConsumeReady
<1>3. CASE ConsumeTime
  BY <1>3 DEF ConsumeTime
<1>4. CASE ConsumeProgress
  BY <1>4 DEF ConsumeProgress
<1>5. CASE Deliver
  BY <1>5 DEF Deliver
<1>6. CASE NoInput
  BY <1>6 DEF NoInput
<1>7. CASE Redraw
  BY <1>7 DEF Redraw
<1>8. CASE TurnPage
  BY <1>8 DEF TurnPage
<1>9. CASE UnlockPage
  BY <1>9 DEF UnlockPage
<1>10. CASE RequestProgress
  BY <1>10 DEF RequestProgress
<1>11. CASE RequestAwait
  BY <1>11 DEF RequestAwait
<1>12. CASE Notify
  BY <1>12 DEF Notify
<1>13. CASE TakeNotification
  BY <1>13 DEF TakeNotification
<1>14. CASE LockRender
  BY <1>14 DEF LockRender
<1>15. CASE LoadPage
  BY <1>15 DEF LoadPage
<1>16. CASE DrawPage
  BY <1>16 DEF DrawPage
<1>17. CASE DrawFails
  BY <1>17 DEF DrawFails
<1>18. CASE VerifyNothing
  BY <1>18 DEF VerifyNothing
<1>19. CASE VerifyRequest
  BY <1>19 DEF VerifyRequest
<1>20. CASE LoadProgress
  BY <1>20 DEF LoadProgress
<1>21. CASE StoreProgress
  BY <1>21 DEF StoreProgress
<1>22. CASE StoreTime
  BY <1>22 DEF StoreTime
<1>23. CASE SetReady
  BY <1>23 DEF SetReady
<1>24. CASE UnlockRender
  BY <1>24 DEF UnlockRender
<1>25. CASE UNCHANGED vars
  BY <1>25
<1> QED
  BY <1>1, <1>2, <1>3, <1>4, <1>5, <1>6, <1>7, <1>8, <1>9, <1>10, <1>11, <1>12, <1>13,
     <1>14, <1>15, <1>16, <1>17, <1>18, <1>19, <1>20, <1>21, <1>22, <1>23, <1>24, <1>25 DEF Next, Main, Render

\* Every step keeps the lock with the task that is inside.
LEMMA LockIsKept == TurnInv /\ [Next]_vars => LockInv'
<1> SUFFICES ASSUME TurnInv, [Next]_vars PROVE LockInv'
  OBVIOUS
<1> USE DEF TurnInv, LockInv, MainStep, RenderStep, vars, reader, update, request, answer, taken
<1>1. CASE ConsumeNothing
  BY <1>1 DEF ConsumeNothing
<1>2. CASE ConsumeReady
  BY <1>2 DEF ConsumeReady
<1>3. CASE ConsumeTime
  BY <1>3 DEF ConsumeTime
<1>4. CASE ConsumeProgress
  BY <1>4 DEF ConsumeProgress
<1>5. CASE Deliver
  BY <1>5 DEF Deliver
<1>6. CASE NoInput
  BY <1>6 DEF NoInput
<1>7. CASE Redraw
  BY <1>7 DEF Redraw
<1>8. CASE TurnPage
  BY <1>8 DEF TurnPage
<1>9. CASE UnlockPage
  BY <1>9 DEF UnlockPage
<1>10. CASE RequestProgress
  BY <1>10 DEF RequestProgress
<1>11. CASE RequestAwait
  BY <1>11 DEF RequestAwait
<1>12. CASE Notify
  BY <1>12 DEF Notify
<1>13. CASE TakeNotification
  BY <1>13 DEF TakeNotification
<1>14. CASE LockRender
  BY <1>14 DEF LockRender
<1>15. CASE LoadPage
  BY <1>15 DEF LoadPage
<1>16. CASE DrawPage
  BY <1>16 DEF DrawPage
<1>17. CASE DrawFails
  BY <1>17 DEF DrawFails
<1>18. CASE VerifyNothing
  BY <1>18 DEF VerifyNothing
<1>19. CASE VerifyRequest
  BY <1>19 DEF VerifyRequest
<1>20. CASE LoadProgress
  BY <1>20 DEF LoadProgress
<1>21. CASE StoreProgress
  BY <1>21 DEF StoreProgress
<1>22. CASE StoreTime
  BY <1>22 DEF StoreTime
<1>23. CASE SetReady
  BY <1>23 DEF SetReady
<1>24. CASE UnlockRender
  BY <1>24 DEF UnlockRender
<1>25. CASE UNCHANGED vars
  BY <1>25
<1> QED
  BY <1>1, <1>2, <1>3, <1>4, <1>5, <1>6, <1>7, <1>8, <1>9, <1>10, <1>11, <1>12, <1>13,
     <1>14, <1>15, <1>16, <1>17, <1>18, <1>19, <1>20, <1>21, <1>22, <1>23, <1>24, <1>25 DEF Next, Main, Render

\* Under the lock, no step changes the page while it is drawn.
LEMMA DrawingIsKept == TurnInv /\ [Next]_vars => DrawInv'
<1> SUFFICES ASSUME TurnInv, [Next]_vars PROVE DrawInv'
  OBVIOUS
<1> USE DEF TurnInv, TypeOK, LockInv, DrawInv, Turns, DrawnSteps, AnsweringSteps, MainStep, RenderStep,
            vars, reader, update, request, answer, taken
<1>1. CASE ConsumeNothing
  BY <1>1 DEF ConsumeNothing
<1>2. CASE ConsumeReady
  BY <1>2 DEF ConsumeReady
<1>3. CASE ConsumeTime
  BY <1>3 DEF ConsumeTime
<1>4. CASE ConsumeProgress
  BY <1>4 DEF ConsumeProgress
<1>5. CASE Deliver
  BY <1>5 DEF Deliver
<1>6. CASE NoInput
  BY <1>6 DEF NoInput
<1>7. CASE Redraw
  BY <1>7 DEF Redraw
<1>8. CASE TurnPage
  BY <1>8 DEF TurnPage
<1>9. CASE UnlockPage
  BY <1>9 DEF UnlockPage
<1>10. CASE RequestProgress
  BY <1>10 DEF RequestProgress
<1>11. CASE RequestAwait
  BY <1>11 DEF RequestAwait
<1>12. CASE Notify
  BY <1>12 DEF Notify
<1>13. CASE TakeNotification
  BY <1>13 DEF TakeNotification
<1>14. CASE LockRender
  BY <1>14 DEF LockRender
<1>15. CASE LoadPage
  BY <1>15 DEF LoadPage
<1>16. CASE DrawPage
  BY <1>16 DEF DrawPage
<1>17. CASE DrawFails
  BY <1>17 DEF DrawFails
<1>18. CASE VerifyNothing
  BY <1>18 DEF VerifyNothing
<1>19. CASE VerifyRequest
  BY <1>19 DEF VerifyRequest
<1>20. CASE LoadProgress
  BY <1>20 DEF LoadProgress
<1>21. CASE StoreProgress
  BY <1>21 DEF StoreProgress
<1>22. CASE StoreTime
  BY <1>22 DEF StoreTime
<1>23. CASE SetReady
  BY <1>23 DEF SetReady
<1>24. CASE UnlockRender
  BY <1>24 DEF UnlockRender
<1>25. CASE UNCHANGED vars
  BY <1>25
<1> QED
  BY <1>1, <1>2, <1>3, <1>4, <1>5, <1>6, <1>7, <1>8, <1>9, <1>10, <1>11, <1>12, <1>13,
     <1>14, <1>15, <1>16, <1>17, <1>18, <1>19, <1>20, <1>21, <1>22, <1>23, <1>24, <1>25 DEF Next, Main, Render

\* Every step moves a request to its next place.
LEMMA CountsAreKept == TurnInv /\ [Next]_vars => CountInv'
<1> SUFFICES ASSUME TurnInv, [Next]_vars PROVE CountInv'
  OBVIOUS
<1> USE DEF TurnInv, TypeOK, CountInv, One, Turns, Draws, TakingSteps, TurningSteps, AnsweringSteps,
            PendingDraw, MainStep, RenderStep, vars, reader, update, request, answer, taken
<1>1. CASE ConsumeNothing
  BY <1>1 DEF ConsumeNothing
<1>2. CASE ConsumeReady
  BY <1>2 DEF ConsumeReady
<1>3. CASE ConsumeTime
  BY <1>3 DEF ConsumeTime
<1>4. CASE ConsumeProgress
  BY <1>4 DEF ConsumeProgress
<1>5. CASE Deliver
  BY <1>5 DEF Deliver
<1>6. CASE NoInput
  BY <1>6 DEF NoInput
<1>7. CASE Redraw
  BY <1>7 DEF Redraw
<1>8. CASE TurnPage
  BY <1>8 DEF TurnPage
<1>9. CASE UnlockPage
  BY <1>9 DEF UnlockPage
<1>10. CASE RequestProgress
  BY <1>10 DEF RequestProgress
<1>11. CASE RequestAwait
  BY <1>11 DEF RequestAwait
<1>12. CASE Notify
  BY <1>12 DEF Notify
<1>13. CASE TakeNotification
  BY <1>13 DEF TakeNotification
<1>14. CASE LockRender
  BY <1>14 DEF LockRender
<1>15. CASE LoadPage
  BY <1>15 DEF LoadPage
<1>16. CASE DrawPage
  BY <1>16 DEF DrawPage
<1>17. CASE DrawFails
  BY <1>17 DEF DrawFails
<1>18. CASE VerifyNothing
  BY <1>18 DEF VerifyNothing
<1>19. CASE VerifyRequest
  BY <1>19 DEF VerifyRequest
<1>20. CASE LoadProgress
  BY <1>20 DEF LoadProgress
<1>21. CASE StoreProgress
  BY <1>21 DEF StoreProgress
<1>22. CASE StoreTime
  BY <1>22 DEF StoreTime
<1>23. CASE SetReady
  BY <1>23 DEF SetReady
<1>24. CASE UnlockRender
  BY <1>24 DEF UnlockRender
<1>25. CASE UNCHANGED vars
  BY <1>25
<1> QED
  BY <1>1, <1>2, <1>3, <1>4, <1>5, <1>6, <1>7, <1>8, <1>9, <1>10, <1>11, <1>12, <1>13,
     <1>14, <1>15, <1>16, <1>17, <1>18, <1>19, <1>20, <1>21, <1>22, <1>23, <1>24, <1>25 DEF Next, Main, Render

\* Every step hands the progress of the current page on, or leaves it where it is.
LEMMA WayIsKept == TurnInv /\ [Next]_vars => WayInv'
<1> SUFFICES ASSUME TurnInv, [Next]_vars PROVE WayInv'
  OBVIOUS
<1> USE DEF TurnInv, TypeOK, DrawInv, WayInv, Turns, Draws, TurningSteps, PendingDraw, MainStep, RenderStep, vars, reader, update, request, answer, taken
<1>1. CASE ConsumeNothing
  BY <1>1 DEF ConsumeNothing
<1>2. CASE ConsumeReady
  BY <1>2 DEF ConsumeReady
<1>3. CASE ConsumeTime
  BY <1>3 DEF ConsumeTime
<1>4. CASE ConsumeProgress
  BY <1>4 DEF ConsumeProgress
<1>5. CASE Deliver
  BY <1>5 DEF Deliver
<1>6. CASE NoInput
  BY <1>6 DEF NoInput
<1>7. CASE Redraw
  BY <1>7 DEF Redraw
<1>8. CASE TurnPage
  BY <1>8 DEF TurnPage
<1>9. CASE UnlockPage
  BY <1>9 DEF UnlockPage
<1>10. CASE RequestProgress
  BY <1>10 DEF RequestProgress
<1>11. CASE RequestAwait
  BY <1>11 DEF RequestAwait
<1>12. CASE Notify
  BY <1>12 DEF Notify
<1>13. CASE TakeNotification
  BY <1>13 DEF TakeNotification
<1>14. CASE LockRender
  BY <1>14 DEF LockRender
<1>15. CASE LoadPage
  BY <1>15 DEF LoadPage
<1>16. CASE DrawPage
  BY <1>16 DEF DrawPage
<1>17. CASE DrawFails
  BY <1>17 DEF DrawFails
<1>18. CASE VerifyNothing
  BY <1>18 DEF VerifyNothing
<1>19. CASE VerifyRequest
  BY <1>19 DEF VerifyRequest
<1>20. CASE LoadProgress
  BY <1>20 DEF LoadProgress
<1>21. CASE StoreProgress
  BY <1>21 DEF StoreProgress
<1>22. CASE StoreTime
  BY <1>22 DEF StoreTime
<1>23. CASE SetReady
  BY <1>23 DEF SetReady
<1>24. CASE UnlockRender
  BY <1>24 DEF UnlockRender
<1>25. CASE UNCHANGED vars
  BY <1>25
<1> QED
  BY <1>1, <1>2, <1>3, <1>4, <1>5, <1>6, <1>7, <1>8, <1>9, <1>10, <1>11, <1>12, <1>13,
     <1>14, <1>15, <1>16, <1>17, <1>18, <1>19, <1>20, <1>21, <1>22, <1>23, <1>24, <1>25 DEF Next, Main, Render

\* The invariant holds throughout.
LEMMA TurnInvariant == Spec => []TurnInv
<1>1. TurnInv /\ [Next]_vars => TurnInv'
  BY TypesAreKept, LockIsKept, DrawingIsKept, CountsAreKept, WayIsKept DEF TurnInv
<1> QED
  BY <1>1, TurnInitial, PTL DEF Spec

\* All variables keep their types, so that every counter is bounded by the turns
\* and redraws the behaviour makes.
THEOREM TurnsAreTypeCorrect == Spec => []TypeOK
<1>1. TurnInv => TypeOK
  BY DEF TurnInv
<1> QED
  BY <1>1, TurnInvariant, PTL

\* A reader that changes its page under the render lock counts a turn only when
\* that page, or a later one, has been drawn.
THEOREM LockedTurnsAreDrawn == Spec => []LockedReaderCountsDrawnTurns
<1>1. TurnInv => LockedReaderCountsDrawnTurns
  BY DEF TurnInv, DrawInv, LockedReaderCountsDrawnTurns, CountedTurnWasDrawn
<1> QED
  BY <1>1, TurnInvariant, PTL

\* Whatever the interleaving, no request is delivered twice.
THEOREM RequestsAreAnsweredOnce == Spec => []CountsNeverExceedRequests
<1>1. TurnInv => CountsNeverExceedRequests
  BY DEF TurnInv, TypeOK, CountInv, One, Turns, CountsNeverExceedRequests
<1> QED
  BY <1>1, TurnInvariant, PTL

\* When both tasks are at rest, the last turn has been counted with its own
\* progress, unless its page could not be loaded.
THEOREM LastTurnIsCounted == Spec => []NoTurnIsLost
<1>1. TurnInv => NoTurnIsLost
  BY DEF TurnInv, WayInv, NoTurnIsLost, Quiet, TurningSteps, PendingDraw
<1> QED
  BY <1>1, TurnInvariant, PTL

\* Times are handed on in order, as the progress is.
OrderInv ==
    /\ delivered.renderedAt <= output.renderedAt /\ output.renderedAt <= renderedAt
    /\ renderedAt <= clock

Arrives ==
    /\ delivered'.progress >= delivered.progress /\ delivered'.progress <= page'
    /\ delivered'.renderedAt >= delivered.renderedAt /\ delivered'.renderedAt <= clock'

\* The only steps that hand an answer on, and what they leave alone.
LEMMA OrderIsKept ==
    ASSUME TurnInv, TurnInv', OrderInv, [Next]_vars
    PROVE  OrderInv' /\ Arrives
<1> USE DEF Turns, Draws, MainStep, RenderStep, vars, reader, update, request, answer, taken
<1>1. /\ clock \in Nat /\ renderedAt \in Nat /\ page \in Nat /\ clock' \in Nat /\ page' \in Nat
      /\ output.renderedAt \in Nat /\ delivered.renderedAt \in Nat
      /\ output.progress \in Nat /\ delivered.progress \in Nat /\ delivered'.progress \in Nat
      /\ output \in [renderedAt : Draws, progress : Turns]
  BY BoundsAssumption DEF TurnInv, TypeOK
<1>2. delivered.progress <= output.progress
  BY DEF TurnInv, WayInv
<1>3. delivered'.progress <= page'
  <2>1. /\ delivered'.progress <= output'.progress /\ output'.progress <= renderedProgress'
        /\ renderedProgress' <= progress' /\ progress' <= requestedProgress' /\ requestedProgress' <= page'
    BY DEF TurnInv, WayInv, DrawInv
  <2>2. {output'.progress, renderedProgress', progress', requestedProgress'} \subseteq Nat
    BY BoundsAssumption DEF TurnInv, TypeOK
  <2> QED
    BY <1>1, <2>1, <2>2
<1>4. CASE ConsumeTime
  BY <1>1, <1>3, <1>4 DEF ConsumeTime, OrderInv, Arrives
<1>5. CASE ConsumeProgress
  BY <1>1, <1>3, <1>5 DEF ConsumeProgress, OrderInv, Arrives
<1>6. CASE Deliver
  BY <1>1, <1>2, <1>3, <1>6 DEF Deliver, OrderInv, Arrives
<1>7. CASE StoreTime
  BY <1>1, <1>3, <1>7 DEF StoreTime, OrderInv, Arrives
<1>8. CASE DrawPage
  BY <1>1, <1>3, <1>8 DEF DrawPage, OrderInv, Arrives
<1>9. CASE UNCHANGED <<delivered, output, renderedAt, clock>>
  BY <1>1, <1>3, <1>9 DEF OrderInv, Arrives
<1>10. CASE \/ ConsumeNothing \/ ConsumeReady \/ NoInput \/ Redraw \/ TurnPage \/ UnlockPage
            \/ RequestProgress \/ RequestAwait \/ Notify
            \/ TakeNotification \/ LockRender \/ LoadPage \/ DrawFails \/ VerifyNothing
            \/ VerifyRequest \/ LoadProgress \/ StoreProgress \/ SetReady \/ UnlockRender
            \/ UNCHANGED vars
  <2>1. UNCHANGED <<delivered, output, renderedAt, clock>>
    BY <1>10 DEF ConsumeNothing, ConsumeReady, NoInput, Redraw, TurnPage, UnlockPage, RequestProgress,
       RequestAwait, Notify, TakeNotification, LockRender, LoadPage, DrawFails, VerifyNothing,
       VerifyRequest, LoadProgress, StoreProgress, SetReady, UnlockRender
  <2> QED
    BY <1>9, <2>1
<1> QED
  BY <1>4, <1>5, <1>6, <1>7, <1>8, <1>10 DEF Next, Main, Render

\* Fields of two answers may mix, but the tracker never goes back in time or in
\* progress.
THEOREM AnswersArriveInOrder == Spec => TurnsArriveInOrder
<1>1. Init => OrderInv
  BY DEF Init, OrderInv, NoTurn
<1>2. TurnInv /\ TurnInv' /\ OrderInv /\ [Next]_vars => OrderInv' /\ [Arrives]_vars
  BY OrderIsKept
<1> QED
  BY <1>1, <1>2, TurnInvariant, PTL DEF Spec, TurnsArriveInOrder, Arrives

=================================================================================
