-------------------------- MODULE PokemonTurnVerifier --------------------------
(***************************************************************************)
(* How a page turn becomes reading credit: the main task, which runs       *)
(* loop() of the open reader, changes the page and requests its rendering; *)
(* the render task draws it; the main task then finds that the turn was    *)
(* verified.  The two tasks share the page number, the render lock, the    *)
(* update flags of ActivityManager and the five atomics of                 *)
(* PokemonTurnVerifier, each of which is read or written in a step of its  *)
(* own.  The processor has one core, so steps interleave and every task    *)
(* sees the atomics in the order they were written.                        *)
(*                                                                         *)
(* A page is identified with the number of turns made when it is current,  *)
(* and so is the reading progress that belongs to it.  The time of a       *)
(* render is the number of pages drawn so far.                             *)
(***************************************************************************)
EXTENDS Integers

CONSTANTS
    Locking,      \* the readers of an instance: TRUE for one that changes its page
                  \* under the render lock (XTC), FALSE for one that does not
                  \* (TXT, pages of an EPUB section)
    MaxTurns,     \* bound on the page turns of a behaviour
    MaxRedraws,   \* bound on the updates requested for another reason
    MaxFailures   \* bound on the pages that cannot be loaded

ASSUME BoundsAssumption ==
    /\ Locking \subseteq BOOLEAN
    /\ MaxTurns \in Nat /\ MaxRedraws \in Nat /\ MaxFailures \in Nat

VARIABLES
    locksPageTurn,     \* which reader is open
    page,              \* currentPage
    mutex,             \* the task that holds renderingMutex, or "free"
    main,              \* the next step of the main task
    render,            \* the next step of the render task
    requestedUpdate,   \* requestedUpdate of ActivityManager
    notified,          \* the notification count of the render task is not zero
    drawing,           \* the page the render task has loaded
    progress,          \* the requested progress renderSucceeded() has loaded
    clock,             \* pages drawn so far
    awaitingRender, requestedProgress,       \* the request half of the verifier
    ready, renderedAt, renderedProgress,     \* its answer half
    output,            \* the VerifiedTurn consume() fills
    delivered,         \* the last one handed to the tracker
    seen,              \* greatest page drawn
    counts,            \* [requested, delivered]: how often each happened
    redraws, failures  \* of the bounded kinds of steps, how many happened

reader == <<locksPageTurn, page, drawing, clock, seen, redraws, failures>>
update == <<requestedUpdate, notified>>
request == <<awaitingRender, requestedProgress>>
answer == <<progress, ready, renderedAt, renderedProgress>>
taken == <<output, delivered, counts>>
vars == <<reader, mutex, main, render, update, request, answer, taken>>

NoTurn == [renderedAt |-> 0, progress |-> 0]

Init ==
    /\ locksPageTurn \in Locking
    /\ page = 0 /\ drawing = 0 /\ progress = 0 /\ clock = 0 /\ seen = 0
    /\ redraws = 0 /\ failures = 0
    /\ mutex = "free"
    /\ main = "consume" /\ render = "wait"
    /\ requestedUpdate = TRUE /\ notified = FALSE
    /\ awaitingRender = FALSE /\ requestedProgress = 0
    /\ ready = FALSE /\ renderedAt = 0 /\ renderedProgress = 0
    /\ output = NoTurn /\ delivered = NoTurn
    /\ counts = [requested |-> 0, delivered |-> 0]

MainStep(from, to) == main = from /\ main' = to /\ UNCHANGED render
RenderStep(from, to) == render = from /\ render' = to /\ UNCHANGED main

---------------------------------------------------------------------------------
(* The main task: consume(), the credit, the input, the deferred update        *)

\* Nothing was rendered since the last call.
ConsumeNothing ==
    /\ ~ ready
    /\ MainStep("consume", "input")
    /\ UNCHANGED <<reader, mutex, update, request, answer, taken>>

ConsumeReady ==
    /\ ready
    /\ MainStep("consume", "takeTime")
    /\ ready' = FALSE
    /\ UNCHANGED <<reader, mutex, update, request, progress, renderedAt, renderedProgress, taken>>

ConsumeTime ==
    /\ MainStep("takeTime", "takeProgress")
    /\ output' = [output EXCEPT !.renderedAt = renderedAt]
    /\ UNCHANGED <<reader, mutex, update, request, answer, delivered, counts>>

ConsumeProgress ==
    /\ MainStep("takeProgress", "deliver")
    /\ output' = [output EXCEPT !.progress = renderedProgress]
    /\ UNCHANGED <<reader, mutex, update, request, answer, delivered, counts>>

\* Plausible bug: the answer is marked as taken only after it was read.
DeliverThenClear ==
    /\ MainStep("deliver", "input")
    /\ ready' = FALSE
    /\ delivered' = output
    /\ counts' = [counts EXCEPT !.delivered = @ + 1]
    /\ UNCHANGED <<reader, mutex, update, request, progress, renderedAt, renderedProgress, output>>

\* setBookProgressPercent() and onSuccessfulPageTurn() of the service.
Deliver ==
    /\ MainStep("deliver", "input")
    /\ delivered' = output
    /\ counts' = [counts EXCEPT !.delivered = @ + 1]
    /\ UNCHANGED <<reader, mutex, update, request, answer, output>>

NoInput ==
    /\ MainStep("input", "notify")
    /\ UNCHANGED <<reader, mutex, update, request, answer, taken>>

\* Another reason to draw the page again: a menu that closes, a toggle.
Redraw ==
    /\ redraws < MaxRedraws
    /\ MainStep("input", "notify")
    /\ redraws' = redraws + 1
    /\ requestedUpdate' = TRUE
    /\ UNCHANGED <<locksPageTurn, page, drawing, clock, seen, failures, mutex, notified, request, answer, taken>>

\* The page number changes; the reader that locks keeps the lock until unlock.
TurnPage ==
    /\ page < MaxTurns
    /\ IF locksPageTurn
       THEN /\ mutex = "free"
            /\ mutex' = "main"
            /\ MainStep("input", "unlock")
       ELSE /\ UNCHANGED mutex
            /\ MainStep("input", "request")
    /\ page' = page + 1
    /\ UNCHANGED <<locksPageTurn, drawing, clock, seen, redraws, failures, update, request, answer, taken>>

UnlockPage ==
    /\ MainStep("unlock", "request")
    /\ mutex' = "free"
    /\ UNCHANGED <<reader, update, request, answer, taken>>

\* request(): the progress first, then the flag.
RequestProgress ==
    /\ MainStep("request", "await")
    /\ requestedProgress' = page
    /\ UNCHANGED <<reader, mutex, update, awaitingRender, answer, taken>>

\* Then the flag; the reader goes on to requestUpdate().
RequestAwait ==
    /\ MainStep("await", "notify")
    /\ awaitingRender' = TRUE
    /\ counts' = [counts EXCEPT !.requested = @ + 1]
    /\ requestedUpdate' = TRUE
    /\ UNCHANGED <<reader, mutex, notified, requestedProgress, answer, output, delivered>>

\* The end of ActivityManager::loop(): a deferred update wakes the render task.
Notify ==
    /\ MainStep("notify", "consume")
    /\ notified' = (notified \/ requestedUpdate)
    /\ requestedUpdate' = FALSE
    /\ UNCHANGED <<reader, mutex, request, answer, taken>>

Main ==
    \/ ConsumeNothing \/ ConsumeReady \/ ConsumeTime \/ ConsumeProgress \/ Deliver
    \/ NoInput \/ Redraw \/ TurnPage \/ UnlockPage \/ RequestProgress \/ RequestAwait \/ Notify

---------------------------------------------------------------------------------
(* The render task: wait, lock, draw, renderSucceeded(), unlock                *)

\* ulTaskNotifyTake(pdTRUE, ...) clears all notifications at once.
TakeNotification ==
    /\ notified
    /\ RenderStep("wait", "lock")
    /\ notified' = FALSE
    /\ UNCHANGED <<reader, mutex, requestedUpdate, request, answer, taken>>

LockRender ==
    /\ mutex = "free"
    /\ RenderStep("lock", "load")
    /\ mutex' = "render"
    /\ UNCHANGED <<reader, update, request, answer, taken>>

LoadPage ==
    /\ RenderStep("load", "draw")
    /\ drawing' = page
    /\ UNCHANGED <<locksPageTurn, page, clock, seen, redraws, failures, mutex, update, request, answer, taken>>

DrawPage ==
    /\ RenderStep("draw", "verify")
    /\ clock' = clock + 1
    /\ seen' = IF drawing > seen THEN drawing ELSE seen
    /\ UNCHANGED <<locksPageTurn, page, drawing, redraws, failures, mutex, update, request, answer, taken>>

\* Plausible bug: a page that cannot be loaded counts as rendered.
DrawFailsButVerifies ==
    /\ failures < MaxFailures
    /\ RenderStep("draw", "verify")
    /\ failures' = failures + 1
    /\ UNCHANGED <<locksPageTurn, page, drawing, clock, seen, redraws, mutex, update, request, answer, taken>>

\* The page cannot be loaded: renderSucceeded() is not called.
DrawFails ==
    /\ failures < MaxFailures
    /\ RenderStep("draw", "unlock")
    /\ failures' = failures + 1
    /\ UNCHANGED <<locksPageTurn, page, drawing, clock, seen, redraws, mutex, update, request, answer, taken>>

\* The page drawn was not requested as a turn.
VerifyNothing ==
    /\ ~ awaitingRender
    /\ RenderStep("verify", "unlock")
    /\ UNCHANGED <<reader, mutex, update, request, answer, taken>>

VerifyRequest ==
    /\ awaitingRender
    /\ RenderStep("verify", "loadProgress")
    /\ awaitingRender' = FALSE
    /\ UNCHANGED <<reader, mutex, update, requestedProgress, answer, taken>>

LoadProgress ==
    /\ RenderStep("loadProgress", "storeProgress")
    /\ progress' = requestedProgress
    /\ UNCHANGED <<reader, mutex, update, request, ready, renderedAt, renderedProgress, taken>>

StoreProgress ==
    /\ RenderStep("storeProgress", "storeTime")
    /\ renderedProgress' = progress
    /\ UNCHANGED <<reader, mutex, update, request, progress, ready, renderedAt, taken>>

StoreTime ==
    /\ RenderStep("storeTime", "setReady")
    /\ renderedAt' = clock
    /\ UNCHANGED <<reader, mutex, update, request, progress, ready, renderedProgress, taken>>

SetReady ==
    /\ RenderStep("setReady", "unlock")
    /\ ready' = TRUE
    /\ UNCHANGED <<reader, mutex, update, request, progress, renderedAt, renderedProgress, taken>>

\* Plausible bug: requests that arrived during the render count as drawn.
UnlockAndForget ==
    /\ RenderStep("unlock", "wait")
    /\ mutex' = "free"
    /\ notified' = FALSE
    /\ UNCHANGED <<reader, requestedUpdate, request, answer, taken>>

UnlockRender ==
    /\ RenderStep("unlock", "wait")
    /\ mutex' = "free"
    /\ UNCHANGED <<reader, update, request, answer, taken>>

Render ==
    \/ TakeNotification \/ LockRender \/ LoadPage \/ DrawPage \/ DrawFails
    \/ VerifyNothing \/ VerifyRequest \/ LoadProgress \/ StoreProgress \/ StoreTime \/ SetReady \/ UnlockRender

Next == Main \/ Render

\* FreeRTOS schedules both tasks, which have the same priority, in turn.
Fairness == WF_vars(Main) /\ WF_vars(Render)

Spec == Init /\ [][Next]_vars /\ Fairness

---------------------------------------------------------------------------------
(* Properties                                                                  *)

Turns == 0 .. MaxTurns
Draws == 0 .. 1 + MaxTurns + MaxRedraws
MainSteps == {"consume", "takeTime", "takeProgress", "deliver", "input", "unlock",
              "request", "await", "notify"}
RenderSteps == {"wait", "lock", "load", "draw", "verify", "loadProgress", "storeProgress",
                "storeTime", "setReady", "unlock"}

TypeOK ==
    /\ locksPageTurn \in Locking
    /\ {page, drawing, progress, seen, requestedProgress, renderedProgress} \subseteq Turns
    /\ {clock, renderedAt} \subseteq Draws
    /\ mutex \in {"free", "main", "render"}
    /\ main \in MainSteps /\ render \in RenderSteps
    /\ {requestedUpdate, notified, awaitingRender, ready} \subseteq BOOLEAN
    /\ {output, delivered} \subseteq [renderedAt : Draws, progress : Turns]
    /\ counts \in [requested : Turns, delivered : Turns]
    /\ redraws \in 0 .. MaxRedraws /\ failures \in 0 .. MaxFailures

\* The comment of PokemonTurnVerifier: a requested page change is not counted
\* until that page (or, when the reader turned on meanwhile, a later one) has
\* been rendered.
CountedTurnWasDrawn == delivered.progress <= seen

\* The comment holds for the reader that changes its page under the render lock:
\* the render that answers a request began after the page changed.
LockedReaderCountsDrawnTurns == locksPageTurn => CountedTurnWasDrawn

\* However consume() and renderSucceeded() interleave, the tracker is not told
\* of more turns than were requested (turns that follow each other before a
\* render are told as one): one request is never answered twice.
CountsNeverExceedRequests == counts.delivered <= counts.requested

\* Nothing is going on: the main task is between two loops, the render task waits.
Quiet ==
    /\ main = "input" /\ render = "wait"
    /\ ~ requestedUpdate /\ ~ notified /\ ~ ready

\* Nothing is lost between the flags: when both tasks are at rest, the last turn
\* has been counted with its own progress, unless its page could not be loaded,
\* and then the request still stands.
NoTurnIsLost == Quiet => delivered.progress = page \/ (awaitingRender /\ failures > 0)

\* An answer is read and written field by field while newer ones overwrite it; yet
\* the tracker, which subtracts the times of turns, is never told of an earlier
\* turn or of less progress than before, nor of a page that was not turned to.
TurnsArriveInOrder ==
    [][/\ delivered'.progress >= delivered.progress /\ delivered'.progress <= page'
       /\ delivered'.renderedAt >= delivered.renderedAt /\ delivered'.renderedAt <= clock']_vars

\* Both tasks keep being scheduled, so every requested turn is counted (by a
\* delivery of its own or together with a later turn), if its page can be loaded.
EveryTurnIsCounted ==
    \A n \in Turns : counts.requested >= n ~> delivered.progress >= n \/ failures > 0
=================================================================================
