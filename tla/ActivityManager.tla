----------------------------- MODULE ActivityManager -----------------------------
(***************************************************************************)
(* The screens (activities) of the firmware, the stack they live on, and   *)
(* the render task that draws the current one.                             *)
(*                                                                         *)
(* The main task runs loop(): the current activity's loop(), then the      *)
(* navigation it asked for, then a pending alert and the deferred update.  *)
(* The render task sleeps until it is notified, takes the render lock and  *)
(* draws.  A task may ask for a render and block until it is done.         *)
(*                                                                         *)
(* An activity's own code (loop(), onEnter(), a result handler) is a       *)
(* sequence of at most MaxCalls calls per loop(), of which a navigation is *)
(* the last.  Work done in one critical section of the render lock that    *)
(* calls nothing else is one step.  Activity objects are members of        *)
(* Instances; a destroyed object's address may be used again.              *)
(***************************************************************************)
EXTENDS Integers, Sequences, FiniteSets

CONSTANTS
    Instances,  \* addresses an activity object may have; 0 is a null pointer
    Helpers,    \* tasks other than the main and the render task that wait for renders
    MaxCalls    \* calls the activities make in one loop()

Tasks == {"main", "render"} \cup Helpers

ASSUME TasksAssumption ==
    /\ Instances \subseteq Nat \ {0}
    /\ {"free", "none", "main", "render"} \cap Helpers = {}
    /\ MaxCalls \in Nat

VARIABLES
    pc,              \* the main task: where it is in loop()
    calls,           \* calls the activities made in this loop()
    current,         \* currentActivity
    stack,           \* stackActivities
    pending,         \* pendingActivity
    action,          \* pendingAction
    alive,           \* the activity objects that exist
    awaited,         \* per object, the child its resultHandler is for; 0: no handler
    homeless,        \* the current activity was launched outside the render lock
    owner,           \* the task that holds renderingMutex, or "free"
    rpc,             \* the render task: where it is in renderTaskLoop()
    drawing,         \* the object whose render() runs
    unseen,          \* the screen or its content changed since the last finished draw began
    renderNotified,  \* the render task's notification count is positive
    requestedUpdate, \* requestedUpdate
    hasPendingAlert, \* APP_STATE.hasPendingAlert
    sync,            \* per task, how far it is in requestUpdateAndWait()
    waiting,         \* waitingTaskHandle
    notified         \* per task, its notification count is positive

screens == <<current, stack, pending, action, alive, awaited, homeless>>
waits == <<sync, waiting, notified>>
flags == <<renderNotified, requestedUpdate, hasPendingAlert>>
drawn == <<rpc, drawing, unseen>>
vars == <<pc, calls, screens, owner, drawn, flags, waits>>

Actions == {"None", "Push", "Pop", "Replace"}

Init ==
    /\ pc = "launch" /\ calls = 0
    /\ current = 0 /\ stack = <<>> /\ pending = 0 /\ action = "None" /\ alive = {}
    /\ awaited = [a \in Instances |-> 0] /\ homeless = FALSE
    /\ owner = "free" /\ rpc = "wait" /\ drawing = 0 /\ unseen = FALSE
    /\ renderNotified = FALSE /\ requestedUpdate = FALSE /\ hasPendingAlert = FALSE
    /\ sync = [t \in Tasks |-> "none"] /\ waiting = "none"
    /\ notified = [t \in Tasks |-> FALSE]

---------------------------------------------------------------------------------
(* Requests for another screen: they only leave a pending action               *)

\* Bound: a new activity finds memory, and leaves some for an alert that is raised.
Fresh == Instances \ alive
Spare(n) == Cardinality(Fresh) >= (IF hasPendingAlert THEN n + 1 ELSE n)
NewInstance == CHOOSE a \in Fresh : TRUE

\* A new activity becomes the pending one; one that was pending is destroyed.
Offer(new, what) ==
    /\ Fresh # {}
    /\ pending' = new /\ action' = what
    /\ alive' = (alive \ {pending}) \cup {new}

Request(new, what) ==
    /\ Offer(new, what)
    /\ UNCHANGED <<current, stack, awaited, homeless>>

PushActivity == Request(NewInstance, "Push")
ReplaceActivity == Request(NewInstance, "Replace")

StartActivityForResult ==
    /\ Offer(NewInstance, "Push")
    /\ awaited' = [awaited EXCEPT ![current] = NewInstance]
    /\ UNCHANGED <<current, stack, homeless>>

\* Plausible bug: a screen offered before is not dropped.
PopActivityBesidePending ==
    /\ action' = "Pop"
    /\ UNCHANGED <<current, stack, pending, alive, awaited, homeless>>

PopActivity ==
    /\ pending' = 0 /\ action' = "Pop"
    /\ alive' = alive \ {pending}
    /\ UNCHANGED <<current, stack, awaited, homeless>>

---------------------------------------------------------------------------------
(* requestUpdateAndWait(), in any task                                         *)

\* Plausible bug: a task may wait while it holds the render lock.
MayWaitLocked(t) == waiting = "none" /\ t # "render"

\* The three guards of the critical section; without them the call is rejected.
MayWait(t) == waiting = "none" /\ t # "render" /\ owner # t

RequestUpdateAndWait(t) ==
    IF MayWait(t)
    THEN /\ waiting' = t
         /\ sync' = [sync EXCEPT ![t] = "registered"]
         /\ UNCHANGED notified
    ELSE UNCHANGED waits

NotifyRender(t) ==
    /\ sync[t] = "registered"
    /\ sync' = [sync EXCEPT ![t] = "blocked"]
    /\ renderNotified' = TRUE
    /\ UNCHANGED <<pc, calls, screens, owner, drawn, requestedUpdate, hasPendingAlert, waiting, notified>>

Resume(t) ==
    /\ sync[t] = "blocked" /\ notified[t]
    /\ sync' = [sync EXCEPT ![t] = "none"]
    /\ notified' = [notified EXCEPT ![t] = FALSE]
    /\ UNCHANGED <<pc, calls, screens, owner, drawn, flags, waiting>>

Wait(t) == NotifyRender(t) \/ Resume(t)

\* A task an activity started, while there is an activity.
HelperRequests(h) ==
    /\ current # 0 /\ sync[h] = "none"
    /\ RequestUpdateAndWait(h)
    /\ UNCHANGED <<pc, calls, screens, owner, drawn, flags>>

---------------------------------------------------------------------------------
(* What the code of an activity may do while the main task runs it             *)

Running == pc \in {"callback", "handler"} /\ sync["main"] = "none"
Call == Running /\ calls < MaxCalls /\ calls' = calls + 1

\* What render() reads changes under the render lock.
LockAndChange ==
    /\ Call /\ owner = "free" /\ owner' = "main" /\ unseen' = TRUE
    /\ UNCHANGED <<pc, screens, rpc, drawing, flags, waits>>

Unlock ==
    /\ Running /\ owner = "main" /\ owner' = "free"
    /\ UNCHANGED <<pc, calls, screens, drawn, flags, waits>>

RequestUpdate ==
    /\ Call
    /\ \/ renderNotified' = TRUE /\ UNCHANGED <<requestedUpdate, hasPendingAlert>>
       \/ requestedUpdate' = TRUE /\ UNCHANGED <<renderNotified, hasPendingAlert>>
    /\ UNCHANGED <<pc, screens, owner, drawn, waits>>

RaiseAlert ==
    /\ Call /\ Spare(1) /\ hasPendingAlert' = TRUE
    /\ UNCHANGED <<pc, screens, owner, drawn, renderNotified, requestedUpdate, waits>>

\* Home, the only activity launched outside the lock while a render may be under
\* way, makes no synchronous request.
MainRequests ==
    /\ Call /\ ~homeless
    /\ RequestUpdateAndWait("main")
    /\ UNCHANGED <<pc, screens, owner, drawn, flags>>

\* Another screen is asked for, and the activity returns.
Navigate ==
    /\ Call /\ owner # "main" /\ pc' = "drain"
    /\ \/ Spare(1) /\ (PushActivity \/ StartActivityForResult \/ ReplaceActivity)
       \/ PopActivity
    /\ UNCHANGED <<owner, drawn, flags, waits>>

\* The activity returns; after a result handler the parent is drawn again.
Return ==
    /\ Running /\ owner # "main" /\ pc' = "drain"
    /\ requestedUpdate' = (requestedUpdate \/ pc = "handler")
    /\ UNCHANGED <<calls, screens, owner, drawn, renderNotified, hasPendingAlert, waits>>

---------------------------------------------------------------------------------
(* loop(): the pending action                                                  *)

\* Plausible bug: the activity is destroyed without the render lock.
LockIsFreeUnchecked == TRUE
LockIsFree == owner = "free"

Draining(what) == pc = "drain" /\ action = what /\ LockIsFree

\* Plausible bug: the parent stays on the stack.
RemainingWithParent == stack

Parent == stack[Len(stack)]
Remaining == SubSeq(stack, 1, Len(stack) - 1)

\* exitActivity(), then the parent becomes current.
Uncover ==
    /\ Draining("Pop") /\ stack # <<>>
    /\ alive' = alive \ {current}
    /\ current' = Parent /\ stack' = Remaining /\ action' = "None"
    /\ unseen' = TRUE
    /\ homeless' = FALSE
    /\ UNCHANGED <<pending, owner, calls, rpc, drawing, renderNotified, hasPendingAlert, waits>>

\* The parent awaits no result: its update is queued.
PopToParent ==
    /\ Uncover /\ awaited[Parent] = 0
    /\ requestedUpdate' = TRUE
    /\ awaited' = [awaited EXCEPT ![current] = 0]
    /\ UNCHANGED pc

\* Plausible bug: the handler is called but stays in place.
PopToHandlerKept ==
    /\ Uncover /\ awaited[Parent] # 0
    /\ awaited' = [awaited EXCEPT ![current] = 0]
    /\ pc' = "handler"
    /\ UNCHANGED requestedUpdate

\* The handler is moved out, then called without the lock.
PopToHandler ==
    /\ Uncover /\ awaited[Parent] # 0
    /\ awaited' = [awaited EXCEPT ![current] = 0, ![Parent] = 0]
    /\ pc' = "handler"
    /\ UNCHANGED requestedUpdate

\* No parent is left: the lock is released, then goHome() launches Home.
PopLast ==
    /\ Draining("Pop") /\ stack = <<>>
    /\ alive' = alive \ {current} /\ current' = 0 /\ action' = "None" /\ pc' = "launch"
    /\ homeless' = TRUE /\ awaited' = [awaited EXCEPT ![current] = 0]
    /\ UNCHANGED <<calls, stack, pending, owner, drawn, flags, waits>>

\* replaceActivity() with no current activity: at boot, and for PopLast.
Launch ==
    /\ pc = "launch" /\ Fresh # {} /\ pc' = "callback"
    /\ current' = NewInstance /\ alive' = alive \cup {NewInstance}
    /\ unseen' = TRUE
    /\ UNCHANGED <<calls, stack, pending, action, awaited, homeless, owner, rpc, drawing, flags, waits>>

EnterPending ==
    /\ pending # 0 /\ current' = pending /\ pending' = 0 /\ action' = "None"
    /\ unseen' = TRUE /\ homeless' = FALSE
    /\ pc' = "callback"
    /\ UNCHANGED <<calls, owner, rpc, drawing, flags, waits>>

Push ==
    /\ Draining("Push") /\ EnterPending
    /\ stack' = Append(stack, current)
    /\ UNCHANGED <<alive, awaited>>

Replace ==
    /\ Draining("Replace") /\ EnterPending
    /\ stack' = <<>>
    /\ alive' = {pending} /\ awaited' = [a \in Instances |-> 0]

---------------------------------------------------------------------------------
(* loop(): its end and its beginning, and what main.cpp does in between        *)

Drained == pc = "drain" /\ action = "None" /\ pc' = "update"

NoAlert ==
    /\ Drained /\ ~hasPendingAlert
    /\ UNCHANGED <<calls, screens, owner, drawn, flags, waits>>

ShowAlert ==
    /\ Drained /\ hasPendingAlert /\ hasPendingAlert' = FALSE
    /\ PushActivity
    /\ UNCHANGED <<calls, owner, drawn, renderNotified, requestedUpdate, waits>>

NotifyDeferredUpdate ==
    /\ pc = "update" /\ pc' = "idle" /\ calls' = 0
    /\ renderNotified' = (renderNotified \/ requestedUpdate)
    /\ requestedUpdate' = FALSE
    /\ UNCHANGED <<screens, owner, drawn, hasPendingAlert, waits>>

StartLoop ==
    /\ pc = "idle" /\ pc' = "callback"
    /\ UNCHANGED <<calls, screens, owner, drawn, flags, waits>>

\* The gesture for the frontlight panel pushes it and returns at once.
LightPanelGesture ==
    /\ pc = "idle" /\ Spare(1) /\ PushActivity
    /\ UNCHANGED <<pc, calls, owner, drawn, flags, waits>>

\* goToSleep() and the other goTo... calls of main.cpp: a replacement, then loop().
GoToSleep ==
    /\ pc = "idle" /\ pc' = "callback" /\ Spare(1) /\ ReplaceActivity
    /\ UNCHANGED <<calls, owner, drawn, flags, waits>>

RequestManualReaderRefresh ==
    /\ pc = "idle" /\ owner = "free"
    /\ unseen' = TRUE /\ renderNotified' = TRUE
    /\ UNCHANGED <<pc, calls, screens, owner, rpc, drawing, requestedUpdate, hasPendingAlert, waits>>

---------------------------------------------------------------------------------
(* renderTaskLoop()                                                            *)

TakeNotification ==
    /\ rpc = "wait" /\ renderNotified /\ rpc' = "lock" /\ renderNotified' = FALSE
    /\ UNCHANGED <<pc, calls, screens, owner, drawing, unseen, requestedUpdate, hasPendingAlert, waits>>

LockRender ==
    /\ rpc = "lock" /\ owner = "free" /\ rpc' = "draw" /\ owner' = "render"
    /\ drawing' = current
    /\ UNCHANGED <<pc, calls, screens, unseen, flags, waits>>

\* render() itself may ask for another update or raise an alert.
RenderRequests ==
    /\ rpc = "draw" /\ drawing # 0
    /\ \/ renderNotified' = TRUE /\ UNCHANGED <<requestedUpdate, hasPendingAlert>>
       \/ requestedUpdate' = TRUE /\ UNCHANGED <<renderNotified, hasPendingAlert>>
       \/ Spare(1) /\ hasPendingAlert' = TRUE /\ UNCHANGED <<renderNotified, requestedUpdate>>
    /\ UNCHANGED <<pc, calls, screens, owner, drawn, waits>>

\* Plausible bug: render() releases the lock it was given, before the waiter is taken.
EndDrawUnlocked ==
    /\ rpc = "draw" /\ rpc' = "wake" /\ drawing' = 0 /\ owner' = "free"
    /\ unseen' = (unseen /\ drawing = 0)
    /\ UNCHANGED <<pc, calls, screens, flags, waits>>

EndDraw ==
    /\ rpc = "draw" /\ rpc' = "wake" /\ drawing' = 0
    /\ unseen' = (unseen /\ drawing = 0)
    /\ UNCHANGED <<pc, calls, screens, owner, flags, waits>>

\* The critical section takes the handle out; the task it names is notified.
WakeWaiter ==
    /\ rpc = "wake" /\ rpc' = "unlock" /\ waiting' = "none"
    /\ notified' = [t \in Tasks |-> notified[t] \/ t = waiting]
    /\ UNCHANGED <<pc, calls, screens, owner, drawing, unseen, flags, sync>>

\* Plausible bug: notifications are cleared after the draw instead of before it.
UnlockRenderAndClear ==
    /\ rpc = "unlock" /\ rpc' = "wait" /\ owner' = "free" /\ renderNotified' = FALSE
    /\ UNCHANGED <<pc, calls, screens, drawing, unseen, requestedUpdate, hasPendingAlert, waits>>

UnlockRender ==
    /\ rpc = "unlock" /\ rpc' = "wait" /\ owner' = "free"
    /\ UNCHANGED <<pc, calls, screens, drawing, unseen, flags, waits>>

RenderStep == TakeNotification \/ LockRender \/ EndDraw \/ WakeWaiter \/ UnlockRender

---------------------------------------------------------------------------------
ActivityStep ==
    LockAndChange \/ Unlock \/ RequestUpdate \/ RaiseAlert \/ MainRequests \/ Navigate \/ Return
DrainStep == PopToParent \/ PopToHandler \/ PopLast \/ Launch \/ Push \/ Replace
LoopStep ==
    ShowAlert \/ NoAlert \/ NotifyDeferredUpdate \/ StartLoop \/ LightPanelGesture \/ GoToSleep
    \/ RequestManualReaderRefresh
MainStep == ActivityStep \/ DrainStep \/ LoopStep \/ Wait("main")
HelperStep(h) == HelperRequests(h) \/ Wait(h)

Next == MainStep \/ RenderStep \/ RenderRequests \/ \E h \in Helpers : HelperStep(h)

\* Both tasks are scheduled, the mutex wakes its waiters in turn, a screen's code
\* returns, and not every loop() begins with a gesture or a call of main.cpp.
Fairness ==
    /\ SF_vars(MainStep) /\ SF_vars(StartLoop) /\ SF_vars(RenderStep)
    /\ \A h \in Helpers : WF_vars(Wait(h))

Spec == Init /\ [][Next]_vars /\ Fairness

---------------------------------------------------------------------------------
Items(s) == {s[i] : i \in 1 .. Len(s)}

\* Type correctness; in particular no null pointer is ever put on the stack.
TypeOK ==
    /\ pc \in {"idle", "launch", "callback", "handler", "drain", "update"}
    /\ calls \in 0 .. MaxCalls
    /\ current \in Instances \cup {0} /\ pending \in Instances \cup {0}
    /\ stack \in Seq(Instances) /\ action \in Actions /\ alive \subseteq Instances
    /\ awaited \in [Instances -> Instances \cup {0}]
    /\ homeless \in BOOLEAN
    /\ owner \in {"free", "main", "render"}
    /\ rpc \in {"wait", "lock", "draw", "wake", "unlock"}
    /\ drawing \in Instances \cup {0} /\ unseen \in BOOLEAN
    /\ renderNotified \in BOOLEAN /\ requestedUpdate \in BOOLEAN /\ hasPendingAlert \in BOOLEAN
    /\ sync \in [Tasks -> {"none", "registered", "blocked"}]
    /\ waiting \in Tasks \cup {"none"}
    /\ notified \in [Tasks -> BOOLEAN]

\* While render() runs, its object exists and is the current activity: the main task
\* destroys or swaps activities only under the lock (ActivityManager.cpp:72-74).
DrawnActivityIsAlive == drawing # 0 => drawing \in alive /\ drawing = current

\* Every existing object has exactly one owner among the current, the pending and
\* the stacked pointers: none leaks and none is destroyed twice.
EveryScreenHasOneOwner ==
    /\ alive = ({current, pending} \cup Items(stack)) \ {0}
    /\ current # 0 => current # pending /\ current \notin Items(stack)
    /\ pending \notin Items(stack)
    /\ \A i, j \in 1 .. Len(stack) : stack[i] = stack[j] => i = j

\* An action that needs a pending activity has one, or the while loop of loop() would
\* spin for ever; a screen is pushed or popped only over an existing one
\* ("Should never happen in practice", ActivityManager.cpp:122).
PendingActionCanRun ==
    /\ action \in {"Push", "Replace"} <=> pending # 0
    /\ action # "None" => current # 0

\* A result handler gets the result of the child it was set for, never that of an
\* alert, a panel or another child pushed later (ActivityManager.cpp:143-148).
ResultGoesToTheStarter ==
    [][pc = "drain" /\ pc' = "handler" => awaited[Parent] = current]_vars

\* When requestUpdateAndWait() is about to return Rendered to the main task, all that it
\* changed before, the swap of screens included, has been drawn.
RenderedMeansDrawn == notified["main"] => ~ unseen

\* A task is woken only while it waits: no notification is left behind that would end
\* its next wait early.
NoStrayWakeUp == \A t \in Tasks : notified[t] \/ waiting = t => sync[t] # "none"

\* No wake-up is lost and nobody waits for everybody: a task blocked on a render has
\* been notified, or its handle is kept and a draw that will take it is on its way;
\* the render lock that draw may have to wait for is held, if at all, by a main task
\* that runs (ActivityManager.cpp, requestUpdateAndWait() and renderTaskLoop()).
BlockedTaskWillBeWoken ==
    \A t \in Tasks : sync[t] = "blocked" =>
        \/ notified[t]
        \/ /\ waiting = t
           /\ \/ rpc \in {"wait", "unlock"} /\ renderNotified
              \/ rpc = "lock" /\ (owner = "free" \/ (owner = "main" /\ Running))
              \/ rpc \in {"draw", "wake"} /\ owner = "render"

\* An update that was asked for stays asked for until a draw takes it up.
UpdateIsKept ==
    [][renderNotified \/ requestedUpdate =>
           renderNotified' \/ requestedUpdate' \/ (rpc = "wait" /\ rpc' = "lock")]_vars

\* Whoever waits for a render resumes: the guards of requestUpdateAndWait() leave no way
\* to wait for oneself or to overwrite another waiter.
WaiterResumes == \A t \in Tasks \ {"render"} : sync[t] # "none" ~> sync[t] = "none"

\* An update asked for at any time, also in the middle of a draw, starts another draw.
UpdateIsDrawn == renderNotified \/ requestedUpdate ~> rpc = "lock"
=================================================================================
