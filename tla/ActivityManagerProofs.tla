-------------------------- MODULE ActivityManagerProofs --------------------------
(***************************************************************************)
(* The activity manager, for any number of screens and waiting tasks.      *)
(*                                                                         *)
(* The render lock separates the draws from the swaps of the current       *)
(* activity, so what is drawn exists.  The pointers partition the objects  *)
(* that exist.  And whoever waits has made its changes before it waits:    *)
(* the render that wakes it held the lock since after those changes.       *)
(***************************************************************************)
EXTENDS ActivityManager, SequenceTheorems, TLAPS

ScreenTypes ==
    /\ current \in Instances \cup {0} /\ pending \in Instances \cup {0}
    /\ stack \in Seq(Instances) /\ action \in Actions /\ alive \subseteq Instances
    /\ awaited \in [Instances -> Instances \cup {0}]
    /\ homeless \in BOOLEAN
StepTypes ==
    /\ pc \in {"idle", "launch", "callback", "handler", "drain", "update"}
    /\ calls \in 0 .. MaxCalls
    /\ owner \in {"free", "main", "render"}
    /\ rpc \in {"wait", "lock", "draw", "wake", "unlock"}
    /\ drawing \in Instances \cup {0} /\ unseen \in BOOLEAN
FlagTypes ==
    /\ renderNotified \in BOOLEAN /\ requestedUpdate \in BOOLEAN /\ hasPendingAlert \in BOOLEAN
    /\ sync \in [Tasks -> {"none", "registered", "blocked"}]
    /\ waiting \in Tasks \cup {"none"}
    /\ notified \in [Tasks -> BOOLEAN]

LEMMA TypesAreThese == TypeOK <=> ScreenTypes /\ StepTypes /\ FlagTypes
  BY DEF TypeOK, ScreenTypes, StepTypes, FlagTypes

LockInv ==
    /\ owner = "render" <=> rpc \in {"draw", "wake", "unlock"}
    /\ owner = "main" => pc \in {"callback", "handler"}

DrawInv == drawing # 0 => rpc = "draw" /\ drawing = current

\* There is no activity only while the first one, or Home, is about to be launched.
LaunchInv ==
    /\ current = 0 <=> pc = "launch"
    /\ pc = "launch" => stack = <<>> /\ pending = 0 /\ action = "None"
    /\ pc = "launch" /\ ~ homeless =>
        rpc = "wait" /\ ~ renderNotified /\ \A t \in Tasks : sync[t] = "none"

WaitInv ==
    /\ NoStrayWakeUp
    /\ \A t \in Tasks : waiting = t => ~ notified[t]
    /\ sync["main"] # "none" => pc \in {"callback", "handler"} /\ ~ homeless /\ owner # "main"

\* What a finished draw leaves unseen is the screen launched beside it.
SeenInv ==
    /\ RenderedMeansDrawn
    /\ rpc = "wake" => ~ unseen \/ homeless \/ current = 0
    /\ rpc = "draw" /\ drawing = 0 => homeless \/ current = 0

\* A screen awaits nothing, or the screen above it; the current one awaits a child
\* only while that child is about to be pushed.
AwaitInv ==
    /\ \A i \in 1 .. Len(stack) - 1 : awaited[stack[i]] \in {0, stack[i + 1]}
    /\ stack # <<>> => awaited[Parent] \in {0, current}
    /\ current # 0 /\ awaited[current] # 0 => awaited[current] = pending /\ pc = "drain" /\ action = "Push"
    /\ \A a \in Instances : a \notin alive \/ a = pending => awaited[a] = 0

ActInv ==
    /\ TypeOK /\ LockInv /\ DrawInv /\ LaunchInv /\ WaitInv /\ SeenInv
    /\ EveryScreenHasOneOwner /\ PendingActionCanRun /\ AwaitInv

---------------------------------------------------------------------------------
(* Sequences of screens                                                        *)

LEMMA ItemsOfAppend ==
    ASSUME NEW s \in Seq(Instances), NEW a \in Instances
    PROVE  /\ Append(s, a) \in Seq(Instances)
           /\ Items(Append(s, a)) = Items(s) \cup {a}
<1> USE DEF Items
<1>1. Len(Append(s, a)) = Len(s) + 1 /\ Len(s) \in Nat
  OBVIOUS
<1>2. \A i \in 1 .. Len(s) : Append(s, a)[i] = s[i]
  OBVIOUS
<1>3. Append(s, a)[Len(s) + 1] = a
  OBVIOUS
<1> QED
  BY <1>1, <1>2, <1>3

LEMMA TopAndRest ==
    ASSUME stack \in Seq(Instances), stack # <<>>
    PROVE  /\ Len(stack) \in Nat \ {0} /\ Parent \in Instances
           /\ Remaining \in Seq(Instances) /\ Len(Remaining) = Len(stack) - 1
           /\ \A i \in 1 .. Len(Remaining) : Remaining[i] = stack[i]
           /\ Items(stack) = Items(Remaining) \cup {Parent}
           /\ \A i \in 1 .. Len(Remaining) : i < Len(stack)
<1>1. Len(stack) \in Nat \ {0} /\ Parent = stack[Len(stack)] /\ Parent \in Instances
  BY DEF Parent
<1>2. \A i \in 1 .. Len(stack) - 1 : stack[i] \in Instances
  BY <1>1
<1>3. /\ Remaining \in Seq(Instances) /\ Len(Remaining) = Len(stack) - 1
      /\ \A i \in 1 .. Len(Remaining) : Remaining[i] = stack[i]
  <2> DEFINE n == Len(stack) - 1
  <2>1. n \in Int /\ 1 \in Int /\ n - 1 + 1 = n /\ n \in Nat
    BY <1>1
  <2>2. /\ SubSeq(stack, 1, n) \in Seq(Instances)
        /\ Len(SubSeq(stack, 1, n)) = IF 1 <= n THEN n - 1 + 1 ELSE 0
        /\ \A i \in 1 .. n - 1 + 1 : SubSeq(stack, 1, n)[i] = stack[1 + i - 1]
    <3> HIDE DEF n
    <3> QED
      BY <1>2, <2>1, SubSeqProperties DEF n
  <2>3. \A i \in 1 .. n : 1 + i - 1 = i
    BY <2>1
  <2> QED
    BY <2>1, <2>2, <2>3 DEF Remaining
<1>4. Items(stack) = Items(Remaining) \cup {Parent}
  BY <1>1, <1>3 DEF Items
<1> QED
  BY <1>1, <1>3, <1>4

LEMMA SomeTasks == "main" \in Tasks /\ "render" \in Tasks /\ Helpers \subseteq Tasks /\ "none" \notin Tasks
  BY TasksAssumption DEF Tasks

LEMMA FreshInstance == Fresh # {} => NewInstance \in Instances \ alive
  BY DEF Fresh, NewInstance

---------------------------------------------------------------------------------
(* The invariant                                                               *)

LEMMA ActInitial == Init => ActInv
<1> SUFFICES ASSUME Init PROVE ActInv
  OBVIOUS
<1> USE DEF Init
<1>1. TypeOK
  <2>1. stack \in Seq(Instances) /\ awaited \in [Instances -> Instances \cup {0}]
    OBVIOUS
  <2>2. ScreenTypes
    BY <2>1 DEF ScreenTypes, Actions
  <2>4. calls \in 0 .. MaxCalls
    BY TasksAssumption
  <2>5. StepTypes
    BY <2>4 DEF StepTypes
  <2>3. FlagTypes
    BY SomeTasks DEF FlagTypes
  <2> QED
    BY <2>2, <2>3, <2>5, TypesAreThese
<1>2. LockInv /\ DrawInv /\ LaunchInv /\ PendingActionCanRun
  BY DEF LockInv, DrawInv, LaunchInv, PendingActionCanRun
<1>3. WaitInv /\ SeenInv
  BY SomeTasks DEF WaitInv, SeenInv, NoStrayWakeUp, RenderedMeansDrawn
<1>4. EveryScreenHasOneOwner
  BY DEF EveryScreenHasOneOwner, Items
<1>5. AwaitInv
  BY DEF AwaitInv
<1> QED
  BY <1>1, <1>2, <1>3, <1>4, <1>5 DEF ActInv

\* Every step keeps the types: of the pointers,
LEMMA ScreenTypesAreKept == ActInv /\ [Next]_vars => ScreenTypes'
<1> SUFFICES ASSUME ActInv, [Next]_vars PROVE ScreenTypes'
  OBVIOUS
<1> USE TasksAssumption, SomeTasks DEF ActInv, TypeOK, ScreenTypes, Actions, LaunchInv, vars, screens, waits, flags, drawn
<1>1. CASE LockAndChange
  BY <1>1 DEF LockAndChange, Call, Running
<1>2. CASE Unlock
  BY <1>2 DEF Unlock, Running
<1>3. CASE RequestUpdate
  BY <1>3 DEF RequestUpdate, Call, Running
<1>4. CASE RaiseAlert
  BY <1>4 DEF RaiseAlert, Call, Running
<1>5. CASE MainRequests
  BY <1>5 DEF MainRequests, Call, Running, RequestUpdateAndWait, MayWait
<1>6. CASE Navigate
  <2>1. current \in Instances
    BY <1>6 DEF Navigate, Call, Running
  <2>2. CASE Spare(1) /\ PushActivity
    BY <2>1, <2>2, FreshInstance DEF Request, PushActivity, ReplaceActivity, StartActivityForResult, PopActivity, Offer
  <2>3. CASE Spare(1) /\ StartActivityForResult
    BY <2>1, <2>3, FreshInstance DEF Request, PushActivity, ReplaceActivity, StartActivityForResult, PopActivity, Offer
  <2>4. CASE Spare(1) /\ ReplaceActivity
    BY <2>1, <2>4, FreshInstance DEF Request, PushActivity, ReplaceActivity, StartActivityForResult, PopActivity, Offer
  <2>5. CASE PopActivity
    BY <2>1, <2>5, FreshInstance DEF Request, PushActivity, ReplaceActivity, StartActivityForResult, PopActivity, Offer
  <2> QED
    BY <1>6, <2>2, <2>3, <2>4, <2>5 DEF Navigate
<1>7. CASE Return
  BY <1>7 DEF Return, Running
<1>8. CASE PopToParent
  <2>1. stack \in Seq(Instances) /\ stack # <<>>
    BY <1>8 DEF TypeOK, PopToParent, PopToHandler, Uncover
  <2> QED
    BY <1>8, <2>1, TopAndRest DEF PopToParent, PopToHandler, Uncover, Draining, LockIsFree
<1>9. CASE PopToHandler
  <2>1. stack \in Seq(Instances) /\ stack # <<>>
    BY <1>9 DEF TypeOK, PopToParent, PopToHandler, Uncover
  <2> QED
    BY <1>9, <2>1, TopAndRest DEF PopToParent, PopToHandler, Uncover, Draining, LockIsFree
<1>10. CASE PopLast
  BY <1>10 DEF PopLast, Draining, LockIsFree
<1>11. CASE Launch
  BY <1>11, FreshInstance DEF Launch
<1>12. CASE Push
  <2>1. stack \in Seq(Instances) /\ current \in Instances
    BY <1>12 DEF TypeOK, LaunchInv, Push, Draining
  <2> QED
    BY <1>12, <2>1, ItemsOfAppend DEF Push, EnterPending, Draining, LockIsFree
<1>13. CASE Replace
  <2>1. pending \in Instances /\ awaited' = [a \in Instances |-> 0]
    BY <1>13 DEF Replace, EnterPending
  <2>2. awaited' \in [Instances -> Instances \cup {0}]
    BY <2>1
  <2>3. stack' \in Seq(Instances)
    BY <1>13 DEF Replace
  <2> QED
    BY <1>13, <2>1, <2>2, <2>3 DEF Replace, EnterPending, Draining, LockIsFree
<1>14. CASE NoAlert
  BY <1>14 DEF NoAlert, Drained
<1>15. CASE ShowAlert
  BY <1>15, FreshInstance DEF ShowAlert, Drained, Request, PushActivity, ReplaceActivity, StartActivityForResult, PopActivity, Offer
<1>16. CASE NotifyDeferredUpdate
  BY <1>16 DEF NotifyDeferredUpdate
<1>17. CASE StartLoop
  BY <1>17 DEF StartLoop
<1>18. CASE LightPanelGesture
  BY <1>18, FreshInstance DEF LightPanelGesture, Request, PushActivity, ReplaceActivity, StartActivityForResult, PopActivity, Offer
<1>19. CASE GoToSleep
  BY <1>19, FreshInstance DEF GoToSleep, Request, PushActivity, ReplaceActivity, StartActivityForResult, PopActivity, Offer
<1>20. CASE RequestManualReaderRefresh
  BY <1>20 DEF RequestManualReaderRefresh
<1>21. CASE \E t \in Tasks : NotifyRender(t)
  BY <1>21 DEF NotifyRender
<1>22. CASE \E t \in Tasks : Resume(t)
  BY <1>22 DEF Resume
<1>23. CASE \E h \in Helpers : HelperRequests(h)
  BY <1>23 DEF HelperRequests, RequestUpdateAndWait, MayWait
<1>24. CASE TakeNotification
  BY <1>24 DEF TakeNotification
<1>25. CASE LockRender
  BY <1>25 DEF LockRender
<1>26. CASE EndDraw
  BY <1>26 DEF EndDraw
<1>27. CASE WakeWaiter
  BY <1>27 DEF WakeWaiter
<1>28. CASE UnlockRender
  BY <1>28 DEF UnlockRender
<1>29. CASE RenderRequests
  BY <1>29 DEF RenderRequests
<1>30. CASE UNCHANGED vars
  BY <1>30
<1> QED
  BY <1>1, <1>2, <1>3, <1>4, <1>5, <1>6, <1>7, <1>8, <1>9, <1>10, <1>11,
     <1>12, <1>13, <1>14, <1>15, <1>16, <1>17, <1>18, <1>19, <1>20, <1>21,
     <1>22, <1>23, <1>24, <1>25, <1>26, <1>27, <1>28, <1>29, <1>30, SomeTasks DEF Next, MainStep, ActivityStep,
     DrainStep, LoopStep, RenderStep, HelperStep, Wait

\* of where the tasks are,
LEMMA StepTypesAreKept == ActInv /\ [Next]_vars => StepTypes'
<1> SUFFICES ASSUME ActInv, [Next]_vars PROVE StepTypes'
  OBVIOUS
<1> USE TasksAssumption, SomeTasks DEF ActInv, TypeOK, StepTypes, vars, screens, waits, flags, drawn
<1>1. CASE LockAndChange
  BY <1>1 DEF LockAndChange, Call, Running
<1>2. CASE Unlock
  BY <1>2 DEF Unlock, Running
<1>3. CASE RequestUpdate
  BY <1>3 DEF RequestUpdate, Call, Running
<1>4. CASE RaiseAlert
  BY <1>4 DEF RaiseAlert, Call, Running
<1>5. CASE MainRequests
  BY <1>5 DEF MainRequests, Call, Running, RequestUpdateAndWait, MayWait
<1>6. CASE Navigate
  BY <1>6 DEF Navigate, Call, Running, Request, PushActivity, ReplaceActivity, StartActivityForResult, PopActivity, Offer
<1>7. CASE Return
  BY <1>7 DEF Return, Running
<1>8. CASE PopToParent
  BY <1>8 DEF PopToParent, Uncover, Draining, LockIsFree
<1>9. CASE PopToHandler
  BY <1>9 DEF PopToHandler, Uncover, Draining, LockIsFree
<1>10. CASE PopLast
  BY <1>10 DEF PopLast, Draining, LockIsFree
<1>11. CASE Launch
  BY <1>11, FreshInstance DEF Launch
<1>12. CASE Push
  BY <1>12 DEF Push, EnterPending, Draining, LockIsFree
<1>13. CASE Replace
  BY <1>13 DEF Replace, EnterPending, Draining, LockIsFree
<1>14. CASE NoAlert
  BY <1>14 DEF NoAlert, Drained
<1>15. CASE ShowAlert
  BY <1>15 DEF ShowAlert, Drained, Request, PushActivity, ReplaceActivity, StartActivityForResult, PopActivity, Offer
<1>16. CASE NotifyDeferredUpdate
  BY <1>16 DEF NotifyDeferredUpdate
<1>17. CASE StartLoop
  BY <1>17 DEF StartLoop
<1>18. CASE LightPanelGesture
  BY <1>18 DEF LightPanelGesture, Request, PushActivity, ReplaceActivity, StartActivityForResult, PopActivity, Offer
<1>19. CASE GoToSleep
  BY <1>19 DEF GoToSleep, Request, PushActivity, ReplaceActivity, StartActivityForResult, PopActivity, Offer
<1>20. CASE RequestManualReaderRefresh
  BY <1>20 DEF RequestManualReaderRefresh
<1>21. CASE \E t \in Tasks : NotifyRender(t)
  BY <1>21 DEF NotifyRender
<1>22. CASE \E t \in Tasks : Resume(t)
  BY <1>22 DEF Resume
<1>23. CASE \E h \in Helpers : HelperRequests(h)
  BY <1>23 DEF HelperRequests, RequestUpdateAndWait, MayWait
<1>24. CASE TakeNotification
  BY <1>24 DEF TakeNotification
<1>25. CASE LockRender
  BY <1>25 DEF LockRender
<1>26. CASE EndDraw
  BY <1>26 DEF EndDraw
<1>27. CASE WakeWaiter
  BY <1>27 DEF WakeWaiter
<1>28. CASE UnlockRender
  BY <1>28 DEF UnlockRender
<1>29. CASE RenderRequests
  BY <1>29 DEF RenderRequests
<1>30. CASE UNCHANGED vars
  BY <1>30
<1> QED
  BY <1>1, <1>2, <1>3, <1>4, <1>5, <1>6, <1>7, <1>8, <1>9, <1>10, <1>11,
     <1>12, <1>13, <1>14, <1>15, <1>16, <1>17, <1>18, <1>19, <1>20, <1>21,
     <1>22, <1>23, <1>24, <1>25, <1>26, <1>27, <1>28, <1>29, <1>30, SomeTasks DEF Next, MainStep, ActivityStep,
     DrainStep, LoopStep, RenderStep, HelperStep, Wait

\* and of the flags between them.
LEMMA FlagTypesAreKept == ActInv /\ [Next]_vars => FlagTypes'
<1> SUFFICES ASSUME ActInv, [Next]_vars PROVE FlagTypes'
  OBVIOUS
<1> USE TasksAssumption, SomeTasks DEF ActInv, TypeOK, FlagTypes, vars, screens, waits, flags, drawn
<1>1. CASE LockAndChange
  BY <1>1 DEF LockAndChange, Call, Running
<1>2. CASE Unlock
  BY <1>2 DEF Unlock, Running
<1>3. CASE RequestUpdate
  BY <1>3 DEF RequestUpdate, Call, Running
<1>4. CASE RaiseAlert
  BY <1>4 DEF RaiseAlert, Call, Running
<1>5. CASE MainRequests
  BY <1>5 DEF MainRequests, Call, Running, RequestUpdateAndWait, MayWait
<1>6. CASE Navigate
  BY <1>6 DEF Navigate, Call, Running, Request, PushActivity, ReplaceActivity, StartActivityForResult, PopActivity, Offer
<1>7. CASE Return
  BY <1>7 DEF Return, Running
<1>8. CASE PopToParent
  BY <1>8 DEF PopToParent, Uncover, Draining, LockIsFree
<1>9. CASE PopToHandler
  BY <1>9 DEF PopToHandler, Uncover, Draining, LockIsFree
<1>10. CASE PopLast
  BY <1>10 DEF PopLast, Draining, LockIsFree
<1>11. CASE Launch
  BY <1>11 DEF Launch
<1>12. CASE Push
  BY <1>12 DEF Push, EnterPending, Draining, LockIsFree
<1>13. CASE Replace
  BY <1>13 DEF Replace, EnterPending, Draining, LockIsFree
<1>14. CASE NoAlert
  BY <1>14 DEF NoAlert, Drained
<1>15. CASE ShowAlert
  BY <1>15 DEF ShowAlert, Drained, Request, PushActivity, ReplaceActivity, StartActivityForResult, PopActivity, Offer
<1>16. CASE NotifyDeferredUpdate
  BY <1>16 DEF NotifyDeferredUpdate
<1>17. CASE StartLoop
  BY <1>17 DEF StartLoop
<1>18. CASE LightPanelGesture
  BY <1>18 DEF LightPanelGesture, Request, PushActivity, ReplaceActivity, StartActivityForResult, PopActivity, Offer
<1>19. CASE GoToSleep
  BY <1>19 DEF GoToSleep, Request, PushActivity, ReplaceActivity, StartActivityForResult, PopActivity, Offer
<1>20. CASE RequestManualReaderRefresh
  BY <1>20 DEF RequestManualReaderRefresh
<1>21. CASE \E t \in Tasks : NotifyRender(t)
  BY <1>21 DEF NotifyRender
<1>22. CASE \E t \in Tasks : Resume(t)
  BY <1>22 DEF Resume
<1>23. CASE \E h \in Helpers : HelperRequests(h)
  BY <1>23 DEF HelperRequests, RequestUpdateAndWait, MayWait
<1>24. CASE TakeNotification
  BY <1>24 DEF TakeNotification
<1>25. CASE LockRender
  BY <1>25 DEF LockRender
<1>26. CASE EndDraw
  BY <1>26 DEF EndDraw
<1>27. CASE WakeWaiter
  BY <1>27 DEF WakeWaiter
<1>28. CASE UnlockRender
  BY <1>28 DEF UnlockRender
<1>29. CASE RenderRequests
  BY <1>29 DEF RenderRequests
<1>30. CASE UNCHANGED vars
  BY <1>30
<1> QED
  BY <1>1, <1>2, <1>3, <1>4, <1>5, <1>6, <1>7, <1>8, <1>9, <1>10, <1>11,
     <1>12, <1>13, <1>14, <1>15, <1>16, <1>17, <1>18, <1>19, <1>20, <1>21,
     <1>22, <1>23, <1>24, <1>25, <1>26, <1>27, <1>28, <1>29, <1>30, SomeTasks DEF Next, MainStep, ActivityStep,
     DrainStep, LoopStep, RenderStep, HelperStep, Wait

\* The lock stays with the task that is in its critical section.
LEMMA LockIsKept == ActInv /\ [Next]_vars => (LockInv /\ DrawInv)'
<1> SUFFICES ASSUME ActInv, [Next]_vars PROVE (LockInv /\ DrawInv)'
  OBVIOUS
<1> USE DEF ActInv, LockInv, DrawInv, LaunchInv, vars, screens, waits, flags, drawn
<1>1. CASE LockAndChange
  BY <1>1 DEF LockAndChange, Call, Running
<1>2. CASE Unlock
  BY <1>2 DEF Unlock, Running
<1>3. CASE RequestUpdate
  BY <1>3 DEF RequestUpdate, Call, Running
<1>4. CASE RaiseAlert
  BY <1>4 DEF RaiseAlert, Call, Running
<1>5. CASE MainRequests
  BY <1>5 DEF MainRequests, Call, Running, RequestUpdateAndWait, MayWait
<1>6. CASE Navigate
  BY <1>6 DEF Navigate, Call, Running, Request, PushActivity, ReplaceActivity, StartActivityForResult, PopActivity, Offer
<1>7. CASE Return
  BY <1>7 DEF Return, Running
<1>8. CASE PopToParent
  BY <1>8 DEF PopToParent, Uncover, Draining, LockIsFree
<1>9. CASE PopToHandler
  BY <1>9 DEF PopToHandler, Uncover, Draining, LockIsFree
<1>10. CASE PopLast
  BY <1>10 DEF PopLast, Draining, LockIsFree
<1>11. CASE Launch
  BY <1>11 DEF Launch
<1>12. CASE Push
  BY <1>12 DEF Push, EnterPending, Draining, LockIsFree
<1>13. CASE Replace
  BY <1>13 DEF Replace, EnterPending, Draining, LockIsFree
<1>14. CASE NoAlert
  BY <1>14 DEF NoAlert, Drained
<1>15. CASE ShowAlert
  BY <1>15 DEF ShowAlert, Drained, Request, PushActivity, ReplaceActivity, StartActivityForResult, PopActivity, Offer
<1>16. CASE NotifyDeferredUpdate
  BY <1>16 DEF NotifyDeferredUpdate
<1>17. CASE StartLoop
  BY <1>17 DEF StartLoop
<1>18. CASE LightPanelGesture
  BY <1>18 DEF LightPanelGesture, Request, PushActivity, ReplaceActivity, StartActivityForResult, PopActivity, Offer
<1>19. CASE GoToSleep
  BY <1>19 DEF GoToSleep, Request, PushActivity, ReplaceActivity, StartActivityForResult, PopActivity, Offer
<1>20. CASE RequestManualReaderRefresh
  BY <1>20 DEF RequestManualReaderRefresh
<1>21. CASE \E t \in Tasks : NotifyRender(t)
  BY <1>21 DEF NotifyRender
<1>22. CASE \E t \in Tasks : Resume(t)
  BY <1>22 DEF Resume
<1>23. CASE \E h \in Helpers : HelperRequests(h)
  BY <1>23 DEF HelperRequests, RequestUpdateAndWait, MayWait
<1>24. CASE TakeNotification
  BY <1>24 DEF TakeNotification
<1>25. CASE LockRender
  BY <1>25 DEF LockRender
<1>26. CASE EndDraw
  BY <1>26 DEF EndDraw
<1>27. CASE WakeWaiter
  BY <1>27 DEF WakeWaiter
<1>28. CASE UnlockRender
  BY <1>28 DEF UnlockRender
<1>29. CASE RenderRequests
  BY <1>29 DEF RenderRequests
<1>30. CASE UNCHANGED vars
  BY <1>30
<1> QED
  BY <1>1, <1>2, <1>3, <1>4, <1>5, <1>6, <1>7, <1>8, <1>9, <1>10, <1>11,
     <1>12, <1>13, <1>14, <1>15, <1>16, <1>17, <1>18, <1>19, <1>20, <1>21,
     <1>22, <1>23, <1>24, <1>25, <1>26, <1>27, <1>28, <1>29, <1>30, SomeTasks DEF Next, MainStep, ActivityStep,
     DrainStep, LoopStep, RenderStep, HelperStep, Wait

\* Only PopLast leaves no activity, and Launch follows.
LEMMA LaunchIsKept == ActInv /\ [Next]_vars => (LaunchInv /\ PendingActionCanRun)'
<1> SUFFICES ASSUME ActInv, [Next]_vars PROVE (LaunchInv /\ PendingActionCanRun)'
  OBVIOUS
<1> USE TasksAssumption, SomeTasks DEF ActInv, TypeOK, LockInv, LaunchInv, WaitInv, PendingActionCanRun, NoStrayWakeUp, vars, screens, waits, flags, drawn
<1>1. CASE LockAndChange
  BY <1>1 DEF LockAndChange, Call, Running
<1>2. CASE Unlock
  BY <1>2 DEF Unlock, Running
<1>3. CASE RequestUpdate
  BY <1>3 DEF RequestUpdate, Call, Running
<1>4. CASE RaiseAlert
  BY <1>4 DEF RaiseAlert, Call, Running
<1>5. CASE MainRequests
  BY <1>5 DEF MainRequests, Call, Running, RequestUpdateAndWait, MayWait
<1>6. CASE Navigate
  BY <1>6, FreshInstance DEF Navigate, Call, Running, Request, PushActivity, ReplaceActivity, StartActivityForResult, PopActivity, Offer
<1>7. CASE Return
  BY <1>7 DEF Return, Running
<1>8. CASE PopToParent
  <2>1. stack \in Seq(Instances) /\ stack # <<>>
    BY <1>8 DEF TypeOK, PopToParent, PopToHandler, Uncover
  <2> QED
    BY <1>8, <2>1, TopAndRest DEF PopToParent, PopToHandler, Uncover, Draining, LockIsFree
<1>9. CASE PopToHandler
  <2>1. stack \in Seq(Instances) /\ stack # <<>>
    BY <1>9 DEF TypeOK, PopToParent, PopToHandler, Uncover
  <2> QED
    BY <1>9, <2>1, TopAndRest DEF PopToParent, PopToHandler, Uncover, Draining, LockIsFree
<1>10. CASE PopLast
  BY <1>10 DEF PopLast, Draining, LockIsFree
<1>11. CASE Launch
  BY <1>11, FreshInstance DEF Launch
<1>12. CASE Push
  BY <1>12 DEF Push, EnterPending, Draining, LockIsFree
<1>13. CASE Replace
  BY <1>13 DEF Replace, EnterPending, Draining, LockIsFree
<1>14. CASE NoAlert
  BY <1>14 DEF NoAlert, Drained
<1>15. CASE ShowAlert
  BY <1>15, FreshInstance DEF ShowAlert, Drained, Request, PushActivity, ReplaceActivity, StartActivityForResult, PopActivity, Offer
<1>16. CASE NotifyDeferredUpdate
  BY <1>16 DEF NotifyDeferredUpdate
<1>17. CASE StartLoop
  BY <1>17 DEF StartLoop
<1>18. CASE LightPanelGesture
  BY <1>18, FreshInstance DEF LightPanelGesture, Request, PushActivity, ReplaceActivity, StartActivityForResult, PopActivity, Offer
<1>19. CASE GoToSleep
  BY <1>19, FreshInstance DEF GoToSleep, Request, PushActivity, ReplaceActivity, StartActivityForResult, PopActivity, Offer
<1>20. CASE RequestManualReaderRefresh
  BY <1>20 DEF RequestManualReaderRefresh
<1>21. CASE \E t \in Tasks : NotifyRender(t)
  BY <1>21 DEF NotifyRender
<1>22. CASE \E t \in Tasks : Resume(t)
  BY <1>22 DEF Resume
<1>23. CASE \E h \in Helpers : HelperRequests(h)
  BY <1>23 DEF HelperRequests, RequestUpdateAndWait, MayWait
<1>24. CASE TakeNotification
  BY <1>24 DEF TakeNotification
<1>25. CASE LockRender
  BY <1>25 DEF LockRender
<1>26. CASE EndDraw
  BY <1>26 DEF EndDraw
<1>27. CASE WakeWaiter
  BY <1>27 DEF WakeWaiter
<1>28. CASE UnlockRender
  BY <1>28 DEF UnlockRender
<1>29. CASE RenderRequests
  BY <1>29 DEF RenderRequests
<1>30. CASE UNCHANGED vars
  BY <1>30
<1> QED
  BY <1>1, <1>2, <1>3, <1>4, <1>5, <1>6, <1>7, <1>8, <1>9, <1>10, <1>11,
     <1>12, <1>13, <1>14, <1>15, <1>16, <1>17, <1>18, <1>19, <1>20, <1>21,
     <1>22, <1>23, <1>24, <1>25, <1>26, <1>27, <1>28, <1>29, <1>30, SomeTasks DEF Next, MainStep, ActivityStep,
     DrainStep, LoopStep, RenderStep, HelperStep, Wait

\* A task is named, or notified, only while it waits.
LEMMA WaitIsKept == ActInv /\ [Next]_vars => WaitInv'
<1> SUFFICES ASSUME ActInv, [Next]_vars PROVE WaitInv'
  OBVIOUS
<1> USE TasksAssumption, SomeTasks DEF ActInv, TypeOK, LockInv, LaunchInv, WaitInv, NoStrayWakeUp, vars, screens, waits, flags, drawn
<1>1. CASE LockAndChange
  BY <1>1 DEF LockAndChange, Call, Running
<1>2. CASE Unlock
  BY <1>2 DEF Unlock, Running
<1>3. CASE RequestUpdate
  BY <1>3 DEF RequestUpdate, Call, Running
<1>4. CASE RaiseAlert
  BY <1>4 DEF RaiseAlert, Call, Running
<1>5. CASE MainRequests
  BY <1>5 DEF MainRequests, Call, Running, RequestUpdateAndWait, MayWait
<1>6. CASE Navigate
  BY <1>6 DEF Navigate, Call, Running, Request, PushActivity, ReplaceActivity, StartActivityForResult, PopActivity, Offer
<1>7. CASE Return
  BY <1>7 DEF Return, Running
<1>8. CASE PopToParent
  BY <1>8 DEF PopToParent, Uncover, Draining, LockIsFree
<1>9. CASE PopToHandler
  BY <1>9 DEF PopToHandler, Uncover, Draining, LockIsFree
<1>10. CASE PopLast
  BY <1>10 DEF PopLast, Draining, LockIsFree
<1>11. CASE Launch
  BY <1>11 DEF Launch
<1>12. CASE Push
  BY <1>12 DEF Push, EnterPending, Draining, LockIsFree
<1>13. CASE Replace
  BY <1>13 DEF Replace, EnterPending, Draining, LockIsFree
<1>14. CASE NoAlert
  BY <1>14 DEF NoAlert, Drained
<1>15. CASE ShowAlert
  BY <1>15 DEF ShowAlert, Drained, Request, PushActivity, ReplaceActivity, StartActivityForResult, PopActivity, Offer
<1>16. CASE NotifyDeferredUpdate
  BY <1>16 DEF NotifyDeferredUpdate
<1>17. CASE StartLoop
  BY <1>17 DEF StartLoop
<1>18. CASE LightPanelGesture
  BY <1>18 DEF LightPanelGesture, Request, PushActivity, ReplaceActivity, StartActivityForResult, PopActivity, Offer
<1>19. CASE GoToSleep
  BY <1>19 DEF GoToSleep, Request, PushActivity, ReplaceActivity, StartActivityForResult, PopActivity, Offer
<1>20. CASE RequestManualReaderRefresh
  BY <1>20 DEF RequestManualReaderRefresh
<1>21. CASE \E t \in Tasks : NotifyRender(t)
  BY <1>21 DEF NotifyRender
<1>22. CASE \E t \in Tasks : Resume(t)
  BY <1>22 DEF Resume
<1>23. CASE \E h \in Helpers : HelperRequests(h)
  BY <1>23 DEF HelperRequests, RequestUpdateAndWait, MayWait
<1>24. CASE TakeNotification
  BY <1>24 DEF TakeNotification
<1>25. CASE LockRender
  BY <1>25 DEF LockRender
<1>26. CASE EndDraw
  BY <1>26 DEF EndDraw
<1>27. CASE WakeWaiter
  BY <1>27 DEF WakeWaiter
<1>28. CASE UnlockRender
  BY <1>28 DEF UnlockRender
<1>29. CASE RenderRequests
  BY <1>29 DEF RenderRequests
<1>30. CASE UNCHANGED vars
  BY <1>30
<1> QED
  BY <1>1, <1>2, <1>3, <1>4, <1>5, <1>6, <1>7, <1>8, <1>9, <1>10, <1>11,
     <1>12, <1>13, <1>14, <1>15, <1>16, <1>17, <1>18, <1>19, <1>20, <1>21,
     <1>22, <1>23, <1>24, <1>25, <1>26, <1>27, <1>28, <1>29, <1>30, SomeTasks DEF Next, MainStep, ActivityStep,
     DrainStep, LoopStep, RenderStep, HelperStep, Wait

\* A draw that ends shows every change made before it began.
LEMMA SeenIsKept == ActInv /\ [Next]_vars => SeenInv'
<1> SUFFICES ASSUME ActInv, [Next]_vars PROVE SeenInv'
  OBVIOUS
<1> USE TasksAssumption, SomeTasks DEF ActInv, TypeOK, LockInv, DrawInv, LaunchInv, WaitInv, SeenInv, NoStrayWakeUp, RenderedMeansDrawn, vars, screens, waits, flags, drawn
<1>1. CASE LockAndChange
  BY <1>1 DEF LockAndChange, Call, Running
<1>2. CASE Unlock
  BY <1>2 DEF Unlock, Running
<1>3. CASE RequestUpdate
  BY <1>3 DEF RequestUpdate, Call, Running
<1>4. CASE RaiseAlert
  BY <1>4 DEF RaiseAlert, Call, Running
<1>5. CASE MainRequests
  BY <1>5 DEF MainRequests, Call, Running, RequestUpdateAndWait, MayWait
<1>6. CASE Navigate
  BY <1>6 DEF Navigate, Call, Running, Request, PushActivity, ReplaceActivity, StartActivityForResult, PopActivity, Offer
<1>7. CASE Return
  BY <1>7 DEF Return, Running
<1>8. CASE PopToParent
  BY <1>8 DEF PopToParent, Uncover, Draining, LockIsFree
<1>9. CASE PopToHandler
  BY <1>9 DEF PopToHandler, Uncover, Draining, LockIsFree
<1>10. CASE PopLast
  BY <1>10 DEF PopLast, Draining, LockIsFree
<1>11. CASE Launch
  BY <1>11 DEF Launch
<1>12. CASE Push
  BY <1>12 DEF Push, EnterPending, Draining, LockIsFree
<1>13. CASE Replace
  BY <1>13 DEF Replace, EnterPending, Draining, LockIsFree
<1>14. CASE NoAlert
  BY <1>14 DEF NoAlert, Drained
<1>15. CASE ShowAlert
  BY <1>15 DEF ShowAlert, Drained, Request, PushActivity, ReplaceActivity, StartActivityForResult, PopActivity, Offer
<1>16. CASE NotifyDeferredUpdate
  BY <1>16 DEF NotifyDeferredUpdate
<1>17. CASE StartLoop
  BY <1>17 DEF StartLoop
<1>18. CASE LightPanelGesture
  BY <1>18 DEF LightPanelGesture, Request, PushActivity, ReplaceActivity, StartActivityForResult, PopActivity, Offer
<1>19. CASE GoToSleep
  BY <1>19 DEF GoToSleep, Request, PushActivity, ReplaceActivity, StartActivityForResult, PopActivity, Offer
<1>20. CASE RequestManualReaderRefresh
  BY <1>20 DEF RequestManualReaderRefresh
<1>21. CASE \E t \in Tasks : NotifyRender(t)
  BY <1>21 DEF NotifyRender
<1>22. CASE \E t \in Tasks : Resume(t)
  BY <1>22 DEF Resume
<1>23. CASE \E h \in Helpers : HelperRequests(h)
  BY <1>23 DEF HelperRequests, RequestUpdateAndWait, MayWait
<1>24. CASE TakeNotification
  BY <1>24 DEF TakeNotification
<1>25. CASE LockRender
  BY <1>25 DEF LockRender
<1>26. CASE EndDraw
  BY <1>26 DEF EndDraw
<1>27. CASE WakeWaiter
  BY <1>27 DEF WakeWaiter
<1>28. CASE UnlockRender
  BY <1>28 DEF UnlockRender
<1>29. CASE RenderRequests
  BY <1>29 DEF RenderRequests
<1>30. CASE UNCHANGED vars
  BY <1>30
<1> QED
  BY <1>1, <1>2, <1>3, <1>4, <1>5, <1>6, <1>7, <1>8, <1>9, <1>10, <1>11,
     <1>12, <1>13, <1>14, <1>15, <1>16, <1>17, <1>18, <1>19, <1>20, <1>21,
     <1>22, <1>23, <1>24, <1>25, <1>26, <1>27, <1>28, <1>29, <1>30, SomeTasks DEF Next, MainStep, ActivityStep,
     DrainStep, LoopStep, RenderStep, HelperStep, Wait

\* Every object stays with one pointer.
LEMMA OwnersAreKept == ActInv /\ [Next]_vars => EveryScreenHasOneOwner'
<1> SUFFICES ASSUME ActInv, [Next]_vars PROVE EveryScreenHasOneOwner'
  OBVIOUS
<1> USE TasksAssumption DEF ActInv, TypeOK, LaunchInv, PendingActionCanRun, vars, screens, waits, flags, drawn
<1>1. CASE LockAndChange
  BY <1>1 DEF EveryScreenHasOneOwner, Items, LockAndChange, Call, Running
<1>2. CASE Unlock
  BY <1>2 DEF EveryScreenHasOneOwner, Items, Unlock, Running
<1>3. CASE RequestUpdate
  BY <1>3 DEF EveryScreenHasOneOwner, Items, RequestUpdate, Call, Running
<1>4. CASE RaiseAlert
  BY <1>4 DEF EveryScreenHasOneOwner, Items, RaiseAlert, Call, Running
<1>5. CASE MainRequests
  BY <1>5 DEF EveryScreenHasOneOwner, Items, MainRequests, Call, Running, RequestUpdateAndWait, MayWait
<1>6. CASE Navigate
  BY <1>6, FreshInstance DEF EveryScreenHasOneOwner, Items, Navigate, Call, Running, Request, PushActivity, ReplaceActivity, StartActivityForResult, PopActivity, Offer
<1>7. CASE Return
  BY <1>7 DEF EveryScreenHasOneOwner, Items, Return, Running
<1>8. CASE PopToParent
  <2>1. stack \in Seq(Instances) /\ stack # <<>>
    BY <1>8 DEF TypeOK, PopToParent, PopToHandler, Uncover
  <2>2. action = "Pop" /\ current # 0 /\ pending = 0
    BY <1>8 DEF PopToParent, PopToHandler, Uncover, Draining
  <2>3. alive' = alive \ {current} /\ current' = Parent /\ stack' = Remaining /\ pending' = 0
    BY <1>8, <2>2 DEF PopToParent, PopToHandler, Uncover
  <2>4. Items(Remaining) = {Remaining[i] : i \in 1 .. Len(Remaining)} /\ Items(stack) = {stack[i] : i \in 1 .. Len(stack)}
    BY DEF Items
  <2>5. Items(stack') = Items(Remaining)
    BY <2>3 DEF Items
  <2>6. Parent = stack[Len(stack)] /\ Parent \in Items(stack)
    BY <2>1, <2>4, TopAndRest DEF Parent
  <2>7. Parent \notin Items(Remaining)
    BY <2>1, <2>4, <2>6, TopAndRest DEF EveryScreenHasOneOwner
  <2>8. 0 \notin Instances /\ Parent # 0
    BY <2>1, TopAndRest, TasksAssumption
  <2>9. alive' = ({current', pending'} \cup Items(stack')) \ {0}
    BY <2>1, <2>2, <2>3, <2>5, <2>8, TopAndRest DEF EveryScreenHasOneOwner
  <2>10. \A i, j \in 1 .. Len(Remaining) : Remaining[i] = Remaining[j] => i = j
    BY <2>1, TopAndRest DEF EveryScreenHasOneOwner
  <2> QED
    BY <2>1, <2>2, <2>3, <2>5, <2>7, <2>8, <2>9, <2>10, TopAndRest DEF EveryScreenHasOneOwner
<1>9. CASE PopToHandler
  <2>1. stack \in Seq(Instances) /\ stack # <<>>
    BY <1>9 DEF TypeOK, PopToParent, PopToHandler, Uncover
  <2>2. action = "Pop" /\ current # 0 /\ pending = 0
    BY <1>9 DEF PopToParent, PopToHandler, Uncover, Draining
  <2>3. alive' = alive \ {current} /\ current' = Parent /\ stack' = Remaining /\ pending' = 0
    BY <1>9, <2>2 DEF PopToParent, PopToHandler, Uncover
  <2>4. Items(Remaining) = {Remaining[i] : i \in 1 .. Len(Remaining)} /\ Items(stack) = {stack[i] : i \in 1 .. Len(stack)}
    BY DEF Items
  <2>5. Items(stack') = Items(Remaining)
    BY <2>3 DEF Items
  <2>6. Parent = stack[Len(stack)] /\ Parent \in Items(stack)
    BY <2>1, <2>4, TopAndRest DEF Parent
  <2>7. Parent \notin Items(Remaining)
    BY <2>1, <2>4, <2>6, TopAndRest DEF EveryScreenHasOneOwner
  <2>8. 0 \notin Instances /\ Parent # 0
    BY <2>1, TopAndRest, TasksAssumption
  <2>9. alive' = ({current', pending'} \cup Items(stack')) \ {0}
    BY <2>1, <2>2, <2>3, <2>5, <2>8, TopAndRest DEF EveryScreenHasOneOwner
  <2>10. \A i, j \in 1 .. Len(Remaining) : Remaining[i] = Remaining[j] => i = j
    BY <2>1, TopAndRest DEF EveryScreenHasOneOwner
  <2> QED
    BY <2>1, <2>2, <2>3, <2>5, <2>7, <2>8, <2>9, <2>10, TopAndRest DEF EveryScreenHasOneOwner
<1>10. CASE PopLast
  BY <1>10 DEF EveryScreenHasOneOwner, Items, PopLast, Draining, LockIsFree
<1>11. CASE Launch
  BY <1>11, FreshInstance DEF EveryScreenHasOneOwner, Items, Launch
<1>12. CASE Push
  <2>1. stack \in Seq(Instances) /\ current \in Instances
    BY <1>12 DEF TypeOK, LaunchInv, Push, Draining
  <2> QED
    BY <1>12, <2>1, ItemsOfAppend DEF EveryScreenHasOneOwner, Items, Push, EnterPending, Draining, LockIsFree
<1>13. CASE Replace
  BY <1>13 DEF EveryScreenHasOneOwner, Items, Replace, EnterPending, Draining, LockIsFree
<1>14. CASE NoAlert
  BY <1>14 DEF EveryScreenHasOneOwner, Items, NoAlert, Drained
<1>15. CASE ShowAlert
  BY <1>15, FreshInstance DEF EveryScreenHasOneOwner, Items, ShowAlert, Drained, Request, PushActivity, ReplaceActivity, StartActivityForResult, PopActivity, Offer
<1>16. CASE NotifyDeferredUpdate
  BY <1>16 DEF EveryScreenHasOneOwner, Items, NotifyDeferredUpdate
<1>17. CASE StartLoop
  BY <1>17 DEF EveryScreenHasOneOwner, Items, StartLoop
<1>18. CASE LightPanelGesture
  BY <1>18, FreshInstance DEF EveryScreenHasOneOwner, Items, LightPanelGesture, Request, PushActivity, ReplaceActivity, StartActivityForResult, PopActivity, Offer
<1>19. CASE GoToSleep
  BY <1>19, FreshInstance DEF EveryScreenHasOneOwner, Items, GoToSleep, Request, PushActivity, ReplaceActivity, StartActivityForResult, PopActivity, Offer
<1>20. CASE RequestManualReaderRefresh
  BY <1>20 DEF EveryScreenHasOneOwner, Items, RequestManualReaderRefresh
<1>21. CASE \E t \in Tasks : NotifyRender(t)
  BY <1>21 DEF EveryScreenHasOneOwner, Items, NotifyRender
<1>22. CASE \E t \in Tasks : Resume(t)
  BY <1>22 DEF EveryScreenHasOneOwner, Items, Resume
<1>23. CASE \E h \in Helpers : HelperRequests(h)
  BY <1>23 DEF EveryScreenHasOneOwner, Items, HelperRequests, RequestUpdateAndWait, MayWait
<1>24. CASE TakeNotification
  BY <1>24 DEF EveryScreenHasOneOwner, Items, TakeNotification
<1>25. CASE LockRender
  BY <1>25 DEF EveryScreenHasOneOwner, Items, LockRender
<1>26. CASE EndDraw
  BY <1>26 DEF EveryScreenHasOneOwner, Items, EndDraw
<1>27. CASE WakeWaiter
  BY <1>27 DEF EveryScreenHasOneOwner, Items, WakeWaiter
<1>28. CASE UnlockRender
  BY <1>28 DEF EveryScreenHasOneOwner, Items, UnlockRender
<1>29. CASE RenderRequests
  BY <1>29 DEF EveryScreenHasOneOwner, Items, RenderRequests
<1>30. CASE UNCHANGED vars
  BY <1>30 DEF EveryScreenHasOneOwner, Items
<1> QED
  BY <1>1, <1>2, <1>3, <1>4, <1>5, <1>6, <1>7, <1>8, <1>9, <1>10, <1>11,
     <1>12, <1>13, <1>14, <1>15, <1>16, <1>17, <1>18, <1>19, <1>20, <1>21,
     <1>22, <1>23, <1>24, <1>25, <1>26, <1>27, <1>28, <1>29, <1>30, SomeTasks DEF Next, MainStep, ActivityStep,
     DrainStep, LoopStep, RenderStep, HelperStep, Wait

\* A handler stays with the child it was set for.
LEMMA AwaitedIsKept == ActInv /\ [Next]_vars => AwaitInv'
<1> SUFFICES ASSUME ActInv, [Next]_vars PROVE AwaitInv'
  OBVIOUS
<1> USE TasksAssumption, SomeTasks DEF ActInv, vars, screens, waits, flags, drawn
<1>1. CASE LockAndChange
  BY <1>1 DEF AwaitInv, Parent, LockAndChange, Call, Running
<1>2. CASE Unlock
  BY <1>2 DEF AwaitInv, Parent, Unlock, Running
<1>3. CASE RequestUpdate
  BY <1>3 DEF AwaitInv, Parent, RequestUpdate, Call, Running
<1>4. CASE RaiseAlert
  BY <1>4 DEF AwaitInv, Parent, RaiseAlert, Call, Running
<1>5. CASE MainRequests
  BY <1>5 DEF AwaitInv, Parent, MainRequests, Call, Running, RequestUpdateAndWait, MayWait
<1>6. CASE Navigate
  <2>1. current \in Instances /\ awaited[current] = 0 /\ pc' = "drain" /\ stack' = stack /\ current' = current
    BY <1>6 DEF Navigate, Call, Running, TypeOK, LaunchInv, AwaitInv, Request, PushActivity, ReplaceActivity, StartActivityForResult, PopActivity, Offer
  <2>2. CASE Spare(1) /\ PushActivity
    BY <2>1, <2>2, FreshInstance DEF TypeOK, EveryScreenHasOneOwner, Items, AwaitInv, Parent, Request, PushActivity, ReplaceActivity, StartActivityForResult, PopActivity, Offer
  <2>3. CASE Spare(1) /\ StartActivityForResult
    <3>1. NewInstance \in Instances \ alive /\ awaited' = [awaited EXCEPT ![current] = NewInstance] /\ pending' = NewInstance
          /\ action' = "Push" /\ alive' = (alive \ {pending}) \cup {NewInstance}
      BY <2>3, FreshInstance DEF Request, PushActivity, ReplaceActivity, StartActivityForResult, PopActivity, Offer
    <3>2. \A i \in 1 .. Len(stack) : stack[i] # current /\ stack[i] \in Instances
      BY <2>1 DEF TypeOK, EveryScreenHasOneOwner, Items
    <3>3. \A a \in Instances \ {current} : awaited'[a] = awaited[a]
      BY <3>1 DEF TypeOK
    <3>4. awaited'[current] = NewInstance /\ current \in alive /\ current # pending
      BY <2>1, <3>1, TasksAssumption DEF TypeOK, EveryScreenHasOneOwner
    <3>5. \A i \in 1 .. Len(stack) - 1 : awaited'[stack[i]] \in {0, stack[i + 1]}
      <4>1. Len(stack) \in Nat
        BY DEF TypeOK
      <4>2. \A i \in 1 .. Len(stack) - 1 : stack[i] \in Instances \ {current}
        BY <3>2, <4>1
      <4> QED
        BY <3>3, <4>2 DEF AwaitInv
    <3>6. stack # <<>> => awaited'[Parent] \in {0, current}
      <4>1. stack # <<>> => Parent \in Instances \ {current}
        BY <3>2, TopAndRest DEF TypeOK, Parent
      <4> QED
        BY <3>3, <4>1 DEF AwaitInv
    <3> QED
      BY <2>1, <3>1, <3>3, <3>4, <3>5, <3>6 DEF AwaitInv, Parent
  <2>4. CASE Spare(1) /\ ReplaceActivity
    BY <2>1, <2>4, FreshInstance DEF TypeOK, EveryScreenHasOneOwner, Items, AwaitInv, Parent, Request, PushActivity, ReplaceActivity, StartActivityForResult, PopActivity, Offer
  <2>5. CASE PopActivity
    BY <2>1, <2>5, FreshInstance DEF TypeOK, EveryScreenHasOneOwner, Items, AwaitInv, Parent, Request, PushActivity, ReplaceActivity, StartActivityForResult, PopActivity, Offer
  <2> QED
    BY <1>6, <2>2, <2>3, <2>4, <2>5 DEF Navigate
<1>7. CASE Return
  BY <1>7 DEF AwaitInv, Parent, Return, Running
<1>8. CASE PopToParent
  <2>1. stack \in Seq(Instances) /\ stack # <<>>
    BY <1>8 DEF TypeOK, PopToParent, PopToHandler, Uncover
  <2>2. action = "Pop" /\ current \in Instances /\ pending = 0 /\ 0 \notin Instances
    BY <1>8, TasksAssumption DEF PopToParent, PopToHandler, Uncover, Draining, PendingActionCanRun, TypeOK
  <2>3. alive' = alive \ {current} /\ current' = Parent /\ stack' = Remaining /\ pending' = 0 /\ action' = "None"
    BY <1>8, <2>2 DEF PopToParent, PopToHandler, Uncover
  <2>4. /\ awaited'[Parent] = 0 /\ awaited'[current] = 0
        /\ \A a \in Instances : a # current /\ a # Parent => awaited'[a] = awaited[a]
    BY <1>8, <2>1, <2>2, TopAndRest DEF PopToParent, PopToHandler, TypeOK
  <2>5. \A i \in 1 .. Len(stack) : stack[i] \in Instances /\ stack[i] # current
    BY <2>1, <2>2 DEF EveryScreenHasOneOwner, Items
  <2>6. \A i \in 1 .. Len(Remaining) :
          /\ i \in 1 .. Len(stack) /\ i # Len(stack) /\ Remaining[i] = stack[i]
          /\ stack[i] # Parent /\ awaited'[stack[i]] = awaited[stack[i]]
    <3>1. \A i \in 1 .. Len(Remaining) : i \in 1 .. Len(stack) /\ i # Len(stack) /\ Remaining[i] = stack[i]
      BY <2>1, TopAndRest
    <3>2. Len(stack) \in 1 .. Len(stack) /\ Parent = stack[Len(stack)]
      BY <2>1, TopAndRest DEF Parent
    <3> QED
      BY <2>4, <2>5, <3>1, <3>2 DEF EveryScreenHasOneOwner
  <2>7. \A i \in 1 .. Len(Remaining) : awaited[stack[i]] \in {0, stack[i + 1]}
    BY <2>1, TopAndRest DEF AwaitInv
  <2>8. \A i \in 1 .. Len(stack') - 1 : awaited'[stack'[i]] \in {0, stack'[i + 1]}
    <3>1. Len(Remaining) \in Nat
      BY <2>1, TopAndRest
    <3>2. \A i \in 1 .. Len(Remaining) - 1 : i \in 1 .. Len(Remaining) /\ i + 1 \in 1 .. Len(Remaining)
      BY <3>1
    <3> QED
      BY <2>3, <2>6, <2>7, <3>2
  <2>9. stack' # <<>> => awaited'[Parent'] \in {0, current'}
    <3> SUFFICES ASSUME Remaining # <<>> PROVE awaited'[Remaining[Len(Remaining)]] \in {0, Parent}
      BY <2>3 DEF Parent
    <3>1. Len(Remaining) \in 1 .. Len(Remaining) /\ Len(Remaining) + 1 = Len(stack)
      BY <2>1, TopAndRest
    <3> QED
      BY <2>6, <2>7, <3>1 DEF Parent
  <2>10. \A a \in Instances : a \notin alive' \/ a = pending' => awaited'[a] = 0
    BY <2>2, <2>3, <2>4 DEF AwaitInv
  <2> QED
    BY <2>3, <2>4, <2>8, <2>9, <2>10 DEF AwaitInv
<1>9. CASE PopToHandler
  <2>1. stack \in Seq(Instances) /\ stack # <<>>
    BY <1>9 DEF TypeOK, PopToParent, PopToHandler, Uncover
  <2>2. action = "Pop" /\ current \in Instances /\ pending = 0 /\ 0 \notin Instances
    BY <1>9, TasksAssumption DEF PopToParent, PopToHandler, Uncover, Draining, PendingActionCanRun, TypeOK
  <2>3. alive' = alive \ {current} /\ current' = Parent /\ stack' = Remaining /\ pending' = 0 /\ action' = "None"
    BY <1>9, <2>2 DEF PopToParent, PopToHandler, Uncover
  <2>4. /\ awaited'[Parent] = 0 /\ awaited'[current] = 0
        /\ \A a \in Instances : a # current /\ a # Parent => awaited'[a] = awaited[a]
    BY <1>9, <2>1, <2>2, TopAndRest DEF PopToParent, PopToHandler, TypeOK
  <2>5. \A i \in 1 .. Len(stack) : stack[i] \in Instances /\ stack[i] # current
    BY <2>1, <2>2 DEF EveryScreenHasOneOwner, Items
  <2>6. \A i \in 1 .. Len(Remaining) :
          /\ i \in 1 .. Len(stack) /\ i # Len(stack) /\ Remaining[i] = stack[i]
          /\ stack[i] # Parent /\ awaited'[stack[i]] = awaited[stack[i]]
    <3>1. \A i \in 1 .. Len(Remaining) : i \in 1 .. Len(stack) /\ i # Len(stack) /\ Remaining[i] = stack[i]
      BY <2>1, TopAndRest
    <3>2. Len(stack) \in 1 .. Len(stack) /\ Parent = stack[Len(stack)]
      BY <2>1, TopAndRest DEF Parent
    <3> QED
      BY <2>4, <2>5, <3>1, <3>2 DEF EveryScreenHasOneOwner
  <2>7. \A i \in 1 .. Len(Remaining) : awaited[stack[i]] \in {0, stack[i + 1]}
    BY <2>1, TopAndRest DEF AwaitInv
  <2>8. \A i \in 1 .. Len(stack') - 1 : awaited'[stack'[i]] \in {0, stack'[i + 1]}
    <3>1. Len(Remaining) \in Nat
      BY <2>1, TopAndRest
    <3>2. \A i \in 1 .. Len(Remaining) - 1 : i \in 1 .. Len(Remaining) /\ i + 1 \in 1 .. Len(Remaining)
      BY <3>1
    <3> QED
      BY <2>3, <2>6, <2>7, <3>2
  <2>9. stack' # <<>> => awaited'[Parent'] \in {0, current'}
    <3> SUFFICES ASSUME Remaining # <<>> PROVE awaited'[Remaining[Len(Remaining)]] \in {0, Parent}
      BY <2>3 DEF Parent
    <3>1. Len(Remaining) \in 1 .. Len(Remaining) /\ Len(Remaining) + 1 = Len(stack)
      BY <2>1, TopAndRest
    <3> QED
      BY <2>6, <2>7, <3>1 DEF Parent
  <2>10. \A a \in Instances : a \notin alive' \/ a = pending' => awaited'[a] = 0
    BY <2>2, <2>3, <2>4 DEF AwaitInv
  <2> QED
    BY <2>3, <2>4, <2>8, <2>9, <2>10 DEF AwaitInv
<1>10. CASE PopLast
  BY <1>10 DEF AwaitInv, Parent, TypeOK, PopLast, Draining, LockIsFree
<1>11. CASE Launch
  BY <1>11, FreshInstance DEF TypeOK, LaunchInv, EveryScreenHasOneOwner, Items, AwaitInv, Parent, Launch
<1>12. CASE Push
  <2>1. stack \in Seq(Instances) /\ current \in Instances /\ Len(stack) \in Nat
    BY <1>12 DEF TypeOK, LaunchInv, Push, Draining
  <2>2. /\ stack' = Append(stack, current) /\ current' = pending /\ pending' = 0 /\ action' = "None"
        /\ alive' = alive /\ awaited' = awaited /\ pending \in Instances
    BY <1>12 DEF Push, EnterPending, TypeOK
  <2>3. /\ Len(stack') = Len(stack) + 1 /\ stack'[Len(stack) + 1] = current
        /\ \A i \in 1 .. Len(stack) : stack'[i] = stack[i]
    BY <2>1, <2>2
  <2>4. Parent' = current
    BY <2>3 DEF Parent
  <2>5. \A i \in 1 .. Len(stack) : awaited[stack[i]] \in {0, stack'[i + 1]}
    <3> SUFFICES ASSUME NEW i \in 1 .. Len(stack) PROVE awaited[stack[i]] \in {0, stack'[i + 1]}
      OBVIOUS
    <3>1. CASE i = Len(stack)
      BY <2>1, <2>3, <3>1 DEF AwaitInv, Parent
    <3>2. CASE i # Len(stack)
      <4>1. i \in 1 .. Len(stack) - 1 /\ i + 1 \in 1 .. Len(stack)
        BY <2>1, <3>2
      <4> QED
        BY <2>3, <4>1 DEF AwaitInv
    <3> QED
      BY <3>1, <3>2
  <2>6. awaited[current] \in {0, pending} /\ awaited[pending] = 0
    BY <2>1, <2>2, TasksAssumption DEF AwaitInv
  <2>7. 1 .. Len(stack') - 1 = 1 .. Len(stack)
    BY <2>1, <2>3
  <2>8. 0 \notin Instances
    BY TasksAssumption
  <2> QED
    BY <2>2, <2>3, <2>4, <2>5, <2>6, <2>7, <2>8 DEF AwaitInv
<1>13. CASE Replace
  BY <1>13 DEF AwaitInv, Parent, TypeOK, Replace, EnterPending, Draining, LockIsFree
<1>14. CASE NoAlert
  BY <1>14 DEF AwaitInv, Parent, NoAlert, Drained
<1>15. CASE ShowAlert
  BY <1>15, FreshInstance DEF TypeOK, LaunchInv, EveryScreenHasOneOwner, Items, AwaitInv, Parent, ShowAlert, Drained, Request, PushActivity, ReplaceActivity, StartActivityForResult, PopActivity, Offer
<1>16. CASE NotifyDeferredUpdate
  BY <1>16 DEF AwaitInv, Parent, NotifyDeferredUpdate
<1>17. CASE StartLoop
  BY <1>17 DEF AwaitInv, Parent, StartLoop
<1>18. CASE LightPanelGesture
  BY <1>18, FreshInstance DEF TypeOK, LaunchInv, EveryScreenHasOneOwner, Items, AwaitInv, Parent, LightPanelGesture, Request, PushActivity, ReplaceActivity, StartActivityForResult, PopActivity, Offer
<1>19. CASE GoToSleep
  BY <1>19, FreshInstance DEF TypeOK, LaunchInv, EveryScreenHasOneOwner, Items, AwaitInv, Parent, GoToSleep, Request, PushActivity, ReplaceActivity, StartActivityForResult, PopActivity, Offer
<1>20. CASE RequestManualReaderRefresh
  BY <1>20 DEF AwaitInv, Parent, RequestManualReaderRefresh
<1>21. CASE \E t \in Tasks : NotifyRender(t)
  BY <1>21 DEF AwaitInv, Parent, NotifyRender
<1>22. CASE \E t \in Tasks : Resume(t)
  BY <1>22 DEF AwaitInv, Parent, Resume
<1>23. CASE \E h \in Helpers : HelperRequests(h)
  BY <1>23 DEF AwaitInv, Parent, HelperRequests, RequestUpdateAndWait, MayWait
<1>24. CASE TakeNotification
  BY <1>24 DEF AwaitInv, Parent, TakeNotification
<1>25. CASE LockRender
  BY <1>25 DEF AwaitInv, Parent, LockRender
<1>26. CASE EndDraw
  BY <1>26 DEF AwaitInv, Parent, EndDraw
<1>27. CASE WakeWaiter
  BY <1>27 DEF AwaitInv, Parent, WakeWaiter
<1>28. CASE UnlockRender
  BY <1>28 DEF AwaitInv, Parent, UnlockRender
<1>29. CASE RenderRequests
  BY <1>29 DEF AwaitInv, Parent, RenderRequests
<1>30. CASE UNCHANGED vars
  BY <1>30 DEF AwaitInv, Parent
<1> QED
  BY <1>1, <1>2, <1>3, <1>4, <1>5, <1>6, <1>7, <1>8, <1>9, <1>10, <1>11,
     <1>12, <1>13, <1>14, <1>15, <1>16, <1>17, <1>18, <1>19, <1>20, <1>21,
     <1>22, <1>23, <1>24, <1>25, <1>26, <1>27, <1>28, <1>29, <1>30, SomeTasks DEF Next, MainStep, ActivityStep,
     DrainStep, LoopStep, RenderStep, HelperStep, Wait

LEMMA ActInvariant == Spec => []ActInv
<1>1. ActInv /\ [Next]_vars => TypeOK'
  BY ScreenTypesAreKept, StepTypesAreKept, FlagTypesAreKept DEF TypeOK, ScreenTypes, StepTypes, FlagTypes
<1>2. ActInv /\ [Next]_vars => ActInv'
  BY <1>1, LockIsKept, LaunchIsKept, WaitIsKept, SeenIsKept, OwnersAreKept, AwaitedIsKept DEF ActInv
<1> QED
  BY <1>2, ActInitial, PTL DEF Spec

\* Every variable keeps its type; no null pointer is put on the stack.
THEOREM ActivitiesAreTypeCorrect == Spec => []TypeOK
<1>1. ActInv => TypeOK
  BY DEF ActInv
<1> QED
  BY <1>1, ActInvariant, PTL

\* What render() runs on exists and is the current activity, for any number of
\* screens and any interleaving of the two tasks.
THEOREM RenderTouchesOnlyLiveActivities == Spec => []DrawnActivityIsAlive
<1>1. ActInv => DrawnActivityIsAlive
  BY DEF ActInv, DrawInv, LaunchInv, EveryScreenHasOneOwner, DrawnActivityIsAlive
<1> QED
  BY <1>1, ActInvariant, PTL

\* No activity leaks and none is destroyed twice, whatever is pushed, popped,
\* replaced or overridden before it ran.
THEOREM ScreensAreOwnedOnce == Spec => []EveryScreenHasOneOwner
<1>1. ActInv => EveryScreenHasOneOwner
  BY DEF ActInv
<1> QED
  BY <1>1, ActInvariant, PTL

\* The loop over pending actions never spins on an action it cannot perform.
THEOREM PendingActionsCanRun == Spec => []PendingActionCanRun
<1>1. ActInv => PendingActionCanRun
  BY DEF ActInv
<1> QED
  BY <1>1, ActInvariant, PTL

\* requestUpdateAndWait() tells the main task Rendered only when all that it changed
\* before has been drawn, however many other tasks wait.
THEOREM RenderedIsDrawn == Spec => []RenderedMeansDrawn
<1>1. ActInv => RenderedMeansDrawn
  BY DEF ActInv, SeenInv
<1> QED
  BY <1>1, ActInvariant, PTL

\* No task is notified that does not wait.
THEOREM WakeUpsAreNotLeftBehind == Spec => []NoStrayWakeUp
<1>1. ActInv => NoStrayWakeUp
  BY DEF ActInv, WaitInv
<1> QED
  BY <1>1, ActInvariant, PTL

\* A result handler is only ever called with the result of the child it was set for.
THEOREM ResultsReachTheirStarter == Spec => ResultGoesToTheStarter
<1>1. ActInv /\ [Next]_vars => [pc = "drain" /\ pc' = "handler" => awaited[Parent] = current]_vars
  <2> SUFFICES ASSUME ActInv, Next, pc = "drain", pc' = "handler" PROVE awaited[Parent] = current
    OBVIOUS
  <2>1. PopToHandler
    BY DEF Next, MainStep, ActivityStep, DrainStep, LoopStep, RenderStep, HelperStep, Wait,
       LockAndChange, Call, Running, Unlock, RequestUpdate, RaiseAlert, MainRequests, Navigate, Return, PopToParent, PopLast, Launch, Push, EnterPending, Replace, Drained, NoAlert, ShowAlert, NotifyDeferredUpdate, StartLoop, LightPanelGesture, GoToSleep, RequestManualReaderRefresh, NotifyRender, Resume, HelperRequests, TakeNotification, LockRender, EndDraw, WakeWaiter, UnlockRender, RenderRequests
  <2> QED
    BY <2>1 DEF PopToHandler, Uncover, ActInv, AwaitInv
<1> QED
  BY <1>1, ActInvariant, PTL DEF Spec, ResultGoesToTheStarter


---------------------------------------------------------------------------------
(* Waits that end                                                              *)

\* Whoever waits has been notified or is the task the render task will notify, and
\* the render task has been told once the wait is a blocking one.
WakeInv ==
    \A t \in Tasks : sync[t] # "none" =>
        \/ notified[t]
        \/ /\ waiting = t
           /\ sync[t] = "blocked" => renderNotified \/ rpc \in {"lock", "draw", "wake"}

\* What a task waits for stays on its way.
LEMMA WakeIsKept == ActInv /\ WakeInv /\ [Next]_vars => WakeInv'
<1> SUFFICES ASSUME ActInv, WakeInv, [Next]_vars PROVE WakeInv'
  OBVIOUS
<1> USE TasksAssumption, SomeTasks DEF ActInv, TypeOK, WakeInv, vars, screens, waits, flags, drawn
<1>1. CASE LockAndChange
  BY <1>1 DEF LockAndChange, Call, Running
<1>2. CASE Unlock
  BY <1>2 DEF Unlock, Running
<1>3. CASE RequestUpdate
  BY <1>3 DEF RequestUpdate, Call, Running
<1>4. CASE RaiseAlert
  BY <1>4 DEF RaiseAlert, Call, Running
<1>5. CASE MainRequests
  BY <1>5 DEF MainRequests, Call, Running, RequestUpdateAndWait, MayWait
<1>6. CASE Navigate
  BY <1>6 DEF Navigate, Call, Running, Request, PushActivity, ReplaceActivity, StartActivityForResult, PopActivity, Offer
<1>7. CASE Return
  BY <1>7 DEF Return, Running
<1>8. CASE PopToParent
  BY <1>8 DEF PopToParent, Uncover, Draining, LockIsFree
<1>9. CASE PopToHandler
  BY <1>9 DEF PopToHandler, Uncover, Draining, LockIsFree
<1>10. CASE PopLast
  BY <1>10 DEF PopLast, Draining, LockIsFree
<1>11. CASE Launch
  BY <1>11 DEF Launch
<1>12. CASE Push
  BY <1>12 DEF Push, EnterPending, Draining, LockIsFree
<1>13. CASE Replace
  BY <1>13 DEF Replace, EnterPending, Draining, LockIsFree
<1>14. CASE NoAlert
  BY <1>14 DEF NoAlert, Drained
<1>15. CASE ShowAlert
  BY <1>15 DEF ShowAlert, Drained, Request, PushActivity, ReplaceActivity, StartActivityForResult, PopActivity, Offer
<1>16. CASE NotifyDeferredUpdate
  BY <1>16 DEF NotifyDeferredUpdate
<1>17. CASE StartLoop
  BY <1>17 DEF StartLoop
<1>18. CASE LightPanelGesture
  BY <1>18 DEF LightPanelGesture, Request, PushActivity, ReplaceActivity, StartActivityForResult, PopActivity, Offer
<1>19. CASE GoToSleep
  BY <1>19 DEF GoToSleep, Request, PushActivity, ReplaceActivity, StartActivityForResult, PopActivity, Offer
<1>20. CASE RequestManualReaderRefresh
  BY <1>20 DEF RequestManualReaderRefresh
<1>21. CASE \E t \in Tasks : NotifyRender(t)
  BY <1>21 DEF NotifyRender
<1>22. CASE \E t \in Tasks : Resume(t)
  BY <1>22 DEF Resume
<1>23. CASE \E h \in Helpers : HelperRequests(h)
  BY <1>23 DEF HelperRequests, RequestUpdateAndWait, MayWait
<1>24. CASE TakeNotification
  BY <1>24 DEF TakeNotification
<1>25. CASE LockRender
  BY <1>25 DEF LockRender
<1>26. CASE EndDraw
  BY <1>26 DEF EndDraw
<1>27. CASE WakeWaiter
  BY <1>27 DEF WakeWaiter
<1>28. CASE UnlockRender
  BY <1>28 DEF UnlockRender
<1>29. CASE RenderRequests
  BY <1>29 DEF RenderRequests
<1>30. CASE UNCHANGED vars
  BY <1>30
<1> QED
  BY <1>1, <1>2, <1>3, <1>4, <1>5, <1>6, <1>7, <1>8, <1>9, <1>10, <1>11,
     <1>12, <1>13, <1>14, <1>15, <1>16, <1>17, <1>18, <1>19, <1>20, <1>21,
     <1>22, <1>23, <1>24, <1>25, <1>26, <1>27, <1>28, <1>29, <1>30, SomeTasks DEF Next, MainStep, ActivityStep,
     DrainStep, LoopStep, RenderStep, HelperStep, Wait

LEMMA WakeInvariant == Spec => []WakeInv
<1>1. Init => WakeInv
  BY DEF Init, WakeInv
<1> QED
  BY <1>1, WakeIsKept, ActInvariant, PTL DEF Spec

\* A task blocked in requestUpdateAndWait() is never forgotten, and the tasks never
\* wait for each other in a circle, however many of them ask for renders.
THEOREM NoWakeUpIsLost == Spec => []BlockedTaskWillBeWoken
<1>1. ActInv /\ WakeInv => BlockedTaskWillBeWoken
  <2> SUFFICES ASSUME ActInv, WakeInv, NEW t \in Tasks, sync[t] = "blocked", ~ notified[t]
               PROVE  /\ waiting = t
                      /\ \/ rpc \in {"wait", "unlock"} /\ renderNotified
                         \/ rpc = "lock" /\ (owner = "free" \/ (owner = "main" /\ Running))
                         \/ rpc \in {"draw", "wake"} /\ owner = "render"
    BY DEF BlockedTaskWillBeWoken
  <2>1. waiting = t /\ (renderNotified \/ rpc \in {"lock", "draw", "wake"})
    BY DEF WakeInv
  <2>2. rpc \in {"wait", "lock", "draw", "wake", "unlock"} /\ owner \in {"free", "main", "render"}
    BY DEF ActInv, TypeOK
  <2>3. owner = "main" => Running
    BY DEF ActInv, LockInv, WaitInv, Running
  <2>4. owner = "render" <=> rpc \in {"draw", "wake", "unlock"}
    BY DEF ActInv, LockInv
  <2> QED
    BY <2>1, <2>2, <2>3, <2>4
<1> QED
  BY <1>1, ActInvariant, WakeInvariant, PTL

\* The flag of a request is only ever cleared by what starts the draw that answers it.
THEOREM NoUpdateIsDropped == Spec => UpdateIsKept
<1>1. ActInv /\ [Next]_vars =>
          [renderNotified \/ requestedUpdate =>
               renderNotified' \/ requestedUpdate' \/ (rpc = "wait" /\ rpc' = "lock")]_vars
  <2> SUFFICES ASSUME ActInv, Next, renderNotified \/ requestedUpdate, ~ TakeNotification
               PROVE  renderNotified' \/ requestedUpdate'
    BY DEF TakeNotification
  <2>1. renderNotified \in BOOLEAN /\ requestedUpdate \in BOOLEAN
    BY DEF ActInv, TypeOK
  <2>2. CASE ActivityStep
    BY <2>1, <2>2 DEF ActivityStep, LockAndChange, Call, Running, Unlock, RequestUpdate, RaiseAlert,
       MainRequests, Navigate, Return, flags
  <2>3. CASE DrainStep
    BY <2>3 DEF DrainStep, PopToParent, PopToHandler, Uncover, PopLast, Launch, Push, EnterPending,
       Replace, flags
  <2>4. CASE LoopStep
    <3>1. CASE NotifyDeferredUpdate
      BY <2>1, <3>1 DEF NotifyDeferredUpdate
    <3>2. CASE ~ NotifyDeferredUpdate
      BY <2>4, <3>2 DEF LoopStep, Drained, NoAlert, ShowAlert, StartLoop, LightPanelGesture, GoToSleep,
         RequestManualReaderRefresh, flags
    <3> QED
      BY <3>1, <3>2
  <2>5. CASE \E t \in Tasks : Wait(t) \/ HelperRequests(t)
    BY <2>5 DEF Wait, NotifyRender, Resume, HelperRequests, flags
  <2>6. CASE RenderStep \/ RenderRequests
    BY <2>6 DEF RenderStep, LockRender, EndDraw, WakeWaiter, UnlockRender, RenderRequests, flags
  <2> QED
    BY <2>2, <2>3, <2>4, <2>5, <2>6, SomeTasks DEF Next, MainStep, HelperStep
<1> QED
  BY <1>1, ActInvariant, PTL DEF Spec, UpdateIsKept

=================================================================================
