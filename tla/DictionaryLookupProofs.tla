-------------------------- MODULE DictionaryLookupProofs -------------------------
(***************************************************************************)
(* Dictionary lookups, for any number of screens and lookups.              *)
(*                                                                         *)
(* A lookup the worker has accepted and not announced belongs to the       *)
(* running controller, which is looking up and has not got its answer, so  *)
(* the main task waits for it; once announced, the worker touches no       *)
(* field, and only its owner_ lags behind.                                 *)
(***************************************************************************)
EXTENDS DictionaryLookup, TLAPS

Fields ==
    [state : States, word : Lookups, result : Results, resultOf : Lookups, done : BOOLEAN,
     lookupCancelled : BOOLEAN, cancelRequested : BOOLEAN, nextIsSuggestion : BOOLEAN]
Kinds == {"None", "FoundDefinition", "Cancelled", "SwitchDictionary",
          "NotFoundDismissedDone", "NotFoundDismissedBack"}

ControllerTypes == open \in 0 .. MaxControllers /\ started \in Lookups /\ ctl \in [Controllers -> Fields]
OtherTypes ==
    /\ main \in {"idle", "claim", "notify", "suggestions", "exiting"}
    /\ event.kind \in Kinds /\ event.status \in Statuses
    /\ fromList \in [Controllers -> BOOLEAN] /\ cancelled \subseteq Lookups
    /\ owner \in Controllers \cup {0} /\ notified \in BOOLEAN
    /\ work \in Writing \cup {"wait", "release"}

\* The worker has a lookup whose answer it has not announced.
Accepted == owner # 0 /\ work # "release"

WorkInv ==
    /\ Accepted => /\ owner = open /\ main \in {"idle", "exiting", "notify"}
                   /\ ctl[open].state = "LookingUp" /\ ~ ctl[open].done
    /\ work # "wait" => owner # 0
    /\ notified \/ main = "notify" => owner # 0 /\ work = "wait"
    /\ main = "notify" => ~ notified
    /\ owner <= open

CallInv ==
    /\ main \in {"claim", "notify", "suggestions", "exiting"} => open > 0 /\ event.kind = "None"
    /\ main = "claim" => ctl[open].state = "LookingUp" /\ ~ ctl[open].done
    /\ event.kind # "None" => open > 0

AnswerInv ==
    /\ \A c \in Controllers : ctl[c].result # "none" => ctl[c].resultOf = ctl[c].word
    /\ AnswerBelongsToTheWord

CancelInv ==
    /\ \A c \in Controllers :
          ctl[c].cancelRequested \/ ctl[c].lookupCancelled => ctl[c].word \in cancelled
    /\ CancelledOnlyOnRequest

SuggestionInv ==
    /\ \A c \in Controllers :
          fromList[c] /\ ctl[c].state \in {"LookingUp", "AltFormPrompt"} => ctl[c].nextIsSuggestion
    /\ SuggestionsAreMarked

DictInv ==
    /\ ControllerTypes /\ OtherTypes /\ WorkInv /\ CallInv
    /\ AnswerInv /\ CancelInv /\ SuggestionInv

LEMMA TypesAreThese == TypeOK <=> ControllerTypes /\ OtherTypes
  BY DEF TypeOK, ControllerTypes, OtherTypes, Fields, Kinds

LEMMA DictInitial == Init => DictInv
<1> SUFFICES ASSUME Init PROVE DictInv
  OBVIOUS
<1> USE DEF Init
<1>1. FreshController \in Fields
  BY BoundsAssumption DEF FreshController, Fields, States, Results, Lookups
<1>2. ControllerTypes
  BY <1>1, BoundsAssumption DEF ControllerTypes, Lookups
<1>3. OtherTypes
  BY DEF OtherTypes, Kinds, Statuses, Writing, NoEvent
<1>4. WorkInv /\ CallInv
  BY DEF WorkInv, Accepted, CallInv, NoEvent
<1>5. AnswerInv /\ CancelInv /\ SuggestionInv
  BY DEF AnswerInv, CancelInv, SuggestionInv, AnswerBelongsToTheWord, CancelledOnlyOnRequest,
     SuggestionsAreMarked, FreshController, NoEvent
<1> QED
  BY <1>2, <1>3, <1>4, <1>5 DEF DictInv

---------------------------------------------------------------------------------
\* The controllers' fields keep their types.
LEMMA ControllerTypesKept == DictInv /\ [Next]_vars => ControllerTypes'
<1> SUFFICES ASSUME DictInv, [Next]_vars PROVE ControllerTypes'
  OBVIOUS
<1> USE DEF DictInv, WorkInv, CallInv, Accepted, ControllerTypes, OtherTypes, Controllers, Writing, Lookups,
     Fields, States, Results,
     Running, Becomes, Polling, Ready, NotLocated, Works, worker, vars, NoEvent, FreshController
<1>1. CASE OpenScreen
  <2>1. FreshController \in Fields /\ open' \in Controllers
    BY <1>1, BoundsAssumption DEF OpenScreen
  <2> QED
    BY <1>1, <2>1 DEF OpenScreen
<1>2. CASE CloseScreen
  BY <1>2, ZenonT(60) DEF CloseScreen
<1>3. CASE Destroy
  BY <1>3, BoundsAssumption DEF Destroy
<1>4. CASE StartLookup
  <2>1. open \in Controllers /\ {0, started + 1} \subseteq Lookups
        /\ open' = open /\ started' = started + 1
    BY <1>4, BoundsAssumption DEF StartLookup, Start
  <2>2. ctl[open] \in Fields /\ ctl[open].nextIsSuggestion \in BOOLEAN
    BY <2>1
  <2>3. ctl' = [ctl EXCEPT ![open] = Reset(ctl[open])]
    BY <1>4 DEF StartLookup, Start
  <2>4. ctl[open].nextIsSuggestion \in BOOLEAN
    BY <2>2
  <2>5. Reset(ctl[open]) \in Fields
    BY <2>1, <2>4 DEF Reset
  <2> QED
    BY <2>1, <2>3, <2>5
<1>5. CASE PickSuggestion
  <2>1. open \in Controllers /\ {0, started + 1} \subseteq Lookups
        /\ open' = open /\ started' = started + 1
    BY <1>5, BoundsAssumption DEF PickSuggestion, Start
  <2>2. ctl[open] \in Fields /\ ctl[open].nextIsSuggestion \in BOOLEAN
    BY <2>1
  <2>3. ctl' = [ctl EXCEPT ![open] = Reset([ctl[open] EXCEPT !.nextIsSuggestion = TRUE])]
    BY <1>5 DEF PickSuggestion, Start
  <2>4. [ctl[open] EXCEPT !.nextIsSuggestion = TRUE].nextIsSuggestion \in BOOLEAN
    BY <2>2
  <2>5. Reset([ctl[open] EXCEPT !.nextIsSuggestion = TRUE]) \in Fields
    BY <2>1, <2>4 DEF Reset
  <2> QED
    BY <2>1, <2>3, <2>5
<1>6. CASE Claim
  BY <1>6 DEF Claim
<1>7. CASE ClaimFails
  BY <1>7 DEF ClaimFails
<1>8. CASE NotifyWorker
  BY <1>8 DEF NotifyWorker
<1>9. CASE TakeCancelled
  BY <1>9, ZenonT(60) DEF TakeCancelled
<1>10. CASE TakeFound
  BY <1>10, ZenonT(60) DEF TakeFound, FoundStatus
<1>11. CASE TakeReadError
  BY <1>11, ZenonT(60) DEF TakeReadError
<1>12. CASE OfferAltForm
  BY <1>12 DEF OfferAltForm, NotLocated
<1>13. CASE LookupFails
  <2>1. CASE ListSuggestions
    BY <1>13, <2>1 DEF LookupFails, ListSuggestions, NotLocated
  <2>2. CASE NothingSimilar
    BY <1>13, <2>2, ZenonT(60) DEF LookupFails, NothingSimilar, NotLocated
  <2>3. CASE NoMemoryForList
    BY <1>13, <2>3, ZenonT(60) DEF LookupFails, NoMemoryForList, NotLocated
  <2> QED
    BY <1>13, <2>1, <2>2, <2>3 DEF LookupFails
<1>14. CASE AcceptAltForm
  BY <1>14, ZenonT(60) DEF AcceptAltForm, FoundStatus
<1>15. CASE DeclineAltForm
  BY <1>15, ZenonT(60) DEF DeclineAltForm
<1>16. CASE LeaveSuggestions
  BY <1>16 DEF LeaveSuggestions
<1>17. CASE DismissFailure
  BY <1>17 DEF DismissFailure
<1>18. CASE RequestCancel
  BY <1>18, ZenonT(60) DEF RequestCancel
<1>19. CASE TakeNotification
  BY <1>19 DEF TakeNotification
<1>20. CASE PrepareIndex
  BY <1>20 DEF PrepareIndex
<1>21. CASE CheckCancelled
  <2>0. owner \in Controllers /\ owner = open /\ ctl[owner] \in Fields /\ work = "check"
    BY <1>21 DEF CheckCancelled
  <2>1. CASE ctl[owner].cancelRequested
    <3>1. ctl' = [ctl EXCEPT ![owner] = [ctl[owner] EXCEPT !.lookupCancelled = TRUE]] /\ work' = "finish"
          /\ UNCHANGED <<open, started, main, event, fromList, cancelled, owner, notified>>
      BY <1>21, <2>1 DEF CheckCancelled
    <3> QED
      BY <2>0, <2>1, <3>1
  <2>2. CASE ~ ctl[owner].cancelRequested
    <3>1. ctl' = [ctl EXCEPT ![owner] = ctl[owner]] /\ work' = "locate"
          /\ UNCHANGED <<open, started, main, event, fromList, cancelled, owner, notified>>
      BY <1>21, <2>2 DEF CheckCancelled
    <3> QED
      BY <2>0, <2>2, <3>1
  <2> QED
    BY <2>1, <2>2
<1>22. CASE Locate
  <2>1. owner \in Controllers /\ ctl[owner] \in Fields
    BY <1>22 DEF Locate
  <2> DEFINE Located(r) == [ctl[owner] EXCEPT !.result = r, !.resultOf = ctl[owner].word]
  <2>2. PICK r \in Results : ctl' = [ctl EXCEPT ![owner] = Located(r)] /\ UNCHANGED <<open, started>>
    BY <1>22 DEF Locate
  <2>3. Located(r) \in Fields
    BY <2>1
  <2> DEFINE fields == Located(r)
  <2>4. ctl' = [ctl EXCEPT ![owner] = fields] /\ fields \in Fields
    BY <2>2, <2>3
  <2>5. UNCHANGED <<main, event, fromList, cancelled, owner, notified>> /\ work' = "verdict"
    BY <1>22 DEF Locate
  <2> HIDE DEF fields
  <2> QED
    BY <2>1, <2>2, <2>4, <2>5
<1>23. CASE StoreVerdict
  BY <1>23 DEF StoreVerdict
<1>24. CASE Finish
  BY <1>24, ZenonT(60) DEF Finish
<1>25. CASE Release
  BY <1>25 DEF Release
<1>26. CASE UNCHANGED vars
  BY <1>26
<1> QED
  BY <1>1, <1>2, <1>3, <1>4, <1>5, <1>6, <1>7, <1>8, <1>9, <1>10, <1>11,
     <1>12, <1>13, <1>14, <1>15, <1>16, <1>17, <1>18, <1>19, <1>20, <1>21,
     <1>22, <1>23, <1>24, <1>25, <1>26 DEF Next, Screens, Starting, Answer,
     Choices, Work

\* So do the other variables.
LEMMA OtherTypesKept == DictInv /\ [Next]_vars => OtherTypes'
<1> SUFFICES ASSUME DictInv, [Next]_vars PROVE OtherTypes'
  OBVIOUS
<1> USE DEF DictInv, WorkInv, CallInv, Accepted, ControllerTypes, OtherTypes, Controllers, Writing, Fields,
     Statuses, Kinds, Lookups,
     Running, Becomes, Polling, Ready, NotLocated, Works, worker, vars, NoEvent, FreshController
<1>1. CASE OpenScreen
  BY <1>1 DEF OpenScreen
<1>2. CASE CloseScreen
  BY <1>2 DEF CloseScreen
<1>3. CASE Destroy
  BY <1>3 DEF Destroy
<1>4. CASE StartLookup
  BY <1>4 DEF StartLookup, Start, Reset, Running, Becomes
<1>5. CASE PickSuggestion
  BY <1>5 DEF PickSuggestion, Start, Reset, Running, Becomes
<1>6. CASE Claim
  BY <1>6 DEF Claim
<1>7. CASE ClaimFails
  BY <1>7 DEF ClaimFails
<1>8. CASE NotifyWorker
  BY <1>8 DEF NotifyWorker
<1>9. CASE TakeCancelled
  BY <1>9 DEF TakeCancelled
<1>10. CASE TakeFound
  BY <1>10 DEF TakeFound, FoundStatus
<1>11. CASE TakeReadError
  BY <1>11 DEF TakeReadError
<1>12. CASE OfferAltForm
  BY <1>12 DEF OfferAltForm, NotLocated
<1>13. CASE LookupFails
  <2>1. CASE ListSuggestions
    BY <1>13, <2>1 DEF LookupFails, ListSuggestions, NotLocated
  <2>2. CASE NothingSimilar
    BY <1>13, <2>2 DEF LookupFails, NothingSimilar, NotLocated
  <2>3. CASE NoMemoryForList
    BY <1>13, <2>3 DEF LookupFails, NoMemoryForList, NotLocated
  <2> QED
    BY <1>13, <2>1, <2>2, <2>3 DEF LookupFails
<1>14. CASE AcceptAltForm
  BY <1>14 DEF AcceptAltForm, FoundStatus
<1>15. CASE DeclineAltForm
  BY <1>15 DEF DeclineAltForm
<1>16. CASE LeaveSuggestions
  BY <1>16 DEF LeaveSuggestions
<1>17. CASE DismissFailure
  BY <1>17 DEF DismissFailure
<1>18. CASE RequestCancel
  BY <1>18 DEF RequestCancel
<1>19. CASE TakeNotification
  BY <1>19 DEF TakeNotification
<1>20. CASE PrepareIndex
  BY <1>20 DEF PrepareIndex
<1>21. CASE CheckCancelled
  <2>0. owner \in Controllers /\ owner = open /\ ctl[owner] \in Fields /\ work = "check"
    BY <1>21 DEF CheckCancelled
  <2>1. CASE ctl[owner].cancelRequested
    <3>1. ctl' = [ctl EXCEPT ![owner] = [ctl[owner] EXCEPT !.lookupCancelled = TRUE]] /\ work' = "finish"
          /\ UNCHANGED <<open, started, main, event, fromList, cancelled, owner, notified>>
      BY <1>21, <2>1 DEF CheckCancelled
    <3> QED
      BY <2>0, <2>1, <3>1
  <2>2. CASE ~ ctl[owner].cancelRequested
    <3>1. ctl' = [ctl EXCEPT ![owner] = ctl[owner]] /\ work' = "locate"
          /\ UNCHANGED <<open, started, main, event, fromList, cancelled, owner, notified>>
      BY <1>21, <2>2 DEF CheckCancelled
    <3> QED
      BY <2>0, <2>2, <3>1
  <2> QED
    BY <2>1, <2>2
<1>22. CASE Locate
  BY <1>22 DEF Locate
<1>23. CASE StoreVerdict
  BY <1>23 DEF StoreVerdict
<1>24. CASE Finish
  BY <1>24 DEF Finish
<1>25. CASE Release
  BY <1>25 DEF Release
<1>26. CASE UNCHANGED vars
  BY <1>26
<1> QED
  BY <1>1, <1>2, <1>3, <1>4, <1>5, <1>6, <1>7, <1>8, <1>9, <1>10, <1>11,
     <1>12, <1>13, <1>14, <1>15, <1>16, <1>17, <1>18, <1>19, <1>20, <1>21,
     <1>22, <1>23, <1>24, <1>25, <1>26 DEF Next, Screens, Starting, Answer,
     Choices, Work

\* Only the running controller's lookup is worked on.
LEMMA WorkKept == DictInv /\ [Next]_vars => WorkInv'
<1> SUFFICES ASSUME DictInv, [Next]_vars PROVE WorkInv'
  OBVIOUS
<1> USE DEF DictInv, WorkInv, CallInv, Accepted, ControllerTypes, OtherTypes, Controllers, Writing,
     Running, Becomes, Polling, Ready, NotLocated, Works, worker, vars, NoEvent, FreshController
<1>1. CASE OpenScreen
  BY <1>1 DEF OpenScreen
<1>2. CASE CloseScreen
  BY <1>2 DEF CloseScreen
<1>3. CASE Destroy
  BY <1>3 DEF Destroy
<1>4. CASE StartLookup
  BY <1>4 DEF StartLookup, Start, Reset, Running, Becomes
<1>5. CASE PickSuggestion
  BY <1>5 DEF PickSuggestion, Start, Reset, Running, Becomes
<1>6. CASE Claim
  BY <1>6 DEF Claim
<1>7. CASE ClaimFails
  BY <1>7 DEF ClaimFails
<1>8. CASE NotifyWorker
  BY <1>8 DEF NotifyWorker
<1>9. CASE TakeCancelled
  BY <1>9 DEF TakeCancelled
<1>10. CASE TakeFound
  BY <1>10 DEF TakeFound, FoundStatus
<1>11. CASE TakeReadError
  BY <1>11 DEF TakeReadError
<1>12. CASE OfferAltForm
  BY <1>12 DEF OfferAltForm, NotLocated
<1>13. CASE LookupFails
  <2>1. CASE ListSuggestions
    BY <1>13, <2>1 DEF LookupFails, ListSuggestions, NotLocated
  <2>2. CASE NothingSimilar
    BY <1>13, <2>2 DEF LookupFails, NothingSimilar, NotLocated
  <2>3. CASE NoMemoryForList
    BY <1>13, <2>3 DEF LookupFails, NoMemoryForList, NotLocated
  <2> QED
    BY <1>13, <2>1, <2>2, <2>3 DEF LookupFails
<1>14. CASE AcceptAltForm
  BY <1>14 DEF AcceptAltForm, FoundStatus
<1>15. CASE DeclineAltForm
  BY <1>15 DEF DeclineAltForm
<1>16. CASE LeaveSuggestions
  BY <1>16 DEF LeaveSuggestions
<1>17. CASE DismissFailure
  BY <1>17 DEF DismissFailure
<1>18. CASE RequestCancel
  BY <1>18 DEF RequestCancel
<1>19. CASE TakeNotification
  BY <1>19 DEF TakeNotification
<1>20. CASE PrepareIndex
  BY <1>20 DEF PrepareIndex
<1>21. CASE CheckCancelled
  <2>0. owner \in Controllers /\ owner = open /\ ctl[owner] \in Fields /\ work = "check"
    BY <1>21 DEF CheckCancelled
  <2>1. CASE ctl[owner].cancelRequested
    <3>1. ctl' = [ctl EXCEPT ![owner] = [ctl[owner] EXCEPT !.lookupCancelled = TRUE]] /\ work' = "finish"
          /\ UNCHANGED <<open, started, main, event, fromList, cancelled, owner, notified>>
      BY <1>21, <2>1 DEF CheckCancelled
    <3> QED
      BY <2>0, <2>1, <3>1
  <2>2. CASE ~ ctl[owner].cancelRequested
    <3>1. ctl' = [ctl EXCEPT ![owner] = ctl[owner]] /\ work' = "locate"
          /\ UNCHANGED <<open, started, main, event, fromList, cancelled, owner, notified>>
      BY <1>21, <2>2 DEF CheckCancelled
    <3> QED
      BY <2>0, <2>2, <3>1
  <2> QED
    BY <2>1, <2>2
<1>22. CASE Locate
  BY <1>22 DEF Locate
<1>23. CASE StoreVerdict
  BY <1>23 DEF StoreVerdict
<1>24. CASE Finish
  BY <1>24 DEF Finish
<1>25. CASE Release
  BY <1>25 DEF Release
<1>26. CASE UNCHANGED vars
  BY <1>26
<1> QED
  BY <1>1, <1>2, <1>3, <1>4, <1>5, <1>6, <1>7, <1>8, <1>9, <1>10, <1>11,
     <1>12, <1>13, <1>14, <1>15, <1>16, <1>17, <1>18, <1>19, <1>20, <1>21,
     <1>22, <1>23, <1>24, <1>25, <1>26 DEF Next, Screens, Starting, Answer,
     Choices, Work

\* A call of the main task is about the running controller.
LEMMA CallKept == DictInv /\ [Next]_vars => CallInv'
<1> SUFFICES ASSUME DictInv, [Next]_vars PROVE CallInv'
  OBVIOUS
<1> USE DEF DictInv, WorkInv, CallInv, Accepted, ControllerTypes, OtherTypes, Controllers, Writing,
     Running, Becomes, Polling, Ready, NotLocated, Works, worker, vars, NoEvent, FreshController
<1>1. CASE OpenScreen
  BY <1>1 DEF OpenScreen
<1>2. CASE CloseScreen
  BY <1>2 DEF CloseScreen
<1>3. CASE Destroy
  BY <1>3 DEF Destroy
<1>4. CASE StartLookup
  BY <1>4 DEF StartLookup, Start, Reset, Running, Becomes
<1>5. CASE PickSuggestion
  BY <1>5 DEF PickSuggestion, Start, Reset, Running, Becomes
<1>6. CASE Claim
  BY <1>6 DEF Claim
<1>7. CASE ClaimFails
  BY <1>7 DEF ClaimFails
<1>8. CASE NotifyWorker
  BY <1>8 DEF NotifyWorker
<1>9. CASE TakeCancelled
  BY <1>9 DEF TakeCancelled
<1>10. CASE TakeFound
  BY <1>10 DEF TakeFound, FoundStatus
<1>11. CASE TakeReadError
  BY <1>11 DEF TakeReadError
<1>12. CASE OfferAltForm
  BY <1>12 DEF OfferAltForm, NotLocated
<1>13. CASE LookupFails
  <2>1. CASE ListSuggestions
    BY <1>13, <2>1 DEF LookupFails, ListSuggestions, NotLocated
  <2>2. CASE NothingSimilar
    BY <1>13, <2>2 DEF LookupFails, NothingSimilar, NotLocated
  <2>3. CASE NoMemoryForList
    BY <1>13, <2>3 DEF LookupFails, NoMemoryForList, NotLocated
  <2> QED
    BY <1>13, <2>1, <2>2, <2>3 DEF LookupFails
<1>14. CASE AcceptAltForm
  BY <1>14 DEF AcceptAltForm, FoundStatus
<1>15. CASE DeclineAltForm
  BY <1>15 DEF DeclineAltForm
<1>16. CASE LeaveSuggestions
  BY <1>16 DEF LeaveSuggestions
<1>17. CASE DismissFailure
  BY <1>17 DEF DismissFailure
<1>18. CASE RequestCancel
  BY <1>18 DEF RequestCancel
<1>19. CASE TakeNotification
  BY <1>19 DEF TakeNotification
<1>20. CASE PrepareIndex
  BY <1>20 DEF PrepareIndex
<1>21. CASE CheckCancelled
  <2>0. owner \in Controllers /\ owner = open /\ ctl[owner] \in Fields /\ work = "check"
    BY <1>21 DEF CheckCancelled
  <2>1. CASE ctl[owner].cancelRequested
    <3>1. ctl' = [ctl EXCEPT ![owner] = [ctl[owner] EXCEPT !.lookupCancelled = TRUE]] /\ work' = "finish"
          /\ UNCHANGED <<open, started, main, event, fromList, cancelled, owner, notified>>
      BY <1>21, <2>1 DEF CheckCancelled
    <3> QED
      BY <2>0, <2>1, <3>1
  <2>2. CASE ~ ctl[owner].cancelRequested
    <3>1. ctl' = [ctl EXCEPT ![owner] = ctl[owner]] /\ work' = "locate"
          /\ UNCHANGED <<open, started, main, event, fromList, cancelled, owner, notified>>
      BY <1>21, <2>2 DEF CheckCancelled
    <3> QED
      BY <2>0, <2>2, <3>1
  <2> QED
    BY <2>1, <2>2
<1>22. CASE Locate
  BY <1>22 DEF Locate
<1>23. CASE StoreVerdict
  BY <1>23 DEF StoreVerdict
<1>24. CASE Finish
  BY <1>24 DEF Finish
<1>25. CASE Release
  BY <1>25 DEF Release
<1>26. CASE UNCHANGED vars
  BY <1>26
<1> QED
  BY <1>1, <1>2, <1>3, <1>4, <1>5, <1>6, <1>7, <1>8, <1>9, <1>10, <1>11,
     <1>12, <1>13, <1>14, <1>15, <1>16, <1>17, <1>18, <1>19, <1>20, <1>21,
     <1>22, <1>23, <1>24, <1>25, <1>26 DEF Next, Screens, Starting, Answer,
     Choices, Work

\* An answer is stored with its word.
LEMMA AnswerKept == DictInv /\ [Next]_vars => AnswerInv'
<1> SUFFICES ASSUME DictInv, [Next]_vars PROVE AnswerInv'
  OBVIOUS
<1> USE DEF DictInv, WorkInv, CallInv, Accepted, ControllerTypes, OtherTypes, Controllers, Writing, AnswerInv, Fields,
     AnswerBelongsToTheWord,
     Running, Becomes, Polling, Ready, NotLocated, Works, worker, vars, NoEvent, FreshController
<1>1. CASE OpenScreen
  BY <1>1 DEF OpenScreen
<1>2. CASE CloseScreen
  BY <1>2 DEF CloseScreen
<1>3. CASE Destroy
  BY <1>3 DEF Destroy
<1>4. CASE StartLookup
  BY <1>4 DEF StartLookup, Start, Reset, Running, Becomes
<1>5. CASE PickSuggestion
  BY <1>5 DEF PickSuggestion, Start, Reset, Running, Becomes
<1>6. CASE Claim
  BY <1>6 DEF Claim
<1>7. CASE ClaimFails
  BY <1>7 DEF ClaimFails
<1>8. CASE NotifyWorker
  BY <1>8 DEF NotifyWorker
<1>9. CASE TakeCancelled
  BY <1>9 DEF TakeCancelled
<1>10. CASE TakeFound
  BY <1>10 DEF TakeFound, FoundStatus
<1>11. CASE TakeReadError
  BY <1>11 DEF TakeReadError
<1>12. CASE OfferAltForm
  BY <1>12 DEF OfferAltForm, NotLocated
<1>13. CASE LookupFails
  <2>1. CASE ListSuggestions
    BY <1>13, <2>1 DEF LookupFails, ListSuggestions, NotLocated
  <2>2. CASE NothingSimilar
    BY <1>13, <2>2 DEF LookupFails, NothingSimilar, NotLocated
  <2>3. CASE NoMemoryForList
    BY <1>13, <2>3 DEF LookupFails, NoMemoryForList, NotLocated
  <2> QED
    BY <1>13, <2>1, <2>2, <2>3 DEF LookupFails
<1>14. CASE AcceptAltForm
  BY <1>14 DEF AcceptAltForm, FoundStatus
<1>15. CASE DeclineAltForm
  BY <1>15 DEF DeclineAltForm
<1>16. CASE LeaveSuggestions
  BY <1>16 DEF LeaveSuggestions
<1>17. CASE DismissFailure
  BY <1>17 DEF DismissFailure
<1>18. CASE RequestCancel
  BY <1>18 DEF RequestCancel
<1>19. CASE TakeNotification
  BY <1>19 DEF TakeNotification
<1>20. CASE PrepareIndex
  BY <1>20 DEF PrepareIndex
<1>21. CASE CheckCancelled
  <2>0. owner \in Controllers /\ owner = open /\ ctl[owner] \in Fields /\ work = "check"
    BY <1>21 DEF CheckCancelled
  <2>1. CASE ctl[owner].cancelRequested
    <3>1. ctl' = [ctl EXCEPT ![owner] = [ctl[owner] EXCEPT !.lookupCancelled = TRUE]] /\ work' = "finish"
          /\ UNCHANGED <<open, started, main, event, fromList, cancelled, owner, notified>>
      BY <1>21, <2>1 DEF CheckCancelled
    <3> QED
      BY <2>0, <2>1, <3>1
  <2>2. CASE ~ ctl[owner].cancelRequested
    <3>1. ctl' = [ctl EXCEPT ![owner] = ctl[owner]] /\ work' = "locate"
          /\ UNCHANGED <<open, started, main, event, fromList, cancelled, owner, notified>>
      BY <1>21, <2>2 DEF CheckCancelled
    <3> QED
      BY <2>0, <2>2, <3>1
  <2> QED
    BY <2>1, <2>2
<1>22. CASE Locate
  BY <1>22 DEF Locate
<1>23. CASE StoreVerdict
  BY <1>23 DEF StoreVerdict
<1>24. CASE Finish
  BY <1>24 DEF Finish
<1>25. CASE Release
  BY <1>25 DEF Release
<1>26. CASE UNCHANGED vars
  BY <1>26
<1> QED
  BY <1>1, <1>2, <1>3, <1>4, <1>5, <1>6, <1>7, <1>8, <1>9, <1>10, <1>11,
     <1>12, <1>13, <1>14, <1>15, <1>16, <1>17, <1>18, <1>19, <1>20, <1>21,
     <1>22, <1>23, <1>24, <1>25, <1>26 DEF Next, Screens, Starting, Answer,
     Choices, Work

\* A cancellation is of the word it was requested for.
LEMMA CancelKept == DictInv /\ [Next]_vars => CancelInv'
<1> SUFFICES ASSUME DictInv, [Next]_vars PROVE CancelInv'
  OBVIOUS
<1> USE DEF DictInv, WorkInv, CallInv, Accepted, ControllerTypes, OtherTypes, Controllers, Writing, CancelInv, Fields,
     CancelledOnlyOnRequest,
     Running, Becomes, Polling, Ready, NotLocated, Works, worker, vars, NoEvent, FreshController
<1>1. CASE OpenScreen
  BY <1>1 DEF OpenScreen
<1>2. CASE CloseScreen
  BY <1>2 DEF CloseScreen
<1>3. CASE Destroy
  BY <1>3 DEF Destroy
<1>4. CASE StartLookup
  BY <1>4 DEF StartLookup, Start, Reset, Running, Becomes
<1>5. CASE PickSuggestion
  BY <1>5 DEF PickSuggestion, Start, Reset, Running, Becomes
<1>6. CASE Claim
  BY <1>6 DEF Claim
<1>7. CASE ClaimFails
  BY <1>7 DEF ClaimFails
<1>8. CASE NotifyWorker
  BY <1>8 DEF NotifyWorker
<1>9. CASE TakeCancelled
  BY <1>9 DEF TakeCancelled
<1>10. CASE TakeFound
  BY <1>10 DEF TakeFound, FoundStatus
<1>11. CASE TakeReadError
  BY <1>11 DEF TakeReadError
<1>12. CASE OfferAltForm
  BY <1>12 DEF OfferAltForm, NotLocated
<1>13. CASE LookupFails
  <2>1. CASE ListSuggestions
    BY <1>13, <2>1 DEF LookupFails, ListSuggestions, NotLocated
  <2>2. CASE NothingSimilar
    BY <1>13, <2>2 DEF LookupFails, NothingSimilar, NotLocated
  <2>3. CASE NoMemoryForList
    BY <1>13, <2>3 DEF LookupFails, NoMemoryForList, NotLocated
  <2> QED
    BY <1>13, <2>1, <2>2, <2>3 DEF LookupFails
<1>14. CASE AcceptAltForm
  BY <1>14 DEF AcceptAltForm, FoundStatus
<1>15. CASE DeclineAltForm
  BY <1>15 DEF DeclineAltForm
<1>16. CASE LeaveSuggestions
  BY <1>16 DEF LeaveSuggestions
<1>17. CASE DismissFailure
  BY <1>17 DEF DismissFailure
<1>18. CASE RequestCancel
  BY <1>18 DEF RequestCancel
<1>19. CASE TakeNotification
  BY <1>19 DEF TakeNotification
<1>20. CASE PrepareIndex
  BY <1>20 DEF PrepareIndex
<1>21. CASE CheckCancelled
  <2>0. owner \in Controllers /\ owner = open /\ ctl[owner] \in Fields /\ work = "check"
    BY <1>21 DEF CheckCancelled
  <2>1. CASE ctl[owner].cancelRequested
    <3>1. ctl' = [ctl EXCEPT ![owner] = [ctl[owner] EXCEPT !.lookupCancelled = TRUE]] /\ work' = "finish"
          /\ UNCHANGED <<open, started, main, event, fromList, cancelled, owner, notified>>
      BY <1>21, <2>1 DEF CheckCancelled
    <3> QED
      BY <2>0, <2>1, <3>1
  <2>2. CASE ~ ctl[owner].cancelRequested
    <3>1. ctl' = [ctl EXCEPT ![owner] = ctl[owner]] /\ work' = "locate"
          /\ UNCHANGED <<open, started, main, event, fromList, cancelled, owner, notified>>
      BY <1>21, <2>2 DEF CheckCancelled
    <3> QED
      BY <2>0, <2>2, <3>1
  <2> QED
    BY <2>1, <2>2
<1>22. CASE Locate
  BY <1>22 DEF Locate
<1>23. CASE StoreVerdict
  BY <1>23 DEF StoreVerdict
<1>24. CASE Finish
  BY <1>24 DEF Finish
<1>25. CASE Release
  BY <1>25 DEF Release
<1>26. CASE UNCHANGED vars
  BY <1>26
<1> QED
  BY <1>1, <1>2, <1>3, <1>4, <1>5, <1>6, <1>7, <1>8, <1>9, <1>10, <1>11,
     <1>12, <1>13, <1>14, <1>15, <1>16, <1>17, <1>18, <1>19, <1>20, <1>21,
     <1>22, <1>23, <1>24, <1>25, <1>26 DEF Next, Screens, Starting, Answer,
     Choices, Work

\* A suggestion stays marked until it is answered.
LEMMA SuggestionKept == DictInv /\ [Next]_vars => SuggestionInv'
<1> SUFFICES ASSUME DictInv, [Next]_vars PROVE SuggestionInv'
  OBVIOUS
<1> USE DEF DictInv, WorkInv, CallInv, Accepted, ControllerTypes, OtherTypes, Controllers, Writing, SuggestionInv, Fields,
     SuggestionsAreMarked,
     Running, Becomes, Polling, Ready, NotLocated, Works, worker, vars, NoEvent, FreshController
<1>1. CASE OpenScreen
  BY <1>1 DEF OpenScreen
<1>2. CASE CloseScreen
  BY <1>2 DEF CloseScreen
<1>3. CASE Destroy
  BY <1>3 DEF Destroy
<1>4. CASE StartLookup
  BY <1>4 DEF StartLookup, Start, Reset, Running, Becomes
<1>5. CASE PickSuggestion
  BY <1>5 DEF PickSuggestion, Start, Reset, Running, Becomes
<1>6. CASE Claim
  BY <1>6 DEF Claim
<1>7. CASE ClaimFails
  BY <1>7 DEF ClaimFails
<1>8. CASE NotifyWorker
  BY <1>8 DEF NotifyWorker
<1>9. CASE TakeCancelled
  BY <1>9 DEF TakeCancelled
<1>10. CASE TakeFound
  BY <1>10 DEF TakeFound, FoundStatus
<1>11. CASE TakeReadError
  BY <1>11 DEF TakeReadError
<1>12. CASE OfferAltForm
  BY <1>12 DEF OfferAltForm, NotLocated
<1>13. CASE LookupFails
  <2>1. CASE ListSuggestions
    BY <1>13, <2>1 DEF LookupFails, ListSuggestions, NotLocated
  <2>2. CASE NothingSimilar
    BY <1>13, <2>2 DEF LookupFails, NothingSimilar, NotLocated
  <2>3. CASE NoMemoryForList
    BY <1>13, <2>3 DEF LookupFails, NoMemoryForList, NotLocated
  <2> QED
    BY <1>13, <2>1, <2>2, <2>3 DEF LookupFails
<1>14. CASE AcceptAltForm
  BY <1>14 DEF AcceptAltForm, FoundStatus
<1>15. CASE DeclineAltForm
  BY <1>15 DEF DeclineAltForm
<1>16. CASE LeaveSuggestions
  BY <1>16 DEF LeaveSuggestions
<1>17. CASE DismissFailure
  BY <1>17 DEF DismissFailure
<1>18. CASE RequestCancel
  BY <1>18 DEF RequestCancel
<1>19. CASE TakeNotification
  BY <1>19 DEF TakeNotification
<1>20. CASE PrepareIndex
  BY <1>20 DEF PrepareIndex
<1>21. CASE CheckCancelled
  <2>0. owner \in Controllers /\ owner = open /\ ctl[owner] \in Fields /\ work = "check"
    BY <1>21 DEF CheckCancelled
  <2>1. CASE ctl[owner].cancelRequested
    <3>1. ctl' = [ctl EXCEPT ![owner] = [ctl[owner] EXCEPT !.lookupCancelled = TRUE]] /\ work' = "finish"
          /\ UNCHANGED <<open, started, main, event, fromList, cancelled, owner, notified>>
      BY <1>21, <2>1 DEF CheckCancelled
    <3> QED
      BY <2>0, <2>1, <3>1
  <2>2. CASE ~ ctl[owner].cancelRequested
    <3>1. ctl' = [ctl EXCEPT ![owner] = ctl[owner]] /\ work' = "locate"
          /\ UNCHANGED <<open, started, main, event, fromList, cancelled, owner, notified>>
      BY <1>21, <2>2 DEF CheckCancelled
    <3> QED
      BY <2>0, <2>2, <3>1
  <2> QED
    BY <2>1, <2>2
<1>22. CASE Locate
  BY <1>22 DEF Locate
<1>23. CASE StoreVerdict
  BY <1>23 DEF StoreVerdict
<1>24. CASE Finish
  BY <1>24 DEF Finish
<1>25. CASE Release
  BY <1>25 DEF Release
<1>26. CASE UNCHANGED vars
  BY <1>26
<1> QED
  BY <1>1, <1>2, <1>3, <1>4, <1>5, <1>6, <1>7, <1>8, <1>9, <1>10, <1>11,
     <1>12, <1>13, <1>14, <1>15, <1>16, <1>17, <1>18, <1>19, <1>20, <1>21,
     <1>22, <1>23, <1>24, <1>25, <1>26 DEF Next, Screens, Starting, Answer,
     Choices, Work

LEMMA DictInvariant == Spec => []DictInv
<1>1. DictInv /\ [Next]_vars => DictInv'
  BY ControllerTypesKept, OtherTypesKept, WorkKept, CallKept, AnswerKept, CancelKept,
     SuggestionKept DEF DictInv
<1> QED
  BY DictInitial, <1>1, PTL DEF Spec

---------------------------------------------------------------------------------
\* The controllers, the worker and the main task keep their types (DictionaryLookupController.h).
THEOREM LookupsAreTypeCorrect == Spec => []TypeOK
<1>1. DictInv => TypeOK
  BY TypesAreThese DEF DictInv
<1> QED
  BY <1>1, DictInvariant, PTL

\* The worker's owner exists: onExit() waits for it (DictionaryLookupController.cpp:97-100).
THEOREM NoScreenIsDestroyedUnderItsLookup == Spec => []OwnerExists
<1>1. DictInv => OwnerExists
  BY DEF DictInv, WorkInv, OwnerExists
<1> QED
  BY <1>1, DictInvariant, PTL

\* While the worker writes, its controller is looking up and the main task only reads
\* lookupDone (DictionaryLookupController.cpp:102-104).
THEOREM WorkerHasTheFieldsToItself == Spec => []WorkerWritesOnlyALookup
<1>1. DictInv => WorkerWritesOnlyALookup
  BY DEF DictInv, WorkInv, Accepted, WorkerWritesOnlyALookup, Writing
<1> QED
  BY <1>1, DictInvariant, PTL

\* The definition an activity gets is the one of the word it asked for last.
THEOREM AnswersBelongToTheirWords == Spec => []AnswerBelongsToTheWord
<1>1. DictInv => AnswerBelongsToTheWord
  BY DEF DictInv, AnswerInv
<1> QED
  BY <1>1, DictInvariant, PTL

\* Cancelled is returned only for a lookup the user cancelled.
THEOREM CancellationsAreRequested == Spec => []CancelledOnlyOnRequest
<1>1. DictInv => CancelledOnlyOnRequest
  BY DEF DictInv, CancelInv
<1> QED
  BY <1>1, DictInvariant, PTL

\* What was picked from the suggestions is reported as a suggestion.
THEOREM SuggestionsStayMarked == Spec => []SuggestionsAreMarked
<1>1. DictInv => SuggestionsAreMarked
  BY DEF DictInv, SuggestionInv
<1> QED
  BY <1>1, DictInvariant, PTL


---------------------------------------------------------------------------------
(* Lookups and exits that end                                                  *)

\* The worker that has a lookup is awake or about to be woken; a lookup without an
\* answer is being claimed or is the worker's; screens below the topmost are idle.
ServeInv ==
    /\ owner # 0 /\ work = "wait" => notified \/ main = "notify"
    /\ open > 0 /\ ctl[open].state = "LookingUp" /\ ~ ctl[open].done =>
          main = "claim" \/ (owner = open /\ work # "release")
    /\ \A c \in 1 .. open - 1 : ctl[c].state = "Idle"

LEMMA ServeKept == DictInv /\ ServeInv /\ [Next]_vars => ServeInv'
<1> SUFFICES ASSUME DictInv, ServeInv, [Next]_vars PROVE ServeInv'
  OBVIOUS
<1> USE DEF ServeInv, DictInv, WorkInv, CallInv, Accepted, ControllerTypes, OtherTypes, Controllers, Writing,
     Running, Becomes, Polling, Ready, NotLocated, Works, worker, vars, NoEvent, FreshController
<1>1. CASE OpenScreen
  <2>1. /\ open \in Nat /\ open' = open + 1 /\ open' \in Controllers /\ UNCHANGED worker
        /\ main = "idle" /\ main' = "idle" /\ ctl' = [ctl EXCEPT ![open'] = FreshController]
    BY <1>1, BoundsAssumption DEF OpenScreen
  <2>2. ctl'[open'].state = "Idle" /\ \A c \in 1 .. open : ctl'[c] = ctl[c]
    BY <2>1
  <2>3. \A c \in 1 .. open : ctl[c].state = "Idle"
    BY <1>1, <2>1 DEF OpenScreen
  <2> QED
    BY <2>1, <2>2, <2>3
<1>2. CASE CloseScreen
  BY <1>2 DEF CloseScreen
<1>3. CASE Destroy
  BY <1>3 DEF Destroy
<1>4. CASE StartLookup
  BY <1>4 DEF StartLookup, Start, Reset, Running, Becomes
<1>5. CASE PickSuggestion
  BY <1>5 DEF PickSuggestion, Start, Reset, Running, Becomes
<1>6. CASE Claim
  BY <1>6 DEF Claim
<1>7. CASE ClaimFails
  BY <1>7 DEF ClaimFails
<1>8. CASE NotifyWorker
  BY <1>8 DEF NotifyWorker
<1>9. CASE TakeCancelled
  BY <1>9 DEF TakeCancelled
<1>10. CASE TakeFound
  BY <1>10 DEF TakeFound, FoundStatus
<1>11. CASE TakeReadError
  BY <1>11 DEF TakeReadError
<1>12. CASE OfferAltForm
  BY <1>12 DEF OfferAltForm, NotLocated
<1>13. CASE LookupFails
  <2>1. CASE ListSuggestions
    BY <1>13, <2>1 DEF LookupFails, ListSuggestions, NotLocated
  <2>2. CASE NothingSimilar
    BY <1>13, <2>2 DEF LookupFails, NothingSimilar, NotLocated
  <2>3. CASE NoMemoryForList
    BY <1>13, <2>3 DEF LookupFails, NoMemoryForList, NotLocated
  <2> QED
    BY <1>13, <2>1, <2>2, <2>3 DEF LookupFails
<1>14. CASE AcceptAltForm
  BY <1>14 DEF AcceptAltForm, FoundStatus
<1>15. CASE DeclineAltForm
  BY <1>15 DEF DeclineAltForm
<1>16. CASE LeaveSuggestions
  BY <1>16 DEF LeaveSuggestions
<1>17. CASE DismissFailure
  BY <1>17 DEF DismissFailure
<1>18. CASE RequestCancel
  BY <1>18 DEF RequestCancel
<1>19. CASE TakeNotification
  BY <1>19 DEF TakeNotification
<1>20. CASE PrepareIndex
  BY <1>20 DEF PrepareIndex
<1>21. CASE CheckCancelled
  <2>0. owner \in Controllers /\ owner = open /\ ctl[owner] \in Fields /\ work = "check"
    BY <1>21 DEF CheckCancelled
  <2>1. CASE ctl[owner].cancelRequested
    <3>1. ctl' = [ctl EXCEPT ![owner] = [ctl[owner] EXCEPT !.lookupCancelled = TRUE]] /\ work' = "finish"
          /\ UNCHANGED <<open, started, main, event, fromList, cancelled, owner, notified>>
      BY <1>21, <2>1 DEF CheckCancelled
    <3> QED
      BY <2>0, <2>1, <3>1
  <2>2. CASE ~ ctl[owner].cancelRequested
    <3>1. ctl' = [ctl EXCEPT ![owner] = ctl[owner]] /\ work' = "locate"
          /\ UNCHANGED <<open, started, main, event, fromList, cancelled, owner, notified>>
      BY <1>21, <2>2 DEF CheckCancelled
    <3> QED
      BY <2>0, <2>2, <3>1
  <2> QED
    BY <2>1, <2>2
<1>22. CASE Locate
  BY <1>22 DEF Locate
<1>23. CASE StoreVerdict
  BY <1>23 DEF StoreVerdict
<1>24. CASE Finish
  BY <1>24 DEF Finish
<1>25. CASE Release
  BY <1>25 DEF Release
<1>26. CASE UNCHANGED vars
  BY <1>26
<1> QED
  BY <1>1, <1>2, <1>3, <1>4, <1>5, <1>6, <1>7, <1>8, <1>9, <1>10, <1>11,
     <1>12, <1>13, <1>14, <1>15, <1>16, <1>17, <1>18, <1>19, <1>20, <1>21,
     <1>22, <1>23, <1>24, <1>25, <1>26 DEF Next, Screens, Starting, Answer,
     Choices, Work

LEMMA ServeInvariant == Spec => []ServeInv
<1>1. Init => ServeInv
  BY DEF Init, ServeInv
<1> QED
  BY <1>1, ServeKept, DictInvariant, PTL DEF Spec

\* The worker never sleeps over a lookup, and no screen that closes waits for a worker
\* that does: what LookupsEnd and ExitsEnd rest on, for any number of screens.
THEOREM LookupsAreServed == Spec => []NoLookupIsForgotten
<1>1. DictInv /\ ServeInv => NoLookupIsForgotten
  <2> SUFFICES ASSUME DictInv, ServeInv PROVE NoLookupIsForgotten
    OBVIOUS
  <2>1. open \in Nat /\ work \in Writing \cup {"wait", "release"} /\ notified \in BOOLEAN
    BY BoundsAssumption DEF DictInv, ControllerTypes, OtherTypes
  <2>2. ASSUME NEW c \in 1 .. open, ctl[c].state = "LookingUp", ~ ctl[c].done
        PROVE  /\ c = open
               /\ main \in {"claim", "notify"} \/ (owner = c /\ (notified \/ work \in Writing))
    <3>1. c = open /\ open > 0
      BY <2>1, <2>2 DEF ServeInv
    <3>2. main = "claim" \/ (owner = open /\ work # "release")
      BY <2>2, <3>1 DEF ServeInv
    <3>3. owner = open /\ work = "wait" => notified \/ main = "notify"
      BY <3>1 DEF ServeInv
    <3> QED
      BY <2>1, <3>1, <3>2, <3>3
  <2>3. main = "exiting" /\ owner = open => notified \/ work # "wait"
    BY DEF ServeInv, DictInv, CallInv
  <2> QED
    BY <2>2, <2>3 DEF NoLookupIsForgotten
<1> QED
  BY <1>1, DictInvariant, ServeInvariant, PTL

=================================================================================
