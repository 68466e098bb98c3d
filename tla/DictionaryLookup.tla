---------------------------- MODULE DictionaryLookup -----------------------------
(***************************************************************************)
(* Dictionary lookups: one static worker task runs them for the            *)
(* controllers of the open dictionary screens, of which the topmost runs.  *)
(*                                                                         *)
(* The main task starts a lookup (it claims the worker, then notifies it), *)
(* polls the controller's flags and, when the screen closes, asks for      *)
(* cancellation and waits for the worker before the controller is          *)
(* destroyed.  The worker writes the controller's fields one after the     *)
(* other.  A word is named by the number of the lookup that asks for it.   *)
(***************************************************************************)
EXTENDS Integers

CONSTANTS
    MaxControllers,  \* dictionary screens open at once; controller i is the i-th opened
    MaxLookups       \* bound: lookups started

Controllers == 1 .. MaxControllers
Lookups == 0 .. MaxLookups

ASSUME BoundsAssumption == MaxControllers \in Nat /\ MaxLookups \in Nat

States == {"Idle", "LookingUp", "AltFormPrompt", "NotFound", "ReadError"}
Results == {"none", "found", "stem", "missing", "error"}
Statuses == {"Direct", "Stem", "AltForm", "Suggestion"}

VARIABLES
    open,       \* how many controllers exist; the last one runs
    started,    \* lookups started so far
    main,       \* the main task: where it is in a call of the running controller
    event,      \* what handleInput() last returned, and the status it set
    ctl,        \* the fields of each controller
    fromList,   \* per controller, its word was picked from the suggestions
    cancelled,  \* lookups the user pressed Back on, or closed
    owner,      \* owner_ of the worker; 0: null
    notified,   \* the worker's notification count is positive
    work        \* where the worker is in run()

vars == <<open, started, main, event, ctl, fromList, cancelled, owner, notified, work>>
worker == <<owner, notified, work>>

NoEvent == [kind |-> "None", status |-> "Direct"]
FreshController == [state |-> "Idle", word |-> 0, result |-> "none", resultOf |-> 0, done |-> FALSE,
                    lookupCancelled |-> FALSE, cancelRequested |-> FALSE, nextIsSuggestion |-> FALSE]

Running == ctl[open]
Writing == {"prepare", "check", "locate", "verdict", "finish"}

Init ==
    /\ open = 0 /\ started = 0 /\ main = "idle" /\ event = NoEvent
    /\ ctl = [c \in Controllers |-> FreshController]
    /\ fromList = [c \in Controllers |-> FALSE] /\ cancelled = {}
    /\ owner = 0 /\ notified = FALSE /\ work = "wait"

\* The running controller's fields become f, and the activity gets event e.
Becomes(f, e) == ctl' = [ctl EXCEPT ![open] = f] /\ event' = e

---------------------------------------------------------------------------------
(* The screens: a definition opens over the word list it was asked from        *)

OpenScreen ==
    /\ main = "idle" /\ open < MaxControllers
    /\ open > 0 => Running.state = "Idle"
    /\ open' = open + 1
    /\ ctl' = [ctl EXCEPT ![open'] = FreshController]
    /\ fromList' = [fromList EXCEPT ![open'] = FALSE] /\ event' = NoEvent
    /\ UNCHANGED <<started, main, cancelled, worker>>

\* onExit(): the screen may be closed in any state, by Back, Home or sleep.
CloseScreen ==
    /\ main \in {"idle", "suggestions"} /\ open > 0
    /\ main' = "exiting"
    /\ Becomes([Running EXCEPT !.cancelRequested = TRUE], NoEvent)
    /\ cancelled' = cancelled \cup {Running.word}
    /\ UNCHANGED <<open, started, fromList, worker>>

\* Plausible bug: the controller is destroyed while the worker may run for it.
DestroyAtOnce ==
    /\ main = "exiting"
    /\ main' = "idle" /\ open' = open - 1
    /\ UNCHANGED <<started, event, ctl, fromList, cancelled, worker>>

\* waitForOwner() returns.
Destroy ==
    /\ main = "exiting" /\ owner # open
    /\ main' = "idle" /\ open' = open - 1
    /\ UNCHANGED <<started, event, ctl, fromList, cancelled, worker>>

---------------------------------------------------------------------------------
(* startLookup()                                                               *)

\* Plausible bug: a lookup starts as a direct one, whatever it was marked.
ResetSuggestion(c) == [FreshController EXCEPT !.state = "LookingUp", !.word = started + 1]

Reset(c) ==
    [state |-> "LookingUp", word |-> started + 1, result |-> "none", resultOf |-> 0, done |-> FALSE,
     lookupCancelled |-> FALSE, cancelRequested |-> FALSE, nextIsSuggestion |-> c.nextIsSuggestion]

Start(c, suggestion) ==
    /\ started < MaxLookups /\ started' = started + 1
    /\ main' = "claim"
    /\ Becomes(Reset(c), NoEvent)
    /\ fromList' = [fromList EXCEPT ![open] = suggestion]
    /\ UNCHANGED <<open, cancelled, worker>>

StartLookup ==
    /\ main = "idle" /\ open > 0 /\ Running.state = "Idle"
    /\ Start(Running, FALSE)

Claim ==
    /\ main = "claim" /\ owner = 0
    /\ main' = "notify" /\ owner' = open
    /\ UNCHANGED <<open, started, event, ctl, fromList, cancelled, notified, work>>

\* The worker still has an owner: start() fails, and the lookup is given up.
ClaimFails ==
    /\ main = "claim" /\ owner # 0
    /\ main' = "idle"
    /\ Becomes([Running EXCEPT !.state = "Idle"], NoEvent)
    /\ UNCHANGED <<open, started, fromList, cancelled, worker>>

NotifyWorker ==
    /\ main = "notify" /\ main' = "idle" /\ notified' = TRUE
    /\ UNCHANGED <<open, started, event, ctl, fromList, cancelled, owner, work>>

---------------------------------------------------------------------------------
(* handleInput()                                                               *)

Polling(state) == main = "idle" /\ open > 0 /\ Running.state = state
Ready == Polling("LookingUp") /\ Running.done

TakeCancelled ==
    /\ Ready /\ Running.lookupCancelled
    /\ Becomes([Running EXCEPT !.state = "Idle", !.nextIsSuggestion = FALSE],
               [kind |-> "Cancelled", status |-> "Direct"])
    /\ UNCHANGED <<open, started, main, fromList, cancelled, worker>>

FoundStatus(c, otherwise) == IF c.nextIsSuggestion THEN "Suggestion" ELSE otherwise

TakeFound ==
    /\ Ready /\ ~ Running.lookupCancelled /\ Running.result \in {"found", "stem"}
    /\ LET status == FoundStatus(Running, IF Running.result = "stem" THEN "Stem" ELSE "Direct") IN
       Becomes([Running EXCEPT !.state = "Idle", !.nextIsSuggestion = FALSE],
               [kind |-> "FoundDefinition", status |-> status])
    /\ UNCHANGED <<open, started, main, fromList, cancelled, worker>>

TakeReadError ==
    /\ Ready /\ ~ Running.lookupCancelled /\ Running.result = "error"
    /\ Becomes([Running EXCEPT !.state = "ReadError", !.nextIsSuggestion = FALSE], NoEvent)
    /\ UNCHANGED <<open, started, main, fromList, cancelled, worker>>

NotLocated == Ready /\ ~ Running.lookupCancelled /\ Running.result \in {"none", "missing"}

OfferAltForm ==
    /\ NotLocated
    /\ Becomes([Running EXCEPT !.state = "AltFormPrompt"], NoEvent)
    /\ UNCHANGED <<open, started, main, fromList, cancelled, worker>>

\* handleLookupFailed(): similar words are listed, or there are none, or no memory.
ListSuggestions ==
    /\ main' = "suggestions"
    /\ Becomes([Running EXCEPT !.state = "Idle"], NoEvent)
NothingSimilar ==
    /\ main' = main
    /\ Becomes([Running EXCEPT !.state = "NotFound", !.nextIsSuggestion = FALSE], NoEvent)
NoMemoryForList ==
    /\ main' = main
    /\ Becomes([Running EXCEPT !.state = "Idle", !.nextIsSuggestion = FALSE], NoEvent)

LookupFails ==
    /\ NotLocated \/ Polling("AltFormPrompt")
    /\ ListSuggestions \/ NothingSimilar \/ NoMemoryForList
    /\ UNCHANGED <<open, started, fromList, cancelled, worker>>

AcceptAltForm ==
    /\ Polling("AltFormPrompt")
    /\ Becomes([Running EXCEPT !.state = "Idle", !.nextIsSuggestion = FALSE,
                               !.result = "found", !.resultOf = Running.word],
               [kind |-> "FoundDefinition", status |-> FoundStatus(Running, "AltForm")])
    /\ UNCHANGED <<open, started, main, fromList, cancelled, worker>>

DeclineAltForm ==
    /\ Polling("AltFormPrompt")
    /\ Becomes([Running EXCEPT !.state = "Idle", !.nextIsSuggestion = FALSE],
               [kind |-> "NotFoundDismissedBack", status |-> "Direct"])
    /\ UNCHANGED <<open, started, main, fromList, cancelled, worker>>

\* The list of suggestions closes with a word, or without one.
PickSuggestion == main = "suggestions" /\ Start([Running EXCEPT !.nextIsSuggestion = TRUE], TRUE)
LeaveSuggestions ==
    /\ main = "suggestions" /\ main' = "idle"
    /\ Becomes([Running EXCEPT !.state = "NotFound"], NoEvent)
    /\ UNCHANGED <<open, started, fromList, cancelled, worker>>

DismissFailure ==
    /\ Polling("NotFound") \/ Polling("ReadError")
    /\ \E kind \in {"SwitchDictionary", "NotFoundDismissedDone", "NotFoundDismissedBack"} :
         Becomes([Running EXCEPT !.state = "Idle"], [kind |-> kind, status |-> "Direct"])
    /\ UNCHANGED <<open, started, main, fromList, cancelled, worker>>

\* Plausible bug: Back leaves the lookup at once.
CancelAtOnce ==
    /\ Polling("LookingUp") /\ ~ Running.done /\ ~ Running.cancelRequested
    /\ Becomes([Running EXCEPT !.cancelRequested = TRUE, !.state = "Idle"], NoEvent)
    /\ cancelled' = cancelled \cup {Running.word}
    /\ UNCHANGED <<open, started, main, fromList, worker>>

\* Back while the worker runs.
RequestCancel ==
    /\ Polling("LookingUp") /\ ~ Running.done /\ ~ Running.cancelRequested
    /\ Becomes([Running EXCEPT !.cancelRequested = TRUE], NoEvent)
    /\ cancelled' = cancelled \cup {Running.word}
    /\ UNCHANGED <<open, started, main, fromList, worker>>

---------------------------------------------------------------------------------
(* The worker's run() and runLookup()                                          *)

\* The worker goes from one place to the next, and the fields of its owner to f.
Works(from, to, f) ==
    /\ work = from /\ work' = to
    /\ ctl' = [ctl EXCEPT ![owner] = f]
    /\ UNCHANGED <<open, started, main, event, fromList, cancelled, owner, notified>>

TakeNotification ==
    /\ work = "wait" /\ notified /\ notified' = FALSE
    /\ work' = (IF owner = 0 THEN "wait" ELSE "prepare")
    /\ UNCHANGED <<open, started, main, event, ctl, fromList, cancelled, owner>>

\* prepareQuickIndex() may take long, and stops early when it is cancelled.
PrepareIndex == Works("prepare", "check", ctl[owner])

\* Plausible bug: a lookup cancelled this early returns without an answer.
CheckCancelledSilently ==
    /\ work = "check"
    /\ \/ /\ ctl[owner].cancelRequested
          /\ Works("check", "release", [ctl[owner] EXCEPT !.lookupCancelled = TRUE])
       \/ /\ ~ ctl[owner].cancelRequested
          /\ Works("check", "locate", ctl[owner])

CheckCancelled ==
    /\ work = "check"
    /\ \/ /\ ctl[owner].cancelRequested
          /\ Works("check", "finish", [ctl[owner] EXCEPT !.lookupCancelled = TRUE])
       \/ /\ ~ ctl[owner].cancelRequested
          /\ Works("check", "locate", ctl[owner])

\* Plausible bug: the answer is announced before it is stored.
LocateAnnounced ==
    \E r \in Results \ {"none"} :
        Works("locate", "verdict", [ctl[owner] EXCEPT !.result = r, !.done = TRUE])

Locate ==
    \E r \in Results \ {"none"} :
        Works("locate", "verdict", [ctl[owner] EXCEPT !.result = r, !.resultOf = ctl[owner].word])

StoreVerdict ==
    Works("verdict", "finish", [ctl[owner] EXCEPT !.lookupCancelled = ctl[owner].cancelRequested])

Finish == Works("finish", "release", [ctl[owner] EXCEPT !.done = TRUE])

\* Plausible bug: a lookup that found nothing because it was cancelled is tried again.
ReleaseOrRetry ==
    /\ work = "release"
    /\ work' = (IF ctl[owner].lookupCancelled THEN "prepare" ELSE "wait")
    /\ owner' = (IF ctl[owner].lookupCancelled THEN owner ELSE 0)
    /\ UNCHANGED <<open, started, main, event, ctl, fromList, cancelled, notified>>

Release ==
    /\ work = "release" /\ work' = "wait" /\ owner' = 0
    /\ UNCHANGED <<open, started, main, event, ctl, fromList, cancelled, notified>>

---------------------------------------------------------------------------------
Screens == OpenScreen \/ CloseScreen \/ Destroy
Starting == StartLookup \/ PickSuggestion \/ Claim \/ ClaimFails \/ NotifyWorker
Answer == TakeCancelled \/ TakeFound \/ TakeReadError \/ OfferAltForm \/ LookupFails
Choices == AcceptAltForm \/ DeclineAltForm \/ LeaveSuggestions \/ DismissFailure \/ RequestCancel
Work ==
    TakeNotification \/ PrepareIndex \/ CheckCancelled \/ Locate \/ StoreVerdict \/ Finish \/ Release

Next == Screens \/ Starting \/ Answer \/ Choices \/ Work

\* The worker is scheduled, and the main task finishes the calls it began and polls.
Fairness == WF_vars(Work) /\ WF_vars(Destroy \/ Claim \/ ClaimFails \/ NotifyWorker \/ Answer)

Spec == Init /\ [][Next]_vars /\ Fairness

---------------------------------------------------------------------------------
TypeOK ==
    /\ open \in 0 .. MaxControllers /\ started \in Lookups
    /\ main \in {"idle", "claim", "notify", "suggestions", "exiting"}
    /\ event.kind \in {"None", "FoundDefinition", "Cancelled", "SwitchDictionary",
                       "NotFoundDismissedDone", "NotFoundDismissedBack"}
    /\ event.status \in Statuses
    /\ ctl \in [Controllers ->
         [state : States, word : Lookups, result : Results, resultOf : Lookups, done : BOOLEAN,
          lookupCancelled : BOOLEAN, cancelRequested : BOOLEAN, nextIsSuggestion : BOOLEAN]]
    /\ fromList \in [Controllers -> BOOLEAN] /\ cancelled \subseteq Lookups
    /\ owner \in Controllers \cup {0} /\ notified \in BOOLEAN
    /\ work \in Writing \cup {"wait", "release"}

\* The worker's owner exists: no screen is destroyed under a running lookup
\* (DictionaryLookupWorker.h:10-12).
OwnerExists == owner <= open

\* While the worker writes a controller's fields, that controller is looking up: the main
\* task neither reads the answer nor starts over beneath it.
WorkerWritesOnlyALookup == work \in Writing => owner # 0 /\ ctl[owner].state = "LookingUp"

\* The answer an activity gets belongs to the word it asked for last, in this controller.
AnswerBelongsToTheWord == event.kind = "FoundDefinition" => Running.resultOf = Running.word

\* A lookup is reported cancelled only if the user cancelled that lookup, not one before.
CancelledOnlyOnRequest == event.kind = "Cancelled" => Running.word \in cancelled

\* A word picked from the suggestions is reported as one, also when it is found by its
\* stem or alternative form (DictionaryLookupController.h:63).
SuggestionsAreMarked ==
    event.kind = "FoundDefinition" /\ fromList[open] => event.status = "Suggestion"

\* No lookup is forgotten: one without an answer is the topmost controller's, which is
\* still starting it, or the worker has it and will be or is awake.  And a screen that
\* closes waits only for a worker that moves (onExit(), waitForOwner()).
NoLookupIsForgotten ==
    /\ \A c \in 1 .. open : ctl[c].state = "LookingUp" /\ ~ ctl[c].done =>
          /\ c = open
          /\ main \in {"claim", "notify"} \/ (owner = c /\ (notified \/ work \in Writing))
    /\ main = "exiting" /\ owner = open => notified \/ work # "wait"

\* Every lookup ends: none waits for a notification the worker has already taken.
LookupsEnd ==
    \A c \in Controllers :
        ctl[c].state = "LookingUp" ~> ctl[c].state # "LookingUp" \/ open < c

\* onExit() returns, although it waits for the worker with the render lock held.
ExitsEnd == main = "exiting" ~> main # "exiting"
=================================================================================
