----------------------------- MODULE AtomicInstall ------------------------------
(***************************************************************************)
(* What installing firmware promises: whatever fails, and whenever the     *)
(* power is lost, the device starts the image it runs or the newest one,   *)
(* whole; and an update that is acknowledged starts, unless the bootloader *)
(* refuses its image.                                                      *)
(***************************************************************************)
EXTENDS Naturals

VARIABLES
    runs,       \* the image that runs
    boots,      \* the image the next start would run
    candidate,  \* the newest image offered; images are numbered
    result      \* "installed", "refused": an acknowledged update; "none"

vars == <<runs, boots, candidate, result>>

Init == runs = 0 /\ boots = 0 /\ candidate = 0 /\ result = "none"

Offer == candidate' = candidate + 1 /\ UNCHANGED <<runs, boots, result>>

Attempt == boots' \in {runs, candidate} /\ UNCHANGED <<runs, candidate, result>>

Acknowledge ==
    /\ result = "none" /\ boots' \in {runs, candidate}
    /\ \/ result' = "installed" /\ boots' = candidate
       \/ result' = "refused"
    /\ UNCHANGED <<runs, candidate>>

Restart == runs' = boots /\ result' = "none" /\ UNCHANGED <<boots, candidate>>

Next == Offer \/ Attempt \/ Acknowledge \/ Restart

Spec == Init /\ [][Next]_vars
=================================================================================
