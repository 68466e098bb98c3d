------------------------------ MODULE DurableSave ------------------------------
(***************************************************************************)
(* What the Pokemon save promises, with no files in it.                    *)
(*                                                                         *)
(* `saved' is what the running program sees, `recover' the set of things   *)
(* it may see after the next power loss.  A write that is acknowledged is  *)
(* what every later start sees.  A write that is not acknowledged leaves   *)
(* the running program with the old save, and a later start with the old   *)
(* or the new one, never with a mixture and never with nothing -- except   *)
(* that the very first write, which has no older save to fall back to, may *)
(* leave a start with Lost.                                                *)
(***************************************************************************)
CONSTANTS Values,   \* the contents a save may have
          NoSave,   \* nothing has been saved yet
          Lost,     \* a save that cannot be read
          Blocked   \* a save that belongs to a newer program

VARIABLES saved, recover

Outcomes == Values \cup {NoSave, Lost, Blocked}

Init == saved \in Outcomes /\ recover = {saved}

Writable == saved \in Values \cup {NoSave}

\* What a start may find while or after a write of v that was not acknowledged.
Leftovers(v) == {saved, v} \cup (IF saved = NoSave THEN {Lost} ELSE {})

Attempt(v) ==
    /\ Writable
    /\ recover' \in (SUBSET Leftovers(v)) \ {{}}
    /\ UNCHANGED saved

Acknowledge(v) ==
    /\ Writable
    /\ saved' = v
    /\ recover' = {v}

Restart ==
    /\ saved' \in recover
    /\ recover' = {saved'}

Next == \/ \E v \in Values : Attempt(v) \/ Acknowledge(v)
        \/ Restart

Spec == Init /\ [][Next]_<<saved, recover>>

---------------------------------------------------------------------------------
\* While the program sees a save, the next start finds one, whatever write the
\* power loss interrupts: only the very first write may leave nothing readable.
StartsFindASave == saved \in Values => recover \subseteq Values

\* A program that sees a save never stops seeing one, over writes and starts.
ASaveIsForever == [][(saved \in Values) => (saved' \in Values)]_<<saved, recover>>
=================================================================================
