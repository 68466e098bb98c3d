---------------------------- MODULE SnapshotSequence ----------------------------
(***************************************************************************)
(* The 32-bit sequence number every Pokemon snapshot carries, and the      *)
(* serial-number comparison that decides at startup which of two valid     *)
(* snapshots is the newest.  Zero is not a sequence (the codec rejects it) *)
(* so the counter wraps from its greatest value to 1.                      *)
(***************************************************************************)
EXTENDS Integers

CONSTANT SeqMod  \* 2^32 in the code: the modulus of a sequence number

\* The comparison needs the skipped zero to stay inside half a turn.
ASSUME SeqModAssumption == SeqMod \in Nat /\ SeqMod > 4

Sequences == 1 .. (SeqMod - 1)

\* The unsigned subtraction a - b of the code, modulo SeqMod.
UnsignedDifference(a, b) == IF a >= b THEN a - b ELSE a - b + SeqMod

\* Plausible bug: sequences compared as plain numbers.
SequenceIsGreater(candidate, current) == candidate > current

\* a # b and a - b < 2^31 (half of the modulus), in unsigned arithmetic.
SequenceIsNewer(candidate, current) ==
    /\ candidate # current
    /\ 2 * UnsignedDifference(candidate, current) < SeqMod

\* The sequence of the snapshot written on top of one that carries s.
SequenceAfter(s) == IF s = SeqMod - 1 THEN 1 ELSE s + 1
=================================================================================
