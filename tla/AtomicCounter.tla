----------------------------- MODULE AtomicCounter -----------------------------
(***************************************************************************)
(* What 11.c promises: a persistent number that every run adds one to, in  *)
(* one indivisible step, at most once per run.                             *)
(***************************************************************************)
EXTENDS Integers

CONSTANT Runs

VARIABLES value,     \* the number kept
          counted    \* the runs it already counts

vars == <<value, counted>>

Init == value \in Int /\ counted = {}

Count(r) == /\ r \notin counted
            /\ value' = value + 1
            /\ counted' = counted \cup {r}

Next == \E r \in Runs : Count(r)

Spec == Init /\ [][Next]_vars
=============================================================================
