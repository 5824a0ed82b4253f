------------------------------- MODULE RowLog -------------------------------
(***************************************************************************)
(* What an append-only JSONL stream with a byte budget promises: a row it  *)
(* accepted is in memory or on disk, only the oldest rows ever leave the   *)
(* disk, and only rows in memory are lost in a crash.  Rows are numbered   *)
(* in the order they were accepted.                                        *)
(***************************************************************************)
EXTENDS Integers

CONSTANT MaxRows   \* bound of the model

VARIABLES
    pending,  \* rows accepted and still in the process's memory
    kept      \* rows a reader of the directory finds

vars == <<pending, kept>>

Row == 1..MaxRows

Older(S, T) == \A r \in S, s \in T : r < s

Init == pending = {} /\ kept = {}

\* The row is in memory first, or reaches the disk with all that waited there.
Accept(r) ==
    /\ Older(pending \cup kept, {r})
    /\ \/ pending' = pending \cup {r} /\ UNCHANGED kept
       \/ pending' = {} /\ kept' = kept \cup pending \cup {r}

\* The disk takes rows in the order they were accepted.
Persist(S) ==
    /\ S \subseteq pending
    /\ Older(S, pending \ S)
    /\ kept' = kept \cup S
    /\ pending' = pending \ S

\* The budget takes the oldest rows.
Expire(S) ==
    /\ S \subseteq kept
    /\ Older(S, kept \ S)
    /\ kept' = kept \ S
    /\ UNCHANGED pending

Crash == pending' = {} /\ UNCHANGED kept

Next ==
    \/ \E r \in Row : Accept(r)
    \/ \E S \in SUBSET Row : Persist(S) \/ Expire(S)
    \/ Crash

Spec == Init /\ [][Next]_vars
=============================================================================
