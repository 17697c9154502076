----------------------------- MODULE FlushedMap -----------------------------
(***************************************************************************)
(* What the directory of SSTables promises to the rest of the database,    *)
(* with no file in sight: a map from keys to values that only a flush can  *)
(* change, and that a flush changes completely or not at all.  Opening,    *)
(* compacting, closing and crashing are all stuttering steps.              *)
(***************************************************************************)
EXTENDS Entries

VARIABLES map,      \* the value each key has
          request   \* the memtable being flushed, EmptyTable when there is none

vars == <<map, request>>

Init == map = EmptyTable /\ request = EmptyTable

Begin(t) ==
    /\ request = EmptyTable
    /\ request' = t
    /\ UNCHANGED map

Commit ==
    /\ request # EmptyTable
    /\ map' = Fold(map, request)
    /\ request' = EmptyTable

Abort ==
    /\ request # EmptyTable
    /\ request' = EmptyTable
    /\ UNCHANGED map

Next == (\E t \in Table \ {EmptyTable} : Begin(t)) \/ Commit \/ Abort

Spec == Init /\ [][Next]_vars

=============================================================================
