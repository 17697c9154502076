------------------------------ MODULE KVStore ------------------------------
(***************************************************************************)
(* What IztaDB promises a client: a durable map.  One put or remove at a   *)
(* time takes effect at once, before it returns; only an operation under   *)
(* way when the process dies may be lost, and then completely.             *)
(***************************************************************************)
EXTENDS Entries

VARIABLES map,      \* the value each key has, on disk for good
          pending,  \* the operation under way that has not taken effect
          running   \* whether a process has the database open

vars == <<map, pending, running>>

NoOp == [key |-> Absent, entry |-> Absent]

Init == map = EmptyTable /\ pending = NoOp /\ running = FALSE

Start == ~running /\ running' = TRUE /\ UNCHANGED <<map, pending>>

Begin(k, e) ==
    /\ running /\ pending = NoOp
    /\ pending' = [key |-> k, entry |-> e]
    /\ UNCHANGED <<map, running>>

Commit ==
    /\ pending # NoOp
    /\ pending' = NoOp
    /\ UNCHANGED running
    /\ map' = [map EXCEPT ![pending.key] = Live(pending.entry)]

\* The process ends, or dies and takes the pending operation with it.
Stop == running /\ running' = FALSE /\ pending' = NoOp /\ UNCHANGED map

Next == Start \/ (\E k \in Key, e \in Entry : Begin(k, e)) \/ Commit \/ Stop

Spec == Init /\ [][Next]_vars

=============================================================================
