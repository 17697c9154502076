---------------------------- MODULE DurableTable ----------------------------
(***************************************************************************)
(* What the write-ahead log promises to the rest of the database, with no  *)
(* segment in sight: a memtable that outlives the process.  A record is in *)
(* the table and on disk at once, before put returns; a restart gets back  *)
(* the table; and once a flush has made it useless it goes.                *)
(***************************************************************************)
EXTENDS Entries

CONSTANT AtOnce  \* whether clearing the log is a single removal

VARIABLES table,    \* the memtable, with the record just logged
          durable,  \* the memtable a restart would rebuild
          pending,  \* the record about to be logged
          stage     \* "closed", "open" or "clearing"

vars == <<table, durable, pending, stage>>

NoOp == [key |-> Absent, entry |-> Absent]

Init ==
    /\ table = EmptyTable /\ durable = EmptyTable
    /\ pending = NoOp
    /\ stage = "closed"

Open ==
    /\ stage = "closed"
    /\ stage' = "open"
    /\ table' = durable
    /\ UNCHANGED <<durable, pending>>

Begin(k, e) ==
    /\ stage = "open" /\ pending = NoOp
    /\ pending' = [key |-> k, entry |-> e]
    /\ UNCHANGED <<table, durable, stage>>

Commit ==
    /\ stage = "open" /\ pending # NoOp
    /\ pending' = NoOp
    /\ table' = Insert(table, pending.key, pending.entry)
    /\ durable' = table'
    /\ UNCHANGED stage

\* From here on the table is in an SSTable, and the log is useless.
Clear ==
    /\ stage = "open" /\ pending = NoOp
    /\ stage' = "clearing"
    /\ table' = EmptyTable
    /\ UNCHANGED <<durable, pending>>

\* Of a log of several segments any part may be left, and replay anything.
Lose ==
    /\ stage = "clearing"
    /\ durable' \in IF AtOnce THEN {EmptyTable} ELSE Table
    /\ UNCHANGED <<table, pending, stage>>

Cleared ==
    /\ stage = "clearing" /\ durable = EmptyTable
    /\ stage' = "open"
    /\ UNCHANGED <<table, durable, pending>>

\* The process ends, or dies.
Stop ==
    /\ stage = "open" \/ (stage = "clearing" /\ AtOnce)
    /\ stage' = "closed"
    /\ table' = EmptyTable
    /\ pending' = NoOp
    /\ UNCHANGED durable

Next ==
    \/ Open \/ (\E k \in Key, e \in Entry : Begin(k, e)) \/ Commit
    \/ Clear \/ Lose \/ Cleared \/ Stop

Spec == Init /\ [][Next]_vars

=============================================================================
