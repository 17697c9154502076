------------------------------ MODULE WALTable ------------------------------
(***************************************************************************)
(* The log and the memtable as one table that outlives the process: the    *)
(* refinement of DurableTable, and the invariant that shows it.            *)
(***************************************************************************)
EXTENDS WAL

\* A segment that can be read to its end, and written to.
Whole(f) == ~f.torn /\ \A j \in DOMAIN f.cells : IsRecord(f.cells[j])

\* Every segment but the latest ends in its CLOSE record.
Sealed == \A n \in 1 .. LatestSegment(logs) - 1 : ReachedEof(Content(logs, n))

\* The operations a reader gets from a segment, and from all of them.
Ops(f) == [j \in 1 .. StopCell(f) - 1 |-> f.cells[j].op]

Logged(dir) ==
    FlattenSeq([n \in 1 .. LatestSegment(dir) |-> Ops(Content(dir, n))])

\* What a restart would rebuild: TableOf(Replayed(logs)).  (ops is bound so that
\* TLC replays the log once.)
Durable == CHOOSE t \in {TableOf(ops) : ops \in {Replayed(logs)}} : TRUE

\* The log stays in its first segment.
OneSegment == \A limit \in LogLimits : 2 * MaxLogged < limit

\* The environments in which the log is a durable table: no write is cut short
\* unnoticed, nothing spoils a file, and rotation meets no crash: either the log
\* stays in its first segment, or no process dies and all use the same limit.
Orderly ==
    /\ LogFaults \subseteq {"crash"}
    /\ \/ OneSegment
       \/ "crash" \notin LogFaults /\ \A a, b \in LogLimits : a = b

Abstract == INSTANCE DurableTable WITH
    AtOnce <- OneSegment,
    table <- IF log_phase \in {"close", "apply"}
             THEN Insert(mem_table, op.key, op.entry) ELSE mem_table,
    durable <- Durable,
    pending <- IF log_phase = "append" THEN op ELSE NoOp,
    stage <- IF log_phase = "down" THEN "closed"
             ELSE IF log_phase = "clear" THEN "clearing" ELSE "open"

\* An operation is in the memtable and on disk at once, whatever step of its
\* rotation, or of the repair that follows a crash, the log is in.
RefinesDurableTable == Abstract!Spec

-----------------------------------------------------------------------------
(* The invariant.                                                          *)

\* A segment is full and closed, or holds records only and has room.
SegmentsInv ==
    \A n \in DOMAIN logs :
        /\ logs[n].torn => OneSegment /\ log_phase \in {"down", "truncate"}
        /\ \/ ReachedEof(logs[n]) /\ Size(logs[n]) >= max_wal_file_size
           \/ /\ AtEnd(logs[n])
              /\ log_phase # "close" => Size(logs[n]) < max_wal_file_size

SingleInv ==
    OneSegment =>
        /\ log_phase # "close"
        /\ DOMAIN logs \subseteq {1}
        /\ \A n \in DOMAIN logs : Size(logs[n]) <= 2 * MaxLogged

SealedInv == log_phase # "clear" => Sealed

\* Only the half of a record at the end is ever cut off.
CutInv ==
    /\ log_phase = "truncate" =>
          /\ OneSegment /\ 1 \in DOMAIN logs
          /\ recovery_result.segment = 1
          /\ recovery_result.last_clean_offset = Len(logs[1].cells)
    /\ log_phase = "drop" => OneSegment /\ recovery_result.segment = 1

\* The writer points where a new one would, and a segment it closes is full.
ActiveInv ==
    /\ log_phase \in {"idle", "append", "close", "apply"}
          => write_path = Resolve(logs, max_wal_file_size)
    /\ log_phase = "append" =>
          /\ write_path <= MaxLog
          /\ Len(Content(logs, write_path).cells) < MaxLogged
    /\ log_phase = "close" =>
          /\ written_to = LatestSegment(logs) /\ written_to # 0
          /\ Whole(logs[written_to])
          /\ Size(logs[written_to]) >= max_wal_file_size
    /\ log_phase \in {"append", "close", "apply"} => op \in Op

\* The memtable, and the record on its way to it, is what a restart would rebuild.
DurableInv ==
    /\ log_phase \in {"truncate", "drop", "open", "idle", "append"}
          => mem_table = Durable
    /\ log_phase \in {"close", "apply"}
          => Insert(mem_table, op.key, op.entry) = Durable
    /\ log_phase \in {"down", "clear"} => mem_table = EmptyTable

\* Segments, writer, repair and memtable agree at every step.
LogInv ==
    /\ TypeOK
    /\ SegmentsInv /\ SingleInv /\ SealedInv
    /\ CutInv /\ ActiveInv /\ DurableInv

=============================================================================
