-------------------------------- MODULE WAL --------------------------------
(***************************************************************************)
(* The write-ahead log and the memtable it makes durable: LogWriter,       *)
(* LogReader and the parts of IztaDB that drive them, the constructor's    *)
(* recovery (apply_recovery_result), put and remove up to the memtable,    *)
(* and the clearing of the log once a flush has made it useless.  One step *)
(* per effect on the file system; the process may die between any two.     *)
(*                                                                         *)
(* A WALRecord has a fixed size, so a segment is a sequence of cells, with *)
(* or without half a record at its end.  A cell is a record whose checksum *)
(* holds, a CLOSE record, or Corrupt: its checksum does not hold.          *)
(***************************************************************************)
EXTENDS Entries, Directory, SequencesExt

CONSTANTS LogLimits,     \* the values of max_wal_file_size, in half records
          LogFaults,     \* the faults the environment may cause
          Garbage,       \* what calculate_next_sequence may find uninitialized
          MaxLog,        \* bound: the highest segment explored
          MaxLogged,     \* bound: the number of records in the log
          Close, Corrupt \* cells that are no record

ASSUME WALAssumption ==
    /\ LogLimits \subseteq Nat \ {0}
    /\ LogFaults \subseteq {"crash", "rot", "short_write"}
    /\ Garbage \subseteq Nat
    /\ MaxLog \in Nat /\ MaxLogged \in Nat
    /\ Close # Corrupt

VARIABLES logs,              \* segment number -> segment, the .log files
          mem_table,         \* the live MemTable
          max_wal_file_size, \* the limit this session was opened with
          write_path,        \* LogWriter: the segment the next record goes to
          next_sequence,     \* LogWriter: its sequence number
          recovery_result,   \* RecoveryResult
          op,                \* the record being written
          written_to,        \* write_record's local write_path_temp
          log_phase          \* where the single thread is

writerVars == <<max_wal_file_size, write_path, next_sequence>>
callVars == <<recovery_result, op, written_to>>
walVars == <<logs, mem_table, writerVars, callVars, log_phase>>

Op == [key : Key, entry : Entry]
Record == [op : Op, seq : Nat]

ASSUME CellsAssumption == Close \notin Record /\ Corrupt \notin Record

LogSegment == [cells : Seq(Record \cup {Close, Corrupt}), torn : BOOLEAN]
LogPhase == {"down", "truncate", "drop", "open", "idle", "append", "close",
             "apply", "clear"}

NoOp == [key |-> Absent, entry |-> Absent]
CleanResult == [clean |-> TRUE, segment |-> 0, last_clean_offset |-> 0]
EmptySegment == [cells |-> << >>, torn |-> FALSE]

-----------------------------------------------------------------------------
(* Segments.                                                               *)

IsRecord(c) == c \notin {Close, Corrupt}

\* Reading a segment that does not exist finds nothing in it, like an empty one.
Content(dir, n) == IF n \in DOMAIN dir THEN dir[n] ELSE EmptySegment

\* file_size, in half records.
Size(f) == 2 * Len(f.cells) + (IF f.torn THEN 1 ELSE 0)

\* A whole record appended.  Behind half a record the reader's next cell is
\* that half and half of the new one, and half of the new one is left over.
AppendCell(f, c) ==
    [f EXCEPT !.cells = Append(@, IF f.torn THEN Corrupt ELSE c)]

\* Half a record appended: to a whole number of them, or to another half.
AppendHalf(f) ==
    IF f.torn THEN [cells |-> Append(f.cells, Corrupt), torn |-> FALSE]
    ELSE [cells |-> f.cells, torn |-> TRUE]

\* resolve_active_log_path: the latest segment while it is below the limit.
Resolve(dir, limit) ==
    LET latest == LatestSegment(dir)
    IN  IF latest = 0 THEN 1
        ELSE IF Size(dir[latest]) < limit THEN latest ELSE latest + 1

\* Mistaken: every session counts from one.
SequencesFromOne(dir) == {1}

\* calculate_next_sequence: one more than the last record-sized piece of the
\* latest segment says; a CLOSE record says 0.  When the segment is shorter
\* than a record the seek fails and the variable read is uninitialized.
NextSequences(dir) ==
    LET latest == LatestSegment(dir)
    IN  IF latest = 0 THEN {1}
        ELSE LET cells == dir[latest].cells
             IN  IF cells = << >> THEN Garbage
                 ELSE IF IsRecord(Last(cells)) /\ ~dir[latest].torn
                      THEN {Last(cells).seq + 1}
                      ELSE IF Last(cells) = Close /\ ~dir[latest].torn THEN {1}
                      ELSE Garbage

-----------------------------------------------------------------------------
(* LogReader.                                                              *)

\* Where restore_segment stops: at the first cell that is no record.
StopCell(f) ==
    CHOOSE j \in 1 .. Len(f.cells) + 1 :
        /\ j <= Len(f.cells) => ~IsRecord(f.cells[j])
        /\ \A i \in 1 .. j - 1 : IsRecord(f.cells[i])

AtEnd(f) == StopCell(f) = Len(f.cells) + 1
ReachedEof(f) == ~AtEnd(f) /\ f.cells[StopCell(f)] = Close

\* restore_segment's "clean", which restore_mem_table takes back when a segment
\* that is not the latest does not end in a CLOSE record.
Clean(dir, n) ==
    LET f == Content(dir, n)
    IN  ReachedEof(f) \/ (AtEnd(f) /\ ~f.torn /\ n = LatestSegment(dir))

\* Mistaken: the reader goes on with the next segment.
StopAtLatest(dir) == LatestSegment(dir)

\* The segment restore_mem_table stops at: the first that is not clean, else
\* the latest.
StopSegment(dir) ==
    LET segments == 1 .. LatestSegment(dir)
        dirty == {n \in segments : ~Clean(dir, n)}
    IN  IF dirty = {} THEN LatestSegment(dir)
        ELSE CHOOSE n \in dirty : \A m \in dirty : n <= m

\* The operations replayed, in order.
Replayed(dir) ==
    FlattenSeq([n \in 1 .. StopSegment(dir) |->
        [j \in 1 .. StopCell(Content(dir, n)) - 1 |->
            Content(dir, n).cells[j].op]])

\* Operations applied to an empty memtable: the last one on a key decides.
TableOf(ops) ==
    [k \in Key |->
        LET hits == {i \in DOMAIN ops : ops[i].key = k}
        IN  IF hits = {} THEN Absent ELSE ops[Newest(hits)].entry]

\* Mistaken: the offset is that of the last good record, not of its end.
ResultBeforeLast(dir) ==
    LET n == StopSegment(dir)
    IN  IF n = 0 \/ Clean(dir, n) THEN CleanResult
        ELSE [clean |-> FALSE, segment |-> n,
              last_clean_offset |-> StopCell(Content(dir, n)) - 2]

\* get_recovery_result: the offset is just behind the last record read well.
ResultOf(dir) ==
    LET n == StopSegment(dir)
        f == Content(dir, n)
    IN  IF n = 0 \/ Clean(dir, n) THEN CleanResult
        ELSE [clean |-> FALSE, segment |-> n,
              last_clean_offset |-> StopCell(f) - 1]

-----------------------------------------------------------------------------
Init ==
    /\ logs = [n \in {} |-> EmptySegment]
    /\ mem_table = EmptyTable
    /\ max_wal_file_size \in LogLimits
    /\ write_path = 0
    /\ next_sequence = 0
    /\ recovery_result = CleanResult
    /\ op = NoOp
    /\ written_to = 0
    /\ log_phase = "down"

\* What is in memory is gone.
SessionEnds ==
    /\ log_phase' = "down"
    /\ mem_table' = EmptyTable
    /\ write_path' = 0
    /\ next_sequence' = 0
    /\ recovery_result' = CleanResult
    /\ op' = NoOp
    /\ written_to' = 0

-----------------------------------------------------------------------------
(* The constructor.                                                        *)

\* restore_mem_table, with a limit of the client's choice for this session.
Restore ==
    /\ log_phase = "down"
    /\ max_wal_file_size' \in LogLimits
    /\ mem_table' = TableOf(Replayed(logs))
    /\ recovery_result' = ResultOf(logs)
    /\ log_phase' = IF recovery_result'.clean THEN "open" ELSE "truncate"
    /\ UNCHANGED <<logs, write_path, next_sequence, op, written_to>>

\* apply_recovery_result cuts the flagged segment.
Truncate ==
    /\ log_phase = "truncate"
    /\ recovery_result.segment \in DOMAIN logs
    /\ logs' = WithFile(logs, recovery_result.segment,
                  [cells |-> SubSeq(logs[recovery_result.segment].cells, 1,
                                    recovery_result.last_clean_offset),
                   torn  |-> FALSE])
    /\ log_phase' = "drop"
    /\ UNCHANGED <<mem_table, writerVars, callVars>>

\* resize_file throws when the flagged segment does not exist.
TruncateThrows ==
    /\ log_phase = "truncate"
    /\ recovery_result.segment \notin DOMAIN logs
    /\ SessionEnds
    /\ UNCHANGED <<logs, max_wal_file_size>>

\* Mistaken: the flagged segment, which was cut, goes too.
NotLower == {n \in DOMAIN logs : n >= recovery_result.segment}

Higher == {n \in DOMAIN logs : n > recovery_result.segment}

\* It removes every higher segment, in the order the directory lists them.
DropHigher ==
    /\ log_phase = "drop"
    /\ \E n \in Higher : logs' = WithoutFile(logs, n)
    /\ UNCHANGED <<mem_table, writerVars, callVars, log_phase>>

DropDone ==
    /\ log_phase = "drop"
    /\ Higher = {}
    /\ log_phase' = "open"
    /\ UNCHANGED <<logs, mem_table, writerVars, callVars>>

\* LogWriter's constructor.
NewWriter ==
    /\ write_path' = Resolve(logs, max_wal_file_size)
    /\ next_sequence' \in NextSequences(logs)

OpenWriter ==
    /\ log_phase = "open"
    /\ NewWriter
    /\ recovery_result' = CleanResult
    /\ log_phase' = "idle"
    /\ UNCHANGED <<logs, mem_table, max_wal_file_size, op, written_to>>

-----------------------------------------------------------------------------
(* put and remove: write_record, then the memtable.                        *)

\* Bounds on how far the log grows.
LogRoom ==
    /\ write_path <= MaxLog
    /\ Len(Replayed(logs)) < MaxLogged
    /\ Len(Content(logs, write_path).cells) < MaxLogged

WriteBegin(k, e) ==
    /\ log_phase = "idle"
    /\ LogRoom
    /\ op' = [key |-> k, entry |-> e]
    /\ log_phase' = "append"
    /\ UNCHANGED <<logs, mem_table, writerVars, recovery_result, written_to>>

\* The part of write_record that follows the append, whatever was written:
\* number and path are recomputed, and another path means this one is full.
AfterAppend ==
    /\ next_sequence' = next_sequence + 1
    /\ write_path' = Resolve(logs', max_wal_file_size)
    /\ written_to' = write_path
    /\ log_phase' = IF write_path' # write_path THEN "close" ELSE "apply"
    /\ UNCHANGED <<mem_table, max_wal_file_size, recovery_result, op>>

AppendRecord ==
    /\ log_phase = "append"
    /\ logs' = WithFile(logs, write_path,
                  AppendCell(Content(logs, write_path),
                             [op |-> op, seq |-> next_sequence]))
    /\ AfterAppend

AfterClose ==
    /\ log_phase' = "apply"
    /\ UNCHANGED <<mem_table, writerVars, callVars>>

\* Mistaken: the record just written is written again, its type unchanged.
AppendAgain ==
    /\ log_phase = "close"
    /\ logs' = WithFile(logs, written_to,
                  AppendCell(logs[written_to], [op |-> op, seq |-> 0]))
    /\ AfterClose

AppendClose ==
    /\ log_phase = "close"
    /\ logs' = WithFile(logs, written_to, AppendCell(logs[written_to], Close))
    /\ AfterClose

\* A write that fails: nothing, or half a record, reaches the file, and
\* nothing checks it.
AppendShort ==
    /\ "short_write" \in LogFaults
    /\ log_phase = "append"
    /\ LET f == Content(logs, write_path)
       IN  \E g \in {f, AppendHalf(f)} : logs' = WithFile(logs, write_path, g)
    /\ AfterAppend

CloseShort ==
    /\ "short_write" \in LogFaults
    /\ log_phase = "close"
    /\ LET f == logs[written_to]
       IN  \E g \in {f, AppendHalf(f)} : logs' = WithFile(logs, written_to, g)
    /\ AfterClose

\* mem_table->put or ->remove.
Apply ==
    /\ log_phase = "apply"
    /\ mem_table' = Insert(mem_table, op.key, op.entry)
    /\ op' = NoOp
    /\ written_to' = 0
    /\ log_phase' = "idle"
    /\ UNCHANGED <<logs, writerVars, recovery_result>>

-----------------------------------------------------------------------------
(* Clearing the log after a flush: every segment is removed, in the order  *)
(* the directory lists them, and the writer starts over.                   *)

ClearBegin ==
    /\ log_phase = "idle"
    /\ mem_table # EmptyTable
    /\ mem_table' = EmptyTable
    /\ log_phase' = "clear"
    /\ UNCHANGED <<logs, writerVars, callVars>>

ClearNext ==
    /\ log_phase = "clear"
    /\ \E n \in DOMAIN logs : logs' = WithoutFile(logs, n)
    /\ UNCHANGED <<mem_table, writerVars, callVars, log_phase>>

ClearDone ==
    /\ log_phase = "clear"
    /\ DOMAIN logs = {}
    /\ NewWriter
    /\ log_phase' = "idle"
    /\ UNCHANGED <<logs, mem_table, max_wal_file_size, callVars>>

-----------------------------------------------------------------------------
Shutdown ==
    /\ log_phase = "idle"
    /\ SessionEnds
    /\ UNCHANGED <<logs, max_wal_file_size>>

\* The process dies.  A record being appended has reached the file not at all,
\* as an empty file if there was none, or in part; a CLOSE record likewise.
Crash ==
    /\ "crash" \in LogFaults
    /\ log_phase # "down"
    /\ SessionEnds
    /\ \/ UNCHANGED logs
       \/ /\ log_phase = "append"
          /\ LET f == Content(logs, write_path)
             IN  \E g \in {f, AppendHalf(f)} :
                    logs' = WithFile(logs, write_path, g)
       \/ /\ log_phase = "close"
          /\ logs' = WithFile(logs, written_to, AppendHalf(logs[written_to]))
    /\ UNCHANGED max_wal_file_size

\* While no process runs, the disk spoils a record.
Rot ==
    /\ "rot" \in LogFaults
    /\ log_phase = "down"
    /\ \E n \in DOMAIN logs : \E j \in DOMAIN logs[n].cells :
          /\ logs[n].cells[j] # Corrupt
          /\ logs' = [logs EXCEPT ![n].cells[j] = Corrupt]
    /\ UNCHANGED <<mem_table, writerVars, callVars, log_phase>>

Recovery == Restore \/ Truncate \/ TruncateThrows \/ DropHigher \/ DropDone
            \/ OpenWriter

Write ==
    \/ \E k \in Key, e \in Entry : WriteBegin(k, e)
    \/ AppendRecord \/ AppendClose \/ AppendShort \/ CloseShort \/ Apply

Clear == ClearBegin \/ ClearNext \/ ClearDone

Next == Recovery \/ Write \/ Clear \/ Shutdown \/ Crash \/ Rot

Spec == Init /\ [][Next]_walVars

-----------------------------------------------------------------------------
\* Every variable has its type: segments are whole sequences of cells, and the
\* writer only ever points at a segment that exists or at the next one.
TypeOK ==
    /\ DOMAIN logs \subseteq 1 .. MaxLog
    /\ \A n \in DOMAIN logs : logs[n] \in LogSegment
    /\ mem_table \in Table
    /\ max_wal_file_size \in LogLimits
    /\ write_path \in 0 .. MaxLog + 1
    /\ next_sequence \in Nat
    /\ recovery_result \in [clean : BOOLEAN, segment : 0 .. MaxLog,
                            last_clean_offset : Nat]
    /\ op \in Op \cup {NoOp}
    /\ written_to \in 0 .. MaxLog
    /\ log_phase \in LogPhase

=============================================================================
