------------------------------- MODULE IztaDB -------------------------------
(***************************************************************************)
(* The database: IztaDB's public operations, composed of the steps of WAL  *)
(* and SSTables in the order iztadb.cpp makes them.  One thread runs; a    *)
(* crash ends it between any two effects on the file system.               *)
(***************************************************************************)
EXTENDS Entries, Sequences

CONSTANTS memtable_threshold,
          OpenFailures,  \* whether opening the file of a flush may fail
          compaction_trigger, Faults, MaxSegment, PadLimit, Radix,
          Stub, Torn, NoFile,
          LogLimits, LogFaults, Garbage, MaxLog, MaxLogged, Close, Corrupt

ASSUME IztaDBAssumption ==
    memtable_threshold \in Nat /\ OpenFailures \in BOOLEAN

\* What SSTables and WAL assume of the constants, which are theirs.
ASSUME TablesAssumption ==
    /\ compaction_trigger \in Nat
    /\ Faults \subseteq {"crash", "tmp_open", "short_write"}
    /\ MaxSegment \in Nat /\ PadLimit \in Nat /\ Radix \in Nat
    /\ Radix > 1
    /\ MaxSegment < Radix * PadLimit
    /\ {Stub, Torn, NoFile} \cap Table = {}
    /\ Stub # Torn /\ Stub # NoFile /\ Torn # NoFile

ASSUME LogAssumption ==
    /\ LogLimits \subseteq Nat \ {0}
    /\ LogFaults \subseteq {"crash", "rot", "short_write"}
    /\ Garbage \subseteq Nat
    /\ MaxLog \in Nat /\ MaxLogged \in Nat
    /\ Close # Corrupt
    /\ {Close, Corrupt} \cap [op : [key : Key, entry : Entry], seq : Nat] = {}

VARIABLES sst, tmp, sstable_readers, latest_segment_num, flushing, inputs,
          output_segment, merged, next, phase,
          logs, mem_table, max_wal_file_size, write_path, next_sequence,
          recovery_result, op, written_to, log_phase,
          call  \* the operation of the client that is under way

S == INSTANCE SSTablesInvariant
W == INSTANCE WALTable

sstVars == <<sst, tmp, sstable_readers, latest_segment_num, flushing, inputs,
             output_segment, merged, next, phase>>
walVars == <<logs, mem_table, max_wal_file_size, write_path, next_sequence,
             recovery_result, op, written_to, log_phase>>

vars == <<sstVars, walVars, call>>

\* The WAL but for the named variables.
walRest == <<logs, max_wal_file_size, write_path, next_sequence,
             recovery_result, op, written_to>>

Ready == phase = "idle" /\ log_phase = "idle"

Init == S!Init /\ W!Init /\ call = "none"

-----------------------------------------------------------------------------
(* The constructor: WAL first, then the writer and the readers.            *)

RecoverLog ==
    /\ phase = "down"
    /\ W!Recovery
    /\ UNCHANGED <<sstVars, call>>

OpenTables ==
    /\ log_phase = "idle"
    /\ S!Open
    /\ UNCHANGED <<walVars, call>>

LoadTable ==
    /\ S!LoadNext
    /\ UNCHANGED <<walVars, call>>

\* The exception ends the constructor, and with it the memtable and the log
\* writer, or the call that led to the compaction.
LoadThrows ==
    /\ S!LoadThrows
    /\ IF phase = "load" THEN W!SessionEnds ELSE UNCHANGED <<mem_table, log_phase,
            write_path, next_sequence, recovery_result, op, written_to>>
    /\ call' = "none"
    /\ UNCHANGED <<logs, max_wal_file_size>>

\* The constructor or the compaction returns.
LoadDone ==
    /\ S!LoadDone
    /\ call' = "none"
    /\ UNCHANGED walVars

-----------------------------------------------------------------------------
(* put and remove.                                                         *)

\* Bound: there is a number for the file this write may flush to.
WriteCall(k, e) ==
    /\ Ready /\ call = "none"
    /\ S!Room
    /\ W!WriteBegin(k, e)
    /\ call' = "write"
    /\ UNCHANGED sstVars

LogWrite ==
    /\ W!AppendRecord \/ W!AppendClose \/ W!Apply
    /\ UNCHANGED <<sstVars, call>>

\* The write is in the memtable: maybe_flush looks at its size.
Written == Ready /\ call = "write"

BelowThreshold == MapSize(mem_table) < memtable_threshold

NoFlush ==
    /\ Written
    /\ BelowThreshold
    /\ call' = "none"
    /\ UNCHANGED <<sstVars, walVars>>

\* Mistaken: the log is cleared while the file is still being written.
FlushBeginClearing ==
    /\ Written
    /\ ~BelowThreshold
    /\ S!FlushBegin(mem_table)
    /\ mem_table' = EmptyTable
    /\ log_phase' = "clear"
    /\ UNCHANGED <<walRest, call>>

\* A fresh memtable is swapped in, the old one is written to a new file.
FlushBegin ==
    /\ Written
    /\ ~BelowThreshold
    /\ S!FlushBegin(mem_table)
    /\ mem_table' = EmptyTable
    /\ UNCHANGED <<walRest, log_phase, call>>

\* flush_map cannot open the file: the old memtable's records are put back
\* into the fresh one.
FlushFails ==
    /\ OpenFailures
    /\ Written
    /\ ~BelowThreshold
    /\ mem_table' = Overlay(EmptyTable, mem_table)
    /\ call' = "none"
    /\ UNCHANGED <<sstVars, walRest, log_phase>>

\* Mistaken: the log is not cleared.
FlushEndKeepingLog ==
    /\ S!FlushEnd
    /\ UNCHANGED <<walVars, call>>

\* The file is complete and open for reading: the log is cleared next.
FlushEnd ==
    /\ S!FlushEnd
    /\ log_phase' = "clear"
    /\ UNCHANGED <<walRest, mem_table, call>>

ClearLog ==
    /\ W!ClearNext \/ W!ClearDone
    /\ UNCHANGED <<sstVars, call>>

\* maybe_compact.
NoCompaction ==
    /\ log_phase = "idle"
    /\ S!NoCompaction
    /\ call' = "none"
    /\ UNCHANGED walVars

-----------------------------------------------------------------------------
(* compact, called by maybe_compact or by the client.                      *)

CompactBegin ==
    /\ log_phase = "idle"
    /\ phase = "flushed" \/ call = "none"
    /\ S!CompactBegin
    /\ call' = IF call = "none" THEN "compact" ELSE call
    /\ UNCHANGED walVars

Compact ==
    /\ \/ S!MergeNext \/ S!CompactWrite \/ S!CompactWriteFails
       \/ S!CompactRename \/ S!CompactDelete \/ S!CompactReload
    /\ UNCHANGED <<walVars, call>>

-----------------------------------------------------------------------------
Destroy ==
    /\ Ready /\ call = "none"
    /\ S!Destroy
    /\ W!Shutdown
    /\ UNCHANGED call

Crash ==
    /\ W!Crash
    /\ IF phase = "down" THEN UNCHANGED sstVars ELSE S!Crash
    /\ call' = "none"

Progress ==
    \/ OpenTables \/ LoadTable \/ LoadThrows \/ LoadDone
    \/ (phase = "down" /\ log_phase # "down" /\ RecoverLog)
    \/ LogWrite \/ NoFlush \/ FlushBegin \/ FlushFails \/ FlushEnd \/ ClearLog
    \/ NoCompaction \/ (phase = "flushed" /\ CompactBegin) \/ Compact

Call ==
    \/ (phase = "down" /\ log_phase = "down" /\ RecoverLog)
    \/ \E k \in Key, e \in Entry : WriteCall(k, e)
    \/ (phase = "idle" /\ CompactBegin)
    \/ Destroy \/ Crash

Next == Progress \/ Call

Spec == Init /\ [][Next]_vars

-----------------------------------------------------------------------------
\* What a restart would find, from the files alone: the memtable replayed from
\* the log over the SSTables.  (ops is bound so that TLC replays the log once.)
OnDisk ==
    CHOOSE m \in {Fold(S!View(sst), W!TableOf(ops)) : ops \in {W!Replayed(logs)}}:
        TRUE

\* What the process knows: its memtable, with the record it has just logged,
\* over the one it is flushing, over the SSTables.
Logged == log_phase \in {"close", "apply"}
InMemory ==
    Fold(Fold(S!View(sst), flushing),
         IF Logged THEN Insert(mem_table, op.key, op.entry) ELSE mem_table)

\* Mistaken: a tombstone in the memtable does not hide what is below.
GetBelowTombstone(k) ==
    IF mem_table[k] \in Value THEN mem_table[k] ELSE S!ReadersGet(k)

\* IztaDB::get: the memtable first, then the readers from newest to oldest.
Get(k) ==
    IF mem_table[k] # Absent THEN Live(mem_table[k]) ELSE S!ReadersGet(k)

\* Each component's variables have their types, whatever the other does; a call
\* is under way exactly while the thread is away from the client.
TypeOK ==
    /\ S!TypeOK /\ W!TypeOK
    /\ call \in {"none", "write", "compact"}
    /\ call # "none" => phase # "down" /\ log_phase # "down"

Store == INSTANCE KVStore WITH
    map <- IF log_phase = "down" THEN OnDisk ELSE InMemory,
    pending <- IF log_phase = "append" THEN op ELSE W!NoOp,
    running <- Ready \/ call # "none"

\* The database implements the durable map: an operation takes effect once and
\* completely before it returns, and its effect outlives flush, clearing of the
\* log, compaction, recovery and a crash at any point of each.
RefinesKVStore == Store!Spec

\* A client reads what a restart at this moment would read.
GetReadsDisk == Ready /\ call = "none" => \A k \in Key : Get(k) = OnDisk[k]

\* Between two calls the log holds exactly the memtable: nothing that was
\* flushed is still in it, and nothing that is in memory is missing from it.
LogIsMemTable ==
    Ready /\ call = "none" => W!TableOf(W!Replayed(logs)) = mem_table

-----------------------------------------------------------------------------
(* How the log sees a flush, and the invariant of the composition.         *)

\* The records the log must keep: during a flush, those being flushed.
Buffered == IF phase = "flush" THEN flushing ELSE mem_table

Log == INSTANCE WALTable WITH mem_table <- Buffered

\* The environments in which the composition is a durable map: those in which
\* the directory of SSTables and the log each keep their promise.
Dependable == S!Reliable /\ W!Orderly

\* To the log a flush is a memtable that lasts a little longer: put, flush and
\* clearing together keep the promise that WALTable shows for the log alone.
RefinesDurableTable == Log!RefinesDurableTable

\* One thread: while one part of the database is in the middle of something,
\* the other waits where the constructor or the call has left it.
ControlInv ==
    /\ log_phase \in {"down", "truncate", "drop", "open"} => phase = "down"
    /\ log_phase \in {"append", "close", "apply"} => phase = "idle"
    /\ log_phase = "clear" => phase = "flushed"
    /\ phase = "down" =>
          log_phase \in {"down", "truncate", "drop", "open", "idle"}
    /\ phase \in {"down", "load"} <=> ~(Ready \/ call # "none")
    /\ log_phase \in {"append", "close", "apply"} => call = "write"
    /\ phase \in {"flush", "flushed"} => call = "write"
    /\ phase \notin {"down", "load", "idle"} => call # "none"
    /\ call = "compact" => phase \in {"merge", "publish", "delete", "reload", "reopen"}
    /\ phase = "flush" => mem_table = EmptyTable /\ flushing # EmptyTable
    /\ phase \in S!Phase /\ log_phase \in W!LogPhase
    /\ call \in {"none", "write", "compact"}

\* While a log of one segment is being cleared, what it still replays is in the
\* SSTables already.
ClearInv ==
    log_phase = "clear" /\ W!OneSegment => Fold(S!View(sst), W!Durable) = S!View(sst)

DatabaseInv == S!IInv /\ Log!LogInv /\ ControlInv /\ ClearInv

-----------------------------------------------------------------------------
(* What the documentation says and the code does not do.                   *)

\* A flushed record is in the SSTable before its log goes: no removal of a
\* segment changes what a restart would find.
ClearKeepsContents == [][phase = "flushed" => OnDisk' = OnDisk]_vars

=============================================================================
