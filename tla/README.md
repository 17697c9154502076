# Verification of IztaDB

IztaDB is an LSM key-value store: a memtable, a write-ahead log (WAL) of numbered segments, a directory
of numbered SSTables, and one class that drives them from a single thread. This directory holds TLA+
models of all four and of what is inside the files, TLC configurations that check them on small
instances, and TLAPS proofs, for every instance, about the SSTable directory, the SSTable file, the way of a
record through both kinds of files, the log, and the database that they make together. Paths below are
relative to the repository; `iztadb.cpp` is `src/iztadb.cpp`.

## The system

| component | state | operations | who calls it |
|---|---|---|---|
| `MemTable` | `std::map<string, Entry>` | `put`, `remove`, `get`, `get_map` | `IztaDB`, `LogReader` |
| `LogWriter` | `write_path`, `next_sequence`, `latest_segment_num` | constructor, `write_record` (append, rotate, CLOSE) | `IztaDB::put/remove`, constructor, flush |
| `LogReader` | `RecoveryResult` | `restore_mem_table`, `restore_segment` | `IztaDB`'s constructor |
| `SSTableWriter` | `latest_segment_num`, `write_path` | constructor, `flush_mem_table`, `flush_map` | flush, compaction |
| `SSTableReader` | the file, its index | constructor (footer, index), `get`, `read_all_records` | `IztaDB::get`, load, compaction |
| `IztaDB` | the memtable, the writers, `sstable_readers` | constructor, `put`, `remove`, `get`, `maybe_flush`, `maybe_compact`, `compact`, `apply_recovery_result`, `load_sstables` | the client |

They share two directories. The WAL directory is written by `LogWriter`, read by `LogReader`, repaired by
`apply_recovery_result` and emptied by `maybe_flush`. The SSTable directory is written by `SSTableWriter`,
read by the readers, and cleaned by `compact`. There are no threads, locks or callbacks. What makes the
system hard is that the process may die between any two effects on the two directories and the next process
has only the files to go by; that in-memory copies of directory state (the writer's number, the vector of
readers, the active log path) go stale; and that failed writes are not noticed.

Correctness of each part:

- *SSTable directory*: what the files say changes only when a flush completes; a compaction changes nothing
  whatever step it stops at; complete files never change; a lookup through the readers agrees with the files;
  files do not pile up; every operation returns.
- *SSTable file*: a lookup answers what the map said that the file was written from, wherever block
  boundaries fall; `read_all_records` returns the map, in order; what the disk spoils is reported, or loses
  records, but is never answered with a record of another key.
- *Record*: a key and a value that fit the log's fields come back from the log, the memtable, the file and a
  compaction as they were written, whatever does not fit beside them.
- *WAL*: a restart replays a prefix of what was logged; what was acknowledged is not lost while rotation was
  not interrupted; an interrupted recovery repeats itself; the memtable is what the log would rebuild.
- *Database*: put and remove are atomic and durable, and a read sees what a restart would see.

`PROJECT.json` lists under `hazards` where each of these could go wrong, line by line.

## Modules

| module | models | state and actions |
|---|---|---|
| `Directory` | a directory of numbered files, `calculate_latest_segment` | operators only |
| `Entries` | `Entry`, the map held by memtable, flush, SSTable and merge | operators only: `Insert` (put/remove), `Fold` (compaction's merge), `Overlay` |
| `SSTables` | flush, load, compaction of the SSTable directory | `sst` (files), `tmp` (the `.sst.tmp`), `sstable_readers`, `latest_segment_num`, `compact()`'s locals, `phase` (where the thread is) |
| `FlushedMap` | abstract: a map that only a completed flush changes | `Begin`, `Commit`, `Abort` |
| `SSTablesInvariant` | the inductive invariant of `SSTables` | -- |
| `WAL` | log, memtable, recovery, rotation, clearing | `logs`, `mem_table`, the writer's members, `recovery_result`, `log_phase` |
| `DurableTable` | abstract: a memtable that outlives the process, until a flush makes it useless | `Open`, `Begin`, `Commit`, `Clear`, `Lose`, `Cleared`, `Stop` |
| `WALTable` | `WAL` seen as a `DurableTable`; the invariant of that refinement | -- |
| `WALHistory` | `WALTable` with an observer of what clients know to be logged; the inductive invariant of the two | `history`, `pending`, `died` |
| `SSTableFile` | one file: `flush_map`, `close_block`, the index, `find_block`, `scan_records`, `read_all_records`, spoiled bytes | `records`, `todo` (the loop), `block_buffer`, `index_entries`, the counters, `blocks` and `index_block` (the file), `loaded` (the reader's index) |
| `SSTableFileInvariant` | the inductive invariant of `SSTableFile` | -- |
| `WALRecord` | what `strncpy` puts into the fields of a log record, what recovery reads out of them | operators only |
| `RecordPath` | the composition of the two: log, memtable, restarts, flush, file, compaction of that file | the variables of `SSTableFile`, `wal`, `mem_table`, `acknowledged` (an observer), `misled` |
| `IztaDB` | the composition: the constructor, put, remove, get, compact | the variables of `SSTables` and `WAL`, and `call` |
| `KVStore` | abstract: a durable map with one operation at a time | `Start`, `Begin`, `Commit`, `Stop` |
| `MCSSTables`, `MCWAL`, `MCIztaDB`, `MCRecordPath` | instances for TLC (symmetry of keys, where keys are not ordered) | -- |
| `DirectoryProofs`, `SSTablesProofs`, `SSTableFileProofs`, `RecordPathProofs`, `LogProofs`, `WALProofs`, `WALTableProofs`, `IztaDBProofs` | proofs | -- |

A step is one effect on the file system, or a decision of the client. In `SSTables`, a compaction is
`CompactBegin` (inputs and output number), `MergeNext` per input, `CompactWrite` (readers released, `.tmp`
written), `CompactRename`, `CompactDelete` per input, `CompactReload`, `LoadNext` per file, `LoadDone`
(writer rebuilt). A flush is `FlushBegin` (the file is truncated or created under its final name) and
`FlushEnd`. In `WAL`, a put is `WriteBegin`, `AppendRecord`, `AppendClose` when the segment is full, `Apply`;
recovery is `Restore`, `Truncate`, `DropHigher` per segment, `OpenWriter`. `Crash` is enabled in every
phase and leaves what the interrupted effect may leave: a file that is a strict prefix, half a record.

`IztaDB` takes these actions as conjuncts (`S!FlushEnd`, `W!ClearNext`) and adds the order of `iztadb.cpp`:
log before memtable, flush before clearing the log, clearing before compaction. It also says what the
composition is made for: `Store` maps it to `KVStore`, and `Log` maps it to `DurableTable`, with the memtable
that is being flushed (`Buffered`) in the place of the memtable until its file is complete.

In `SSTableFile` a step is one turn of `flush_map`'s loop (`WriteRecord`, with `close_block` when the block
has outgrown `block_size`), the remaining block, the index; then the opening and closing of a reader, whose
lookups are operators. `RecordPath` takes its actions between those of the log: `Write` (put or remove),
`Restart` (the memtable rebuilt from the fields of the log), `Flush`, `OpenFile` (the log is cleared),
`Compact` over the file itself, which writes it anew without its tombstones, and `Spoil`.

`SSTables` takes a complete file for the map it was written from. That a file is no more and no less than
this is what `SSTableFile` shows; the two share `Entries` and meet in the README only, because a directory
of files with blocks would be too large to check and nothing in `SSTables` looks inside a file.

### Abstractions

- A table is a total function from keys to a value, a tombstone or nothing. A file is its table, or `Stub`
  (shorter than the footer) or `Torn` (longer, and the last four bytes are not the magic number). A torn file whose last bytes happen to be the magic
  number is not considered.
- On a `Stub`, `load_footer`'s seek fails and an uninitialized variable is compared with the magic number:
  the model lets the reader refuse the file or come up with an empty index.
- A log segment is a sequence of cells; a cell is a good record, a CLOSE record, or one whose checksum does
  not hold. Sizes count in half records. When `calculate_next_sequence` reads an uninitialized or misplaced
  number, it is any member of `Garbage`.
- In `SSTableFile`, `WALRecord` and `RecordPath` a key or value is the number of its bytes, as if it were a
  string of that many equal characters, none of them zero: such strings are ordered like their lengths and
  one is the beginning of the other, which is what truncation and overrun are about. Sizes of records,
  blocks and index entries are then exact.
- `lower_bound` on an index that is not in order (one entry was spoiled) may end at any place where the
  entry before is below the key and the entry there is not.
- The disk may spoil a block, or one field of one index entry, which then holds any key, or the offset or
  the size of some entry. A spoiled length field, which would shift all that follows, is not considered, nor
  is a size below the four bytes of the checksum, on which `verify_and_read_block` copies from before its
  buffer. A block read at a wrong offset or size fails its checksum: no two byte ranges share one.
- A field of a log record that `strncpy` filled to its end has no terminator; the string read from it goes
  on with the next field, and past the last one with `Overrun` bytes of whatever follows in memory.
- `write_index` is declared to return a number and returns nothing; nobody reads it, and the model takes it
  for a procedure.
- `NameLess` compares `{:06d}` names as strings do: a number of seven digits compares as a tenth of itself.
- Not modelled: power loss (the code never syncs, and the models assume that what was written before a crash
  of the process is in the file), exceptions of `rename`, `remove` and `directory_iterator`, foreign files in
  the two directories, a `.tmp` file left by a crash (nothing reads it), counters near 2^31, strings with
  zero bytes in them (the log drops what follows the first one), `main.cpp`, which builds one database and
  prints a path, and the benchmarks, which keep no state of their own.

## Runs

| run | module | asks | bounds |
|---|---|---|---|
| `sst_crash` | `MCSSTables` | refinement of `FlushedMap`, immutability, lookups, what compaction leaves, the invariant of the proofs, with crashes | 2 keys, 1 value, trigger 3, 5 segments |
| `sst_faults` | `MCSSTables` | files are removed only beside a newer one, complete ones overwritten only above a cut one, and a session misses files only at or above a cut one; every operation returns; all faults at once | 1 key, trigger 2, 5 segments |
| `wal_recovery` | `MCWAL` | recovery after crashes and spoiled records; what a restart would rebuild while a session writes; what a repair leaves at each of its steps; when a log becomes one that no constructor accepts; the invariants of the proofs | 1 key, 3 segments, 4 records, 2 records per segment |
| `wal_faults` | `MCWAL` | recovery when writes are cut short unnoticed and the limit changes between sessions | 1 key, 2 segments, 3 records, limits of 1 and 3 records |
| `record_path` | `MCRecordPath` | the file against the map it was written from, short keys from log to compaction, the invariants of the proofs, one spoiled block or index entry | keys of 0 to 5 bytes, of which clients write 1 to 3, values of 0 to 3, of which they write 1 and 2; fields of 2 bytes, 0 or 1 byte behind a record; 3 records; block sizes 0 and 24 |
| `db` | `MCIztaDB` | refinement of `KVStore` and, by the log beside the tables, of `DurableTable`; reads, log and memtable; the invariant of the proofs | 2 keys, threshold 2, trigger 2, 4 SSTables, one log segment |

The bounds reach the interesting cases. A trigger of 3 gives a compaction with a middle file; five numbers
give a compaction, a crash within it, and a second one over its leftovers. Two keys and one value tell apart
all that a fold can confuse: a value, a tombstone and nothing per file, for a key that moves with its
neighbour and one that does not. In `record_path` clients write keys below, at and above the size of the
field and the longest key that can be read back has 5 bytes; three records give up to three blocks with a
block size of 0, and a full block followed by another with 24. Two records per segment make every other put rotate. `db` keeps the log in
one segment because with several the refinement does not hold; run `db_clear` shows why.

Expected violations, each a disagreement between the code and what its documentation says (`findings` quotes
the lines):

| run | property | what happens |
|---|---|---|
| `sst_restart` | `RestartAccepted` | a crash during a flush leaves a torn `.sst`; from then on the constructor throws |
| `sst_order` | `LoadedInOrder` | past six digits, files are not loaded by number (`PadLimit` 4, `Radix` 2 scale this down) |
| `sst_short_merge` | `DeletedOnceMerged` | a merge cut short by a failing write is published and its inputs deleted |
| `wal_lost_close` | `AcknowledgedPersists` | a crash between a full segment's last record and its CLOSE makes a later recovery drop acknowledged records |
| `wal_resize` | `RecoversPrefix` | with a larger limit, records are appended behind a CLOSE and skipped by recovery |
| `db_clear` | `ClearKeepsContents` | while a log of several segments is removed, a restart replays an old record over the flushed one |

More came up in passing, at the edge of what the runs ask. `types.h:38` supports keys of "a maximum of 128
chars" and values of 256; at exactly that length the field has no terminator, and recovery reads a key with
its value's bytes behind it, or a value with whatever follows the record. `Kept` says what holds instead: a
value that fits its field is kept, and one that does not is kept until a restart reads the field and what lies
behind it in its place. The constructor gives its `SSTableWriter` a block size of 4096 and not its own `block_size` (`iztadb.cpp:38`), so
files flushed before the first compaction of a session ignore the setting; `BlockSizes` has both. A flush
that is cut short throws out of `put` when the reader is built (`iztadb.cpp:128`), after the old memtable was
given up, and the next flush that succeeds clears the log, which alone has its records.

When a compaction cannot open its `.tmp` file
and a file cut short by an earlier crash is refused on reopening, the session goes on with part of the
readers, and its next compaction no longer merges every file; `MissesOnlyAboveCut` says that it misses no file
below the cut one. And when a load throws at the end of a
compaction, the writer keeps its old number, and the next flush truncates the compacted file;
`OverwrittenOnlyAboveCut` says that this takes a file cut short beneath it. Both need two faults; the proofs name the condition that excludes them (`Reliable`).

### Fairness

Only `OperationsReturn` needs fairness: `WF_sstVars(Progress)` says that the single thread, once inside a
call, keeps running. Calls of the client and crashes are not fair. The database has no locks and waits for
nobody, so nothing stronger is needed, and the run checks it with every fault enabled.

`CHECK_DEADLOCK` stays on in every run.

## Proofs

Eight modules hold them. `DirectoryProofs` and `LogProofs` have lemmas about operators only, on a directory
of files and on the cells and segments of a log. `SSTablesProofs` (the directory), `SSTableFileProofs`,
`RecordPathProofs`, `WALProofs` (the log and what clients know of it) and `WALTableProofs` (the log as a
durable table) are about a component each, and `IztaDBProofs` puts the directory and the log together.

The theorems about `SSTables` hold for every finite set of keys, every set of values, every trigger, and
every `MaxSegment`, `PadLimit` and `Radix` that meet `SSTablesAssumption`. Those about `SSTableFile` hold for
all sets of numbers as keys, values and block sizes, those about `RecordPath` for all sizes of the fields as
well, provided that what an overrun reads is a key and a value of the instance (`PathAssumption`). Those
about the log hold for every finite set of keys, every set of values, limits and garbage, every number of
segments and records, and every set of faults, writes cut short unnoticed and limits that change included;
those from `LogHoldsHistory` to `CountInvHolds` assume `Steady` besides, and those of `WALTableProofs` assume
`Orderly`. All of them use `CellsAssumption`: a CLOSE record and a spoiled one are told from a record, by
their type byte and their checksum. Those about `IztaDB` hold for all of these constants together.

| theorem | module | says |
|---|---|---|
| `TypeCorrect` | `SSTablesProofs` | `Spec => []TypeOK`, whatever the faults |
| `InvariantHolds` | `SSTablesProofs` | `Spec => []IInv` |
| `Refinement` | `SSTablesProofs` | `Spec => RefinesFlushedMap`: every step maps to a step of `FlushedMap` or to none |
| `ImmutableHolds` | `SSTablesProofs` | no step changes a complete file |
| `SessionReadsHolds` | `SSTablesProofs` | a lookup through the readers answers what the files say |
| `CompactionFoldsAllHolds` | `SSTablesProofs` | a finished compaction leaves one file without tombstones |
| `FileCountBoundedHolds` | `SSTablesProofs` | after a flush, with the compaction it may lead to, or a finished compaction fewer files are left than the trigger |
| `FlushDecidesHolds` | `SSTablesProofs` | a flush folds its memtable into what the files say, and no other step changes that |
| `OutputOutlivesInputsHolds` | `SSTablesProofs` | a file is removed only beside a newer one, whatever the faults |
| `FileInvariantHolds` | `SSTableFileProofs` | `Spec => []IInv`: map, buffer, blocks and index agree |
| `LookupMatchesHolds` | `SSTableFileProofs` | a lookup in a file answers what the map said |
| `NothingMadeUpHolds` | `SSTableFileProofs` | not even a spoiled index gives a key another record |
| `ReadsAllInOrderHolds` | `SSTableFileProofs` | `read_all_records` returns the map, ascending |
| `BlocksSlightlyLargerHolds` | `SSTableFileProofs` | a block is closed by the first record that fills it |
| `PathInvariantHolds` | `RecordPathProofs` | `PathSpec => []PathInv`: log, memtable and file agree with what was acknowledged |
| `PathImplementsFile` | `RecordPathProofs` | `PathSpec => Spec`: the way of a record refines `SSTableFile` |
| `ShortKeysKeepTheirRecordHolds` | `RecordPathProofs` | a key that fits its field keeps its record; of a value that does not fit, what lies behind the field may be added |
| `TypeCorrect`, `InvariantHolds` | `WALProofs` | `HSpec => []TypeOK`, `HSpec => []IInv` |
| `RepairKeepsLogHolds` | `WALProofs` | a repair changes nothing of what is replayed and leaves nothing to repair |
| `RecoveryRepeatsHolds` | `WALProofs` | a recovery that was interrupted recovers the same again |
| `OnlyClearingStrandsHolds` | `WALProofs` | only an interrupted clearing leaves a log no constructor accepts |
| `LogHoldsHistory` | `WALProofs` | `HSpec => [](IInv /\ HistInv)`: the log holds what was acknowledged |
| `RecoversPrefixHolds` | `WALProofs` | a restart replays a prefix of what was logged |
| `SealedLogLosesNothingHolds` | `WALProofs` | a log whose full segments are closed loses nothing acknowledged |
| `RestartRebuildsHolds` | `WALProofs` | from such a log a restart would rebuild the memtable of the session that writes it |
| `ConsecutiveInSegmentHolds` | `WALProofs` | numbers count up by one within a segment |
| `CountInvHolds` | `WALProofs` | and the writer's next number goes on from there |
| `LogInvHolds` | `WALTableProofs` | `Spec => []LogInv`: the memtable is what a restart would rebuild, at every step |
| `RefinesDurableTableHolds` | `WALTableProofs` | `Spec => RefinesDurableTable`: segments, rotation and repair implement a durable table |
| `ControlInvHolds` | `IztaDBProofs` | while one part is in the middle of something the other waits, in every environment |
| `RefinesKVStoreHolds` | `IztaDBProofs` | `Spec => RefinesKVStore`: the database implements a durable map |
| `RefinesDurableTableHolds` | `IztaDBProofs` | the log beside the tables still implements a durable table |
| `DatabaseInvHolds` | `IztaDBProofs` | `Spec => []DatabaseInv`: the invariants of the parts hold in the composition |
| `TypeCorrect` | `IztaDBProofs` | `Spec => []TypeOK` |
| `GetReadsDiskHolds` | `IztaDBProofs` | a client reads what a restart would read |
| `LogIsMemTableHolds` | `IztaDBProofs` | between two calls the log replays to the memtable |

Those of `SSTablesProofs` but `TypeCorrect` and `OutputOutlivesInputsHolds` assume `Reliable`: no write is cut
short unnoticed; the process does not both crash and fail to open a `.tmp` file; and numbers stay below the
padding. Each clause excludes a behaviour the code really has: `sst_short_merge` shows the first and
`sst_order` the last, and the other is described above under the runs.

`Steady` says that no write to the log is cut short unnoticed and that every session uses the same
`max_wal_file_size`. A larger limit makes a session append behind a CLOSE record, which `wal_resize` shows; a
write cut short leaves records behind it that no reader reaches, and `wal_faults` checks what still holds then.

`Orderly` says that no write is cut short unnoticed, that nothing spoils a file, and that a crash and rotation
do not meet: either every record fits the first segment (`OneSegment`), or the process does not die and all
sessions use one limit. The clauses are what the code needs. A spoiled record is lost with all that follow;
`wal_resize` shows the changing limit. A crash between a full segment's last record and its CLOSE makes a
later recovery drop acknowledged records (`wal_lost_close`), and one during the clearing of several segments
replays old records over flushed ones (`db_clear`). The theorems that assume `OneSegment` cover the database as long as a flush comes before the
log rotates. No setting guarantees that, since overwriting a key lengthens the log and not the memtable, and
the defaults do not aim at it: `maybe_flush` compares the number of keys with `memtable_threshold` (by default
4 * 1024 * 1024, which `iztadb.h:52` calls bytes), while 32 MB of log hold some 85000 records of 393 bytes. So
a database with default settings that crashes with more than that in its log is outside of what is proved.
`Dependable` is `Reliable` and `Orderly`; every theorem of `IztaDBProofs` but two assumes it: `ControlInvHolds`
assumes nothing, and its `RefinesDurableTableHolds` only `Orderly`.

The argument. `TypeOK` alone is not inductive: a flush writes to the number after the cached one and a
compaction publishes under a number computed earlier, so `NumberingInv` keeps both in range and every reader
on a file that exists. `IInv` adds, phase by phase, what makes the safety properties true:

- `ReadersInv`, `WriterInv`: readers are in the order of their numbers and cover every file; the writer's
  number is no lower than any. This is where forgetting to rebuild the writer would break the proof.
- `FlushInv`: the file being written is above all others and nobody reads it.
- `MergeInv`, `PublishInv`: `merged` is what the files up to the position say, then what all of them say.
- `DeleteInv`: the output and the inputs not yet deleted say what the output says. Deleting oldest first
  preserves this (`ViewWithoutOldest`): either a newer file holds the key, or the output says the key is
  absent and so did the deleted file.
- `CompleteInv`: only a crash leaves a file cut short, so a compaction that gives up can reopen its inputs.

These facts are stated of `ViewOf`, what a set of files says, for any directory, and each step lemma cites
them. `FlushDecides` says of every step at once what the other parts of the database need to know: the files
say afterwards what they said before, with the flushed memtable folded in if a flush has just ended.

`IInv` of `SSTableFile` holds at every turn of `flush_map`'s loop: blocks lie one behind the other where the
index says (`LayoutInv`), each is an ascending piece of the map (`PieceInv`), its keys lie above the last key
of the block before and no higher than its own, and below what is still to come (`BoundaryInv`), and every
record is in a block, in the buffer or still to come (`CoverInv`). From these follow that `lower_bound` has
one place to end (`OneLowerBound`), that the only block that may hold the key is there, and that the first
record of it not below the key decides (`ScanFinds`). All but `ReaderInv` is about the writer and the bytes of
blocks, which nothing changes later: a spoiled block keeps its content in the model and loses its checksum.
`PathInv` adds that for a key shorter than its field the last record of the log is what was acknowledged
(`LogInv`): no longer key can be read back as a shorter one (`ShortKeyRead`). And that memtable, then file,
hold what is kept of it (`KeptInv`).

`IInv` of `WALHistory` says where the writer may point (`WriterInv`: at the latest segment or at the next, and
a CLOSE record goes to the latest), and what a repair relies on (`RepairInv`). The reader stops at the first
segment that is not clean. Everything before it ends in a CLOSE record, and nothing later in the repair
touches that, so the stop stays where it is (`StopSegmentIs`) while its segment is cut to the records already
replayed (`TruncateKeeps`) and the later ones go in any order (`DropKeeps`). What is replayed is a function of
those records only (`SameReplayed`), hence the same after a crash in between. A log is stranded when it has a
`Gap`: a missing segment below the latest with nothing before it that would stop the reader. An append goes to
the latest segment or right behind it, so it opens no gap; spoiling a record makes no segment end well; a
repair leaves a stop that exists.

`HistInv` relates the files to the observer's `history`. `Logged` reads every segment to its stop and joins
them; while a session writes, that is the history (`LoggedInv`), because the writer only appends to a segment
that can be read to its end (`TargetInv`) and never to a full one, and only full segments hold a CLOSE record
(`FullInv`, the clause that a changing limit breaks). A crash in the middle of an operation leaves its record
on the way, so what is logged is a prefix of the history and the operation `pending`. Cutting, spoiling and
removing segments only shortens what a reader gets, and `Replayed`, which also stops at the first segment that
is not clean, is a prefix of it. When every segment below the latest is sealed, the only place to stop is the
latest segment, and the two are equal (`SealedLog`). As the memtable is the history, folded, the restart that a
crash would lead to then rebuilds it, with the record under way once it is in the log (`RestartRebuilds`).
`CountInv` adds `NumberInv` to `ConsecutiveInSegment`:
where the writer will append, its number is the one behind the last record's.

`LogInv` of `WALTable` is what the log's refinement needs. Every segment is full and closed, or holds records
only and has room (`SegmentsInv`), except between a record and its CLOSE; but for clearing, all below the
latest are sealed (`SealedInv`), so a reader gets all of them; only half a record at the end is ever cut
(`CutInv`); the writer points where a new one would (`ActiveInv`). Then `Durable`, what a restart would
rebuild, changes by exactly the record appended: folding a log of any length is not an induction here,
because `TableOf` takes the last record of a key by its position, and a record more at the end is the last one
of its own key and leaves the others' (`TableOfAppend` of `LogProofs`).

The composition is proved from the theorems about its parts and not from their steps. A step of `IztaDB` is
a step of `SSTables` or leaves it alone (`TablesStep`); and with `Buffered` for the memtable it is a step of
`WAL` or leaves it alone (`LogStep`). The substitution is what makes the second true: `FlushBegin` moves the
memtable to `flushing`, which the log does not notice; a flush that fails puts back what was there; and when a
flush ends, the log sees its memtable go and clearing begin. So `Spec` implies the specification of the log
(`LogImplemented`), hence what is proved of it; that gives the memtable its type, which the directory needs to
be handed (`MemTableTyped`); so `Spec` implies the specification of the directory as well (`TablesImplemented`).
Two invariants tie the parts together. `ControlInv` says where each waits while the other works. `ClearInv`
says that what a log half cleared replays is in the files already: it holds when the flush ends, because what
the log replays is what was flushed, and a removal of the only segment leaves nothing to replay. From these,
`StoreHolds` shows that in every phase memory and disk are two views of one map: the files with the log's
table folded in, or the files alone while the log is being cleared. Appending a record changes it by that
record (`AppendCommits`), and no other step changes it (`MapKept`): a flush moves the table from one side of
the fold to the other, a compaction leaves what the files say alone, a recovery what the log replays. The
refinement of `KVStore` is these two lemmas, and reads (`GetReadsDisk`) follow from `SessionReads`.

Run `sst_crash` checks `IInv` of `SSTables`, `record_path` that of `SSTableFile` and `PathInv`, `wal_recovery`
that of `WALHistory`, `HistInv` and `CountInv`, and `db` checks `DatabaseInv`, with `LogInv` and `ControlInv` in
it, on a log of one segment. The case of `Orderly` in which the log rotates and no process dies is proved and
not checked by a run: `wal_recovery` rotates, but with crashes.

Model-checked only: `OperationsReturn`, which is liveness under fairness and out of the prover's reach;
`OverwrittenOnlyAboveCut` and `MissesOnlyAboveCut` of `SSTables`; `RecoversInOrder` of `WALHistory`, about writes cut short; and the six
violations. What the database does in environments that are not `Dependable` is not stated of `IztaDB` at
all, but for `ControlInv`; what its parts do there is (`sst_faults`, `wal_faults`).

## Plan

Done, in this order: `SSTables` with `FlushedMap`; `WAL` with its history; `IztaDB` with `KVStore`; the
proofs about `SSTables`; `SSTableFile`, `WALRecord` and `RecordPath` with their proofs; the proofs about
`WAL`; `DurableTable` and the proofs about the log as one; the proofs about `IztaDB`. To come:

1. `SSTables`: `OverwrittenOnlyAboveCut` and `MissesOnlyAboveCut`, in every environment.
2. `WAL`: `RecoversInOrder`, in every environment.
3. `SSTables`: what still refines `FlushedMap` when a `.tmp` file cannot be opened and the process may crash.
