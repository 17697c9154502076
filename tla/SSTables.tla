----------------------------- MODULE SSTables -----------------------------
(***************************************************************************)
(* The directory of SSTables and everything that changes it: the flush of  *)
(* a memtable (IztaDB::maybe_flush, SSTableWriter), the compaction         *)
(* (IztaDB::compact) and the loading of the files (IztaDB::load_sstables,  *)
(* SSTableReader), one step per effect on the file system, with the        *)
(* process crashing between any two of them.                               *)
(*                                                                         *)
(* A file is its content: a Table when it is complete, Stub when it is     *)
(* shorter than the footer, Torn when it is longer than that but has no    *)
(* footer at its end.  What a complete file's bytes are, blocks, checksums *)
(* and index, is left out here.                                            *)
(***************************************************************************)
EXTENDS Entries, Directory, Sequences

CONSTANTS compaction_trigger, \* constructor parameter, 0 turns compaction off
          Faults,             \* the faults the environment may cause
          MaxSegment,         \* bound: the highest segment number explored
          PadLimit,           \* 10^6: the first number {:06d} does not pad
          Radix,              \* 10: how much longer names are from there on
          Stub, Torn, NoFile  \* contents that are no Table

ASSUME SSTablesAssumption ==
    /\ compaction_trigger \in Nat
    /\ Faults \subseteq {"crash", "tmp_open", "short_write"}
    /\ MaxSegment \in Nat /\ PadLimit \in Nat /\ Radix \in Nat
    /\ Radix > 1
    /\ MaxSegment < Radix * PadLimit
    /\ {Stub, Torn, NoFile} \cap Table = {}
    /\ Stub # Torn /\ Stub # NoFile /\ Torn # NoFile

VARIABLES sst,                \* segment number -> content, the .sst files
          tmp,                \* content of the .sst.tmp of this compaction
          sstable_readers,    \* the segments open for reading, oldest first
          latest_segment_num, \* SSTableWriter's cached number
          flushing,           \* the records flush_map is writing to a flush
          inputs,             \* compact()'s local variables:
          output_segment,     \*   inputs, output_segment, merged and the
          merged,             \*   position of the loop it is in
          next,
          phase               \* where the single thread is

sessionVars == <<sstable_readers, latest_segment_num, flushing>>
mergeVars == <<inputs, output_segment, merged>>
compactVars == <<tmp, mergeVars, next>>
sstVars == <<sst, sessionVars, compactVars, phase>>

Segment == 1 .. MaxSegment
Content == Table \cup {Stub, Torn}
Phase == {"down", "load", "idle", "flush", "flushed", "merge", "publish",
          "delete", "reload", "reopen"}

-----------------------------------------------------------------------------
(* The directory.                                                          *)

\* Mistaken: newest first.
NameGreater(a, b) == a > b

\* std::sort orders paths as strings.  Numbers of six digits or less are
\* padded to six, so they compare as numbers; a number of seven digits
\* compares as ten times the shorter ones.
Scaled(n) == IF n < PadLimit THEN n * Radix ELSE n
NameLess(a, b) ==
    \/ Scaled(a) < Scaled(b)
    \/ Scaled(a) = Scaled(b) /\ a < b

Opened == {sstable_readers[i] : i \in DOMAIN sstable_readers}

\* The readers that answer FOUND or DELETED for k among the files S of dir.
Holders(dir, S, k) == {n \in S : dir[n] \in Table /\ dir[n][k] # Absent}

\* The value of each key when the higher numbered file has the more recent
\* data (DESIGN.md:60).
ViewOf(dir, S) ==
    [k \in Key |->
        IF Holders(dir, S, k) = {} THEN Absent
        ELSE Live(dir[Newest(Holders(dir, S, k))][k])]

View(dir) == ViewOf(dir, DOMAIN dir)

\* The part of IztaDB::get that searches the files: readers are asked from the
\* last to the first, and the first to answer decides.
ReadersGet(k) ==
    LET hits == {i \in DOMAIN sstable_readers :
                    k \in Key /\ sst[sstable_readers[i]] \in Table
                              /\ sst[sstable_readers[i]][k] # Absent}
    IN  IF hits = {} THEN Absent
        ELSE Live(sst[sstable_readers[Newest(hits)]][k])

-----------------------------------------------------------------------------
Init ==
    /\ sst = [n \in {} |-> Stub]
    /\ tmp = NoFile
    /\ sstable_readers = << >>
    /\ latest_segment_num = 0
    /\ flushing = EmptyTable
    /\ inputs = << >>
    /\ output_segment = 0
    /\ merged = EmptyTable
    /\ next = 1
    /\ phase = "down"

\* compact()'s locals go out of scope.
CompactReturns ==
    /\ tmp' = NoFile
    /\ inputs' = << >>
    /\ output_segment' = 0
    /\ merged' = EmptyTable
    /\ next' = 1

-----------------------------------------------------------------------------
(* Opening: the constructor builds the writer first, then loads the files. *)

Open ==
    /\ phase = "down"
    /\ latest_segment_num' = LatestSegment(sst)
    /\ phase' = "load"
    /\ UNCHANGED <<sst, sstable_readers, flushing, compactVars>>

Loading == phase \in {"load", "reload", "reopen"}

Unopened == DOMAIN sst \ Opened

\* The file load_sstables opens next.
NextToOpen(n) ==
    /\ Loading
    /\ n \in Unopened
    /\ \A m \in Unopened \ {n} : NameLess(n, m)

\* SSTableReader's constructor accepts the file.  A Stub is shorter than the
\* footer: the seek before its start fails, the magic number compared is an
\* uninitialized variable, and if that happens to hold kMagic the reader comes
\* up with an empty index.
LoadNext ==
    /\ \E n \in Unopened :
          /\ NextToOpen(n)
          /\ sst[n] # Torn
          /\ sstable_readers' = Append(sstable_readers, n)
    /\ UNCHANGED <<sst, latest_segment_num, flushing, compactVars, phase>>

\* SSTableReader's constructor throws.  Out of IztaDB's constructor there is no
\* database; out of compact() it reaches the client, and the session goes on
\* with the readers opened so far and the writer it had.
LoadThrows ==
    /\ \E n \in Unopened : NextToOpen(n) /\ sst[n] \notin Table
    /\ IF phase = "load"
       THEN phase' = "down" /\ sstable_readers' = << >>
                            /\ latest_segment_num' = 0
       ELSE phase' = "idle" /\ UNCHANGED <<sstable_readers, latest_segment_num>>
    /\ CompactReturns
    /\ UNCHANGED <<sst, flushing>>

\* Mistaken: the writer is never rebuilt after a compaction.
LoadDoneKeepingWriter ==
    /\ Loading
    /\ Unopened = {}
    /\ phase' = "idle"
    /\ CompactReturns
    /\ UNCHANGED <<sst, sessionVars>>

\* Every file is open.  After a compaction the writer is rebuilt, since the
\* number it cached is stale; when the compaction gave up it is not.
LoadDone ==
    /\ Loading
    /\ Unopened = {}
    /\ latest_segment_num' =
          IF phase = "reload" THEN LatestSegment(sst) ELSE latest_segment_num
    /\ phase' = "idle"
    /\ CompactReturns
    /\ UNCHANGED <<sst, sstable_readers, flushing>>

-----------------------------------------------------------------------------
(* Flushing a memtable.                                                    *)

\* The segment flush_mem_table writes to: write_path.
Target == latest_segment_num + 1

\* Bound: a flush, and the compaction it may lead to, need one number each.
Room == LatestSegment(sst) + 2 <= MaxSegment /\ Target < MaxSegment

\* flush_map opens the file under its final name, which truncates it.
FlushBegin(t) ==
    /\ phase = "idle"
    /\ Room
    /\ t # EmptyTable
    /\ sst' = WithFile(sst, Target, Stub)
    /\ flushing' = t
    /\ phase' = "flush"
    /\ UNCHANGED <<sstable_readers, latest_segment_num, compactVars>>

\* The footer is written and the file closed; maybe_flush opens a reader on it.
FlushEnd ==
    /\ phase = "flush"
    /\ sst' = WithFile(sst, Target, flushing)
    /\ latest_segment_num' = Target
    /\ sstable_readers' = Append(sstable_readers, Target)
    /\ flushing' = EmptyTable
    /\ phase' = "flushed"
    /\ UNCHANGED compactVars

\* A write fails, which nothing checks: flush_map returns true over a file cut
\* short.  The reader's constructor throws out of put(), or takes a Stub for an
\* empty file.
FlushShort ==
    /\ "short_write" \in Faults
    /\ phase = "flush"
    /\ \E c \in {Stub, Torn} :
          /\ sst' = WithFile(sst, Target, c)
          /\ \/ phase' = "idle" /\ UNCHANGED sstable_readers
             \/ /\ c = Stub
                /\ phase' = "flushed"
                /\ sstable_readers' = Append(sstable_readers, Target)
    /\ latest_segment_num' = Target
    /\ flushing' = EmptyTable
    /\ UNCHANGED compactVars

\* Mistaken: compaction waits for one file too many.
TriggerPassed ==
    compaction_trigger # 0 /\ Len(sstable_readers) > compaction_trigger

\* maybe_compact, reached at the end of every successful flush.
TriggerReached ==
    compaction_trigger # 0 /\ Len(sstable_readers) >= compaction_trigger

NoCompaction ==
    /\ phase = "flushed"
    /\ ~TriggerReached
    /\ phase' = "idle"
    /\ UNCHANGED <<sst, sessionVars, compactVars>>

-----------------------------------------------------------------------------
(* Compaction.                                                             *)

\* compact(): called by maybe_compact, or by the client.
CompactBegin ==
    /\ \/ phase = "flushed" /\ TriggerReached
       \/ phase = "idle"
    /\ sstable_readers # << >>
    /\ LatestSegment(sst) < MaxSegment
    /\ inputs' = sstable_readers
    /\ output_segment' = LatestSegment(sst) + 1
    /\ merged' = EmptyTable
    /\ next' = 1
    /\ phase' = "merge"
    /\ UNCHANGED <<sst, tmp, sessionVars>>

\* One iteration of the merge loop: read_all_records of one reader.
MergeNext ==
    /\ phase = "merge"
    /\ next <= Len(sstable_readers)
    /\ LET c == sst[sstable_readers[next]]
       IN  /\ c # Torn
           /\ merged' = IF c = Stub THEN merged ELSE Fold(merged, c)
    /\ next' = next + 1
    /\ UNCHANGED <<sst, tmp, sessionVars, inputs, output_segment, phase>>

\* read_all_records throws on a block whose checksum does not match: the file
\* was overwritten after this reader loaded its index.
Overwritten(i) ==
    \/ sst[sstable_readers[i]] \notin Table
    \/ \E j \in DOMAIN sstable_readers \ {i} :
          sstable_readers[j] = sstable_readers[i]

MergeThrows ==
    /\ "short_write" \in Faults
    /\ phase = "merge"
    /\ next <= Len(sstable_readers)
    /\ Overwritten(next)
    /\ phase' = "idle"
    /\ CompactReturns
    /\ UNCHANGED <<sst, sessionVars>>

Merged == phase = "merge" /\ next > Len(sstable_readers)

\* The readers are released and the merged map is written to the .tmp file,
\* which no load and no numbering looks at.
CompactWrite ==
    /\ Merged
    /\ sstable_readers' = << >>
    /\ \/ tmp' = merged
       \/ "short_write" \in Faults /\ tmp' \in {Stub, Torn}
    /\ phase' = "publish"
    /\ UNCHANGED <<sst, latest_segment_num, flushing, mergeVars, next>>

\* Mistaken: the readers that were released are not opened again.
CompactWriteGivesUp ==
    /\ "tmp_open" \in Faults
    /\ Merged
    /\ sstable_readers' = << >>
    /\ phase' = "idle"
    /\ CompactReturns
    /\ UNCHANGED <<sst, latest_segment_num, flushing>>

\* The .tmp file cannot be opened: compact() reopens the inputs, returns false.
CompactWriteFails ==
    /\ "tmp_open" \in Faults
    /\ Merged
    /\ sstable_readers' = << >>
    /\ phase' = "reopen"
    /\ UNCHANGED <<sst, latest_segment_num, flushing, compactVars>>

CompactRename ==
    /\ phase = "publish"
    /\ sst' = WithFile(sst, output_segment, tmp)
    /\ tmp' = NoFile
    /\ next' = 1
    /\ phase' = "delete"
    /\ UNCHANGED <<sessionVars, mergeVars>>

\* Mistaken: newest first.
DeleteNewestFirst ==
    /\ phase = "delete"
    /\ next <= Len(inputs)
    /\ sst' = WithoutFile(sst, inputs[Len(inputs) + 1 - next])
    /\ next' = next + 1
    /\ UNCHANGED <<tmp, sessionVars, mergeVars, phase>>

\* Mistaken: the loop does not advance.
DeleteForever ==
    /\ phase = "delete"
    /\ next <= Len(inputs)
    /\ sst' = WithoutFile(sst, inputs[next])
    /\ UNCHANGED <<tmp, sessionVars, compactVars, phase>>

\* Inputs are removed one by one, oldest first.
CompactDelete ==
    /\ phase = "delete"
    /\ next <= Len(inputs)
    /\ sst' = WithoutFile(sst, inputs[next])
    /\ next' = next + 1
    /\ UNCHANGED <<tmp, sessionVars, mergeVars, phase>>

CompactReload ==
    /\ phase = "delete"
    /\ next > Len(inputs)
    /\ phase' = "reload"
    /\ UNCHANGED <<sst, sessionVars, compactVars>>

-----------------------------------------------------------------------------
(* The end of a session: the files are all that is left.                   *)

SessionEnds ==
    /\ phase' = "down"
    /\ sstable_readers' = << >>
    /\ latest_segment_num' = 0
    /\ flushing' = EmptyTable
    /\ CompactReturns

Destroy ==
    /\ phase = "idle"
    /\ SessionEnds
    /\ UNCHANGED sst

\* The process dies.  A flush leaves any strict prefix of its file.
Crash ==
    /\ "crash" \in Faults
    /\ phase # "down"
    /\ SessionEnds
    /\ IF phase = "flush"
       THEN \E c \in {Stub, Torn} : sst' = WithFile(sst, Target, c)
       ELSE UNCHANGED sst

-----------------------------------------------------------------------------
\* What the thread goes on with by itself once a call is made.
Progress ==
    \/ LoadNext \/ LoadThrows \/ LoadDone
    \/ FlushEnd \/ FlushShort \/ NoCompaction
    \/ phase = "flushed" /\ CompactBegin
    \/ MergeNext \/ MergeThrows \/ CompactWrite \/ CompactWriteFails
    \/ CompactRename \/ CompactDelete \/ CompactReload

\* What a client, or the environment, decides.
Call ==
    \/ Open
    \/ \E t \in Table : FlushBegin(t)
    \/ phase = "idle" /\ CompactBegin
    \/ Destroy \/ Crash

Next == Progress \/ Call

Spec == Init /\ [][Next]_sstVars

\* A thread that has work to do is scheduled.
FairSpec == Spec /\ WF_sstVars(Progress)

-----------------------------------------------------------------------------
(* Properties.                                                             *)

\* Every variable has its type: directories map segments in range to contents,
\* and every number is one the directory can hold.
TypeOK ==
    /\ DOMAIN sst \subseteq Segment
    /\ \A n \in DOMAIN sst : sst[n] \in Content
    /\ tmp \in Content \cup {NoFile}
    /\ sstable_readers \in Seq(Segment)
    /\ latest_segment_num \in 0 .. MaxSegment
    /\ flushing \in Table
    /\ inputs \in Seq(Segment)
    /\ output_segment \in 0 .. MaxSegment
    /\ merged \in LiveMap
    /\ next \in Nat \ {0}
    /\ phase \in Phase

\* The directory implements the abstract map: only the completion of a flush
\* changes what the files say, and it applies the whole memtable; a compaction,
\* whatever step it is interrupted at, changes nothing.
Abstract == INSTANCE FlushedMap WITH map <- View(sst), request <- flushing
RefinesFlushedMap == Abstract!Spec

\* Between two operations a lookup through the open readers answers what the
\* files on disk say, although readers are opened, appended and released apart
\* from the files.
SessionReads ==
    phase = "idle" => \A k \in Key : ReadersGet(k) = View(sst)[k]

\* SSTables are immutable (sstable_writer.h:28): no step ever changes the
\* content of a complete file; it stays as it is or is deleted.
Immutable ==
    [][\A n \in DOMAIN sst \cap DOMAIN sst' :
          sst[n] \in Table => sst'[n] = sst[n]]_sstVars

\* A file is only ever removed while one with a higher number exists, the
\* output that replaces it, even when a write was cut short unnoticed.
OutputOutlivesInputs ==
    [][\A n \in DOMAIN sst \ DOMAIN sst' : \E m \in DOMAIN sst' : m > n]_sstVars

\* Even when a write was cut short unnoticed, a complete file is overwritten only
\* beside the cut one below it: that is what makes load_sstables throw out of a
\* compaction, and leaves the writer with a number it no longer should write to.
OverwrittenOnlyAboveCut ==
    [][\A n \in DOMAIN sst \cap DOMAIN sst' :
          sst[n] \in Table /\ sst'[n] # sst[n]
              => \E m \in DOMAIN sst : m < n /\ sst[m] \notin Table]_sstVars

\* A session that goes on without a reader for some file, after a load that threw
\* out of compact(), misses only files at or above one that was cut short.
MissesOnlyAboveCut ==
    phase = "idle" =>
        \A n \in Unopened : \E m \in DOMAIN sst : m <= n /\ sst[m] \notin Table

\* A compaction that comes to its end leaves one file, with no tombstone in it
\* (compact() "merges every live file, leaving nothing older behind").
CompactionFoldsAll ==
    [][phase = "reload" /\ phase' = "idle"
          => /\ DOMAIN sst' = {output_segment}
             /\ sst'[output_segment] \in LiveMap]_sstVars

\* Whenever a flush has returned, with or without a compaction, fewer files
\* than the trigger are left, however many a crash had left before
\* (AutomaticCompactionKeepsFileCountBounded).
FileCountBounded ==
    [][compaction_trigger > 1 /\ phase \in {"flushed", "reload"} /\ phase' = "idle"
          => Cardinality(DOMAIN sst') < compaction_trigger]_sstVars

\* Every operation returns, whatever fails on its way: the thread never stays
\* in the middle of a load, a flush or a compaction.
OperationsReturn ==
    phase \notin {"idle", "down"} ~> phase \in {"idle", "down"}

-----------------------------------------------------------------------------
(* What the documentation says and the code does not do.                   *)

\* After a crash the database opens, and gets from the WAL what the flush that
\* was interrupted had not made durable: the constructor meets no file that its
\* reader would refuse.
RestartAccepted ==
    phase = "load" => \A n \in DOMAIN sst : sst[n] # Torn

\* load_sstables opens a reader for each file "sorted oldest to newest by
\* segment number".
LoadedInOrder ==
    \A i, j \in DOMAIN sstable_readers :
        i < j => sstable_readers[i] < sstable_readers[j]

\* compact() fails when "the merged file could not be written", and then
\* "nothing was destroyed": an input is deleted only beside a whole output.
DeletedOnceMerged ==
    [][\A n \in DOMAIN sst \ DOMAIN sst' : sst[output_segment] = merged]_sstVars

=============================================================================
