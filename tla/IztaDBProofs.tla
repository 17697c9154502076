---------------------------- MODULE IztaDBProofs ----------------------------
(***************************************************************************)
(* The database keeps its promise because its parts keep theirs: a step of *)
(* IztaDB is a step of SSTables or none and, for the memtable a flush has  *)
(* not finished with, a step of WAL or none, so the invariants and the     *)
(* abstract specifications proved of the two carry over; together with     *)
(* where the thread is they make a durable map.                            *)
(***************************************************************************)
EXTENDS IztaDB, TLAPS

SP == INSTANCE SSTablesProofs
WP == INSTANCE WALTableProofs WITH mem_table <- Buffered

-----------------------------------------------------------------------------
(* One thread.                                                             *)

\* The memtable is a map over the keys, and nothing else.
Keyed(t) == t = [k \in Key |-> t[k]]

ThreadInv == ControlInv /\ Keyed(mem_table)

LEMMA ThreadInit == Init => ThreadInv
BY DEF Init, S!Init, W!Init, ThreadInv, ControlInv, Keyed, Ready, S!Phase,
       W!LogPhase, EmptyTable, W!EmptyTable

\* While files are loaded, written or merged, the log waits.
LEMMA LogAtRest ==
    ASSUME ThreadInv, phase \notin {"down", "idle", "flushed"}
    PROVE  log_phase = "idle"
BY DEF ThreadInv, ControlInv, W!LogPhase

\* The constructor's first half.
LEMMA RecoverThread ==
    ASSUME ThreadInv, RecoverLog
    PROVE  ThreadInv'
<1> USE DEF ThreadInv, Keyed
<1>0. /\ phase = "down" /\ phase' = "down" /\ call = "none" /\ call' = "none"
      /\ UNCHANGED flushing
  BY DEF RecoverLog, ControlInv, sstVars, Ready
<1>1. CASE W!Restore
  <2>1. Keyed(mem_table')  BY <1>1 DEF W!Restore, W!TableOf
  <2> QED  BY <1>0, <1>1, <2>1 DEF W!Restore, ControlInv, Ready, S!Phase, W!LogPhase
<1>2. CASE W!TruncateThrows
  <2>1. Keyed(mem_table')  BY <1>2 DEF W!TruncateThrows, W!SessionEnds, W!EmptyTable
  <2> QED  BY <1>0, <1>2, <2>1
           DEF W!TruncateThrows, W!SessionEnds, ControlInv, Ready, S!Phase, W!LogPhase
<1>3. CASE W!Truncate \/ W!DropHigher \/ W!DropDone \/ W!OpenWriter
  BY <1>0, <1>3
  DEF W!Truncate, W!DropHigher, W!DropDone, W!OpenWriter, ControlInv, Ready,
      S!Phase, W!LogPhase
<1> QED  BY <1>1, <1>2, <1>3 DEF RecoverLog, W!Recovery

\* The constructor's second half, and compact().
LEMMA TablesThread ==
    ASSUME ThreadInv,
           OpenTables \/ LoadTable \/ LoadDone \/ NoCompaction \/ CompactBegin
              \/ Compact
    PROVE  ThreadInv'
<1> USE DEF ThreadInv, ControlInv, Ready, S!Phase
<1>0. UNCHANGED <<mem_table, log_phase>>
  BY DEF OpenTables, LoadTable, LoadDone, NoCompaction, CompactBegin, Compact, walVars
<1>1. CASE OpenTables
  BY <1>0, <1>1 DEF OpenTables, S!Open
<1>2. CASE LoadTable
  BY <1>0, <1>2 DEF LoadTable, S!LoadNext, S!NextToOpen, S!Loading
<1>3. CASE LoadDone
  <2>1. phase \in {"load", "reload", "reopen"} /\ phase' = "idle" /\ call' = "none"
    BY <1>3 DEF LoadDone, S!LoadDone, S!Loading
  <2>2. log_phase = "idle"  BY <2>1, LogAtRest
  <2> QED  BY <1>0, <2>1, <2>2
<1>4. CASE NoCompaction
  BY <1>0, <1>4 DEF NoCompaction, S!NoCompaction
<1>5. CASE CompactBegin
  BY <1>0, <1>5 DEF CompactBegin, S!CompactBegin
<1>6. CASE Compact
  <2>1. phase \in {"merge", "publish", "delete"}
        /\ phase' \in {"merge", "publish", "reopen", "delete", "reload"}
    BY <1>6
    DEF Compact, S!MergeNext, S!CompactWrite, S!CompactWriteFails, S!CompactRename,
        S!CompactDelete, S!CompactReload, S!Merged
  <2>2. call' = call  BY <1>6 DEF Compact
  <2>3. log_phase = "idle"  BY <2>1, LogAtRest
  <2>4. call # "none"  BY <2>1
  <2>5. call = "write" \/ call = "compact"  BY <2>4
  <2> QED  BY <1>0, <2>1, <2>2, <2>3, <2>5
<1> QED  BY <1>1, <1>2, <1>3, <1>4, <1>5, <1>6

\* A file that a reader refuses ends the constructor or the call.
LEMMA LoadThrowsThread ==
    ASSUME ThreadInv, LoadThrows
    PROVE  ThreadInv'
<1>1. CASE phase = "load"
  <2>1. Keyed(mem_table')
    BY <1>1 DEF LoadThrows, W!SessionEnds, W!EmptyTable, Keyed
  <2>2. phase' = "down" /\ log_phase' = "down" /\ call' = "none"
    BY <1>1 DEF LoadThrows, S!LoadThrows, W!SessionEnds
  <2> QED  BY <2>1, <2>2 DEF ThreadInv, ControlInv, Ready, S!Phase, W!LogPhase
<1>2. CASE phase # "load"
  <2>1. /\ phase \in {"reload", "reopen"} /\ phase' = "idle" /\ call' = "none"
        /\ UNCHANGED <<mem_table, log_phase>>
    BY <1>2 DEF LoadThrows, S!LoadThrows, S!NextToOpen, S!Loading
  <2>2. log_phase = "idle"  BY <2>1, LogAtRest
  <2> QED  BY <2>1, <2>2 DEF ThreadInv, ControlInv, Ready, S!Phase, Keyed
<1> QED  BY <1>1, <1>2

\* put and remove, up to the flush.
LEMMA WriteThread ==
    ASSUME ThreadInv,
           (\E k \in Key, e \in Entry : WriteCall(k, e)) \/ LogWrite \/ NoFlush
    PROVE  ThreadInv'
<1> USE DEF ThreadInv, ControlInv, Ready, W!LogPhase
<1>0. UNCHANGED <<phase, flushing>>
  BY DEF WriteCall, LogWrite, NoFlush, sstVars
<1>1. CASE \E k \in Key, e \in Entry : WriteCall(k, e)
  BY <1>0, <1>1 DEF WriteCall, W!WriteBegin
<1>2. CASE LogWrite /\ ~W!Apply
  BY <1>0, <1>2
  DEF LogWrite, W!AppendRecord, W!AppendClose, W!AfterAppend, W!AfterClose
<1>3. CASE LogWrite /\ W!Apply
  <2>1. Keyed(mem_table')  BY <1>3 DEF W!Apply, W!Insert, Keyed
  <2> QED  BY <1>0, <1>3, <2>1 DEF LogWrite, W!Apply
<1>4. CASE NoFlush
  BY <1>0, <1>4 DEF NoFlush, Written, walVars
<1> QED  BY <1>1, <1>2, <1>3, <1>4

\* maybe_flush, and the log it clears.
LEMMA FlushThread ==
    ASSUME ThreadInv, FlushBegin \/ FlushFails \/ FlushEnd \/ ClearLog
    PROVE  ThreadInv'
<1> USE DEF ThreadInv, ControlInv, Ready, Written, S!Phase, W!LogPhase
<1>1. CASE FlushBegin
  <2>1. Keyed(mem_table')  BY <1>1 DEF FlushBegin, EmptyTable, Keyed
  <2>2. flushing' # EmptyTable
    BY <1>1 DEF FlushBegin, S!FlushBegin, EmptyTable, S!EmptyTable
  <2> QED  BY <1>1, <2>1, <2>2 DEF FlushBegin, S!FlushBegin
<1>2. CASE FlushFails
  <2>1. Keyed(mem_table')  BY <1>2 DEF FlushFails, Overlay, Keyed
  <2> QED  BY <1>2, <2>1 DEF FlushFails, sstVars
<1>3. CASE FlushEnd
  BY <1>3 DEF FlushEnd, S!FlushEnd
<1>4. CASE ClearLog
  BY <1>4 DEF ClearLog, W!ClearNext, W!ClearDone, sstVars
<1> QED  BY <1>1, <1>2, <1>3, <1>4

\* Nothing is left in memory.
LEMMA EndThread ==
    ASSUME ThreadInv, Destroy \/ Crash
    PROVE  ThreadInv'
<1>1. /\ log_phase' = "down" /\ mem_table' = EmptyTable
      /\ phase' = "down" /\ call' = "none"
  BY DEF Destroy, Crash, W!Shutdown, W!Crash, W!SessionEnds, S!Destroy, S!Crash,
         S!SessionEnds, EmptyTable, W!EmptyTable, ThreadInv, ControlInv, Ready,
         sstVars
<1>2. Keyed(mem_table')  BY <1>1 DEF EmptyTable, Keyed
<1> QED  BY <1>1, <1>2 DEF ThreadInv, ControlInv, Ready, S!Phase, W!LogPhase

\* Where the thread is follows from where it was, whatever fails.
LEMMA ThreadNext == ThreadInv /\ [Next]_vars => ThreadInv'
<1> SUFFICES ASSUME ThreadInv, [Next]_vars PROVE ThreadInv'
  OBVIOUS
<1>1. CASE UNCHANGED vars
  BY <1>1 DEF vars, sstVars, walVars, ThreadInv, ControlInv, Ready, Keyed
<1> QED
  BY <1>1, RecoverThread, TablesThread, LoadThrowsThread, WriteThread, FlushThread,
     EndThread
  DEF Next, Progress, Call

\* One thread runs, whatever fails and whenever it dies: each part of the
\* database is at rest while the other is at work.
THEOREM ControlInvHolds == Spec => []ControlInv
<1>1. ThreadInv => ControlInv  BY DEF ThreadInv
<1> QED  BY ThreadInit, ThreadNext, <1>1, PTL DEF Spec

-----------------------------------------------------------------------------
(* The log's operators are the same ones in each of its instances.         *)

LEMMA SameContent ==
    \A dir, n : /\ Log!Content(dir, n) = WP!Content(dir, n)
                /\ W!Content(dir, n) = WP!Content(dir, n)
BY Zenon DEF Log!Content, WP!Content, W!Content,
             Log!EmptySegment, WP!EmptySegment, W!EmptySegment

LEMMA SameStopCell ==
    \A f : /\ Log!StopCell(f) = WP!StopCell(f)
           /\ W!StopCell(f) = WP!StopCell(f)
BY Zenon DEF Log!StopCell, WP!StopCell, W!StopCell,
             Log!IsRecord, WP!IsRecord, W!IsRecord

LEMMA SameLatest ==
    \A dir : /\ Log!LatestSegment(dir) = WP!LatestSegment(dir)
             /\ W!LatestSegment(dir) = WP!LatestSegment(dir)
BY Zenon DEF Log!LatestSegment, WP!LatestSegment, W!LatestSegment,
             Log!Newest, WP!Newest, W!Newest

LEMMA SameEnd ==
    \A f : /\ (Log!AtEnd(f) <=> WP!AtEnd(f)) /\ (W!AtEnd(f) <=> WP!AtEnd(f))
           /\ Log!ReachedEof(f) <=> WP!ReachedEof(f)
           /\ W!ReachedEof(f) <=> WP!ReachedEof(f)
BY SameStopCell
DEF Log!ReachedEof, WP!ReachedEof, W!ReachedEof, Log!AtEnd, WP!AtEnd, W!AtEnd

LEMMA SameClean ==
    \A dir, n : /\ Log!Clean(dir, n) <=> WP!Clean(dir, n)
                /\ W!Clean(dir, n) <=> WP!Clean(dir, n)
BY SameContent, SameEnd, SameLatest DEF Log!Clean, WP!Clean, W!Clean

LEMMA SameStopSegment ==
    \A dir : /\ Log!StopSegment(dir) = WP!StopSegment(dir)
             /\ W!StopSegment(dir) = WP!StopSegment(dir)
<1> TAKE dir
<1> DEFINE First(l, D) ==
               IF D = {} THEN l ELSE CHOOSE n \in D : \A m \in D : n <= m
           D0 == {n \in 1 .. WP!LatestSegment(dir) : ~WP!Clean(dir, n)}
           D1 == {n \in 1 .. Log!LatestSegment(dir) : ~Log!Clean(dir, n)}
           D2 == {n \in 1 .. W!LatestSegment(dir) : ~W!Clean(dir, n)}
<1>1. D0 = D1 /\ D0 = D2  BY SameClean, SameLatest
<1>2. /\ WP!StopSegment(dir) = First(WP!LatestSegment(dir), D0)
      /\ Log!StopSegment(dir) = First(Log!LatestSegment(dir), D1)
      /\ W!StopSegment(dir) = First(W!LatestSegment(dir), D2)
  BY DEF WP!StopSegment, Log!StopSegment, W!StopSegment
<1> HIDE DEF First, D0, D1, D2
<1> QED  BY <1>1, <1>2, SameLatest

LEMMA SameFlattenSeq ==
    \A s : /\ Log!FlattenSeq(s) = WP!FlattenSeq(s)
           /\ W!FlattenSeq(s) = WP!FlattenSeq(s)
BY Zenon DEF Log!FlattenSeq, WP!FlattenSeq, W!FlattenSeq

LEMMA SameReplayed ==
    \A dir : /\ Log!Replayed(dir) = WP!Replayed(dir)
             /\ W!Replayed(dir) = WP!Replayed(dir)
BY SameStopSegment, SameContent, SameStopCell, SameFlattenSeq
DEF Log!Replayed, WP!Replayed, W!Replayed

LEMMA SameTableOf ==
    \A s : /\ Log!TableOf(s) = WP!TableOf(s)
           /\ W!TableOf(s) = WP!TableOf(s)
BY DEF Log!TableOf, WP!TableOf, W!TableOf, Log!Newest, WP!Newest, W!Newest

\* What a restart would rebuild, by whichever name it is called.
LEMMA SameDurable ==
    /\ Log!Durable = WP!Durable /\ Log!Durable' = WP!Durable'
    /\ W!Durable = WP!Durable
    /\ WP!Durable = WP!TableOf(WP!Replayed(logs))
    /\ WP!Durable' = WP!TableOf(WP!Replayed(logs'))
BY SameTableOf, SameReplayed DEF Log!Durable, WP!Durable, W!Durable

LEMMA SameTables ==
    /\ EmptyTable = WP!EmptyTable /\ W!EmptyTable = WP!EmptyTable
    /\ Table = WP!Table /\ Entry = WP!Entry /\ W!Entry = WP!Entry
    /\ W!NoOp = WP!NoOp /\ W!CleanResult = WP!CleanResult
    /\ \A t, k, e : W!Insert(t, k, e) = WP!Insert(t, k, e)
    /\ \A t, k, e : Insert(t, k, e) = WP!Insert(t, k, e)
BY DEF EmptyTable, WP!EmptyTable, W!EmptyTable, Table, WP!Table, Entry, WP!Entry,
       W!Entry, W!NoOp, WP!NoOp, W!CleanResult, WP!CleanResult, W!Insert,
       WP!Insert, Insert

LEMMA SameFiles ==
    /\ \A dir, n, c : W!WithFile(dir, n, c) = WP!WithFile(dir, n, c)
    /\ \A dir, n : W!WithoutFile(dir, n) = WP!WithoutFile(dir, n)
    /\ \A f, c : W!AppendCell(f, c) = WP!AppendCell(f, c)
    /\ \A f : W!AppendHalf(f) = WP!AppendHalf(f)
    /\ \A f : W!Size(f) = WP!Size(f)
BY DEF W!WithFile, WP!WithFile, W!WithoutFile, WP!WithoutFile, W!AppendCell,
       WP!AppendCell, W!AppendHalf, WP!AppendHalf, W!Size, WP!Size

LEMMA SameWriter ==
    /\ \A dir, limit : W!Resolve(dir, limit) = WP!Resolve(dir, limit)
    /\ \A dir : W!NextSequences(dir) = WP!NextSequences(dir)
    /\ \A dir : W!ResultOf(dir) = WP!ResultOf(dir)
<1>1. \A dir, limit : W!Resolve(dir, limit) = WP!Resolve(dir, limit)
  BY SameLatest, SameFiles DEF W!Resolve, WP!Resolve
<1>2. \A dir : W!NextSequences(dir) = WP!NextSequences(dir)
  BY SameLatest
  DEF W!NextSequences, WP!NextSequences, W!IsRecord, WP!IsRecord, W!Last, WP!Last
<1>3. \A dir : W!ResultOf(dir) = WP!ResultOf(dir)
  BY SameStopSegment, SameContent, SameClean, SameStopCell, SameTables
  DEF W!ResultOf, WP!ResultOf
<1> QED  BY <1>1, <1>2, <1>3

-----------------------------------------------------------------------------
(* A step of the database is a step of the log and what it keeps, or none. *)

\* What the log must keep is the memtable, or the one being flushed.
LEMMA BufferedIs ==
    /\ phase # "flush" => Buffered = mem_table
    /\ phase' # "flush" => Buffered' = mem_table'
    /\ phase = "flush" => Buffered = flushing
    /\ phase' = "flush" => Buffered' = flushing'
BY DEF Buffered

LEMMA LogInit == Init => WP!Init
<1> SUFFICES ASSUME Init PROVE WP!Init
  OBVIOUS
<1>1. phase = "idle" \/ phase = "down"  BY DEF Init, S!Init
<1>2. Buffered = EmptyTable  BY <1>1, BufferedIs, SameTables DEF Init, W!Init
<1>3. logs = [n \in {} |-> WP!EmptySegment]
  BY DEF Init, W!Init, W!EmptySegment, WP!EmptySegment
<1> QED  BY <1>2, <1>3, SameTables DEF Init, W!Init, WP!Init

\* Recovery runs while no file is being flushed, so it is as it is alone.
LEMMA RecoverLogStep ==
    ASSUME ThreadInv, RecoverLog
    PROVE  WP!Next
<1> USE DEF WP!writerVars, WP!callVars, W!writerVars, W!callVars
<1>0. Buffered = mem_table /\ Buffered' = mem_table'
  BY BufferedIs DEF RecoverLog, sstVars
<1>1. CASE W!Restore
  <2>1. WP!Restore
    BY <1>0, <1>1, SameReplayed, SameTableOf, SameWriter DEF W!Restore, WP!Restore
  <2> QED  BY <2>1 DEF WP!Recovery, WP!Next
<1>2. CASE W!Truncate
  <2>1. WP!Truncate
    BY <1>0, <1>2, SameFiles DEF W!Truncate, WP!Truncate
  <2> QED  BY <2>1 DEF WP!Recovery, WP!Next
<1>3. CASE W!TruncateThrows
  <2>1. WP!TruncateThrows
    BY <1>0, <1>3, SameTables
    DEF W!TruncateThrows, WP!TruncateThrows, W!SessionEnds, WP!SessionEnds
  <2> QED  BY <2>1 DEF WP!Recovery, WP!Next
<1>4. CASE W!DropHigher
  <2>1. WP!DropHigher
    BY <1>0, <1>4, SameFiles DEF W!DropHigher, WP!DropHigher, W!Higher, WP!Higher
  <2> QED  BY <2>1 DEF WP!Recovery, WP!Next
<1>5. CASE W!DropDone
  <2>1. WP!DropDone
    BY <1>0, <1>5 DEF W!DropDone, WP!DropDone, W!Higher, WP!Higher
  <2> QED  BY <2>1 DEF WP!Recovery, WP!Next
<1>6. CASE W!OpenWriter
  <2>1. WP!OpenWriter
    BY <1>0, <1>6, SameWriter, SameTables
    DEF W!OpenWriter, WP!OpenWriter, W!NewWriter, WP!NewWriter
  <2> QED  BY <2>1 DEF WP!Recovery, WP!Next
<1> QED  BY <1>1, <1>2, <1>3, <1>4, <1>5, <1>6 DEF RecoverLog, W!Recovery

\* So does writing a record.
LEMMA WriteLogStep ==
    ASSUME ThreadInv, (\E k \in Key, e \in Entry : WriteCall(k, e)) \/ LogWrite
    PROVE  WP!Next
<1> USE DEF WP!writerVars, WP!callVars, W!writerVars, W!callVars
<1>0. phase = "idle" /\ Buffered = mem_table /\ Buffered' = mem_table'
  BY BufferedIs
  DEF WriteCall, LogWrite, sstVars, Ready, ThreadInv, ControlInv, W!AppendRecord,
      W!AppendClose, W!Apply
<1>1. CASE \E k \in Key, e \in Entry : WriteCall(k, e)
  <2>1. PICK k \in Key, e \in Entry : W!WriteBegin(k, e)  BY <1>1 DEF WriteCall
  <2>2. WP!WriteBegin(k, e)
    BY <1>0, <2>1, SameReplayed, SameContent
    DEF W!WriteBegin, WP!WriteBegin, W!LogRoom, WP!LogRoom
  <2>3. e \in WP!Entry  BY SameTables
  <2> QED  BY <2>2, <2>3 DEF WP!Write, WP!Next
<1>2. CASE W!AppendRecord
  <2>1. WP!AfterAppend
    BY <1>0, <1>2, SameWriter DEF W!AppendRecord, W!AfterAppend, WP!AfterAppend
  <2>2. WP!AppendRecord
    BY <2>1, <1>2, SameFiles, SameContent DEF W!AppendRecord, WP!AppendRecord
  <2> QED  BY <2>2 DEF WP!Write, WP!Next
<1>3. CASE W!AppendClose
  <2>1. WP!AppendClose
    BY <1>0, <1>3, SameFiles
    DEF W!AppendClose, WP!AppendClose, W!AfterClose, WP!AfterClose
  <2> QED  BY <2>1 DEF WP!Write, WP!Next
<1>4. CASE W!Apply
  <2>1. WP!Apply
    BY <1>0, <1>4, SameTables DEF W!Apply, WP!Apply
  <2> QED  BY <2>1 DEF WP!Write, WP!Next
<1> QED  BY <1>1, <1>2, <1>3, <1>4 DEF LogWrite

\* A flush that comes to its end is where the log sees its memtable go.
LEMMA FlushLogStep ==
    ASSUME ThreadInv, FlushBegin \/ FlushFails \/ FlushEnd \/ ClearLog
    PROVE  WP!Next \/ UNCHANGED WP!walVars
<1> USE DEF WP!writerVars, WP!callVars, W!writerVars, W!callVars
<1>1. CASE FlushBegin
  <2>1. phase = "idle" /\ phase' = "flush" /\ flushing' = mem_table
    BY <1>1 DEF FlushBegin, S!FlushBegin
  <2>2. Buffered' = Buffered  BY <2>1, BufferedIs
  <2> QED  BY <1>1, <2>2 DEF FlushBegin, walRest, WP!walVars
<1>2. CASE FlushFails
  <2>1. phase = "idle" /\ phase' = "idle"
    BY <1>2 DEF FlushFails, Written, Ready, sstVars
  <2>2. mem_table' = mem_table
    BY <1>2 DEF FlushFails, Overlay, EmptyTable, ThreadInv, Keyed
  <2>3. Buffered' = Buffered  BY <2>1, <2>2, BufferedIs
  <2> QED  BY <1>2, <2>3 DEF FlushFails, walRest, WP!walVars
<1>3. CASE FlushEnd
  <2>1. phase = "flush" /\ phase' = "flushed"  BY <1>3 DEF FlushEnd, S!FlushEnd
  <2>2. log_phase = "idle"  BY <2>1, LogAtRest
  <2>3. mem_table = EmptyTable /\ flushing # EmptyTable
    BY <2>1 DEF ThreadInv, ControlInv
  <2>4. Buffered # WP!EmptyTable /\ Buffered' = WP!EmptyTable
    BY <1>3, <2>1, <2>3, BufferedIs, SameTables DEF FlushEnd
  <2>5. WP!ClearBegin
    BY <1>3, <2>2, <2>4 DEF FlushEnd, walRest, WP!ClearBegin
  <2> QED  BY <2>5 DEF WP!Clear, WP!Next
<1>4. CASE ClearLog
  <2>1. Buffered = mem_table /\ Buffered' = mem_table'
    BY <1>4, BufferedIs
    DEF ClearLog, W!ClearNext, W!ClearDone, ThreadInv, ControlInv, sstVars
  <2>2. CASE W!ClearNext
    <3>1. WP!ClearNext
      BY <2>1, <2>2, SameFiles DEF W!ClearNext, WP!ClearNext
    <3> QED  BY <3>1 DEF WP!Clear, WP!Next
  <2>3. CASE W!ClearDone
    <3>1. WP!ClearDone
      BY <2>1, <2>3, SameWriter
      DEF W!ClearDone, WP!ClearDone, W!NewWriter, WP!NewWriter
    <3> QED  BY <3>1 DEF WP!Clear, WP!Next
  <2> QED  BY <1>4, <2>2, <2>3 DEF ClearLog
<1> QED  BY <1>1, <1>2, <1>3, <1>4

\* An end of the session ends the session of the log.
LEMMA EndLogStep ==
    ASSUME ThreadInv, Destroy \/ Crash \/ (LoadThrows /\ phase = "load")
    PROVE  WP!Next
<1> USE DEF WP!SessionEnds, W!SessionEnds
<1>1. CASE Destroy
  <2>1. phase' = "down" /\ Buffered' = mem_table'
    BY <1>1, BufferedIs DEF Destroy, S!Destroy, S!SessionEnds
  <2>2. WP!Shutdown
    BY <1>1, <2>1, SameTables DEF Destroy, W!Shutdown, WP!Shutdown
  <2> QED  BY <2>2 DEF WP!Next
<1>2. CASE Crash
  <2>1. phase' = "down" /\ Buffered' = mem_table'
    BY <1>2, BufferedIs DEF Crash, S!Crash, S!SessionEnds, sstVars
  <2>2. WP!Crash
    BY <1>2, <2>1, SameTables, SameContent, SameFiles DEF Crash, W!Crash, WP!Crash
  <2> QED  BY <2>2 DEF WP!Next
<1>3. CASE LoadThrows /\ phase = "load"
  <2>1. phase' = "down" /\ Buffered' = mem_table'
    BY <1>3, BufferedIs DEF LoadThrows, S!LoadThrows
  <2>2. log_phase = "idle"  BY <1>3, LogAtRest
  <2>3. WP!Shutdown
    BY <1>3, <2>1, <2>2, SameTables DEF LoadThrows, WP!Shutdown
  <2> QED  BY <2>3 DEF WP!Next
<1> QED  BY <1>1, <1>2, <1>3

\* Steps that the log does not see: loading, compaction, a flush that fails.
LEMMA LogAway ==
    ASSUME ThreadInv,
           OpenTables \/ LoadTable \/ LoadDone \/ NoCompaction \/ CompactBegin
              \/ Compact \/ NoFlush \/ (LoadThrows /\ phase # "load")
    PROVE  UNCHANGED WP!walVars
<1>1. UNCHANGED <<logs, mem_table, max_wal_file_size, write_path, next_sequence,
                  recovery_result, op, written_to, log_phase>>
  BY DEF OpenTables, LoadTable, LoadDone, NoCompaction, CompactBegin, Compact,
         NoFlush, LoadThrows, walVars
<1>2. phase # "flush" /\ phase' # "flush"
  BY DEF OpenTables, LoadTable, LoadDone, NoCompaction, CompactBegin, Compact,
         NoFlush, LoadThrows, S!Open, S!LoadNext, S!NextToOpen, S!Loading,
         S!LoadDone, S!NoCompaction, S!CompactBegin, S!MergeNext, S!CompactWrite,
         S!CompactWriteFails, S!CompactRename, S!CompactDelete, S!CompactReload,
         S!Merged, S!LoadThrows, Written, Ready, sstVars
<1>3. Buffered' = Buffered  BY <1>1, <1>2, BufferedIs
<1> QED  BY <1>1, <1>3 DEF WP!walVars, WP!writerVars, WP!callVars

\* Every step, as the log sees it.
LEMMA LogStep == ThreadInv /\ [Next]_vars => [WP!Next]_(WP!walVars)
<1> SUFFICES ASSUME ThreadInv, [Next]_vars PROVE [WP!Next]_(WP!walVars)
  OBVIOUS
<1>1. CASE UNCHANGED vars
  BY <1>1
  DEF vars, sstVars, walVars, Buffered, WP!walVars, WP!writerVars, WP!callVars
<1> QED
  BY <1>1, RecoverLogStep, WriteLogStep, FlushLogStep, EndLogStep, LogAway
  DEF Next, Progress, Call

\* Hence what WALTableProofs shows of the log alone holds in the database.
LEMMA LogImplemented == Spec => WP!Spec
<1> QED  BY ThreadInit, ThreadNext, LogInit, LogStep, PTL DEF Spec, WP!Spec

-----------------------------------------------------------------------------
(* A step of the database is a step of the SSTables, or none.              *)

LEMMA SameDirectory ==
    /\ \A dir, n, c : S!WithFile(dir, n, c) = SP!WithFile(dir, n, c)
    /\ \A dir, n : S!WithoutFile(dir, n) = SP!WithoutFile(dir, n)
    /\ \A dir : S!LatestSegment(dir) = SP!LatestSegment(dir)
    /\ \A a, b : S!NameLess(a, b) <=> SP!NameLess(a, b)
    /\ \A m, t : S!Fold(m, t) = SP!Fold(m, t) /\ SP!Fold(m, t) = Fold(m, t)
    /\ S!Opened = SP!Opened /\ S!Unopened = SP!Unopened
    /\ S!Target = SP!Target
BY DEF S!WithFile, SP!WithFile, S!WithoutFile, SP!WithoutFile, S!LatestSegment,
       SP!LatestSegment, S!Newest, SP!Newest, S!NameLess, SP!NameLess, S!Scaled,
       SP!Scaled, S!Fold, SP!Fold, Fold, S!Live, SP!Live, Live, S!Opened,
       SP!Opened, S!Unopened, SP!Unopened, S!Target, SP!Target

LEMMA SameMaps ==
    /\ S!EmptyTable = SP!EmptyTable /\ EmptyTable = SP!EmptyTable
    /\ S!Table = SP!Table /\ Table = SP!Table
    /\ S!LiveMap = SP!LiveMap /\ LiveMap = SP!LiveMap
    /\ S!View(sst) = SP!View(sst)
    /\ \A dir : S!View(dir) = SP!View(dir)
BY DEF S!EmptyTable, SP!EmptyTable, EmptyTable, S!Table, SP!Table, Table, S!Entry,
       SP!Entry, Entry, S!LiveMap, SP!LiveMap, LiveMap, S!View, SP!View, S!ViewOf,
       SP!ViewOf, S!Holders, SP!Holders, S!Newest, SP!Newest, S!Live, SP!Live

LEMMA TablesInit == Init => SP!Init
BY SameMaps DEF Init, S!Init, SP!Init

LEMMA SameLoads ==
    /\ S!Open <=> SP!Open
    /\ S!LoadNext <=> SP!LoadNext
    /\ S!LoadThrows <=> SP!LoadThrows
    /\ S!LoadDone <=> SP!LoadDone
<1> USE SameDirectory, SameMaps
    DEF S!compactVars, SP!compactVars, S!mergeVars, SP!mergeVars, S!Loading,
        SP!Loading, S!NextToOpen, SP!NextToOpen, S!CompactReturns, SP!CompactReturns
<1>1. S!Open <=> SP!Open  BY DEF S!Open, SP!Open
<1>2. S!LoadNext <=> SP!LoadNext  BY DEF S!LoadNext, SP!LoadNext
<1>3. S!LoadThrows <=> SP!LoadThrows  BY DEF S!LoadThrows, SP!LoadThrows
<1>4. S!LoadDone <=> SP!LoadDone  BY DEF S!LoadDone, SP!LoadDone
<1> QED  BY <1>1, <1>2, <1>3, <1>4

LEMMA SameFlushes ==
    /\ \A t : S!FlushBegin(t) <=> SP!FlushBegin(t)
    /\ S!FlushEnd <=> SP!FlushEnd
    /\ S!NoCompaction <=> SP!NoCompaction
<1> USE SameDirectory, SameMaps
    DEF S!compactVars, SP!compactVars, S!mergeVars, SP!mergeVars, S!sessionVars,
        SP!sessionVars
<1>1. \A t : S!FlushBegin(t) <=> SP!FlushBegin(t)
  BY DEF S!FlushBegin, SP!FlushBegin, S!Room, SP!Room
<1>2. S!FlushEnd <=> SP!FlushEnd
  BY DEF S!FlushEnd, SP!FlushEnd
<1>3. S!NoCompaction <=> SP!NoCompaction
  BY DEF S!NoCompaction, SP!NoCompaction, S!TriggerReached, SP!TriggerReached
<1> QED  BY <1>1, <1>2, <1>3

LEMMA SameCompactions ==
    /\ S!CompactBegin <=> SP!CompactBegin
    /\ S!MergeNext <=> SP!MergeNext
    /\ S!CompactWrite <=> SP!CompactWrite
    /\ S!CompactWriteFails <=> SP!CompactWriteFails
    /\ S!CompactRename <=> SP!CompactRename
    /\ S!CompactDelete <=> SP!CompactDelete
    /\ S!CompactReload <=> SP!CompactReload
<1> USE SameDirectory, SameMaps
    DEF S!compactVars, SP!compactVars, S!mergeVars, SP!mergeVars, S!sessionVars,
        SP!sessionVars, S!Merged, SP!Merged, S!TriggerReached, SP!TriggerReached
<1>1. S!CompactBegin <=> SP!CompactBegin  BY DEF S!CompactBegin, SP!CompactBegin
<1>2. S!MergeNext <=> SP!MergeNext  BY DEF S!MergeNext, SP!MergeNext
<1>3. S!CompactWrite <=> SP!CompactWrite  BY DEF S!CompactWrite, SP!CompactWrite
<1>4. S!CompactWriteFails <=> SP!CompactWriteFails
  BY DEF S!CompactWriteFails, SP!CompactWriteFails
<1>5. S!CompactRename <=> SP!CompactRename  BY DEF S!CompactRename, SP!CompactRename
<1>6. S!CompactDelete <=> SP!CompactDelete  BY DEF S!CompactDelete, SP!CompactDelete
<1>7. S!CompactReload <=> SP!CompactReload  BY DEF S!CompactReload, SP!CompactReload
<1> QED  BY <1>1, <1>2, <1>3, <1>4, <1>5, <1>6, <1>7

LEMMA SameEnds ==
    /\ S!Destroy <=> SP!Destroy
    /\ S!Crash <=> SP!Crash
<1> USE SameDirectory, SameMaps
    DEF S!SessionEnds, SP!SessionEnds, S!CompactReturns, SP!CompactReturns
<1>1. S!Destroy <=> SP!Destroy  BY DEF S!Destroy, SP!Destroy
<1>2. S!Crash <=> SP!Crash  BY DEF S!Crash, SP!Crash
<1> QED  BY <1>1, <1>2

\* Every step, as the directory of SSTables sees it: a flush brings it a table.
LEMMA TablesStep ==
    ASSUME ThreadInv, mem_table \in SP!Table, [Next]_vars
    PROVE  [SP!Next]_(SP!sstVars)
<1> USE DEF SP!Next, SP!Progress, SP!Call
<1>1. CASE OpenTables \/ LoadTable \/ LoadThrows \/ LoadDone
  BY <1>1, SameLoads DEF OpenTables, LoadTable, LoadThrows, LoadDone
<1>2. CASE FlushBegin \/ FlushEnd \/ NoCompaction
  BY <1>2, SameFlushes DEF FlushBegin, FlushEnd, NoCompaction
<1>3. CASE CompactBegin
  <2>1. phase = "flushed" \/ phase = "idle"
    BY <1>3 DEF CompactBegin, S!CompactBegin
  <2> QED  BY <1>3, <2>1, SameCompactions DEF CompactBegin
<1>4. CASE Compact
  BY <1>4, SameCompactions DEF Compact
<1>5. CASE Destroy \/ Crash
  BY <1>5, SameEnds
  DEF Destroy, Crash, sstVars, SP!sstVars, SP!sessionVars, SP!compactVars,
      SP!mergeVars
<1>6. CASE UNCHANGED sstVars
  BY <1>6
  DEF sstVars, SP!sstVars, SP!sessionVars, SP!compactVars, SP!mergeVars
<1>7. \/ OpenTables \/ LoadTable \/ LoadThrows \/ LoadDone
      \/ FlushBegin \/ FlushEnd \/ NoCompaction \/ CompactBegin \/ Compact
      \/ Destroy \/ Crash \/ UNCHANGED sstVars
  BY DEF Next, Progress, Call, RecoverLog, LogWrite, WriteCall, NoFlush, FlushFails,
         ClearLog, vars
<1> QED  BY <1>1, <1>2, <1>3, <1>4, <1>5, <1>6, <1>7

\* The log keeps the memtable a table, which is what a flush hands over.
LEMMA MemTableTyped ==
    ASSUME ThreadInv, WP!LogInv
    PROVE  mem_table \in SP!Table
<1>1. Buffered \in Table  BY SameTables DEF WP!LogInv, WP!TypeOK
<1>2. CASE phase = "flush"
  BY <1>1, <1>2, SameMaps
  DEF ThreadInv, ControlInv, EmptyTable, Table
<1>3. CASE phase # "flush"
  BY <1>1, <1>3, BufferedIs, SameMaps
<1> QED  BY <1>2, <1>3

-----------------------------------------------------------------------------
(* What the parts guarantee, at every step of the database.                *)

\* The assumptions of the proofs about the parts, by the names they have here.
LEMMA SameEnvironment ==
    /\ SP!IsFiniteSet(Key) = IsFiniteSet(Key)
    /\ WP!IsFiniteSet(Key) = IsFiniteSet(Key)
    /\ SP!Reliable = S!Reliable /\ WP!Orderly = W!Orderly
    /\ WP!OneSegment = W!OneSegment
    /\ Close \notin WP!Record /\ Corrupt \notin WP!Record
<1>1. WP!Record = [op : [key : Key, entry : Entry], seq : Nat]
  BY SameTables DEF WP!Record, WP!Op
<1> QED
  BY <1>1, LogAssumption
  DEF SP!IsFiniteSet, WP!IsFiniteSet, IsFiniteSet, SP!Reliable, S!Reliable,
      WP!Orderly, W!Orderly, WP!OneSegment, W!OneSegment

\* What WALTableProofs shows, of the log within the database.
LEMMA LogKeepsItsPromise ==
    ASSUME W!Orderly
    PROVE  Spec => []WP!LogInv /\ WP!RefinesDurableTable
<1>1. WP!Orderly  BY SameEnvironment
<1>2. WP!Spec => []WP!LogInv
  BY <1>1, SameEnvironment, SameTables, EntriesAssumption, LogAssumption,
     WP!LogInvHolds DEF WP!LogInvHolds
<1>3. WP!Spec => WP!RefinesDurableTable
  BY <1>1, SameEnvironment, SameTables, EntriesAssumption, LogAssumption,
     WP!RefinesDurableTableHolds DEF WP!RefinesDurableTableHolds
<1> QED  BY <1>2, <1>3, LogImplemented, PTL

\* Hence what SSTablesProofs shows of the directory alone holds in the database.
LEMMA TablesImplemented ==
    ASSUME W!Orderly
    PROVE  Spec => SP!Spec
<1>1. ThreadInv /\ WP!LogInv /\ [Next]_vars => [SP!Next]_(SP!sstVars)
  BY MemTableTyped, TablesStep
<1> QED
  BY <1>1, ThreadInit, ThreadNext, TablesInit, LogKeepsItsPromise, PTL
  DEF Spec, SP!Spec

\* What SSTablesProofs shows, of the directory within the database.
LEMMA TablesKeepTheirPromise ==
    ASSUME Dependable
    PROVE  Spec => [](SP!IInv /\ SP!SessionReads /\ SP!ViewTyped) /\ SP!FlushDecides
<1>1. SP!Reliable /\ W!Orderly  BY SameEnvironment DEF Dependable
<1>2. SP!Spec => []SP!IInv
  BY <1>1, SameEnvironment, SameMaps, EntriesAssumption, TablesAssumption,
     SP!InvariantHolds DEF SP!InvariantHolds
<1>3. SP!Spec => []SP!SessionReads
  BY <1>1, SameEnvironment, SameMaps, EntriesAssumption, TablesAssumption,
     SP!SessionReadsHolds DEF SP!SessionReadsHolds
<1>4. SP!Spec => []SP!ViewTyped /\ SP!FlushDecides
  BY <1>1, SameEnvironment, SameMaps, EntriesAssumption, TablesAssumption,
     SP!FlushDecidesHolds DEF SP!FlushDecidesHolds
<1> QED  BY <1>1, <1>2, <1>3, <1>4, TablesImplemented, PTL

-----------------------------------------------------------------------------
(* What a restart would rebuild of the log, step by step.                  *)

\* The log's invariant, in the database's own terms.
LEMMA LogTyped ==
    ASSUME WP!LogInv
    PROVE  /\ Buffered \in Table
           /\ log_phase \in {"append", "close", "apply"} =>
                 /\ op \in [key : Key, entry : Entry]
                 /\ op # WP!NoOp
           /\ log_phase \in {"truncate", "drop", "open", "idle", "append"}
                 => Buffered = WP!Durable
           /\ log_phase \in {"close", "apply"}
                 => Insert(Buffered, op.key, op.entry) = WP!Durable
           /\ log_phase \in {"down", "clear"} => Buffered = EmptyTable
<1>1. Buffered \in Table  BY SameTables DEF WP!LogInv, WP!TypeOK
<1>2. log_phase \in {"append", "close", "apply"} =>
         op \in [key : Key, entry : Entry]
  BY SameTables DEF WP!LogInv, WP!ActiveInv, WP!Op
<1>3. \A o \in [key : Key, entry : Entry] : o # WP!NoOp
  BY EntriesAssumption DEF WP!NoOp, Entry
<1> QED
  BY <1>1, <1>2, <1>3, SameTables DEF WP!LogInv, WP!DurableInv

\* What DurableTable says of a step of the log.
LEMMA DurableStep ==
    ASSUME WP!LogInv, [WP!Abstract!Next]_(WP!Abstract!vars)
    PROVE  /\ log_phase \notin {"append", "clear"} => WP!Durable' = WP!Durable
           /\ log_phase # "down" /\ log_phase' = "down" => WP!Durable' = WP!Durable
           /\ log_phase = "append" /\ log_phase' \in {"close", "apply"}
                 => WP!Durable' = Insert(Buffered, op.key, op.entry)
           /\ log_phase = "clear" /\ log_phase' = "clear" /\ W!OneSegment
                 => WP!Durable' \in {WP!Durable, EmptyTable}
<1> USE DEF WP!Abstract!vars, WP!Abstract!Next, WP!Abstract!Open, WP!Abstract!Begin,
            WP!Abstract!Commit, WP!Abstract!Clear, WP!Abstract!Lose,
            WP!Abstract!Cleared, WP!Abstract!Stop
<1>0. WP!Abstract!NoOp = WP!NoOp  BY DEF WP!Abstract!NoOp, WP!NoOp
<1>1. ASSUME log_phase \notin {"append", "clear"}
      PROVE  WP!Durable' = WP!Durable
  BY <1>0, <1>1
<1>2. ASSUME log_phase # "down", log_phase' = "down"
      PROVE  WP!Durable' = WP!Durable
  BY <1>2
<1>3. ASSUME log_phase = "append", log_phase' \in {"close", "apply"}
      PROVE  WP!Durable' = Insert(Buffered, op.key, op.entry)
  <2>1. op # WP!NoOp  BY <1>3, LogTyped
  <2> QED  BY <1>0, <1>3, <2>1, SameTables DEF WP!Abstract!Insert, WP!Insert, Insert
<1>4. ASSUME log_phase = "clear", log_phase' = "clear", W!OneSegment
      PROVE  WP!Durable' \in {WP!Durable, EmptyTable}
  <2>1. WP!OneSegment  BY <1>4, SameEnvironment
  <2>2. WP!Abstract!EmptyTable = EmptyTable
    BY DEF WP!Abstract!EmptyTable, EmptyTable
  <2> QED  BY <1>4, <2>1, <2>2
<1> QED  BY <1>1, <1>2, <1>3, <1>4

-----------------------------------------------------------------------------
(* The parts together.                                                     *)

PartsInv ==
    ThreadInv /\ SP!IInv /\ SP!SessionReads /\ SP!ViewTyped /\ WP!LogInv

\* What a step does to the files' contents and to the log's.
PartsStep ==
    /\ [SP!View(sst)' = IF phase = "flush" /\ phase' = "flushed"
                        THEN SP!Fold(SP!View(sst), flushing)
                        ELSE SP!View(sst)]_(SP!sstVars)
    /\ [WP!Abstract!Next]_(WP!Abstract!vars)

\* Both parts keep their promises side by side.
LEMMA PartsHold ==
    ASSUME Dependable
    PROVE  Spec => []PartsInv /\ [][PartsStep]_vars
<1>1. W!Orderly  BY DEF Dependable
<1>2. Spec => []PartsInv
  BY <1>1, ThreadInit, ThreadNext, TablesKeepTheirPromise, LogKeepsItsPromise, PTL
  DEF Spec, PartsInv
<1>3. Spec => /\ [][SP!View(sst)' = IF phase = "flush" /\ phase' = "flushed"
                                    THEN SP!Fold(SP!View(sst), flushing)
                                    ELSE SP!View(sst)]_(SP!sstVars)
              /\ [][WP!Abstract!Next]_(WP!Abstract!vars)
  BY <1>1, TablesKeepTheirPromise, LogKeepsItsPromise, PTL
  DEF SP!FlushDecides, WP!RefinesDurableTable, WP!Abstract!Spec
<1> QED  BY <1>2, <1>3, PTL DEF PartsStep

\* Folding in nothing, folding twice, and folding in one record more.
LEMMA FoldFacts ==
    /\ \A m \in LiveMap : Fold(m, EmptyTable) = m
    /\ \A m, t : Fold(Fold(m, t), t) = Fold(m, t)
    /\ \A m, t, k, e : k \in Key /\ e \in Entry /\ t \in Table
          => Fold(m, Insert(t, k, e)) = [Fold(m, t) EXCEPT ![k] = Live(e)]
<1>1. \A m \in LiveMap : Fold(m, EmptyTable) = m
  BY DEF Fold, EmptyTable, LiveMap
<1>2. \A m, t : Fold(Fold(m, t), t) = Fold(m, t)
  BY DEF Fold
<1>3. ASSUME NEW m, NEW t \in Table, NEW k \in Key, NEW e \in Entry
      PROVE  Fold(m, Insert(t, k, e)) = [Fold(m, t) EXCEPT ![k] = Live(e)]
  <2>1. e # Absent  BY EntriesAssumption DEF Entry
  <2> QED  BY <2>1 DEF Fold, Insert, Table
<1> QED  BY <1>1, <1>2, <1>3

\* The step's effect on what the files say, in the database's own terms.
LEMMA ViewAfter ==
    ASSUME PartsStep
    PROVE  /\ ~(phase = "flush" /\ phase' = "flushed")
                 => SP!View(sst') = SP!View(sst)
           /\ phase = "flush" /\ phase' = "flushed"
                 => SP!View(sst') = Fold(SP!View(sst), flushing)
BY SameDirectory DEF PartsStep, SP!sstVars

-----------------------------------------------------------------------------
(* What the log still replays while it is being cleared is in the files.   *)

ReplayedInFiles ==
    log_phase = "clear" /\ W!OneSegment
        => Fold(SP!View(sst), WP!Durable) = SP!View(sst)

\* A flush puts what the log replays into the files; a removal leaves it or nothing.
LEMMA ReplayedNext ==
    PartsInv /\ ReplayedInFiles /\ [Next /\ PartsStep]_vars => ReplayedInFiles'
<1> SUFFICES ASSUME PartsInv, ReplayedInFiles, [Next /\ PartsStep]_vars,
                    log_phase' = "clear", W!OneSegment
             PROVE  Fold(SP!View(sst'), WP!Durable') = SP!View(sst')
  BY DEF ReplayedInFiles
<1>1. CASE UNCHANGED vars
  BY <1>1, SameDurable DEF vars, sstVars, walVars, ReplayedInFiles
<1>2. CASE FlushEnd /\ PartsStep
  <2>1. phase = "flush" /\ phase' = "flushed" /\ logs' = logs
    BY <1>2 DEF FlushEnd, S!FlushEnd, walRest
  <2>2. log_phase = "idle"  BY <2>1, LogAtRest DEF PartsInv
  <2>3. flushing = WP!Durable
    BY <2>1, <2>2, LogTyped, BufferedIs DEF PartsInv
  <2>4. WP!Durable' = WP!Durable  BY <2>1, SameDurable
  <2>5. SP!View(sst') = Fold(SP!View(sst), flushing)  BY <1>2, <2>1, ViewAfter
  <2> QED  BY <2>3, <2>4, <2>5, FoldFacts
<1>3. CASE W!ClearNext /\ UNCHANGED sstVars /\ PartsStep
  <2>1. log_phase = "clear" /\ sst' = sst  BY <1>3 DEF W!ClearNext, sstVars
  <2>2. WP!Durable' \in {WP!Durable, EmptyTable}
    BY <1>3, <2>1, DurableStep DEF PartsInv, PartsStep
  <2>3. SP!View(sst) \in LiveMap  BY SameMaps DEF PartsInv, SP!ViewTyped
  <2> QED  BY <2>1, <2>2, <2>3, FoldFacts DEF ReplayedInFiles
<1>4. Next => FlushEnd \/ (W!ClearNext /\ UNCHANGED sstVars)
  <2>1. CASE RecoverLog
    BY <2>1 DEF RecoverLog, W!Recovery, W!Restore, W!Truncate, W!TruncateThrows,
                W!SessionEnds, W!DropHigher, W!DropDone, W!OpenWriter
  <2>2. CASE \/ OpenTables \/ LoadTable \/ LoadThrows \/ LoadDone
             \/ NoCompaction \/ CompactBegin \/ Compact
    <3>1. log_phase' = log_phase \/ log_phase' = "down"
      BY <2>2 DEF OpenTables, LoadTable, LoadThrows, LoadDone, NoCompaction,
                  CompactBegin, Compact, walVars, W!SessionEnds
    <3>2. log_phase = "clear"  BY <3>1
    <3> QED
      BY <2>2, <3>2
      DEF OpenTables, LoadTable, LoadThrows, LoadDone, NoCompaction, CompactBegin,
          Compact, S!LoadNext, S!LoadThrows, S!LoadDone, S!NextToOpen, S!Loading,
          S!MergeNext, S!CompactWrite, S!CompactWriteFails, S!CompactRename,
          S!CompactDelete, S!CompactReload, S!Merged, PartsInv, ThreadInv,
          ControlInv
  <2>3. CASE (\E k \in Key, e \in Entry : WriteCall(k, e)) \/ LogWrite \/ NoFlush
    BY <2>3 DEF WriteCall, LogWrite, NoFlush, Written, Ready, walVars,
                W!WriteBegin, W!AppendRecord, W!AfterAppend, W!AppendClose,
                W!AfterClose, W!Apply
  <2>4. CASE FlushBegin \/ FlushFails \/ ClearLog
    BY <2>4 DEF FlushBegin, FlushFails, Written, Ready, walRest, ClearLog,
                W!ClearDone
  <2>5. CASE Destroy \/ Crash
    BY <2>5 DEF Destroy, Crash, W!Shutdown, W!Crash, W!SessionEnds
  <2> QED  BY <2>1, <2>2, <2>3, <2>4, <2>5 DEF Next, Progress, Call
<1> QED  BY <1>1, <1>2, <1>3, <1>4

-----------------------------------------------------------------------------
(* The map that clients see.                                               *)

Contents ==
    IF log_phase = "clear" THEN SP!View(sst) ELSE Fold(SP!View(sst), WP!Durable)

Map == IF log_phase = "down" THEN OnDisk ELSE InMemory

\* What a restart would find and what the process knows are one map, and the
\* database is open exactly outside of the constructor.
StoreInv ==
    /\ OnDisk = Fold(SP!View(sst), WP!Durable)
    /\ Map = Contents
    /\ Ready \/ call # "none" <=> phase \notin {"down", "load"}

\* A restart finds what the log replays over what the files say.
LEMMA OnDiskIs == OnDisk = Fold(SP!View(sst), WP!Durable)
<1>1. W!TableOf(W!Replayed(logs)) = WP!Durable
  BY SameTableOf, SameReplayed, SameDurable
<1>2. S!View(sst) = SP!View(sst)  BY SameMaps
<1> QED  BY <1>1, <1>2 DEF OnDisk

\* In every phase memory and disk are two views of one map.
LEMMA StoreHolds ==
    ASSUME PartsInv
    PROVE  StoreInv
<1>1. SP!View(sst) \in LiveMap  BY SameMaps DEF PartsInv, SP!ViewTyped
<1>2. InMemory = Fold(Fold(SP!View(sst), flushing),
                      IF log_phase \in {"close", "apply"}
                      THEN Insert(mem_table, op.key, op.entry) ELSE mem_table)
  BY SameMaps DEF InMemory, Logged
<1>3. CASE phase = "flush"
  <2>1. log_phase = "idle"  BY <1>3, LogAtRest DEF PartsInv
  <2>2. mem_table = EmptyTable  BY <1>3 DEF PartsInv, ThreadInv, ControlInv
  <2>3. flushing = WP!Durable
    BY <1>3, <2>1, LogTyped, BufferedIs DEF PartsInv
  <2>4. Fold(SP!View(sst), flushing) \in LiveMap
    <3>1. flushing \in Table  BY <1>3, LogTyped, BufferedIs DEF PartsInv
    <3> QED
      BY <1>1, <3>1, EntriesAssumption DEF Fold, Live, LiveMap, Table, Entry
  <2>5. InMemory = Fold(SP!View(sst), WP!Durable)
    BY <1>2, <2>1, <2>2, <2>3, <2>4, FoldFacts
  <2> QED
    BY <1>3, <2>1, <2>5, OnDiskIs
    DEF StoreInv, Map, Contents, PartsInv, ThreadInv, ControlInv
<1>4. CASE phase # "flush"
  <2>1. flushing = EmptyTable
    BY <1>4, SameMaps DEF PartsInv, SP!IInv, SP!FlushInv
  <2>2. InMemory = Fold(SP!View(sst),
                        IF log_phase \in {"close", "apply"}
                        THEN Insert(Buffered, op.key, op.entry) ELSE Buffered)
    BY <1>1, <1>2, <1>4, <2>1, FoldFacts, BufferedIs
  <2>3. CASE log_phase = "clear"
    BY <1>1, <2>2, <2>3, LogTyped, FoldFacts, OnDiskIs
    DEF StoreInv, Map, Contents, PartsInv, ThreadInv, ControlInv
  <2>4. CASE log_phase = "down"
    BY <2>4, OnDiskIs
    DEF StoreInv, Map, Contents, PartsInv, ThreadInv, ControlInv
  <2>5. CASE log_phase \notin {"clear", "down"}
    <3>1. InMemory = Fold(SP!View(sst), WP!Durable)
      BY <2>2, <2>5, LogTyped DEF PartsInv, ThreadInv, ControlInv, W!LogPhase
    <3> QED
      BY <2>5, <3>1, OnDiskIs
      DEF StoreInv, Map, Contents, PartsInv, ThreadInv, ControlInv
  <2> QED  BY <2>3, <2>4, <2>5
<1> QED  BY <1>3, <1>4

DatabaseKept == PartsInv /\ ReplayedInFiles /\ StoreInv

\* All of it holds at every step.
LEMMA DatabaseHolds ==
    ASSUME Dependable
    PROVE  Spec => []DatabaseKept /\ [][PartsStep]_vars
<1>1. Init => ReplayedInFiles
  BY DEF Init, W!Init, ReplayedInFiles
<1> QED
  BY <1>1, PartsHold, ReplayedNext, StoreHolds, PTL DEF Spec, DatabaseKept

-----------------------------------------------------------------------------
(* The database implements the durable map.                                *)

\* A step that leaves the log alone while it is not being cleared.
LEMMA LogAlone ==
    ASSUME DatabaseKept, DatabaseKept', PartsStep,
           WP!Durable' = WP!Durable,
           log_phase # "clear", log_phase' # "clear",
           ~(phase = "flush" /\ phase' = "flushed")
    PROVE  Map' = Map
BY ViewAfter DEF DatabaseKept, StoreInv, Contents

\* Only a record reaching the log changes the map.
LEMMA MapKept ==
    ASSUME Dependable, DatabaseKept, DatabaseKept', PartsStep, Next,
           ~(LogWrite /\ W!AppendRecord)
    PROVE  Map' = Map
<1> USE DEF PartsInv, ThreadInv, ControlInv
<1>0. /\ PartsInv /\ PartsInv' /\ ReplayedInFiles
      /\ Map = Contents /\ Map' = Contents'
      /\ WP!LogInv /\ [WP!Abstract!Next]_(WP!Abstract!vars)
  BY DEF DatabaseKept, StoreInv, PartsStep
<1>1. CASE FlushEnd
  <2>1. /\ phase = "flush" /\ phase' = "flushed" /\ log_phase' = "clear"
    BY <1>1 DEF FlushEnd, S!FlushEnd
  <2>2. log_phase = "idle"  BY <1>0, <2>1, LogAtRest
  <2>3. flushing = WP!Durable  BY <1>0, <2>1, <2>2, LogTyped, BufferedIs
  <2>4. SP!View(sst') = Fold(SP!View(sst), flushing)  BY <2>1, ViewAfter
  <2> QED  BY <1>0, <2>1, <2>2, <2>3, <2>4 DEF Contents
<1>2. CASE ClearLog
  <2>1. log_phase = "clear" /\ phase = "flushed" /\ phase' = "flushed" /\ sst' = sst
    BY <1>0, <1>2 DEF ClearLog, W!ClearNext, W!ClearDone, sstVars
  <2>2. CASE W!ClearNext
    BY <1>0, <2>1, <2>2 DEF W!ClearNext, Contents
  <2>3. CASE W!ClearDone
    <3>1. log_phase' = "idle" /\ mem_table' = mem_table
      BY <2>3 DEF W!ClearDone
    <3>2. Buffered = EmptyTable  BY <1>0, <2>1, LogTyped
    <3>3. Buffered' = EmptyTable  BY <2>1, <3>1, <3>2, BufferedIs
    <3>4. WP!Durable' = EmptyTable
      BY <1>0, <3>1, <3>3 DEF WP!LogInv, WP!DurableInv
    <3>5. SP!View(sst) \in LiveMap  BY <1>0, SameMaps DEF SP!ViewTyped
    <3> QED  BY <1>0, <2>1, <3>1, <3>4, <3>5, FoldFacts DEF Contents
  <2> QED  BY <1>2, <2>2, <2>3 DEF ClearLog
<1>3. CASE Crash
  <2>1. /\ log_phase # "down" /\ log_phase' = "down" /\ phase' = "down"
        /\ "crash" \in LogFaults
    BY <1>3 DEF Crash, W!Crash, W!SessionEnds, S!Crash, S!SessionEnds, sstVars
  <2>2. WP!Durable' = WP!Durable  BY <1>0, <2>1, DurableStep
  <2>3. SP!View(sst') = SP!View(sst)  BY <2>1, ViewAfter
  <2>4. W!OneSegment  BY <2>1 DEF Dependable, W!Orderly
  <2> QED  BY <1>0, <2>1, <2>2, <2>3, <2>4 DEF Contents, ReplayedInFiles
<1>4. CASE RecoverLog
  <2>1. /\ log_phase \notin {"append", "clear"} /\ log_phase' # "clear"
        /\ phase' # "flushed"
    BY <1>4 DEF RecoverLog, W!Recovery, W!Restore, W!Truncate, W!TruncateThrows,
                W!SessionEnds, W!DropHigher, W!DropDone, W!OpenWriter, sstVars
  <2>2. WP!Durable' = WP!Durable  BY <1>0, <2>1, DurableStep
  <2> QED  BY <2>1, <2>2, LogAlone
<1>5. CASE LogWrite
  <2>1. /\ log_phase \notin {"append", "clear"} /\ log_phase' # "clear"
        /\ phase' = phase
    BY <1>5 DEF LogWrite, W!AppendClose, W!AfterClose, W!Apply, sstVars
  <2>2. WP!Durable' = WP!Durable  BY <1>0, <2>1, DurableStep
  <2> QED  BY <2>1, <2>2, LogAlone
<1>6. CASE \/ \E k \in Key, e \in Entry : WriteCall(k, e)
           \/ NoFlush \/ FlushBegin \/ FlushFails \/ Destroy
  <2>1. /\ logs' = logs /\ log_phase # "clear" /\ log_phase' # "clear"
        /\ phase = "idle"
    BY <1>6 DEF WriteCall, W!WriteBegin, NoFlush, FlushBegin, FlushFails, Destroy,
                Written, Ready, walRest, walVars, W!Shutdown, W!SessionEnds
  <2> QED  BY <2>1, SameDurable, LogAlone
<1>7. CASE \/ OpenTables \/ LoadTable \/ LoadThrows \/ LoadDone
           \/ NoCompaction \/ CompactBegin \/ Compact
  <2>1. logs' = logs /\ (log_phase' = log_phase \/ log_phase' = "down")
    BY <1>7 DEF OpenTables, LoadTable, LoadThrows, LoadDone, NoCompaction,
                CompactBegin, Compact, walVars, W!SessionEnds
  <2>2. log_phase = "idle" \/ phase # "flushed"
    BY <1>7 DEF OpenTables, LoadTable, LoadThrows, LoadDone, NoCompaction,
                CompactBegin, Compact, S!LoadNext, S!LoadThrows, S!LoadDone,
                S!NextToOpen, S!Loading, S!MergeNext, S!CompactWrite,
                S!CompactWriteFails, S!CompactRename, S!CompactDelete,
                S!CompactReload, S!Merged
  <2>3. log_phase # "clear" /\ log_phase' # "clear"  BY <1>0, <2>1, <2>2
  <2>4. phase # "flush"
    BY <1>7 DEF OpenTables, LoadTable, LoadThrows, LoadDone, NoCompaction,
                CompactBegin, Compact, S!Open, S!LoadNext, S!LoadThrows, S!LoadDone,
                S!NextToOpen, S!Loading, S!NoCompaction, S!CompactBegin,
                S!MergeNext, S!CompactWrite, S!CompactWriteFails,
                S!CompactRename, S!CompactDelete, S!CompactReload, S!Merged
  <2> QED  BY <2>1, <2>3, <2>4, SameDurable, LogAlone
<1> QED
  BY <1>1, <1>2, <1>3, <1>4, <1>5, <1>6, <1>7 DEF Next, Progress, Call

\* A record takes effect when it reaches the log.
LEMMA AppendCommits ==
    ASSUME DatabaseKept, DatabaseKept', PartsStep, LogWrite, W!AppendRecord
    PROVE  /\ Map' = [Map EXCEPT ![op.key] = Live(op.entry)]
           /\ log_phase = "append" /\ log_phase' # "append" /\ op # W!NoOp
<1>0. /\ PartsInv /\ Map = Contents /\ Map' = Contents'
      /\ WP!LogInv /\ [WP!Abstract!Next]_(WP!Abstract!vars)
  BY DEF DatabaseKept, StoreInv, PartsStep, PartsInv
<1>1. /\ log_phase = "append" /\ log_phase' \in {"close", "apply"} /\ sst' = sst
      /\ phase' = phase
  BY DEF LogWrite, W!AppendRecord, W!AfterAppend, sstVars
<1>2. WP!Durable' = Insert(Buffered, op.key, op.entry)
  BY <1>0, <1>1, DurableStep
<1>3. /\ Buffered = WP!Durable /\ Buffered \in Table
      /\ op.key \in Key /\ op.entry \in Entry /\ op # W!NoOp
  BY <1>0, <1>1, LogTyped, SameTables
<1> QED  BY <1>0, <1>1, <1>2, <1>3, FoldFacts DEF Contents

\* The first start finds nothing.
LEMMA StoreInit ==
    ASSUME Init, WP!Abstract!Init
    PROVE  Store!Init
<1>1. log_phase = "down" /\ phase = "down" /\ call = "none" /\ sst = [n \in {} |-> Stub]
  BY DEF Init, S!Init, W!Init
<1>2. WP!Durable = EmptyTable
  BY DEF WP!Abstract!Init, WP!Abstract!EmptyTable, EmptyTable
<1>3. SP!View(sst) = EmptyTable
  <2>1. S!View(sst) = EmptyTable
    BY <1>1 DEF S!View, S!ViewOf, S!Holders, EmptyTable
  <2> QED  BY <2>1, SameMaps
<1>4. OnDisk = EmptyTable
  BY <1>2, <1>3, OnDiskIs DEF Fold, EmptyTable
<1>5. Store!EmptyTable = EmptyTable /\ Store!NoOp = W!NoOp
  BY DEF Store!EmptyTable, EmptyTable, Store!NoOp, W!NoOp
<1> QED  BY <1>1, <1>4, <1>5 DEF Store!Init, Ready

Pending == IF log_phase = "append" THEN op ELSE W!NoOp
Running == Ready \/ call # "none"

\* The database is open outside of the constructor.
LEMMA RunningIs ==
    ASSUME DatabaseKept, DatabaseKept'
    PROVE  /\ Running = (phase \notin {"down", "load"})
           /\ Running' = (phase' \notin {"down", "load"})
BY DEF DatabaseKept, StoreInv, Running

\* A call begins, takes effect with its record in the log, and every other step
\* of the call and of the constructor is one the client cannot tell.
LEMMA StoreStep ==
    ASSUME Dependable, DatabaseKept, DatabaseKept', [Next /\ PartsStep]_vars
    PROVE  [Store!Next]_(Store!vars)
<1>0. Store!NoOp = W!NoOp  BY DEF Store!NoOp, W!NoOp
<1>1. CASE UNCHANGED vars
  BY <1>1
  DEF vars, sstVars, walVars, Store!vars, OnDisk, InMemory, Logged, Ready
<1>2. ASSUME NEW k \in Key, NEW e \in Entry, WriteCall(k, e), PartsStep
      PROVE  [Store!Next]_(Store!vars)
  <2>1. Map' = Map
    BY <1>2, MapKept
    DEF WriteCall, Next, Call, LogWrite, Ready, W!AppendRecord
  <2>2. Pending = W!NoOp /\ Pending' = [key |-> k, entry |-> e] /\ Running /\ Running'
    BY <1>2 DEF WriteCall, W!WriteBegin, Ready, Pending, Running, sstVars
  <2>3. Store!Begin(k, e)
    BY <1>0, <2>1, <2>2 DEF Store!Begin, Map, Pending, Running
  <2>4. e \in Store!Entry  BY DEF Entry, Store!Entry
  <2> QED  BY <2>3, <2>4 DEF Store!Next
<1>3. CASE LogWrite /\ W!AppendRecord /\ PartsStep
  <2>1. /\ Map' = [Map EXCEPT ![op.key] = Live(op.entry)]
        /\ log_phase = "append" /\ log_phase' # "append" /\ op # W!NoOp
    BY <1>3, AppendCommits
  <2>2. Pending = op /\ Pending' = W!NoOp  BY <2>1 DEF Pending
  <2>3. Running' = Running
    BY <1>3, RunningIs DEF LogWrite, sstVars
  <2>4. Store!Live(op.entry) = Live(op.entry)  BY DEF Store!Live, Live
  <2>5. Store!Commit
    BY <1>0, <2>1, <2>2, <2>3, <2>4 DEF Store!Commit, Map, Pending, Running
  <2> QED  BY <2>5 DEF Store!Next
<1>4. CASE (Destroy \/ Crash) /\ PartsStep
  <2>1. Map' = Map
    BY <1>4, MapKept
    DEF Next, Call, Destroy, Crash, W!Shutdown, W!Crash, W!SessionEnds,
        W!AppendRecord, W!AfterAppend
  <2>2. log_phase' = "down" /\ phase' = "down"
    BY <1>4 DEF Destroy, Crash, W!Shutdown, W!Crash, W!SessionEnds, S!Destroy,
                S!Crash, S!SessionEnds, sstVars
  <2>3. Pending' = W!NoOp /\ ~Running'  BY <2>2, RunningIs DEF Pending
  <2>4. CASE Running
    <3>1. Store!Stop
      BY <1>0, <2>1, <2>3, <2>4 DEF Store!Stop, Map, Pending, Running
    <3> QED  BY <3>1 DEF Store!Next
  <2>5. CASE ~Running
    <3>1. phase \in {"down", "load"}  BY <2>5, RunningIs
    <3>2. Pending = W!NoOp
      BY <3>1 DEF Pending, DatabaseKept, PartsInv, ThreadInv, ControlInv
    <3>3. Running' = Running  BY <2>3, <2>5 DEF Running
    <3> QED  BY <2>1, <2>3, <3>2, <3>3 DEF Store!vars, Map, Pending, Running
  <2> QED  BY <2>4, <2>5
<1>5. CASE LoadDone /\ phase = "load" /\ PartsStep
  <2>1. log_phase = "idle" /\ log_phase' = "idle" /\ phase' = "idle"
    <3>1. log_phase = "idle"
      BY <1>5, LogAtRest DEF DatabaseKept, PartsInv
    <3> QED  BY <1>5, <3>1 DEF LoadDone, S!LoadDone, walVars
  <2>2. Map' = Map
    BY <1>5, <2>1, MapKept DEF Next, Progress, LogWrite, W!AppendRecord
  <2>3. Pending = W!NoOp /\ Pending' = W!NoOp  BY <2>1 DEF Pending
  <2>4. ~Running /\ Running'  BY <1>5, <2>1, RunningIs
  <2>5. Store!Start
    <3>1. Running' = TRUE  BY <2>4 DEF Running
    <3> QED  BY <2>2, <2>3, <2>4, <3>1 DEF Store!Start, Map, Pending, Running
  <2> QED  BY <2>5 DEF Store!Next
<1>6. CASE /\ Next /\ PartsStep
           /\ ~(LogWrite /\ W!AppendRecord)
           /\ ~(\E k \in Key, e \in Entry : WriteCall(k, e))
           /\ ~Destroy /\ ~Crash /\ ~(LoadDone /\ phase = "load")
  <2>1. Map' = Map  BY <1>6, MapKept
  <2>2. log_phase # "append" /\ log_phase' # "append"
    <3>1. CASE RecoverLog
      BY <3>1 DEF RecoverLog, W!Recovery, W!Restore, W!Truncate, W!TruncateThrows,
                  W!SessionEnds, W!DropHigher, W!DropDone, W!OpenWriter
    <3>2. CASE LogWrite
      BY <1>6, <3>2 DEF LogWrite, W!AppendClose, W!AfterClose, W!Apply
    <3>3. CASE NoFlush \/ FlushBegin \/ FlushFails
      BY <3>3 DEF NoFlush, FlushBegin, FlushFails, Written, Ready, walRest, walVars
    <3>4. CASE FlushEnd \/ ClearLog
      BY <3>4 DEF FlushEnd, S!FlushEnd, ClearLog, W!ClearNext, W!ClearDone,
                  DatabaseKept, PartsInv, ThreadInv, ControlInv
    <3>5. CASE \/ OpenTables \/ LoadTable \/ LoadThrows \/ LoadDone
               \/ NoCompaction \/ CompactBegin \/ Compact
      <4>1. log_phase' = log_phase \/ log_phase' = "down"
        BY <3>5 DEF OpenTables, LoadTable, LoadThrows, LoadDone, NoCompaction,
                    CompactBegin, Compact, walVars, W!SessionEnds
      <4>2. log_phase = "idle" \/ phase # "idle"
        BY <3>5 DEF OpenTables, LoadTable, LoadThrows, LoadDone, NoCompaction,
                    CompactBegin, Compact, S!LoadNext, S!LoadThrows, S!LoadDone,
                    S!NextToOpen, S!Loading, S!MergeNext, S!CompactWrite,
                    S!CompactWriteFails, S!CompactRename, S!CompactDelete,
                    S!CompactReload, S!Merged
      <4> QED  BY <4>1, <4>2 DEF DatabaseKept, PartsInv, ThreadInv, ControlInv
    <3> QED  BY <1>6, <3>1, <3>2, <3>3, <3>4, <3>5 DEF Next, Progress, Call
  <2>3. (phase \in {"down", "load"}) = (phase' \in {"down", "load"})
    <3>1. CASE RecoverLog \/ LogWrite \/ ClearLog \/ NoFlush \/ FlushFails
      BY <3>1 DEF RecoverLog, LogWrite, ClearLog, NoFlush, FlushFails, sstVars
    <3>2. CASE FlushBegin \/ FlushEnd \/ NoCompaction \/ CompactBegin \/ Compact
      BY <3>2 DEF FlushBegin, FlushEnd, NoCompaction, CompactBegin, Compact,
                  S!FlushBegin, S!FlushEnd, S!NoCompaction, S!CompactBegin,
                  S!MergeNext, S!CompactWrite, S!CompactWriteFails,
                  S!CompactRename, S!CompactDelete, S!CompactReload, S!Merged
    <3>3. CASE OpenTables \/ LoadTable \/ LoadThrows \/ LoadDone
      BY <1>6, <3>3 DEF OpenTables, LoadTable, LoadThrows, LoadDone, S!Open,
                  S!LoadNext, S!LoadThrows, S!LoadDone, S!NextToOpen, S!Loading
    <3> QED  BY <1>6, <3>1, <3>2, <3>3 DEF Next, Progress, Call
  <2>4. Running' = Running  BY <2>3, RunningIs
  <2>5. Pending' = Pending  BY <2>2 DEF Pending, W!NoOp
  <2> QED  BY <2>1, <2>4, <2>5 DEF Store!vars, Map, Pending, Running
<1> QED  BY <1>1, <1>2, <1>3, <1>4, <1>5, <1>6

-----------------------------------------------------------------------------
(* The theorems.                                                           *)

\* Put, remove, flush, clearing, compaction, recovery and a crash at any point of
\* each: the database is a durable map.
THEOREM RefinesKVStoreHolds ==
    ASSUME Dependable
    PROVE  Spec => RefinesKVStore
<1>1. W!Orderly  BY DEF Dependable
<1>2. Spec => WP!Abstract!Init
  BY <1>1, LogKeepsItsPromise, PTL DEF WP!RefinesDurableTable, WP!Abstract!Spec
<1>3. Init /\ WP!Abstract!Init => Store!Init  BY StoreInit
<1>4. DatabaseKept /\ DatabaseKept' /\ [Next /\ PartsStep]_vars
         => [Store!Next]_(Store!vars)
  BY StoreStep
<1> QED
  BY <1>2, <1>3, <1>4, DatabaseHolds, PTL DEF Spec, RefinesKVStore, Store!Spec

\* A client reads what a restart at this moment would read.
THEOREM GetReadsDiskHolds ==
    ASSUME Dependable
    PROVE  Spec => []GetReadsDisk
<1>1. DatabaseKept => GetReadsDisk
  <2> SUFFICES ASSUME DatabaseKept, Ready, call = "none", NEW k \in Key
               PROVE  Get(k) = OnDisk[k]
    BY DEF GetReadsDisk
  <2>1. mem_table = WP!Durable
    BY LogTyped, BufferedIs DEF DatabaseKept, PartsInv, Ready
  <2>2. OnDisk = Fold(SP!View(sst), mem_table)
    BY <2>1 DEF DatabaseKept, StoreInv
  <2>3. SP!ReadersGet(k) = SP!View(sst)[k]
    BY DEF DatabaseKept, PartsInv, SP!SessionReads, Ready
  <2>4. S!ReadersGet(k) = SP!ReadersGet(k)
    BY SameMaps DEF S!ReadersGet, SP!ReadersGet, S!Newest, SP!Newest, S!Live, SP!Live
  <2> QED  BY <2>2, <2>3, <2>4 DEF Get, Fold
<1> QED  BY <1>1, DatabaseHolds, PTL

\* Between two calls the log holds exactly the memtable.
THEOREM LogIsMemTableHolds ==
    ASSUME Dependable
    PROVE  Spec => []LogIsMemTable
<1>1. DatabaseKept => LogIsMemTable
  <2> SUFFICES ASSUME DatabaseKept, Ready
               PROVE  W!TableOf(W!Replayed(logs)) = mem_table
    BY DEF LogIsMemTable
  <2>1. mem_table = WP!Durable
    BY LogTyped, BufferedIs DEF DatabaseKept, PartsInv, Ready
  <2> QED  BY <2>1, SameTableOf, SameReplayed, SameDurable
<1> QED  BY <1>1, DatabaseHolds, PTL

\* The invariant of SSTables is one formula in both of its instances.
LEMMA SameTablesInv == SP!IInv <=> S!IInv
BY DEF S!Opened, S!Holders, S!ViewOf, S!View, S!Live, S!Table, S!Entry, S!LiveMap,
       S!EmptyTable, S!Segment, S!Content, S!Phase, S!LatestSegment, S!Newest,
       S!Target, S!Unopened, S!Loading, S!Ordered, S!Inputs, S!TypeOK,
       S!NumberingInv, S!TypeInv, S!ReadersInv, S!WriterInv, S!FlushInv,
       S!CompleteInv, S!MergeInv, S!PublishInv, S!DeleteInv, S!ReloadInv, S!IInv,
       SP!Opened, SP!Holders, SP!ViewOf, SP!View, SP!Live, SP!Table, SP!Entry,
       SP!LiveMap, SP!EmptyTable, SP!Segment, SP!Content, SP!Phase,
       SP!LatestSegment, SP!Newest, SP!Target, SP!Unopened, SP!Loading, SP!Ordered,
       SP!Inputs, SP!TypeOK, SP!NumberingInv, SP!TypeInv, SP!ReadersInv,
       SP!WriterInv, SP!FlushInv, SP!CompleteInv, SP!MergeInv, SP!PublishInv,
       SP!DeleteInv, SP!ReloadInv, SP!IInv

\* So is the log's.
LEMMA SameLogInv == WP!LogInv <=> Log!LogInv
<1>1. /\ Log!LogSegment = WP!LogSegment /\ Log!Table = WP!Table /\ Log!Op = WP!Op
      /\ Log!NoOp = WP!NoOp /\ Log!LogPhase = WP!LogPhase
      /\ Log!EmptyTable = WP!EmptyTable
      /\ Log!OneSegment <=> WP!OneSegment
      /\ \A f : Log!Size(f) = WP!Size(f)
      /\ \A f : Log!Whole(f) <=> WP!Whole(f)
      /\ \A t, k, e : Log!Insert(t, k, e) = WP!Insert(t, k, e)
  BY DEF Log!LogSegment, WP!LogSegment, Log!Record, WP!Record, Log!Table, WP!Table,
         Log!Entry, WP!Entry, Log!Op, WP!Op, Log!NoOp, WP!NoOp, Log!LogPhase,
         WP!LogPhase, Log!EmptyTable, WP!EmptyTable, Log!OneSegment, WP!OneSegment,
         Log!Size, WP!Size, Log!Whole, WP!Whole, Log!IsRecord, WP!IsRecord,
         Log!Insert, WP!Insert
<1>2. \A dir, limit : Log!Resolve(dir, limit) = WP!Resolve(dir, limit)
  BY <1>1, SameLatest DEF Log!Resolve, WP!Resolve
<1>3. WP!TypeOK <=> Log!TypeOK  BY <1>1 DEF WP!TypeOK, Log!TypeOK
<1>4. WP!SegmentsInv <=> Log!SegmentsInv
  BY <1>1, SameEnd DEF WP!SegmentsInv, Log!SegmentsInv
<1>5. WP!SingleInv <=> Log!SingleInv
  BY <1>1 DEF WP!SingleInv, Log!SingleInv
<1>6. WP!SealedInv <=> Log!SealedInv
  BY SameEnd, SameContent, SameLatest
  DEF WP!SealedInv, Log!SealedInv, WP!Sealed, Log!Sealed
<1>7. WP!CutInv <=> Log!CutInv
  BY <1>1 DEF WP!CutInv, Log!CutInv
<1>8. WP!ActiveInv <=> Log!ActiveInv
  BY <1>1, <1>2, SameContent, SameLatest DEF WP!ActiveInv, Log!ActiveInv
<1>9. WP!DurableInv <=> Log!DurableInv
  BY <1>1, SameDurable DEF WP!DurableInv, Log!DurableInv
<1> QED
  BY <1>3, <1>4, <1>5, <1>6, <1>7, <1>8, <1>9 DEF WP!LogInv, Log!LogInv

\* The inductive invariant: the directory's, the log's, where the thread is, and
\* that what a cleared log still replays is in the files.
THEOREM DatabaseInvHolds ==
    ASSUME Dependable
    PROVE  Spec => []DatabaseInv
<1>1. DatabaseKept => ClearInv
  BY SameMaps, SameDurable DEF DatabaseKept, ReplayedInFiles, ClearInv
<1>2. DatabaseKept => DatabaseInv
  BY <1>1, SameTablesInv, SameLogInv DEF DatabaseKept, PartsInv, ThreadInv, DatabaseInv
<1> QED  BY <1>2, DatabaseHolds, PTL

\* Every variable of both parts has its type, and a call is under way only while
\* the database is open.
THEOREM TypeCorrect ==
    ASSUME Dependable
    PROVE  Spec => []TypeOK
<1>1. DatabaseInv => S!TypeOK
  BY DEF DatabaseInv, S!IInv, S!TypeInv
<1>2. DatabaseKept => W!TypeOK
  <2>1. /\ W!LogSegment = WP!LogSegment /\ W!Table = WP!Table /\ W!Op = WP!Op
        /\ W!NoOp = WP!NoOp /\ W!LogPhase = WP!LogPhase
    BY DEF W!LogSegment, WP!LogSegment, W!Record, WP!Record, W!Table, WP!Table,
           W!Entry, WP!Entry, W!Op, WP!Op, W!NoOp, WP!NoOp, W!LogPhase, WP!LogPhase
  <2>2. DatabaseKept => mem_table \in WP!Table
    BY MemTableTyped, SameMaps, SameTables DEF DatabaseKept, PartsInv
  <2> QED
    BY <2>1, <2>2 DEF DatabaseKept, PartsInv, WP!LogInv, WP!TypeOK, W!TypeOK
<1>3. ControlInv => /\ call \in {"none", "write", "compact"}
                    /\ call # "none" => phase # "down" /\ log_phase # "down"
  BY DEF ControlInv
<1>4. DatabaseKept /\ DatabaseInv => TypeOK
  BY <1>1, <1>2, <1>3 DEF TypeOK, DatabaseInv
<1> QED  BY <1>4, DatabaseHolds, DatabaseInvHolds, PTL

\* To the log, put, flush and clearing together are a memtable that outlives the
\* process: a step of the database is a step of DurableTable or none.
THEOREM RefinesDurableTableHolds ==
    ASSUME W!Orderly
    PROVE  Spec => RefinesDurableTable
<1>1. /\ \A t, k, e : Log!Insert(t, k, e) = WP!Insert(t, k, e)
      /\ \A t, k, e : Log!Abstract!Insert(t, k, e) = WP!Abstract!Insert(t, k, e)
  BY DEF Log!Insert, WP!Insert, Log!Abstract!Insert, WP!Abstract!Insert
<1>2. /\ Log!NoOp = WP!NoOp /\ Log!OneSegment = WP!OneSegment
      /\ Log!Abstract!NoOp = WP!Abstract!NoOp
      /\ Log!Abstract!EmptyTable = WP!Abstract!EmptyTable
      /\ Log!Abstract!Table = WP!Abstract!Table
      /\ Log!Abstract!Entry = WP!Abstract!Entry
  BY DEF Log!NoOp, WP!NoOp, Log!OneSegment, WP!OneSegment, Log!Abstract!NoOp,
         WP!Abstract!NoOp, Log!Abstract!EmptyTable, WP!Abstract!EmptyTable,
         Log!Abstract!Table, WP!Abstract!Table, Log!Abstract!Entry,
         WP!Abstract!Entry
<1>3. WP!Abstract!Init => Log!Abstract!Init
  BY <1>1, <1>2, SameDurable DEF WP!Abstract!Init, Log!Abstract!Init
<1>4. Log!Abstract!vars = WP!Abstract!vars /\ Log!Abstract!vars' = WP!Abstract!vars'
  BY <1>1, <1>2, SameDurable DEF Log!Abstract!vars, WP!Abstract!vars
<1>5. WP!Abstract!Next => Log!Abstract!Next
  <2>1. WP!Abstract!Open => Log!Abstract!Open
    BY <1>1, <1>2, SameDurable DEF WP!Abstract!Open, Log!Abstract!Open
  <2>2. \A k, e : WP!Abstract!Begin(k, e) => Log!Abstract!Begin(k, e)
    BY <1>1, <1>2, SameDurable DEF WP!Abstract!Begin, Log!Abstract!Begin
  <2>3. WP!Abstract!Commit => Log!Abstract!Commit
    BY <1>1, <1>2, SameDurable DEF WP!Abstract!Commit, Log!Abstract!Commit
  <2>4. WP!Abstract!Clear => Log!Abstract!Clear
    BY <1>1, <1>2, SameDurable DEF WP!Abstract!Clear, Log!Abstract!Clear
  <2>5. WP!Abstract!Lose => Log!Abstract!Lose
    BY <1>1, <1>2, SameDurable DEF WP!Abstract!Lose, Log!Abstract!Lose
  <2>6. WP!Abstract!Cleared => Log!Abstract!Cleared
    BY <1>1, <1>2, SameDurable DEF WP!Abstract!Cleared, Log!Abstract!Cleared
  <2>7. WP!Abstract!Stop => Log!Abstract!Stop
    BY <1>1, <1>2, SameDurable DEF WP!Abstract!Stop, Log!Abstract!Stop
  <2> QED
    BY <1>2, <2>1, <2>2, <2>3, <2>4, <2>5, <2>6, <2>7
    DEF WP!Abstract!Next, Log!Abstract!Next
<1>6. [WP!Abstract!Next]_(WP!Abstract!vars) => [Log!Abstract!Next]_(Log!Abstract!vars)
  BY <1>4, <1>5
<1> QED
  BY <1>3, <1>6, LogKeepsItsPromise, PTL
  DEF RefinesDurableTable, Log!RefinesDurableTable, Log!Abstract!Spec,
      WP!RefinesDurableTable, WP!Abstract!Spec

=============================================================================
