----------------------------- MODULE WALProofs -----------------------------
(***************************************************************************)
(* The write-ahead log: type correctness, what a repair keeps, when a log  *)
(* becomes one that no constructor accepts, and that the memtable is what  *)
(* was logged; for all keys, values, limits, bounds and faults.            *)
(***************************************************************************)
EXTENDS WALHistory, LogProofs

-----------------------------------------------------------------------------
(* When the next constructor throws: a segment is missing below the latest *)
(* and everything before it ends well.                                     *)

Gap(dir, m) ==
    /\ m \in 1 .. LatestSegment(dir)
    /\ m \notin DOMAIN dir
    /\ \A i \in 1 .. m - 1 : ReachedEof(Content(dir, i))

LEMMA StrandedIsGap ==
    ASSUME NEW dir, IsLog(dir)
    PROVE  Stranded(dir) <=> \E m : Gap(dir, m)
<1>1. ASSUME Stranded(dir) PROVE \E m : Gap(dir, m)
  <2>1. ~ResultOf(dir).clean /\ ResultOf(dir).segment \notin DOMAIN dir
    BY <1>1 DEF Stranded
  <2>2. /\ StopSegment(dir) \notin DOMAIN dir
        /\ StopSegment(dir) \in 1 .. LatestSegment(dir)
    BY <2>1, FlaggedSegment
  <2>3. Gap(dir, StopSegment(dir))  BY <2>2, StopSegmentBounds DEF Gap
  <2> QED  BY <2>3
<1>2. ASSUME NEW m, Gap(dir, m) PROVE Stranded(dir)
  <2>1. /\ m \in 1 .. LatestSegment(dir) /\ m \notin DOMAIN dir
        /\ \A i \in 1 .. m - 1 : ReachedEof(Content(dir, i))
    BY <1>2 DEF Gap
  <2>2. ~ReachedEof(Content(dir, m))  BY <2>1, MissingAtEnd
  <2>3. StopSegment(dir) = m  BY <2>1, <2>2, StopSegmentIs
  <2>4. m # LatestSegment(dir) /\ m # 0
    <3>1. LatestSegment(dir) \in DOMAIN dir \cup {0} /\ LatestSegment(dir) \in Nat
      BY LatestTyped, WALAssumption
    <3> QED  BY <2>1, <3>1
  <2>5. ~Clean(dir, m)  BY <2>2, <2>4 DEF Clean
  <2>6. ~ResultOf(dir).clean /\ ResultOf(dir).segment = m
    BY <2>3, <2>4, <2>5 DEF ResultOf
  <2> QED  BY <2>1, <2>6 DEF Stranded
<1> QED  BY <1>1, <1>2

\* Writing to the latest segment or to the one after it leaves no gap.
LEMMA WritingStrandsNothing ==
    ASSUME NEW dir, IsLog(dir), NEW p \in 1 .. MaxLog, NEW c \in LogSegment,
           p \in {LatestSegment(dir), LatestSegment(dir) + 1},
           Stranded(WithFile(dir, p, c))
    PROVE  Stranded(dir)
<1> DEFINE new == WithFile(dir, p, c)
<1>1. IsLog(new) /\ LatestSegment(new) = p
  BY WithFileIsLog, LatestWithFile
<1>2. DOMAIN new = DOMAIN dir \cup {p}  BY DEF WithFile
<1>3. PICK m : Gap(new, m)  BY <1>1, StrandedIsGap
<1>4. \A n : n # p => Content(new, n) = Content(dir, n)  BY ContentWithFile
<1> HIDE DEF new
<1>5. /\ m \in 1 .. p /\ m # p /\ m \notin DOMAIN dir
      /\ \A i \in 1 .. m - 1 : ReachedEof(Content(new, i))
  BY <1>1, <1>2, <1>3 DEF Gap
<1>6. LatestSegment(dir) \in Nat  BY LatestTyped, WALAssumption
<1>7. m \in 1 .. LatestSegment(dir)  BY <1>5, <1>6
<1>8. \A i \in 1 .. m - 1 : ReachedEof(Content(dir, i))
  <2> TAKE i \in 1 .. m - 1
  <2>1. i # p  BY <1>5
  <2> QED  BY <2>1, <1>4, <1>5
<1>9. Gap(dir, m)  BY <1>5, <1>7, <1>8 DEF Gap
<1> QED  BY <1>9, StrandedIsGap

\* A log whose first segment that does not end well exists is not stranded.
LEMMA RepairStrandsNothing ==
    ASSUME NEW dir, IsLog(dir), NEW s \in DOMAIN dir, Whole(dir[s]),
           \A i \in 1 .. s - 1 : ReachedEof(Content(dir, i))
    PROVE  ~Stranded(dir)
<1>1. s \in 1 .. MaxLog  BY DEF IsLog
<1>2. s \in 1 .. LatestSegment(dir)  BY <1>1, LatestTyped, WALAssumption
<1>3. Content(dir, s) = dir[s] /\ dir[s] \in LogSegment
  BY DEF Content, IsLog
<1>4. StopSegment(dir) = s  BY <1>2, <1>3, WholeAtEnd, StopSegmentIs
<1> QED  BY <1>4, FlaggedSegment DEF Stranded

LEMMA RotKeeps ==
    ASSUME NEW dir, IsLog(dir), NEW n \in DOMAIN dir,
           NEW j \in DOMAIN dir[n].cells,
           NEW new, new = [dir EXCEPT ![n].cells[j] = Corrupt]
    PROVE  /\ IsLog(new)
           /\ Stranded(new) => Stranded(dir)
<1> DEFINE f == dir[n]
           g == [cells |-> [f.cells EXCEPT ![j] = Corrupt], torn |-> f.torn]
<1>1. f \in LogSegment  BY DEF IsLog
<1>2. g \in LogSegment /\ (ReachedEof(g) => ReachedEof(f))
  BY <1>1, SpoiledSegment
<1>3. [f EXCEPT !.cells = [f.cells EXCEPT ![j] = Corrupt]] = g
  BY <1>1, CellsReplaced
<1>4. new = [dir EXCEPT ![n] = g]  BY <1>3
<1> HIDE DEF g, f
<1>5. DOMAIN new = DOMAIN dir /\ new[n] = g
      /\ \A i \in DOMAIN dir : i # n => new[i] = dir[i]
  BY <1>4
<1>6. IsLog(new)  BY <1>2, <1>5 DEF IsLog
<1>7. LatestSegment(new) = LatestSegment(dir)  BY <1>5 DEF LatestSegment
<1>8. \A i : ReachedEof(Content(new, i)) => ReachedEof(Content(dir, i))
  <2> TAKE i
  <2>1. CASE i = n  BY <2>1, <1>2, <1>5 DEF Content, f
  <2>2. CASE i # n  BY <2>2, <1>5 DEF Content
  <2> QED  BY <2>1, <2>2
<1>9. ASSUME Stranded(new) PROVE Stranded(dir)
  <2>1. PICK m : Gap(new, m)  BY <1>6, <1>9, StrandedIsGap
  <2>2. Gap(dir, m)  BY <2>1, <1>5, <1>7, <1>8 DEF Gap
  <2> QED  BY <2>2, StrandedIsGap
<1> QED  BY <1>6, <1>9

-----------------------------------------------------------------------------
(* The invariant is inductive: one lemma per kind of step.                 *)

\* What the observers do, by the kind of step.
LEMMA Observed ==
    ASSUME Observe
    PROVE  /\ log_phase = "down" /\ log_phase' \in {"truncate", "open"}
                => history' = Replayed(logs)
           /\ log_phase = "apply" /\ log_phase' = "idle"
                => history' = Append(history, op)
           /\ log_phase = "clear" /\ log_phase' = "idle" => history' = << >>
           /\ ~ (/\ log_phase \in {"down", "apply", "clear"}
                 /\ log_phase' \in {"truncate", "open", "idle"})
                => history' = history
           /\ log_phase = "down" /\ log_phase' = "down" => died' = "rot"
           /\ log_phase # "down" /\ log_phase' = "down" => died' = log_phase
BY DEF Observe, Restores

LEMMA InitEstablishes == HInit => IInv
<1> SUFFICES ASSUME HInit PROVE IInv  OBVIOUS
<1> USE DEF HInit, Init
<1>1. TypeOK
  <2>1. DOMAIN logs \subseteq 1 .. MaxLog /\ \A n \in DOMAIN logs : logs[n] \in LogSegment
    OBVIOUS
  <2>2. /\ 0 \in 0 .. MaxLog /\ 0 \in 0 .. MaxLog + 1 /\ 0 \in Nat
        /\ log_phase \in LogPhase
    BY WALAssumption DEF LogPhase
  <2> QED  BY <2>1, <2>2, EmptyTableTyped, CleanResultTyped DEF TypeOK
<1>2. WriterInv  BY DEF WriterInv
<1>3. RepairInv  BY DEF RepairInv, Repairing
<1>4. MemTableInv  BY NothingLogged DEF MemTableInv
<1> QED  BY <1>1, <1>2, <1>3, <1>4 DEF IInv

LEMMA RestoreKeeps ==
    ASSUME IInv, Restore, Observe
    PROVE  IInv'
<1>1. IsLog(logs) /\ TypeOK /\ logs' = logs
  BY TypedLog DEF IInv, Restore
<1>2. Replayed(logs) \in Seq(Op)  BY <1>1, ReplayedTyped
<1>3. /\ recovery_result' = ResultOf(logs)
      /\ mem_table' = TableOf(Replayed(logs))
      /\ log_phase' = IF recovery_result'.clean THEN "open" ELSE "truncate"
      /\ log_phase = "down"
  BY DEF Restore
<1>4. history' = Replayed(logs)  BY <1>3, Observed
<1>5. /\ recovery_result' \in [clean : BOOLEAN, segment : 0 .. MaxLog,
                               last_clean_offset : Nat]
      /\ recovery_result'.clean => ResultOf(logs) = CleanResult
  BY <1>1, <1>3, ResultTyped
<1>6. mem_table' \in Table  BY <1>2, <1>3, TableOfTyped
<1>7. TypeOK'
  BY <1>1, <1>3, <1>5, <1>6 DEF TypeOK, Restore, LogPhase
<1>8. WriterInv'  BY <1>3 DEF WriterInv
<1>9. RepairInv'  BY <1>1, <1>3, <1>4, <1>5 DEF RepairInv, Repairing
<1>10. MemTableInv'  BY <1>2, <1>3, <1>4 DEF MemTableInv
<1> QED  BY <1>7, <1>8, <1>9, <1>10 DEF IInv

LEMMA TruncateInv ==
    ASSUME IInv, Truncate, Observe
    PROVE  IInv' /\ ~Stranded(logs')
<1> DEFINE s == recovery_result.segment
<1>1. IsLog(logs) /\ TypeOK /\ log_phase = "truncate" /\ log_phase' = "drop"
      /\ s \in DOMAIN logs
  BY TypedLog DEF IInv, Truncate
<1>2. recovery_result = ResultOf(logs) /\ ~ResultOf(logs).clean
  BY <1>1 DEF IInv, RepairInv
<1>3. logs' = WithFile(logs, s,
         [cells |-> SubSeq(logs[s].cells, 1, ResultOf(logs).last_clean_offset),
          torn  |-> FALSE])
  BY <1>2 DEF Truncate
<1>4. /\ IsLog(logs') /\ Whole(logs'[s]) /\ s \in DOMAIN logs'
      /\ \A i \in 1 .. s - 1 : ReachedEof(Content(logs', i))
      /\ Replayed(logs') = Replayed(logs)
  BY <1>1, <1>2, <1>3, TruncateKeeps
<1>5. /\ recovery_result' = recovery_result /\ mem_table' = mem_table
      /\ UNCHANGED writerVars /\ UNCHANGED callVars
  BY DEF Truncate, callVars
<1>6. history' = history  BY <1>1, Observed
<1>7. TypeOK'
  BY <1>1, <1>4, <1>5 DEF TypeOK, IsLog, LogPhase, writerVars, callVars
<1>8. WriterInv'  BY <1>1 DEF WriterInv
<1>9. RepairInv'
  BY <1>1, <1>4, <1>5, <1>6 DEF IInv, RepairInv, Repairing
<1>10. MemTableInv'  BY <1>1, <1>5, <1>6 DEF IInv, MemTableInv
<1>11. ~Stranded(logs')  BY <1>4, RepairStrandsNothing
<1> QED  BY <1>7, <1>8, <1>9, <1>10, <1>11 DEF IInv

LEMMA DropHigherInv ==
    ASSUME IInv, DropHigher, Observe
    PROVE  IInv' /\ ~Stranded(logs')
<1> DEFINE s == recovery_result.segment
<1>1. IsLog(logs) /\ TypeOK /\ log_phase = "drop" /\ log_phase' = "drop"
  BY TypedLog DEF IInv, DropHigher
<1>2. /\ s \in DOMAIN logs /\ Whole(logs[s])
      /\ \A i \in 1 .. s - 1 : ReachedEof(Content(logs, i))
  BY <1>1 DEF IInv, RepairInv
<1>3. PICK n \in DOMAIN logs : n > s /\ logs' = WithoutFile(logs, n)
  BY DEF DropHigher, Higher
<1>4. /\ IsLog(logs') /\ Whole(logs'[s]) /\ s \in DOMAIN logs'
      /\ \A i \in 1 .. s - 1 : ReachedEof(Content(logs', i))
      /\ Replayed(logs') = Replayed(logs)
  BY <1>1, <1>2, <1>3, DropKeeps
<1>5. /\ recovery_result' = recovery_result /\ mem_table' = mem_table
      /\ UNCHANGED writerVars /\ UNCHANGED callVars
  BY DEF DropHigher, callVars
<1>6. history' = history  BY <1>1, Observed
<1>7. TypeOK'
  BY <1>1, <1>4, <1>5 DEF TypeOK, IsLog, LogPhase, writerVars, callVars
<1>8. WriterInv'  BY <1>1 DEF WriterInv
<1>9. RepairInv'
  BY <1>1, <1>4, <1>5, <1>6 DEF IInv, RepairInv, Repairing
<1>10. MemTableInv'  BY <1>1, <1>5, <1>6 DEF IInv, MemTableInv
<1>11. ~Stranded(logs')  BY <1>4, RepairStrandsNothing
<1> QED  BY <1>7, <1>8, <1>9, <1>10, <1>11 DEF IInv

LEMMA DropDoneInv ==
    ASSUME IInv, DropDone, Observe
    PROVE  IInv'
<1> DEFINE s == recovery_result.segment
<1>1. IsLog(logs) /\ TypeOK /\ log_phase = "drop" /\ log_phase' = "open"
      /\ logs' = logs /\ mem_table' = mem_table
      /\ UNCHANGED writerVars /\ UNCHANGED callVars
  BY TypedLog DEF IInv, DropDone
<1>2. /\ s \in DOMAIN logs /\ Whole(logs[s])
      /\ \A i \in 1 .. s - 1 : ReachedEof(Content(logs, i))
  BY <1>1 DEF IInv, RepairInv
<1>3. {n \in DOMAIN logs : n > s} = {}  BY DEF DropDone, Higher
<1>4. ResultOf(logs) = CleanResult  BY <1>1, <1>2, <1>3, DropEnds
<1>5. history' = history  BY <1>1, Observed
<1>6. TypeOK'  BY <1>1 DEF TypeOK, LogPhase, writerVars, callVars
<1>7. WriterInv'  BY <1>1 DEF WriterInv
<1>8. RepairInv'  BY <1>1, <1>4, <1>5 DEF IInv, RepairInv, Repairing
<1>9. MemTableInv'  BY <1>1, <1>5 DEF IInv, MemTableInv
<1> QED  BY <1>6, <1>7, <1>8, <1>9 DEF IInv

\* A new LogWriter points at the latest segment, or at the next one.
LEMMA NewWriterTyped ==
    ASSUME TypeOK, NewWriter
    PROVE  /\ write_path' \in {LatestSegment(logs), LatestSegment(logs) + 1}
           /\ write_path' # 0
           /\ write_path' \in 0 .. MaxLog + 1
           /\ next_sequence' \in Nat
<1>1. IsLog(logs)  BY TypedLog
<1> QED  BY <1>1, ResolveTyped, NextSequencesTyped DEF NewWriter

LEMMA OpenWriterInv ==
    ASSUME IInv, OpenWriter, Observe
    PROVE  IInv'
<1>1. /\ TypeOK /\ log_phase = "open" /\ log_phase' = "idle" /\ logs' = logs
      /\ recovery_result' = CleanResult
      /\ UNCHANGED <<mem_table, max_wal_file_size, op, written_to>>
  BY DEF IInv, OpenWriter
<1>2. /\ write_path' \in {LatestSegment(logs), LatestSegment(logs) + 1}
      /\ write_path' # 0
      /\ write_path' \in 0 .. MaxLog + 1
      /\ next_sequence' \in Nat
  BY <1>1, NewWriterTyped DEF OpenWriter
<1>3. history' = history  BY <1>1, Observed
<1>4. TypeOK'  BY <1>1, <1>2, CleanResultTyped DEF TypeOK, LogPhase
<1>5. WriterInv'  BY <1>1, <1>2 DEF WriterInv
<1>6. RepairInv'  BY <1>1 DEF RepairInv, Repairing
<1>7. MemTableInv'  BY <1>1, <1>3 DEF IInv, MemTableInv
<1> QED  BY <1>4, <1>5, <1>6, <1>7 DEF IInv

LEMMA WriteBeginInv ==
    ASSUME IInv, NEW k \in Key, NEW e \in Entry, WriteBegin(k, e), Observe
    PROVE  IInv'
<1>1. /\ TypeOK /\ log_phase = "idle" /\ log_phase' = "append" /\ logs' = logs
      /\ op' = [key |-> k, entry |-> e] /\ write_path <= MaxLog
      /\ mem_table' = mem_table /\ UNCHANGED writerVars
      /\ recovery_result' = recovery_result /\ written_to' = written_to
  BY DEF IInv, WriteBegin, LogRoom
<1>2. op' \in Op  BY <1>1 DEF Op
<1>3. history' = history  BY <1>1, Observed
<1>4. TypeOK'  BY <1>1, <1>2 DEF TypeOK, LogPhase, writerVars
<1>5. WriterInv'
  BY <1>1, <1>2 DEF IInv, WriterInv, writerVars
<1>6. RepairInv'  BY <1>1 DEF RepairInv, Repairing
<1>7. MemTableInv'  BY <1>1, <1>3 DEF IInv, MemTableInv
<1> QED  BY <1>4, <1>5, <1>6, <1>7 DEF IInv

\* Where an append goes.
LEMMA AppendTarget ==
    ASSUME IInv, log_phase = "append"
    PROVE  /\ write_path \in 1 .. MaxLog
           /\ write_path \in {LatestSegment(logs), LatestSegment(logs) + 1}
<1>1. /\ write_path \in {LatestSegment(logs), LatestSegment(logs) + 1}
      /\ write_path # 0 /\ write_path <= MaxLog
  BY DEF IInv, WriterInv
<1>2. write_path \in 0 .. MaxLog + 1  BY DEF IInv, TypeOK
<1> QED  BY <1>1, <1>2, WALAssumption

LEMMA CloseTarget ==
    ASSUME IInv, log_phase = "close"
    PROVE  /\ written_to \in 1 .. MaxLog
           /\ written_to = LatestSegment(logs)
           /\ written_to \in DOMAIN logs
<1>1. written_to = LatestSegment(logs) /\ written_to # 0
  BY DEF IInv, WriterInv
<1>2. written_to \in 0 .. MaxLog /\ IsLog(logs)  BY TypedLog DEF IInv, TypeOK
<1> QED  BY <1>1, <1>2, LatestTyped

\* An append, whatever reaches the file.
LEMMA AppendInv ==
    ASSUME IInv, log_phase = "append", NEW c \in LogSegment,
           logs' = WithFile(logs, write_path, c), AfterAppend, Observe
    PROVE  IInv' /\ (Stranded(logs') => Stranded(logs))
<1>1. IsLog(logs) /\ TypeOK  BY TypedLog DEF IInv
<1>2. /\ write_path \in 1 .. MaxLog
      /\ write_path \in {LatestSegment(logs), LatestSegment(logs) + 1}
  BY AppendTarget
<1>3. IsLog(logs') /\ LatestSegment(logs') = write_path
  BY <1>1, <1>2, WithFileIsLog, LatestWithFile
<1>4. /\ write_path' \in {LatestSegment(logs'), LatestSegment(logs') + 1}
      /\ write_path' # 0 /\ write_path' \in 0 .. MaxLog + 1
  BY <1>3, ResolveTyped DEF AfterAppend
<1>5. /\ log_phase' \in {"close", "apply"} /\ written_to' = write_path
      /\ next_sequence' = next_sequence + 1 /\ op' = op
      /\ UNCHANGED <<mem_table, max_wal_file_size, recovery_result>>
  BY DEF AfterAppend
<1>6. history' = history  BY <1>5, Observed
<1>7. TypeOK'
  <2>1. next_sequence' \in Nat  BY <1>1, <1>5 DEF TypeOK
  <2>2. written_to' \in 0 .. MaxLog  BY <1>2, <1>5
  <2> QED  BY <1>1, <1>3, <1>4, <1>5, <2>1, <2>2 DEF TypeOK, IsLog, LogPhase
<1>8. WriterInv'
  <2>1. op \in Op  BY DEF IInv, WriterInv
  <2>2. written_to' = LatestSegment(logs') /\ written_to' # 0
    BY <1>2, <1>3, <1>5
  <2> QED  BY <1>4, <1>5, <2>1, <2>2 DEF WriterInv
<1>9. RepairInv'  BY <1>5 DEF RepairInv, Repairing
<1>10. MemTableInv'  BY <1>5, <1>6 DEF IInv, MemTableInv
<1>11. Stranded(logs') => Stranded(logs)
  BY <1>1, <1>2, WritingStrandsNothing
<1> QED  BY <1>7, <1>8, <1>9, <1>10, <1>11 DEF IInv

\* The CLOSE record, whatever reaches the file.
LEMMA CloseInv ==
    ASSUME IInv, log_phase = "close", NEW c \in LogSegment,
           logs' = WithFile(logs, written_to, c), AfterClose, Observe
    PROVE  IInv' /\ (Stranded(logs') => Stranded(logs))
<1>1. IsLog(logs) /\ TypeOK  BY TypedLog DEF IInv
<1>2. written_to \in 1 .. MaxLog /\ written_to = LatestSegment(logs)
  BY CloseTarget
<1>3. IsLog(logs') /\ LatestSegment(logs') = LatestSegment(logs)
  BY <1>1, <1>2, WithFileIsLog, LatestWithFile
<1>4. /\ log_phase' = "apply" /\ mem_table' = mem_table
      /\ UNCHANGED writerVars /\ UNCHANGED callVars
  BY DEF AfterClose
<1>5. history' = history  BY <1>4, Observed
<1>6. TypeOK'
  BY <1>1, <1>3, <1>4 DEF TypeOK, IsLog, LogPhase, writerVars, callVars
<1>7. WriterInv'
  BY <1>3, <1>4 DEF IInv, WriterInv, writerVars, callVars
<1>8. RepairInv'  BY <1>4 DEF RepairInv, Repairing
<1>9. MemTableInv'  BY <1>4, <1>5 DEF IInv, MemTableInv
<1>10. Stranded(logs') => Stranded(logs)
  BY <1>1, <1>2, WritingStrandsNothing
<1> QED  BY <1>6, <1>7, <1>8, <1>9, <1>10 DEF IInv

\* The memtable gets what the log got.
LEMMA ApplyInv ==
    ASSUME IInv, Apply, Observe
    PROVE  IInv'
<1>1. /\ TypeOK /\ log_phase = "apply" /\ log_phase' = "idle" /\ logs' = logs
      /\ mem_table' = Insert(mem_table, op.key, op.entry)
      /\ op' = NoOp /\ written_to' = 0 /\ UNCHANGED writerVars
      /\ recovery_result' = recovery_result
  BY DEF IInv, Apply
<1>2. history \in Seq(Op) /\ op \in Op /\ mem_table = TableOf(history)
  BY <1>1 DEF IInv, MemTableInv, WriterInv
<1>3. history' = Append(history, op)  BY <1>1, Observed
<1>4. history' \in Seq(Op)  BY <1>2, <1>3
<1>5. mem_table' = TableOf(history')  BY <1>1, <1>2, <1>3, TableOfAppend
<1>6. mem_table' \in Table  BY <1>4, <1>5, TableOfTyped
<1>7. TypeOK'
  <2>1. 0 \in 0 .. MaxLog  BY WALAssumption
  <2> QED  BY <1>1, <1>6, <2>1 DEF TypeOK, LogPhase, writerVars
<1>8. WriterInv'  BY <1>1 DEF IInv, WriterInv, writerVars
<1>9. RepairInv'  BY <1>1 DEF RepairInv, Repairing
<1>10. MemTableInv'  BY <1>1, <1>4, <1>5 DEF MemTableInv
<1> QED  BY <1>7, <1>8, <1>9, <1>10 DEF IInv

LEMMA ClearInv ==
    ASSUME IInv, Clear, Observe
    PROVE  IInv'
<1>1. IsLog(logs) /\ TypeOK  BY TypedLog DEF IInv
<1>2. history \in Seq(Op)  BY DEF IInv, MemTableInv
<1>3. CASE ClearBegin
  <2>1. /\ log_phase = "idle" /\ log_phase' = "clear" /\ logs' = logs
        /\ mem_table' = EmptyTable
        /\ UNCHANGED writerVars /\ UNCHANGED callVars
    BY <1>3 DEF ClearBegin
  <2>2. history' = history  BY <2>1, Observed
  <2>3. TypeOK'
    BY <1>1, <2>1, EmptyTableTyped DEF TypeOK, LogPhase, writerVars, callVars
  <2>4. WriterInv' /\ RepairInv'
    BY <2>1 DEF WriterInv, RepairInv, Repairing
  <2>5. MemTableInv'  BY <1>2, <2>1, <2>2 DEF MemTableInv
  <2> QED  BY <2>3, <2>4, <2>5 DEF IInv
<1>4. CASE ClearNext
  <2>1. /\ log_phase = "clear" /\ log_phase' = "clear" /\ mem_table' = mem_table
        /\ UNCHANGED writerVars /\ UNCHANGED callVars
    BY <1>4 DEF ClearNext
  <2>2. PICK n : logs' = WithoutFile(logs, n)  BY <1>4 DEF ClearNext
  <2>3. IsLog(logs')  BY <1>1, <2>2, WithoutFileIsLog
  <2>4. history' = history  BY <2>1, Observed
  <2>5. TypeOK'
    BY <1>1, <2>1, <2>3 DEF TypeOK, IsLog, LogPhase, writerVars, callVars
  <2>6. WriterInv' /\ RepairInv'
    BY <2>1 DEF WriterInv, RepairInv, Repairing
  <2>7. MemTableInv'  BY <2>1, <2>4 DEF IInv, MemTableInv
  <2> QED  BY <2>5, <2>6, <2>7 DEF IInv
<1>5. CASE ClearDone
  <2>1. /\ log_phase = "clear" /\ log_phase' = "idle" /\ logs' = logs
        /\ UNCHANGED <<mem_table, max_wal_file_size>> /\ UNCHANGED callVars
    BY <1>5 DEF ClearDone
  <2>2. /\ write_path' \in {LatestSegment(logs), LatestSegment(logs) + 1}
        /\ write_path' # 0
        /\ write_path' \in 0 .. MaxLog + 1
        /\ next_sequence' \in Nat
    BY <1>1, <1>5, NewWriterTyped DEF ClearDone
  <2>3. history' = << >> /\ mem_table = EmptyTable
    BY <2>1, Observed DEF IInv, MemTableInv
  <2>4. TypeOK'  BY <1>1, <2>1, <2>2 DEF TypeOK, LogPhase, callVars
  <2>5. WriterInv'  BY <2>1, <2>2 DEF WriterInv
  <2>6. RepairInv'  BY <2>1 DEF RepairInv, Repairing
  <2>7. MemTableInv'
    BY <2>1, <2>3, NothingLogged, TableOfEmpty DEF MemTableInv
  <2> QED  BY <2>4, <2>5, <2>6, <2>7 DEF IInv
<1> QED  BY <1>3, <1>4, <1>5 DEF Clear

\* A session that ends, in whatever way, leaves the memory of no process.
LEMMA SessionEndsInv ==
    ASSUME IInv, SessionEnds, Observe, log_phase # "down", IsLog(logs'),
           log_phase \in {"truncate", "drop", "open"} => logs' = logs,
           max_wal_file_size' = max_wal_file_size
    PROVE  IInv'
<1>1. TypeOK /\ log_phase' = "down"  BY DEF IInv, SessionEnds
<1>2. history' = history /\ died' = log_phase  BY <1>1, Observed
<1>3. TypeOK'
  <2>1. 0 \in 0 .. MaxLog /\ 0 \in 0 .. MaxLog + 1 /\ 0 \in Nat
    BY WALAssumption
  <2> QED  BY <1>1, <2>1, EmptyTableTyped, CleanResultTyped
           DEF TypeOK, IsLog, LogPhase, SessionEnds
<1>4. WriterInv'  BY <1>1 DEF WriterInv
<1>5. RepairInv'
  BY <1>1, <1>2 DEF IInv, RepairInv, Repairing
<1>6. MemTableInv'  BY <1>1, <1>2 DEF IInv, MemTableInv
<1> QED  BY <1>3, <1>4, <1>5, <1>6 DEF IInv

LEMMA CrashInv ==
    ASSUME IInv, Crash, Observe
    PROVE  IInv' /\ (Stranded(logs') => Stranded(logs))
<1>1. IsLog(logs)  BY TypedLog DEF IInv
<1>2. SessionEnds /\ log_phase # "down"
      /\ max_wal_file_size' = max_wal_file_size
  BY DEF Crash
<1>3. CASE logs' = logs
  <2>1. IInv'  BY <1>1, <1>2, <1>3, SessionEndsInv
  <2> QED  BY <1>3, <2>1
<1>4. CASE /\ log_phase = "append"
           /\ LET f == Content(logs, write_path)
              IN  \E g \in {f, AppendHalf(f)} :
                     logs' = WithFile(logs, write_path, g)
  <2>1. Content(logs, write_path) \in LogSegment  BY <1>1, ContentTyped
  <2>2. PICK g \in LogSegment : logs' = WithFile(logs, write_path, g)
    BY <1>4, <2>1, AppendHalfTyped
  <2>3. /\ write_path \in 1 .. MaxLog
        /\ write_path \in {LatestSegment(logs), LatestSegment(logs) + 1}
    BY <1>4, AppendTarget
  <2>4. IsLog(logs')  BY <1>1, <2>2, <2>3, WithFileIsLog
  <2>5. Stranded(logs') => Stranded(logs)
    BY <1>1, <2>2, <2>3, WritingStrandsNothing
  <2>6. IInv'  BY <1>2, <1>4, <2>4, SessionEndsInv
  <2> QED  BY <2>5, <2>6
<1>5. CASE /\ log_phase = "close"
           /\ logs' = WithFile(logs, written_to, AppendHalf(logs[written_to]))
  <2>1. /\ written_to \in 1 .. MaxLog /\ written_to = LatestSegment(logs)
        /\ written_to \in DOMAIN logs
    BY <1>5, CloseTarget
  <2>2. AppendHalf(logs[written_to]) \in LogSegment
    BY <1>1, <2>1, AppendHalfTyped DEF IsLog
  <2>3. IsLog(logs')  BY <1>1, <1>5, <2>1, <2>2, WithFileIsLog
  <2>4. Stranded(logs') => Stranded(logs)
    BY <1>1, <1>5, <2>1, <2>2, WritingStrandsNothing
  <2>5. IInv'  BY <1>2, <1>5, <2>3, SessionEndsInv
  <2> QED  BY <2>4, <2>5
<1> QED  BY <1>3, <1>4, <1>5 DEF Crash

LEMMA RotInv ==
    ASSUME IInv, Rot, Observe
    PROVE  IInv' /\ (Stranded(logs') => Stranded(logs))
<1>1. IsLog(logs) /\ TypeOK  BY TypedLog DEF IInv
<1>2. /\ log_phase = "down" /\ log_phase' = "down" /\ mem_table' = mem_table
      /\ UNCHANGED writerVars /\ UNCHANGED callVars
  BY DEF Rot
<1>3. PICK n \in DOMAIN logs : \E j \in DOMAIN logs[n].cells :
         logs' = [logs EXCEPT ![n].cells[j] = Corrupt]
  BY DEF Rot
<1>4. IsLog(logs') /\ (Stranded(logs') => Stranded(logs))
  BY <1>1, <1>3, RotKeeps
<1>5. history' = history /\ died' = "rot"  BY <1>2, Observed
<1>6. TypeOK'
  BY <1>1, <1>2, <1>4 DEF TypeOK, IsLog, LogPhase, writerVars, callVars
<1>7. WriterInv'  BY <1>2 DEF WriterInv
<1>8. RepairInv'  BY <1>2, <1>5 DEF RepairInv, Repairing
<1>9. MemTableInv'  BY <1>2, <1>5 DEF IInv, MemTableInv
<1> QED  BY <1>4, <1>6, <1>7, <1>8, <1>9 DEF IInv

\* Nothing changes.
LEMMA StutterInv ==
    ASSUME IInv, UNCHANGED allVars
    PROVE  IInv' /\ (Stranded(logs') => Stranded(logs))
<1>1. /\ logs' = logs /\ mem_table' = mem_table /\ log_phase' = log_phase
      /\ history' = history /\ died' = died
      /\ UNCHANGED writerVars /\ UNCHANGED callVars
  BY DEF allVars, walVars
<1>2. TypeOK'  BY <1>1 DEF IInv, TypeOK, writerVars, callVars
<1>3. WriterInv'  BY <1>1 DEF IInv, WriterInv, writerVars, callVars
<1>4. RepairInv'  BY <1>1 DEF IInv, RepairInv, Repairing, callVars
<1>5. MemTableInv'  BY <1>1 DEF IInv, MemTableInv
<1> QED  BY <1>1, <1>2, <1>3, <1>4, <1>5 DEF IInv

LEMMA WriteInv ==
    ASSUME IInv, Write, Observe
    PROVE  IInv' /\ (Stranded(logs') => Stranded(logs))
<1>1. IsLog(logs) /\ TypeOK  BY TypedLog DEF IInv
<1>2. Content(logs, write_path) \in LogSegment  BY <1>1, ContentTyped
<1>3. CASE \E k \in Key, e \in Entry : WriteBegin(k, e)
  <2>1. PICK k \in Key, e \in Entry : WriteBegin(k, e)  BY <1>3
  <2>2. logs' = logs  BY <2>1 DEF WriteBegin
  <2> QED  BY <2>1, <2>2, WriteBeginInv
<1>4. CASE AppendRecord
  <2> DEFINE r == [op |-> op, seq |-> next_sequence]
  <2>1. log_phase = "append" /\ AfterAppend
        /\ logs' = WithFile(logs, write_path,
                            AppendCell(Content(logs, write_path), r))
    BY <1>4 DEF AppendRecord
  <2>2. r \in Record
    <3>1. op \in Op /\ next_sequence \in Nat
      BY <1>1, <2>1 DEF IInv, WriterInv, TypeOK
    <3> QED  BY <3>1 DEF Record
  <2>3. AppendCell(Content(logs, write_path), r) \in LogSegment
    BY <1>2, <2>2, AppendCellTyped
  <2> HIDE DEF r
  <2> QED  BY <2>1, <2>3, AppendInv
<1>5. CASE AppendClose
  <2>1. log_phase = "close" /\ AfterClose
        /\ logs' = WithFile(logs, written_to, AppendCell(logs[written_to], Close))
    BY <1>5 DEF AppendClose
  <2>2. logs[written_to] \in LogSegment
    BY <1>1, <2>1, CloseTarget DEF IsLog
  <2>3. AppendCell(logs[written_to], Close) \in LogSegment
    BY <2>2, AppendCellTyped
  <2> QED  BY <2>1, <2>3, CloseInv
<1>6. CASE AppendShort
  <2>1. PICK g \in LogSegment : logs' = WithFile(logs, write_path, g)
    BY <1>2, <1>6, AppendHalfTyped DEF AppendShort
  <2>2. log_phase = "append" /\ AfterAppend  BY <1>6 DEF AppendShort
  <2> QED  BY <2>1, <2>2, AppendInv
<1>7. CASE CloseShort
  <2>1. log_phase = "close" /\ AfterClose  BY <1>7 DEF CloseShort
  <2>2. logs[written_to] \in LogSegment
    BY <1>1, <2>1, CloseTarget DEF IsLog
  <2>3. PICK g \in LogSegment : logs' = WithFile(logs, written_to, g)
    BY <1>7, <2>2, AppendHalfTyped DEF CloseShort
  <2> QED  BY <2>1, <2>3, CloseInv
<1>8. CASE Apply
  <2>1. logs' = logs  BY <1>8 DEF Apply
  <2> QED  BY <1>8, <2>1, ApplyInv
<1> QED  BY <1>3, <1>4, <1>5, <1>6, <1>7, <1>8 DEF Write

LEMMA RecoveryInv ==
    ASSUME IInv, Recovery, Observe
    PROVE  IInv' /\ (Stranded(logs') => Stranded(logs))
<1>1. IsLog(logs)  BY TypedLog DEF IInv
<1>2. CASE Restore
  <2>1. logs' = logs  BY <1>2 DEF Restore
  <2> QED  BY <1>2, <2>1, RestoreKeeps
<1>3. CASE Truncate  BY <1>3, TruncateInv
<1>4. CASE TruncateThrows
  <2>1. /\ SessionEnds /\ log_phase # "down" /\ logs' = logs
        /\ max_wal_file_size' = max_wal_file_size
    BY <1>4 DEF TruncateThrows
  <2>2. IInv'  BY <1>1, <2>1, SessionEndsInv
  <2> QED  BY <2>1, <2>2
<1>5. CASE DropHigher  BY <1>5, DropHigherInv
<1>6. CASE DropDone
  <2>1. logs' = logs  BY <1>6 DEF DropDone
  <2> QED  BY <1>6, <2>1, DropDoneInv
<1>7. CASE OpenWriter
  <2>1. logs' = logs  BY <1>7 DEF OpenWriter
  <2> QED  BY <1>7, <2>1, OpenWriterInv
<1> QED  BY <1>2, <1>3, <1>4, <1>5, <1>6, <1>7 DEF Recovery

LEMMA StepKeeps ==
    ASSUME IInv, [HNext]_allVars
    PROVE  /\ IInv'
           /\ Stranded(logs') /\ ~Stranded(logs) => log_phase = "clear"
<1>1. CASE UNCHANGED allVars  BY <1>1, StutterInv
<1>2. ASSUME HNext PROVE Next /\ Observe  BY <1>2 DEF HNext
<1>3. CASE Recovery /\ Observe  BY <1>3, RecoveryInv
<1>4. CASE Write /\ Observe  BY <1>4, WriteInv
<1>5. CASE Clear /\ Observe
  <2>1. IInv'  BY <1>5, ClearInv
  <2>2. log_phase = "clear" \/ logs' = logs
    BY <1>5 DEF Clear, ClearBegin, ClearNext, ClearDone
  <2> QED  BY <2>1, <2>2
<1>6. CASE Shutdown /\ Observe
  <2>1. IsLog(logs)  BY TypedLog DEF IInv
  <2>2. /\ SessionEnds /\ log_phase = "idle" /\ logs' = logs
        /\ max_wal_file_size' = max_wal_file_size
    BY <1>6 DEF Shutdown
  <2>3. IInv'  BY <1>6, <2>1, <2>2, SessionEndsInv
  <2> QED  BY <2>2, <2>3
<1>7. CASE Crash /\ Observe  BY <1>7, CrashInv
<1>8. CASE Rot /\ Observe  BY <1>8, RotInv
<1> QED  BY <1>1, <1>2, <1>3, <1>4, <1>5, <1>6, <1>7, <1>8 DEF Next

-----------------------------------------------------------------------------
(* The theorems.                                                           *)

\* Log, writer, repair and memtable agree with what was logged at every step,
\* whatever is torn, spoiled, cut short or interrupted.
THEOREM InvariantHolds == HSpec => []IInv
<1>1. HInit => IInv  BY InitEstablishes
<1>2. IInv /\ [HNext]_allVars => IInv'  BY StepKeeps
<1> QED  BY <1>1, <1>2, PTL DEF HSpec

\* Every variable has its type: segments are whole sequences of cells, and the
\* writer only ever points at a segment within the bound or at the next one.
THEOREM TypeCorrect == HSpec => []TypeOK
<1>1. IInv => TypeOK  BY DEF IInv
<1> QED  BY <1>1, InvariantHolds, PTL

\* From the replay to the new writer the memtable is what the log would replay,
\* and a repair that has ended leaves nothing to repair.
THEOREM RepairKeepsLogHolds == HSpec => []RepairKeepsLog
<1>1. IInv => RepairKeepsLog
  BY DEF IInv, RepairInv, Repairing, MemTableInv, RepairKeepsLog
<1> QED  BY <1>1, InvariantHolds, PTL

\* A repair that was cut short, at whatever step and any number of times,
\* recovers the same again.
THEOREM RecoveryRepeatsHolds == HSpec => RecoveryRepeats
<1>1. IInv /\ [HNext]_allVars
         => [Restores /\ died \in {"truncate", "drop", "open"}
                => history' = history]_allVars
  <2> SUFFICES ASSUME IInv, HNext, Restores, died \in {"truncate", "drop", "open"}
               PROVE  history' = history
    OBVIOUS
  <2>1. log_phase = "down" /\ log_phase' \in {"truncate", "open"}
    BY DEF Restores
  <2>2. history' = Replayed(logs)  BY <2>1, Observed DEF HNext
  <2>3. history = Replayed(logs)
    BY <2>1 DEF IInv, RepairInv, Repairing
  <2> QED  BY <2>2, <2>3
<1> QED  BY <1>1, InvariantHolds, PTL DEF HSpec, RecoveryRepeats

\* No write, no rotation, no repair, no crash and no spoiled record makes a log
\* that the next constructor refuses: only a clearing does.
THEOREM OnlyClearingStrandsHolds == HSpec => OnlyClearingStrands
<1>1. IInv /\ [HNext]_allVars
         => [Stranded(logs') /\ ~Stranded(logs) => log_phase = "clear"]_allVars
  BY StepKeeps
<1> QED  BY <1>1, InvariantHolds, PTL DEF HSpec, OnlyClearingStrands

-----------------------------------------------------------------------------
(* The second invariant is inductive, relative to the first.               *)

\* What the observers do with the operation under way.
LEMMA PendingObserved ==
    ASSUME Observe
    PROVE  /\ Restores => pending' = << >>
           /\ log_phase \in {"append", "close", "apply"} /\ log_phase' = "down"
                => pending' = <<op>>
           /\ ~Restores /\ ~ (/\ log_phase \in {"append", "close", "apply"}
                              /\ log_phase' = "down")
                => pending' = pending
BY DEF Observe, Restores

\* Every session opens the log with the same limit.
LEMMA SameLimit ==
    ASSUME Steady, IInv, max_wal_file_size' \in LogLimits
    PROVE  max_wal_file_size' = max_wal_file_size /\ max_wal_file_size \in Nat
BY WALAssumption DEF Steady, IInv, TypeOK

\* A step leaves a segment as it is, or one without a CLOSE record, or full.
LEMMA FullKept ==
    ASSUME FullInv, max_wal_file_size' = max_wal_file_size,
           \A n \in DOMAIN logs' :
              \/ n \in DOMAIN logs /\ logs'[n] = logs[n]
              \/ \A j \in DOMAIN logs'[n].cells : logs'[n].cells[j] # Close
              \/ Size(logs'[n]) >= max_wal_file_size
    PROVE  FullInv'
BY DEF FullInv

LEMMA InitHistory == HInit => HistInv
<1> SUFFICES ASSUME HInit PROVE HistInv  OBVIOUS
<1> USE DEF HInit, Init
<1>1. DOMAIN logs = {}  OBVIOUS
<1>2. Logged(logs) = << >> /\ Replayed(logs) = << >>  BY <1>1, EmptyLog
<1>3. << >> \in Seq(Op) /\ Len(<< >>) <= Len(<< >>) /\ << >> \o << >> = << >>
  BY NothingLogged
<1>4. IsPrefix(<< >>, << >>)  BY <1>3, NothingIsPrefix
<1> QED  BY <1>1, <1>2, <1>3, <1>4
         DEF HistInv, FullInv, TargetInv, LoggedInv, PendingInv

LEMMA RestoreHistory ==
    ASSUME Steady, IInv, HistInv, Restore, Observe
    PROVE  HistInv'
<1>1. max_wal_file_size' = max_wal_file_size  BY SameLimit DEF Restore
<1>2. logs' = logs /\ log_phase = "down" /\ log_phase' \in {"truncate", "open"}
  BY DEF Restore
<1>3. FullInv'  BY <1>1, <1>2 DEF HistInv, FullInv
<1>4. TargetInv' /\ LoggedInv'  BY <1>2 DEF TargetInv, LoggedInv
<1>5. PendingInv'
  BY <1>2, PendingObserved, NothingLogged DEF PendingInv, Restores
<1> QED  BY <1>3, <1>4, <1>5 DEF HistInv

LEMMA TruncateHistory ==
    ASSUME IInv, HistInv, Truncate, Observe
    PROVE  HistInv'
<1> DEFINE s == recovery_result.segment
           cut == [cells |-> SubSeq(logs[s].cells, 1,
                                    recovery_result.last_clean_offset),
                   torn  |-> FALSE]
<1>1. /\ log_phase = "truncate" /\ log_phase' = "drop"
      /\ recovery_result' = recovery_result
      /\ max_wal_file_size' = max_wal_file_size
  BY DEF Truncate, callVars, writerVars
<1>2. logs' = WithFile(logs, s, cut)  BY DEF Truncate
<1>3. Whole(logs'[s])
  <2>1. IInv'  BY TruncateInv
  <2> QED  BY <1>1, <2>1 DEF IInv, RepairInv
<1>4. \A n \in DOMAIN logs' : n # s => n \in DOMAIN logs /\ logs'[n] = logs[n]
  BY <1>2 DEF WithFile
<1>5. FullInv'
  <2>1. FullInv  BY DEF HistInv
  <2>2. \A j \in DOMAIN logs'[s].cells : logs'[s].cells[j] # Close
    BY <1>3, WholeHasNoClose
  <2> HIDE DEF s
  <2> QED  BY <1>1, <1>4, <2>1, <2>2, FullKept
<1>6. TargetInv' /\ LoggedInv'  BY <1>1 DEF TargetInv, LoggedInv
<1>7. PendingInv'
  BY <1>1, PendingObserved DEF HistInv, PendingInv, Restores
<1> QED  BY <1>5, <1>6, <1>7 DEF HistInv

LEMMA DropHistory ==
    ASSUME IInv, HistInv, DropHigher \/ DropDone, Observe
    PROVE  HistInv'
<1>1. /\ log_phase = "drop" /\ log_phase' \in {"drop", "open"}
      /\ max_wal_file_size' = max_wal_file_size
  BY DEF DropHigher, DropDone, writerVars
<1>2. \A n \in DOMAIN logs' : n \in DOMAIN logs /\ logs'[n] = logs[n]
  BY DEF DropHigher, DropDone, WithoutFile
<1>3. FullInv'  BY <1>1, <1>2, FullKept DEF HistInv
<1>4. TargetInv' /\ LoggedInv'  BY <1>1 DEF TargetInv, LoggedInv
<1>5. PendingInv'
  BY <1>1, PendingObserved DEF HistInv, PendingInv, Restores
<1> QED  BY <1>3, <1>4, <1>5 DEF HistInv

\* The writer opens the latest segment only when it holds records only: a CLOSE
\* record would have made it full.
LEMMA NewTarget ==
    ASSUME IInv, HistInv, ResultOf(logs) = CleanResult, NewWriter
    PROVE  write_path' \in DOMAIN logs => Whole(logs[write_path'])
<1> DEFINE L == LatestSegment(logs)
           f == logs[L]
<1> SUFFICES ASSUME write_path' \in DOMAIN logs PROVE Whole(logs[write_path'])
  OBVIOUS
<1>1. IsLog(logs) /\ max_wal_file_size \in Nat
  BY TypedLog, WALAssumption DEF IInv, TypeOK
<1>2. L \in Nat /\ L \in DOMAIN logs \cup {0} /\ \A n \in DOMAIN logs : n <= L
  BY <1>1, LatestTyped, WALAssumption
<1>3. write_path' = Resolve(logs, max_wal_file_size)  BY DEF NewWriter
<1>4. L # 0
  <2> SUFFICES ASSUME L = 0 PROVE FALSE  OBVIOUS
  <2>1. write_path' = 1  BY <1>3 DEF Resolve
  <2> QED  BY <1>2, <2>1
<1>5. L \in DOMAIN logs /\ f \in LogSegment /\ Content(logs, L) = f
  BY <1>1, <1>2, <1>4 DEF IsLog, Content
<1>6. write_path' # L + 1  BY <1>2
<1>7. write_path' = L /\ Size(f) < max_wal_file_size
  BY <1>3, <1>4, <1>6 DEF Resolve
<1>8. Clean(logs, L)  BY <1>1, <1>4, CleanLog
<1>9. /\ f.cells \in Seq(Record \cup {Close, Corrupt})
      /\ DOMAIN f.cells = 1 .. Len(f.cells) /\ Len(f.cells) \in Nat
  <2>1. f.cells \in Seq(Record \cup {Close, Corrupt})  BY <1>5 DEF LogSegment
  <2> QED  BY <2>1
<1>10. /\ StopCell(f) \in 1 .. Len(f.cells) + 1
       /\ \A i \in 1 .. StopCell(f) - 1 : IsRecord(f.cells[i])
  BY <1>5, StopCellBounds
<1> HIDE DEF f
<1>11. ~ReachedEof(f)
  <2> SUFFICES ASSUME ReachedEof(f) PROVE FALSE  OBVIOUS
  <2>1. StopCell(f) # Len(f.cells) + 1 /\ f.cells[StopCell(f)] = Close
    BY DEF ReachedEof, AtEnd
  <2>2. StopCell(f) \in DOMAIN f.cells  BY <1>9, <1>10, <2>1
  <2>3. Size(f) >= max_wal_file_size
    BY <1>5, <2>1, <2>2 DEF HistInv, FullInv, f
  <2>4. Size(f) \in Nat  BY <1>5, SizeTyped
  <2> QED  BY <1>1, <1>7, <2>3, <2>4
<1>12. AtEnd(f) /\ ~f.torn  BY <1>5, <1>8, <1>11 DEF Clean
<1>13. \A i \in 1 .. Len(f.cells) : IsRecord(f.cells[i])
  <2>1. StopCell(f) = Len(f.cells) + 1  BY <1>12 DEF AtEnd
  <2>2. StopCell(f) - 1 = Len(f.cells)  BY <1>9, <2>1
  <2> QED  BY <1>10, <2>2
<1>14. Whole(f)  BY <1>9, <1>12, <1>13 DEF Whole
<1> QED  BY <1>7, <1>14 DEF f

LEMMA OpenHistory ==
    ASSUME IInv, HistInv, OpenWriter, Observe
    PROVE  HistInv'
<1>1. /\ log_phase = "open" /\ log_phase' = "idle" /\ logs' = logs /\ NewWriter
      /\ max_wal_file_size' = max_wal_file_size
  BY DEF OpenWriter
<1>2. IsLog(logs) /\ ResultOf(logs) = CleanResult /\ history = Replayed(logs)
  BY <1>1, TypedLog DEF IInv, RepairInv, Repairing
<1>3. FullInv'  BY <1>1 DEF HistInv, FullInv
<1>4. TargetInv'
  <2>1. write_path' \in DOMAIN logs => Whole(logs[write_path'])
    BY <1>1, <1>2, NewTarget
  <2> QED  BY <1>1, <2>1 DEF TargetInv
<1>5. LoggedInv'
  <2>1. Logged(logs) = history  BY <1>2, CleanLog, ReplayedPrefix
  <2>2. history' = history  BY <1>1, Observed
  <2> QED  BY <1>1, <2>1, <2>2 DEF LoggedInv
<1>6. PendingInv'
  BY <1>1, PendingObserved DEF HistInv, PendingInv, Restores
<1> QED  BY <1>3, <1>4, <1>5, <1>6 DEF HistInv

LEMMA BeginHistory ==
    ASSUME IInv, HistInv, NEW k \in Key, NEW e \in Entry, WriteBegin(k, e),
           Observe
    PROVE  HistInv'
<1>1. /\ log_phase = "idle" /\ log_phase' = "append" /\ logs' = logs
      /\ max_wal_file_size' = max_wal_file_size /\ write_path' = write_path
  BY DEF WriteBegin, writerVars
<1>2. history' = history /\ pending' = pending
  BY <1>1, Observed, PendingObserved DEF Restores
<1> QED  BY <1>1, <1>2
         DEF HistInv, FullInv, TargetInv, LoggedInv, PendingInv

\* What an append is made to can be read to its end.
LEMMA AppendsToWhole ==
    ASSUME IInv, HistInv, log_phase = "append"
    PROVE  /\ Content(logs, write_path) \in LogSegment
           /\ Whole(Content(logs, write_path))
<1>1. IsLog(logs)  BY TypedLog DEF IInv
<1>2. Content(logs, write_path) \in LogSegment  BY <1>1, ContentTyped
<1>3. Whole(Content(logs, write_path))
  BY EmptyIsWhole DEF HistInv, TargetInv, Content
<1> QED  BY <1>2, <1>3

LEMMA AppendHistory ==
    ASSUME IInv, HistInv, AppendRecord, Observe
    PROVE  HistInv'
<1> DEFINE f == Content(logs, write_path)
           r == [op |-> op, seq |-> next_sequence]
           g == AppendCell(f, r)
<1>1. log_phase = "append" /\ AfterAppend /\ logs' = WithFile(logs, write_path, g)
  BY DEF AppendRecord
<1>2. IsLog(logs) /\ op \in Op /\ next_sequence \in Nat
      /\ max_wal_file_size \in Nat
  BY <1>1, TypedLog, WALAssumption DEF IInv, WriterInv, TypeOK
<1>3. /\ write_path \in 1 .. MaxLog
      /\ write_path \in {LatestSegment(logs), LatestSegment(logs) + 1}
  BY <1>1, AppendTarget
<1>4. f \in LogSegment /\ Whole(f)  BY <1>1, AppendsToWhole
<1>5. r \in Record  BY <1>2 DEF Record
<1>6. g \in LogSegment /\ Whole(g) /\ Ops(g) = Ops(f) \o <<op>>
  <2> HIDE DEF f
  <2> QED  BY <1>4, <1>5, RecordAppended
<1> HIDE DEF g
<1>7. IsLog(logs') /\ LatestSegment(logs') = write_path
  BY <1>1, <1>2, <1>3, <1>6, WithFileIsLog, LatestWithFile
<1>8. Logged(logs') = Logged(logs) \o <<op>>
  <2>1. <<op>> \in Seq(Op)  BY <1>2
  <2> QED  BY <1>1, <1>2, <1>3, <1>6, <2>1, LoggedWith
<1>9. /\ DOMAIN logs' = DOMAIN logs \cup {write_path} /\ logs'[write_path] = g
      /\ \A n \in DOMAIN logs' : n # write_path
            => n \in DOMAIN logs /\ logs'[n] = logs[n]
  BY <1>1 DEF WithFile
<1>10. /\ max_wal_file_size' = max_wal_file_size /\ written_to' = write_path
       /\ log_phase' = IF write_path' # write_path THEN "close" ELSE "apply"
       /\ write_path' = Resolve(logs', max_wal_file_size) /\ op' = op
  BY <1>1 DEF AfterAppend
<1>11. write_path' = IF Size(g) < max_wal_file_size THEN write_path
                     ELSE write_path + 1
  <2>1. write_path # 0  BY <1>3
  <2> QED  BY <1>7, <1>9, <1>10, <2>1 DEF Resolve
<1>12. FullInv'
  <2>1. \A j \in DOMAIN g.cells : g.cells[j] # Close
    BY <1>6, WholeHasNoClose
  <2>2. FullInv  BY DEF HistInv
  <2> QED  BY <1>9, <1>10, <2>1, <2>2, FullKept
<1>13. TargetInv'
  <2>1. CASE Size(g) < max_wal_file_size
    <3>1. write_path' = write_path /\ log_phase' = "apply"
      BY <1>10, <1>11, <2>1
    <3> QED  BY <1>6, <1>9, <3>1 DEF TargetInv
  <2>2. CASE ~ (Size(g) < max_wal_file_size)
    <3>1. write_path' = write_path + 1  BY <1>11, <2>2
    <3>2. write_path' # write_path /\ log_phase' = "close"
      BY <1>3, <1>10, <3>1
    <3>3. Size(g) >= max_wal_file_size
      <4>1. Size(g) \in Nat  BY <1>6, SizeTyped
      <4> QED  BY <1>2, <2>2, <4>1
    <3>4. write_path' \notin DOMAIN logs'
      <4>1. \A n \in DOMAIN logs' : n <= write_path  BY <1>7, LatestTyped
      <4>2. ~ (write_path + 1 <= write_path)  BY <1>3
      <4> QED  BY <3>1, <4>1, <4>2
    <3> QED  BY <1>6, <1>9, <1>10, <3>2, <3>3, <3>4 DEF TargetInv
  <2> QED  BY <2>1, <2>2
<1>14. log_phase' \in {"close", "apply"}  BY <1>10
<1>15. history' = history /\ pending' = pending
  BY <1>1, <1>14, Observed, PendingObserved DEF Restores
<1>16. LoggedInv'
  <2>1. Logged(logs) = history  BY <1>1 DEF HistInv, LoggedInv
  <2>2. history \in Seq(Op)  BY DEF IInv, MemTableInv
  <2>3. history \o <<op>> = Append(history, op)  BY <1>2, <2>2
  <2>4. Logged(logs') = Append(history, op)  BY <1>8, <2>1, <2>3
  <2> QED  BY <1>10, <1>14, <1>15, <2>4 DEF LoggedInv
<1>17. PendingInv'
  BY <1>1, <1>14, <1>15 DEF HistInv, PendingInv
<1> QED  BY <1>12, <1>13, <1>16, <1>17 DEF HistInv

LEMMA CloseHistory ==
    ASSUME IInv, HistInv, AppendClose, Observe
    PROVE  HistInv'
<1> DEFINE f == logs[written_to]
           g == AppendCell(f, Close)
<1>1. log_phase = "close" /\ AfterClose /\ logs' = WithFile(logs, written_to, g)
  BY DEF AppendClose
<1>2. IsLog(logs) /\ max_wal_file_size \in Nat
  BY TypedLog, WALAssumption DEF IInv, TypeOK
<1>3. /\ written_to \in 1 .. MaxLog /\ written_to = LatestSegment(logs)
      /\ written_to \in DOMAIN logs
  BY <1>1, CloseTarget
<1>4. /\ f \in LogSegment /\ Whole(f) /\ Size(f) >= max_wal_file_size
      /\ f = Content(logs, written_to) /\ write_path \notin DOMAIN logs
  BY <1>1, <1>2, <1>3 DEF IsLog, HistInv, TargetInv, Content
<1>5. g \in LogSegment /\ Ops(g) = Ops(f) /\ Size(g) = Size(f) + 2
  <2> HIDE DEF f
  <2> QED  BY <1>4, CloseAppended
<1>6. Size(f) \in Nat  BY <1>4, SizeTyped
<1> HIDE DEF g, f
<1>7. Logged(logs') = Logged(logs)
  <2>1. << >> \in Seq(Op) /\ Ops(f) \in Seq(Op) /\ Logged(logs) \in Seq(Op)
    BY <1>2, <1>4, NothingLogged, OpsTyped, LoggedTyped
  <2>2. Ops(g) = Ops(Content(logs, written_to)) \o << >>
    BY <1>4, <1>5, <2>1, PrefixOfNothing
  <2>3. Logged(logs') = Logged(logs) \o << >>
    BY <1>1, <1>2, <1>3, <1>5, <2>1, <2>2, LoggedWith
  <2> QED  BY <2>1, <2>3, PrefixOfNothing
<1>8. /\ log_phase' = "apply" /\ max_wal_file_size' = max_wal_file_size
      /\ write_path' = write_path /\ op' = op
  BY <1>1 DEF AfterClose, writerVars, callVars
<1>9. FullInv'
  <2>1. Size(g) >= max_wal_file_size  BY <1>2, <1>4, <1>5, <1>6
  <2>2. \A n \in DOMAIN logs' :
           \/ n = written_to /\ logs'[n] = g
           \/ n \in DOMAIN logs /\ logs'[n] = logs[n]
    BY <1>1 DEF WithFile
  <2>3. FullInv  BY DEF HistInv
  <2> QED  BY <1>8, <2>1, <2>2, <2>3, FullKept
<1>10. TargetInv'
  <2>1. DOMAIN logs' = DOMAIN logs  BY <1>1, <1>3 DEF WithFile
  <2> QED  BY <1>4, <1>8, <2>1 DEF TargetInv
<1>11. history' = history /\ pending' = pending
  BY <1>1, <1>8, Observed, PendingObserved DEF Restores
<1>12. LoggedInv'
  BY <1>1, <1>7, <1>8, <1>11 DEF HistInv, LoggedInv
<1>13. PendingInv'
  BY <1>1, <1>8, <1>11 DEF HistInv, PendingInv
<1> QED  BY <1>9, <1>10, <1>12, <1>13 DEF HistInv

LEMMA ApplyHistory ==
    ASSUME IInv, HistInv, Apply, Observe
    PROVE  HistInv'
<1>1. /\ log_phase = "apply" /\ log_phase' = "idle" /\ logs' = logs
      /\ max_wal_file_size' = max_wal_file_size /\ write_path' = write_path
  BY DEF Apply, writerVars
<1>2. history' = Append(history, op) /\ pending' = pending
  BY <1>1, Observed, PendingObserved DEF Restores
<1> QED  BY <1>1, <1>2
         DEF HistInv, FullInv, TargetInv, LoggedInv, PendingInv

\* Of a log that holds the history and no more, and then of less and less of it,
\* a prefix of the history is read.
LEMMA ClearHistory ==
    ASSUME IInv, HistInv, Clear, Observe
    PROVE  HistInv'
<1>1. IsLog(logs) /\ history \in Seq(Op) /\ pending \in Seq(Op)
  BY TypedLog DEF IInv, MemTableInv, HistInv, PendingInv
<1>2. CASE ClearBegin
  <2>1. /\ log_phase = "idle" /\ log_phase' = "clear" /\ logs' = logs
        /\ max_wal_file_size' = max_wal_file_size
    BY <1>2 DEF ClearBegin, writerVars
  <2>2. history' = history /\ pending' = pending /\ pending = << >>
    BY <2>1, Observed, PendingObserved DEF Restores, HistInv, PendingInv
  <2>3. IsPrefix(Replayed(logs), history \o << >>)
    <3>1. Logged(logs) = history  BY <2>1 DEF HistInv, LoggedInv
    <3>2. history \o << >> = history  BY <1>1, PrefixOfNothing
    <3> QED  BY <1>1, <3>1, <3>2, ReplayedPrefix
  <2> QED  BY <2>1, <2>2, <2>3
           DEF HistInv, FullInv, TargetInv, LoggedInv, PendingInv
<1>3. CASE ClearNext
  <2>1. /\ log_phase = "clear" /\ log_phase' = "clear"
        /\ max_wal_file_size' = max_wal_file_size
    BY <1>3 DEF ClearNext, writerVars
  <2>2. PICK n \in DOMAIN logs : logs' = WithoutFile(logs, n)
    BY <1>3 DEF ClearNext
  <2>3. history' = history /\ pending' = pending
    BY <2>1, Observed, PendingObserved DEF Restores
  <2>4. FullInv'
    <3>1. \A m \in DOMAIN logs' : m \in DOMAIN logs /\ logs'[m] = logs[m]
      BY <2>2 DEF WithoutFile
    <3> QED  BY <2>1, <3>1, FullKept DEF HistInv
  <2>5. IsPrefix(Replayed(logs'), history \o pending)
    <3>1. IsPrefix(Replayed(logs'), Replayed(logs))
      BY <1>1, <2>2, RemovalShrinks
    <3>2. IsPrefix(Replayed(logs), history \o pending)
      BY <2>1 DEF HistInv, LoggedInv
    <3>3. IsLog(logs')  BY <1>1, <2>2, WithoutFileIsLog
    <3>4. /\ Replayed(logs') \in Seq(Op) /\ Replayed(logs) \in Seq(Op)
          /\ history \o pending \in Seq(Op)
      BY <1>1, <3>3, ReplayedTyped, PrefixOfConcatenation
    <3> QED  BY <3>1, <3>2, <3>4, PrefixTransitive
  <2> QED  BY <2>1, <2>3, <2>4, <2>5
           DEF HistInv, TargetInv, LoggedInv, PendingInv
<1>4. CASE ClearDone
  <2>1. /\ log_phase = "clear" /\ log_phase' = "idle" /\ logs' = logs
        /\ max_wal_file_size' = max_wal_file_size /\ DOMAIN logs = {}
    BY <1>4 DEF ClearDone
  <2>2. history' = << >> /\ pending' = pending
    BY <2>1, Observed, PendingObserved DEF Restores
  <2>3. Logged(logs) = << >>  BY <2>1, EmptyLog
  <2> QED  BY <2>1, <2>2, <2>3
           DEF HistInv, FullInv, TargetInv, LoggedInv, PendingInv
<1> QED  BY <1>2, <1>3, <1>4 DEF Clear

\* A process that ends leaves a log of which a prefix is read, and that holds
\* everything acknowledged unless it was being cleared.
LEMMA EndHistory ==
    ASSUME IInv, HistInv, SessionEnds, Observe, log_phase # "down", FullInv',
           IsPrefix(Replayed(logs'), history \o pending'),
           log_phase # "clear" => Len(history) <= Len(Logged(logs'))
    PROVE  HistInv'
<1>1. log_phase' = "down"  BY DEF SessionEnds
<1>2. history' = history /\ died' = log_phase  BY <1>1, Observed
<1>3. TargetInv'  BY <1>1 DEF TargetInv
<1>4. LoggedInv'  BY <1>1, <1>2 DEF LoggedInv
<1>5. PendingInv'
  <2>1. CASE log_phase \in {"append", "close", "apply"}
    <3>1. pending' = <<op>>  BY <1>1, <2>1, PendingObserved
    <3>2. op \in Op  BY <2>1 DEF IInv, WriterInv
    <3>3. <<op>> \in Seq(Op)  BY <3>2
    <3> QED  BY <1>1, <3>1, <3>3 DEF PendingInv
  <2>2. CASE log_phase \notin {"append", "close", "apply"}
    <3>1. pending' = pending  BY <1>1, <2>2, PendingObserved DEF Restores
    <3> QED  BY <1>1, <3>1 DEF HistInv, PendingInv
  <2> QED  BY <2>1, <2>2
<1> QED  BY <1>3, <1>4, <1>5 DEF HistInv

\* A process that ends with the log as it is.
LEMMA EndUnwritten ==
    ASSUME IInv, HistInv, SessionEnds, Observe, log_phase # "down",
           logs' = logs, max_wal_file_size' = max_wal_file_size
    PROVE  HistInv'
<1>1. IsLog(logs) /\ history \in Seq(Op) /\ pending = << >>
      /\ log_phase' = "down"
  BY TypedLog DEF IInv, MemTableInv, HistInv, PendingInv, SessionEnds
<1>2. FullInv'  BY DEF HistInv, FullInv
<1>3. /\ Logged(logs) \in Seq(Op) /\ Replayed(logs) \in Seq(Op)
      /\ IsPrefix(Replayed(logs), Logged(logs))
  BY <1>1, LoggedTyped, ReplayedTyped, ReplayedPrefix
<1>4. Len(Replayed(logs)) <= Len(Logged(logs))  BY <1>3, PrefixIs
<1>5. history \o << >> = history  BY <1>1, PrefixOfNothing
<1>6. log_phase \in LogPhase  BY DEF IInv, TypeOK
<1>7. CASE log_phase \in {"truncate", "drop", "open"}
  <2>1. history = Replayed(logs)  BY <1>7 DEF IInv, RepairInv, Repairing
  <2>2. pending' = << >>
    BY <1>1, <1>7, PendingObserved DEF Restores
  <2>3. IsPrefix(Replayed(logs), history \o pending')
    BY <1>3, <1>5, <2>1, <2>2, PrefixSame
  <2> QED  BY <1>2, <1>4, <2>1, <2>3, EndHistory
<1>8. CASE log_phase = "idle"
  <2>1. history = Logged(logs)  BY <1>8 DEF HistInv, LoggedInv
  <2>2. pending' = << >>
    BY <1>1, <1>8, PendingObserved DEF Restores
  <2>3. IsPrefix(Replayed(logs), history \o pending')
    BY <1>3, <1>5, <2>1, <2>2
  <2>4. Len(history) <= Len(Logged(logs))  BY <1>1, <2>1
  <2> QED  BY <1>2, <2>3, <2>4, EndHistory
<1>9. CASE log_phase = "append"
  <2>1. history = Logged(logs)  BY <1>9 DEF HistInv, LoggedInv
  <2>2. pending' = <<op>> /\ op \in Op
    BY <1>1, <1>9, PendingObserved DEF IInv, WriterInv
  <2>3. IsPrefix(Replayed(logs), history \o pending')
    <3>1. <<op>> \in Seq(Op)  BY <2>2
    <3>2. history \o <<op>> \in Seq(Op) /\ IsPrefix(history, history \o <<op>>)
      BY <1>1, <3>1, PrefixOfConcatenation
    <3> QED  BY <1>1, <1>3, <2>1, <2>2, <3>2, PrefixTransitive
  <2>4. Len(history) <= Len(Logged(logs))  BY <1>1, <2>1
  <2> QED  BY <1>2, <2>3, <2>4, EndHistory
<1>10. CASE log_phase \in {"close", "apply"}
  <2>1. Append(history, op) = Logged(logs)
    BY <1>10 DEF HistInv, LoggedInv
  <2>2. pending' = <<op>> /\ op \in Op
    BY <1>1, <1>10, PendingObserved DEF IInv, WriterInv
  <2>3. history \o <<op>> = Append(history, op)  BY <1>1, <2>2
  <2>4. IsPrefix(Replayed(logs), history \o pending')
    BY <1>3, <2>1, <2>2, <2>3
  <2>5. Len(history) <= Len(Append(history, op))  BY <1>1, <2>2
  <2>6. Len(history) <= Len(Logged(logs))  BY <2>1, <2>5
  <2> QED  BY <1>2, <2>4, <2>6, EndHistory
<1>11. CASE log_phase = "clear"
  <2>1. IsPrefix(Replayed(logs), history \o pending)
    BY <1>11 DEF HistInv, LoggedInv
  <2>2. pending' = pending
    BY <1>1, <1>11, PendingObserved DEF Restores
  <2> QED  BY <1>2, <1>11, <2>1, <2>2, EndHistory
<1> QED  BY <1>6, <1>7, <1>8, <1>9, <1>10, <1>11 DEF LogPhase

\* A process that dies in a write: of what it writes to, the reader gets what it
\* got before.
LEMMA EndWriting ==
    ASSUME IInv, HistInv, SessionEnds, Observe,
           log_phase \in {"append", "close"},
           max_wal_file_size' = max_wal_file_size,
           NEW p \in 1 .. MaxLog,
           p \in {LatestSegment(logs), LatestSegment(logs) + 1},
           NEW c \in LogSegment, Ops(c) = Ops(Content(logs, p)),
           logs' = WithFile(logs, p, c),
           \/ \A j \in DOMAIN c.cells : c.cells[j] # Close
           \/ Size(c) >= max_wal_file_size
    PROVE  HistInv'
<1>1. IsLog(logs) /\ history \in Seq(Op) /\ log_phase' = "down" /\ op \in Op
  BY TypedLog DEF IInv, MemTableInv, WriterInv, SessionEnds
<1>2. IsLog(logs')  BY <1>1, WithFileIsLog
<1>3. FullInv'
  <2>1. \A n \in DOMAIN logs' :
           \/ n = p /\ logs'[n] = c
           \/ n \in DOMAIN logs /\ logs'[n] = logs[n]
    BY DEF WithFile
  <2>2. FullInv  BY DEF HistInv
  <2> QED  BY <2>1, <2>2, FullKept
<1>4. Logged(logs') = Logged(logs)
  <2>1. Ops(Content(logs, p)) \in Seq(Op) /\ Logged(logs) \in Seq(Op)
    BY <1>1, ContentTyped, OpsTyped, LoggedTyped
  <2>2. Ops(c) = Ops(Content(logs, p)) \o << >>  BY <2>1, PrefixOfNothing
  <2>3. Logged(logs') = Logged(logs) \o << >>
    BY <1>1, <2>2, NothingLogged, LoggedWith
  <2> QED  BY <2>1, <2>3, PrefixOfNothing
<1>5. /\ Logged(logs') \in Seq(Op) /\ Replayed(logs') \in Seq(Op)
      /\ IsPrefix(Replayed(logs'), Logged(logs'))
  BY <1>2, LoggedTyped, ReplayedTyped, ReplayedPrefix
<1>6. pending' = <<op>> /\ <<op>> \in Seq(Op)
  BY <1>1, PendingObserved
<1>7. /\ history \o <<op>> \in Seq(Op) /\ IsPrefix(history, history \o <<op>>)
      /\ history \o <<op>> = Append(history, op)
  <2>1. history \o <<op>> = Append(history, op)  BY <1>1, <1>6
  <2> QED  BY <1>1, <1>6, <2>1, PrefixOfConcatenation
<1>8. Logged(logs) \in {history, history \o <<op>>}
  BY <1>7 DEF HistInv, LoggedInv
<1>9. IsPrefix(Replayed(logs'), history \o pending')
  <2>1. CASE Logged(logs) = history
    BY <1>1, <1>4, <1>5, <1>6, <1>7, <2>1, PrefixTransitive
  <2>2. CASE Logged(logs) = history \o <<op>>
    BY <1>4, <1>5, <1>6, <2>2
  <2> QED  BY <1>8, <2>1, <2>2
<1>10. Len(history) <= Len(Logged(logs'))
  <2>1. Len(history) <= Len(history) /\ Len(history) <= Len(history \o <<op>>)
    BY <1>1, <1>6
  <2> QED  BY <1>4, <1>8, <2>1
<1> QED  BY <1>3, <1>9, <1>10, EndHistory

LEMMA CrashHistory ==
    ASSUME IInv, HistInv, Crash, Observe
    PROVE  HistInv'
<1>1. IsLog(logs)  BY TypedLog DEF IInv
<1>2. /\ SessionEnds /\ log_phase # "down"
      /\ max_wal_file_size' = max_wal_file_size
  BY DEF Crash
<1>3. CASE logs' = logs  BY <1>2, <1>3, EndUnwritten
<1>4. CASE /\ log_phase = "append"
           /\ LET f == Content(logs, write_path)
              IN  \E g \in {f, AppendHalf(f)} :
                     logs' = WithFile(logs, write_path, g)
  <2> DEFINE f == Content(logs, write_path)
  <2>1. f \in LogSegment /\ Whole(f)  BY <1>4, AppendsToWhole
  <2>2. ~f.torn /\ \A j \in DOMAIN f.cells : f.cells[j] # Close
    BY <2>1, WholeHasNoClose DEF Whole
  <2>3. PICK g \in {f, AppendHalf(f)} : logs' = WithFile(logs, write_path, g)
    BY <1>4
  <2> HIDE DEF f
  <2>4. /\ g \in LogSegment /\ Ops(g) = Ops(f)
        /\ \A j \in DOMAIN g.cells : g.cells[j] # Close
    BY <2>1, <2>2, <2>3, HalfAppended
  <2>5. /\ write_path \in 1 .. MaxLog
        /\ write_path \in {LatestSegment(logs), LatestSegment(logs) + 1}
    BY <1>4, AppendTarget
  <2> QED  BY <1>2, <1>4, <2>3, <2>4, <2>5, EndWriting DEF f
<1>5. CASE /\ log_phase = "close"
           /\ logs' = WithFile(logs, written_to, AppendHalf(logs[written_to]))
  <2> DEFINE f == logs[written_to]
             g == AppendHalf(f)
  <2>1. /\ written_to \in 1 .. MaxLog /\ written_to = LatestSegment(logs)
        /\ written_to \in DOMAIN logs
    BY <1>5, CloseTarget
  <2>2. /\ f \in LogSegment /\ Whole(f) /\ f = Content(logs, written_to)
        /\ Size(f) >= max_wal_file_size
    BY <1>1, <1>5, <2>1 DEF IsLog, HistInv, TargetInv, Content
  <2>3. ~f.torn  BY <2>2 DEF Whole
  <2> HIDE DEF f
  <2>4. g \in LogSegment /\ Ops(g) = Ops(f) /\ Size(g) = Size(f) + 1
    BY <2>2, <2>3, HalfAppended
  <2>5. Size(g) >= max_wal_file_size
    <3>1. Size(f) \in Nat /\ max_wal_file_size \in Nat
      BY <2>2, SizeTyped, WALAssumption DEF IInv, TypeOK
    <3> QED  BY <2>2, <2>4, <3>1
  <2>6. logs' = WithFile(logs, written_to, g)  BY <1>5 DEF f
  <2> HIDE DEF g
  <2> QED  BY <1>2, <1>5, <2>1, <2>2, <2>4, <2>5, <2>6, EndWriting
<1> QED  BY <1>3, <1>4, <1>5 DEF Crash

LEMMA RotHistory ==
    ASSUME IInv, HistInv, Rot, Observe
    PROVE  HistInv'
<1>1. IsLog(logs) /\ history \in Seq(Op) /\ pending \in Seq(Op)
  BY TypedLog DEF IInv, MemTableInv, HistInv, PendingInv
<1>2. /\ log_phase = "down" /\ log_phase' = "down"
      /\ max_wal_file_size' = max_wal_file_size
  BY DEF Rot, writerVars
<1> PICK n \in DOMAIN logs : \E j \in DOMAIN logs[n].cells :
         logs' = [logs EXCEPT ![n].cells[j] = Corrupt]
  BY DEF Rot
<1>3. PICK j \in DOMAIN logs[n].cells :
         logs' = [logs EXCEPT ![n].cells[j] = Corrupt]
  OBVIOUS
<1>4. /\ IsPrefix(Replayed(logs'), Replayed(logs))
      /\ DOMAIN logs' = DOMAIN logs
      /\ \A m \in DOMAIN logs :
            /\ Size(logs'[m]) = Size(logs[m])
            /\ HasClose(logs'[m]) => HasClose(logs[m])
  <2>1. IsLog(logs)  BY <1>1
  <2>2. IsPrefix(Replayed(logs'), Replayed(logs))
    BY <2>1, <1>3, RotShrinks
  <2>3. DOMAIN logs' = DOMAIN logs  BY <2>1, <1>3, RotShrinks
  <2>4. ASSUME NEW m \in DOMAIN logs
        PROVE  Size(logs'[m]) = Size(logs[m])
    BY <2>1, <1>3, RotShrinks
  <2>5. ASSUME NEW m \in DOMAIN logs
        PROVE  HasClose(logs'[m]) => HasClose(logs[m])
    BY <2>1, <1>3, RotShrinks
  <2> QED  BY <2>2, <2>3, <2>4, <2>5
<1>5. IsLog(logs')  BY <1>1, <1>3, RotKeeps
<1>6. history' = history /\ died' = "rot" /\ pending' = pending
  BY <1>2, Observed, PendingObserved DEF Restores
<1>7. FullInv'
  <2>1. FullInv  BY DEF HistInv
  <2> QED  BY <1>2, <1>4, <2>1 DEF FullInv, HasClose
<1>8. IsPrefix(Replayed(logs'), history \o pending)
  <2>1. IsPrefix(Replayed(logs), history \o pending)
    BY <1>2 DEF HistInv, LoggedInv
  <2>2. /\ Replayed(logs') \in Seq(Op) /\ Replayed(logs) \in Seq(Op)
        /\ history \o pending \in Seq(Op)
    BY <1>1, <1>5, ReplayedTyped, PrefixOfConcatenation
  <2> QED  BY <1>4, <2>1, <2>2, PrefixTransitive
<1>9. LoggedInv'  BY <1>2, <1>6, <1>8 DEF LoggedInv
<1>10. TargetInv' /\ PendingInv'
  BY <1>2, <1>6 DEF HistInv, TargetInv, PendingInv
<1> QED  BY <1>7, <1>9, <1>10 DEF HistInv

LEMMA StepHistory ==
    ASSUME Steady, IInv, HistInv, [HNext]_allVars
    PROVE  HistInv'
<1>1. CASE UNCHANGED allVars
  BY <1>1 DEF HistInv, FullInv, TargetInv, LoggedInv, PendingInv,
              allVars, walVars, writerVars, callVars
<1>2. ASSUME HNext PROVE Next /\ Observe  BY <1>2 DEF HNext
<1>3. CASE Recovery /\ Observe
  <2>1. CASE Restore  BY <1>3, <2>1, RestoreHistory
  <2>2. CASE Truncate  BY <1>3, <2>2, TruncateHistory
  <2>3. CASE TruncateThrows
    <3>1. /\ SessionEnds /\ log_phase # "down" /\ logs' = logs
          /\ max_wal_file_size' = max_wal_file_size
      BY <2>3 DEF TruncateThrows
    <3> QED  BY <1>3, <3>1, EndUnwritten
  <2>4. CASE DropHigher \/ DropDone  BY <1>3, <2>4, DropHistory
  <2>5. CASE OpenWriter  BY <1>3, <2>5, OpenHistory
  <2> QED  BY <1>3, <2>1, <2>2, <2>3, <2>4, <2>5 DEF Recovery
<1>4. CASE Write /\ Observe
  <2>1. ASSUME NEW k \in Key, NEW e \in Entry, WriteBegin(k, e) PROVE HistInv'
    BY <1>4, <2>1, BeginHistory
  <2>2. CASE AppendRecord  BY <1>4, <2>2, AppendHistory
  <2>3. CASE AppendClose  BY <1>4, <2>3, CloseHistory
  <2>4. CASE AppendShort \/ CloseShort
    BY <2>4 DEF AppendShort, CloseShort, Steady
  <2>5. CASE Apply  BY <1>4, <2>5, ApplyHistory
  <2> QED  BY <1>4, <2>1, <2>2, <2>3, <2>4, <2>5 DEF Write
<1>5. CASE Clear /\ Observe  BY <1>5, ClearHistory
<1>6. CASE Shutdown /\ Observe
  <2>1. /\ SessionEnds /\ log_phase # "down" /\ logs' = logs
        /\ max_wal_file_size' = max_wal_file_size
    BY <1>6 DEF Shutdown
  <2> QED  BY <1>6, <2>1, EndUnwritten
<1>7. CASE Crash /\ Observe  BY <1>7, CrashHistory
<1>8. CASE Rot /\ Observe  BY <1>8, RotHistory
<1> QED  BY <1>1, <1>2, <1>3, <1>4, <1>5, <1>6, <1>7, <1>8 DEF Next

-----------------------------------------------------------------------------
(* Where the log holds the history.                                        *)

\* As long as no write fails unnoticed and the limit stays the same, the log
\* holds what was acknowledged, in the segments a reader comes to in that order.
THEOREM LogHoldsHistory ==
    ASSUME Steady
    PROVE  HSpec => [](IInv /\ HistInv)
<1>1. HInit => IInv /\ HistInv  BY InitEstablishes, InitHistory
<1>2. IInv /\ HistInv /\ [HNext]_allVars => IInv' /\ HistInv'
  BY StepKeeps, StepHistory
<1> QED  BY <1>1, <1>2, PTL DEF HSpec

\* A restart replays a prefix of what was logged, in order, whatever was torn,
\* spoiled, half cleared or half repaired: nothing is skipped, repeated or made
\* up.
THEOREM RecoversPrefixHolds ==
    ASSUME Steady
    PROVE  HSpec => RecoversPrefix
<1>1. IInv /\ HistInv /\ [HNext]_allVars
         => [Restores => IsPrefix(history', history \o pending)]_allVars
  <2> SUFFICES ASSUME IInv, HistInv, HNext, Restores
               PROVE  IsPrefix(history', history \o pending)
    OBVIOUS
  <2>1. log_phase = "down" /\ log_phase' \in {"truncate", "open"}
    BY DEF Restores
  <2>2. history' = Replayed(logs)  BY <2>1, Observed DEF HNext
  <2> QED  BY <2>1, <2>2 DEF HistInv, LoggedInv
<1> QED  BY <1>1, LogHoldsHistory, PTL DEF HSpec, RecoversPrefix

\* As long as every rotation was completed, every acknowledged operation is
\* replayed.
THEOREM SealedLogLosesNothingHolds ==
    ASSUME Steady
    PROVE  HSpec => SealedLogLosesNothing
<1>1. IInv /\ HistInv /\ [HNext]_allVars
         => [Restores /\ Sealed /\ died \notin {"rot", "clear"}
                => Len(history') >= Len(history)]_allVars
  <2> SUFFICES ASSUME IInv, HistInv, HNext, Restores, Sealed,
                      died \notin {"rot", "clear"}
               PROVE  Len(history') >= Len(history)
    OBVIOUS
  <2>1. log_phase = "down" /\ log_phase' \in {"truncate", "open"}
    BY DEF Restores
  <2>2. history' = Replayed(logs)  BY <2>1, Observed DEF HNext
  <2>3. IsLog(logs) /\ history \in Seq(Op)
    BY TypedLog DEF IInv, MemTableInv
  <2>4. Replayed(logs) = Logged(logs)  BY <2>3, SealedLog DEF Sealed
  <2>5. Len(history) <= Len(Logged(logs))
    BY <2>1 DEF HistInv, LoggedInv
  <2>6. Logged(logs) \in Seq(Op)  BY <2>3, LoggedTyped
  <2> QED  BY <2>2, <2>3, <2>4, <2>5, <2>6
<1> QED  BY <1>1, LogHoldsHistory, PTL DEF HSpec, SealedLogLosesNothing

\* A crash in the middle of a session would lead to a restart that rebuilds the
\* memtable the session has, with the record of the put under way once the log
\* has it, unless an earlier crash came between a full segment and its CLOSE.
THEOREM RestartRebuildsHolds ==
    ASSUME Steady
    PROVE  HSpec => []RestartRebuilds
<1>1. IInv /\ HistInv => RestartRebuilds
  <2> SUFFICES ASSUME IInv, HistInv, Sealed,
                      log_phase \in {"idle", "append", "close", "apply"}
               PROVE  /\ log_phase \in {"idle", "append"}
                            => TableOf(Replayed(logs)) = mem_table
                      /\ log_phase \in {"close", "apply"}
                            => TableOf(Replayed(logs))
                                  = Insert(mem_table, op.key, op.entry)
    BY DEF RestartRebuilds
  <2>1. IsLog(logs)  BY TypedLog DEF IInv
  <2>2. Replayed(logs) = Logged(logs)  BY <2>1, SealedLog DEF Sealed
  <2>3. history \in Seq(Op) /\ mem_table = TableOf(history)
    BY DEF IInv, MemTableInv
  <2>4. CASE log_phase \in {"idle", "append"}
    BY <2>2, <2>3, <2>4 DEF HistInv, LoggedInv
  <2>5. CASE log_phase \in {"close", "apply"}
    <3>1. Logged(logs) = Append(history, op)
      BY <2>5 DEF HistInv, LoggedInv
    <3>2. op \in Op  BY <2>5 DEF IInv, WriterInv
    <3>3. TableOf(Append(history, op)) = Insert(TableOf(history), op.key, op.entry)
      BY <2>3, <3>2, TableOfAppend
    <3> QED  BY <2>2, <2>3, <2>5, <3>1, <3>3
  <2> QED  BY <2>4, <2>5
<1> QED  BY <1>1, LogHoldsHistory, PTL

-----------------------------------------------------------------------------
(* Sequence numbers.                                                       *)

Counted(f) ==
    \A j \in 2 .. Len(f.cells) :
        IsRecord(f.cells[j - 1]) /\ IsRecord(f.cells[j])
            => f.cells[j].seq = f.cells[j - 1].seq + 1

\* A step leaves a segment as it is, or one that is counted.
LEMMA CountedKept ==
    ASSUME ConsecutiveInSegment,
           \A n \in DOMAIN logs' : \/ n \in DOMAIN logs /\ logs'[n] = logs[n]
                                   \/ Counted(logs'[n])
    PROVE  ConsecutiveInSegment'
BY DEF ConsecutiveInSegment, Counted

LEMMA CountedSegment ==
    ASSUME ConsecutiveInSegment, NEW n \in DOMAIN logs
    PROVE  Counted(logs[n])
BY DEF ConsecutiveInSegment, Counted

\* A cell appended to a counted segment follows its last record, or is none.
LEMMA CountedAppend ==
    ASSUME NEW f \in LogSegment, Counted(f), ~f.torn,
           NEW c \in Record \cup {Close}, NEW g, g = AppendCell(f, c),
           IsRecord(c) /\ f.cells # << >> /\ IsRecord(Last(f.cells))
              => c.seq = Last(f.cells).seq + 1
    PROVE  Counted(g) /\ g.cells # << >> /\ Last(g.cells) = c
<1> DEFINE N == Len(f.cells)
<1>1. f.cells \in Seq(Record \cup {Close, Corrupt}) /\ N \in Nat
  BY DEF LogSegment
<1>2. g = [cells |-> Append(f.cells, c), torn |-> FALSE]
  <2>1. f.torn = FALSE  BY DEF LogSegment
  <2> QED  BY <2>1, CellsReplaced DEF AppendCell
<1>3. /\ g.cells \in Seq(Record \cup {Close, Corrupt})
      /\ Len(g.cells) = N + 1 /\ g.cells[N + 1] = c
      /\ \A j \in 1 .. N : g.cells[j] = f.cells[j]
  BY <1>1, <1>2
<1>4. g.cells # << >> /\ Last(g.cells) = c
  <2>1. Last(g.cells) = g.cells[Len(g.cells)]  BY DEF Last
  <2>2. Len(g.cells) # 0  BY <1>1, <1>3
  <2> QED  BY <1>3, <2>1, <2>2
<1>5. N # 0 => f.cells # << >> /\ Last(f.cells) = f.cells[N]
  BY <1>1 DEF Last
<1> HIDE DEF N
<1>6. ASSUME NEW j \in 2 .. N + 1,
             IsRecord(g.cells[j - 1]), IsRecord(g.cells[j])
      PROVE  g.cells[j].seq = g.cells[j - 1].seq + 1
  <2>1. CASE j = N + 1
    <3>1. N # 0 /\ j - 1 = N /\ N \in 1 .. N  BY <1>1, <2>1
    <3>2. g.cells[j - 1] = f.cells[N] /\ g.cells[j] = c
      BY <1>3, <2>1, <3>1
    <3> QED  BY <1>5, <1>6, <3>1, <3>2
  <2>2. CASE j # N + 1
    <3>1. j \in 2 .. N /\ j \in 1 .. N /\ j - 1 \in 1 .. N  BY <1>1, <2>2
    <3>2. g.cells[j - 1] = f.cells[j - 1] /\ g.cells[j] = f.cells[j]
      BY <1>3, <3>1
    <3>3. f.cells[j].seq = f.cells[j - 1].seq + 1
      BY <1>6, <3>1, <3>2 DEF Counted, N
    <3> QED  BY <3>2, <3>3
  <2> QED  BY <2>1, <2>2
<1>7. Counted(g)  BY <1>3, <1>6 DEF Counted
<1> QED  BY <1>4, <1>7

\* A new segment is counted.
LEMMA CountedEmpty == Counted(EmptySegment)
BY DEF Counted, EmptySegment

\* So is what is left of a counted one when it is cut, spoiled or torn.
LEMMA CountedPart ==
    ASSUME NEW f \in LogSegment, Counted(f), NEW g \in LogSegment,
           Len(g.cells) <= Len(f.cells),
           \A j \in 1 .. Len(g.cells) :
              IsRecord(g.cells[j]) => g.cells[j] = f.cells[j]
    PROVE  Counted(g)
<1>1. f.cells \in Seq(Record \cup {Close, Corrupt})
      /\ g.cells \in Seq(Record \cup {Close, Corrupt})
  BY DEF LogSegment
<1>2. ASSUME NEW j \in 2 .. Len(g.cells),
             IsRecord(g.cells[j - 1]), IsRecord(g.cells[j])
      PROVE  g.cells[j].seq = g.cells[j - 1].seq + 1
  <2>1. /\ j \in 1 .. Len(g.cells) /\ j - 1 \in 1 .. Len(g.cells)
        /\ j \in 2 .. Len(f.cells)
    BY <1>1
  <2>2. g.cells[j - 1] = f.cells[j - 1] /\ g.cells[j] = f.cells[j]
    BY <1>2, <2>1
  <2>3. f.cells[j].seq = f.cells[j - 1].seq + 1
    BY <1>2, <2>1, <2>2 DEF Counted
  <2> QED  BY <2>2, <2>3
<1> QED  BY <1>2 DEF Counted

\* A writer that opens a whole segment goes on counting.
LEMMA NewNumber ==
    ASSUME IInv, NewWriter, write_path' \in DOMAIN logs,
           Whole(logs[write_path']), logs[write_path'].cells # << >>
    PROVE  next_sequence' = Last(logs[write_path'].cells).seq + 1
<1> DEFINE L == LatestSegment(logs)
           f == logs[L]
           N == Len(f.cells)
<1>1. IsLog(logs)  BY TypedLog DEF IInv
<1>2. L \in Nat /\ L \in DOMAIN logs \cup {0} /\ \A n \in DOMAIN logs : n <= L
  BY <1>1, LatestTyped, WALAssumption
<1>3. write_path' \in {L, L + 1}  BY <1>1, ResolveTyped DEF NewWriter
<1>4. write_path' = L /\ L # 0
  <2>1. write_path' # L + 1  BY <1>2
  <2>2. 0 \notin DOMAIN logs  BY <1>1 DEF IsLog
  <2> QED  BY <1>3, <2>1, <2>2
<1>5. f \in LogSegment /\ Whole(f) /\ f.cells # << >>
  BY <1>1, <1>4 DEF IsLog
<1>6. IsRecord(Last(f.cells)) /\ ~f.torn
  <2>1. f.cells \in Seq(Record \cup {Close, Corrupt})  BY <1>5 DEF LogSegment
  <2>2. N \in DOMAIN f.cells  BY <1>5, <2>1
  <2> QED  BY <1>5, <2>2 DEF Whole, Last
<1>7. NextSequences(logs) = {Last(f.cells).seq + 1}
  BY <1>4, <1>5, <1>6 DEF NextSequences
<1> QED  BY <1>4, <1>7 DEF NewWriter

LEMMA AppendCounts ==
    ASSUME IInv, HistInv, CountInv, AppendRecord
    PROVE  CountInv'
<1> DEFINE f == Content(logs, write_path)
           r == [op |-> op, seq |-> next_sequence]
           g == AppendCell(f, r)
<1>1. log_phase = "append" /\ AfterAppend /\ logs' = WithFile(logs, write_path, g)
  BY DEF AppendRecord
<1>2. r \in Record /\ r \in Record \cup {Close} /\ r.seq = next_sequence
  BY <1>1 DEF IInv, WriterInv, TypeOK, Record
<1>3. f \in LogSegment /\ Whole(f)  BY <1>1, AppendsToWhole
<1>4. Counted(f)
  <2>1. CASE write_path \in DOMAIN logs
    <3>1. Counted(logs[write_path])
      BY <2>1, CountedSegment DEF CountInv
    <3> QED  BY <2>1, <3>1 DEF Content
  <2>2. CASE write_path \notin DOMAIN logs
    BY <2>2, CountedEmpty DEF Content
  <2> QED  BY <2>1, <2>2
<1>5. f.cells # << >> => next_sequence = Last(f.cells).seq + 1
  BY <1>1 DEF CountInv, NumberInv, Content, EmptySegment
<1>6. Counted(g) /\ g.cells # << >> /\ Last(g.cells) = r
  <2>1. ~f.torn  BY <1>3 DEF Whole
  <2> HIDE DEF f, r
  <2> QED  BY <1>2, <1>3, <1>4, <1>5, <2>1, CountedAppend
<1> HIDE DEF g, f
<1>7. /\ logs'[write_path] = g
      /\ \A n \in DOMAIN logs' :
            n # write_path => n \in DOMAIN logs /\ logs'[n] = logs[n]
  <2>1. DOMAIN logs' = DOMAIN logs \cup {write_path}  BY <1>1 DEF WithFile
  <2>2. \A n \in DOMAIN logs' :
           logs'[n] = IF n = write_path THEN g ELSE logs[n]
    BY <1>1 DEF WithFile
  <2>3. logs'[write_path] = g  BY <2>1, <2>2
  <2>4. ASSUME NEW n \in DOMAIN logs', n # write_path
        PROVE  n \in DOMAIN logs /\ logs'[n] = logs[n]
    BY <2>1, <2>2, <2>4
  <2> QED  BY <2>3, <2>4
<1>8. ConsecutiveInSegment'
  BY <1>6, <1>7, CountedKept DEF CountInv
<1>9. next_sequence' = next_sequence + 1  BY <1>1 DEF AfterAppend
<1>10. log_phase' # "close" => write_path' = write_path
       /\ log_phase' \in {"close", "apply"}
  BY <1>1 DEF AfterAppend
<1>11. NumberInv'
  <2>1. CASE log_phase' = "close"  BY <2>1 DEF NumberInv
  <2>2. CASE log_phase' # "close"
    <3>1. Last(logs'[write_path'].cells) = r  BY <1>6, <1>7, <1>10, <2>2
    <3>2. Last(logs'[write_path'].cells).seq = next_sequence
      BY <1>2, <3>1
    <3> QED  BY <1>9, <3>2 DEF NumberInv
  <2> QED  BY <2>1, <2>2
<1> QED  BY <1>8, <1>11 DEF CountInv

LEMMA StepCounts ==
    ASSUME Steady, IInv, HistInv, CountInv, [HNext]_allVars
    PROVE  CountInv'
<1>1. CASE UNCHANGED allVars
  BY <1>1 DEF CountInv, NumberInv, ConsecutiveInSegment, allVars, walVars,
              writerVars
<1>2. ASSUME HNext PROVE Next  BY <1>2 DEF HNext
<1>3. ConsecutiveInSegment /\ IsLog(logs)
  BY TypedLog DEF CountInv, IInv
<1>4. ASSUME logs' = logs PROVE ConsecutiveInSegment'
  BY <1>3, <1>4 DEF ConsecutiveInSegment
<1>5. ASSUME logs' = logs, next_sequence' = next_sequence,
             write_path' = write_path,
             log_phase \in {"idle", "append", "apply"}
      PROVE  CountInv'
  <2>1. NumberInv'  BY <1>5 DEF CountInv, NumberInv
  <2> QED  BY <1>4, <1>5, <2>1 DEF CountInv
<1>6. ASSUME ConsecutiveInSegment',
             log_phase' \notin {"idle", "append", "apply"}
      PROVE  CountInv'
  <2>1. NumberInv'  BY <1>6 DEF NumberInv
  <2> QED  BY <1>6, <2>1 DEF CountInv
<1>7. ASSUME NEW p, NEW c, logs' = WithFile(logs, p, c), Counted(c)
      PROVE  ConsecutiveInSegment'
  <2>1. \A n \in DOMAIN logs' : \/ n \in DOMAIN logs /\ logs'[n] = logs[n]
                                \/ logs'[n] = c
    BY <1>7 DEF WithFile
  <2> QED  BY <1>3, <1>7, <2>1, CountedKept
<1>8. ASSUME NEW p, logs' = WithoutFile(logs, p)
      PROVE  ConsecutiveInSegment'
  <2>1. \A n \in DOMAIN logs' : n \in DOMAIN logs /\ logs'[n] = logs[n]
    BY <1>8 DEF WithoutFile
  <2> QED  BY <1>3, <2>1, CountedKept
<1>9. CASE Recovery
  <2>1. CASE Restore  BY <1>4, <1>6, <2>1 DEF Restore
  <2>2. CASE Truncate
    <3> DEFINE s == recovery_result.segment
               f == logs[s]
               cut == [cells |-> SubSeq(f.cells, 1, StopCell(f) - 1),
                       torn  |-> FALSE]
    <3>1. /\ log_phase = "truncate" /\ log_phase' = "drop" /\ s \in DOMAIN logs
          /\ logs' = WithFile(logs, s,
                [cells |-> SubSeq(f.cells, 1, recovery_result.last_clean_offset),
                 torn |-> FALSE])
      BY <2>2 DEF Truncate
    <3>2. recovery_result = ResultOf(logs) /\ ~recovery_result.clean
      BY <3>1 DEF IInv, RepairInv
    <3>3. recovery_result.last_clean_offset = StopCell(f) - 1
      BY <1>3, <3>1, <3>2, FlaggedSegment DEF Content
    <3>4. f \in LogSegment /\ Counted(f)
      BY <1>3, <3>1, CountedSegment DEF IsLog
    <3>5. /\ cut \in LogSegment /\ Whole(cut) /\ StopCell(cut) = StopCell(f)
          /\ \A j \in 1 .. StopCell(f) - 1 : cut.cells[j] = f.cells[j]
      <4> HIDE DEF f
      <4> QED  BY <3>4, CutTyped
    <3>6. logs' = WithFile(logs, s, cut)  BY <3>1, <3>3
    <3> HIDE DEF cut, f
    <3>7. /\ Len(cut.cells) <= Len(f.cells)
          /\ Len(cut.cells) = StopCell(f) - 1
      <4>1. AtEnd(cut)  BY <3>5, WholeAtEnd
      <4>2. StopCell(f) \in 1 .. Len(f.cells) + 1  BY <3>4, StopCellBounds
      <4>3. f.cells \in Seq(Record \cup {Close, Corrupt})
            /\ cut.cells \in Seq(Record \cup {Close, Corrupt})
        BY <3>4, <3>5 DEF LogSegment
      <4>4. Len(f.cells) \in Nat /\ Len(cut.cells) \in Nat  BY <4>3
      <4>5. StopCell(f) = Len(cut.cells) + 1  BY <3>5, <4>1 DEF AtEnd
      <4> QED  BY <4>2, <4>4, <4>5
    <3>8. \A j \in 1 .. Len(cut.cells) :
             IsRecord(cut.cells[j]) => cut.cells[j] = f.cells[j]
      BY <3>5, <3>7
    <3>9. Counted(cut)  BY <3>4, <3>5, <3>7, <3>8, CountedPart
    <3>10. ConsecutiveInSegment'  BY <1>7, <3>6, <3>9
    <3> QED  BY <1>6, <3>1, <3>10
  <2>3. CASE TruncateThrows
    <3>1. logs' = logs /\ log_phase' = "down"
      BY <2>3 DEF TruncateThrows, SessionEnds
    <3> QED  BY <1>4, <1>6, <3>1
  <2>4. CASE DropHigher
    <3>1. PICK n \in Higher : logs' = WithoutFile(logs, n)
      BY <2>4 DEF DropHigher
    <3>2. log_phase' = "drop"  BY <2>4 DEF DropHigher
    <3> QED  BY <1>6, <1>8, <3>1, <3>2
  <2>5. CASE DropDone  BY <1>4, <1>6, <2>5 DEF DropDone
  <2>6. CASE OpenWriter
    <3>1. logs' = logs /\ log_phase = "open" /\ NewWriter
      BY <2>6 DEF OpenWriter
    <3>2. ResultOf(logs) = CleanResult  BY <3>1 DEF IInv, RepairInv
    <3>3. write_path' \in DOMAIN logs => Whole(logs[write_path'])
      BY <3>1, <3>2, NewTarget
    <3>4. write_path' \in DOMAIN logs /\ logs[write_path'].cells # << >>
             => next_sequence' = Last(logs[write_path'].cells).seq + 1
      BY <3>1, <3>3, NewNumber
    <3>5. NumberInv'  BY <3>1, <3>4 DEF NumberInv
    <3> QED  BY <1>4, <3>1, <3>5 DEF CountInv
  <2> QED  BY <1>9, <2>1, <2>2, <2>3, <2>4, <2>5, <2>6 DEF Recovery
<1>10. CASE Write
  <2>1. ASSUME NEW k \in Key, NEW e \in Entry, WriteBegin(k, e) PROVE CountInv'
    <3>1. /\ logs' = logs /\ next_sequence' = next_sequence
          /\ write_path' = write_path /\ log_phase = "idle"
      BY <2>1 DEF WriteBegin, writerVars
    <3> QED  BY <1>5, <3>1
  <2>2. CASE AppendRecord  BY <2>2, AppendCounts
  <2>3. CASE AppendClose
    <3> DEFINE f == logs[written_to]
               g == AppendCell(f, Close)
    <3>1. /\ log_phase = "close" /\ logs' = WithFile(logs, written_to, g)
          /\ write_path' = write_path
      BY <2>3 DEF AppendClose, AfterClose, writerVars
    <3>2. written_to \in DOMAIN logs  BY <3>1, CloseTarget
    <3>3. /\ f \in LogSegment /\ Counted(f) /\ ~f.torn
          /\ write_path \notin DOMAIN logs
      BY <1>3, <3>1, <3>2, CountedSegment
         DEF IsLog, HistInv, TargetInv, Whole
    <3>4. Counted(g)
      <4>1. ~IsRecord(Close)  BY DEF IsRecord
      <4> HIDE DEF f
      <4> QED  BY <3>3, <4>1, CountedAppend
    <3>5. ConsecutiveInSegment'
      <4> HIDE DEF g
      <4> QED  BY <1>7, <3>1, <3>4
    <3>6. write_path' \notin DOMAIN logs'
      <4> HIDE DEF g, f
      <4>1. DOMAIN logs' = DOMAIN logs \cup {written_to}
        BY <3>1 DEF WithFile
      <4> QED  BY <3>1, <3>2, <3>3, <4>1
    <3>7. NumberInv'  BY <3>6 DEF NumberInv
    <3> QED  BY <3>5, <3>7 DEF CountInv
  <2>4. CASE AppendShort \/ CloseShort
    BY <2>4 DEF AppendShort, CloseShort, Steady
  <2>5. CASE Apply
    <3>1. /\ logs' = logs /\ next_sequence' = next_sequence
          /\ write_path' = write_path /\ log_phase = "apply"
      BY <2>5 DEF Apply, writerVars
    <3> QED  BY <1>5, <3>1
  <2> QED  BY <1>10, <2>1, <2>2, <2>3, <2>4, <2>5 DEF Write
<1>11. CASE Clear
  <2>1. CASE ClearBegin
    <3>1. logs' = logs /\ log_phase' = "clear"  BY <2>1 DEF ClearBegin
    <3> QED  BY <1>4, <1>6, <3>1
  <2>2. CASE ClearNext
    <3>1. PICK n \in DOMAIN logs : logs' = WithoutFile(logs, n)
      BY <2>2 DEF ClearNext
    <3>2. log_phase' = "clear"  BY <2>2 DEF ClearNext
    <3> QED  BY <1>6, <1>8, <3>1, <3>2
  <2>3. CASE ClearDone
    <3>1. logs' = logs /\ DOMAIN logs = {}  BY <2>3 DEF ClearDone
    <3>2. NumberInv'  BY <3>1 DEF NumberInv
    <3> QED  BY <1>4, <3>1, <3>2 DEF CountInv
  <2> QED  BY <1>11, <2>1, <2>2, <2>3 DEF Clear
<1>12. CASE Shutdown
  <2>1. logs' = logs /\ log_phase' = "down"  BY <1>12 DEF Shutdown, SessionEnds
  <2> QED  BY <1>4, <1>6, <2>1
<1>13. CASE Crash
  <2>1. log_phase' = "down"  BY <1>13 DEF Crash, SessionEnds
  <2>2. CASE logs' = logs  BY <1>4, <1>6, <2>1, <2>2
  <2>3. CASE /\ log_phase = "append"
             /\ LET f == Content(logs, write_path)
                IN  \E g \in {f, AppendHalf(f)} :
                       logs' = WithFile(logs, write_path, g)
    <3> DEFINE f == Content(logs, write_path)
    <3>1. f \in LogSegment /\ Whole(f)  BY <2>3, AppendsToWhole
    <3>2. Counted(f)
      <4>1. CASE write_path \in DOMAIN logs
        BY <1>3, <4>1, CountedSegment DEF Content
      <4>2. CASE write_path \notin DOMAIN logs
        BY <4>2, CountedEmpty DEF Content
      <4> QED  BY <4>1, <4>2
    <3>3. PICK g \in {f, AppendHalf(f)} : logs' = WithFile(logs, write_path, g)
      BY <2>3
    <3> HIDE DEF f
    <3>4. Counted(g)
      <4>1. ~f.torn  BY <3>1 DEF Whole
      <4>2. g.cells = f.cells  BY <3>1, <3>3, <4>1, HalfAppended
      <4> QED  BY <3>2, <4>2 DEF Counted
    <3>5. ConsecutiveInSegment'  BY <1>7, <3>3, <3>4
    <3> QED  BY <1>6, <2>1, <3>5
  <2>4. CASE /\ log_phase = "close"
             /\ logs' = WithFile(logs, written_to, AppendHalf(logs[written_to]))
    <3> DEFINE f == logs[written_to]
    <3>1. written_to \in DOMAIN logs  BY <2>4, CloseTarget
    <3>2. f \in LogSegment /\ Counted(f) /\ ~f.torn
      BY <1>3, <2>4, <3>1, CountedSegment DEF IsLog, HistInv, TargetInv, Whole
    <3>3. logs' = WithFile(logs, written_to, AppendHalf(f))  BY <2>4
    <3> HIDE DEF f
    <3>4. AppendHalf(f).cells = f.cells  BY <3>2, HalfAppended
    <3>5. Counted(AppendHalf(f))  BY <3>2, <3>4 DEF Counted
    <3>6. ConsecutiveInSegment'  BY <1>7, <3>3, <3>5
    <3> QED  BY <1>6, <2>1, <3>6
  <2> QED  BY <1>13, <2>2, <2>3, <2>4 DEF Crash
<1>14. CASE Rot
  <2>1. log_phase' = "down"  BY <1>14 DEF Rot
  <2>2. PICK n \in DOMAIN logs : \E j \in DOMAIN logs[n].cells :
           logs' = [logs EXCEPT ![n].cells[j] = Corrupt]
    BY <1>14 DEF Rot
  <2>3. PICK j \in DOMAIN logs[n].cells :
           logs' = [logs EXCEPT ![n].cells[j] = Corrupt]
    BY <2>2
  <2> DEFINE f == logs[n]
             g == [cells |-> [f.cells EXCEPT ![j] = Corrupt], torn |-> f.torn]
  <2>4. f \in LogSegment /\ Counted(f)  BY <1>3, CountedSegment DEF IsLog
  <2>5. [f EXCEPT !.cells = [f.cells EXCEPT ![j] = Corrupt]] = g
    BY <2>4, CellsReplaced
  <2>6. logs' = [logs EXCEPT ![n] = g]  BY <2>3, <2>5
  <2>7. g \in LogSegment  BY <2>4, SpoiledSegment
  <2>8. /\ Len(g.cells) = Len(f.cells) /\ Len(g.cells) \in Nat
        /\ \A i \in 1 .. Len(g.cells) :
              IsRecord(g.cells[i]) => g.cells[i] = f.cells[i]
    <3>1. f.cells \in Seq(Record \cup {Close, Corrupt})  BY <2>4 DEF LogSegment
    <3> QED  BY <3>1 DEF IsRecord
  <2> HIDE DEF g, f
  <2>9. Counted(g)  BY <2>4, <2>7, <2>8, CountedPart
  <2>10. ConsecutiveInSegment'
    <3>1. \A m \in DOMAIN logs' : m \in DOMAIN logs
                                  /\ (logs'[m] = logs[m] \/ logs'[m] = g)
      BY <2>6
    <3> QED  BY <1>3, <2>9, <3>1, CountedKept
  <2> QED  BY <1>6, <2>1, <2>10
<1> QED  BY <1>1, <1>2, <1>9, <1>10, <1>11, <1>12, <1>13, <1>14 DEF Next

\* As long as no write fails unnoticed and the limit stays the same, records are
\* numbered one by one in each segment, and the writer's number is the next one.
THEOREM CountInvHolds ==
    ASSUME Steady
    PROVE  HSpec => []CountInv
<1>1. ASSUME HInit PROVE CountInv
  <2>1. DOMAIN logs = {}  BY <1>1 DEF HInit, Init
  <2> QED  BY <2>1 DEF CountInv, NumberInv, ConsecutiveInSegment
<1>2. IInv /\ HistInv /\ CountInv /\ [HNext]_allVars => CountInv'
  BY StepCounts
<1> QED  BY <1>1, <1>2, LogHoldsHistory, PTL DEF HSpec

\* So, within a segment, sequence numbers count up by one, across sessions too.
THEOREM ConsecutiveInSegmentHolds ==
    ASSUME Steady
    PROVE  HSpec => []ConsecutiveInSegment
<1>1. CountInv => ConsecutiveInSegment  BY DEF CountInv
<1> QED  BY <1>1, CountInvHolds, PTL

=============================================================================
