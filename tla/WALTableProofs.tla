--------------------------- MODULE WALTableProofs ---------------------------
(***************************************************************************)
(* Log and memtable are one table that outlives the process: LogInv is     *)
(* inductive, and every step of WAL is a step of DurableTable or none, for *)
(* all keys, values, limits and bounds, in the environments of Orderly.    *)
(***************************************************************************)
EXTENDS LogProofs

-----------------------------------------------------------------------------
(* Segments.                                                               *)

\* A segment read to its end holds records only.
LEMMA AtEndHoldsRecords ==
    ASSUME NEW f \in LogSegment, AtEnd(f)
    PROVE  /\ \A j \in DOMAIN f.cells : IsRecord(f.cells[j])
           /\ ~f.torn => Whole(f)
<1>1. f.cells \in Seq(Record \cup {Close, Corrupt})  BY DEF LogSegment
<1>2. \A i \in 1 .. StopCell(f) - 1 : IsRecord(f.cells[i])  BY StopCellBounds
<1>3. StopCell(f) = Len(f.cells) + 1  BY DEF AtEnd
<1>4. Len(f.cells) \in Nat /\ DOMAIN f.cells = 1 .. Len(f.cells)  BY <1>1
<1>5. StopCell(f) - 1 = Len(f.cells)  BY <1>3, <1>4
<1> QED  BY <1>2, <1>4, <1>5 DEF Whole

\* What a reader makes of a segment, but for "clean", depends on its cells only.
LEMMA SameCells ==
    ASSUME NEW f, NEW g, g.cells = f.cells
    PROVE  /\ Ops(g) = Ops(f)
           /\ AtEnd(g) <=> AtEnd(f)
           /\ ReachedEof(g) <=> ReachedEof(f)
<1>1. StopCell(g) = StopCell(f)  BY DEF StopCell
<1> QED  BY <1>1 DEF Ops, AtEnd, ReachedEof

\* A whole segment closed is one a reader goes on from.
LEMMA ClosedSegment ==
    ASSUME NEW f \in LogSegment, Whole(f), NEW g, g = AppendCell(f, Close)
    PROVE  ReachedEof(g)
<1> DEFINE N == Len(f.cells)
<1>1. /\ f.cells \in Seq(Record \cup {Close, Corrupt}) /\ f.torn = FALSE
      /\ N \in Nat /\ DOMAIN f.cells = 1 .. N
      /\ \A j \in 1 .. N : IsRecord(f.cells[j])
  BY DEF LogSegment, Whole
<1>2. g = [cells |-> Append(f.cells, Close), torn |-> FALSE]
  BY <1>1, CellsReplaced DEF AppendCell
<1>3. g \in LogSegment  BY CloseAppended
<1>4. /\ Len(g.cells) = N + 1 /\ g.cells[N + 1] = Close
      /\ \A j \in 1 .. N : g.cells[j] = f.cells[j]
  BY <1>1, <1>2
<1> HIDE DEF N
<1> DEFINE M == N + 1
<1>5. M \in 1 .. Len(g.cells) + 1  BY <1>1, <1>4
<1>6. ~IsRecord(g.cells[M])  BY <1>4 DEF IsRecord
<1>7. \A j \in 1 .. M - 1 : IsRecord(g.cells[j])
  <2> TAKE j \in 1 .. M - 1
  <2>1. j \in 1 .. N  BY <1>1
  <2> QED  BY <1>1, <1>4, <2>1
<1>8. M # Len(g.cells) + 1 /\ g.cells[M] = Close  BY <1>1, <1>4
<1> HIDE DEF M
<1>9. StopCell(g) = M  BY <1>3, <1>5, <1>6, <1>7, StopCellIs
<1> QED  BY <1>8, <1>9 DEF ReachedEof, AtEnd

LEMMA RecordSize ==
    ASSUME NEW f \in LogSegment
    PROVE  /\ Len(f.cells) \in Nat
           /\ ~f.torn => Size(f) = 2 * Len(f.cells)
           /\ Size(f) >= 2 * Len(f.cells)
<1>1. f.cells \in Seq(Record \cup {Close, Corrupt})  BY DEF LogSegment
<1> DEFINE N == Len(f.cells)
<1>2. N \in Nat  BY <1>1
<1>3. Size(f) = 2 * N + (IF f.torn THEN 1 ELSE 0)  BY DEF Size
<1> HIDE DEF N
<1>4. /\ ~f.torn => Size(f) = 2 * N
      /\ Size(f) >= 2 * N
  BY <1>2, <1>3
<1> QED  BY <1>2, <1>4 DEF N

\* Every segment below p ends in its CLOSE record.
SealedBelow(dir, p) == \A n \in 1 .. p - 1 : ReachedEof(Content(dir, n))

\* Of such a log everything is read.
LEMMA SealedReplay ==
    ASSUME NEW dir, IsLog(dir), SealedBelow(dir, LatestSegment(dir))
    PROVE  Replayed(dir) = Logged(dir)
BY SealedLog DEF SealedBelow

\* A segment written to, and the others.
LEMMA WrittenSegment ==
    ASSUME NEW dir, NEW p \in Nat, NEW c
    PROVE  /\ DOMAIN WithFile(dir, p, c) = DOMAIN dir \cup {p}
           /\ WithFile(dir, p, c)[p] = c
           /\ \A n \in DOMAIN dir : n # p => WithFile(dir, p, c)[n] = dir[n]
           /\ SealedBelow(dir, p) => SealedBelow(WithFile(dir, p, c), p)
<1> DEFINE new == WithFile(dir, p, c)
<1>1. Content(new, p) = c /\ \A n : n # p => Content(new, n) = Content(dir, n)
  BY ContentWithFile
<1>2. ASSUME SealedBelow(dir, p), NEW n \in 1 .. p - 1
      PROVE  ReachedEof(Content(new, n))
  <2>1. n # p  OBVIOUS
  <2> QED  BY <1>1, <1>2, <2>1 DEF SealedBelow
<1>3. /\ DOMAIN new = DOMAIN dir \cup {p} /\ new[p] = c
      /\ \A n \in DOMAIN dir : n # p => new[n] = dir[n]
  BY DEF WithFile
<1> QED  BY <1>2, <1>3 DEF SealedBelow

\* Behind segments that end well, what a segment is made to hold more is what is
\* replayed more.
LEMMA WrittenLog ==
    ASSUME NEW dir, IsLog(dir), NEW p \in 1 .. MaxLog, NEW c \in LogSegment,
           p \in {LatestSegment(dir), LatestSegment(dir) + 1},
           SealedBelow(dir, p),
           NEW x \in Seq(Op), Ops(c) = Ops(Content(dir, p)) \o x
    PROVE  Replayed(WithFile(dir, p, c)) = Replayed(dir) \o x
<1> DEFINE new == WithFile(dir, p, c)
<1>0. new = WithFile(dir, p, c)  OBVIOUS
<1> SUFFICES Replayed(new) = Replayed(dir) \o x
  OBVIOUS
<1> HIDE DEF new
<1>1. LatestSegment(dir) \in Nat /\ p \in Nat /\ p # 0
  BY LatestTyped, WALAssumption
<1>2. IsLog(new) /\ LatestSegment(new) = p /\ SealedBelow(new, p)
  BY <1>0, <1>1, WithFileIsLog, LatestWithFile, WrittenSegment
<1>3. Replayed(new) = Logged(new)  BY <1>2, SealedReplay
<1>4. Replayed(dir) = Logged(dir)
  <2>1. SealedBelow(dir, LatestSegment(dir))  BY <1>1 DEF SealedBelow
  <2> QED  BY <2>1, SealedReplay
<1>5. Logged(new) = Logged(dir) \o x  BY <1>0, LoggedWith
<1> QED  BY <1>3, <1>4, <1>5

\* The same, when nothing more can be read.
LEMMA UnchangedLog ==
    ASSUME NEW dir, IsLog(dir), NEW p \in 1 .. MaxLog, NEW c \in LogSegment,
           p \in {LatestSegment(dir), LatestSegment(dir) + 1},
           SealedBelow(dir, p),
           NEW new, new = WithFile(dir, p, c),
           Ops(c) = Ops(Content(dir, p))
    PROVE  Replayed(new) = Replayed(dir)
<1>1. Ops(Content(dir, p)) \in Seq(Op) /\ Replayed(dir) \in Seq(Op)
  BY ContentTyped, OpsTyped, ReplayedTyped
<1>2. Ops(c) = Ops(Content(dir, p)) \o << >>  BY <1>1, PrefixOfNothing
<1>3. Replayed(new) = Replayed(dir) \o << >>
  BY <1>2, NothingLogged, WrittenLog
<1> QED  BY <1>1, <1>3, PrefixOfNothing

-----------------------------------------------------------------------------
(* What the invariant says of the log.                                     *)

\* The one element of a singleton is chosen.
LEMMA DurableIs ==
    /\ Durable = TableOf(Replayed(logs))
    /\ Durable' = TableOf(Replayed(logs'))
BY DEF Durable

LEMMA Typed ==
    ASSUME TypeOK
    PROVE  /\ IsLog(logs) /\ MaxLog \in Nat /\ MaxLogged \in Nat
           /\ max_wal_file_size \in Nat \ {0}
           /\ LatestSegment(logs) \in 0 .. MaxLog
           /\ LatestSegment(logs) \in DOMAIN logs \cup {0}
           /\ \A n \in DOMAIN logs : n <= LatestSegment(logs) /\ Size(logs[n]) \in Nat
           /\ Replayed(logs) \in Seq(Op) /\ Durable \in Table
<1>1. IsLog(logs)  BY TypedLog
<1>2. max_wal_file_size \in Nat \ {0}  BY WALAssumption DEF TypeOK
<1>3. Replayed(logs) \in Seq(Op)  BY <1>1, ReplayedTyped
<1>4. Durable \in Table  BY <1>3, TableOfTyped DEF Durable
<1>5. \A n \in DOMAIN logs : Size(logs[n]) \in Nat  BY <1>1, SizeTyped DEF IsLog
<1> QED  BY <1>1, <1>2, <1>3, <1>4, <1>5, LatestTyped, WALAssumption

LEMMA SealedIs == Sealed <=> SealedBelow(logs, LatestSegment(logs))
BY DEF Sealed, SealedBelow

\* A log of one segment never fills it.
LEMMA Single ==
    ASSUME LogInv, OneSegment
    PROVE  /\ DOMAIN logs \subseteq {1} /\ log_phase # "close"
           /\ LatestSegment(logs) \in {0, 1}
           /\ SealedBelow(logs, LatestSegment(logs))
           /\ \A n \in DOMAIN logs :
                 /\ AtEnd(logs[n]) /\ ~ReachedEof(logs[n])
                 /\ Size(logs[n]) <= 2 * MaxLogged
                 /\ \A limit \in LogLimits : Size(logs[n]) < limit
<1>1. /\ DOMAIN logs \subseteq {1} /\ log_phase # "close"
      /\ \A n \in DOMAIN logs : Size(logs[n]) <= 2 * MaxLogged
  BY DEF LogInv, SingleInv
<1>2. /\ LatestSegment(logs) \in {0, 1}
      /\ \A n \in DOMAIN logs : Size(logs[n]) \in Nat
  BY <1>1, Typed DEF LogInv
<1>3. SealedBelow(logs, LatestSegment(logs))
  <2>1. 1 .. LatestSegment(logs) - 1 = {}  BY <1>2
  <2> QED  BY <2>1 DEF SealedBelow
<1>4. ASSUME NEW n \in DOMAIN logs, NEW limit \in LogLimits
      PROVE  Size(logs[n]) < limit
  <2>1. limit \in Nat /\ MaxLogged \in Nat  BY WALAssumption
  <2>2. 2 * MaxLogged < limit  BY DEF OneSegment
  <2>3. Size(logs[n]) \in Nat /\ Size(logs[n]) <= 2 * MaxLogged  BY <1>1, <1>2
  <2> QED  BY <2>1, <2>2, <2>3
<1>5. ASSUME NEW n \in DOMAIN logs PROVE AtEnd(logs[n]) /\ ~ReachedEof(logs[n])
  <2>1. max_wal_file_size \in LogLimits /\ max_wal_file_size \in Nat
    BY WALAssumption DEF LogInv, TypeOK
  <2>2. Size(logs[n]) < max_wal_file_size /\ Size(logs[n]) \in Nat
    BY <1>2, <1>4, <2>1
  <2>3. ~ (Size(logs[n]) >= max_wal_file_size)  BY <2>1, <2>2
  <2>4. AtEnd(logs[n])  BY <2>3 DEF LogInv, SegmentsInv
  <2> QED  BY <2>4 DEF ReachedEof
<1> QED  BY <1>1, <1>2, <1>3, <1>4, <1>5

\* Without crash, the limit is the same for all sessions, and no file is torn.
LEMMA Several ==
    ASSUME Orderly, LogInv, ~OneSegment
    PROVE  /\ "crash" \notin LogFaults
           /\ \A limit \in LogLimits : limit = max_wal_file_size
           /\ \A n \in DOMAIN logs : ~logs[n].torn
           /\ log_phase \notin {"truncate", "drop"}
<1>1. "crash" \notin LogFaults /\ \A a, b \in LogLimits : a = b
  BY DEF Orderly
<1>2. max_wal_file_size \in LogLimits  BY DEF LogInv, TypeOK
<1>3. log_phase \notin {"truncate", "drop"}  BY DEF LogInv, CutInv
<1>4. ASSUME NEW n \in DOMAIN logs PROVE ~logs[n].torn
  <2>1. logs[n] \in LogSegment  BY DEF LogInv, TypeOK
  <2> QED  BY <2>1 DEF LogInv, SegmentsInv
<1> QED  BY <1>1, <1>2, <1>3, <1>4

-----------------------------------------------------------------------------
(* The invariant is inductive: one lemma per kind of step.                 *)

LEMMA InitLog == Init => LogInv
<1> SUFFICES ASSUME Init PROVE LogInv  OBVIOUS
<1> USE DEF Init
<1>1. TypeOK
  <2>1. /\ DOMAIN logs \subseteq 1 .. MaxLog
        /\ \A n \in DOMAIN logs : logs[n] \in LogSegment
    OBVIOUS
  <2>2. /\ 0 \in 0 .. MaxLog /\ 0 \in 0 .. MaxLog + 1 /\ 0 \in Nat
        /\ log_phase \in LogPhase
    BY WALAssumption DEF LogPhase
  <2> QED  BY <2>1, <2>2, EmptyTableTyped, CleanResultTyped DEF TypeOK
<1>2. DOMAIN logs = {}  OBVIOUS
<1>3. SegmentsInv /\ SingleInv  BY <1>2 DEF SegmentsInv, SingleInv
<1>4. SealedInv
  <2>1. LatestSegment(logs) = 0  BY <1>1, <1>2, Typed
  <2> QED  BY <2>1 DEF SealedInv, Sealed
<1>5. CutInv /\ ActiveInv /\ DurableInv  BY DEF CutInv, ActiveInv, DurableInv
<1> QED  BY <1>1, <1>3, <1>4, <1>5 DEF LogInv

\* The log itself stays as it is: what its segments and its seal say is kept
\* under the same limit, when no torn file goes unrepaired.
LEMMA LogKept ==
    ASSUME LogInv, logs' = logs, max_wal_file_size' = max_wal_file_size,
           log_phase # "close", log_phase' # "close", log_phase # "clear",
           log_phase = "truncate" => log_phase' = "truncate",
           log_phase = "down" => log_phase' \in {"down", "truncate"}
    PROVE  SegmentsInv' /\ SingleInv' /\ SealedInv'
<1>1. SegmentsInv'  BY DEF LogInv, SegmentsInv
<1>2. SingleInv'  BY DEF LogInv, SingleInv
<1>3. SealedInv'  BY DEF LogInv, SealedInv, Sealed
<1> QED  BY <1>1, <1>2, <1>3

LEMMA RestoreLog ==
    ASSUME Orderly, LogInv, Restore
    PROVE  LogInv'
<1>1. /\ IsLog(logs) /\ TypeOK /\ Sealed
      /\ Replayed(logs) \in Seq(Op) /\ Durable \in Table
      /\ LatestSegment(logs) \in DOMAIN logs \cup {0}
      /\ LatestSegment(logs) \in Nat
  BY Typed DEF LogInv, SealedInv, Restore
<1>2. /\ logs' = logs /\ log_phase = "down" /\ max_wal_file_size' \in LogLimits
      /\ mem_table' = Durable /\ recovery_result' = ResultOf(logs)
      /\ log_phase' = IF ResultOf(logs).clean THEN "open" ELSE "truncate"
      /\ UNCHANGED <<write_path, next_sequence, op, written_to>>
  BY DEF Restore, Durable
<1>3. /\ ResultOf(logs) \in [clean : BOOLEAN, segment : 0 .. MaxLog,
                             last_clean_offset : Nat]
      /\ ResultOf(logs).clean \in BOOLEAN
  BY <1>1, ResultTyped
<1>4. TypeOK'
  BY <1>1, <1>2, <1>3 DEF TypeOK, LogPhase
<1>5. ~ResultOf(logs).clean =>
         /\ OneSegment /\ 1 \in DOMAIN logs
         /\ ResultOf(logs).segment = 1
         /\ ResultOf(logs).last_clean_offset = Len(logs[1].cells)
  <2> SUFFICES ASSUME ~ResultOf(logs).clean
               PROVE  /\ OneSegment /\ 1 \in DOMAIN logs
                      /\ ResultOf(logs).segment = 1
                      /\ ResultOf(logs).last_clean_offset = Len(logs[1].cells)
    OBVIOUS
  <2> DEFINE s == StopSegment(logs)
  <2>1. /\ ResultOf(logs).segment = s
        /\ ResultOf(logs).last_clean_offset = StopCell(Content(logs, s)) - 1
        /\ s \in 1 .. LatestSegment(logs) /\ ~ReachedEof(Content(logs, s))
    BY <1>1, FlaggedSegment
  <2>2. ~Clean(logs, s)  BY DEF ResultOf, CleanResult
  <2> HIDE DEF s
  <2>3. s = LatestSegment(logs) /\ s \in DOMAIN logs
    BY <1>1, <2>1 DEF Sealed
  <2>4. Content(logs, s) = logs[s] /\ logs[s] \in LogSegment
    BY <1>1, <2>3 DEF Content, IsLog
  <2>5. AtEnd(logs[s])  BY <2>1, <2>3, <2>4 DEF LogInv, SegmentsInv
  <2>6. logs[s].torn  BY <2>2, <2>3, <2>4, <2>5 DEF Clean
  <2>7. OneSegment  BY <2>3, <2>6 DEF LogInv, SegmentsInv
  <2>8. s = 1  BY <2>3, <2>7, Single
  <2>9. Len(logs[s].cells) \in Nat  BY <2>4, RecordSize
  <2>10. StopCell(Content(logs, s)) - 1 = Len(logs[s].cells)
    BY <2>4, <2>5, <2>9 DEF AtEnd
  <2> QED  BY <2>1, <2>3, <2>7, <2>8, <2>10
<1>6. \A n \in DOMAIN logs : logs[n].torn => ~ResultOf(logs).clean
  <2> SUFFICES ASSUME NEW n \in DOMAIN logs, logs[n].torn, ResultOf(logs).clean
               PROVE  FALSE
    OBVIOUS
  <2>1. OneSegment  BY DEF LogInv, SegmentsInv
  <2>2. n = 1 /\ LatestSegment(logs) \in {0, 1} /\ ~ReachedEof(logs[n])
    BY <2>1, Single
  <2>3. LatestSegment(logs) = 1  BY <1>1, <2>2, Typed
  <2>4. StopSegment(logs) = 1  
    <3>1. ~ReachedEof(Content(logs, 1))  BY <2>2 DEF Content
    <3>2. 1 \in 1 .. LatestSegment(logs)  BY <2>3
    <3> QED  BY <1>1, <2>3, <3>1, <3>2, StopSegmentIs
  <2>5. ~Clean(logs, 1)  BY <2>2 DEF Clean, Content
  <2>6. ResultOf(logs).clean = FALSE  BY <2>4, <2>5 DEF ResultOf
  <2> QED  BY <2>6
<1>7. SegmentsInv'
  <2>1. CASE OneSegment
    <3>1. \A n \in DOMAIN logs : AtEnd(logs[n]) /\ Size(logs[n]) < max_wal_file_size'
      BY <1>2, <2>1, Single
    <3>2. \A n \in DOMAIN logs : logs[n].torn => log_phase' = "truncate"
      BY <1>2, <1>6
    <3> QED  BY <1>2, <2>1, <3>1, <3>2 DEF SegmentsInv
  <2>2. CASE ~OneSegment
    <3>1. max_wal_file_size' = max_wal_file_size
          /\ \A n \in DOMAIN logs : ~logs[n].torn
      BY <1>2, <2>2, Several
    <3> QED  BY <1>2, <3>1 DEF LogInv, SegmentsInv
  <2> QED  BY <2>1, <2>2
<1>8. SingleInv'  BY <1>2 DEF LogInv, SingleInv
<1>9. SealedInv'  BY <1>1, <1>2 DEF SealedInv, Sealed
<1>10. CutInv'  BY <1>2, <1>5 DEF CutInv
<1>11. ActiveInv'  BY <1>2 DEF ActiveInv
<1>12. DurableInv'
  <2>1. Durable' = Durable  BY <1>2 DEF Durable
  <2> QED  BY <1>2, <2>1 DEF DurableInv
<1> QED  BY <1>4, <1>7, <1>8, <1>9, <1>10, <1>11, <1>12 DEF LogInv

\* The half of a record goes, and with it nothing that is read.
LEMMA TruncateLog ==
    ASSUME Orderly, LogInv, Truncate
    PROVE  LogInv' /\ Durable' = Durable
<1> DEFINE f == logs[1]
           c == [cells |-> SubSeq(f.cells, 1, Len(f.cells)), torn |-> FALSE]
<1>1. /\ IsLog(logs) /\ TypeOK /\ MaxLog \in Nat /\ MaxLogged \in Nat
      /\ max_wal_file_size \in LogLimits /\ max_wal_file_size \in Nat
      /\ mem_table = Durable
  BY Typed DEF LogInv, TypeOK, DurableInv, Truncate
<1>2. /\ OneSegment /\ 1 \in DOMAIN logs /\ recovery_result.segment = 1
      /\ recovery_result.last_clean_offset = Len(logs[1].cells)
  BY DEF LogInv, CutInv, Truncate
<1>3. /\ logs' = WithFile(logs, 1, c) /\ log_phase' = "drop"
      /\ mem_table' = mem_table
      /\ UNCHANGED writerVars /\ UNCHANGED callVars
  BY <1>2 DEF Truncate, callVars
<1>4. /\ DOMAIN logs = {1} /\ LatestSegment(logs) = 1
      /\ SealedBelow(logs, 1) /\ f \in LogSegment
      /\ AtEnd(f) /\ Size(f) <= 2 * MaxLogged /\ 2 * MaxLogged < max_wal_file_size
  <2>1. DOMAIN logs = {1} /\ AtEnd(f) /\ Size(f) <= 2 * MaxLogged
    BY <1>2, Single
  <2>2. LatestSegment(logs) = 1
    <3>1. LatestSegment(logs) \in {0, 1}  BY <1>2, Single
    <3>2. 1 <= LatestSegment(logs)  BY <1>1, <1>2, Typed
    <3> QED  BY <3>1, <3>2
  <2>3. SealedBelow(logs, 1)  BY <1>2, <2>2, Single
  <2>4. f \in LogSegment  BY <1>1, <1>2 DEF IsLog
  <2>5. 2 * MaxLogged < max_wal_file_size  BY <1>1, <1>2 DEF OneSegment
  <2> QED  BY <2>1, <2>2, <2>3, <2>4, <2>5
<1>5. /\ c.cells = f.cells /\ c.torn = FALSE /\ c \in LogSegment
      /\ Size(c) \in Nat /\ Size(c) <= 2 * MaxLogged
  <2>1. f.cells \in Seq(Record \cup {Close, Corrupt})
    BY <1>4 DEF LogSegment
  <2>2. SubSeq(f.cells, 1, Len(f.cells)) = f.cells  BY <2>1
  <2>3. c = [cells |-> f.cells, torn |-> FALSE]  BY <2>2
  <2> HIDE DEF c, f
  <2>4. c \in LogSegment  BY <2>1, <2>3 DEF LogSegment
  <2>5. c.cells = f.cells /\ c.torn = FALSE  BY <2>3
  <2>6. /\ Size(c) = 2 * Len(f.cells) /\ Size(c) \in Nat
        /\ Size(f) \in Nat /\ Size(f) >= 2 * Len(f.cells)
    BY <1>4, <2>4, <2>5, RecordSize, SizeTyped
  <2>7. Size(c) <= 2 * MaxLogged  BY <1>1, <1>4, <2>6
  <2> QED  BY <2>4, <2>5, <2>6, <2>7
<1> HIDE DEF c
<1>6. AtEnd(c) /\ Ops(c) = Ops(f)  BY <1>4, <1>5, SameCells
<1>7. 1 \in 1 .. MaxLog  BY <1>1, <1>2 DEF IsLog
<1>8. /\ IsLog(logs') /\ LatestSegment(logs') = 1 /\ DOMAIN logs' = {1}
      /\ logs'[1] = c
  <2>1. IsLog(logs') /\ LatestSegment(logs') = 1
    BY <1>1, <1>3, <1>4, <1>5, <1>7, WithFileIsLog, LatestWithFile
  <2>2. DOMAIN logs' = {1} /\ logs'[1] = c
    BY <1>3, <1>4 DEF WithFile
  <2> QED  BY <2>1, <2>2
<1>9. Replayed(logs') = Replayed(logs)
  <2>1. Content(logs, 1) = f  BY <1>4 DEF Content
  <2> QED  BY <1>1, <1>3, <1>4, <1>5, <1>6, <1>7, <2>1, UnchangedLog
<1>10. Durable' = Durable  BY <1>9 DEF Durable
<1>11. TypeOK'
  BY <1>1, <1>3, <1>8 DEF TypeOK, IsLog, LogPhase, writerVars, callVars
<1>12. SegmentsInv'
  <2>1. Size(c) < max_wal_file_size  BY <1>1, <1>4, <1>5
  <2> QED  BY <1>3, <1>5, <1>6, <1>8, <2>1 DEF SegmentsInv, writerVars
<1>13. SingleInv'  BY <1>3, <1>5, <1>8 DEF SingleInv
<1>14. SealedInv'
  <2>1. 1 .. LatestSegment(logs') - 1 = {}  BY <1>8
  <2> QED  BY <2>1 DEF SealedInv, Sealed
<1>15. CutInv'  BY <1>2, <1>3 DEF CutInv, callVars
<1>16. ActiveInv'  BY <1>3 DEF ActiveInv
<1>17. DurableInv'  BY <1>1, <1>3, <1>10 DEF DurableInv
<1> QED
  BY <1>10, <1>11, <1>12, <1>13, <1>14, <1>15, <1>16, <1>17 DEF LogInv

\* Nothing is above a first segment, and it exists.
LEMMA NothingHigher ==
    ASSUME Orderly, LogInv
    PROVE  ~TruncateThrows /\ ~DropHigher
<1>1. ASSUME TruncateThrows PROVE FALSE
  BY <1>1 DEF TruncateThrows, LogInv, CutInv
<1>2. ASSUME DropHigher PROVE FALSE
  <2>1. OneSegment /\ recovery_result.segment = 1
    BY <1>2 DEF DropHigher, LogInv, CutInv
  <2>2. DOMAIN logs \subseteq {1}  BY <2>1, Single
  <2> QED  BY <1>2, <2>1, <2>2 DEF DropHigher, Higher
<1> QED  BY <1>1, <1>2

LEMMA DropDoneLog ==
    ASSUME Orderly, LogInv, DropDone
    PROVE  LogInv'
<1>1. /\ TypeOK /\ log_phase = "drop" /\ log_phase' = "open" /\ logs' = logs
      /\ mem_table' = mem_table /\ mem_table = Durable
      /\ UNCHANGED writerVars /\ UNCHANGED callVars
  BY DEF LogInv, DurableInv, DropDone
<1>2. TypeOK'  BY <1>1 DEF TypeOK, LogPhase, writerVars, callVars
<1>3. SegmentsInv' /\ SingleInv' /\ SealedInv'
  BY <1>1, LogKept DEF writerVars
<1>4. CutInv' /\ ActiveInv'  BY <1>1 DEF CutInv, ActiveInv
<1>5. Durable' = Durable  BY <1>1 DEF Durable
<1>6. DurableInv'  BY <1>1, <1>5 DEF DurableInv
<1> QED  BY <1>2, <1>3, <1>4, <1>6 DEF LogInv

LEMMA OpenWriterLog ==
    ASSUME Orderly, LogInv, OpenWriter
    PROVE  LogInv'
<1>1. /\ TypeOK /\ IsLog(logs) /\ log_phase = "open" /\ log_phase' = "idle"
      /\ logs' = logs /\ mem_table' = mem_table /\ mem_table = Durable
      /\ recovery_result' = CleanResult
      /\ UNCHANGED <<max_wal_file_size, op, written_to>>
      /\ write_path' = Resolve(logs, max_wal_file_size)
      /\ next_sequence' \in NextSequences(logs)
  BY Typed DEF LogInv, DurableInv, OpenWriter, NewWriter
<1>2. write_path' \in 0 .. MaxLog + 1 /\ next_sequence' \in Nat
  BY <1>1, ResolveTyped, NextSequencesTyped
<1>3. TypeOK'  BY <1>1, <1>2, CleanResultTyped DEF TypeOK, LogPhase
<1>4. SegmentsInv' /\ SingleInv' /\ SealedInv'  BY <1>1, LogKept
<1>5. CutInv' /\ ActiveInv'  BY <1>1 DEF CutInv, ActiveInv
<1>6. Durable' = Durable  BY <1>1 DEF Durable
<1>7. DurableInv'  BY <1>1, <1>6 DEF DurableInv
<1> QED  BY <1>3, <1>4, <1>5, <1>7 DEF LogInv

LEMMA WriteBeginLog ==
    ASSUME LogInv, NEW k \in Key, NEW e \in Entry, WriteBegin(k, e)
    PROVE  LogInv' /\ op' \in Op
<1>1. /\ TypeOK /\ log_phase = "idle" /\ log_phase' = "append" /\ logs' = logs
      /\ op' = [key |-> k, entry |-> e] /\ write_path <= MaxLog
      /\ Len(Content(logs, write_path).cells) < MaxLogged
      /\ mem_table' = mem_table /\ mem_table = Durable
      /\ UNCHANGED writerVars
      /\ recovery_result' = recovery_result /\ written_to' = written_to
      /\ write_path = Resolve(logs, max_wal_file_size)
  BY DEF LogInv, ActiveInv, DurableInv, WriteBegin, LogRoom
<1>2. op' \in Op  BY <1>1 DEF Op
<1>3. TypeOK'  BY <1>1, <1>2 DEF TypeOK, LogPhase, writerVars
<1>4. SegmentsInv' /\ SingleInv' /\ SealedInv'
  BY <1>1, LogKept DEF writerVars
<1>5. CutInv' /\ ActiveInv'  BY <1>1, <1>2 DEF CutInv, ActiveInv, writerVars
<1>6. Durable' = Durable  BY <1>1 DEF Durable
<1>7. DurableInv'  BY <1>1, <1>6 DEF DurableInv
<1> QED  BY <1>2, <1>3, <1>4, <1>5, <1>7 DEF LogInv

\* Where the next record goes: behind records only, with every segment below
\* closed.
LEMMA Target ==
    ASSUME LogInv, log_phase = "append"
    PROVE  /\ write_path \in 1 .. MaxLog
           /\ write_path \in {LatestSegment(logs), LatestSegment(logs) + 1}
           /\ SealedBelow(logs, write_path)
           /\ Content(logs, write_path) \in LogSegment
           /\ Whole(Content(logs, write_path))
           /\ Len(Content(logs, write_path).cells) < MaxLogged
           /\ OneSegment => write_path = 1
<1> DEFINE p == write_path
           L == LatestSegment(logs)
<1>1. /\ TypeOK /\ IsLog(logs) /\ MaxLog \in Nat
      /\ max_wal_file_size \in Nat /\ max_wal_file_size \in LogLimits
      /\ L \in 0 .. MaxLog /\ L \in DOMAIN logs \cup {0}
      /\ \A n \in DOMAIN logs : n <= L /\ Size(logs[n]) \in Nat
      /\ p \in 0 .. MaxLog + 1
  BY Typed DEF LogInv, TypeOK
<1>2. /\ p = Resolve(logs, max_wal_file_size) /\ p <= MaxLog
      /\ Len(Content(logs, p).cells) < MaxLogged
  BY DEF LogInv, ActiveInv
<1>3. p # 0 /\ p \in {L, L + 1}  BY <1>1, <1>2, ResolveTyped
<1>4. SealedBelow(logs, L)  BY SealedIs DEF LogInv, SealedInv
<1>5. \/ p = L /\ L # 0 /\ Size(logs[L]) < max_wal_file_size
      \/ p = L + 1 /\ L = 0
      \/ p = L + 1 /\ L # 0 /\ ~ (Size(logs[L]) < max_wal_file_size)
  BY <1>2 DEF Resolve
<1> HIDE DEF p, L
<1>6. SealedBelow(logs, p)
  <2>1. CASE p = L  BY <2>1, <1>4
  <2>2. CASE p = L + 1 /\ L = 0
    <3>1. 1 .. p - 1 = {}  BY <2>2
    <3> QED  BY <3>1 DEF SealedBelow
  <2>3. CASE p = L + 1 /\ L # 0 /\ ~ (Size(logs[L]) < max_wal_file_size)
    <3>1. L \in DOMAIN logs  BY <1>1, <2>3
    <3>2. ReachedEof(logs[L])  BY <2>3, <3>1 DEF LogInv, SegmentsInv
    <3>3. ReachedEof(Content(logs, L))  BY <3>1, <3>2 DEF Content
    <3>4. ASSUME NEW n \in 1 .. p - 1 PROVE ReachedEof(Content(logs, n))
      <4>1. n = L \/ n \in 1 .. L - 1  BY <1>1, <2>3
      <4> QED  BY <1>4, <3>3, <4>1 DEF SealedBelow
    <3> QED  BY <3>4 DEF SealedBelow
  <2> QED  BY <1>5, <2>1, <2>2, <2>3
<1>7. Content(logs, p) \in LogSegment  BY <1>1, ContentTyped
<1>8. Whole(Content(logs, p))
  <2>1. CASE p = L /\ L # 0 /\ Size(logs[L]) < max_wal_file_size
    <3>1. L \in DOMAIN logs /\ Size(logs[L]) \in Nat  BY <1>1, <2>1
    <3>2. ~ (Size(logs[L]) >= max_wal_file_size)  BY <1>1, <2>1, <3>1
    <3>3. AtEnd(logs[L])  BY <3>1, <3>2 DEF LogInv, SegmentsInv
    <3>4. ~ (logs[L].torn)  BY <3>1 DEF LogInv, SegmentsInv
    <3>5. Content(logs, p) = logs[L]  BY <2>1, <3>1 DEF Content
    <3> QED  BY <1>7, <3>3, <3>4, <3>5, AtEndHoldsRecords
  <2>2. CASE p = L + 1
    <3>1. p \notin DOMAIN logs  BY <1>1, <2>2
    <3> QED  BY <3>1, EmptyIsWhole DEF Content
  <2> QED  BY <1>5, <2>1, <2>2
<1>9. ASSUME OneSegment PROVE p = 1
  <2>1. /\ L \in {0, 1}
        /\ \A n \in DOMAIN logs : Size(logs[n]) < max_wal_file_size
    BY <1>1, <1>9, Single DEF L
  <2>2. L # 0 => Size(logs[L]) < max_wal_file_size  BY <1>1, <2>1
  <2> QED  BY <1>5, <2>1, <2>2
<1>10. p \in 1 .. MaxLog  BY <1>1, <1>2, <1>3
<1> QED  BY <1>2, <1>3, <1>6, <1>7, <1>8, <1>9, <1>10 DEF p, L

\* The record is behind the last one that is replayed; its segment is full
\* afterwards exactly when the writer goes on with the next.
LEMMA AppendLog ==
    ASSUME Orderly, LogInv, AppendRecord
    PROVE  LogInv'
<1> DEFINE p == write_path
           f == Content(logs, p)
           r == [op |-> op, seq |-> next_sequence]
           c == AppendCell(f, r)
<1>1. /\ TypeOK /\ IsLog(logs) /\ MaxLog \in Nat /\ MaxLogged \in Nat
      /\ max_wal_file_size \in Nat /\ max_wal_file_size \in LogLimits
      /\ Replayed(logs) \in Seq(Op) /\ next_sequence \in Nat
  BY Typed DEF LogInv, TypeOK
<1>2. /\ log_phase = "append" /\ logs' = WithFile(logs, p, c)
      /\ next_sequence' = next_sequence + 1
      /\ write_path' = Resolve(logs', max_wal_file_size)
      /\ written_to' = p
      /\ log_phase' = IF write_path' # p THEN "close" ELSE "apply"
      /\ UNCHANGED <<mem_table, max_wal_file_size, recovery_result, op>>
  BY DEF AppendRecord, AfterAppend
<1>3. op \in Op /\ mem_table = Durable
  BY <1>2 DEF LogInv, ActiveInv, DurableInv
<1>4. r \in Record /\ r.op = op  BY <1>1, <1>3 DEF Record
<1>5. /\ p \in 1 .. MaxLog /\ p \in {LatestSegment(logs), LatestSegment(logs) + 1}
      /\ SealedBelow(logs, p) /\ f \in LogSegment /\ Whole(f)
      /\ Len(f.cells) < MaxLogged
      /\ OneSegment => p = 1
  BY <1>2, Target
<1> HIDE DEF r
<1>6. c \in LogSegment /\ Whole(c) /\ Ops(c) = Ops(f) \o <<op>>
  <2> HIDE DEF f
  <2> QED  BY <1>4, <1>5, RecordAppended
<1>7. AtEnd(c) /\ ~c.torn  BY <1>6, WholeAtEnd DEF Whole
<1>8. Size(c) = 2 * Len(f.cells) + 2 /\ Size(c) \in Nat
  <2>1. Len(f.cells) \in Nat  BY <1>5, RecordSize
  <2>2. ~f.torn /\ f.cells \in Seq(Record \cup {Close, Corrupt})
    BY <1>5 DEF Whole, LogSegment
  <2>3. c.cells = Append(f.cells, r)
    BY <1>5, <2>2, CellsReplaced DEF AppendCell
  <2> HIDE DEF c, f
  <2>4. Len(c.cells) = Len(f.cells) + 1  BY <2>2, <2>3
  <2>5. Size(c) = 2 * Len(c.cells)  BY <1>6, <1>7, RecordSize
  <2> QED  BY <2>1, <2>4, <2>5
<1> HIDE DEF c
<1>9. /\ IsLog(logs') /\ LatestSegment(logs') = p
      /\ DOMAIN logs' = DOMAIN logs \cup {p} /\ logs'[p] = c
      /\ \A n \in DOMAIN logs : n # p => logs'[n] = logs[n]
      /\ SealedBelow(logs', p)
  <2>1. IsLog(logs') /\ LatestSegment(logs') = p
    BY <1>1, <1>2, <1>5, <1>6, WithFileIsLog, LatestWithFile
  <2>2. p \in Nat /\ logs' = WithFile(logs, p, c) /\ SealedBelow(logs, p)
    BY <1>2, <1>5
  <2> HIDE DEF p, f
  <2>3. SealedBelow(logs', p)  BY <2>2, WrittenSegment
  <2>4. /\ DOMAIN logs' = DOMAIN logs \cup {p} /\ logs'[p] = c
        /\ \A n \in DOMAIN logs : n # p => logs'[n] = logs[n]
    BY <2>2 DEF WithFile
  <2> QED  BY <2>1, <2>3, <2>4
<1>10. Replayed(logs') = Replayed(logs) \o <<op>>
  <2>1. <<op>> \in Seq(Op)  BY <1>3
  <2>2. Ops(c) = Ops(Content(logs, p)) \o <<op>>  BY <1>6
  <2>3. logs' = WithFile(logs, p, c)  BY <1>2
  <2> DEFINE x == <<op>>
  <2>4. x \in Seq(Op) /\ Ops(c) = Ops(Content(logs, p)) \o x  BY <2>1, <2>2
  <2> HIDE DEF p, f, x
  <2>5. /\ IsLog(logs) /\ p \in 1 .. MaxLog /\ c \in LogSegment
        /\ p \in {LatestSegment(logs), LatestSegment(logs) + 1}
        /\ SealedBelow(logs, p)
    BY <1>1, <1>5, <1>6
  <2>6. Replayed(logs') = Replayed(logs) \o x
    BY <2>3, <2>4, <2>5, WrittenLog
  <2> QED  BY <2>6 DEF x
<1>11. Durable' = Insert(Durable, op.key, op.entry)
  <2>1. Replayed(logs') = Append(Replayed(logs), op)  BY <1>1, <1>3, <1>10
  <2>2. Durable' = TableOf(Append(Replayed(logs), op))  BY <2>1 DEF Durable
  <2> QED  BY <1>1, <1>3, <2>2, TableOfAppend DEF Durable
<1>12. /\ log_phase' = "apply" <=> Size(c) < max_wal_file_size
       /\ log_phase' \in {"close", "apply"}
  <2>1. p \in Nat /\ p # 0  BY <1>5
  <2>2. write_path' = IF Size(c) < max_wal_file_size THEN p ELSE p + 1
    BY <1>2, <1>9, <2>1 DEF Resolve
  <2> HIDE DEF p
  <2>3. write_path' = p <=> Size(c) < max_wal_file_size  BY <2>1, <2>2
  <2> QED  BY <1>2, <2>3
<1>13. TypeOK'
  <2>1. next_sequence' \in Nat  BY <1>1, <1>2
  <2>2. written_to' \in 0 .. MaxLog  BY <1>2, <1>5
  <2>3. write_path' \in 0 .. MaxLog + 1  BY <1>2, <1>9, ResolveTyped
  <2> QED  BY <1>1, <1>2, <1>9, <1>12, <2>1, <2>2, <2>3 DEF TypeOK, IsLog, LogPhase
<1>14. SegmentsInv'
  <2> SUFFICES ASSUME NEW n \in DOMAIN logs'
               PROVE  /\ logs'[n].torn => OneSegment /\ log_phase' \in {"down", "truncate"}
                      /\ \/ ReachedEof(logs'[n]) /\ Size(logs'[n]) >= max_wal_file_size
                         \/ /\ AtEnd(logs'[n])
                            /\ log_phase' # "close" => Size(logs'[n]) < max_wal_file_size
    BY <1>2 DEF SegmentsInv
  <2>1. CASE n = p
    BY <2>1, <1>7, <1>9, <1>12
  <2>2. CASE n # p
    <3>1. n \in DOMAIN logs /\ logs'[n] = logs[n]  BY <1>9, <2>2
    <3> QED  BY <1>2, <3>1 DEF LogInv, SegmentsInv
  <2> QED  BY <2>1, <2>2
<1>15. SingleInv'
  <2> SUFFICES ASSUME OneSegment
               PROVE  /\ log_phase' # "close" /\ DOMAIN logs' \subseteq {1}
                      /\ \A n \in DOMAIN logs' : Size(logs'[n]) <= 2 * MaxLogged
    BY DEF SingleInv
  <2>1. p = 1 /\ DOMAIN logs \subseteq {1}  BY <1>5, Single
  <2>2. Len(f.cells) \in Nat  BY <1>5, RecordSize
  <2> HIDE DEF f, p
  <2>3. Size(c) <= 2 * MaxLogged  BY <1>1, <1>5, <1>8, <2>2
  <2>4. 2 * MaxLogged < max_wal_file_size  BY <1>1 DEF OneSegment
  <2>5. Size(c) < max_wal_file_size  BY <1>1, <1>8, <2>3, <2>4
  <2> QED  BY <1>9, <1>12, <2>1, <2>3, <2>5
<1>16. SealedInv'
  BY <1>9 DEF SealedInv, Sealed, SealedBelow
<1>17. CutInv'  BY <1>12 DEF CutInv
<1>18. ActiveInv'
  <2>1. p # 0  BY <1>5
  <2>2. log_phase' = "close" => Size(c) >= max_wal_file_size  BY <1>1, <1>8, <1>12
  <2> QED  BY <1>2, <1>3, <1>6, <1>9, <1>12, <2>1, <2>2 DEF ActiveInv
<1>19. DurableInv'  BY <1>2, <1>3, <1>11, <1>12 DEF DurableInv
<1> QED
  BY <1>13, <1>14, <1>15, <1>16, <1>17, <1>18, <1>19 DEF LogInv

\* The CLOSE record seals the segment the writer has left.
LEMMA CloseLog ==
    ASSUME Orderly, LogInv, AppendClose
    PROVE  LogInv' /\ Durable' = Durable
<1> DEFINE p == written_to
           f == logs[p]
           c == AppendCell(f, Close)
<1>1. /\ TypeOK /\ IsLog(logs) /\ MaxLog \in Nat
      /\ max_wal_file_size \in Nat
      /\ LatestSegment(logs) \in 0 .. MaxLog
      /\ LatestSegment(logs) \in DOMAIN logs \cup {0}
      /\ \A n \in DOMAIN logs : n <= LatestSegment(logs)
  BY Typed DEF LogInv
<1>2. /\ log_phase = "close" /\ log_phase' = "apply"
      /\ logs' = WithFile(logs, p, c) /\ mem_table' = mem_table
      /\ UNCHANGED writerVars /\ UNCHANGED callVars
  BY DEF AppendClose, AfterClose, callVars
<1>3. /\ p = LatestSegment(logs) /\ p # 0 /\ Whole(f)
      /\ Size(f) >= max_wal_file_size
      /\ write_path = Resolve(logs, max_wal_file_size) /\ op \in Op
      /\ Insert(mem_table, op.key, op.entry) = Durable
      /\ ~OneSegment
  BY <1>2 DEF LogInv, ActiveInv, DurableInv, SingleInv
<1>4. /\ p \in 1 .. MaxLog /\ p \in Nat /\ p \in DOMAIN logs
      /\ f \in LogSegment /\ f = Content(logs, p)
      /\ SealedBelow(logs, p)
  <2>1. p \in 1 .. MaxLog /\ p \in Nat /\ p \in DOMAIN logs  BY <1>1, <1>3
  <2>2. SealedBelow(logs, p)
    BY <1>2, <1>3, SealedIs DEF LogInv, SealedInv
  <2> QED  BY <1>1, <2>1, <2>2 DEF IsLog, Content
<1> HIDE DEF f
<1>5. /\ c \in LogSegment /\ Ops(c) = Ops(f) /\ ReachedEof(c)
      /\ Size(c) \in Nat /\ Size(c) >= max_wal_file_size
  <2>1. c \in LogSegment /\ Ops(c) = Ops(f) /\ Size(c) = Size(f) + 2
    BY <1>3, <1>4, CloseAppended
  <2>2. ReachedEof(c)  BY <1>3, <1>4, ClosedSegment
  <2>3. Size(f) \in Nat  BY <1>4, SizeTyped
  <2> HIDE DEF c
  <2> QED  BY <1>1, <1>3, <2>1, <2>2, <2>3
<1>6. ~c.torn
  BY <1>3, <1>4, CellsReplaced DEF AppendCell, Whole
<1> HIDE DEF c, p
<1>7. /\ IsLog(logs') /\ LatestSegment(logs') = p
      /\ DOMAIN logs' = DOMAIN logs /\ logs'[p] = c
      /\ \A n \in DOMAIN logs : n # p => logs'[n] = logs[n]
      /\ SealedBelow(logs', p)
  <2>1. p \in {LatestSegment(logs), LatestSegment(logs) + 1}  BY <1>3
  <2>2. IsLog(logs') /\ LatestSegment(logs') = p
    BY <1>1, <1>2, <1>4, <1>5, <2>1, WithFileIsLog, LatestWithFile
  <2>3. SealedBelow(logs', p)  BY <1>2, <1>4, WrittenSegment
  <2>4. /\ DOMAIN logs' = DOMAIN logs /\ logs'[p] = c
        /\ \A n \in DOMAIN logs : n # p => logs'[n] = logs[n]
    BY <1>2, <1>4 DEF WithFile
  <2> QED  BY <2>2, <2>3, <2>4
<1>8. Durable' = Durable
  <2>1. /\ IsLog(logs) /\ p \in 1 .. MaxLog /\ c \in LogSegment
        /\ p \in {LatestSegment(logs), LatestSegment(logs) + 1}
        /\ SealedBelow(logs, p) /\ logs' = WithFile(logs, p, c)
        /\ Ops(c) = Ops(Content(logs, p))
    BY <1>1, <1>2, <1>3, <1>4, <1>5
  <2>2. Replayed(logs') = Replayed(logs)  BY <2>1, UnchangedLog
  <2> QED  BY <2>2 DEF Durable
<1>9. TypeOK'
  BY <1>1, <1>2, <1>7 DEF TypeOK, IsLog, LogPhase, writerVars, callVars
<1>10. SegmentsInv'
  <2> SUFFICES ASSUME NEW n \in DOMAIN logs'
               PROVE  /\ ~logs'[n].torn
                      /\ ReachedEof(logs'[n])
                      /\ Size(logs'[n]) >= max_wal_file_size
    BY <1>2 DEF SegmentsInv, writerVars
  <2>1. CASE n = p  BY <2>1, <1>5, <1>6, <1>7
  <2>2. CASE n # p
    <3>1. n \in DOMAIN logs /\ logs'[n] = logs[n] /\ n \in 1 .. p - 1
      BY <1>1, <1>3, <1>4, <1>7, <2>2 DEF IsLog
    <3>2. ReachedEof(Content(logs, n))  BY <1>4, <3>1 DEF SealedBelow
    <3>3. ReachedEof(logs[n])  BY <3>1, <3>2 DEF Content
    <3>4. Size(logs[n]) >= max_wal_file_size
      BY <3>1, <3>3 DEF LogInv, SegmentsInv, ReachedEof
    <3>5. ~logs[n].torn  BY <1>3, <3>1, Several
    <3> QED  BY <3>1, <3>3, <3>4, <3>5
  <2> QED  BY <2>1, <2>2
<1>11. SingleInv'  BY <1>3 DEF SingleInv
<1>12. SealedInv'  BY <1>7 DEF SealedInv, Sealed, SealedBelow
<1>13. CutInv'  BY <1>2 DEF CutInv
<1>14. ActiveInv'
  <2>1. f = logs[p] /\ ~ (Size(f) < max_wal_file_size)
    BY <1>1, <1>3, <1>4, SizeTyped DEF f
  <2>2. ~ (Size(c) < max_wal_file_size)  BY <1>1, <1>5
  <2>3. Resolve(logs', max_wal_file_size) = Resolve(logs, max_wal_file_size)
    BY <1>3, <1>7, <2>1, <2>2 DEF Resolve
  <2> QED  BY <1>2, <1>3, <2>3 DEF ActiveInv, writerVars, callVars
<1>15. DurableInv'  BY <1>2, <1>3, <1>8 DEF DurableInv, callVars
<1> QED
  BY <1>8, <1>9, <1>10, <1>11, <1>12, <1>13, <1>14, <1>15 DEF LogInv

LEMMA ApplyLog ==
    ASSUME LogInv, Apply
    PROVE  LogInv'
<1>1. /\ TypeOK /\ log_phase = "apply" /\ log_phase' = "idle" /\ logs' = logs
      /\ mem_table' = Insert(mem_table, op.key, op.entry)
      /\ op' = NoOp /\ written_to' = 0 /\ UNCHANGED writerVars
      /\ recovery_result' = recovery_result
      /\ write_path = Resolve(logs, max_wal_file_size)
      /\ Insert(mem_table, op.key, op.entry) = Durable
      /\ Durable \in Table
  BY Typed DEF LogInv, ActiveInv, DurableInv, Apply
<1>2. TypeOK'
  <2>1. 0 \in 0 .. MaxLog  BY WALAssumption
  <2> QED  BY <1>1, <2>1 DEF TypeOK, LogPhase, writerVars
<1>3. SegmentsInv' /\ SingleInv' /\ SealedInv'
  BY <1>1, LogKept DEF writerVars
<1>4. CutInv' /\ ActiveInv'  BY <1>1 DEF CutInv, ActiveInv, writerVars
<1>5. Durable' = Durable  BY <1>1 DEF Durable
<1>6. DurableInv'  BY <1>1, <1>5 DEF DurableInv
<1> QED  BY <1>2, <1>3, <1>4, <1>6 DEF LogInv

LEMMA ClearBeginLog ==
    ASSUME LogInv, ClearBegin
    PROVE  LogInv'
<1>1. /\ TypeOK /\ log_phase = "idle" /\ log_phase' = "clear" /\ logs' = logs
      /\ mem_table' = EmptyTable
      /\ UNCHANGED writerVars /\ UNCHANGED callVars
  BY DEF LogInv, ClearBegin
<1>2. TypeOK'
  BY <1>1, EmptyTableTyped DEF TypeOK, LogPhase, writerVars, callVars
<1>3. SegmentsInv' /\ SingleInv' /\ SealedInv'
  BY <1>1, LogKept DEF writerVars
<1>4. CutInv' /\ ActiveInv' /\ DurableInv'
  BY <1>1 DEF CutInv, ActiveInv, DurableInv
<1> QED  BY <1>2, <1>3, <1>4 DEF LogInv

LEMMA ClearNextLog ==
    ASSUME LogInv, ClearNext
    PROVE  LogInv'
<1>1. /\ TypeOK /\ IsLog(logs) /\ log_phase = "clear" /\ log_phase' = "clear"
      /\ mem_table' = mem_table /\ mem_table = EmptyTable
      /\ UNCHANGED writerVars /\ UNCHANGED callVars
  BY Typed DEF LogInv, DurableInv, ClearNext
<1>2. PICK n \in DOMAIN logs : logs' = WithoutFile(logs, n)
  BY DEF ClearNext
<1>3. /\ IsLog(logs')
      /\ DOMAIN logs' \subseteq DOMAIN logs
      /\ \A m \in DOMAIN logs' : logs'[m] = logs[m]
  <2>1. IsLog(logs')  BY <1>1, <1>2, WithoutFileIsLog
  <2> QED  BY <1>2, <2>1 DEF WithoutFile
<1>4. TypeOK'
  BY <1>1, <1>3 DEF TypeOK, IsLog, LogPhase, writerVars, callVars
<1>5. SegmentsInv' /\ SingleInv'
  BY <1>1, <1>3 DEF LogInv, SegmentsInv, SingleInv, writerVars
<1>6. SealedInv' /\ CutInv' /\ ActiveInv' /\ DurableInv'
  BY <1>1 DEF SealedInv, CutInv, ActiveInv, DurableInv
<1> QED  BY <1>4, <1>5, <1>6 DEF LogInv

LEMMA ClearDoneLog ==
    ASSUME LogInv, ClearDone
    PROVE  LogInv' /\ Durable = EmptyTable
<1>1. /\ TypeOK /\ IsLog(logs) /\ log_phase = "clear" /\ log_phase' = "idle"
      /\ logs' = logs /\ DOMAIN logs = {} /\ mem_table' = mem_table
      /\ mem_table = EmptyTable /\ max_wal_file_size' = max_wal_file_size
      /\ UNCHANGED callVars
      /\ write_path' = Resolve(logs, max_wal_file_size)
      /\ next_sequence' \in NextSequences(logs)
  BY Typed DEF LogInv, DurableInv, ClearDone, NewWriter, callVars
<1>2. write_path' \in 0 .. MaxLog + 1 /\ next_sequence' \in Nat
  BY <1>1, ResolveTyped, NextSequencesTyped
<1>3. TypeOK'  BY <1>1, <1>2 DEF TypeOK, LogPhase, callVars
<1>4. SegmentsInv' /\ SingleInv'
  BY <1>1 DEF LogInv, SegmentsInv, SingleInv
<1>5. SealedInv'
  <2>1. LatestSegment(logs) = 0  BY <1>1, Typed
  <2> QED  BY <1>1, <2>1 DEF SealedInv, Sealed
<1>6. CutInv' /\ ActiveInv'  BY <1>1 DEF CutInv, ActiveInv, callVars
<1>7. Durable = EmptyTable /\ Durable' = EmptyTable
  BY <1>1, EmptyLog, TableOfEmpty DEF Durable
<1>8. DurableInv'  BY <1>1, <1>7 DEF DurableInv
<1> QED  BY <1>3, <1>4, <1>5, <1>6, <1>7, <1>8 DEF LogInv

\* A session that ends, in whatever way, leaves the memory of no process.
LEMMA SessionEndsLog ==
    ASSUME LogInv, SessionEnds, IsLog(logs'), max_wal_file_size' = max_wal_file_size,
           SegmentsInv', SingleInv', Sealed'
    PROVE  LogInv'
<1>1. TypeOK /\ log_phase' = "down" /\ mem_table' = EmptyTable
  BY DEF LogInv, SessionEnds
<1>2. TypeOK'
  <2>1. 0 \in 0 .. MaxLog /\ 0 \in 0 .. MaxLog + 1 /\ 0 \in Nat
    BY WALAssumption
  <2> QED  BY <1>1, <2>1, EmptyTableTyped, CleanResultTyped
           DEF TypeOK, IsLog, LogPhase, SessionEnds
<1>3. SealedInv' /\ CutInv' /\ ActiveInv' /\ DurableInv'
  BY <1>1 DEF SealedInv, CutInv, ActiveInv, DurableInv
<1> QED  BY <1>2, <1>3 DEF LogInv

LEMMA ShutdownLog ==
    ASSUME LogInv, Shutdown
    PROVE  LogInv'
<1>1. /\ TypeOK /\ IsLog(logs') /\ logs' = logs /\ SessionEnds /\ Sealed
      /\ max_wal_file_size' = max_wal_file_size
      /\ log_phase = "idle" /\ log_phase' = "down"
  BY Typed DEF LogInv, SealedInv, Shutdown, SessionEnds
<1>2. SegmentsInv' /\ SingleInv'  BY <1>1, LogKept
<1>3. Sealed'  BY <1>1 DEF Sealed
<1> QED  BY <1>1, <1>2, <1>3, SessionEndsLog

\* A crash leaves the log as it is, or with half a record at its end.
LEMMA CrashLog ==
    ASSUME Orderly, LogInv, Crash
    PROVE  LogInv' /\ Durable' = Durable /\ OneSegment
<1>1. /\ TypeOK /\ IsLog(logs) /\ MaxLog \in Nat /\ MaxLogged \in Nat
      /\ max_wal_file_size \in Nat /\ max_wal_file_size \in LogLimits
  BY Typed DEF LogInv, TypeOK
<1>2. /\ "crash" \in LogFaults /\ SessionEnds /\ log_phase' = "down"
      /\ max_wal_file_size' = max_wal_file_size
  BY DEF Crash, SessionEnds
<1>3. OneSegment  BY <1>2, Several
<1>4. /\ DOMAIN logs \subseteq {1} /\ log_phase # "close"
      /\ LatestSegment(logs) \in {0, 1} /\ SealedBelow(logs, LatestSegment(logs))
      /\ \A n \in DOMAIN logs :
            /\ AtEnd(logs[n]) /\ Size(logs[n]) <= 2 * MaxLogged
            /\ Size(logs[n]) < max_wal_file_size
  BY <1>1, <1>3, Single
<1>5. 2 * MaxLogged < max_wal_file_size  BY <1>1, <1>3 DEF OneSegment
<1>6. CASE logs' = logs
  <2>1. SegmentsInv'  BY <1>2, <1>3, <1>4, <1>6 DEF SegmentsInv
  <2>2. SingleInv'  BY <1>2, <1>4, <1>6 DEF SingleInv
  <2>3. Sealed'
    <3>1. Sealed  BY <1>4, SealedIs
    <3> QED  BY <1>6, <3>1 DEF Sealed
  <2>4. Durable' = Durable  BY <1>6 DEF Durable
  <2> QED  BY <1>1, <1>2, <1>3, <1>6, <2>1, <2>2, <2>3, <2>4, SessionEndsLog
<1>7. CASE /\ log_phase = "append"
           /\ LET f == Content(logs, write_path)
              IN  \E g \in {f, AppendHalf(f)} :
                     logs' = WithFile(logs, write_path, g)
  <2> DEFINE f == Content(logs, 1)
  <2>1. /\ write_path = 1 /\ f \in LogSegment /\ Whole(f)
        /\ Len(f.cells) < MaxLogged /\ SealedBelow(logs, 1)
        /\ 1 \in 1 .. MaxLog
        /\ 1 \in {LatestSegment(logs), LatestSegment(logs) + 1}
    BY <1>3, <1>7, Target
  <2>2. PICK g \in {f, AppendHalf(f)} : logs' = WithFile(logs, 1, g)
    BY <1>7, <2>1
  <2> HIDE DEF f
  <2>3. /\ g \in LogSegment /\ Ops(g) = Ops(f) /\ AtEnd(g)
        /\ Size(g) \in Nat /\ Size(g) <= 2 * MaxLogged
    <3>1. /\ Len(f.cells) \in Nat /\ Size(f) = 2 * Len(f.cells)
          /\ Size(f) \in Nat /\ AtEnd(f) /\ ~f.torn
      BY <2>1, RecordSize, SizeTyped, WholeAtEnd DEF Whole
    <3>2. CASE g = f
      <4>1. Size(f) <= 2 * MaxLogged  BY <1>1, <2>1, <3>1
      <4> QED  BY <2>1, <3>1, <3>2, <4>1
    <3>3. CASE g = AppendHalf(f)
      <4>1. /\ g \in LogSegment /\ Ops(g) = Ops(f) /\ g.cells = f.cells
            /\ Size(g) = Size(f) + 1
        BY <2>1, <3>1, <3>3, HalfAppended
      <4>2. AtEnd(g)  BY <3>1, <4>1, SameCells
      <4>3. Size(g) \in Nat /\ Size(g) <= 2 * MaxLogged
        BY <1>1, <2>1, <3>1, <4>1
      <4> QED  BY <4>1, <4>2, <4>3
    <3> QED  BY <2>2, <3>2, <3>3
  <2>4. /\ IsLog(logs') /\ LatestSegment(logs') = 1
        /\ DOMAIN logs' = {1} /\ logs'[1] = g
    <3>1. IsLog(logs') /\ LatestSegment(logs') = 1
      BY <1>1, <2>1, <2>2, <2>3, WithFileIsLog, LatestWithFile
    <3>2. DOMAIN logs' = {1} /\ logs'[1] = g
      BY <1>4, <2>2 DEF WithFile
    <3> QED  BY <3>1, <3>2
  <2>5. Durable' = Durable
    <3>1. /\ IsLog(logs) /\ g \in LogSegment /\ 1 \in 1 .. MaxLog
          /\ 1 \in {LatestSegment(logs), LatestSegment(logs) + 1}
          /\ SealedBelow(logs, 1) /\ logs' = WithFile(logs, 1, g)
          /\ Ops(g) = Ops(Content(logs, 1))
      BY <1>1, <2>1, <2>2, <2>3 DEF f
    <3>2. Replayed(logs') = Replayed(logs)  BY <3>1, UnchangedLog
    <3> QED  BY <3>2 DEF Durable
  <2>6. SegmentsInv'
    <3>1. Size(g) < max_wal_file_size  BY <1>1, <1>5, <2>3
    <3> QED  BY <1>2, <1>3, <2>3, <2>4, <3>1 DEF SegmentsInv
  <2>7. SingleInv'  BY <1>2, <2>3, <2>4 DEF SingleInv
  <2>8. Sealed'
    <3>1. 1 .. LatestSegment(logs') - 1 = {}  BY <2>4
    <3> QED  BY <3>1 DEF Sealed
  <2> QED  BY <1>2, <1>3, <2>4, <2>5, <2>6, <2>7, <2>8, SessionEndsLog
<1> QED  BY <1>4, <1>6, <1>7 DEF Crash

\* Any step, or none.
LEMMA StepLog ==
    ASSUME Orderly, LogInv, [Next]_walVars
    PROVE  LogInv'
<1>1. CASE Recovery
  BY <1>1, RestoreLog, TruncateLog, NothingHigher, DropDoneLog, OpenWriterLog
  DEF Recovery
<1>2. CASE Write
  <2>1. ~AppendShort /\ ~CloseShort
    BY DEF Orderly, AppendShort, CloseShort
  <2> QED  BY <1>2, <2>1, WriteBeginLog, AppendLog, CloseLog, ApplyLog DEF Write
<1>3. CASE Clear
  BY <1>3, ClearBeginLog, ClearNextLog, ClearDoneLog DEF Clear
<1>4. CASE Shutdown  BY <1>4, ShutdownLog
<1>5. CASE Crash  BY <1>5, CrashLog
<1>6. CASE Rot  BY <1>6 DEF Orderly, Rot
<1>7. CASE UNCHANGED walVars
  <2> USE <1>7 DEF walVars, writerVars, callVars
  <2>1. TypeOK'  BY DEF LogInv, TypeOK
  <2>2. SegmentsInv' /\ SingleInv'
    BY DEF LogInv, SegmentsInv, SingleInv
  <2>3. SealedInv'  BY DEF LogInv, SealedInv, Sealed
  <2>4. CutInv' /\ ActiveInv'
    BY DEF LogInv, CutInv, ActiveInv
  <2>5. DurableInv'
    <3>1. Durable' = Durable  BY DEF Durable
    <3> QED  BY <3>1 DEF LogInv, DurableInv
  <2> QED  BY <2>1, <2>2, <2>3, <2>4, <2>5 DEF LogInv
<1> QED  BY <1>1, <1>2, <1>3, <1>4, <1>5, <1>6, <1>7 DEF Next

-----------------------------------------------------------------------------
(* Every step is one of the table's, or none.                              *)

LEMMA OpIsNoNoOp ==
    ASSUME NEW o \in Op
    PROVE  o # NoOp
<1>1. o.entry \in Entry /\ NoOp.entry = Absent  BY DEF Op, NoOp
<1> QED  BY <1>1, EntriesAssumption DEF Entry

\* A step that changes nothing a client of the log can see.
LEMMA Unseen ==
    ASSUME Durable' = Durable, mem_table' = mem_table, op' = op,
           log_phase \in {"truncate", "drop", "open", "idle"},
           log_phase' \in {"truncate", "drop", "open", "idle"}
    PROVE  UNCHANGED Abstract!vars
BY DEF Abstract!vars

LEMMA InitAbstract == Init => Abstract!Init
<1> SUFFICES ASSUME Init PROVE Abstract!Init  OBVIOUS
<1>1. DOMAIN logs = {}  BY DEF Init
<1>2. Durable = EmptyTable  BY <1>1, EmptyLog, TableOfEmpty DEF Durable
<1> QED
  BY <1>2 DEF Init, Abstract!Init, NoOp, Abstract!NoOp, EmptyTable,
     Abstract!EmptyTable

LEMMA RecoveryAbstract ==
    ASSUME Orderly, LogInv, LogInv', Recovery
    PROVE  Abstract!Open \/ UNCHANGED Abstract!vars
<1>1. CASE Restore
  <2>1. /\ log_phase = "down" /\ log_phase' \in {"open", "truncate"}
        /\ mem_table' = Durable /\ logs' = logs /\ op' = op
    BY <1>1 DEF Restore, Durable
  <2>2. Durable' = Durable  BY <2>1 DEF Durable
  <2> QED  BY <2>1, <2>2 DEF Abstract!Open
<1>2. CASE Truncate
  <2>1. Durable' = Durable  BY <1>2, TruncateLog
  <2> QED  BY <1>2, <2>1, Unseen DEF Truncate, callVars
<1>3. CASE DropDone
  <2>1. logs' = logs  BY <1>3 DEF DropDone
  <2>2. Durable' = Durable  BY <2>1 DEF Durable
  <2> QED  BY <1>3, <2>2, Unseen DEF DropDone, callVars
<1>4. CASE OpenWriter
  <2>1. logs' = logs  BY <1>4 DEF OpenWriter
  <2>2. Durable' = Durable  BY <2>1 DEF Durable
  <2> QED  BY <1>4, <2>2, Unseen DEF OpenWriter
<1> QED  BY <1>1, <1>2, <1>3, <1>4, NothingHigher DEF Recovery

LEMMA WriteAbstract ==
    ASSUME Orderly, LogInv, LogInv', Write
    PROVE  \/ \E k \in Key, e \in Entry : Abstract!Begin(k, e)
           \/ Abstract!Commit \/ UNCHANGED Abstract!vars
<1>1. ASSUME NEW k \in Key, NEW e \in Entry, WriteBegin(k, e)
      PROVE  Abstract!Begin(k, e)
  <2>1. /\ log_phase = "idle" /\ log_phase' = "append" /\ logs' = logs
        /\ mem_table' = mem_table /\ op' = [key |-> k, entry |-> e]
    BY <1>1 DEF WriteBegin
  <2>2. Durable' = Durable  BY <2>1 DEF Durable
  <2> QED  BY <2>1, <2>2 DEF Abstract!Begin, Abstract!NoOp, NoOp
<1>2. ASSUME AppendRecord PROVE Abstract!Commit
  <2>1. /\ log_phase = "append" /\ log_phase' \in {"close", "apply"}
        /\ mem_table' = mem_table /\ op' = op
    BY <1>2 DEF AppendRecord, AfterAppend
  <2>2. op # NoOp /\ mem_table = Durable
    BY <2>1, OpIsNoNoOp DEF LogInv, ActiveInv, DurableInv
  <2>3. Durable' = Insert(mem_table, op.key, op.entry)
    BY <2>1 DEF LogInv, DurableInv
  <2> QED
    BY <2>1, <2>2, <2>3
    DEF Abstract!Commit, Abstract!NoOp, NoOp, Insert, Abstract!Insert
<1>3. ASSUME AppendClose PROVE UNCHANGED Abstract!vars
  <2>1. Durable' = Durable  BY <1>3, CloseLog
  <2>2. /\ log_phase = "close" /\ log_phase' = "apply"
        /\ mem_table' = mem_table /\ op' = op
    BY <1>3 DEF AppendClose, AfterClose, callVars
  <2> QED  BY <2>1, <2>2 DEF Abstract!vars
<1>4. ASSUME Apply PROVE UNCHANGED Abstract!vars
  <2>1. /\ log_phase = "apply" /\ log_phase' = "idle" /\ logs' = logs
        /\ mem_table' = Insert(mem_table, op.key, op.entry)
    BY <1>4 DEF Apply
  <2>2. Durable' = Durable  BY <2>1 DEF Durable
  <2> QED  BY <2>1, <2>2 DEF Abstract!vars
<1>5. ~AppendShort /\ ~CloseShort
  BY DEF Orderly, AppendShort, CloseShort
<1> QED  BY <1>1, <1>2, <1>3, <1>4, <1>5 DEF Write

LEMMA ClearAbstract ==
    ASSUME LogInv, LogInv', Clear
    PROVE  Abstract!Clear \/ Abstract!Lose \/ Abstract!Cleared
<1>1. ASSUME ClearBegin PROVE Abstract!Clear
  <2>1. /\ log_phase = "idle" /\ log_phase' = "clear" /\ logs' = logs
        /\ mem_table' = EmptyTable
    BY <1>1 DEF ClearBegin
  <2>2. Durable' = Durable  BY <2>1 DEF Durable
  <2> QED
    BY <2>1, <2>2
    DEF Abstract!Clear, Abstract!NoOp, NoOp, EmptyTable, Abstract!EmptyTable
<1>2. ASSUME ClearNext PROVE Abstract!Lose
  <2>1. /\ log_phase = "clear" /\ log_phase' = "clear"
        /\ mem_table' = mem_table /\ op' = op
        /\ \E n \in DOMAIN logs : logs' = WithoutFile(logs, n)
    BY <1>2 DEF ClearNext, callVars
  <2>2. Durable' \in Table
    <3>1. IsLog(logs')  BY DEF LogInv, TypeOK, IsLog
    <3>2. Replayed(logs') \in Seq(Op)  BY <3>1, ReplayedTyped
    <3>3. TableOf(Replayed(logs')) \in Table  BY <3>2, TableOfTyped
    <3> QED  BY <3>3 DEF Durable
  <2>3. OneSegment => Durable' = EmptyTable
    <3> SUFFICES ASSUME OneSegment PROVE Durable' = EmptyTable  OBVIOUS
    <3>1. DOMAIN logs \subseteq {1}  BY Single
    <3>2. DOMAIN logs' = {}  BY <2>1, <3>1 DEF WithoutFile
    <3>3. Replayed(logs') = << >>  BY <3>2, EmptyLog
    <3> QED  BY <3>3, TableOfEmpty DEF Durable
  <2> QED
    BY <2>1, <2>2, <2>3
    DEF Abstract!Lose, EmptyTable, Abstract!EmptyTable, Table, Abstract!Table,
        Entry, Abstract!Entry
<1>3. ASSUME ClearDone PROVE Abstract!Cleared
  <2>1. /\ log_phase = "clear" /\ log_phase' = "idle" /\ logs' = logs
        /\ mem_table' = mem_table /\ op' = op
    BY <1>3 DEF ClearDone, callVars
  <2>2. Durable = EmptyTable  BY <1>3, ClearDoneLog
  <2>3. Durable' = Durable  BY <2>1 DEF Durable
  <2> QED
    BY <2>1, <2>2, <2>3 DEF Abstract!Cleared, EmptyTable, Abstract!EmptyTable
<1> QED  BY <1>1, <1>2, <1>3 DEF Clear

LEMMA EndAbstract ==
    ASSUME Orderly, LogInv, Shutdown \/ Crash
    PROVE  Abstract!Stop \/ UNCHANGED Abstract!vars
<1>1. /\ SessionEnds /\ log_phase # "down" /\ log_phase \in LogPhase
      /\ log_phase' = "down" /\ mem_table' = EmptyTable
  BY DEF Shutdown, Crash, SessionEnds, LogInv, TypeOK
<1>2. Durable' = Durable /\ (log_phase = "clear" => OneSegment)
  <2>1. CASE Shutdown
    <3>1. logs' = logs /\ log_phase = "idle"  BY <2>1 DEF Shutdown
    <3> QED  BY <3>1 DEF Durable
  <2>2. CASE Crash  BY <2>2, CrashLog
  <2> QED  BY <2>1, <2>2
<1> QED
  BY <1>1, <1>2
  DEF Abstract!Stop, Abstract!NoOp, NoOp, EmptyTable, Abstract!EmptyTable

LEMMA StepAbstract ==
    ASSUME Orderly, LogInv, LogInv', [Next]_walVars
    PROVE  [Abstract!Next]_(Abstract!vars)
<1>1. CASE Recovery  BY <1>1, RecoveryAbstract DEF Abstract!Next
<1>2. CASE Write
  BY <1>2, WriteAbstract DEF Abstract!Next, Entry, Abstract!Entry
<1>3. CASE Clear  BY <1>3, ClearAbstract DEF Abstract!Next
<1>4. CASE Shutdown \/ Crash  BY <1>4, EndAbstract DEF Abstract!Next
<1>5. CASE Rot  BY <1>5 DEF Orderly, Rot
<1>6. CASE UNCHANGED walVars
  <2>1. Durable' = Durable  BY <1>6 DEF Durable, walVars
  <2>2. UNCHANGED Abstract!vars
    BY <1>6, <2>1 DEF Abstract!vars, walVars, callVars
  <2> QED  BY <2>2
<1> QED  BY <1>1, <1>2, <1>3, <1>4, <1>5, <1>6 DEF Next

-----------------------------------------------------------------------------
(* The theorems.                                                           *)

\* Whatever step of a rotation, a repair or a clearing the log is in, segments,
\* writer and memtable agree: what was acknowledged is in the memtable and in
\* what a restart would replay, and the record under way is in both or neither.
THEOREM LogInvHolds ==
    ASSUME Orderly
    PROVE  Spec => []LogInv
<1>1. Init => LogInv  BY InitLog
<1>2. LogInv /\ [Next]_walVars => LogInv'  BY StepLog
<1> QED  BY <1>1, <1>2, PTL DEF Spec

\* The log with its memtable is a table that outlives the process.
THEOREM RefinesDurableTableHolds ==
    ASSUME Orderly
    PROVE  Spec => RefinesDurableTable
<1>1. Init => Abstract!Init  BY InitAbstract
<1>2. LogInv /\ LogInv' /\ [Next]_walVars => [Abstract!Next]_(Abstract!vars)
  BY StepAbstract
<1> QED
  BY <1>1, <1>2, LogInvHolds, PTL DEF Spec, RefinesDurableTable, Abstract!Spec

=============================================================================
