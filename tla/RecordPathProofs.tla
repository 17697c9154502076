------------------------- MODULE RecordPathProofs -------------------------
(***************************************************************************)
(* The way of a record through log, memtable, file and compaction, for     *)
(* every size of the fields of a WALRecord, of keys, values and blocks: it *)
(* takes SSTableFile's steps, and loses no key that fits its field.        *)
(***************************************************************************)
EXTENDS RecordPath, SSTableFileProofs

LEMMA Sizes ==
    /\ \A k \in Key : k \in Nat
    /\ \A v \in Value : v \in Nat
    /\ KeyField \in Nat \ {0} /\ ValueField \in Nat \ {0}
    /\ Entry = Value \cup {Tombstone}
    /\ Tombstone \notin Value /\ Absent \notin Value /\ Tombstone # Absent
BY RecordAssumption, EntriesAssumption DEF Entry

LEMMA InsertTyped ==
    ASSUME NEW t \in Table, NEW k \in Key, NEW e \in Entry
    PROVE  /\ Insert(t, k, e) \in Table
           /\ Insert(t, k, e)[k] = e
           /\ \A l \in Key \ {k} : Insert(t, k, e)[l] = t[l]
BY DEF Insert, Table

-----------------------------------------------------------------------------
(* A record of the log, written and read back.                             *)

LEMMA RecordTyped ==
    ASSUME NEW k \in Key, NEW e \in Entry
    PROVE  /\ RecordOf(k, e) \in WALRecord
           /\ RecordOf(k, e).key = Copied(k, KeyField)
<1>1. k \in Nat /\ KeyField \in Nat \ {0} /\ ValueField \in Nat \ {0}  BY Sizes
<1>2. Copied(k, KeyField) \in 0 .. KeyField  BY <1>1 DEF Copied
<1>3. CASE e = Tombstone  BY <1>1, <1>2, <1>3 DEF RecordOf, WALRecord
<1>4. CASE e # Tombstone
  <2>1. e \in Nat  BY <1>4, Sizes
  <2>2. Copied(e, ValueField) \in 0 .. ValueField  BY <1>1, <2>1 DEF Copied
  <2> QED  BY <1>2, <1>4, <2>2 DEF RecordOf, WALRecord
<1> QED  BY <1>3, <1>4

\* Only a key that is shorter than its field is read back, and only as itself.
LEMMA ShortKeyRead ==
    ASSUME NEW r \in WALRecord, NEW b \in Overrun, NEW k \in Key, Short(k)
    PROVE  KeyRead(r, b) = k <=> r.key = k
<1>1. /\ k \in Nat /\ k < KeyField /\ KeyField \in Nat /\ ValueField \in Nat
      /\ r.key \in 0 .. KeyField /\ r.value \in 0 .. ValueField /\ b \in Nat
  BY Sizes, RecordAssumption DEF Short, WALRecord
<1>2. ValueRead(r, b) \in Nat  BY <1>1 DEF ValueRead
<1> QED  BY <1>1, <1>2 DEF KeyRead

LEMMA EntryReadTyped ==
    ASSUME NEW r \in WALRecord, NEW b \in Overrun
    PROVE  EntryRead(r, b) \in Entry
<1>1. /\ r.value \in 0 .. ValueField /\ ValueField \in Nat
  BY Sizes DEF WALRecord
<1>2. ValueRead(r, b) \in Value
  <2>1. CASE r.value < ValueField
    <3>1. r.value \in 0 .. ValueField - 1  BY <1>1, <2>1
    <3> QED  BY <2>1, <3>1, PathAssumption DEF ValueRead
  <2>2. CASE ~ (r.value < ValueField)  BY <2>2, PathAssumption DEF ValueRead
  <2> QED  BY <2>1, <2>2
<1> QED  BY <1>2, Sizes DEF EntryRead

\* A value that fits its field is read back as it was; one that does not, as the
\* field and the bytes behind it.
LEMMA EntryKept ==
    ASSUME NEW k \in Key, NEW e \in Entry, NEW b \in Overrun
    PROVE  Kept(e, Live(EntryRead(RecordOf(k, e), b)))
<1>1. ValueField \in Nat \ {0} /\ b \in Nat  BY Sizes, RecordAssumption
<1>2. CASE e = Tombstone
  BY <1>2, Sizes DEF EntryRead, RecordOf, Kept, Fits, Live
<1>3. CASE e # Tombstone
  <2>1. e \in Value /\ e \in Nat  BY <1>3, Sizes
  <2>2. EntryRead(RecordOf(k, e), b) = ValueRead(RecordOf(k, e), b)
    BY <1>3 DEF EntryRead, RecordOf
  <2>3. RecordOf(k, e).value = Copied(e, ValueField)
    BY <1>3 DEF RecordOf
  <2>4. CASE e < ValueField
    <3>1. ValueRead(RecordOf(k, e), b) = e
      BY <2>3, <2>4 DEF ValueRead, Copied
    <3> QED  BY <2>2, <2>4, <3>1 DEF Kept, Fits
  <2>5. CASE ~ (e < ValueField)
    <3>1. ValueRead(RecordOf(k, e), b) = ValueField + b
      BY <2>3, <2>5, <1>1 DEF ValueRead, Copied
    <3>2. ValueField + b \in Value  BY PathAssumption
    <3>3. ~ Fits(e)  BY <2>1, <2>5, Sizes DEF Fits
    <3>4. Live(ValueField + b) = ValueField + b
      BY <3>2, Sizes DEF Live
    <3> QED  BY <2>2, <3>1, <3>3, <3>4 DEF Kept
  <2> QED  BY <2>4, <2>5
<1> QED  BY <1>2, <1>3

LEMMA KeptItself ==
    ASSUME NEW e \in Entry \cup {Absent}
    PROVE  Kept(e, Live(e))
BY DEF Kept

\* The last record of a set of them.
LEMMA LastHit ==
    ASSUME wal \in Seq(WALRecord), NEW hits \in SUBSET DOMAIN wal, hits # {}
    PROVE  Newest(hits) \in hits /\ \A i \in hits : i <= Newest(hits)
<1>1. Len(wal) \in Nat /\ hits \in SUBSET (0 .. Len(wal))  OBVIOUS
<1> QED  BY <1>1, NewestExists

LEMMA RestoredTyped ==
    ASSUME wal \in Seq(WALRecord), NEW beyond \in [DOMAIN wal -> Overrun]
    PROVE  Restored(beyond) \in Table
<1> SUFFICES ASSUME NEW k \in Key
             PROVE  Restored(beyond)[k] \in Entry \cup {Absent}
  BY DEF Restored, Table
<1> DEFINE hits == {i \in DOMAIN wal : KeyRead(wal[i], beyond[i]) = k}
<1>1. Restored(beyond)[k] =
         IF hits = {} THEN Absent
         ELSE EntryRead(wal[Newest(hits)], beyond[Newest(hits)])
  BY DEF Restored
<1>2. CASE hits = {}  BY <1>1, <1>2
<1>3. CASE hits # {}
  <2>1. Newest(hits) \in DOMAIN wal  BY <1>3, LastHit
  <2>2. /\ wal[Newest(hits)] \in WALRecord
        /\ beyond[Newest(hits)] \in Overrun
    <3> HIDE DEF hits
    <3> QED  BY <2>1
  <2>3. EntryRead(wal[Newest(hits)], beyond[Newest(hits)]) \in Entry
    BY <2>2, EntryReadTyped
  <2> QED  BY <1>1, <1>3, <2>3
<1> QED  BY <1>2, <1>3

\* Replaying the log gives a short key what was written for it last.
LEMMA RestoredKeeps ==
    ASSUME PathInv, file_phase = "none",
           NEW beyond \in [DOMAIN wal -> Overrun], NEW k \in Key, Short(k)
    PROVE  Kept(acknowledged[k], Live(Restored(beyond)[k]))
<1> DEFINE hits == {i \in DOMAIN wal : KeyRead(wal[i], beyond[i]) = k}
           same == {i \in DOMAIN wal : wal[i].key = k}
<1>1. wal \in Seq(WALRecord)  BY DEF PathInv, PathTypeOK
<1>2. \A i \in DOMAIN wal : wal[i] \in WALRecord /\ beyond[i] \in Overrun
  BY <1>1
<1>3. hits = same
  <2>1. \A i \in DOMAIN wal : KeyRead(wal[i], beyond[i]) = k <=> wal[i].key = k
    BY <1>2, ShortKeyRead
  <2> QED  BY <2>1
<1>4. Restored(beyond)[k] =
         IF hits = {} THEN Absent
         ELSE EntryRead(wal[Newest(hits)], beyond[Newest(hits)])
  BY DEF Restored
<1>5. IF same = {} THEN acknowledged[k] = Absent
      ELSE /\ acknowledged[k] \in Entry
           /\ wal[Newest(same)] = RecordOf(k, acknowledged[k])
  BY DEF PathInv, LogInv
<1>6. CASE same = {}
  BY <1>3, <1>4, <1>5, <1>6, KeptItself
<1>7. CASE same # {}
  <2>1. Newest(same) \in DOMAIN wal  BY <1>1, <1>7, LastHit
  <2> HIDE DEF hits, same
  <2>2. beyond[Newest(same)] \in Overrun  BY <2>1
  <2>3. Kept(acknowledged[k],
             Live(EntryRead(RecordOf(k, acknowledged[k]), beyond[Newest(same)])))
    BY <1>5, <1>7, <2>2, EntryKept
  <2> QED  BY <1>3, <1>4, <1>5, <1>7, <2>3
<1> QED  BY <1>6, <1>7

-----------------------------------------------------------------------------
(* The invariant: each step is one of SSTableFile, or leaves the file be.   *)

LEMMA EmptyLogTyped == << >> \in Seq(WALRecord)
OBVIOUS

LEMMA PathInitHolds == PathInit => PathInv
<1> SUFFICES ASSUME PathInit PROVE PathInv  OBVIOUS
<1>1. IInv /\ TypeOK /\ file_phase = "none" /\ spoiled = "nothing"
  BY InitHolds DEF PathInit, IInv, Init
<1>2. PathTypeOK
  BY <1>1, EmptyTableIsTable, EmptyLogTyped DEF PathInit, PathTypeOK
<1>3. LogInv
  <2>1. \A k \in Key : {i \in DOMAIN wal : wal[i].key = k} = {}
    BY DEF PathInit
  <2> QED  BY <2>1 DEF PathInit, LogInv, EmptyTable
<1>4. KeptInv
  <2>1. \A k \in Key : Kept(Absent, Live(Absent))  BY KeptItself
  <2> QED  BY <1>1, <2>1 DEF PathInit, KeptInv, EmptyTable
<1> QED  BY <1>1, <1>2, <1>3, <1>4 DEF PathInv

LEMMA WriteHolds ==
    ASSUME PathInv, NEW k \in Key, NEW e \in Entry, Write(k, e)
    PROVE  PathInv' /\ UNCHANGED fileVars
<1>1. /\ PathTypeOK /\ IInv /\ LogInv /\ KeptInv /\ (spoiled = "index" => misled)
  BY DEF PathInv
<1>2. /\ wal \in Seq(WALRecord) /\ mem_table \in Table /\ acknowledged \in Table
      /\ misled \in BOOLEAN /\ TypeOK
  BY <1>1 DEF PathTypeOK
<1>3. /\ file_phase = "none"
      /\ wal' = Append(wal, RecordOf(k, e))
      /\ mem_table' = Insert(mem_table, k, e)
      /\ acknowledged' = Insert(acknowledged, k, e)
      /\ UNCHANGED fileVars /\ misled' = misled
  BY DEF Write
<1>4. IInv' /\ TypeOK' /\ file_phase' = "none" /\ spoiled' = spoiled
  <2>1. IInv'  BY <1>1, <1>3, StutterHolds
  <2> QED  BY <2>1, <1>3 DEF IInv, fileVars
<1>5. RecordOf(k, e) \in WALRecord /\ RecordOf(k, e).key = Copied(k, KeyField)
  BY RecordTyped
<1>6. PathTypeOK'
  <2>1. wal' \in Seq(WALRecord)  BY <1>2, <1>3, <1>5
  <2>2. mem_table' \in Table /\ acknowledged' \in Table
    BY <1>2, <1>3, InsertTyped
  <2> QED  BY <1>2, <1>3, <1>4, <2>1, <2>2 DEF PathTypeOK
<1> DEFINE N == Len(wal)
<1>7. /\ N \in Nat /\ DOMAIN wal = 1 .. N /\ DOMAIN wal' = 1 .. N + 1
      /\ wal'[N + 1] = RecordOf(k, e)
      /\ \A i \in 1 .. N : wal'[i] = wal[i]
  BY <1>2, <1>3, <1>5
<1>8. LogInv'
  <2> SUFFICES ASSUME NEW l \in Key, Short(l)
               PROVE  LET hits == {i \in DOMAIN wal' : wal'[i].key = l}
                      IN  IF hits = {} THEN acknowledged'[l] = Absent
                          ELSE /\ acknowledged'[l] \in Entry
                               /\ wal'[Newest(hits)] = RecordOf(l, acknowledged'[l])
    BY DEF LogInv, Short
  <2> DEFINE before == {i \in DOMAIN wal : wal[i].key = l}
             hits == {i \in DOMAIN wal' : wal'[i].key = l}
  <2>1. l \in Nat /\ k \in Nat /\ l < KeyField /\ KeyField \in Nat
    BY Sizes DEF Short
  <2>2. IF before = {} THEN acknowledged[l] = Absent
        ELSE /\ acknowledged[l] \in Entry
             /\ wal[Newest(before)] = RecordOf(l, acknowledged[l])
    BY <1>1, <1>3 DEF LogInv
  <2>3. CASE k = l
    <3>1. N + 1 \in hits  BY <2>1, <2>3, <1>5, <1>7 DEF Copied
    <3>2. \A i \in hits : i <= N + 1  BY <1>7
    <3>3. Newest(hits) = N + 1
      <4>1. \A n \in hits : (\A m \in hits : m <= n) => n = N + 1
        <5> TAKE n \in hits
        <5>1. n \in 1 .. N + 1  BY <1>7
        <5> HIDE DEF hits, N
        <5> QED  BY <3>1, <3>2, <5>1, <1>7
      <4> HIDE DEF hits, N
      <4> QED  BY <3>1, <3>2, <4>1 DEF Newest
    <3>4. acknowledged'[l] = e  BY <1>2, <1>3, <2>3, InsertTyped
    <3> HIDE DEF hits
    <3> QED  BY <1>7, <2>3, <3>1, <3>3, <3>4 DEF hits
  <2>4. CASE k # l
    <3>1. Copied(k, KeyField) # l  BY <2>1, <2>4 DEF Copied
    <3>2. hits = before  BY <1>5, <1>7, <3>1
    <3>3. before # {} => Newest(before) \in 1 .. N  BY <1>2, <1>7, LastHit
    <3>4. acknowledged'[l] = acknowledged[l]  BY <1>2, <1>3, <2>4, InsertTyped
    <3> HIDE DEF hits, before, N
    <3>5. IF hits = {} THEN acknowledged'[l] = Absent
          ELSE /\ acknowledged'[l] \in Entry
               /\ wal'[Newest(hits)] = RecordOf(l, acknowledged'[l])
      BY <2>2, <3>2, <3>3, <3>4, <1>7
    <3> QED  BY <3>5 DEF hits
  <2> QED  BY <2>3, <2>4
<1>9. KeptInv'
  <2> SUFFICES ASSUME NEW l \in Key, Short(l)
               PROVE  Kept(acknowledged'[l], Live(mem_table'[l]))
    BY <1>4 DEF KeptInv, Short, Kept, Fits
  <2>1. CASE k = l
    <3>1. acknowledged'[l] = e /\ mem_table'[l] = e
      BY <1>2, <1>3, <2>1, InsertTyped
    <3> QED  BY <3>1, KeptItself
  <2>2. CASE k # l
    <3>1. acknowledged'[l] = acknowledged[l] /\ mem_table'[l] = mem_table[l]
      BY <1>2, <1>3, <2>2, InsertTyped
    <3> QED  BY <3>1, <1>1, <1>3 DEF KeptInv
  <2> QED  BY <2>1, <2>2
<1> QED  BY <1>1, <1>3, <1>4, <1>6, <1>8, <1>9 DEF PathInv

LEMMA RestartHolds ==
    ASSUME PathInv, Restart
    PROVE  PathInv' /\ UNCHANGED fileVars
<1>1. /\ PathTypeOK /\ IInv /\ LogInv /\ KeptInv /\ (spoiled = "index" => misled)
  BY DEF PathInv
<1>2. PICK beyond \in [DOMAIN wal -> Overrun] : mem_table' = Restored(beyond)
  BY DEF Restart
<1>3. /\ file_phase = "none" /\ file_phase' = "none" /\ spoiled' = spoiled
      /\ UNCHANGED <<fileVars, wal, acknowledged, misled>>
  BY DEF Restart, fileVars
<1>4. IInv' /\ TypeOK'
  <2>1. IInv'  BY <1>1, <1>3, StutterHolds
  <2> QED  BY <2>1 DEF IInv
<1>5. PathTypeOK'
  <2>1. mem_table' \in Table  BY <1>1, <1>2, RestoredTyped DEF PathTypeOK
  <2> QED  BY <1>1, <1>3, <1>4, <2>1 DEF PathTypeOK
<1>6. LogInv'  BY <1>1, <1>3 DEF LogInv, Short
<1>7. KeptInv'
  <2> SUFFICES ASSUME NEW l \in Key, Short(l)
               PROVE  Kept(acknowledged'[l], Live(mem_table'[l]))
    BY <1>3 DEF KeptInv, Short, Kept, Fits
  <2>1. Kept(acknowledged[l], Live(Restored(beyond)[l]))
    BY <1>3, RestoredKeeps
  <2> QED  BY <1>2, <1>3, <2>1
<1> QED  BY <1>1, <1>3, <1>4, <1>5, <1>6, <1>7 DEF PathInv

LEMMA FlushHolds ==
    ASSUME PathInv, Flush
    PROVE  PathInv' /\ [Next]_fileVars
<1>1. /\ PathTypeOK /\ IInv /\ KeptInv /\ (spoiled = "index" => misled)
      /\ mem_table \in Table
  BY DEF PathInv, PathTypeOK
<1>2. /\ file_phase = "none" /\ FlushMap(mem_table)
      /\ mem_table' = EmptyTable
      /\ UNCHANGED <<wal, acknowledged, misled>>
  BY DEF Flush
<1>3. file_phase' = "writing" /\ spoiled' = "nothing" /\ records' = mem_table
  BY <1>2 DEF FlushMap
<1>4. IInv' /\ TypeOK'
  <2>1. IInv'  BY <1>1, <1>2, FlushMapHolds
  <2> QED  BY <2>1 DEF IInv
<1>5. PathTypeOK'
  BY <1>1, <1>2, <1>4, EmptyTableIsTable DEF PathTypeOK
<1>6. LogInv'  BY <1>3 DEF LogInv
<1>7. KeptInv'  BY <1>1, <1>2, <1>3 DEF KeptInv, Short
<1>8. Next  BY <1>1, <1>2 DEF Next
<1> QED  BY <1>3, <1>4, <1>5, <1>6, <1>7, <1>8 DEF PathInv

\* A step of SSTableFile that is neither the first nor a new flush_map.
LEMMA FileStepHolds ==
    ASSUME PathInv, IInv', file_phase \in {"writing", "closed", "open"},
           file_phase' \in {"writing", "closed", "open"}, records' = records,
           wal' \in Seq(WALRecord), UNCHANGED <<mem_table, acknowledged>>,
           misled' \in BOOLEAN, misled => misled', spoiled' = "index" => misled'
    PROVE  PathInv'
<1>1. PathTypeOK /\ KeptInv  BY DEF PathInv
<1>2. PathTypeOK'  BY <1>1 DEF PathTypeOK, IInv
<1>3. LogInv'  BY DEF LogInv
<1>4. KeptInv'  BY <1>1 DEF KeptInv, Short
<1> QED  BY <1>2, <1>3, <1>4 DEF PathInv

LEMMA FileHolds ==
    ASSUME PathInv, WriteFile \/ OpenFile \/ CloseFile
    PROVE  PathInv' /\ [Next]_fileVars
<1>1. IInv /\ wal \in Seq(WALRecord) /\ misled \in BOOLEAN
      /\ (spoiled = "index" => misled)
  BY DEF PathInv, PathTypeOK
<1>2. WriteRecord \/ WriteLastBlock \/ WriteIndex \/ OpenReader \/ CloseReader
  BY DEF WriteFile, OpenFile, CloseFile
<1>3. IInv'  BY <1>1, <1>2, WriteRecordHolds, WriteLastBlockHolds, KeepBlocksHolds
<1>4. /\ file_phase \in {"writing", "closed", "open"}
      /\ file_phase' \in {"writing", "closed", "open"}
      /\ records' = records /\ spoiled' = spoiled
  BY <1>2 DEF WriteRecord, WriteLastBlock, WriteIndex, OpenReader, CloseReader,
              writerVars
<1>5. /\ UNCHANGED <<mem_table, acknowledged, misled>>
      /\ wal' = wal \/ wal' = << >>
  BY DEF WriteFile, OpenFile, CloseFile
<1>6. wal' \in Seq(WALRecord)  BY <1>1, <1>5, EmptyLogTyped
<1>7. Next  BY <1>2 DEF Next
<1> QED  BY <1>1, <1>3, <1>4, <1>5, <1>6, <1>7, FileStepHolds

\* What the disk spoils of a typed index entry is a typed index entry.
LEMMA SpoiledEntryTyped ==
    ASSUME index_block \in Seq(IndexEntry), NEW i \in DOMAIN index_block
    PROVE  /\ \A k \in Key : [index_block[i] EXCEPT !.last_key = k] \in IndexEntry
           /\ \A o \in Fields("offset") :
                 [index_block[i] EXCEPT !.offset = o] \in IndexEntry
           /\ \A s \in Fields("size") :
                 [index_block[i] EXCEPT !.size = s] \in IndexEntry
<1>1. \A j \in DOMAIN index_block : index_block[j] \in IndexEntry  OBVIOUS
<1>2. index_block[i] \in IndexEntry  BY <1>1
<1>3. \A o \in Fields("offset") : o \in Nat  BY <1>1 DEF Fields, IndexEntry
<1>4. \A s \in Fields("size") : s \in Nat  BY <1>1 DEF Fields, IndexEntry
<1> QED  BY <1>2, <1>3, <1>4 DEF IndexEntry

LEMMA SpoilHolds ==
    ASSUME PathInv, Spoil
    PROVE  PathInv' /\ [Next]_fileVars
<1>1. /\ IInv /\ wal \in Seq(WALRecord) /\ misled \in BOOLEAN
      /\ index_block \in Seq(IndexEntry)
  BY DEF PathInv, PathTypeOK, TypeOK
<1>2. SpoilBlock \/ \E entry \in IndexEntry : SpoilIndex(entry)
  BY <1>1, SpoiledEntryTyped DEF Spoil
<1>3. IInv'  BY <1>1, <1>2, SpoilBlockHolds, SpoilIndexHolds
<1>4. /\ file_phase \in {"closed", "open"} /\ file_phase' = file_phase
      /\ records' = records
  BY <1>2 DEF SpoilBlock, SpoilIndex, writerVars
<1>5. /\ UNCHANGED <<mem_table, acknowledged, wal>>
      /\ misled' = (misled \/ spoiled' = "index")
  BY DEF Spoil
<1>6. Next  BY <1>2 DEF Next
<1> QED  BY <1>1, <1>3, <1>4, <1>5, <1>6, FileStepHolds

\* A compaction reads records of the map, and all of them unless the index has
\* been spoiled.
LEMMA CompactedRecords ==
    ASSUME IInv, file_phase = "open", ~ReadThrows
    PROVE  /\ TableRead \in Table
           /\ \A k \in Key : TableRead[k] \in {records[k], Absent}
           /\ spoiled # "index" => TableRead = records
<1>1. \A k \in Key : TableRead[k] \in {records[k], Absent}
  <2> TAKE k \in Key
  <2>1. CASE \E p \in Places : RecordAt(p).key = k
    <3> DEFINE p == CHOOSE p \in Places : RecordAt(p).key = k
    <3>1. p \in Places /\ RecordAt(p).key = k  BY <2>1
    <3>2. TableRead[k] = RecordAt(p).entry  BY <2>1 DEF TableRead
    <3> HIDE DEF p
    <3>3. PICK i \in DOMAIN loaded : p \in {i} \X DOMAIN Data(loaded[i])
      BY <3>1 DEF Places
    <3>4. p[1] = i /\ p[2] \in DOMAIN Data(loaded[i])  BY <3>3
    <3>5. loaded[i].offset \in DOMAIN blocks  BY <3>3 DEF ReadThrows, Intact
    <3>6. Piece(Data(loaded[i]))  BY <3>5 DEF IInv, PieceInv, Data
    <3>7. RecordAt(p).entry = records[RecordAt(p).key]
      BY <3>4, <3>6 DEF RecordAt, Piece, FromRecords
    <3> QED  BY <3>1, <3>2, <3>7
  <2>2. CASE ~ \E p \in Places : RecordAt(p).key = k
    BY <2>2 DEF TableRead
  <2> QED  BY <2>1, <2>2
<1>2. TableRead \in Table
  <2>1. TableRead = [k \in Key |-> TableRead[k]]  BY DEF TableRead
  <2>2. \A k \in Key : TableRead[k] \in Entry \cup {Absent}
    BY <1>1 DEF IInv, TypeOK, Table
  <2> HIDE DEF TableRead
  <2> QED  BY <2>1, <2>2 DEF Table
<1>3. spoiled # "index" => TableRead = records
  BY ReadsAll DEF ReadsAllInOrder
<1> QED  BY <1>1, <1>2, <1>3

LEMMA CompactHolds ==
    ASSUME PathInv, Compact
    PROVE  PathInv' /\ [Next]_fileVars
<1> DEFINE merged == Fold(EmptyTable, TableRead)
<1>1. PathTypeOK /\ IInv /\ KeptInv /\ (spoiled = "index" => misled)
  BY DEF PathInv
<1>2. /\ file_phase = "open" /\ ~ReadThrows /\ FlushMap(merged)
      /\ UNCHANGED <<wal, mem_table, acknowledged, misled>>
  BY DEF Compact
<1>3. /\ TableRead \in Table
      /\ \A k \in Key : TableRead[k] \in {records[k], Absent}
      /\ spoiled # "index" => TableRead = records
  BY <1>1, <1>2, CompactedRecords
<1>4. \A k \in Key : merged[k] = Live(TableRead[k])
  BY DEF Fold, EmptyTable, Live
<1>5. merged \in Table
  <2>1. \A k \in Key : merged[k] \in Entry \cup {Absent}
    BY <1>3, <1>4 DEF Table, Live
  <2>2. merged = [k \in Key |-> merged[k]]  BY DEF Fold
  <2> HIDE DEF merged
  <2> QED  BY <2>1, <2>2 DEF Table
<1> HIDE DEF merged
<1>6. file_phase' = "writing" /\ spoiled' = "nothing" /\ records' = merged
  BY <1>2 DEF FlushMap
<1>7. IInv' /\ TypeOK'
  <2>1. IInv'  BY <1>1, <1>2, <1>5, FlushMapHolds
  <2> QED  BY <2>1 DEF IInv
<1>8. PathTypeOK'  BY <1>1, <1>2, <1>7 DEF PathTypeOK
<1>9. LogInv'  BY <1>6 DEF LogInv
<1>10. KeptInv'
  <2> SUFFICES ASSUME NEW k \in Key, Short(k)
               PROVE  \/ Kept(acknowledged[k], Live(merged[k]))
                      \/ misled /\ merged[k] = Absent
    BY <1>2, <1>6 DEF KeptInv, Short, Kept, Fits
  <2>1. \/ Kept(acknowledged[k], Live(records[k]))
        \/ misled /\ records[k] = Absent
    BY <1>1, <1>2 DEF KeptInv
  <2>2. merged[k] = Live(TableRead[k]) /\ Live(Live(TableRead[k])) = Live(TableRead[k])
    BY <1>4, Sizes DEF Live
  <2>3. CASE TableRead[k] = records[k]
    <3>1. records[k] = Absent => merged[k] = Absent
      BY <2>2, <2>3, Sizes DEF Live
    <3> QED  BY <2>1, <2>2, <2>3, <3>1
  <2>4. CASE TableRead[k] # records[k]
    <3>1. TableRead[k] = Absent /\ misled  BY <2>4, <1>1, <1>3
    <3> QED  BY <2>2, <3>1, Sizes DEF Live
  <2> QED  BY <2>3, <2>4
<1>11. Next  BY <1>2, <1>5 DEF Next
<1> QED  BY <1>6, <1>7, <1>8, <1>9, <1>10, <1>11 DEF PathInv

LEMMA PathStepHolds == PathInv /\ [PathNext]_pathVars => PathInv' /\ [Next]_fileVars
<1> SUFFICES ASSUME PathInv, [PathNext]_pathVars
             PROVE  PathInv' /\ [Next]_fileVars
  OBVIOUS
<1>1. CASE \E k \in ClientKey, e \in ClientValue \cup {Tombstone} : Write(k, e)
  <2>1. PICK k \in ClientKey, e \in ClientValue \cup {Tombstone} : Write(k, e)
    BY <1>1
  <2>2. k \in Key /\ e \in Entry  BY PathAssumption DEF Entry
  <2> QED  BY <2>1, <2>2, WriteHolds
<1>2. CASE Restart  BY <1>2, RestartHolds
<1>3. CASE Flush  BY <1>3, FlushHolds
<1>4. CASE WriteFile \/ OpenFile \/ CloseFile  BY <1>4, FileHolds
<1>5. CASE Compact  BY <1>5, CompactHolds
<1>6. CASE Spoil  BY <1>6, SpoilHolds
<1>7. CASE UNCHANGED pathVars
  <2>1. UNCHANGED <<fileVars, wal, mem_table, acknowledged, misled>>
    BY <1>7 DEF pathVars
  <2>2. UNCHANGED <<file_phase, records, spoiled>>
    BY <2>1 DEF fileVars, writerVars
  <2>3. /\ PathTypeOK /\ IInv /\ LogInv /\ KeptInv
        /\ (spoiled = "index" => misled)
    BY DEF PathInv
  <2>4. IInv' /\ TypeOK'
    <3>1. IInv'  BY <2>1, <2>3, StutterHolds
    <3> QED  BY <3>1 DEF IInv
  <2>5. PathTypeOK'  BY <2>1, <2>3, <2>4 DEF PathTypeOK
  <2>6. LogInv'  BY <2>1, <2>2, <2>3 DEF LogInv, Short
  <2>7. KeptInv'  BY <2>1, <2>2, <2>3 DEF KeptInv, Short
  <2> QED  BY <2>1, <2>2, <2>3, <2>4, <2>5, <2>6, <2>7 DEF PathInv
<1> QED  BY <1>1, <1>2, <1>3, <1>4, <1>5, <1>6, <1>7 DEF PathNext

-----------------------------------------------------------------------------
\* Log, memtable, file and what clients were told agree at every point of a
\* record's way.
THEOREM PathInvariantHolds == PathSpec => []PathInv
BY PathInitHolds, PathStepHolds, PTL DEF PathSpec

\* The way of a record takes the steps of SSTableFile, which stays as it is while
\* the record is in the log, so what is proved of an SSTable file holds on it.
THEOREM PathImplementsFile == PathSpec => Spec
<1>1. PathInit => Init  BY DEF PathInit
<1> QED  BY <1>1, PathInitHolds, PathStepHolds, PTL DEF PathSpec, Spec

LEMMA PathKeepsRecords == PathInv => ShortKeysKeepTheirRecord
<1> SUFFICES ASSUME PathInv, NEW k \in Key, Short(k)
             PROVE  /\ file_phase = "none" => Kept(acknowledged[k], Live(mem_table[k]))
                    /\ file_phase = "open" =>
                          \A got \in Get(k) \ {Thrown} :
                             \/ Kept(acknowledged[k], Live(got))
                             \/ misled /\ got = Absent
  BY DEF ShortKeysKeepTheirRecord
<1>1. /\ IInv /\ KeptInv /\ (spoiled = "index" => misled)
      /\ LookupMatches /\ NothingMadeUp
  BY LookupsMatch, NothingIsMadeUp DEF PathInv
<1>2. file_phase = "none" => Kept(acknowledged[k], Live(mem_table[k]))
  BY <1>1 DEF KeptInv
<1>3. ASSUME file_phase = "open", NEW got \in Get(k) \ {Thrown}
      PROVE  \/ Kept(acknowledged[k], Live(got))
             \/ misled /\ got = Absent
  <2>1. got \in {records[k], Absent}  BY <1>1, <1>3 DEF NothingMadeUp
  <2>2. spoiled # "index" => got = records[k]  BY <1>1, <1>3 DEF LookupMatches
  <2>3. \/ Kept(acknowledged[k], Live(records[k]))
        \/ misled /\ records[k] = Absent
    BY <1>1, <1>3 DEF KeptInv
  <2> QED  BY <1>1, <2>1, <2>2, <2>3
<1> QED  BY <1>2, <1>3

\* A key that fits the log's field reads what was last written for it, through
\* restarts, a flush and compactions, whatever longer keys were written.
THEOREM ShortKeysKeepTheirRecordHolds == PathSpec => []ShortKeysKeepTheirRecord
BY PathInvariantHolds, PathKeepsRecords, PTL

\* On that way, too, a lookup answers what the file was written from.
THEOREM PathLookupMatches == PathSpec => []LookupMatches
BY PathImplementsFile, LookupMatchesHolds

=============================================================================
