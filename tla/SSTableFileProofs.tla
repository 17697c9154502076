------------------------- MODULE SSTableFileProofs -------------------------
(***************************************************************************)
(* For every set of keys and values, that is for records of every size,    *)
(* and every block size: the invariant of SSTableFile, and what it says of *)
(* lookups and of reading a whole file.                                    *)
(***************************************************************************)
EXTENDS SSTableFileInvariant, DirectoryProofs

LEMMA EmptyTableIsTable == EmptyTable \in Table
BY DEF EmptyTable, Table

LEMMA RecordSizePositive ==
    ASSUME NEW r \in KeyRecord
    PROVE  RecordSize(r) \in Nat /\ RecordSize(r) > 0
<1>1. r.key \in Nat /\ r.entry \in Entry  BY FileAssumption DEF KeyRecord
<1>2. ValueSize(r.entry) \in Nat  BY <1>1, FileAssumption DEF ValueSize, Entry
<1> QED  BY <1>1, <1>2 DEF RecordSize

LEMMA AppendRecord ==
    ASSUME NEW s \in Seq(KeyRecord), NEW r \in KeyRecord
    PROVE  /\ Append(s, r) \in Seq(KeyRecord)
           /\ Append(s, r) # << >>
           /\ Len(Append(s, r)) = Len(s) + 1
           /\ DOMAIN Append(s, r) = DOMAIN s \cup {Len(s) + 1}
           /\ \A j \in DOMAIN s : Append(s, r)[j] = s[j]
           /\ Append(s, r)[Len(s) + 1] = r
OBVIOUS

-----------------------------------------------------------------------------
(* What close_block leaves of what was there, and what it adds.            *)

LEMMA CloseBlockTyped ==
    ASSUME TypeOK, NEW data \in Seq(KeyRecord), NEW size \in Nat,
           NEW last_key \in Key, CloseBlock(data, size, last_key)
    PROVE  /\ DOMAIN blocks' \subseteq Nat
           /\ \A o \in DOMAIN blocks' : blocks'[o] \in Block
           /\ index_entries' \in Seq(IndexEntry)
           /\ segment_counter' \in Nat
           /\ block_counter' \in Nat
           /\ block_buffer' \in Seq(KeyRecord)
<1> USE DEF TypeOK, CrcSize
<1>1. segment_counter \in Nat /\ size + CrcSize \in Nat  OBVIOUS
<1>2. [data |-> data, size |-> size + CrcSize, good |-> TRUE] \in Block
  BY <1>1 DEF Block
<1>3. [last_key |-> last_key, offset |-> segment_counter, size |-> size + CrcSize]
        \in IndexEntry
  BY <1>1 DEF IndexEntry
<1> QED  BY <1>1, <1>2, <1>3 DEF CloseBlock, WithFile

LEMMA CloseBlockFrame ==
    ASSUME TypeOK, LayoutInv, NEW data \in Seq(KeyRecord), NEW size \in Nat,
           NEW last_key \in Key, CloseBlock(data, size, last_key)
    PROVE  /\ Indexed' = Indexed \cup {Len(index_entries) + 1}
           /\ Indexed = 1 .. Len(index_entries)
           /\ Len(index_entries') = Len(index_entries) + 1
           /\ \A i \in Indexed : index_entries'[i] = index_entries[i]
           /\ index_entries'[Len(index_entries) + 1].last_key = last_key
           /\ index_entries'[Len(index_entries) + 1].offset = segment_counter
           /\ index_entries'[Len(index_entries) + 1].size = size + CrcSize
           /\ DOMAIN blocks' = DOMAIN blocks \cup {segment_counter}
           /\ segment_counter \notin DOMAIN blocks
           /\ \A o \in DOMAIN blocks : blocks'[o] = blocks[o]
           /\ blocks'[segment_counter].data = data
           /\ blocks'[segment_counter].size = size + CrcSize
           /\ blocks'[segment_counter].good = TRUE
           /\ \A i \in Indexed :
                 /\ index_entries[i].offset \in DOMAIN blocks
                 /\ blocks'[index_entries[i].offset] = blocks[index_entries[i].offset]
<1> DEFINE e == [last_key |-> last_key, offset |-> segment_counter,
                 size |-> size + CrcSize]
           b == [data |-> data, size |-> size + CrcSize, good |-> TRUE]
<1>1. e \in IndexEntry /\ segment_counter \in Nat
  BY DEF IndexEntry, TypeOK, CrcSize
<1>2. index_entries' = Append(index_entries, e) /\ index_entries \in Seq(IndexEntry)
  BY DEF CloseBlock, TypeOK
<1>3. /\ Indexed' = Indexed \cup {Len(index_entries) + 1}
      /\ Indexed = 1 .. Len(index_entries)
      /\ Len(index_entries') = Len(index_entries) + 1
      /\ \A i \in Indexed : index_entries'[i] = index_entries[i]
      /\ index_entries'[Len(index_entries) + 1] = e
  <2> HIDE DEF e
  <2> QED  BY <1>1, <1>2 DEF Indexed
<1>4. blocks' = WithFile(blocks, segment_counter, b)  BY DEF CloseBlock
<1>5. \A i \in Indexed : /\ index_entries[i].offset \in DOMAIN blocks
                         /\ index_entries[i].offset # segment_counter
  <2> TAKE i \in Indexed
  <2>1. index_entries[i] \in IndexEntry  BY <1>2 DEF Indexed
  <2>2. index_entries[i].offset \in Nat /\ index_entries[i].size \in Nat
    BY <2>1 DEF IndexEntry
  <2>3. /\ index_entries[i].size > 0
        /\ index_entries[i].offset + index_entries[i].size <= segment_counter
    BY DEF LayoutInv
  <2>4. index_entries[i].offset # segment_counter  BY <2>2, <2>3, <1>1
  <2> QED  BY <2>4 DEF LayoutInv
<1>6. segment_counter \notin DOMAIN blocks  BY <1>5 DEF LayoutInv
<1>7. /\ DOMAIN blocks' = DOMAIN blocks \cup {segment_counter}
      /\ \A o \in DOMAIN blocks : blocks'[o] = blocks[o]
      /\ blocks'[segment_counter] = b
  <2> HIDE DEF b
  <2> QED  BY <1>4, <1>6 DEF WithFile
<1> QED  BY <1>3, <1>5, <1>6, <1>7

\* Of an open buffer, or of that and one more record, close_block makes a block
\* of the map, above the blocks before it and below what is still to come.
LEMMA CloseBlockAgrees ==
    ASSUME TypeOK, LayoutInv, PieceInv, BoundaryInv,
           NEW data \in Seq(KeyRecord), data # << >>, Piece(data),
           NEW size \in Nat,
           \A i \in Indexed : \A n \in DOMAIN data :
               index_entries[i].last_key < data[n].key,
           \A k \in todo' : k \in todo /\ \A n \in DOMAIN data : data[n].key < k,
           records' = records,
           CloseBlock(data, size, data[Len(data)].key)
    PROVE  LayoutInv' /\ PieceInv' /\ BoundaryInv'
<1> DEFINE N == Len(index_entries)
           last_key == data[Len(data)].key
<1>0. Len(data) \in DOMAIN data /\ last_key \in Key
  <2>1. Len(data) \in DOMAIN data  OBVIOUS
  <2>2. data[Len(data)] \in KeyRecord  BY <2>1
  <2> QED  BY <2>1, <2>2 DEF KeyRecord
<1>1. /\ Indexed' = Indexed \cup {N + 1}
      /\ Indexed = 1 .. N
      /\ N \in Nat
      /\ \A i \in Indexed : index_entries'[i] = index_entries[i]
      /\ index_entries'[N + 1].last_key = last_key
      /\ index_entries'[N + 1].offset = segment_counter
      /\ index_entries'[N + 1].size = size + CrcSize
      /\ DOMAIN blocks' = DOMAIN blocks \cup {segment_counter}
      /\ segment_counter \notin DOMAIN blocks
      /\ \A o \in DOMAIN blocks : blocks'[o] = blocks[o]
      /\ blocks'[segment_counter].data = data
      /\ blocks'[segment_counter].size = size + CrcSize
      /\ \A i \in Indexed :
            /\ index_entries[i].offset \in DOMAIN blocks
            /\ blocks'[index_entries[i].offset] = blocks[index_entries[i].offset]
  <2>1. N \in Nat  BY DEF TypeOK
  <2> QED  BY <2>1, <1>0, CloseBlockFrame, Zenon
<1>2. /\ segment_counter \in Nat
      /\ segment_counter' = segment_counter + (size + CrcSize)
      /\ size + CrcSize \in Nat /\ size + CrcSize > 0
      /\ block_buffer' = << >>
  BY DEF CloseBlock, TypeOK, CrcSize
<1>3. \A i \in Indexed : /\ index_entries[i].offset \in Nat
                         /\ index_entries[i].size \in Nat
                         /\ index_entries[i].last_key \in Nat
  <2> TAKE i \in Indexed
  <2>1. index_entries[i] \in IndexEntry  BY DEF TypeOK, Indexed
  <2> QED  BY <2>1, FileAssumption DEF IndexEntry
<1> HIDE DEF last_key
<1>4. LayoutInv'
  <2>1. \A i \in Indexed' : index_entries'[i].offset \in DOMAIN blocks'
    <3> TAKE i \in Indexed'
    <3>1. CASE i \in Indexed  BY <3>1, <1>1
    <3>2. CASE i = N + 1  BY <3>2, <1>1
    <3> QED  BY <3>1, <3>2, <1>1
  <2>2. \A o \in DOMAIN blocks' : \E i \in Indexed' : o = index_entries'[i].offset
    <3> TAKE o \in DOMAIN blocks'
    <3>1. CASE o \in DOMAIN blocks
      <4>1. PICK i \in Indexed : o = index_entries[i].offset
        BY <3>1 DEF LayoutInv
      <4> QED  BY <4>1, <1>1
    <3>2. CASE o = segment_counter  BY <3>2, <1>1
    <3> QED  BY <3>1, <3>2, <1>1
  <2>3. DOMAIN blocks' = {index_entries'[i].offset : i \in Indexed'}
    BY <2>1, <2>2
  <2>4. \A i \in Indexed' :
          /\ blocks'[index_entries'[i].offset].size = index_entries'[i].size
          /\ index_entries'[i].size > 0
          /\ index_entries'[i].offset + index_entries'[i].size <= segment_counter'
    <3> TAKE i \in Indexed'
    <3>1. CASE i \in Indexed
      <4>1. /\ blocks[index_entries[i].offset].size = index_entries[i].size
            /\ index_entries[i].size > 0
            /\ index_entries[i].offset + index_entries[i].size <= segment_counter
        BY <3>1 DEF LayoutInv
      <4>2. index_entries[i].offset + index_entries[i].size <= segment_counter'
        BY <4>1, <3>1, <1>2, <1>3
      <4> QED  BY <4>1, <4>2, <3>1, <1>1
    <3>2. CASE i = N + 1  BY <3>2, <1>1, <1>2
    <3> QED  BY <3>1, <3>2, <1>1
  <2>5. \A i, j \in Indexed' :
          i < j => index_entries'[i].offset + index_entries'[i].size
                     <= index_entries'[j].offset
    <3> TAKE i, j \in Indexed'
    <3> HAVE i < j
    <3>1. i \in Indexed  BY <1>1
    <3>2. CASE j \in Indexed  BY <3>1, <3>2, <1>1 DEF LayoutInv
    <3>3. CASE j = N + 1  BY <3>1, <3>3, <1>1, <1>2 DEF LayoutInv
    <3> QED  BY <3>2, <3>3, <1>1
  <2> QED  BY <2>3, <2>4, <2>5 DEF LayoutInv, Indexed
<1>5. PieceInv'
  <2>1. Piece(data)'
    BY DEF Piece, Ascending, FromRecords
  <2>2. \A o \in DOMAIN blocks : Piece(blocks[o].data)' /\ blocks'[o].data # << >>
    BY <1>1 DEF PieceInv, Piece, Ascending, FromRecords
  <2>3. Piece(block_buffer)'
    BY <1>2 DEF Piece, Ascending, FromRecords
  <2> QED  BY <2>1, <2>2, <2>3, <1>1 DEF PieceInv, Piece, Ascending, FromRecords
<1>6. BoundaryInv'
  <2> DEFINE d(i) == blocks'[index_entries'[i].offset].data
  <2>1. \A i \in Indexed : d(i) = Data(index_entries[i])
    BY <1>1 DEF Data
  <2>2. d(N + 1) = data  BY <1>1
  <2> HIDE DEF d
  <2>3. \A i \in Indexed' : index_entries'[i].last_key = d(i)[Len(d(i))].key
    <3> TAKE i \in Indexed'
    <3>1. CASE i \in Indexed  BY <3>1, <1>1, <2>1 DEF BoundaryInv
    <3>2. CASE i = N + 1  BY <3>2, <1>1, <2>2 DEF last_key
    <3> QED  BY <3>1, <3>2, <1>1
  <2>4. \A i, j \in Indexed' :
          i < j => \A n \in DOMAIN d(j) : index_entries'[i].last_key < d(j)[n].key
    <3> TAKE i, j \in Indexed'
    <3> HAVE i < j
    <3>1. i \in Indexed  BY <1>1
    <3>2. CASE j \in Indexed
      <4>1. \A n \in DOMAIN Data(index_entries[j]) :
               index_entries[i].last_key < Data(index_entries[j])[n].key
        BY <3>1, <3>2 DEF BoundaryInv
      <4>2. index_entries'[i] = index_entries[i] /\ d(j) = Data(index_entries[j])
        BY <3>1, <3>2, <1>1, <2>1
      <4> QED  BY <4>1, <4>2
    <3>3. CASE j = N + 1
      <4>1. d(j) = data  BY <3>3, <2>2
      <4> QED  BY <3>1, <4>1, <1>1
    <3> QED  BY <3>2, <3>3, <1>1
  <2>5. \A i \in Indexed' : \A k \in todo' : index_entries'[i].last_key < k
    <3> TAKE i \in Indexed'
    <3> TAKE k \in todo'
    <3>1. CASE i \in Indexed  BY <3>1, <1>1 DEF BoundaryInv
    <3>2. CASE i = N + 1  BY <3>2, <1>0, <1>1 DEF last_key
    <3> QED  BY <3>1, <3>2, <1>1
  <2>6. \A k \in todo' : records'[k] # Absent  BY DEF BoundaryInv
  <2>7. DOMAIN (block_buffer') = {}  BY <1>2
  <2> QED  BY <2>3, <2>4, <2>5, <2>6, <2>7 DEF BoundaryInv, Indexed, Data, d
<1> QED  BY <1>4, <1>5, <1>6


\* No record is left out when a block is closed.
LEMMA CloseBlockCovers ==
    ASSUME TypeOK, LayoutInv, CoverInv,
           NEW data \in Seq(KeyRecord), NEW size \in Nat, NEW last_key \in Key,
           CloseBlock(data, size, last_key), records' = records,
           \A k \in Key :
              k \in todo \/ (\E n \in DOMAIN block_buffer : block_buffer[n].key = k)
                 => k \in todo' \/ \E n \in DOMAIN data : data[n].key = k
    PROVE  CoverInv'
<1> DEFINE N == Len(index_entries)
<1>1. /\ Indexed' = Indexed \cup {N + 1}
      /\ \A i \in Indexed : index_entries'[i] = index_entries[i]
      /\ index_entries'[N + 1].offset = segment_counter
      /\ blocks'[segment_counter].data = data
      /\ \A i \in Indexed :
            blocks'[index_entries[i].offset] = blocks[index_entries[i].offset]
  BY CloseBlockFrame, Zenon
<1> DEFINE d(i) == blocks'[index_entries'[i].offset].data
<1>2. /\ \A i \in Indexed : d(i) = blocks[index_entries[i].offset].data
      /\ d(N + 1) = data
  BY <1>1
<1> SUFFICES ASSUME NEW k \in Key, records[k] # Absent, k \notin todo'
             PROVE  \E i \in Indexed' : \E j \in DOMAIN d(i) : d(i)[j].key = k
  BY DEF CoverInv, Holds, Indexed
<1> HIDE DEF d, N
<1>3. CASE \E i \in Indexed : Holds(index_entries[i].offset, k)
  <2>1. PICK i \in Indexed : Holds(index_entries[i].offset, k)  BY <1>3
  <2>2. \E j \in DOMAIN d(i) : d(i)[j].key = k  BY <2>1, <1>2 DEF Holds
  <2> QED  BY <2>2, <1>1
<1>4. CASE k \in todo \/ \E n \in DOMAIN block_buffer : block_buffer[n].key = k
  <2>1. \E j \in DOMAIN d(N + 1) : d(N + 1)[j].key = k  BY <1>4, <1>2
  <2> QED  BY <2>1, <1>1
<1> QED  BY <1>3, <1>4 DEF CoverInv

\* All blocks are full while another one follows.
LEMMA CloseBlockFills ==
    ASSUME TypeOK, LayoutInv, NEW data \in Seq(KeyRecord), data # << >>,
           NEW size \in Nat, NEW last_key \in Key,
           CloseBlock(data, size, last_key), block_size' = block_size,
           BlocksSlightlyLarger,
           \A i \in Indexed : index_entries[i].size - CrcSize > block_size,
           size - RecordSize(data[Len(data)]) <= block_size
    PROVE  /\ BlocksSlightlyLarger'
           /\ size > block_size =>
                 \A i \in Indexed' : index_entries'[i].size - CrcSize > block_size'
<1> DEFINE N == Len(index_entries)
           d(i) == blocks'[index_entries'[i].offset].data
<1>1. /\ Indexed' = Indexed \cup {N + 1}
      /\ Indexed = 1 .. N
      /\ N \in Nat
      /\ Len(index_entries') = N + 1
      /\ \A i \in Indexed : index_entries'[i] = index_entries[i]
      /\ index_entries'[N + 1].offset = segment_counter
      /\ index_entries'[N + 1].size = size + CrcSize
      /\ blocks'[segment_counter].data = data
      /\ \A i \in Indexed :
            blocks'[index_entries[i].offset] = blocks[index_entries[i].offset]
  <2>1. N \in Nat  BY DEF TypeOK
  <2> QED  BY <2>1, CloseBlockFrame, Zenon
<1>2. /\ \A i \in Indexed : d(i) = Data(index_entries[i])
      /\ d(N + 1) = data
  BY <1>1 DEF Data
<1>3. index_entries'[N + 1].size - CrcSize = size  BY <1>1 DEF CrcSize
<1> HIDE DEF d, N
<1>4. \A i \in Indexed' :
        /\ index_entries'[i].size - CrcSize - RecordSize(d(i)[Len(d(i))])
              <= block_size'
        /\ i < N + 1 => index_entries'[i].size - CrcSize > block_size'
        /\ size > block_size => index_entries'[i].size - CrcSize > block_size'
  <2> TAKE i \in Indexed'
  <2>1. CASE i \in Indexed  BY <2>1, <1>1, <1>2 DEF BlocksSlightlyLarger, Indexed
  <2>2. CASE i = N + 1
    <3>1. /\ index_entries'[i].size - CrcSize = size
          /\ d(i) = data
          /\ ~ (i < N + 1)
      BY <2>2, <1>1, <1>2, <1>3
    <3> QED  BY <3>1
  <2> QED  BY <2>1, <2>2, <1>1
<1> QED  BY <1>1, <1>4 DEF BlocksSlightlyLarger, Indexed, Data, d, RecordSize,
                            ValueSize, CrcSize

-----------------------------------------------------------------------------
(* The invariant.                                                          *)

LEMMA InitHolds == Init => IInv
<1> SUFFICES ASSUME Init PROVE IInv  OBVIOUS
<1>1. TypeOK  BY EmptyTableIsTable, FileAssumption DEF Init, TypeOK
<1>2. /\ Indexed = {} /\ DOMAIN block_buffer = {} /\ DOMAIN blocks = {}
      /\ DOMAIN index_entries = {}
  BY DEF Init, Indexed
<1>3. LayoutInv /\ PieceInv /\ BoundaryInv /\ BufferInv /\ ReaderInv /\ FillInv
  BY <1>2 DEF Init, LayoutInv, PieceInv, Piece, Ascending, FromRecords,
              BoundaryInv, BufferInv, ReaderInv, FillInv, BlocksSlightlyLarger
<1>4. CoverInv  BY DEF Init, CoverInv, EmptyTable
<1> QED  BY <1>1, <1>3, <1>4 DEF IInv

LEMMA FlushMapHolds ==
    ASSUME IInv, NEW t \in Table, FlushMap(t)
    PROVE  IInv'
<1>1. TypeOK'
  <2>1. {k \in Key : t[k] # Absent} \subseteq Key  OBVIOUS
  <2> QED  BY <2>1 DEF FlushMap, TypeOK
<1>2. /\ Indexed' = {} /\ DOMAIN block_buffer' = {} /\ DOMAIN blocks' = {}
      /\ DOMAIN index_entries' = {}
  BY DEF FlushMap, Indexed
<1>3. LayoutInv' /\ PieceInv' /\ BoundaryInv' /\ ReaderInv'
  BY <1>2 DEF FlushMap, LayoutInv, PieceInv, Piece, Ascending, FromRecords,
              BoundaryInv, ReaderInv
<1>4. CoverInv'  BY DEF FlushMap, CoverInv
<1>5. BufferInv' /\ FillInv'
  <2>1. block_size' \in Nat  BY FileAssumption DEF FlushMap
  <2> QED  BY <1>2, <2>1 DEF FlushMap, BufferInv, FillInv, BlocksSlightlyLarger
<1> QED  BY <1>1, <1>3, <1>4, <1>5 DEF IInv

\* What a step that leaves the writer, and the bytes of the blocks, alone keeps.
LEMMA Frame ==
    ASSUME TypeOK, LayoutInv, PieceInv, BoundaryInv, CoverInv, FillInv,
           UNCHANGED writerVars,
           DOMAIN blocks' = DOMAIN blocks,
           \A o \in DOMAIN blocks : /\ blocks'[o].data = blocks[o].data
                                    /\ blocks'[o].size = blocks[o].size,
           file_phase' = "writing" => file_phase = "writing"
    PROVE  LayoutInv' /\ PieceInv' /\ BoundaryInv' /\ CoverInv' /\ FillInv'
<1>1. \A i \in Indexed : index_entries[i].offset \in DOMAIN blocks
  BY DEF LayoutInv
<1>2. \A i \in Indexed :
        /\ blocks'[index_entries[i].offset].data = Data(index_entries[i])
        /\ blocks'[index_entries[i].offset].size
              = blocks[index_entries[i].offset].size
  BY <1>1 DEF Data
<1> USE DEF writerVars, Indexed
<1>3. LayoutInv'  BY <1>2 DEF LayoutInv
<1>4. PieceInv'  BY DEF PieceInv, Piece, Ascending, FromRecords
<1>5. BoundaryInv'
  <2> DEFINE d(i) == blocks'[index_entries[i].offset].data
  <2>1. \A i \in Indexed : d(i) = Data(index_entries[i])  BY <1>2
  <2> HIDE DEF d
  <2>2. \A i \in Indexed : index_entries[i].last_key = d(i)[Len(d(i))].key
    BY <2>1 DEF BoundaryInv
  <2>3. \A i, j \in Indexed :
          i < j => \A n \in DOMAIN d(j) : index_entries[i].last_key < d(j)[n].key
    BY <2>1 DEF BoundaryInv
  <2> QED  BY <2>2, <2>3 DEF BoundaryInv, Data, d
<1>6. CoverInv'
  <2>1. \A i \in Indexed, k \in Key :
          Holds(index_entries[i].offset, k)
             => \E j \in DOMAIN blocks'[index_entries[i].offset].data :
                   blocks'[index_entries[i].offset].data[j].key = k
    BY <1>2 DEF Holds, Data
  <2> QED  BY <2>1 DEF CoverInv, Holds
<1>7. FillInv'
  BY <1>2 DEF FillInv, BlocksSlightlyLarger, Data, RecordSize, ValueSize, CrcSize
<1> QED  BY <1>3, <1>4, <1>5, <1>6, <1>7

LEMMA SameBlocks ==
    blocks' = blocks => /\ DOMAIN blocks' = DOMAIN blocks
                        /\ \A o \in DOMAIN blocks :
                              /\ blocks'[o].data = blocks[o].data
                              /\ blocks'[o].size = blocks[o].size
OBVIOUS

\* One turn of the loop.
LEMMA WriteRecordHolds ==
    ASSUME IInv, WriteRecord
    PROVE  IInv'
<1> USE DEF IInv
<1>1. PICK k \in todo :
         /\ \A l \in todo : k <= l
         /\ todo' = todo \ {k}
         /\ LET r == [key |-> k, entry |-> records[k]]
                size == block_counter + RecordSize(r)
            IN  \/ /\ Full(size)
                   /\ CloseBlock(Append(block_buffer, r), size, k)
                \/ /\ ~Full(size)
                   /\ block_buffer' = Append(block_buffer, r)
                   /\ block_counter' = size
                   /\ UNCHANGED <<blocks, index_entries, segment_counter>>
  BY DEF WriteRecord
<1>2. /\ file_phase = "writing" /\ file_phase' = "writing"
      /\ UNCHANGED <<records, block_size, index_block, loaded, spoiled>>
  BY DEF WriteRecord
<1> DEFINE r == [key |-> k, entry |-> records[k]]
           size == block_counter + RecordSize(r)
           data == Append(block_buffer, r)
<1>3. k \in Key /\ k \in Nat /\ r \in KeyRecord /\ r.key = k
  <2>1. k \in Key /\ records[k] \in Entry
    BY DEF TypeOK, Table, BoundaryInv
  <2> QED  BY <2>1, FileAssumption DEF KeyRecord
<1>4. /\ RecordSize(r) \in Nat /\ RecordSize(r) > 0
      /\ size \in Nat /\ size > 0 /\ size - RecordSize(r) = block_counter
      /\ block_counter <= block_size /\ block_size \in Nat
  <2>1. RecordSize(r) \in Nat /\ RecordSize(r) > 0
    BY <1>3, RecordSizePositive
  <2> HIDE DEF r
  <2> QED  BY <2>1, <1>2, FileAssumption DEF TypeOK, BufferInv
<1>5. /\ data \in Seq(KeyRecord) /\ data # << >>
      /\ Len(data) = Len(block_buffer) + 1
      /\ DOMAIN data = DOMAIN block_buffer \cup {Len(block_buffer) + 1}
      /\ \A j \in DOMAIN block_buffer : data[j] = block_buffer[j]
      /\ data[Len(block_buffer) + 1] = r
      /\ data[Len(data)] = r
      /\ Len(block_buffer) \in Nat
      /\ DOMAIN block_buffer = 1 .. Len(block_buffer)
  <2>1. block_buffer \in Seq(KeyRecord)  BY DEF TypeOK
  <2> HIDE DEF r
  <2> QED  BY <2>1, <1>3, AppendRecord
<1>6. todo' \subseteq Key /\ \A l \in todo' : l \in todo /\ l \in Nat /\ k < l
  BY <1>1, <1>3, FileAssumption DEF TypeOK
<1>7. \A n \in DOMAIN block_buffer :
         block_buffer[n].key \in Nat /\ block_buffer[n].key < k
  <2>1. \A n \in DOMAIN block_buffer : block_buffer[n] \in KeyRecord
    BY DEF TypeOK
  <2> QED  BY <2>1, FileAssumption DEF KeyRecord, BoundaryInv
<1>8. r.entry = records[k] /\ records[k] # Absent
  BY DEF BoundaryInv
<1> HIDE DEF r, data, size
<1>9. Piece(data)
  <2>1. Ascending(data)
    <3> SUFFICES ASSUME NEW i \in DOMAIN data, NEW j \in DOMAIN data, i < j
                 PROVE  data[i].key < data[j].key
      BY DEF Ascending
    <3>1. i \in DOMAIN block_buffer  BY <1>5
    <3>2. CASE j \in DOMAIN block_buffer
      BY <3>1, <3>2, <1>5 DEF PieceInv, Piece, Ascending
    <3>3. CASE j = Len(block_buffer) + 1
      BY <3>1, <3>3, <1>3, <1>5, <1>7
    <3> QED  BY <3>2, <3>3, <1>5
  <2>2. FromRecords(data)
    BY <1>3, <1>5, <1>8 DEF FromRecords, PieceInv, Piece
  <2> QED  BY <2>1, <2>2 DEF Piece
<1>10. \A i \in Indexed : \A n \in DOMAIN data :
          index_entries[i].last_key < data[n].key
  BY <1>3, <1>5 DEF BoundaryInv
<1>11. \A l \in todo' : l \in todo /\ \A n \in DOMAIN data : data[n].key < l
  <2> TAKE l \in todo'
  <2> SUFFICES ASSUME NEW n \in DOMAIN data PROVE data[n].key < l
    BY <1>6
  <2>1. CASE n \in DOMAIN block_buffer
    BY <2>1, <1>5, <1>6 DEF BoundaryInv
  <2>2. CASE n = Len(block_buffer) + 1  BY <2>2, <1>3, <1>5, <1>6
  <2> QED  BY <2>1, <2>2, <1>5
<1>12. \A l \in Key :
          l \in todo \/ (\E n \in DOMAIN block_buffer : block_buffer[n].key = l)
             => l \in todo' \/ \E n \in DOMAIN data : data[n].key = l
  BY <1>1, <1>3, <1>5
<1>13. /\ BlocksSlightlyLarger
       /\ \A i \in Indexed : index_entries[i].size - CrcSize > block_size
  BY <1>2 DEF FillInv
<1>14. records' \in Table /\ block_size' \in BlockSizes
       /\ index_block' \in Seq(IndexEntry) /\ loaded' \in Seq(IndexEntry)
       /\ spoiled' \in {"nothing", "block", "index"}
       /\ spoiled = "nothing" /\ spoiled' = "nothing"
  BY <1>2 DEF TypeOK, ReaderInv
<1>15. CASE Full(size) /\ CloseBlock(data, size, k)
  <2>1. CloseBlock(data, size, data[Len(data)].key) /\ size > block_size
    BY <1>15, <1>3, <1>5 DEF Full
  <2>2. TypeOK'
    BY <1>15, <1>2, <1>3, <1>4, <1>5, <1>6, <1>14, CloseBlockTyped DEF TypeOK
  <2>3. LayoutInv' /\ PieceInv' /\ BoundaryInv'
    BY <2>1, <1>2, <1>4, <1>5, <1>9, <1>10, <1>11, CloseBlockAgrees
  <2>4. CoverInv'
    BY <1>15, <1>2, <1>3, <1>4, <1>5, <1>12, CloseBlockCovers
  <2>5. BufferInv'
    BY <1>15, <1>2, <1>4 DEF CloseBlock, BufferInv
  <2>6. FillInv'
    <3>1. /\ BlocksSlightlyLarger'
          /\ \A i \in Indexed' : index_entries'[i].size - CrcSize > block_size'
      BY <2>1, <1>15, <1>2, <1>3, <1>4, <1>5, <1>13, CloseBlockFills
    <3> QED  BY <3>1 DEF FillInv, Indexed, CrcSize
  <2>7. ReaderInv'
    <3>1. \A o \in DOMAIN blocks' : blocks'[o].good
      <4>1. \A o \in DOMAIN blocks : blocks[o].good  BY <1>14 DEF ReaderInv
      <4>2. /\ DOMAIN blocks' = DOMAIN blocks \cup {segment_counter}
            /\ \A o \in DOMAIN blocks : blocks'[o] = blocks[o]
            /\ blocks'[segment_counter].good = TRUE
        BY <1>15, <1>3, <1>4, <1>5, CloseBlockFrame, Zenon
      <4> QED  BY <4>1, <4>2
    <3> QED  BY <3>1, <1>2, <1>14 DEF ReaderInv
  <2> QED  BY <2>2, <2>3, <2>4, <2>5, <2>6, <2>7
<1>16. CASE /\ ~Full(size)
            /\ block_buffer' = data
            /\ block_counter' = size
            /\ UNCHANGED <<blocks, index_entries, segment_counter>>
  <2>1. TypeOK'
    BY <1>16, <1>2, <1>4, <1>5, <1>6, <1>14 DEF TypeOK
  <2>2. LayoutInv'  BY <1>16 DEF LayoutInv, Indexed
  <2>3. PieceInv'
    BY <1>16, <1>2, <1>9 DEF PieceInv, Piece, Ascending, FromRecords
  <2>4. BoundaryInv'
    <3>1. \A i \in Indexed : \A l \in todo' : index_entries[i].last_key < l
      BY <1>6 DEF BoundaryInv
    <3>2. \A l \in todo' : records[l] # Absent
      BY <1>6 DEF BoundaryInv
    <3> QED  BY <1>16, <1>2, <1>10, <1>11, <3>1, <3>2 DEF BoundaryInv, Indexed, Data
  <2>5. CoverInv'
    BY <1>16, <1>2, <1>12 DEF CoverInv, Holds, Indexed
  <2>6. BufferInv'
    BY <1>16, <1>2, <1>4, <1>5 DEF BufferInv, Full
  <2>7. FillInv'
    BY <1>16, <1>2, <1>13
       DEF FillInv, BlocksSlightlyLarger, Indexed, Data, RecordSize, ValueSize, CrcSize
  <2>8. ReaderInv'
    BY <1>16, <1>2, <1>14 DEF ReaderInv
  <2> QED  BY <2>1, <2>2, <2>3, <2>4, <2>5, <2>6, <2>7, <2>8
<1> QED  BY <1>1, <1>15, <1>16 DEF r, data, size

LEMMA WriteLastBlockHolds ==
    ASSUME IInv, WriteLastBlock
    PROVE  IInv'
<1> USE DEF IInv
<1> DEFINE data == block_buffer
           size == block_counter
           k == data[Len(data)].key
<1>1. /\ file_phase = "writing" /\ file_phase' = "writing"
      /\ todo = {} /\ todo' = {}
      /\ size > 0 /\ size \in Nat
      /\ CloseBlock(data, size, k)
      /\ UNCHANGED <<records, block_size, index_block, loaded, spoiled>>
  BY DEF WriteLastBlock, TypeOK
<1>2. /\ data \in Seq(KeyRecord) /\ data # << >> /\ Piece(data)
      /\ Len(data) \in DOMAIN data
  BY <1>1 DEF TypeOK, BufferInv, PieceInv
<1>3. data[Len(data)] \in KeyRecord /\ k \in Key
  <2>1. data[Len(data)] \in KeyRecord  BY <1>2
  <2> QED  BY <2>1 DEF KeyRecord
<1>4. size - RecordSize(data[Len(data)]) <= block_size
  <2>1. /\ RecordSize(data[Len(data)]) \in Nat
        /\ size <= block_size /\ block_size \in Nat
    BY <1>1, <1>3, RecordSizePositive, FileAssumption DEF TypeOK, BufferInv
  <2> QED  BY <2>1, <1>1
<1>5. \A i \in Indexed : \A n \in DOMAIN data :
         index_entries[i].last_key < data[n].key
  BY DEF BoundaryInv
<1>6. /\ BlocksSlightlyLarger
      /\ \A i \in Indexed : index_entries[i].size - CrcSize > block_size
  BY <1>1 DEF FillInv
<1>7. /\ records' \in Table /\ block_size' \in BlockSizes
      /\ index_block' \in Seq(IndexEntry) /\ loaded' \in Seq(IndexEntry)
      /\ spoiled' \in {"nothing", "block", "index"}
      /\ spoiled = "nothing" /\ spoiled' = "nothing"
  BY <1>1 DEF TypeOK, ReaderInv
<1> HIDE DEF data, size, k
<1>8. TypeOK'
  BY <1>1, <1>2, <1>3, <1>7, CloseBlockTyped DEF TypeOK
<1>9. LayoutInv' /\ PieceInv' /\ BoundaryInv'
  BY <1>1, <1>2, <1>5, CloseBlockAgrees DEF k
<1>10. CoverInv'
  <2>1. \A l \in Key :
          l \in todo \/ (\E n \in DOMAIN block_buffer : block_buffer[n].key = l)
             => l \in todo' \/ \E n \in DOMAIN data : data[n].key = l
    BY <1>1 DEF data
  <2> QED  BY <2>1, <1>1, <1>2, <1>3, CloseBlockCovers
<1>11. BufferInv'
  <2>1. block_size' \in Nat  BY <1>7, FileAssumption
  <2> QED  BY <2>1, <1>1 DEF CloseBlock, BufferInv
<1>12. FillInv'
  <2>1. BlocksSlightlyLarger'
    BY <1>1, <1>2, <1>3, <1>4, <1>6, CloseBlockFills
  <2>2. block_counter' = 0  BY <1>1 DEF CloseBlock
  <2> QED  BY <2>1, <2>2, <1>1 DEF FillInv
<1>13. ReaderInv'
  <2>1. \A o \in DOMAIN blocks : blocks[o].good  BY <1>7 DEF ReaderInv
  <2>2. /\ DOMAIN blocks' = DOMAIN blocks \cup {segment_counter}
        /\ \A o \in DOMAIN blocks : blocks'[o] = blocks[o]
        /\ blocks'[segment_counter].good = TRUE
    BY <1>1, <1>2, <1>3, CloseBlockFrame, Zenon
  <2> QED  BY <2>1, <2>2, <1>1, <1>7 DEF ReaderInv
<1> QED  BY <1>8, <1>9, <1>10, <1>11, <1>12, <1>13

\* Finishing the file, and what the reader does, leave the blocks as they are.
LEMMA KeepBlocksHolds ==
    ASSUME IInv, WriteIndex \/ OpenReader \/ CloseReader
    PROVE  IInv'
<1> USE DEF IInv
<1>1. UNCHANGED writerVars /\ blocks' = blocks /\ spoiled' = spoiled
  BY DEF WriteIndex, OpenReader, CloseReader
<1>2. file_phase' \in {"closed", "open"}
  BY DEF WriteIndex, OpenReader, CloseReader
<1>3. LayoutInv' /\ PieceInv' /\ BoundaryInv' /\ CoverInv' /\ FillInv'
  BY <1>1, <1>2, SameBlocks, Frame, Zenon
<1>4. TypeOK'
  <2>1. index_block' \in Seq(IndexEntry)
    BY DEF WriteIndex, OpenReader, CloseReader, TypeOK
  <2>2. loaded' \in Seq(IndexEntry)
    <3>1. CASE CloseReader  BY <3>1 DEF CloseReader
    <3>2. CASE WriteIndex \/ OpenReader
      BY <3>2 DEF WriteIndex, OpenReader, TypeOK
    <3> QED  BY <3>1, <3>2
  <2> QED  BY <2>1, <2>2, <1>1, <1>2 DEF TypeOK, writerVars
<1>5. BufferInv'
  <2>1. todo = {} /\ block_buffer = << >>
    BY DEF BufferInv, WriteIndex, OpenReader, CloseReader
  <2> QED  BY <2>1, <1>1, <1>2 DEF BufferInv, writerVars
<1>6. ReaderInv'
  BY <1>1 DEF WriteIndex, OpenReader, CloseReader, ReaderInv, writerVars
<1> QED  BY <1>3, <1>4, <1>5, <1>6

LEMMA SpoilBlockHolds ==
    ASSUME IInv, SpoilBlock
    PROVE  IInv'
<1> USE DEF IInv
<1>1. PICK o \in DOMAIN blocks : blocks' = [blocks EXCEPT ![o].good = FALSE]
  BY DEF SpoilBlock
<1>2. /\ UNCHANGED <<writerVars, index_block, loaded, file_phase>>
      /\ file_phase \in {"closed", "open"}
      /\ spoiled' = IF spoiled = "index" THEN spoiled ELSE "block"
  BY DEF SpoilBlock
<1>3. \A p \in DOMAIN blocks : blocks[p] \in Block  BY DEF TypeOK
<1>4. /\ DOMAIN blocks' = DOMAIN blocks
      /\ \A p \in DOMAIN blocks : /\ blocks'[p].data = blocks[p].data
                                  /\ blocks'[p].size = blocks[p].size
                                  /\ blocks'[p] \in Block
  BY <1>1, <1>3 DEF Block
<1>5. LayoutInv' /\ PieceInv' /\ BoundaryInv' /\ CoverInv' /\ FillInv'
  BY <1>2, <1>4, Frame, Zenon
<1>6. TypeOK'  BY <1>2, <1>4 DEF TypeOK, writerVars
<1>7. BufferInv'  BY <1>2 DEF BufferInv, writerVars
<1>8. ReaderInv'  BY <1>2 DEF ReaderInv, writerVars
<1> QED  BY <1>5, <1>6, <1>7, <1>8

LEMMA SpoilIndexHolds ==
    ASSUME IInv, NEW entry \in IndexEntry, SpoilIndex(entry)
    PROVE  IInv'
<1> USE DEF IInv
<1>1. /\ UNCHANGED <<writerVars, blocks, loaded, file_phase>>
      /\ file_phase = "closed" /\ spoiled' = "index"
  BY DEF SpoilIndex
<1>2. index_block' \in Seq(IndexEntry)
  <2>1. PICK i \in DOMAIN index_block :
           index_block' = [index_block EXCEPT ![i] = entry]
    BY DEF SpoilIndex
  <2>2. index_block \in Seq(IndexEntry)  BY DEF TypeOK
  <2> QED  BY <2>1, <2>2
<1>3. LayoutInv' /\ PieceInv' /\ BoundaryInv' /\ CoverInv' /\ FillInv'
  BY <1>1, SameBlocks, Frame, Zenon
<1>4. TypeOK'  BY <1>1, <1>2 DEF TypeOK, writerVars
<1>5. BufferInv'  BY <1>1 DEF BufferInv, writerVars
<1>6. ReaderInv'  BY <1>1 DEF ReaderInv, writerVars
<1> QED  BY <1>3, <1>4, <1>5, <1>6

LEMMA StutterHolds ==
    ASSUME IInv, UNCHANGED fileVars
    PROVE  IInv'
<1> USE DEF IInv, fileVars
<1>1. LayoutInv' /\ PieceInv' /\ BoundaryInv' /\ CoverInv' /\ FillInv'
  BY SameBlocks, Frame, Zenon
<1>2. TypeOK' /\ BufferInv' /\ ReaderInv'
  BY DEF TypeOK, BufferInv, ReaderInv, writerVars
<1> QED  BY <1>1, <1>2

\* Every step of the writer, of the reader and of the disk keeps the invariant.
LEMMA NextHolds == IInv /\ [Next]_fileVars => IInv'
<1> SUFFICES ASSUME IInv, [Next]_fileVars PROVE IInv'  OBVIOUS
<1>1. CASE \E t \in Table : FlushMap(t)  BY <1>1, FlushMapHolds
<1>2. CASE WriteRecord  BY <1>2, WriteRecordHolds
<1>3. CASE WriteLastBlock  BY <1>3, WriteLastBlockHolds
<1>4. CASE WriteIndex \/ OpenReader \/ CloseReader  BY <1>4, KeepBlocksHolds
<1>5. CASE SpoilBlock  BY <1>5, SpoilBlockHolds
<1>6. CASE \E entry \in IndexEntry : SpoilIndex(entry)  BY <1>6, SpoilIndexHolds
<1>7. CASE UNCHANGED fileVars  BY <1>7, StutterHolds
<1> QED  BY <1>1, <1>2, <1>3, <1>4, <1>5, <1>6, <1>7 DEF Next

\* The map, the buffer, the blocks and the index of an SSTable file agree at
\* every step of flush_map, and stay as they were written.
THEOREM FileInvariantHolds == Spec => []IInv
<1>1. Init => IInv  BY InitHolds
<1>2. IInv /\ [Next]_fileVars => IInv'  BY NextHolds
<1> QED  BY <1>1, <1>2, PTL DEF Spec

-----------------------------------------------------------------------------
(* What the invariant says of reading.                                     *)

LEMMA DataTyped ==
    ASSUME TypeOK, NEW o \in DOMAIN blocks
    PROVE  /\ blocks[o].data \in Seq(KeyRecord)
           /\ \A n \in DOMAIN blocks[o].data :
                 /\ blocks[o].data[n].key \in Key
                 /\ blocks[o].data[n].key \in Nat
<1>1. blocks[o].data \in Seq(KeyRecord)  BY DEF TypeOK, Block
<1>2. \A n \in DOMAIN blocks[o].data : blocks[o].data[n] \in KeyRecord  BY <1>1
<1> QED  BY <1>1, <1>2, FileAssumption DEF KeyRecord

\* The scan of a piece of the map finds the key's record, if the piece has one.
LEMMA ScanFinds ==
    ASSUME NEW data \in Seq(KeyRecord), Piece(data), NEW k \in Key
    PROVE  ScanRecords(data, k) =
              IF \E j \in DOMAIN data : data[j].key = k THEN records[k] ELSE Absent
<1> DEFINE stops == {j \in DOMAIN data : data[j].key >= k}
<1>0. k \in Nat /\ \A j \in DOMAIN data : data[j].key \in Nat
  <2>1. \A j \in DOMAIN data : data[j] \in KeyRecord  OBVIOUS
  <2> QED  BY <2>1, FileAssumption DEF KeyRecord
<1>1. stops # {} => First(stops) \in stops /\ \A i \in stops : First(stops) <= i
  <2> SUFFICES ASSUME stops # {}
               PROVE  First(stops) \in stops /\ \A i \in stops : First(stops) <= i
    OBVIOUS
  <2>1. stops \in SUBSET Nat  OBVIOUS
  <2> HIDE DEF stops
  <2>2. \E j \in stops : \A i \in stops : j <= i  BY <2>1, LeastExists
  <2> QED  BY <2>2 DEF First
<1>2. ScanRecords(data, k) =
         IF stops # {} /\ data[First(stops)].key = k
         THEN data[First(stops)].entry ELSE Absent
  BY DEF ScanRecords
<1>3. CASE \E j \in DOMAIN data : data[j].key = k
  <2>1. PICK j \in DOMAIN data : data[j].key = k  BY <1>3
  <2>2. j \in stops  BY <2>1, <1>0
  <2>3. First(stops) \in DOMAIN data /\ data[First(stops)].key >= k
        /\ First(stops) <= j
    BY <2>2, <1>1
  <2>4. ~ (First(stops) < j)
    BY <2>1, <2>3, <1>0 DEF Piece, Ascending
  <2>5. First(stops) = j
    <3>1. First(stops) \in Nat /\ j \in Nat  BY <2>3
    <3> HIDE DEF stops
    <3> QED  BY <3>1, <2>3, <2>4
  <2>6. data[j].entry = records[k]  BY <2>1 DEF Piece, FromRecords
  <2> HIDE DEF stops
  <2> QED  BY <1>2, <2>1, <2>2, <2>5, <2>6
<1>4. CASE ~ \E j \in DOMAIN data : data[j].key = k
  <2>1. ~ (stops # {} /\ data[First(stops)].key = k)
    BY <1>1, <1>4
  <2> QED  BY <2>1, <1>2, <1>4
<1> QED  BY <1>3, <1>4

LEMMA IndexTyped ==
    ASSUME TypeOK, LayoutInv, PieceInv, BoundaryInv
    PROVE  \A i \in Indexed :
              /\ index_entries[i].last_key \in Nat
              /\ index_entries[i].offset \in DOMAIN blocks
              /\ Data(index_entries[i]) \in Seq(KeyRecord)
              /\ Data(index_entries[i]) # << >>
              /\ Piece(Data(index_entries[i]))
              /\ Len(Data(index_entries[i])) \in DOMAIN Data(index_entries[i])
              /\ \A n \in DOMAIN Data(index_entries[i]) :
                    /\ Data(index_entries[i])[n].key \in Nat
                    /\ Data(index_entries[i])[n].key <= index_entries[i].last_key
<1> TAKE i \in Indexed
<1>1. index_entries[i] \in IndexEntry  BY DEF TypeOK, Indexed
<1>2. index_entries[i].last_key \in Nat  BY <1>1, FileAssumption DEF IndexEntry
<1>3. index_entries[i].offset \in DOMAIN blocks  BY DEF LayoutInv
<1> DEFINE data == Data(index_entries[i])
<1>4. /\ data \in Seq(KeyRecord) /\ data # << >> /\ Piece(data)
      /\ \A n \in DOMAIN data : data[n].key \in Nat
  BY <1>3, DataTyped DEF Data, PieceInv
<1>5. index_entries[i].last_key = data[Len(data)].key  BY DEF BoundaryInv
<1> HIDE DEF data
<1>6. Len(data) \in DOMAIN data /\ \A n \in DOMAIN data : n <= Len(data)
  BY <1>4
<1>7. \A n \in DOMAIN data : data[n].key <= index_entries[i].last_key
  <2> TAKE n \in DOMAIN data
  <2>1. CASE n = Len(data)  BY <2>1, <1>4, <1>5
  <2>2. CASE n < Len(data)
    BY <2>2, <1>4, <1>5, <1>6 DEF Piece, Ascending
  <2>3. n \in Nat /\ Len(data) \in Nat  BY <1>4
  <2> QED  BY <2>1, <2>2, <2>3, <1>6
<1> QED  BY <1>2, <1>3, <1>4, <1>6, <1>7 DEF data

LEMMA IndexAscending ==
    ASSUME TypeOK, LayoutInv, PieceInv, BoundaryInv,
           NEW i \in Indexed, NEW j \in Indexed, i < j
    PROVE  index_entries[i].last_key < index_entries[j].last_key
<1>1. /\ Len(Data(index_entries[j])) \in DOMAIN Data(index_entries[j])
      /\ index_entries[j].last_key =
            Data(index_entries[j])[Len(Data(index_entries[j]))].key
  BY IndexTyped DEF BoundaryInv
<1> QED  BY <1>1 DEF BoundaryInv

\* The binary search has one place to end, and only there a block may hold the
\* key.
LEMMA OneLowerBound ==
    ASSUME TypeOK, LayoutInv, PieceInv, BoundaryInv, loaded = index_entries,
           NEW k \in Key
    PROVE  \E i \in 1 .. Len(loaded) + 1 :
              /\ LowerBounds(k) = {i}
              /\ \A j \in Indexed : Holds(index_entries[j].offset, k) => j = i
<1> DEFINE N == Len(index_entries)
           P == {i \in 1 .. N + 1 : i <= N => k <= index_entries[i].last_key}
<1>1. /\ k \in Nat /\ N \in Nat /\ Indexed = 1 .. N
      /\ \A i \in Indexed : index_entries[i].last_key \in Nat
  BY IndexTyped, FileAssumption DEF TypeOK, Indexed
<1>2. PICK i \in P : \A j \in P : i <= j
  <2>1. P \in SUBSET Nat /\ N + 1 \in P  BY <1>1
  <2> HIDE DEF P
  <2> QED  BY <2>1, LeastExists
<1>3. i \in 1 .. N + 1 /\ (i <= N => k <= index_entries[i].last_key)
  OBVIOUS
<1>4. i > 1 => index_entries[i - 1].last_key < k
  <2> HAVE i > 1
  <2>1. i - 1 \in Indexed /\ i - 1 \notin P  BY <1>1, <1>2, <1>3
  <2> QED  BY <2>1, <1>1
<1> HIDE DEF P
<1>5. i \in LowerBounds(k)  BY <1>3, <1>4, <1>1 DEF LowerBounds
<1>6. \A j \in LowerBounds(k) : j = i
  <2> TAKE j \in LowerBounds(k)
  <2>1. /\ j \in 1 .. N + 1
        /\ j > 1 => index_entries[j - 1].last_key < k
        /\ j <= N => k <= index_entries[j].last_key
    BY DEF LowerBounds
  <2>2. ~ (j < i)
    <3> SUFFICES ASSUME j < i PROVE FALSE  OBVIOUS
    <3>1. /\ j \in Indexed /\ i - 1 \in Indexed /\ j <= i - 1
          /\ k <= index_entries[j].last_key
          /\ index_entries[i - 1].last_key < k
      BY <2>1, <1>1, <1>3, <1>4
    <3>2. index_entries[j].last_key <= index_entries[i - 1].last_key
      BY <3>1, <1>1, IndexAscending
    <3> QED  BY <3>1, <3>2, <1>1
  <2>3. ~ (i < j)
    <3> SUFFICES ASSUME i < j PROVE FALSE  OBVIOUS
    <3>1. /\ i \in Indexed /\ j - 1 \in Indexed /\ i <= j - 1
          /\ k <= index_entries[i].last_key
          /\ index_entries[j - 1].last_key < k
      BY <2>1, <1>1, <1>3
    <3>2. index_entries[i].last_key <= index_entries[j - 1].last_key
      BY <3>1, <1>1, IndexAscending
    <3> QED  BY <3>1, <3>2, <1>1
  <2> QED  BY <2>1, <2>2, <2>3, <1>1, <1>3
<1>7. \A j \in Indexed : Holds(index_entries[j].offset, k) => j = i
  <2> TAKE j \in Indexed
  <2> HAVE Holds(index_entries[j].offset, k)
  <2>1. PICK n \in DOMAIN Data(index_entries[j]) : Data(index_entries[j])[n].key = k
    BY DEF Holds, Data
  <2>2. k <= index_entries[j].last_key  BY <2>1, IndexTyped
  <2>3. ~ (j < i)
    <3> SUFFICES ASSUME j < i PROVE FALSE  OBVIOUS
    <3>1. /\ i - 1 \in Indexed /\ j <= i - 1
          /\ index_entries[i - 1].last_key < k
      BY <1>1, <1>3, <1>4
    <3>2. index_entries[j].last_key <= index_entries[i - 1].last_key
      BY <3>1, <1>1, IndexAscending
    <3> QED  BY <2>2, <3>1, <3>2, <1>1
  <2>4. ~ (i < j)
    <3> SUFFICES ASSUME i < j PROVE FALSE  OBVIOUS
    <3>1. i \in Indexed /\ k <= index_entries[i].last_key  BY <1>1, <1>3
    <3>2. index_entries[i].last_key < k  BY <3>1, <2>1 DEF BoundaryInv
    <3> QED  BY <3>1, <3>2, <1>1
  <2> QED  BY <2>3, <2>4, <1>1, <1>3
<1> QED  BY <1>3, <1>5, <1>6, <1>7

LEMMA LookupsMatch == IInv => LookupMatches
<1> SUFFICES ASSUME IInv, file_phase = "open", spoiled # "index",
                    NEW k \in Key
             PROVE  /\ Get(k) = {records[k]}
                       \/ (spoiled = "block" /\ Get(k) = {Thrown})
                    /\ (\E o \in DOMAIN blocks : blocks[o].good /\ Holds(o, k))
                          => Get(k) = {records[k]}
  BY DEF LookupMatches
<1> USE DEF IInv
<1>1. /\ loaded = index_entries
      /\ todo = {} /\ block_buffer = << >>
      /\ spoiled = "nothing" => \A o \in DOMAIN blocks : blocks[o].good
      /\ spoiled \in {"nothing", "block"}
  BY DEF ReaderInv, BufferInv, TypeOK
<1>2. PICK i \in 1 .. Len(loaded) + 1 :
         /\ LowerBounds(k) = {i}
         /\ \A j \in Indexed : Holds(index_entries[j].offset, k) => j = i
  BY <1>1, OneLowerBound
<1>3. Get(k) = {IF i > Len(loaded) THEN Absent ELSE ScanBlock(loaded[i], k)}
  BY <1>2 DEF Get
<1>4. /\ Len(loaded) \in Nat /\ Indexed = 1 .. Len(loaded)
      /\ i \in Nat /\ i <= Len(loaded) + 1
  BY <1>1 DEF TypeOK, Indexed
<1>5. records[k] # Absent => /\ i \in Indexed
                             /\ Holds(index_entries[i].offset, k)
  BY <1>1, <1>2 DEF CoverInv
<1>6. CASE i > Len(loaded)
  <2>1. records[k] = Absent  BY <1>4, <1>5, <1>6
  <2>2. Get(k) = {Absent}  BY <1>3, <1>6
  <2> QED  BY <2>1, <2>2
<1>7. CASE i <= Len(loaded)
  <2> DEFINE o == index_entries[i].offset
  <2>1. i \in Indexed  BY <1>4, <1>7
  <2>2. Get(k) = {ScanBlock(index_entries[i], k)}
    BY <1>1, <1>3, <1>4, <1>7
  <2>3. o \in DOMAIN blocks /\ blocks[o].size = index_entries[i].size
    BY <2>1 DEF LayoutInv
  <2>4. ScanRecords(Data(index_entries[i]), k) = records[k]
    <3> DEFINE data == Data(index_entries[i])
    <3>1. data \in Seq(KeyRecord) /\ Piece(data)  BY <2>1, IndexTyped
    <3>2. (\E j \in DOMAIN data : data[j].key = k) <=> Holds(o, k)
      BY DEF Holds, Data
    <3> HIDE DEF data, o
    <3>3. ScanRecords(data, k) =
             IF \E j \in DOMAIN data : data[j].key = k THEN records[k] ELSE Absent
      BY <3>1, ScanFinds
    <3>4. Holds(o, k) \/ records[k] = Absent  BY <1>5 DEF o
    <3> QED  BY <3>2, <3>3, <3>4 DEF data
  <2>5. Get(k) = {IF blocks[o].good THEN records[k] ELSE Thrown}
    BY <2>2, <2>3, <2>4, Zenon DEF ScanBlock, Intact
  <2>6. \A p \in DOMAIN blocks : Holds(p, k) => p = o
    BY <1>2 DEF LayoutInv
  <2> HIDE DEF o
  <2> QED  BY <2>3, <2>5, <2>6, <1>1
<1> QED  BY <1>4, <1>6, <1>7

\* A spoiled index may end the search in another block, but what is found in a
\* block is a record of the map.
LEMMA NothingIsMadeUp == IInv => NothingMadeUp
<1> SUFFICES ASSUME IInv, NEW k \in Key, NEW g \in Get(k)
             PROVE  g \in {records[k], Absent, Thrown}
  BY DEF NothingMadeUp
<1>1. PICK i \in LowerBounds(k) :
         g = IF i > Len(loaded) THEN Absent ELSE ScanBlock(loaded[i], k)
  BY DEF Get
<1>2. CASE i > Len(loaded)  BY <1>1, <1>2
<1>3. CASE ~ (i > Len(loaded)) /\ ~ Intact(loaded[i])
  BY <1>1, <1>3 DEF ScanBlock
<1>4. CASE ~ (i > Len(loaded)) /\ Intact(loaded[i])
  <2>1. loaded[i].offset \in DOMAIN blocks  BY <1>4 DEF Intact
  <2>2. Data(loaded[i]) \in Seq(KeyRecord) /\ Piece(Data(loaded[i]))
    BY <2>1, DataTyped DEF IInv, PieceInv, Data
  <2>3. g = ScanRecords(Data(loaded[i]), k)
    BY <1>1, <1>4 DEF ScanBlock
  <2>4. ScanRecords(Data(loaded[i]), k) \in {records[k], Absent}
    BY <2>2, ScanFinds
  <2> QED  BY <2>3, <2>4
<1> QED  BY <1>2, <1>3, <1>4

LEMMA ReadsAll == IInv => ReadsAllInOrder
<1> SUFFICES ASSUME IInv, file_phase = "open", spoiled # "index"
             PROVE  /\ \A p, q \in Places :
                          Before(p, q) => RecordAt(p).key < RecordAt(q).key
                    /\ TableRead = records
  BY DEF ReadsAllInOrder
<1> USE DEF IInv
<1>1. loaded = index_entries /\ todo = {} /\ block_buffer = << >>
  BY DEF ReaderInv, BufferInv
<1>2. \A p : p \in Places <=>
         \E i \in Indexed : \E n \in DOMAIN Data(index_entries[i]) : p = <<i, n>>
  BY <1>1 DEF Places, Indexed
<1>3. \A p \in Places :
         /\ p[1] \in Indexed /\ p[2] \in DOMAIN Data(index_entries[p[1]])
         /\ RecordAt(p) = Data(index_entries[p[1]])[p[2]]
  BY <1>1, <1>2 DEF RecordAt
<1>4. \A p, q \in Places : Before(p, q) => RecordAt(p).key < RecordAt(q).key
  <2> TAKE p, q \in Places
  <2> HAVE Before(p, q)
  <2>1. CASE p[1] = q[1] /\ p[2] < q[2]
    <3>1. Piece(Data(index_entries[p[1]]))  BY <1>3, IndexTyped
    <3> QED  BY <2>1, <3>1, <1>3 DEF Piece, Ascending
  <2>2. CASE p[1] < q[1]
    <3>1. /\ RecordAt(p).key \in Nat
          /\ RecordAt(p).key <= index_entries[p[1]].last_key
          /\ index_entries[p[1]].last_key \in Nat
          /\ RecordAt(q).key \in Nat
      BY <1>3, IndexTyped
    <3>2. index_entries[p[1]].last_key < RecordAt(q).key
      BY <2>2, <1>3 DEF BoundaryInv
    <3> QED  BY <3>1, <3>2
  <2> QED  BY <2>1, <2>2 DEF Before
<1>5. \A p \in Places : /\ RecordAt(p).entry = records[RecordAt(p).key]
                        /\ records[RecordAt(p).key] # Absent
  BY <1>3, IndexTyped DEF Piece, FromRecords
<1>6. \A k \in Key : records[k] # Absent => \E p \in Places : RecordAt(p).key = k
  <2> TAKE k \in Key
  <2> HAVE records[k] # Absent
  <2>1. PICK i \in Indexed : Holds(index_entries[i].offset, k)
    BY <1>1 DEF CoverInv
  <2>2. PICK n \in DOMAIN Data(index_entries[i]) : Data(index_entries[i])[n].key = k
    BY <2>1 DEF Holds, Data
  <2>3. <<i, n>> \in Places  BY <2>1, <2>2, <1>2
  <2>4. RecordAt(<<i, n>>).key = k  BY <2>2, <2>3, <1>3
  <2> QED  BY <2>3, <2>4
<1>7. \A k \in Key : TableRead[k] = records[k]
  <2> TAKE k \in Key
  <2>1. CASE \E p \in Places : RecordAt(p).key = k
    <3> DEFINE p == CHOOSE p \in Places : RecordAt(p).key = k
    <3>1. p \in Places /\ RecordAt(p).key = k  BY <2>1
    <3>2. TableRead[k] = RecordAt(p).entry  BY <2>1 DEF TableRead
    <3> QED  BY <3>1, <3>2, <1>5
  <2>2. CASE ~ \E p \in Places : RecordAt(p).key = k
    <3>1. TableRead[k] = Absent  BY <2>2 DEF TableRead
    <3> QED  BY <3>1, <2>2, <1>6
  <2> QED  BY <2>1, <2>2
<1>8. TableRead = records
  <2>1. records = [k \in Key |-> records[k]]  BY DEF TypeOK, Table
  <2>2. TableRead = [k \in Key |-> TableRead[k]]  BY DEF TableRead
  <2> QED  BY <2>1, <2>2, <1>7
<1> QED  BY <1>4, <1>8

\* Every lookup in a file answers what the map said that it was written from,
\* wherever the boundaries of its blocks fall, and a spoiled block is reported.
THEOREM LookupMatchesHolds == Spec => []LookupMatches
BY FileInvariantHolds, LookupsMatch, PTL

\* Not even a spoiled index makes a lookup answer with another key's record.
THEOREM NothingMadeUpHolds == Spec => []NothingMadeUp
BY FileInvariantHolds, NothingIsMadeUp, PTL

\* read_all_records returns every record of the map once, in ascending order.
THEOREM ReadsAllInOrderHolds == Spec => []ReadsAllInOrder
BY FileInvariantHolds, ReadsAll, PTL

\* Blocks are closed by the record that makes them larger than block_size.
THEOREM BlocksSlightlyLargerHolds == Spec => []BlocksSlightlyLarger
<1>1. IInv => BlocksSlightlyLarger  BY DEF IInv, FillInv
<1> QED  BY <1>1, FileInvariantHolds, PTL

=============================================================================
