---------------------------- MODULE SSTableFile ----------------------------
(***************************************************************************)
(* One SSTable file, from the map it is written from to the answers read   *)
(* from it: SSTableWriter::flush_map (blocks, sparse index) and            *)
(* SSTableReader (find_block, scan_records, read_all_records).  SSTables   *)
(* takes a complete file for its map; this module is about what makes that *)
(* true.                                                                   *)
(*                                                                         *)
(* A key or a value is the number of its bytes: a string of that many      *)
(* equal characters.  Strings are then ordered like numbers.               *)
(***************************************************************************)
EXTENDS Entries, Directory, Integers, Sequences

CONSTANTS BlockSizes,  \* values of block_size: 4096 for the constructor's
                       \* writer, the client's for a compaction's
          Thrown       \* the result of a call that throws

ASSUME FileAssumption ==
    /\ Key \subseteq Nat
    /\ Value \subseteq Nat
    /\ BlockSizes \subseteq Nat
    /\ Thrown \notin Entry \cup {Absent}

VARIABLES records,         \* flush_map's parameter
          todo,            \* the keys of it the loop has not reached
          block_size,      \* SSTableWriter's members
          block_buffer,
          index_entries,
          block_counter,   \* flush_map's local variables
          segment_counter,
          blocks,          \* the file: offset -> data block,
          index_block,     \*   and the index section
          loaded,          \* the index_entries of SSTableReader
          spoiled,         \* what the disk has spoiled
          file_phase       \* "none", being written, "closed" or "open"

writerVars == <<records, todo, block_size, block_buffer, index_entries,
                block_counter, segment_counter>>
fileVars == <<writerVars, blocks, index_block, loaded, spoiled, file_phase>>

KeyRecord == [key : Key, entry : Entry]
Block == [data : Seq(KeyRecord), size : Nat, good : BOOLEAN]
IndexEntry == [last_key : Key, offset : Nat, size : Nat]

-----------------------------------------------------------------------------
(* Sizes in bytes.                                                         *)

CrcSize == 4
ValueSize(e) == IF e = Tombstone THEN 0 ELSE e

\* [key_size][key][type][value_size][value]
RecordSize(r) == 4 + r.key + 1 + 4 + ValueSize(r.entry)

-----------------------------------------------------------------------------
(* SSTableWriter.                                                          *)

Init ==
    /\ records = EmptyTable
    /\ todo = {}
    /\ block_size \in BlockSizes
    /\ block_buffer = << >>
    /\ index_entries = << >>
    /\ block_counter = 0
    /\ segment_counter = 0
    /\ blocks = [o \in {} |-> << >>]
    /\ index_block = << >>
    /\ loaded = << >>
    /\ spoiled = "nothing"
    /\ file_phase = "none"

\* flush_map starts from a blank state, on a new file.
FlushMap(t) ==
    /\ records' = t
    /\ todo' = {k \in Key : t[k] # Absent}
    /\ block_size' \in BlockSizes
    /\ block_buffer' = << >>
    /\ index_entries' = << >>
    /\ block_counter' = 0
    /\ segment_counter' = 0
    /\ blocks' = [o \in {} |-> << >>]
    /\ index_block' = << >>
    /\ loaded' = << >>
    /\ spoiled' = "nothing"
    /\ file_phase' = "writing"

\* Mistaken: the buffer is not cleared.
CloseBlockKeepingBuffer(data, size, last_key) ==
    /\ blocks' = WithFile(blocks, segment_counter,
          [data |-> data, size |-> size + CrcSize, good |-> TRUE])
    /\ index_entries' = Append(index_entries,
          [last_key |-> last_key, offset |-> segment_counter,
           size |-> size + CrcSize])
    /\ segment_counter' = segment_counter + size + CrcSize
    /\ block_counter' = 0
    /\ block_buffer' = data

\* Mistaken: the index entry is pushed after segment_counter has advanced.
CloseBlockAdvancedFirst(data, size, last_key) ==
    /\ blocks' = WithFile(blocks, segment_counter,
          [data |-> data, size |-> size + CrcSize, good |-> TRUE])
    /\ segment_counter' = segment_counter + size + CrcSize
    /\ index_entries' = Append(index_entries,
          [last_key |-> last_key, offset |-> segment_counter',
           size |-> size + CrcSize])
    /\ block_counter' = 0
    /\ block_buffer' = << >>

\* close_block: data and checksum go to the file, an entry to the index.
CloseBlock(data, size, last_key) ==
    /\ blocks' = WithFile(blocks, segment_counter,
          [data |-> data, size |-> size + CrcSize, good |-> TRUE])
    /\ index_entries' = Append(index_entries,
          [last_key |-> last_key, offset |-> segment_counter,
           size |-> size + CrcSize])
    /\ segment_counter' = segment_counter + size + CrcSize
    /\ block_counter' = 0
    /\ block_buffer' = << >>

\* Mistaken: a block is closed once it holds a record, whatever its size.
AlwaysFull(size) == TRUE

Full(size) == size > block_size

\* One turn of flush_map's loop: the lowest key left goes to the block, which
\* is closed when that has made it larger than block_size.
WriteRecord ==
    /\ file_phase = "writing"
    /\ \E k \in todo :
          /\ \A l \in todo : k <= l
          /\ todo' = todo \ {k}
          /\ LET r == [key |-> k, entry |-> records[k]]
                 size == block_counter + RecordSize(r)
             IN  \/ /\ Full(size)
                    /\ CloseBlock(Append(block_buffer, r), size, k)
                 \/ /\ ~Full(size)
                    /\ block_buffer' = Append(block_buffer, r)
                    /\ block_counter' = size
                    /\ UNCHANGED <<blocks, index_entries, segment_counter>>
    /\ UNCHANGED <<records, block_size, index_block, loaded, spoiled, file_phase>>

\* The records that did not reach the threshold.
WriteLastBlock ==
    /\ file_phase = "writing"
    /\ todo = {}
    /\ block_counter > 0
    /\ CloseBlock(block_buffer, block_counter,
                  block_buffer[Len(block_buffer)].key)
    /\ UNCHANGED <<records, todo, block_size, index_block, loaded, spoiled,
                   file_phase>>

\* write_index and write_footer.
WriteIndex ==
    /\ file_phase = "writing"
    /\ todo = {}
    /\ block_counter = 0
    /\ index_block' = index_entries
    /\ file_phase' = "closed"
    /\ UNCHANGED <<writerVars, blocks, loaded, spoiled>>

-----------------------------------------------------------------------------
(* SSTableReader.                                                          *)

\* load_index.
OpenReader ==
    /\ file_phase = "closed"
    /\ loaded' = index_block
    /\ file_phase' = "open"
    /\ UNCHANGED <<writerVars, blocks, index_block, spoiled>>

CloseReader ==
    /\ file_phase = "open"
    /\ loaded' = << >>
    /\ file_phase' = "closed"
    /\ UNCHANGED <<writerVars, blocks, index_block, spoiled>>

\* Mistaken: upper_bound, which passes the block that ends in the key.
UpperBounds(k) ==
    {i \in 1 .. Len(loaded) + 1 :
        /\ i > 1 => loaded[i - 1].last_key <= k
        /\ i <= Len(loaded) => k < loaded[i].last_key}

\* std::lower_bound over the index: a position whose entry is not below the key
\* while the one before it is.  When the index is in order there is one; when
\* it is not, the search ends at some such position.
LowerBounds(k) ==
    {i \in 1 .. Len(loaded) + 1 :
        /\ i > 1 => loaded[i - 1].last_key < k
        /\ i <= Len(loaded) => k <= loaded[i].last_key}

\* verify_and_read_block finds a block whose checksum holds: its bytes are
\* those that were written, from the first to the last.
Intact(e) ==
    /\ e.offset \in DOMAIN blocks
    /\ blocks[e.offset].size = e.size
    /\ blocks[e.offset].good

Data(e) == blocks[e.offset].data

First(S) == CHOOSE j \in S : \A i \in S : j <= i

\* Mistaken: the record the scan stops at is not compared for equality.
ScanStopped(data, k) ==
    LET stops == {j \in DOMAIN data : data[j].key >= k}
    IN  IF stops # {} THEN data[First(stops)].entry ELSE Absent

\* scan_records: the first record that is not below the key decides.
ScanRecords(data, k) ==
    LET stops == {j \in DOMAIN data : data[j].key >= k}
    IN  IF stops # {} /\ data[First(stops)].key = k
        THEN data[First(stops)].entry
        ELSE Absent

\* scan_block.
ScanBlock(e, k) == IF Intact(e) THEN ScanRecords(Data(e), k) ELSE Thrown

\* SSTableReader::get, its possible results: Absent is NOT_FOUND, Tombstone
\* DELETED, a value FOUND.
Get(k) ==
    {IF i > Len(loaded) THEN Absent ELSE ScanBlock(loaded[i], k) :
        i \in LowerBounds(k)}

\* read_all_records: the places it reads, and the record in each.
Places == UNION {{i} \X DOMAIN Data(loaded[i]) : i \in DOMAIN loaded}
Before(p, q) == p[1] < q[1] \/ (p[1] = q[1] /\ p[2] < q[2])
RecordAt(p) == Data(loaded[p[1]])[p[2]]

ReadThrows == \E i \in DOMAIN loaded : ~Intact(loaded[i])

\* The map made of all records read, which is what a compaction makes of them.
TableRead ==
    [k \in Key |->
        IF \E p \in Places : RecordAt(p).key = k
        THEN RecordAt(CHOOSE p \in Places : RecordAt(p).key = k).entry
        ELSE Absent]

-----------------------------------------------------------------------------
(* The disk.                                                               *)

\* Bytes of a block change, its checksum with them or not.
SpoilBlock ==
    /\ file_phase \in {"closed", "open"}
    /\ \E o \in DOMAIN blocks :
          /\ blocks[o].good
          /\ blocks' = [blocks EXCEPT ![o].good = FALSE]
    /\ spoiled' = IF spoiled = "index" THEN spoiled ELSE "block"
    /\ UNCHANGED <<writerVars, index_block, loaded, file_phase>>

\* Bytes of the index change: no checksum covers it.
SpoilIndex(entry) ==
    /\ file_phase = "closed"
    /\ \E i \in DOMAIN index_block :
          index_block' = [index_block EXCEPT ![i] = entry]
    /\ spoiled' = "index"
    /\ UNCHANGED <<writerVars, blocks, loaded, file_phase>>

-----------------------------------------------------------------------------
Next ==
    \/ \E t \in Table : file_phase # "writing" /\ FlushMap(t)
    \/ WriteRecord \/ WriteLastBlock \/ WriteIndex
    \/ OpenReader \/ CloseReader
    \/ SpoilBlock
    \/ \E entry \in IndexEntry : SpoilIndex(entry)

Spec == Init /\ [][Next]_fileVars

-----------------------------------------------------------------------------
(* Properties.                                                             *)

\* Every variable has its type.
TypeOK ==
    /\ records \in Table
    /\ todo \subseteq Key
    /\ block_size \in BlockSizes
    /\ block_buffer \in Seq(KeyRecord)
    /\ index_entries \in Seq(IndexEntry)
    /\ block_counter \in Nat
    /\ segment_counter \in Nat
    /\ DOMAIN blocks \subseteq Nat
    /\ \A o \in DOMAIN blocks : blocks[o] \in Block
    /\ index_block \in Seq(IndexEntry)
    /\ loaded \in Seq(IndexEntry)
    /\ spoiled \in {"nothing", "block", "index"}
    /\ file_phase \in {"none", "writing", "closed", "open"}

\* Block o holds a record of k.
Holds(o, k) == \E j \in DOMAIN blocks[o].data : blocks[o].data[j].key = k

\* A lookup answers what the map said that the file was written from, for every
\* key, stored or not, wherever the block boundaries fall; a spoiled block is
\* reported and hides no record of another block.
LookupMatches ==
    file_phase = "open" /\ spoiled # "index" =>
        \A k \in Key :
            /\ Get(k) = {records[k]} \/ (spoiled = "block" /\ Get(k) = {Thrown})
            /\ (\E o \in DOMAIN blocks : blocks[o].good /\ Holds(o, k))
                  => Get(k) = {records[k]}

\* Whatever is spoiled, the index included, a lookup never answers with a value
\* or a deletion that was not written for that key.
NothingMadeUp ==
    file_phase = "open" =>
        \A k \in Key : Get(k) \subseteq {records[k], Absent, Thrown}

\* read_all_records throws or returns every record of the map, each once, in
\* ascending order of keys ("Every record as a (key, Entry) pair, ascending by
\* key").
ReadsAllInOrder ==
    file_phase = "open" /\ spoiled # "index" /\ ~ReadThrows =>
        /\ \A p, q \in Places : Before(p, q) => RecordAt(p).key < RecordAt(q).key
        /\ TableRead = records

\* Blocks are "slightly larger than block_size": a block but for its last record
\* fits, and only the last block of a file is not full.
BlocksSlightlyLarger ==
    \A i \in DOMAIN index_entries :
        LET data == Data(index_entries[i])
            size == index_entries[i].size - CrcSize
        IN  /\ size - RecordSize(data[Len(data)]) <= block_size
            /\ i < Len(index_entries) => size > block_size

=============================================================================
