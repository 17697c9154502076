----------------------- MODULE SSTableFileInvariant -----------------------
(***************************************************************************)
(* The inductive invariant of SSTableFile: how the records taken so far,   *)
(* the blocks on the file and the index agree at each turn of flush_map's  *)
(* loop.                                                                   *)
(***************************************************************************)
EXTENDS SSTableFile

\* A piece of the map: records of it in the order of their keys.
Ascending(data) == \A i, j \in DOMAIN data : i < j => data[i].key < data[j].key
FromRecords(data) ==
    \A j \in DOMAIN data :
        data[j].entry = records[data[j].key] /\ records[data[j].key] # Absent
Piece(data) == Ascending(data) /\ FromRecords(data)

Indexed == DOMAIN index_entries

\* The blocks lie one behind the other, and the index says where.
LayoutInv ==
    /\ DOMAIN blocks = {index_entries[i].offset : i \in Indexed}
    /\ \A i \in Indexed :
          /\ blocks[index_entries[i].offset].size = index_entries[i].size
          /\ index_entries[i].size > 0
          /\ index_entries[i].offset + index_entries[i].size <= segment_counter
    /\ \A i, j \in Indexed :
          i < j => index_entries[i].offset + index_entries[i].size
                     <= index_entries[j].offset

\* Blocks and buffer are pieces of the map, and no block is empty.
PieceInv ==
    /\ Piece(block_buffer)
    /\ \A o \in DOMAIN blocks : Piece(blocks[o].data) /\ blocks[o].data # << >>

\* The keys of a block are above the last key of the block before it and end
\* with its own; those of the buffer come next, those still to be read last.
BoundaryInv ==
    /\ \A i \in Indexed :
          LET data == Data(index_entries[i])
          IN  index_entries[i].last_key = data[Len(data)].key
    /\ \A i, j \in Indexed :
          i < j => \A n \in DOMAIN Data(index_entries[j]) :
              index_entries[i].last_key < Data(index_entries[j])[n].key
    /\ \A i \in Indexed :
          /\ \A n \in DOMAIN block_buffer :
                index_entries[i].last_key < block_buffer[n].key
          /\ \A k \in todo : index_entries[i].last_key < k
    /\ \A k \in todo :
          /\ records[k] # Absent
          /\ \A n \in DOMAIN block_buffer : block_buffer[n].key < k

\* No record is left out.
CoverInv ==
    \A k \in Key : records[k] # Absent =>
        \/ k \in todo
        \/ \E n \in DOMAIN block_buffer : block_buffer[n].key = k
        \/ \E i \in Indexed : Holds(index_entries[i].offset, k)

\* The counter tells whether the buffer holds anything, and a buffer that is
\* still open is not full.
BufferInv ==
    /\ block_counter = 0 <=> block_buffer = << >>
    /\ file_phase = "writing" => block_counter <= block_size
    /\ file_phase # "writing" => todo = {} /\ block_buffer = << >>

\* What the reader loads is what the writer indexed, unless the disk spoiled it.
ReaderInv ==
    /\ file_phase \in {"closed", "open"} /\ spoiled # "index"
          => index_block = index_entries
    /\ file_phase = "open" => loaded = index_block
    /\ spoiled = "nothing" => \A o \in DOMAIN blocks : blocks[o].good
    /\ file_phase \in {"none", "writing"} => spoiled = "nothing"

\* Each block was closed by the record that filled it, but for the last one.
FillInv ==
    /\ BlocksSlightlyLarger
    /\ file_phase = "writing" /\ (todo # {} \/ block_counter > 0) =>
          \A i \in Indexed : index_entries[i].size - CrcSize > block_size

\* The map, the buffer, the blocks and the index agree at every step.
IInv ==
    /\ TypeOK
    /\ LayoutInv /\ PieceInv /\ BoundaryInv /\ CoverInv /\ BufferInv
    /\ ReaderInv /\ FillInv

=============================================================================
