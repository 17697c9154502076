---------------------------- MODULE RecordPath ----------------------------
(***************************************************************************)
(* What becomes of the bytes of a record on its whole way: into the log    *)
(* and the memtable, out of the log after a restart, from the memtable     *)
(* into the blocks of an SSTable, through a compaction of that table, and  *)
(* out of it by a lookup.  The log has room for keys and values of a fixed *)
(* size, the SSTable for any.                                              *)
(***************************************************************************)
EXTENDS SSTableFileInvariant, WALRecord

CONSTANTS ClientKey, ClientValue,  \* what clients write
          MaxWritten               \* bound: records in the log

ASSUME PathAssumption ==
    /\ ClientKey \subseteq Key /\ ClientValue \subseteq Value
    /\ MaxWritten \in Nat
    /\ \A v \in 0 .. ValueField - 1 : v \in Value /\ KeyField + v \in Key
    /\ \A b \in Overrun : ValueField + b \in Value
                          /\ KeyField + ValueField + b \in Key

VARIABLES wal,          \* the records in the log
          mem_table,
          acknowledged, \* observer: the last entry written for each key
          misled        \* observer: whether an index was ever spoiled

pathVars == <<fileVars, wal, mem_table, acknowledged, misled>>

\* restore_mem_table: the records in order; beyond[i] bytes follow the i-th.
Restored(beyond) ==
    [k \in Key |->
        LET hits == {i \in DOMAIN wal : KeyRead(wal[i], beyond[i]) = k}
        IN  IF hits = {} THEN Absent
            ELSE EntryRead(wal[Newest(hits)], beyond[Newest(hits)])]

PathInit ==
    /\ Init
    /\ wal = << >>
    /\ mem_table = EmptyTable
    /\ acknowledged = EmptyTable
    /\ misled = FALSE

\* IztaDB::put and remove: the log first, then the memtable.
Write(k, e) ==
    /\ file_phase = "none"
    /\ Len(wal) < MaxWritten
    /\ wal' = Append(wal, RecordOf(k, e))
    /\ mem_table' = Insert(mem_table, k, e)
    /\ acknowledged' = Insert(acknowledged, k, e)
    /\ UNCHANGED <<fileVars, misled>>

\* The process ends, or dies, and the next one restores the memtable.
Restart ==
    /\ file_phase = "none"
    /\ \E beyond \in [DOMAIN wal -> Overrun] : mem_table' = Restored(beyond)
    /\ UNCHANGED <<fileVars, wal, acknowledged, misled>>

\* maybe_flush swaps in a fresh memtable and writes the old one.
Flush ==
    /\ file_phase = "none"
    /\ mem_table # EmptyTable
    /\ FlushMap(mem_table)
    /\ mem_table' = EmptyTable
    /\ UNCHANGED <<wal, acknowledged, misled>>

WriteFile ==
    /\ WriteRecord \/ WriteLastBlock \/ WriteIndex
    /\ UNCHANGED <<wal, mem_table, acknowledged, misled>>

\* A reader is opened on the file and the log is cleared; it stays empty.
OpenFile ==
    /\ OpenReader
    /\ wal' = << >>
    /\ UNCHANGED <<mem_table, acknowledged, misled>>

\* The end of a session, with nothing in the memtable.
CloseFile ==
    /\ CloseReader
    /\ UNCHANGED <<wal, mem_table, acknowledged, misled>>

\* compact() over this file: its records, without the tombstones, to a new one.
Compact ==
    /\ file_phase = "open"
    /\ ~ReadThrows
    /\ FlushMap(Fold(EmptyTable, TableRead))
    /\ UNCHANGED <<wal, mem_table, acknowledged, misled>>

\* Bound: the disk spoils one block, or one field of one index entry, which then
\* holds what the same field of some other entry does, or any key.
Fields(f) == {index_block[i][f] : i \in DOMAIN index_block}
Spoil ==
    /\ spoiled = "nothing"
    /\ \/ SpoilBlock
       \/ \E i \in DOMAIN index_block :
             \/ \E k \in Key :
                   SpoilIndex([index_block[i] EXCEPT !.last_key = k])
             \/ \E o \in Fields("offset") :
                   SpoilIndex([index_block[i] EXCEPT !.offset = o])
             \/ \E s \in Fields("size") :
                   SpoilIndex([index_block[i] EXCEPT !.size = s])
    /\ misled' = (misled \/ spoiled' = "index")
    /\ UNCHANGED <<wal, mem_table, acknowledged>>

PathNext ==
    \/ \E k \in ClientKey, e \in ClientValue \cup {Tombstone} : Write(k, e)
    \/ Restart \/ Flush \/ WriteFile \/ OpenFile \/ CloseFile \/ Compact \/ Spoil

PathSpec == PathInit /\ [][PathNext]_pathVars

-----------------------------------------------------------------------------
\* Every variable has its type: in particular what is read back from the fields
\* of the log is a key and an entry.
PathTypeOK ==
    /\ TypeOK
    /\ wal \in Seq(WALRecord)
    /\ mem_table \in Table
    /\ acknowledged \in Table
    /\ misled \in BOOLEAN

Short(k) == k < KeyField
Fits(e) == e \in {Absent, Tombstone} \/ e < ValueField

\* What the path may have made of e: nothing, if it fits; of a value that does not,
\* what a restart reads where the field ends, once, however many restarts follow.
Kept(e, got) ==
    \/ got = Live(e)
    \/ ~Fits(e) /\ \E b \in Overrun : got = ValueField + b

\* A key that is shorter than its field reads what was last written for it, at
\* every point of the way, however often the process restarts and whatever longer
\* keys were written, which share its first bytes; only a value that fills its
\* field may come back as the field and the bytes behind it.  Where an index is
\* spoiled the record may disappear, for good with the next compaction, but no
\* other answer takes its place.
ShortKeysKeepTheirRecord ==
    \A k \in Key : Short(k) =>
        /\ file_phase = "none" => Kept(acknowledged[k], Live(mem_table[k]))
        /\ file_phase = "open" =>
              \A got \in Get(k) \ {Thrown} :
                  \/ Kept(acknowledged[k], Live(got))
                  \/ misled /\ got = Absent

-----------------------------------------------------------------------------
(* The inductive invariant.                                                *)

\* For a key shorter than its field the log ends in what was last written.
LogInv ==
    file_phase = "none" =>
        \A k \in Key : Short(k) =>
            LET hits == {i \in DOMAIN wal : wal[i].key = k}
            IN  IF hits = {} THEN acknowledged[k] = Absent
                ELSE /\ acknowledged[k] \in Entry
                     /\ wal[Newest(hits)] = RecordOf(k, acknowledged[k])

\* The memtable, and then the map the file is written from, has it.
KeptInv ==
    \A k \in Key : Short(k) =>
        /\ file_phase = "none" => Kept(acknowledged[k], Live(mem_table[k]))
        /\ file_phase # "none" =>
              \/ Kept(acknowledged[k], Live(records[k]))
              \/ misled /\ records[k] = Absent

\* Log, memtable, file and what clients were told agree all along the way.
PathInv ==
    /\ PathTypeOK /\ IInv
    /\ LogInv /\ KeptInv
    /\ spoiled = "index" => misled

=============================================================================
