------------------------------ MODULE Entries ------------------------------
(***************************************************************************)
(* Entries, and the ordered map std::map<std::string, Entry> that the      *)
(* memtable, a flush, an SSTable and a compaction all hold (types.h,       *)
(* memtable.h, memtable.cpp).                                              *)
(*                                                                         *)
(* A map is a total function on Key: Absent says that the map holds no     *)
(* record of the key, Tombstone that it holds a deletion marker.           *)
(***************************************************************************)
EXTENDS Naturals, FiniteSets

CONSTANTS Key,        \* the keys clients use
          Value,      \* the values clients store
          Tombstone,  \* ValueType::TOMBSTONE, the marker remove() writes
          Absent      \* no record of the key

ASSUME EntriesAssumption ==
    /\ IsFiniteSet(Key)
    /\ Tombstone \notin Value
    /\ Absent \notin Value
    /\ Tombstone # Absent

\* struct Entry: a VALUE with its payload, or a TOMBSTONE.
Entry == Value \cup {Tombstone}

\* A std::map<std::string, Entry>.
Table == [Key -> Entry \cup {Absent}]

\* What clients observe of a store: get() returns a value or nullopt.
LiveMap == [Key -> Value \cup {Absent}]

EmptyTable == [k \in Key |-> Absent]

\* Mistaken: emplace, which leaves an existing record alone.
InsertIfAbsent(t, k, e) == IF t[k] = Absent THEN [t EXCEPT ![k] = e] ELSE t

\* MemTable::put and MemTable::remove: the record replaces the key's old one.
Insert(t, k, e) == [t EXCEPT ![k] = e]

\* get_map().size(): a tombstone counts like a value.
MapSize(t) == Cardinality({k \in Key : t[k] # Absent})

\* What a reader is told of a record: a tombstone reads as nullopt.
Live(e) == IF e = Tombstone THEN Absent ELSE e

\* Every record of newer inserted, one by one, into older.
Overlay(older, newer) ==
    [k \in Key |-> IF newer[k] = Absent THEN older[k] ELSE newer[k]]

\* compact()'s merge of one more, newer, file: a value replaces the key's
\* record, a tombstone erases it and is not stored.
Fold(merged, t) ==
    [k \in Key |-> IF t[k] = Absent THEN merged[k] ELSE Live(t[k])]

=============================================================================
