----------------------------- MODULE WALRecord -----------------------------
(***************************************************************************)
(* One WALRecord on its way to the log and back: LogWriter::write_record   *)
(* copies key and value into fields of fixed size with strncpy, and        *)
(* LogReader::restore_segment makes strings of the fields again.           *)
(*                                                                         *)
(* As in SSTableFile a key or a value is the number of its bytes, none of  *)
(* them zero.  A field is the number of bytes before its first zero byte,  *)
(* or its whole size when no byte of it is zero.                           *)
(***************************************************************************)
EXTENDS Entries

CONSTANTS KeyField,    \* sizeof(WALRecord::key), 128
          ValueField,  \* sizeof(WALRecord::value), 256
          Overrun      \* how many bytes that are not zero may follow a
                       \* WALRecord in memory

ASSUME RecordAssumption ==
    /\ KeyField \in Nat \ {0} /\ ValueField \in Nat \ {0}
    /\ Overrun \subseteq Nat
    /\ Key \subseteq Nat /\ Value \subseteq Nat

WALRecord == [type : {"VALUE", "TOMBSTONE"},
              key : 0 .. KeyField, value : 0 .. ValueField]

\* Mistaken: room is kept for a terminator, so a long string gets shorter.
Terminated(n, field) == IF n < field THEN n ELSE field - 1

\* Mistaken: strcpy, which writes past the end of the field.
Unbounded(n, field) == n

\* strncpy: a string that fits is followed by zero bytes; of one that does not,
\* as much as fits is copied, and nothing terminates it.
Copied(n, field) == IF n < field THEN n ELSE field

\* write_record: remove() passes an empty value.
RecordOf(k, e) ==
    IF e = Tombstone
    THEN [type |-> "TOMBSTONE", key |-> Copied(k, KeyField), value |-> 0]
    ELSE [type |-> "VALUE", key |-> Copied(k, KeyField),
          value |-> Copied(e, ValueField)]

\* string(wal_record.value): up to the first zero byte, which is beyond the
\* record when the field has none.
ValueRead(r, beyond) ==
    IF r.value < ValueField THEN r.value ELSE ValueField + beyond

\* string(wal_record.key): the value field follows the key field.
KeyRead(r, beyond) ==
    IF r.key < KeyField THEN r.key ELSE KeyField + ValueRead(r, beyond)

EntryRead(r, beyond) ==
    IF r.type = "TOMBSTONE" THEN Tombstone ELSE ValueRead(r, beyond)

=============================================================================
