--------------------------- MODULE MCRecordPath ---------------------------
(* RecordPath on a small instance.  Keys and values are ordered and have   *)
(* sizes, so no two of them are interchangeable.                           *)
EXTENDS RecordPath
=============================================================================
