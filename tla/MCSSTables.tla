---------------------------- MODULE MCSSTables ----------------------------
(* SSTables on small instances. *)
EXTENDS SSTablesInvariant, TLC

\* Keys are interchangeable: no action compares two of them.
Symmetry == Permutations(Key)
=============================================================================
