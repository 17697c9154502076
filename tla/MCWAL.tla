------------------------------- MODULE MCWAL -------------------------------
(* WALHistory on small instances. *)
EXTENDS WALHistory

\* Keys are interchangeable: no action compares two of them.
Symmetry == Permutations(Key)
=============================================================================
