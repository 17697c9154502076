------------------------------ MODULE MCIztaDB ------------------------------
(* IztaDB on small instances. *)
EXTENDS IztaDB, TLC

\* Keys are interchangeable: no action compares two of them.
Symmetry == Permutations(Key)
=============================================================================
