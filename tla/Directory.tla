----------------------------- MODULE Directory -----------------------------
(***************************************************************************)
(* A directory of numbered segments: a function from the numbers of the    *)
(* files that exist to what they hold.                                     *)
(***************************************************************************)
EXTENDS Naturals, FiniteSets

\* A directory with one more file, or with a file's content replaced.
WithFile(dir, n, c) ==
    [m \in DOMAIN dir \cup {n} |-> IF m = n THEN c ELSE dir[m]]

WithoutFile(dir, n) == [m \in DOMAIN dir \ {n} |-> dir[m]]

\* The highest number of a set of segments, or of a set of positions.
Newest(S) == CHOOSE n \in S : \A m \in S : m <= n

\* Mistaken: files are counted where numbers are compared.
FilesCounted(dir) == Cardinality(DOMAIN dir)

\* calculate_latest_segment, of the WAL and of the SSTables: the highest number
\* in the directory, 0 when there is no file.
LatestSegment(dir) == Newest(DOMAIN dir \cup {0})

=============================================================================
