--------------------------- MODULE DirectoryProofs ---------------------------
(***************************************************************************)
(* Facts about numbered segments that the proofs of the components use.    *)
(***************************************************************************)
EXTENDS Directory, WellFoundedInduction, TLAPS

\* A set of numbers that is not empty has a least element.
LEMMA LeastExists ==
    ASSUME NEW S \in SUBSET Nat, S # {}
    PROVE  \E x \in S : \A y \in S : x <= y
<1>1. PICK x \in S : \A y \in S : ~ (<<y, x>> \in OpToRel(<, Nat))
  BY NatLessThanWellFounded, WFMin
<1>2. \A y \in S : x <= y
  <2> TAKE y \in S
  <2>1. x \in Nat /\ y \in Nat  OBVIOUS
  <2>2. <<y, x>> \in OpToRel(<, Nat) <=> y < x  BY <2>1 DEF OpToRel
  <2>3. ~ (y < x)  BY <1>1, <2>2, Zenon
  <2> QED  BY <2>1, <2>3
<1> QED  BY <1>2

\* A bounded set of numbers that is not empty has a greatest element, which is
\* the one Newest chooses.
LEMMA NewestExists ==
    ASSUME NEW N \in Nat, NEW S \in SUBSET (0 .. N), S # {}
    PROVE  Newest(S) \in S /\ \A m \in S : m <= Newest(S)
<1> DEFINE Gaps == {x \in Nat : \E n \in S : x = N - n}
<1>1. Gaps \subseteq Nat /\ Gaps # {}
  <2>1. PICK n \in S : TRUE  OBVIOUS
  <2>2. N - n \in Gaps  BY <2>1
  <2> QED  BY <2>2
<1>2. PICK x \in Gaps : \A y \in Gaps : x <= y
  <2> HIDE DEF Gaps
  <2> QED  BY <1>1, LeastExists
<1>3. PICK n \in S : x = N - n  OBVIOUS
<1>4. \A m \in S : m <= n
  <2> TAKE m \in S
  <2>1. N - m \in Gaps  OBVIOUS
  <2>2. x <= N - m  BY <1>2, <2>1
  <2> QED  BY <1>3, <2>2
<1> QED  BY <1>4 DEF Newest

\* The number a writer starts from is at least that of every file.
LEMMA LatestSegmentBounds ==
    ASSUME NEW N \in Nat, NEW dir, DOMAIN dir \subseteq 1 .. N
    PROVE  /\ LatestSegment(dir) \in DOMAIN dir \cup {0}
           /\ LatestSegment(dir) \in 0 .. N
           /\ \A n \in DOMAIN dir : n <= LatestSegment(dir)
<1>1. DOMAIN dir \cup {0} \in SUBSET (0 .. N)  OBVIOUS
<1>2. /\ LatestSegment(dir) \in DOMAIN dir \cup {0}
      /\ \A m \in DOMAIN dir \cup {0} : m <= LatestSegment(dir)
  BY <1>1, NewestExists DEF LatestSegment
<1> QED  BY <1>1, <1>2

=============================================================================
