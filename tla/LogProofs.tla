------------------------------ MODULE LogProofs ------------------------------
(***************************************************************************)
(* What the log's operators compute: which segment is the latest, where a  *)
(* reader stops, what it replays and what memtable that makes, and what a  *)
(* record appended, half a record, a CLOSE record, a repair, a spoiled     *)
(* record and a segment removed change of it.                              *)
(***************************************************************************)
EXTENDS WALTable, DirectoryProofs

-----------------------------------------------------------------------------
(* Sequences.                                                              *)

\* The pieces of a sequence of sequences, put together as far as the i-th.
Flat(seqs) ==
    CHOOSE f : f = [i \in 1 .. Len(seqs) |->
                       IF i = 1 THEN seqs[i] ELSE f[i - 1] \o seqs[i]]

\* The first counterexample to a claim about 1 .. N would not be the first.
LEMMA FlatExists ==
    ASSUME NEW S, NEW seqs \in Seq(Seq(S))
    PROVE  Flat(seqs) = [i \in 1 .. Len(seqs) |->
                            IF i = 1 THEN seqs[i]
                            ELSE Flat(seqs)[i - 1] \o seqs[i]]
<1> DEFINE N == Len(seqs)
           Is(f, n) == f = [i \in 1 .. n |->
                               IF i = 1 THEN seqs[i] ELSE f[i - 1] \o seqs[i]]
           Exists(n) == \E f : Is(f, n)
           Bad == {n \in 0 .. N : ~ Exists(n)}
<1>1. N \in Nat  OBVIOUS
<1>2. Bad = {}
  <2> SUFFICES ASSUME Bad # {} PROVE FALSE  OBVIOUS
  <2>1. PICK n \in Bad : \A m \in Bad : n <= m
    <3> HIDE DEF Exists
    <3>1. Bad \in SUBSET Nat  BY <1>1
    <3> HIDE DEF Bad
    <3> QED  BY <3>1, LeastExists
  <2>2. n # 0
    <3>1. Is([i \in 1 .. 0 |-> i], 0)  OBVIOUS
    <3> QED  BY <3>1
  <2>3. n - 1 \in 0 .. N /\ n - 1 \notin Bad /\ n \in 1 .. N
    <3>1. n \in 0 .. N  OBVIOUS
    <3> HIDE DEF Bad
    <3> QED  BY <2>1, <2>2, <3>1, <1>1
  <2>4. PICK f : Is(f, n - 1)  BY <2>3
  <2> DEFINE g == [i \in 1 .. n |-> IF i = n THEN IF n = 1 THEN seqs[n]
                                                  ELSE f[n - 1] \o seqs[n]
                                    ELSE f[i]]
  <2>5. Is(g, n)
    <3>1. \A i \in 1 .. n :
             g[i] = IF i = 1 THEN seqs[i] ELSE g[i - 1] \o seqs[i]
      <4> TAKE i \in 1 .. n
      <4>1. CASE i = n  BY <4>1, <2>3
      <4>2. CASE i # n
        <5>1. i \in 1 .. n - 1 /\ (i # 1 => i - 1 \in 1 .. n - 1)
          BY <4>2, <2>3
        <5>2. f[i] = IF i = 1 THEN seqs[i] ELSE f[i - 1] \o seqs[i]
          BY <2>4, <5>1
        <5>3. g[i] = f[i] /\ (i # 1 => g[i - 1] = f[i - 1])
          BY <5>1, <2>3
        <5> QED  BY <5>2, <5>3
      <4> QED  BY <4>1, <4>2
    <3> HIDE DEF Bad
    <3>2. g = [i \in 1 .. n |-> g[i]]  OBVIOUS
    <3> HIDE DEF g
    <3> QED  BY <3>1, <3>2
  <2>6. \E h : Is(h, n)
    <3> HIDE DEF g, Is
    <3> QED  BY <2>5
  <2> QED  BY <2>6
<1>3. PICK f : Is(f, N)
  <2>1. Exists(N)
    <3> HIDE DEF Exists
    <3> QED  BY <1>1, <1>2
  <2> QED  BY <2>1
<1>4. \E h : h = [i \in 1 .. Len(seqs) |->
                   IF i = 1 THEN seqs[i] ELSE h[i - 1] \o seqs[i]]
  BY <1>3
<1> QED  BY <1>4, Zenon DEF Flat

LEMMA FlatFacts ==
    ASSUME NEW S, NEW seqs \in Seq(Seq(S))
    PROVE  \A i \in 1 .. Len(seqs) :
              /\ Flat(seqs)[i] \in Seq(S)
              /\ Flat(seqs)[i] = IF i = 1 THEN seqs[i]
                                 ELSE Flat(seqs)[i - 1] \o seqs[i]
<1> DEFINE N == Len(seqs)
           f == Flat(seqs)
           Bad == {n \in 1 .. N : f[n] \notin Seq(S)}
<1>1. N \in Nat /\ \A i \in 1 .. N : seqs[i] \in Seq(S)  OBVIOUS
<1>2. \A i \in 1 .. N : f[i] = IF i = 1 THEN seqs[i] ELSE f[i - 1] \o seqs[i]
  <2>1. f = [i \in 1 .. N |-> IF i = 1 THEN seqs[i] ELSE f[i - 1] \o seqs[i]]
    BY FlatExists
  <2> HIDE DEF f
  <2>2. \A i \in 1 .. N :
           [j \in 1 .. N |-> IF j = 1 THEN seqs[j] ELSE f[j - 1] \o seqs[j]][i]
              = IF i = 1 THEN seqs[i] ELSE f[i - 1] \o seqs[i]
    OBVIOUS
  <2> QED  BY <2>1, <2>2, Zenon
<1>3. Bad = {}
  <2> SUFFICES ASSUME Bad # {} PROVE FALSE  OBVIOUS
  <2>1. PICK n \in Bad : \A m \in Bad : n <= m
    <3>1. Bad \in SUBSET Nat  BY <1>1
    <3> HIDE DEF Bad
    <3> QED  BY <3>1, LeastExists
  <2>2. n \in 1 .. N /\ f[n] \notin Seq(S)  OBVIOUS
  <2> HIDE DEF f
  <2>3. n # 1  BY <1>1, <1>2, <2>2
  <2>4. n - 1 \in 1 .. N /\ ~ (n <= n - 1)  BY <2>2, <2>3, <1>1
  <2>5. f[n - 1] \in Seq(S)
    <3>1. n - 1 \notin Bad  BY <2>1, <2>4
    <3> QED  BY <2>4, <3>1
  <2>6. f[n] = f[n - 1] \o seqs[n]  BY <1>2, <2>2, <2>3
  <2>7. seqs[n] \in Seq(S)  BY <1>1, <2>2
  <2>8. f[n - 1] \o seqs[n] \in Seq(S)  BY <2>5, <2>7
  <2> QED  BY <2>2, <2>6, <2>8
<1>4. \A i \in 1 .. N : f[i] \in Seq(S)
  <2> HIDE DEF f
  <2> QED  BY <1>3
<1> HIDE DEF f
<1>5. \A i \in 1 .. N :
         f[i] \in Seq(S) /\ f[i] = IF i = 1 THEN seqs[i] ELSE f[i - 1] \o seqs[i]
  BY <1>2, <1>4
<1> QED  BY <1>5 DEF f

LEMMA FlattenIs ==
    ASSUME NEW S, NEW seqs \in Seq(Seq(S))
    PROVE  FlattenSeq(seqs) = IF Len(seqs) = 0 THEN << >>
                              ELSE Flat(seqs)[Len(seqs)]
<1>1. CASE Len(seqs) = 0
  <2>1. FlattenSeq(seqs) = seqs  BY <1>1 DEF FlattenSeq
  <2>2. seqs = << >>  BY <1>1
  <2> QED  BY <1>1, <2>1, <2>2
<1>2. CASE Len(seqs) # 0
  BY <1>2 DEF FlattenSeq, Flat
<1> QED  BY <1>1, <1>2

LEMMA FlattenTyped ==
    ASSUME NEW S, NEW seqs \in Seq(Seq(S))
    PROVE  FlattenSeq(seqs) \in Seq(S)
<1>1. Len(seqs) \in Nat  OBVIOUS
<1>2. CASE Len(seqs) = 0
  <2>1. FlattenSeq(seqs) = << >>  BY <1>2, FlattenIs
  <2> QED  BY <2>1
<1>3. CASE Len(seqs) # 0
  <2>1. FlattenSeq(seqs) = Flat(seqs)[Len(seqs)]  BY <1>3, FlattenIs
  <2>2. Len(seqs) \in 1 .. Len(seqs)  BY <1>1, <1>3
  <2> QED  BY <2>1, <2>2, FlatFacts
<1> QED  BY <1>2, <1>3

\* IsPrefix, element by element.
LEMMA PrefixIs ==
    ASSUME NEW S, NEW s \in Seq(S), NEW t \in Seq(S)
    PROVE  IsPrefix(s, t) <=> /\ Len(s) <= Len(t)
                              /\ \A i \in 1 .. Len(s) : s[i] = t[i]
<1>1. Len(s) \in Nat /\ Len(t) \in Nat  OBVIOUS
<1>2. /\ SubSeq(s, 1, Len(s)) = [i \in 1 .. Len(s) |-> s[i]]
      /\ SubSeq(t, 1, Len(s)) = [i \in 1 .. Len(s) |-> t[i]]
  BY <1>1
<1>3. [i \in 1 .. Len(s) |-> s[i]] = [i \in 1 .. Len(s) |-> t[i]]
         <=> \A i \in 1 .. Len(s) : s[i] = t[i]
  <2> DEFINE f == [i \in 1 .. Len(s) |-> s[i]]
             g == [i \in 1 .. Len(s) |-> t[i]]
  <2>1. \A i \in 1 .. Len(s) : f[i] = s[i] /\ g[i] = t[i]  OBVIOUS
  <2>2. ASSUME f = g PROVE \A i \in 1 .. Len(s) : s[i] = t[i]
    <3> HIDE DEF f, g
    <3> QED  BY <2>1, <2>2
  <2> QED  BY <2>2
<1> QED  BY <1>2, <1>3 DEF IsPrefix

LEMMA PrefixSame ==
    ASSUME NEW S, NEW s \in Seq(S)
    PROVE  IsPrefix(s, s)
<1>1. Len(s) \in Nat  OBVIOUS
<1> QED  BY <1>1, PrefixIs

LEMMA PrefixTransitive ==
    ASSUME NEW S, NEW s \in Seq(S), NEW t \in Seq(S), NEW u \in Seq(S),
           IsPrefix(s, t), IsPrefix(t, u)
    PROVE  IsPrefix(s, u)
<1>1. Len(s) \in Nat /\ Len(t) \in Nat /\ Len(u) \in Nat  OBVIOUS
<1>2. Len(s) <= Len(t) /\ \A i \in 1 .. Len(s) : s[i] = t[i]  BY PrefixIs
<1>3. Len(t) <= Len(u) /\ \A i \in 1 .. Len(t) : t[i] = u[i]  BY PrefixIs
<1>4. Len(s) <= Len(u) /\ \A i \in 1 .. Len(s) : s[i] = u[i]
  BY <1>1, <1>2, <1>3
<1> QED  BY <1>4, PrefixIs

LEMMA PrefixOfConcatenation ==
    ASSUME NEW S, NEW s \in Seq(S), NEW t \in Seq(S)
    PROVE  s \o t \in Seq(S) /\ IsPrefix(s, s \o t)
<1>1. Len(s) \in Nat /\ s \o t \in Seq(S) /\ Len(s) <= Len(s \o t)
      /\ \A i \in 1 .. Len(s) : s[i] = (s \o t)[i]
  OBVIOUS
<1> QED  BY <1>1, PrefixIs

LEMMA PrefixBehind ==
    ASSUME NEW S, NEW u \in Seq(S), NEW s \in Seq(S), NEW t \in Seq(S),
           IsPrefix(s, t)
    PROVE  IsPrefix(u \o s, u \o t)
<1>1. Len(s) <= Len(t) /\ \A i \in 1 .. Len(s) : s[i] = t[i]  BY PrefixIs
<1>2. /\ u \o s \in Seq(S) /\ Len(u \o s) = Len(u) + Len(s)
      /\ u \o t \in Seq(S) /\ Len(u \o t) = Len(u) + Len(t)
      /\ Len(u) \in Nat /\ Len(s) \in Nat /\ Len(t) \in Nat
  OBVIOUS
<1>3. \A i \in 1 .. Len(u) + Len(s) : (u \o s)[i] = (u \o t)[i]
  <2> TAKE i \in 1 .. Len(u) + Len(s)
  <2>1. CASE i <= Len(u)
    <3>1. (u \o s)[i] = u[i] /\ (u \o t)[i] = u[i]  BY <2>1, <1>2
    <3> QED  BY <3>1
  <2>2. CASE i > Len(u)
    <3>1. /\ i - Len(u) \in 1 .. Len(s)
          /\ (u \o s)[i] = s[i - Len(u)]
          /\ (u \o t)[i] = t[i - Len(u)]
      BY <2>2, <1>1, <1>2
    <3> QED  BY <3>1, <1>1
  <2>3. i <= Len(u) \/ i > Len(u)  BY <1>2
  <2> QED  BY <2>1, <2>2, <2>3, Zenon
<1> DEFINE us == u \o s
           ut == u \o t
<1>4. /\ us \in Seq(S) /\ ut \in Seq(S)
      /\ Len(us) <= Len(ut) /\ \A i \in 1 .. Len(us) : us[i] = ut[i]
  BY <1>1, <1>2, <1>3
<1> HIDE DEF us, ut
<1>5. IsPrefix(us, ut)  BY <1>4, PrefixIs
<1> QED  BY <1>5 DEF us, ut

LEMMA NothingIsPrefix ==
    ASSUME NEW S, NEW s \in Seq(S)
    PROVE  IsPrefix(<< >>, s)
<1> DEFINE e == << >>
<1>1. e \in Seq(S) /\ Len(e) <= Len(s) /\ 1 .. Len(e) = {}  OBVIOUS
<1> HIDE DEF e
<1>2. IsPrefix(e, s)  BY <1>1, PrefixIs
<1> QED  BY <1>2 DEF e

LEMMA PrefixOfNothing ==
    ASSUME NEW S, NEW s \in Seq(S)
    PROVE  s \o << >> = s
OBVIOUS

\* Sequences of sequences that begin alike flatten alike as far as that goes.
LEMMA FlatAgree ==
    ASSUME NEW S, NEW a \in Seq(Seq(S)), NEW b \in Seq(Seq(S)),
           NEW m \in Nat, m <= Len(a), m <= Len(b),
           \A n \in 1 .. m : a[n] = b[n]
    PROVE  \A n \in 1 .. m : Flat(a)[n] = Flat(b)[n]
<1> DEFINE Bad == {n \in 1 .. m : Flat(a)[n] # Flat(b)[n]}
<1>1. Bad = {}
  <2> SUFFICES ASSUME Bad # {} PROVE FALSE  OBVIOUS
  <2>1. PICK n \in Bad : \A x \in Bad : n <= x
    <3>1. Bad \in SUBSET Nat  OBVIOUS
    <3> HIDE DEF Bad
    <3> QED  BY <3>1, LeastExists
  <2>2. n \in 1 .. m /\ Flat(a)[n] # Flat(b)[n]  OBVIOUS
  <2>3. n \in 1 .. Len(a) /\ n \in 1 .. Len(b)  BY <2>2
  <2>4. /\ Flat(a)[n] = IF n = 1 THEN a[n] ELSE Flat(a)[n - 1] \o a[n]
        /\ Flat(b)[n] = IF n = 1 THEN b[n] ELSE Flat(b)[n - 1] \o b[n]
    BY <2>3, FlatFacts
  <2>5. n # 1  BY <2>2, <2>4
  <2>6. n - 1 \in 1 .. m /\ ~ (n <= n - 1)  BY <2>2, <2>5
  <2>7. Flat(a)[n - 1] = Flat(b)[n - 1]
    <3>1. n - 1 \notin Bad  BY <2>1, <2>6
    <3> QED  BY <2>6, <3>1
  <2> QED  BY <2>2, <2>4, <2>5, <2>7
<1> QED  BY <1>1

LEMMA FlatGrows ==
    ASSUME NEW S, NEW b \in Seq(Seq(S)), NEW s \in 1 .. Len(b)
    PROVE  \A n \in s .. Len(b) : IsPrefix(Flat(b)[s], Flat(b)[n])
<1> DEFINE Bad == {n \in s .. Len(b) : ~IsPrefix(Flat(b)[s], Flat(b)[n])}
<1>1. Len(b) \in Nat  OBVIOUS
<1>2. Bad = {}
  <2> SUFFICES ASSUME Bad # {} PROVE FALSE  OBVIOUS
  <2>1. PICK n \in Bad : \A x \in Bad : n <= x
    <3>1. Bad \in SUBSET Nat  BY <1>1
    <3> HIDE DEF Bad
    <3> QED  BY <3>1, LeastExists
  <2>2. n \in s .. Len(b) /\ ~IsPrefix(Flat(b)[s], Flat(b)[n])  OBVIOUS
  <2>3. Flat(b)[s] \in Seq(S)  BY FlatFacts
  <2>4. n # s  BY <2>2, <2>3, PrefixSame
  <2>5. n - 1 \in s .. Len(b) /\ ~ (n <= n - 1) /\ n - 1 \in 1 .. Len(b)
        /\ n \in 1 .. Len(b) /\ n # 1
    BY <2>2, <2>4, <1>1
  <2>6. IsPrefix(Flat(b)[s], Flat(b)[n - 1])
    <3>1. n - 1 \notin Bad  BY <2>1, <2>5
    <3> QED  BY <2>5, <3>1
  <2>7. /\ Flat(b)[n] = Flat(b)[n - 1] \o b[n]
        /\ Flat(b)[n - 1] \in Seq(S) /\ b[n] \in Seq(S)
        /\ Flat(b)[n] \in Seq(S)
    <3>1. b[n] \in Seq(S)  BY <2>5
    <3> QED  BY <2>5, <3>1, FlatFacts, Zenon
  <2>8. IsPrefix(Flat(b)[n - 1], Flat(b)[n])  BY <2>7, PrefixOfConcatenation
  <2>9. IsPrefix(Flat(b)[s], Flat(b)[n])
    BY <2>3, <2>6, <2>7, <2>8, PrefixTransitive
  <2> QED  BY <2>2, <2>9
<1> QED  BY <1>2

\* Some of the pieces, the last of them perhaps in part, make a prefix.
LEMMA FlattenPrefix ==
    ASSUME NEW S, NEW a \in Seq(Seq(S)), NEW b \in Seq(Seq(S)),
           Len(a) <= Len(b),
           \A n \in 1 .. Len(a) - 1 : a[n] = b[n],
           Len(a) # 0 => IsPrefix(a[Len(a)], b[Len(a)])
    PROVE  IsPrefix(FlattenSeq(a), FlattenSeq(b))
<1> DEFINE s == Len(a)
           N == Len(b)
<1>1. s \in Nat /\ N \in Nat  OBVIOUS
<1>2. CASE s = 0
  <2>1. FlattenSeq(a) = << >>  BY <1>2, FlattenIs
  <2>2. FlattenSeq(b) \in Seq(S)  BY FlattenTyped
  <2> QED  BY <2>1, <2>2, NothingIsPrefix
<1>3. CASE s # 0
  <2>1. s \in 1 .. Len(a) /\ s \in 1 .. N /\ N \in s .. N /\ N # 0
    BY <1>1, <1>3
  <2>2. FlattenSeq(a) = Flat(a)[s] /\ FlattenSeq(b) = Flat(b)[N]
    BY <1>3, <2>1, FlattenIs
  <2>3. /\ Flat(a)[s] \in Seq(S) /\ Flat(b)[s] \in Seq(S) /\ Flat(b)[N] \in Seq(S)
        /\ a[s] \in Seq(S) /\ b[s] \in Seq(S)
    BY <2>1, FlatFacts
  <2>4. IsPrefix(Flat(a)[s], Flat(b)[s])
    <3>1. CASE s = 1
      <4>1. Flat(a)[s] = a[s] /\ Flat(b)[s] = b[s]  BY <2>1, <3>1, FlatFacts
      <4> QED  BY <1>3, <4>1
    <3>2. CASE s # 1
      <4>1. s - 1 \in Nat /\ s - 1 <= Len(a) /\ s - 1 <= Len(b)
            /\ s - 1 \in 1 .. s - 1 /\ s - 1 \in 1 .. Len(a)
        <5>1. s = Len(a) /\ s <= Len(b)  OBVIOUS
        <5> HIDE DEF s, N
        <5> QED  BY <1>1, <1>3, <3>2, <5>1
      <4>2. \A n \in 1 .. s - 1 : a[n] = b[n]  OBVIOUS
      <4> HIDE DEF s
      <4>3. Flat(a)[s - 1] = Flat(b)[s - 1]  BY <4>1, <4>2, FlatAgree
      <4>4. /\ Flat(a)[s] = Flat(a)[s - 1] \o a[s]
            /\ Flat(b)[s] = Flat(b)[s - 1] \o b[s]
            /\ Flat(a)[s - 1] \in Seq(S)
        <5>1. s \in 1 .. Len(b)  BY <2>1
        <5> QED  BY <2>1, <3>2, <4>1, <5>1, FlatFacts, Zenon
      <4>5. IsPrefix(a[s], b[s])  BY <1>3 DEF s
      <4> QED  BY <2>3, <4>3, <4>4, <4>5, PrefixBehind
    <3> QED  BY <3>1, <3>2
  <2>5. IsPrefix(Flat(b)[s], Flat(b)[N])  BY <2>1, FlatGrows
  <2>6. IsPrefix(Flat(a)[s], Flat(b)[N])
    <3> HIDE DEF s, N
    <3> QED  BY <2>3, <2>4, <2>5, PrefixTransitive
  <2> QED  BY <2>2, <2>6
<1> QED  BY <1>2, <1>3

\* The last piece grows.
LastGrows(S, a, b, x) ==
    /\ a \in Seq(Seq(S)) /\ b \in Seq(Seq(S)) /\ x \in Seq(S)
    /\ Len(a) # 0 /\ Len(b) = Len(a)
    /\ \A n \in 1 .. Len(a) - 1 : b[n] = a[n]
    /\ b[Len(a)] = a[Len(a)] \o x

LEMMA FlattenExtended ==
    ASSUME NEW S, NEW a, NEW b, NEW x, LastGrows(S, a, b, x)
    PROVE  FlattenSeq(b) = FlattenSeq(a) \o x
<1> DEFINE N == Len(a)
           c == Flat(a)[N]
           d == Flat(b)[N]
           p == Flat(a)[N - 1]
           q == a[N]
           r == b[N]
<1>1. /\ N \in Nat /\ N \in 1 .. Len(a) /\ N \in 1 .. Len(b)
      /\ Len(a) # 0 /\ Len(b) = N
  BY DEF LastGrows
<1>2. a \in Seq(Seq(S)) /\ b \in Seq(Seq(S)) /\ x \in Seq(S)
  BY DEF LastGrows
<1>3. FlattenSeq(a) = c /\ FlattenSeq(b) = d
  BY <1>1, <1>2, FlattenIs
<1>4. r = q \o x  BY DEF LastGrows
<1>5. CASE N = 1
  <2>1. c = q /\ d = r  BY <1>1, <1>2, <1>5, FlatFacts
  <2> QED  BY <1>3, <1>4, <2>1
<1>6. CASE N # 1
  <2>1. N - 1 \in Nat /\ N - 1 <= Len(a) /\ N - 1 <= Len(b)
        /\ N - 1 \in 1 .. N - 1 /\ N - 1 \in 1 .. Len(a)
    BY <1>1, <1>6
  <2>2. \A n \in 1 .. N - 1 : a[n] = b[n]  BY DEF LastGrows
  <2> HIDE DEF N
  <2>3. Flat(a)[N - 1] = Flat(b)[N - 1]  BY <1>2, <2>1, <2>2, FlatAgree
  <2>4. q \in Seq(S)  BY <1>1, <1>2
  <2>5. \A i \in 1 .. Len(a) : /\ Flat(a)[i] \in Seq(S)
                               /\ i # 1 => Flat(a)[i] = Flat(a)[i - 1] \o a[i]
    BY <1>2, FlatFacts
  <2>6. \A i \in 1 .. Len(b) : i # 1 => Flat(b)[i] = Flat(b)[i - 1] \o b[i]
    BY <1>2, FlatFacts
  <2>7. c = p \o q  BY <1>1, <1>6, <2>5, Zenon
  <2>8. d = p \o r  BY <1>1, <1>6, <2>3, <2>6, Zenon
  <2>9. p \in Seq(S)  BY <2>1, <2>5, Zenon
  <2> HIDE DEF c, d, p, q, r
  <2>10. x \in Seq(S)  BY <1>2
  <2>11. (p \o q) \o x = p \o (q \o x)
    BY <2>4, <2>9, <2>10
  <2>12. d = c \o x  BY <1>4, <2>7, <2>8, <2>11, Zenon
  <2> QED  BY <1>3, <2>12
<1> QED  BY <1>5, <1>6

\* One more piece.
LEMMA FlattenOneMore ==
    ASSUME NEW S, NEW a \in Seq(Seq(S)), NEW b \in Seq(Seq(S)),
           Len(b) = Len(a) + 1,
           \A n \in 1 .. Len(a) : b[n] = a[n]
    PROVE  FlattenSeq(b) = FlattenSeq(a) \o b[Len(b)]
<1> DEFINE N == Len(a)
<1>1. N \in Nat /\ N + 1 \in 1 .. Len(b) /\ N + 1 # 0  OBVIOUS
<1>2. FlattenSeq(b) = Flat(b)[N + 1]  BY <1>1, FlattenIs
<1>3. b[N + 1] \in Seq(S)  BY <1>1
<1>4. CASE N = 0
  <2>1. FlattenSeq(a) = << >>  BY <1>4, FlattenIs
  <2>2. Flat(b)[N + 1] = b[N + 1]  BY <1>1, <1>4, FlatFacts
  <2>3. << >> \o b[N + 1] = b[N + 1]  BY <1>3
  <2> QED  BY <1>2, <2>1, <2>2, <2>3
<1>5. CASE N # 0
  <2>1. N \in 1 .. N /\ N + 1 # 1 /\ N + 1 - 1 = N /\ N <= Len(b)
    BY <1>1, <1>5
  <2>2. Flat(a)[N] = Flat(b)[N]
    <3>1. N <= Len(a)  BY <1>1
    <3>2. \A n \in 1 .. N : a[n] = b[n]  OBVIOUS
    <3> HIDE DEF N
    <3> QED  BY <1>1, <2>1, <3>1, <3>2, FlatAgree
  <2>3. Flat(b)[N + 1] = Flat(b)[N] \o b[N + 1]
    <3>1. \A i \in 1 .. Len(b) : i # 1 => Flat(b)[i] = Flat(b)[i - 1] \o b[i]
      BY FlatFacts
    <3>2. N + 1 \in 1 .. Len(b) /\ N + 1 # 1  BY <1>1, <2>1
    <3>3. N + 1 - 1 = N  BY <2>1
    <3> DEFINE M == N + 1
    <3>4. M \in 1 .. Len(b) /\ M # 1  BY <3>2
    <3>5. M - 1 = N  BY <3>3
    <3> HIDE DEF M, N
    <3>6. Flat(b)[M] = Flat(b)[M - 1] \o b[M]  BY <3>1, <3>4, Zenon
    <3>7. Flat(b)[M] = Flat(b)[N] \o b[M]  BY <3>5, <3>6, Zenon
    <3> QED  BY <3>7 DEF M
  <2>4. FlattenSeq(a) = Flat(a)[N]  BY <1>5, FlattenIs
  <2> QED  BY <1>2, <2>2, <2>3, <2>4
<1> QED  BY <1>4, <1>5

-----------------------------------------------------------------------------
(* Segments and the directory they are in.                                 *)

IsLog(dir) ==
    /\ DOMAIN dir \subseteq 1 .. MaxLog
    /\ \A n \in DOMAIN dir : dir[n] \in LogSegment

LEMMA ContentTyped ==
    ASSUME NEW dir, IsLog(dir), NEW n
    PROVE  Content(dir, n) \in LogSegment
<1>1. << >> \in Seq(Record \cup {Close, Corrupt})  OBVIOUS
<1>2. EmptySegment \in LogSegment  BY <1>1 DEF EmptySegment, LogSegment
<1> QED  BY <1>2 DEF Content, IsLog

LEMMA AppendCellTyped ==
    ASSUME NEW f \in LogSegment, NEW c \in Record \cup {Close, Corrupt}
    PROVE  AppendCell(f, c) \in LogSegment
<1> DEFINE Cells == Record \cup {Close, Corrupt}
<1>1. f.cells \in Seq(Cells) /\ f.torn \in BOOLEAN  BY DEF LogSegment
<1>2. Append(f.cells, IF f.torn THEN Corrupt ELSE c) \in Seq(Cells)  BY <1>1
<1>3. AppendCell(f, c) =
         [cells |-> Append(f.cells, IF f.torn THEN Corrupt ELSE c),
          torn |-> f.torn]
  BY DEF AppendCell, LogSegment
<1> QED  BY <1>1, <1>2, <1>3 DEF LogSegment

LEMMA AppendHalfTyped ==
    ASSUME NEW f \in LogSegment
    PROVE  AppendHalf(f) \in LogSegment
<1> DEFINE Cells == Record \cup {Close, Corrupt}
<1>1. f.cells \in Seq(Cells) /\ f.torn \in BOOLEAN  BY DEF LogSegment
<1>2. Append(f.cells, Corrupt) \in Seq(Cells)  BY <1>1
<1> QED  BY <1>1, <1>2 DEF LogSegment, AppendHalf

LEMMA WithFileIsLog ==
    ASSUME NEW dir, IsLog(dir), NEW p \in 1 .. MaxLog, NEW c \in LogSegment
    PROVE  IsLog(WithFile(dir, p, c))
BY DEF IsLog, WithFile

LEMMA WithoutFileIsLog ==
    ASSUME NEW dir, IsLog(dir), NEW p
    PROVE  IsLog(WithoutFile(dir, p))
BY DEF IsLog, WithoutFile

LEMMA ContentWithFile ==
    ASSUME NEW dir, NEW p, NEW c
    PROVE  /\ Content(WithFile(dir, p, c), p) = c
           /\ \A n : n # p => Content(WithFile(dir, p, c), n) = Content(dir, n)
BY DEF Content, WithFile

LEMMA ContentWithoutFile ==
    ASSUME NEW dir, NEW p, NEW n, n # p
    PROVE  Content(WithoutFile(dir, p), n) = Content(dir, n)
BY DEF Content, WithoutFile

\* The latest segment of a log.
LEMMA LatestTyped ==
    ASSUME NEW dir, IsLog(dir)
    PROVE  /\ LatestSegment(dir) \in 0 .. MaxLog
           /\ LatestSegment(dir) \in DOMAIN dir \cup {0}
           /\ \A n \in DOMAIN dir : n <= LatestSegment(dir)
BY WALAssumption, LatestSegmentBounds DEF IsLog

\* A segment written to is the latest afterwards.
LEMMA LatestWithFile ==
    ASSUME NEW dir, IsLog(dir), NEW p \in 1 .. MaxLog, NEW c \in LogSegment,
           p \in {LatestSegment(dir), LatestSegment(dir) + 1}
    PROVE  LatestSegment(WithFile(dir, p, c)) = p
<1> DEFINE new == WithFile(dir, p, c)
<1>1. IsLog(new)  BY WithFileIsLog
<1>2. DOMAIN new = DOMAIN dir \cup {p}  BY DEF WithFile
<1> HIDE DEF new
<1>3. LatestSegment(new) \in DOMAIN dir \cup {p, 0} /\ p <= LatestSegment(new)
      /\ LatestSegment(new) \in 0 .. MaxLog
  BY <1>1, <1>2, LatestTyped
<1>4. /\ LatestSegment(dir) \in 0 .. MaxLog
      /\ \A n \in DOMAIN dir : n <= LatestSegment(dir)
  BY LatestTyped
<1>5. LatestSegment(new) <= p
  <2>1. CASE LatestSegment(new) \in DOMAIN dir
    <3>1. LatestSegment(new) <= LatestSegment(dir)  BY <2>1, <1>4
    <3> QED  BY <3>1, <1>3, <1>4
  <2> QED  BY <2>1, <1>3
<1>6. LatestSegment(new) = p  BY <1>3, <1>5
<1> QED  BY <1>6 DEF new

LEMMA ResolveTyped ==
    ASSUME NEW dir, IsLog(dir), NEW limit
    PROVE  /\ Resolve(dir, limit) \in {LatestSegment(dir), LatestSegment(dir) + 1}
           /\ Resolve(dir, limit) # 0
           /\ Resolve(dir, limit) \in 0 .. MaxLog + 1
<1>1. LatestSegment(dir) \in 0 .. MaxLog /\ MaxLog \in Nat
  BY LatestTyped, WALAssumption
<1>2. \/ Resolve(dir, limit) = 1 /\ LatestSegment(dir) = 0
      \/ Resolve(dir, limit) = LatestSegment(dir) /\ LatestSegment(dir) # 0
      \/ Resolve(dir, limit) = LatestSegment(dir) + 1
  BY DEF Resolve
<1> QED  BY <1>1, <1>2

LEMMA NextSequencesTyped ==
    ASSUME NEW dir, IsLog(dir)
    PROVE  NextSequences(dir) \subseteq Nat
<1> DEFINE latest == LatestSegment(dir)
           cells == dir[latest].cells
<1>1. Garbage \subseteq Nat /\ {1} \subseteq Nat  BY WALAssumption
<1>2. ASSUME latest # 0, cells # << >>, IsRecord(Last(cells))
      PROVE  Last(cells).seq + 1 \in Nat
  <2>1. dir[latest] \in LogSegment  BY <1>2, LatestTyped DEF IsLog
  <2>2. cells \in Seq(Record \cup {Close, Corrupt})  BY <2>1 DEF LogSegment
  <2> HIDE DEF cells
  <2>3. Len(cells) \in 1 .. Len(cells)  BY <2>2, <1>2
  <2>4. Last(cells) \in Record \cup {Close, Corrupt}
    BY <2>2, <2>3 DEF Last
  <2>5. Last(cells) \in Record  BY <2>4, <1>2 DEF IsRecord
  <2> QED  BY <2>5 DEF Record
<1>3. \/ NextSequences(dir) = {1}
      \/ NextSequences(dir) = Garbage
      \/ /\ latest # 0 /\ cells # << >> /\ IsRecord(Last(cells))
         /\ NextSequences(dir) = {Last(cells).seq + 1}
  BY DEF NextSequences
<1> QED  BY <1>1, <1>2, <1>3

-----------------------------------------------------------------------------
(* Where the reader stops.                                                 *)

LEMMA StopCellBounds ==
    ASSUME NEW f \in LogSegment
    PROVE  /\ StopCell(f) \in 1 .. Len(f.cells) + 1
           /\ StopCell(f) <= Len(f.cells) => ~IsRecord(f.cells[StopCell(f)])
           /\ \A i \in 1 .. StopCell(f) - 1 : IsRecord(f.cells[i])
<1> DEFINE N == Len(f.cells)
           Bad == {i \in 1 .. N : ~IsRecord(f.cells[i])}
           Is(j) == /\ j <= N => ~IsRecord(f.cells[j])
                    /\ \A i \in 1 .. j - 1 : IsRecord(f.cells[i])
<1>1. N \in Nat
  <2>1. f.cells \in Seq(Record \cup {Close, Corrupt})  BY DEF LogSegment
  <2> QED  BY <2>1
<1>2. \E j \in 1 .. N + 1 : Is(j)
  <2>1. CASE Bad = {}
    <3>1. Is(N + 1)
      <4>1. ~ (N + 1 <= N) /\ N + 1 - 1 = N  BY <1>1
      <4>2. \A i \in 1 .. N : IsRecord(f.cells[i])  BY <2>1
      <4> QED  BY <4>1, <4>2
    <3>2. N + 1 \in 1 .. N + 1  BY <1>1
    <3> HIDE DEF Is
    <3> QED  BY <3>1, <3>2
  <2>2. CASE Bad # {}
    <3>1. Bad \in SUBSET Nat  BY <1>1
    <3>2. PICK j \in Bad : \A i \in Bad : j <= i
      <4> HIDE DEF Bad
      <4> QED  BY <2>2, <3>1, LeastExists
    <3>3. j \in 1 .. N /\ ~IsRecord(f.cells[j])  OBVIOUS
    <3>4. \A i \in 1 .. j - 1 : IsRecord(f.cells[i])
      <4> TAKE i \in 1 .. j - 1
      <4>1. i \in 1 .. N /\ ~ (j <= i)  BY <3>3, <1>1
      <4>2. i \notin Bad
        <5> HIDE DEF Bad
        <5> QED  BY <4>1, <3>2
      <4> QED  BY <4>1, <4>2
    <3>5. j \in 1 .. N + 1  BY <3>3, <1>1
    <3> QED  BY <3>3, <3>4, <3>5
  <2> QED  BY <2>1, <2>2
<1>3. StopCell(f) = CHOOSE j \in 1 .. N + 1 : Is(j)  BY DEF StopCell
<1>4. StopCell(f) \in 1 .. N + 1 /\ Is(StopCell(f))
  <2> HIDE DEF Is
  <2> QED  BY <1>2, <1>3
<1> QED  BY <1>4

LEMMA StopCellIs ==
    ASSUME NEW f \in LogSegment, NEW j \in 1 .. Len(f.cells) + 1,
           j <= Len(f.cells) => ~IsRecord(f.cells[j]),
           \A i \in 1 .. j - 1 : IsRecord(f.cells[i])
    PROVE  StopCell(f) = j
<1> DEFINE N == Len(f.cells)
           s == StopCell(f)
<1>1. N \in Nat
  <2>1. f.cells \in Seq(Record \cup {Close, Corrupt})  BY DEF LogSegment
  <2> QED  BY <2>1
<1>2. /\ s \in 1 .. N + 1
      /\ s <= N => ~IsRecord(f.cells[s])
      /\ \A i \in 1 .. s - 1 : IsRecord(f.cells[i])
  BY StopCellBounds
<1> HIDE DEF s
<1>3. ~ (s < j)
  <2> SUFFICES ASSUME s < j PROVE FALSE  OBVIOUS
  <2>1. s \in 1 .. j - 1 /\ s <= N  BY <1>1, <1>2
  <2> QED  BY <2>1, <1>2
<1>4. ~ (j < s)
  <2> SUFFICES ASSUME j < s PROVE FALSE  OBVIOUS
  <2>1. j \in 1 .. s - 1 /\ j <= N  BY <1>1, <1>2
  <2> QED  BY <2>1, <1>2
<1>5. s = j  BY <1>1, <1>2, <1>3, <1>4
<1> QED  BY <1>5 DEF s

\* A segment of records only is read to its end.
LEMMA WholeAtEnd ==
    ASSUME NEW f \in LogSegment, Whole(f)
    PROVE  AtEnd(f) /\ ~ReachedEof(f)
<1> DEFINE N == Len(f.cells)
<1>1. f.cells \in Seq(Record \cup {Close, Corrupt})  BY DEF LogSegment
<1>2. N \in Nat /\ DOMAIN f.cells = 1 .. N  BY <1>1
<1>3. \A i \in 1 .. N : IsRecord(f.cells[i])  BY <1>2 DEF Whole
<1>4. N + 1 \in 1 .. N + 1 /\ ~ (N + 1 <= N) /\ N + 1 - 1 = N  BY <1>2
<1>5. StopCell(f) = N + 1  BY <1>3, <1>4, StopCellIs
<1> QED  BY <1>5 DEF AtEnd, ReachedEof

\* A segment that does not exist is read to its end.
LEMMA MissingAtEnd ==
    ASSUME NEW dir, NEW n, n \notin DOMAIN dir
    PROVE  AtEnd(Content(dir, n)) /\ ~ReachedEof(Content(dir, n))
<1>1. << >> \in Seq(Record \cup {Close, Corrupt})  OBVIOUS
<1>2. EmptySegment \in LogSegment  BY <1>1 DEF EmptySegment, LogSegment
<1>3. Whole(EmptySegment)  BY DEF Whole, EmptySegment
<1> QED  BY <1>2, <1>3, WholeAtEnd DEF Content

LEMMA StopSegmentBounds ==
    ASSUME NEW dir, IsLog(dir)
    PROVE  /\ StopSegment(dir) \in 0 .. LatestSegment(dir)
           /\ StopSegment(dir) = 0 => LatestSegment(dir) = 0
           /\ \A i \in 1 .. StopSegment(dir) - 1 : ReachedEof(Content(dir, i))
           /\ StopSegment(dir) = LatestSegment(dir) \/ ~Clean(dir, StopSegment(dir))
<1> DEFINE L == LatestSegment(dir)
           s == StopSegment(dir)
           dirty == {n \in 1 .. L : ~Clean(dir, n)}
<1>1. L \in Nat  BY LatestTyped, WALAssumption
<1>2. s = IF dirty = {} THEN L
          ELSE CHOOSE n \in dirty : \A m \in dirty : n <= m
  BY DEF StopSegment
<1>3. CASE dirty = {}
  <2>1. s = L  BY <1>2, <1>3
  <2>2. \A i \in 1 .. L - 1 : ReachedEof(Content(dir, i))
    <3> TAKE i \in 1 .. L - 1
    <3>1. i \in 1 .. L /\ i # L  BY <1>1
    <3>2. Clean(dir, i)  BY <1>3, <3>1
    <3> QED  BY <3>1, <3>2 DEF Clean
  <2> QED  BY <1>1, <2>1, <2>2
<1>4. CASE dirty # {}
  <2>1. dirty \in SUBSET Nat  BY <1>1
  <2>2. s \in dirty /\ \A m \in dirty : s <= m
    <3>1. \E n \in dirty : \A m \in dirty : n <= m
      <4> HIDE DEF dirty
      <4> QED  BY <1>4, <2>1, LeastExists
    <3> HIDE DEF dirty, s
    <3> QED  BY <1>2, <1>4, <3>1
  <2>3. s \in 1 .. L /\ ~Clean(dir, s)  BY <2>2
  <2> HIDE DEF s
  <2>4. \A i \in 1 .. s - 1 : ReachedEof(Content(dir, i))
    <3> TAKE i \in 1 .. s - 1
    <3>1. i \in 1 .. L /\ i # L /\ ~ (s <= i)  BY <1>1, <2>3
    <3>2. i \notin dirty
      <4> HIDE DEF dirty
      <4> QED  BY <2>2, <3>1
    <3>3. Clean(dir, i)  BY <3>1, <3>2
    <3> QED  BY <3>1, <3>3 DEF Clean
  <2>5. s \in 0 .. L /\ s # 0  BY <1>1, <2>3
  <2> QED  BY <2>3, <2>4, <2>5 DEF s
<1> QED  BY <1>3, <1>4

LEMMA StopSegmentIs ==
    ASSUME NEW dir, IsLog(dir), NEW n \in 1 .. LatestSegment(dir),
           \A i \in 1 .. n - 1 : ReachedEof(Content(dir, i)),
           ~ReachedEof(Content(dir, n)) \/ n = LatestSegment(dir)
    PROVE  StopSegment(dir) = n
<1> DEFINE L == LatestSegment(dir)
           s == StopSegment(dir)
<1>1. L \in Nat  BY LatestTyped, WALAssumption
<1>2. /\ s \in 0 .. L
      /\ s = 0 => L = 0
      /\ \A i \in 1 .. s - 1 : ReachedEof(Content(dir, i))
      /\ s = L \/ ~Clean(dir, s)
  BY StopSegmentBounds
<1> HIDE DEF s
<1>3. ~ (s < n)
  <2> SUFFICES ASSUME s < n PROVE FALSE  OBVIOUS
  <2>1. s \in 1 .. n - 1 /\ s # L  BY <1>1, <1>2
  <2> QED  BY <2>1, <1>2 DEF Clean
<1>4. ~ (n < s)
  <2> SUFFICES ASSUME n < s PROVE FALSE  OBVIOUS
  <2>1. n \in 1 .. s - 1 /\ n # L  BY <1>1, <1>2
  <2> QED  BY <2>1, <1>2
<1>5. s = n  BY <1>1, <1>2, <1>3, <1>4
<1> QED  BY <1>5 DEF s

-----------------------------------------------------------------------------
(* What is replayed, and the memtable it makes.                            *)

LEMMA ReplayedTyped ==
    ASSUME NEW dir, IsLog(dir)
    PROVE  Replayed(dir) \in Seq(Op)
<1> DEFINE ops(n) == [j \in 1 .. StopCell(Content(dir, n)) - 1 |->
                         Content(dir, n).cells[j].op]
<1>1. StopSegment(dir) \in Nat
  BY StopSegmentBounds, LatestTyped, WALAssumption
<1>2. ASSUME NEW n \in 1 .. StopSegment(dir)
      PROVE  ops(n) \in Seq(Op)
  <2> DEFINE f == Content(dir, n)
             s == StopCell(f)
  <2>1. f \in LogSegment  BY ContentTyped
  <2>2. f.cells \in Seq(Record \cup {Close, Corrupt})  BY <2>1 DEF LogSegment
  <2>3. s \in 1 .. Len(f.cells) + 1 /\ \A i \in 1 .. s - 1 : IsRecord(f.cells[i])
    BY <2>1, StopCellBounds
  <2> HIDE DEF f, s
  <2>4. s - 1 \in Nat /\ 1 .. s - 1 \subseteq 1 .. Len(f.cells)  BY <2>2, <2>3
  <2>5. \A j \in 1 .. s - 1 : f.cells[j].op \in Op
    <3> TAKE j \in 1 .. s - 1
    <3>1. f.cells[j] \in Record \cup {Close, Corrupt}  BY <2>2, <2>4
    <3>2. f.cells[j] \in Record  BY <2>3, <3>1 DEF IsRecord
    <3> QED  BY <3>2 DEF Record
  <2>6. [j \in 1 .. s - 1 |-> f.cells[j].op] \in Seq(Op)  BY <2>4, <2>5
  <2> QED  BY <2>6 DEF f, s
<1> HIDE DEF ops
<1>3. [n \in 1 .. StopSegment(dir) |-> ops(n)] \in Seq(Seq(Op))  BY <1>1, <1>2
<1>4. FlattenSeq([n \in 1 .. StopSegment(dir) |-> ops(n)]) \in Seq(Op)
  BY <1>3, FlattenTyped
<1> QED  BY <1>4 DEF Replayed, ops

\* What is replayed depends on the segments before the stop only, and of the
\* stop on the records before the first cell that is none.
LEMMA SameReplayed ==
    ASSUME NEW dir, NEW new, StopSegment(new) = StopSegment(dir),
           \A n \in 1 .. StopSegment(dir) :
              /\ StopCell(Content(new, n)) = StopCell(Content(dir, n))
              /\ \A j \in 1 .. StopCell(Content(dir, n)) - 1 :
                    Content(new, n).cells[j] = Content(dir, n).cells[j]
    PROVE  Replayed(new) = Replayed(dir)
<1> DEFINE ops(d, n) == [j \in 1 .. StopCell(Content(d, n)) - 1 |->
                            Content(d, n).cells[j].op]
<1>1. \A n \in 1 .. StopSegment(dir) : ops(new, n) = ops(dir, n)  OBVIOUS
<1> HIDE DEF ops
<1>2. [n \in 1 .. StopSegment(new) |-> ops(new, n)]
         = [n \in 1 .. StopSegment(dir) |-> ops(dir, n)]
  BY <1>1
<1> QED  BY <1>2 DEF Replayed, ops

LEMMA EmptyTableTyped == EmptyTable \in Table
BY DEF EmptyTable, Table

LEMMA NewestHit ==
    ASSUME NEW ops \in Seq(Op), NEW k,
           NEW hits, hits = {i \in DOMAIN ops : ops[i].key = k}, hits # {}
    PROVE  /\ Newest(hits) \in hits
           /\ \A m \in hits : m <= Newest(hits)
<1>1. Len(ops) \in Nat /\ hits \in SUBSET (0 .. Len(ops))  OBVIOUS
<1> QED  BY <1>1, NewestExists

LEMMA TableOfTyped ==
    ASSUME NEW ops \in Seq(Op)
    PROVE  TableOf(ops) \in Table
<1> DEFINE hits(k) == {i \in DOMAIN ops : ops[i].key = k}
           cell(k) == IF hits(k) = {} THEN Absent ELSE ops[Newest(hits(k))].entry
<1>1. ASSUME NEW k \in Key PROVE cell(k) \in Entry \cup {Absent}
  <2>1. CASE hits(k) # {}
    <3>1. Newest(hits(k)) \in hits(k)  BY <2>1, NewestHit
    <3>2. Newest(hits(k)) \in DOMAIN ops  BY <3>1
    <3>3. ops[Newest(hits(k))] \in Op  BY <3>2
    <3> QED  BY <3>3 DEF Op
  <2> QED  BY <2>1
<1> HIDE DEF cell
<1>2. [k \in Key |-> cell(k)] \in Table  BY <1>1 DEF Table
<1> QED  BY <1>2 DEF TableOf, cell

LEMMA TableOfEmpty == TableOf(<< >>) = EmptyTable
BY DEF TableOf, EmptyTable

\* One more operation is one more insertion.
LEMMA TableOfAppend ==
    ASSUME NEW ops \in Seq(Op), NEW o \in Op
    PROVE  TableOf(Append(ops, o)) = Insert(TableOf(ops), o.key, o.entry)
<1> DEFINE new == Append(ops, o)
           N == Len(ops)
           hits(s, k) == {i \in DOMAIN s : s[i].key = k}
           cell(s, k) == IF hits(s, k) = {} THEN Absent
                         ELSE s[Newest(hits(s, k))].entry
<1>1. /\ N \in Nat /\ DOMAIN ops = 1 .. N /\ DOMAIN new = 1 .. N + 1
      /\ new[N + 1] = o /\ \A i \in 1 .. N : new[i] = ops[i]
      /\ new \in Seq(Op)
  OBVIOUS
<1>2. ASSUME NEW k \in Key, k # o.key
      PROVE  cell(new, k) = cell(ops, k)
  <2>1. hits(new, k) = hits(ops, k)
    <3> HIDE DEF new
    <3> QED  BY <1>1, <1>2
  <2>2. CASE hits(ops, k) = {}  BY <2>1, <2>2
  <2>3. CASE hits(ops, k) # {}
    <3>1. Newest(hits(ops, k)) \in hits(ops, k)  BY <2>3, NewestHit
    <3>2. Newest(hits(ops, k)) \in 1 .. N  BY <3>1, <1>1
    <3>3. new[Newest(hits(ops, k))] = ops[Newest(hits(ops, k))]
      BY <3>2, <1>1
    <3> HIDE DEF hits, new
    <3> QED  BY <2>1, <3>3
  <2> QED  BY <2>2, <2>3
<1>3. cell(new, o.key) = o.entry
  <2> DEFINE H == hits(new, o.key)
  <2>1. N + 1 \in H
    <3> HIDE DEF new
    <3> QED  BY <1>1
  <2>2. H \subseteq 1 .. N + 1  BY <1>1
  <2>3. Newest(H) \in H /\ \A m \in H : m <= Newest(H)
    BY <1>1, <2>1, NewestHit
  <2> HIDE DEF H
  <2>4. N + 1 <= Newest(H) /\ Newest(H) \in 1 .. N + 1  BY <2>1, <2>2, <2>3
  <2>5. Newest(H) = N + 1  BY <2>4, <1>1
  <2>6. H # {} /\ new[Newest(H)].entry = o.entry
    <3> HIDE DEF new
    <3> QED  BY <2>1, <2>5, <1>1
  <2> QED  BY <2>6 DEF H
<1> HIDE DEF cell, new
<1>4. /\ TableOf(new) = [k \in Key |-> cell(new, k)]
      /\ TableOf(ops) = [k \in Key |-> cell(ops, k)]
  BY DEF TableOf, cell
<1>5. o.key \in Key  BY DEF Op
<1>6. TableOf(new) = [TableOf(ops) EXCEPT ![o.key] = o.entry]
  BY <1>2, <1>3, <1>4, <1>5
<1> QED  BY <1>6 DEF Insert, new

-----------------------------------------------------------------------------
(* A repair.                                                               *)

\* What flags a segment: it is where the reader stops, and all below end well.
LEMMA FlaggedSegment ==
    ASSUME NEW dir, IsLog(dir), ~ResultOf(dir).clean
    PROVE  /\ ResultOf(dir).segment = StopSegment(dir)
           /\ ResultOf(dir).last_clean_offset = StopCell(Content(dir, StopSegment(dir))) - 1
           /\ StopSegment(dir) \in 1 .. LatestSegment(dir)
           /\ ~ReachedEof(Content(dir, StopSegment(dir)))
<1> DEFINE s == StopSegment(dir)
<1>1. s \in 0 .. LatestSegment(dir) /\ LatestSegment(dir) \in Nat
  BY StopSegmentBounds, LatestTyped, WALAssumption
<1>2. s # 0 /\ ~Clean(dir, s)  BY DEF ResultOf, CleanResult
<1>3. ResultOf(dir) = [clean |-> FALSE, segment |-> s,
                       last_clean_offset |-> StopCell(Content(dir, s)) - 1]
  BY <1>2 DEF ResultOf
<1> HIDE DEF s
<1>4. s \in 1 .. LatestSegment(dir)  BY <1>1, <1>2
<1>5. ~ReachedEof(Content(dir, s))  BY <1>2 DEF Clean
<1>6. /\ ResultOf(dir).segment = s
      /\ ResultOf(dir).last_clean_offset = StopCell(Content(dir, s)) - 1
  BY <1>3
<1> QED  BY <1>4, <1>5, <1>6 DEF s

LEMMA ResultTyped ==
    ASSUME NEW dir, IsLog(dir)
    PROVE  /\ ResultOf(dir) \in [clean : BOOLEAN, segment : 0 .. MaxLog,
                                 last_clean_offset : Nat]
           /\ ResultOf(dir).clean => ResultOf(dir) = CleanResult
<1> DEFINE s == StopSegment(dir)
           offset == StopCell(Content(dir, s)) - 1
<1>1. MaxLog \in Nat /\ s \in 0 .. MaxLog
  BY StopSegmentBounds, LatestTyped, WALAssumption
<1>2. offset \in Nat
  <2>1. Content(dir, s) \in LogSegment  BY ContentTyped
  <2>2. Len(Content(dir, s).cells) \in Nat
    <3>1. Content(dir, s).cells \in Seq(Record \cup {Close, Corrupt})
      BY <2>1 DEF LogSegment
    <3> QED  BY <3>1
  <2> QED  BY <2>1, <2>2, StopCellBounds
<1>3. \/ ResultOf(dir) = CleanResult
      \/ ResultOf(dir) = [clean |-> FALSE, segment |-> s,
                          last_clean_offset |-> offset]
  BY DEF ResultOf
<1> HIDE DEF s, offset
<1>4. CleanResult \in [clean : BOOLEAN, segment : 0 .. MaxLog,
                       last_clean_offset : Nat]
  BY <1>1 DEF CleanResult
<1>5. CASE ResultOf(dir) = CleanResult  BY <1>4, <1>5
<1>6. CASE ResultOf(dir) = [clean |-> FALSE, segment |-> s,
                            last_clean_offset |-> offset]
  <2>1. ~ResultOf(dir).clean  BY <1>6
  <2> QED  BY <2>1, <1>1, <1>2, <1>6
<1> QED  BY <1>3, <1>5, <1>6

\* The first records of a segment, all before the first cell that is none.
LEMMA CutTyped ==
    ASSUME NEW f \in LogSegment, NEW cut,
           cut = [cells |-> SubSeq(f.cells, 1, StopCell(f) - 1), torn |-> FALSE]
    PROVE  /\ cut \in LogSegment /\ Whole(cut)
           /\ StopCell(cut) = StopCell(f)
           /\ \A j \in 1 .. StopCell(f) - 1 : cut.cells[j] = f.cells[j]
<1> DEFINE s == StopCell(f)
<1>1. f.cells \in Seq(Record \cup {Close, Corrupt})  BY DEF LogSegment
<1>2. s \in 1 .. Len(f.cells) + 1 /\ \A i \in 1 .. s - 1 : IsRecord(f.cells[i])
  BY StopCellBounds
<1> HIDE DEF s
<1>3. Len(f.cells) \in Nat /\ s - 1 \in 0 .. Len(f.cells)  BY <1>1, <1>2
<1> DEFINE cs == SubSeq(f.cells, 1, s - 1)
<1>4. /\ cs \in Seq(Record \cup {Close, Corrupt}) /\ Len(cs) = s - 1
      /\ DOMAIN cs = 1 .. s - 1
      /\ \A j \in 1 .. s - 1 : cs[j] = f.cells[j]
  BY <1>1, <1>3
<1> HIDE DEF cs
<1>5. cut.cells = cs /\ cut.torn = FALSE /\ cut = [cells |-> cs, torn |-> FALSE]
  BY DEF cs, s
<1>6. cut \in LogSegment  BY <1>4, <1>5 DEF LogSegment
<1>7. Whole(cut)  BY <1>2, <1>4, <1>5 DEF Whole
<1>8. AtEnd(cut)  BY <1>6, <1>7, WholeAtEnd
<1>9. StopCell(cut) = s
  <2>1. StopCell(cut) = Len(cs) + 1  BY <1>5, <1>8 DEF AtEnd
  <2>2. s \in Int  BY <1>2, <1>3
  <2> QED  BY <2>1, <2>2, <1>4
<1> QED  BY <1>4, <1>5, <1>6, <1>7, <1>9 DEF s

\* Cutting the flagged segment keeps what is replayed.
LEMMA TruncateKeeps ==
    ASSUME NEW dir, IsLog(dir), ~ResultOf(dir).clean,
           NEW s, s = ResultOf(dir).segment, s \in DOMAIN dir,
           NEW new, new = WithFile(dir, s,
              [cells |-> SubSeq(dir[s].cells, 1, ResultOf(dir).last_clean_offset),
               torn  |-> FALSE])
    PROVE  /\ IsLog(new) /\ Whole(new[s])
           /\ \A i \in 1 .. s - 1 : ReachedEof(Content(new, i))
           /\ s \in 1 .. LatestSegment(new) /\ s \in DOMAIN new
           /\ Replayed(new) = Replayed(dir)
<1> DEFINE f == dir[s]
           cut == [cells |-> SubSeq(f.cells, 1, StopCell(f) - 1), torn |-> FALSE]
<1>1. /\ s = StopSegment(dir) /\ s \in 1 .. LatestSegment(dir)
      /\ ResultOf(dir).last_clean_offset = StopCell(Content(dir, s)) - 1
  BY FlaggedSegment
<1>2. f = Content(dir, s) /\ f \in LogSegment  BY DEF Content, IsLog
<1>3. /\ cut \in LogSegment /\ Whole(cut) /\ StopCell(cut) = StopCell(f)
      /\ \A j \in 1 .. StopCell(f) - 1 : cut.cells[j] = f.cells[j]
  BY <1>2, CutTyped
<1>4. new = WithFile(dir, s, cut)
  <2>1. ResultOf(dir).last_clean_offset = StopCell(f) - 1  BY <1>1, <1>2
  <2> QED  BY <2>1
<1> HIDE DEF f, cut
<1>5. s \in 1 .. MaxLog  BY DEF IsLog
<1>6. IsLog(new)  BY <1>3, <1>4, <1>5, WithFileIsLog
<1>7. /\ Content(new, s) = cut
      /\ \A n : n # s => Content(new, n) = Content(dir, n)
  BY <1>4, ContentWithFile
<1>8. s \in DOMAIN new /\ new[s] = cut  BY <1>4 DEF WithFile
<1>9. LatestSegment(new) \in Nat /\ s \in 1 .. LatestSegment(new)
  BY <1>5, <1>6, <1>8, LatestTyped, WALAssumption
<1>10. \A i \in 1 .. s - 1 : ReachedEof(Content(new, i))
  <2> TAKE i \in 1 .. s - 1
  <2>1. i # s  BY <1>5
  <2>2. ReachedEof(Content(dir, i))  BY <1>1, StopSegmentBounds
  <2> QED  BY <2>1, <2>2, <1>7
<1>11. ~ReachedEof(Content(new, s))  BY <1>3, <1>7, WholeAtEnd
<1>12. StopSegment(new) = s  BY <1>6, <1>9, <1>10, <1>11, StopSegmentIs
<1>13. \A n \in 1 .. StopSegment(dir) :
          /\ StopCell(Content(new, n)) = StopCell(Content(dir, n))
          /\ \A j \in 1 .. StopCell(Content(dir, n)) - 1 :
                Content(new, n).cells[j] = Content(dir, n).cells[j]
  <2> TAKE n \in 1 .. StopSegment(dir)
  <2>1. CASE n = s  BY <2>1, <1>2, <1>3, <1>7
  <2>2. CASE n # s  BY <2>2, <1>7
  <2> QED  BY <2>1, <2>2
<1>14. Replayed(new) = Replayed(dir)  BY <1>1, <1>12, <1>13, SameReplayed
<1> QED  BY <1>3, <1>6, <1>8, <1>9, <1>10, <1>14

\* Removing a segment above a cut one keeps what is replayed.
LEMMA DropKeeps ==
    ASSUME NEW dir, IsLog(dir), NEW s \in DOMAIN dir, Whole(dir[s]),
           \A i \in 1 .. s - 1 : ReachedEof(Content(dir, i)),
           NEW n \in DOMAIN dir, n > s,
           NEW new, new = WithoutFile(dir, n)
    PROVE  /\ IsLog(new) /\ s \in DOMAIN new /\ Whole(new[s])
           /\ \A i \in 1 .. s - 1 : ReachedEof(Content(new, i))
           /\ Replayed(new) = Replayed(dir)
<1>1. IsLog(new)  BY WithoutFileIsLog
<1>2. s \in 1 .. MaxLog /\ n \in 1 .. MaxLog /\ MaxLog \in Nat
  BY WALAssumption DEF IsLog
<1>3. s \in DOMAIN new /\ new[s] = dir[s]  BY <1>2 DEF WithoutFile
<1>4. \A i \in 1 .. s : Content(new, i) = Content(dir, i)
  <2> TAKE i \in 1 .. s
  <2>1. i # n  BY <1>2
  <2> QED  BY <2>1, ContentWithoutFile
<1>5. \A i \in 1 .. s - 1 : ReachedEof(Content(new, i))
  <2> TAKE i \in 1 .. s - 1
  <2>1. i \in 1 .. s  BY <1>2
  <2> QED  BY <2>1, <1>4
<1>6. ~ReachedEof(Content(dir, s)) /\ Content(dir, s) = dir[s]
  <2>1. Content(dir, s) = dir[s] /\ dir[s] \in LogSegment
    BY DEF Content, IsLog
  <2> QED  BY <2>1, WholeAtEnd
<1>7. ~ReachedEof(Content(new, s))
  <2>1. s \in 1 .. s  BY <1>2
  <2> QED  BY <2>1, <1>4, <1>6
<1>8. s \in 1 .. LatestSegment(dir) /\ s \in 1 .. LatestSegment(new)
  BY <1>1, <1>2, <1>3, LatestTyped
<1>9. StopSegment(dir) = s  BY <1>6, <1>8, StopSegmentIs
<1>10. StopSegment(new) = s  BY <1>1, <1>5, <1>7, <1>8, StopSegmentIs
<1>11. Replayed(new) = Replayed(dir)  BY <1>4, <1>9, <1>10, SameReplayed
<1> QED  BY <1>1, <1>3, <1>5, <1>11

\* Once nothing is above the cut segment, nothing is left to repair.
LEMMA DropEnds ==
    ASSUME NEW dir, IsLog(dir), NEW s \in DOMAIN dir, Whole(dir[s]),
           \A i \in 1 .. s - 1 : ReachedEof(Content(dir, i)),
           {n \in DOMAIN dir : n > s} = {}
    PROVE  ResultOf(dir) = CleanResult
<1>1. s \in 1 .. MaxLog /\ MaxLog \in Nat  BY WALAssumption DEF IsLog
<1>2. /\ LatestSegment(dir) \in 0 .. MaxLog
      /\ LatestSegment(dir) \in DOMAIN dir \cup {0}
      /\ s <= LatestSegment(dir)
  BY LatestTyped
<1>3. s = LatestSegment(dir)
  <2>1. LatestSegment(dir) \in DOMAIN dir  BY <1>1, <1>2
  <2>2. ~ (LatestSegment(dir) > s)  BY <2>1
  <2> QED  BY <2>2, <1>1, <1>2
<1>4. s \in 1 .. LatestSegment(dir)  BY <1>1, <1>3
<1>5. StopSegment(dir) = s  BY <1>3, <1>4, StopSegmentIs
<1>6. Content(dir, s) = dir[s] /\ dir[s] \in LogSegment
  BY DEF Content, IsLog
<1>7. Clean(dir, s)  BY <1>3, <1>6, WholeAtEnd DEF Clean, Whole
<1> QED  BY <1>5, <1>7 DEF ResultOf

-----------------------------------------------------------------------------
(* What the log holds, segment by segment.                                 *)

\* Spoiling a record ends no segment well.
LEMMA SpoiledSegment ==
    ASSUME NEW f \in LogSegment, NEW j \in DOMAIN f.cells,
           NEW g, g = [cells |-> [f.cells EXCEPT ![j] = Corrupt], torn |-> f.torn]
    PROVE  /\ g \in LogSegment
           /\ ReachedEof(g) => ReachedEof(f)
<1> DEFINE N == Len(f.cells)
           s == StopCell(g)
<1>1. f.cells \in Seq(Record \cup {Close, Corrupt}) /\ f.torn \in BOOLEAN
  BY DEF LogSegment
<1>2. N \in Nat /\ j \in 1 .. N /\ DOMAIN f.cells = 1 .. N  BY <1>1
<1>3. /\ g.cells \in Seq(Record \cup {Close, Corrupt}) /\ Len(g.cells) = N
      /\ g.cells[j] = Corrupt
      /\ \A i \in 1 .. N : i # j => g.cells[i] = f.cells[i]
  BY <1>1, <1>2
<1>4. g \in LogSegment  BY <1>1, <1>3 DEF LogSegment
<1>5. ASSUME ReachedEof(g) PROVE ReachedEof(f)
  <2>1. /\ s \in 1 .. N + 1
        /\ \A i \in 1 .. s - 1 : IsRecord(g.cells[i])
    BY <1>3, <1>4, StopCellBounds
  <2>2. s # N + 1 /\ g.cells[s] = Close  BY <1>3, <1>5 DEF ReachedEof, AtEnd
  <2> HIDE DEF s
  <2>3. s \in 1 .. N /\ s # j  BY <1>2, <1>3, <2>1, <2>2, WALAssumption
  <2>4. f.cells[s] = Close  BY <1>3, <2>2, <2>3
  <2>5. \A i \in 1 .. s - 1 : IsRecord(f.cells[i])
    <3> TAKE i \in 1 .. s - 1
    <3>1. i \in 1 .. N /\ IsRecord(g.cells[i])  BY <1>2, <2>1, <2>3
    <3>2. i # j  BY <1>3, <3>1 DEF IsRecord
    <3> QED  BY <1>3, <3>1, <3>2
  <2>6. ~IsRecord(f.cells[s])  BY <2>4 DEF IsRecord
  <2>7. StopCell(f) = s  BY <2>1, <2>5, <2>6, StopCellIs
  <2>8. ~ (s = N + 1)  BY <2>2
  <2> QED  BY <2>4, <2>7, <2>8 DEF ReachedEof, AtEnd
<1> QED  BY <1>4, <1>5

LEMMA CellsReplaced ==
    ASSUME NEW f \in LogSegment, NEW cs
    PROVE  [f EXCEPT !.cells = cs] = [cells |-> cs, torn |-> f.torn]
BY DEF LogSegment

OpsOf(dir, m) == [n \in 1 .. m |-> Ops(Content(dir, n))]

LEMMA OpsTyped ==
    ASSUME NEW f \in LogSegment
    PROVE  Ops(f) \in Seq(Op) /\ Len(Ops(f)) = StopCell(f) - 1
<1> DEFINE s == StopCell(f)
<1>1. f.cells \in Seq(Record \cup {Close, Corrupt})  BY DEF LogSegment
<1>2. s \in 1 .. Len(f.cells) + 1 /\ \A i \in 1 .. s - 1 : IsRecord(f.cells[i])
  BY StopCellBounds
<1> HIDE DEF s
<1>3. s - 1 \in Nat /\ 1 .. s - 1 \subseteq 1 .. Len(f.cells)  BY <1>1, <1>2
<1>4. \A j \in 1 .. s - 1 : f.cells[j].op \in Op
  <2> TAKE j \in 1 .. s - 1
  <2>1. f.cells[j] \in Record \cup {Close, Corrupt}  BY <1>1, <1>3
  <2>2. f.cells[j] \in Record  BY <1>2, <2>1 DEF IsRecord
  <2> QED  BY <2>2 DEF Record
<1>5. [j \in 1 .. s - 1 |-> f.cells[j].op] \in Seq(Op)  BY <1>3, <1>4
<1>6. Len([j \in 1 .. s - 1 |-> f.cells[j].op]) = s - 1  BY <1>3
<1> QED  BY <1>5, <1>6 DEF Ops, s

LEMMA OpsOfTyped ==
    ASSUME NEW dir, IsLog(dir), NEW m \in Nat
    PROVE  /\ OpsOf(dir, m) \in Seq(Seq(Op)) /\ Len(OpsOf(dir, m)) = m
           /\ \A n \in 1 .. m : OpsOf(dir, m)[n] = Ops(Content(dir, n))
<1>1. \A n \in 1 .. m : Ops(Content(dir, n)) \in Seq(Op)
  BY ContentTyped, OpsTyped
<1> QED  BY <1>1 DEF OpsOf

LEMMA ReplayedIs ==
    ASSUME NEW dir
    PROVE  /\ Replayed(dir) = FlattenSeq(OpsOf(dir, StopSegment(dir)))
           /\ Logged(dir) = FlattenSeq(OpsOf(dir, LatestSegment(dir)))
BY DEF Replayed, Logged, OpsOf, Ops

LEMMA LoggedTyped ==
    ASSUME NEW dir, IsLog(dir)
    PROVE  Logged(dir) \in Seq(Op)
<1>1. LatestSegment(dir) \in Nat  BY LatestTyped, WALAssumption
<1> QED  BY <1>1, OpsOfTyped, FlattenTyped, ReplayedIs

\* A reader gets a prefix of what the log holds, and all of a clean log.
LEMMA ReplayedPrefix ==
    ASSUME NEW dir, IsLog(dir)
    PROVE  /\ IsPrefix(Replayed(dir), Logged(dir))
           /\ StopSegment(dir) = LatestSegment(dir) => Replayed(dir) = Logged(dir)
<1> DEFINE s == StopSegment(dir)
           L == LatestSegment(dir)
           a == OpsOf(dir, s)
           b == OpsOf(dir, L)
<1>1. L \in Nat /\ s \in Nat /\ s <= L
  BY LatestTyped, WALAssumption, StopSegmentBounds
<1>2. /\ a \in Seq(Seq(Op)) /\ Len(a) = s
      /\ \A n \in 1 .. s : a[n] = Ops(Content(dir, n))
  BY <1>1, OpsOfTyped
<1>3. /\ b \in Seq(Seq(Op)) /\ Len(b) = L
      /\ \A n \in 1 .. L : b[n] = Ops(Content(dir, n))
  BY <1>1, OpsOfTyped
<1>4. Replayed(dir) = FlattenSeq(a) /\ Logged(dir) = FlattenSeq(b)
  BY ReplayedIs
<1> HIDE DEF s, L, a, b
<1>5. \A n \in 1 .. s : a[n] = b[n] /\ a[n] \in Seq(Op)
  <2> TAKE n \in 1 .. s
  <2>1. n \in 1 .. L  BY <1>1
  <2> QED  BY <1>2, <1>3, <2>1
<1>6. \A n \in 1 .. Len(a) - 1 : a[n] = b[n]  BY <1>1, <1>2, <1>5
<1>7. Len(a) # 0 => IsPrefix(a[Len(a)], b[Len(a)])
  <2> SUFFICES ASSUME Len(a) # 0 PROVE IsPrefix(a[Len(a)], b[Len(a)])
    OBVIOUS
  <2>1. Len(a) \in 1 .. s  BY <1>1, <1>2
  <2>2. a[Len(a)] = b[Len(a)] /\ a[Len(a)] \in Seq(Op)  BY <1>5, <2>1
  <2> QED  BY <2>2, PrefixSame
<1>8. IsPrefix(FlattenSeq(a), FlattenSeq(b))
  BY <1>1, <1>2, <1>3, <1>6, <1>7, FlattenPrefix
<1>9. ASSUME s = L PROVE Replayed(dir) = Logged(dir)
  BY <1>9, ReplayedIs DEF s, L
<1> QED  BY <1>4, <1>8, <1>9 DEF s, L

\* Less can be read of a log none of whose segments ends well that did not, and
\* of each of whose segments a prefix is read.
LEMMA ReplayedShrinks ==
    ASSUME NEW dir, IsLog(dir), NEW new, IsLog(new),
           LatestSegment(new) <= LatestSegment(dir),
           \A n \in 1 .. LatestSegment(new) :
              /\ IsPrefix(Ops(Content(new, n)), Ops(Content(dir, n)))
              /\ ReachedEof(Content(new, n)) =>
                    /\ ReachedEof(Content(dir, n))
                    /\ Ops(Content(new, n)) = Ops(Content(dir, n))
    PROVE  IsPrefix(Replayed(new), Replayed(dir))
<1> DEFINE s == StopSegment(new)
           t == StopSegment(dir)
           a == OpsOf(new, s)
           b == OpsOf(dir, t)
<1>1. /\ LatestSegment(new) \in Nat /\ LatestSegment(dir) \in Nat
      /\ s \in 0 .. LatestSegment(new) /\ t \in 0 .. LatestSegment(dir)
      /\ \A i \in 1 .. s - 1 : ReachedEof(Content(new, i))
      /\ t = LatestSegment(dir) \/ ~Clean(dir, t)
      /\ t = 0 => LatestSegment(dir) = 0
  BY LatestTyped, WALAssumption, StopSegmentBounds
<1> HIDE DEF s, t
<1>2. \A i \in 1 .. s - 1 :
         /\ ReachedEof(Content(dir, i))
         /\ Ops(Content(new, i)) = Ops(Content(dir, i))
  <2> TAKE i \in 1 .. s - 1
  <2>1. i \in 1 .. LatestSegment(new)  BY <1>1
  <2> QED  BY <1>1, <2>1
<1>3. s <= t
  <2> SUFFICES ASSUME ~ (s <= t) PROVE FALSE  OBVIOUS
  <2>1. t # LatestSegment(dir) /\ t # 0 /\ t \in 1 .. s - 1  BY <1>1
  <2>2. Clean(dir, t)  BY <1>2, <2>1 DEF Clean
  <2> QED  BY <1>1, <2>1, <2>2
<1>4. s \in Nat /\ t \in Nat  BY <1>1
<1>5. /\ a \in Seq(Seq(Op)) /\ Len(a) = s
      /\ \A n \in 1 .. s : a[n] = Ops(Content(new, n))
  BY <1>4, OpsOfTyped
<1>6. /\ b \in Seq(Seq(Op)) /\ Len(b) = t
      /\ \A n \in 1 .. t : b[n] = Ops(Content(dir, n))
  BY <1>4, OpsOfTyped
<1>7. Replayed(new) = FlattenSeq(a) /\ Replayed(dir) = FlattenSeq(b)
  BY ReplayedIs DEF s, t
<1> HIDE DEF a, b
<1>8. \A n \in 1 .. Len(a) - 1 : a[n] = b[n]
  <2> TAKE n \in 1 .. Len(a) - 1
  <2>1. n \in 1 .. s - 1 /\ n \in 1 .. s /\ n \in 1 .. t  BY <1>3, <1>4, <1>5
  <2> QED  BY <1>2, <1>5, <1>6, <2>1
<1>9. Len(a) # 0 => IsPrefix(a[Len(a)], b[Len(a)])
  <2> SUFFICES ASSUME Len(a) # 0 PROVE IsPrefix(a[Len(a)], b[Len(a)])
    OBVIOUS
  <2>1. s \in 1 .. s /\ s \in 1 .. t /\ s \in 1 .. LatestSegment(new)
    BY <1>1, <1>3, <1>4, <1>5
  <2>2. a[s] = Ops(Content(new, s)) /\ b[s] = Ops(Content(dir, s))
    BY <1>5, <1>6, <2>1
  <2>3. IsPrefix(Ops(Content(new, s)), Ops(Content(dir, s)))  BY <2>1
  <2> QED  BY <1>5, <2>2, <2>3
<1> QED  BY <1>3, <1>5, <1>6, <1>7, <1>8, <1>9, FlattenPrefix

LEMMA OpsPrefix ==
    ASSUME NEW f \in LogSegment, NEW g \in LogSegment,
           StopCell(g) <= StopCell(f),
           \A j \in 1 .. StopCell(g) - 1 : g.cells[j] = f.cells[j]
    PROVE  /\ IsPrefix(Ops(g), Ops(f))
           /\ StopCell(g) = StopCell(f) => Ops(g) = Ops(f)
<1> DEFINE s == StopCell(g)
           t == StopCell(f)
<1>1. s \in Nat /\ t \in Nat /\ s <= t
  <2>1. f.cells \in Seq(Record \cup {Close, Corrupt})
        /\ g.cells \in Seq(Record \cup {Close, Corrupt})
    BY DEF LogSegment
  <2>2. s \in 1 .. Len(g.cells) + 1 /\ t \in 1 .. Len(f.cells) + 1
    BY StopCellBounds
  <2> HIDE DEF s, t
  <2>3. s \in Nat /\ t \in Nat  BY <2>1, <2>2
  <2> QED  BY <2>3 DEF s, t
<1>2. /\ Ops(g) \in Seq(Op) /\ Len(Ops(g)) = s - 1
      /\ Ops(f) \in Seq(Op) /\ Len(Ops(f)) = t - 1
  BY OpsTyped
<1>3. \A j \in 1 .. s - 1 : Ops(g)[j] = Ops(f)[j]
  <2> TAKE j \in 1 .. s - 1
  <2>1. j \in 1 .. t - 1  BY <1>1
  <2>2. Ops(g)[j] = g.cells[j].op  BY DEF Ops
  <2>3. Ops(f)[j] = f.cells[j].op  BY <2>1 DEF Ops
  <2>4. g.cells[j] = f.cells[j]  OBVIOUS
  <2> QED  BY <2>2, <2>3, <2>4, Zenon
<1> HIDE DEF s, t
<1>4. Len(Ops(g)) <= Len(Ops(f)) /\ \A j \in 1 .. Len(Ops(g)) : Ops(g)[j] = Ops(f)[j]
  BY <1>1, <1>2, <1>3
<1>5. IsPrefix(Ops(g), Ops(f))  BY <1>2, <1>4, PrefixIs
<1>6. ASSUME s = t PROVE Ops(g) = Ops(f)
  BY <1>2, <1>3, <1>6
<1> QED  BY <1>5, <1>6 DEF s, t

LEMMA EmptyIsWhole ==
    /\ EmptySegment \in LogSegment /\ Whole(EmptySegment)
    /\ Ops(EmptySegment) = << >>
<1>1. << >> \in Seq(Record \cup {Close, Corrupt})  OBVIOUS
<1>2. EmptySegment \in LogSegment  BY <1>1 DEF EmptySegment, LogSegment
<1>3. Whole(EmptySegment)  BY DEF Whole, EmptySegment
<1>4. AtEnd(EmptySegment)  BY <1>2, <1>3, WholeAtEnd
<1>5. StopCell(EmptySegment) = 1  BY <1>4 DEF AtEnd, EmptySegment
<1>6. Ops(EmptySegment) = << >>
  <2>1. Ops(EmptySegment) \in Seq(Op) /\ Len(Ops(EmptySegment)) = 0
    BY <1>2, <1>5, OpsTyped
  <2> QED  BY <2>1
<1> QED  BY <1>2, <1>3, <1>6

\* A record appended to a whole segment is the last thing read from it.
LEMMA RecordAppended ==
    ASSUME NEW f \in LogSegment, Whole(f), NEW r \in Record,
           NEW g, g = AppendCell(f, r)
    PROVE  /\ g \in LogSegment /\ Whole(g)
           /\ Ops(g) = Ops(f) \o <<r.op>>
<1> DEFINE N == Len(f.cells)
<1>1. /\ f.cells \in Seq(Record \cup {Close, Corrupt}) /\ f.torn = FALSE
      /\ N \in Nat /\ DOMAIN f.cells = 1 .. N
      /\ \A j \in 1 .. N : IsRecord(f.cells[j])
  BY DEF LogSegment, Whole
<1>2. g = [cells |-> Append(f.cells, r), torn |-> FALSE]
  BY <1>1, CellsReplaced DEF AppendCell
<1>3. g \in LogSegment
  <2>1. Append(f.cells, r) \in Seq(Record \cup {Close, Corrupt})  BY <1>1
  <2> QED  BY <1>2, <2>1 DEF LogSegment
<1>4. /\ g.torn = FALSE /\ Len(g.cells) = N + 1 /\ DOMAIN g.cells = 1 .. N + 1
      /\ g.cells[N + 1] = r
      /\ \A j \in 1 .. N : g.cells[j] = f.cells[j]
  BY <1>1, <1>2
<1>5. IsRecord(r)  BY CellsAssumption DEF IsRecord
<1> HIDE DEF N
<1>6. Whole(g)
  <2>1. \A j \in 1 .. N + 1 : IsRecord(g.cells[j])
    <3> TAKE j \in 1 .. N + 1
    <3>1. j = N + 1 \/ j \in 1 .. N  BY <1>1
    <3> QED  BY <3>1, <1>1, <1>4, <1>5
  <2> QED  BY <1>4, <2>1 DEF Whole
<1>7. StopCell(f) = N + 1 /\ StopCell(g) = N + 2
  <2>1. AtEnd(f) /\ AtEnd(g)  BY <1>3, <1>6, WholeAtEnd
  <2> QED  BY <2>1, <1>1, <1>4 DEF AtEnd, N
<1>8. /\ Ops(f) \in Seq(Op) /\ Len(Ops(f)) = N
      /\ Ops(g) \in Seq(Op) /\ Len(Ops(g)) = N + 1
  BY <1>1, <1>3, <1>7, OpsTyped
<1>9. Ops(g)[N + 1] = r.op
  <2>1. N + 1 \in 1 .. StopCell(g) - 1  BY <1>1, <1>7
  <2> QED  BY <2>1, <1>4 DEF Ops
<1>10. \A j \in 1 .. N : Ops(g)[j] = Ops(f)[j]
  <2> TAKE j \in 1 .. N
  <2>1. j \in 1 .. StopCell(g) - 1 /\ j \in 1 .. StopCell(f) - 1  BY <1>1, <1>7
  <2>2. Ops(g)[j] = g.cells[j].op /\ Ops(f)[j] = f.cells[j].op
    BY <2>1 DEF Ops
  <2> QED  BY <2>2, <1>4, Zenon
<1>11. r.op \in Op  BY DEF Record
<1>12. Ops(g) = Ops(f) \o <<r.op>>
  <2>1. Ops(f) \o <<r.op>> \in Seq(Op) /\ Len(Ops(f) \o <<r.op>>) = N + 1
    BY <1>8, <1>11
  <2>2. \A j \in 1 .. N + 1 : Ops(g)[j] = (Ops(f) \o <<r.op>>)[j]
    <3> TAKE j \in 1 .. N + 1
    <3>1. j = N + 1 \/ j \in 1 .. N  BY <1>1
    <3> QED  BY <3>1, <1>8, <1>9, <1>10, <1>11
  <2> QED  BY <1>8, <2>1, <2>2
<1> QED  BY <1>3, <1>6, <1>12

\* A CLOSE record appended to a whole segment, or half a record to any, adds
\* nothing to what is read.
LEMMA CloseAppended ==
    ASSUME NEW f \in LogSegment, Whole(f), NEW g, g = AppendCell(f, Close)
    PROVE  /\ g \in LogSegment /\ Ops(g) = Ops(f)
           /\ Size(g) = Size(f) + 2
<1> DEFINE N == Len(f.cells)
<1>1. /\ f.cells \in Seq(Record \cup {Close, Corrupt}) /\ f.torn = FALSE
      /\ N \in Nat /\ DOMAIN f.cells = 1 .. N
      /\ \A j \in 1 .. N : IsRecord(f.cells[j])
  BY DEF LogSegment, Whole
<1>2. g = [cells |-> Append(f.cells, Close), torn |-> FALSE]
  BY <1>1, CellsReplaced DEF AppendCell
<1>3. g \in LogSegment
  <2>1. Append(f.cells, Close) \in Seq(Record \cup {Close, Corrupt})  BY <1>1
  <2> QED  BY <1>2, <2>1 DEF LogSegment
<1>4. /\ g.torn = FALSE /\ Len(g.cells) = N + 1
      /\ g.cells[N + 1] = Close
      /\ \A j \in 1 .. N : g.cells[j] = f.cells[j]
  BY <1>1, <1>2
<1>5. Size(g) = Size(f) + 2
  <2>1. Size(f) = 2 * N + 0  BY <1>1 DEF Size
  <2>2. Size(g) = 2 * Len(g.cells) + 0  BY <1>4 DEF Size
  <2> HIDE DEF N
  <2> QED  BY <1>1, <1>4, <2>1, <2>2
<1> HIDE DEF N
<1>6. StopCell(f) = N + 1
  <2>1. AtEnd(f)  BY WholeAtEnd
  <2> QED  BY <2>1 DEF AtEnd, N
<1>7. StopCell(g) = N + 1
  <2> DEFINE M == N + 1
  <2>1. M \in 1 .. Len(g.cells) + 1  BY <1>1, <1>4
  <2>2. ~IsRecord(g.cells[M])  BY <1>4 DEF IsRecord
  <2>3. \A j \in 1 .. M - 1 : IsRecord(g.cells[j])
    <3> TAKE j \in 1 .. M - 1
    <3>1. j \in 1 .. N  BY <1>1
    <3> QED  BY <1>1, <1>4, <3>1
  <2> HIDE DEF M
  <2>4. StopCell(g) = M  BY <1>3, <2>1, <2>2, <2>3, StopCellIs
  <2> QED  BY <2>4 DEF M
<1>8. Ops(g) = Ops(f)
  <2>1. StopCell(g) <= StopCell(f) /\ StopCell(g) = StopCell(f)
    BY <1>1, <1>6, <1>7
  <2>2. \A j \in 1 .. StopCell(g) - 1 : g.cells[j] = f.cells[j]
    <3> TAKE j \in 1 .. StopCell(g) - 1
    <3>1. j \in 1 .. N  BY <1>1, <1>7
    <3> QED  BY <1>4, <3>1
  <2> QED  BY <1>3, <2>1, <2>2, OpsPrefix
<1> QED  BY <1>3, <1>5, <1>8

LEMMA HalfAppended ==
    ASSUME NEW f \in LogSegment, ~f.torn
    PROVE  /\ AppendHalf(f) \in LogSegment /\ Ops(AppendHalf(f)) = Ops(f)
           /\ AppendHalf(f).cells = f.cells
           /\ Size(AppendHalf(f)) = Size(f) + 1
<1>1. AppendHalf(f) = [cells |-> f.cells, torn |-> TRUE]  BY DEF AppendHalf
<1>2. StopCell(AppendHalf(f)) = StopCell(f)  BY <1>1 DEF StopCell
<1>3. Len(f.cells) \in Nat
  <2>1. f.cells \in Seq(Record \cup {Close, Corrupt})  BY DEF LogSegment
  <2> QED  BY <2>1
<1>4. Ops(AppendHalf(f)) = Ops(f) /\ AppendHalf(f).cells = f.cells
  <2>1. AppendHalf(f).cells = f.cells  BY <1>1
  <2> QED  BY <1>2, <2>1 DEF Ops
<1>5. Size(AppendHalf(f)) = Size(f) + 1
  <2> DEFINE N == Len(f.cells)
  <2>1. Size(f) = 2 * N + 0  BY DEF Size
  <2>2. Size(AppendHalf(f)) = 2 * N + 1  BY <1>1 DEF Size
  <2>3. N \in Nat  BY <1>3
  <2> HIDE DEF N
  <2> QED  BY <2>1, <2>2, <2>3
<1>6. AppendHalf(f) \in LogSegment  BY AppendHalfTyped
<1> QED  BY <1>4, <1>5, <1>6

\* Writing to the latest segment, or to a new one behind it, adds to what the
\* log holds what it adds to that segment.
LEMMA LoggedWith ==
    ASSUME NEW dir, IsLog(dir), NEW p \in 1 .. MaxLog, NEW c \in LogSegment,
           p \in {LatestSegment(dir), LatestSegment(dir) + 1},
           NEW x \in Seq(Op), Ops(c) = Ops(Content(dir, p)) \o x
    PROVE  Logged(WithFile(dir, p, c)) = Logged(dir) \o x
<1> DEFINE new == WithFile(dir, p, c)
           L == LatestSegment(dir)
           a == OpsOf(dir, L)
           b == OpsOf(new, p)
<1>1. IsLog(new) /\ LatestSegment(new) = p
  BY WithFileIsLog, LatestWithFile
<1>2. Content(new, p) = c /\ \A n : n # p => Content(new, n) = Content(dir, n)
  BY ContentWithFile
<1>3. L \in Nat /\ p \in Nat /\ p # 0  BY LatestTyped, WALAssumption
<1>4. /\ a \in Seq(Seq(Op)) /\ Len(a) = L
      /\ \A n \in 1 .. L : a[n] = Ops(Content(dir, n))
  BY <1>3, OpsOfTyped
<1> HIDE DEF new
<1>5. /\ b \in Seq(Seq(Op)) /\ Len(b) = p
      /\ \A n \in 1 .. p : b[n] = Ops(Content(new, n))
  BY <1>1, <1>3, OpsOfTyped
<1>6. Logged(dir) = FlattenSeq(a) /\ Logged(new) = FlattenSeq(b)
  BY <1>1, ReplayedIs
<1> HIDE DEF a, b
<1>7. b[p] = Ops(Content(dir, p)) \o x
  <2>1. p \in 1 .. p  BY <1>3
  <2> QED  BY <1>2, <1>5, <2>1
<1>8. ASSUME NEW n \in 1 .. p, n # p, n \in 1 .. L PROVE b[n] = a[n]
  BY <1>2, <1>4, <1>5, <1>8
<1>9. CASE p = L
  <2>1. Len(a) # 0 /\ Len(b) = Len(a)  BY <1>3, <1>4, <1>5, <1>9
  <2>2. \A n \in 1 .. Len(a) - 1 : b[n] = a[n]
    <3> TAKE n \in 1 .. Len(a) - 1
    <3>1. n \in 1 .. p /\ n # p /\ n \in 1 .. L  BY <1>3, <1>4, <1>9
    <3> QED  BY <1>8, <3>1
  <2>3. b[Len(a)] = a[Len(a)] \o x
    <3>1. p \in 1 .. L  BY <1>3, <1>9
    <3>2. a[p] = Ops(Content(dir, p))  BY <1>4, <3>1
    <3> QED  BY <1>4, <1>7, <1>9, <3>2
  <2>4. LastGrows(Op, a, b, x)
    BY <1>4, <1>5, <2>1, <2>2, <2>3 DEF LastGrows
  <2>5. FlattenSeq(b) = FlattenSeq(a) \o x  BY <2>4, FlattenExtended
  <2> QED  BY <1>6, <2>5 DEF new
<1>10. CASE p = L + 1
  <2>1. Len(b) = Len(a) + 1  BY <1>4, <1>5, <1>10
  <2>2. \A n \in 1 .. Len(a) : b[n] = a[n]
    <3> TAKE n \in 1 .. Len(a)
    <3>1. n \in 1 .. p /\ n # p /\ n \in 1 .. L  BY <1>3, <1>4, <1>10
    <3> QED  BY <1>8, <3>1
  <2>3. p \notin DOMAIN dir
    <3>1. \A n \in DOMAIN dir : n <= L  BY LatestTyped
    <3>2. ~ (p <= L)  BY <1>3, <1>10
    <3> QED  BY <3>1, <3>2
  <2>4. b[p] = x
    <3>1. Ops(Content(dir, p)) = << >>  BY <2>3, EmptyIsWhole DEF Content
    <3>2. << >> \o x = x  OBVIOUS
    <3> QED  BY <1>7, <3>1, <3>2
  <2>5. FlattenSeq(b) = FlattenSeq(a) \o b[Len(b)]
    BY <1>4, <1>5, <2>1, <2>2, FlattenOneMore
  <2> QED  BY <1>5, <1>6, <2>4, <2>5 DEF new
<1> QED  BY <1>9, <1>10

\* Before anything is logged, and once the log is cleared, nothing is in it.
LEMMA EmptyLog ==
    ASSUME NEW dir, DOMAIN dir = {}
    PROVE  Logged(dir) = << >> /\ Replayed(dir) = << >>
<1>1. IsLog(dir)  BY DEF IsLog
<1>2. LatestSegment(dir) = 0  BY <1>1, LatestTyped
<1>3. StopSegment(dir) = 0  BY <1>1, <1>2, StopSegmentBounds
<1>4. OpsOf(dir, 0) \in Seq(Seq(Op)) /\ Len(OpsOf(dir, 0)) = 0
  BY <1>1, OpsOfTyped
<1>5. FlattenSeq(OpsOf(dir, 0)) = << >>  BY <1>4, FlattenIs
<1> QED  BY <1>2, <1>3, <1>5, ReplayedIs

\* A clean log is read to the end of its latest segment.
LEMMA CleanLog ==
    ASSUME NEW dir, IsLog(dir), ResultOf(dir) = CleanResult
    PROVE  /\ StopSegment(dir) = LatestSegment(dir)
           /\ LatestSegment(dir) # 0 => Clean(dir, LatestSegment(dir))
<1>1. StopSegment(dir) = 0 \/ Clean(dir, StopSegment(dir))
  <2> SUFFICES ASSUME ~ (StopSegment(dir) = 0 \/ Clean(dir, StopSegment(dir)))
               PROVE  FALSE
    OBVIOUS
  <2>1. ResultOf(dir).clean = FALSE  BY DEF ResultOf
  <2> QED  BY <2>1 DEF CleanResult
<1>2. /\ StopSegment(dir) = 0 => LatestSegment(dir) = 0
      /\ StopSegment(dir) = LatestSegment(dir) \/ ~Clean(dir, StopSegment(dir))
  BY StopSegmentBounds
<1> QED  BY <1>1, <1>2

\* Of a sealed log everything is read.
LEMMA SealedLog ==
    ASSUME NEW dir, IsLog(dir),
           \A n \in 1 .. LatestSegment(dir) - 1 : ReachedEof(Content(dir, n))
    PROVE  Replayed(dir) = Logged(dir)
<1>1. LatestSegment(dir) \in Nat  BY LatestTyped, WALAssumption
<1>2. CASE LatestSegment(dir) = 0
  <2>1. StopSegment(dir) = 0  BY <1>2, StopSegmentBounds
  <2> QED  BY <1>2, <2>1, ReplayedPrefix
<1>3. CASE LatestSegment(dir) # 0
  <2>1. LatestSegment(dir) \in 1 .. LatestSegment(dir)  BY <1>1, <1>3
  <2>2. StopSegment(dir) = LatestSegment(dir)  BY <2>1, StopSegmentIs
  <2> QED  BY <2>2, ReplayedPrefix
<1> QED  BY <1>2, <1>3

\* A spoiled record hides itself and what is behind it.
LEMMA SpoiledOps ==
    ASSUME NEW f \in LogSegment, NEW j \in DOMAIN f.cells,
           NEW g, g = [cells |-> [f.cells EXCEPT ![j] = Corrupt], torn |-> f.torn]
    PROVE  /\ g \in LogSegment /\ IsPrefix(Ops(g), Ops(f))
           /\ ReachedEof(g) => Ops(g) = Ops(f)
<1> DEFINE N == Len(f.cells)
           s == StopCell(f)
<1>1. f.cells \in Seq(Record \cup {Close, Corrupt}) /\ f.torn \in BOOLEAN
  BY DEF LogSegment
<1>2. N \in Nat /\ j \in 1 .. N /\ DOMAIN f.cells = 1 .. N  BY <1>1
<1>3. /\ Len(g.cells) = N /\ g.cells[j] = Corrupt /\ ~IsRecord(g.cells[j])
      /\ \A i \in 1 .. N : i # j => g.cells[i] = f.cells[i]
  BY <1>1, <1>2 DEF IsRecord
<1>4. g \in LogSegment  BY SpoiledSegment
<1>5. /\ s \in 1 .. N + 1
      /\ s <= N => ~IsRecord(f.cells[s])
      /\ \A i \in 1 .. s - 1 : IsRecord(f.cells[i])
  BY StopCellBounds
<1> HIDE DEF s, N
<1>6. CASE j < s
  <2>1. /\ j \in 1 .. Len(g.cells) + 1
        /\ \A i \in 1 .. j - 1 : IsRecord(g.cells[i]) /\ g.cells[i] = f.cells[i]
    BY <1>2, <1>3, <1>5, <1>6
  <2>2. StopCell(g) = j  BY <1>3, <1>4, <2>1, StopCellIs
  <2>3. StopCell(g) <= StopCell(f)  BY <1>2, <1>5, <1>6, <2>2 DEF s
  <2>4. IsPrefix(Ops(g), Ops(f))  BY <1>4, <2>1, <2>2, <2>3, OpsPrefix
  <2>5. ~ReachedEof(g)  BY <1>3, <2>2, WALAssumption DEF ReachedEof
  <2> QED  BY <1>4, <2>4, <2>5
<1>7. CASE ~ (j < s)
  <2>1. /\ s \in 1 .. Len(g.cells) + 1
        /\ \A i \in 1 .. s - 1 : IsRecord(g.cells[i]) /\ g.cells[i] = f.cells[i]
    BY <1>2, <1>3, <1>5, <1>7
  <2>2. s <= N => ~IsRecord(g.cells[s])
    <3>1. CASE s = j  BY <3>1, <1>3
    <3>2. CASE s # j  BY <3>2, <1>2, <1>3, <1>5
    <3> QED  BY <3>1, <3>2
  <2>3. StopCell(g) = s  BY <1>3, <1>4, <2>1, <2>2, StopCellIs
  <2>4. StopCell(g) <= StopCell(f)  BY <1>2, <1>5, <2>3 DEF s
  <2>5. IsPrefix(Ops(g), Ops(f)) /\ Ops(g) = Ops(f)
    BY <1>4, <2>1, <2>3, <2>4, OpsPrefix DEF s
  <2> QED  BY <1>4, <2>5
<1> QED  BY <1>6, <1>7

HasClose(f) == \E i \in DOMAIN f.cells : f.cells[i] = Close

\* A spoiled record shortens what is replayed, and no CLOSE record is new.
LEMMA RotShrinks ==
    ASSUME NEW dir, IsLog(dir), NEW n \in DOMAIN dir,
           NEW j \in DOMAIN dir[n].cells,
           NEW new, new = [dir EXCEPT ![n].cells[j] = Corrupt]
    PROVE  /\ IsPrefix(Replayed(new), Replayed(dir))
           /\ DOMAIN new = DOMAIN dir
           /\ \A m \in DOMAIN dir :
                 /\ Size(new[m]) = Size(dir[m])
                 /\ HasClose(new[m]) => HasClose(dir[m])
<1> DEFINE f == dir[n]
           g == [cells |-> [f.cells EXCEPT ![j] = Corrupt], torn |-> f.torn]
<1>1. f \in LogSegment  BY DEF IsLog
<1>2. /\ g \in LogSegment /\ IsPrefix(Ops(g), Ops(f))
      /\ ReachedEof(g) => ReachedEof(f) /\ Ops(g) = Ops(f)
  BY <1>1, SpoiledOps, SpoiledSegment
<1>3. [f EXCEPT !.cells = [f.cells EXCEPT ![j] = Corrupt]] = g
  BY <1>1, CellsReplaced
<1>4. new = [dir EXCEPT ![n] = g]  BY <1>3
<1>5. Size(g) = Size(f)
  <2>1. f.cells \in Seq(Record \cup {Close, Corrupt})  BY <1>1 DEF LogSegment
  <2>2. Len(g.cells) = Len(f.cells) /\ g.torn = f.torn  BY <2>1
  <2> QED  BY <2>2 DEF Size
<1>6. ASSUME HasClose(g) PROVE HasClose(f)
  <2>1. PICK i \in DOMAIN g.cells : g.cells[i] = Close  BY <1>6 DEF HasClose
  <2>2. i # j /\ i \in DOMAIN f.cells  BY <2>1, WALAssumption
  <2> QED  BY <2>1, <2>2 DEF HasClose
<1> HIDE DEF g, f
<1>7. DOMAIN new = DOMAIN dir /\ new[n] = g
      /\ \A i \in DOMAIN dir : i # n => new[i] = dir[i]
  BY <1>4
<1>8. IsLog(new)  BY <1>2, <1>7 DEF IsLog
<1>9. /\ LatestSegment(new) = LatestSegment(dir)
      /\ LatestSegment(new) <= LatestSegment(dir)
  <2>1. LatestSegment(new) = LatestSegment(dir)  BY <1>7 DEF LatestSegment
  <2>2. LatestSegment(dir) \in 0 .. MaxLog /\ MaxLog \in Nat
    BY LatestTyped, WALAssumption
  <2> QED  BY <2>1, <2>2
<1>10. \A m \in 1 .. LatestSegment(new) :
          /\ IsPrefix(Ops(Content(new, m)), Ops(Content(dir, m)))
          /\ ReachedEof(Content(new, m)) =>
                /\ ReachedEof(Content(dir, m))
                /\ Ops(Content(new, m)) = Ops(Content(dir, m))
  <2> TAKE m \in 1 .. LatestSegment(new)
  <2>1. CASE m = n
    <3>1. Content(new, m) = g /\ Content(dir, m) = f
      BY <2>1, <1>7 DEF Content, f
    <3> QED  BY <3>1, <1>2
  <2>2. CASE m # n
    <3>1. Content(new, m) = Content(dir, m)  BY <2>2, <1>7 DEF Content
    <3>2. Ops(Content(dir, m)) \in Seq(Op)  BY ContentTyped, OpsTyped
    <3> QED  BY <3>1, <3>2, PrefixSame
  <2> QED  BY <2>1, <2>2
<1>11. IsPrefix(Replayed(new), Replayed(dir))
  BY <1>8, <1>9, <1>10, ReplayedShrinks
<1>12. \A m \in DOMAIN dir :
          /\ Size(new[m]) = Size(dir[m])
          /\ HasClose(new[m]) => HasClose(dir[m])
  <2> TAKE m \in DOMAIN dir
  <2>1. CASE m = n  BY <2>1, <1>5, <1>6, <1>7 DEF f
  <2>2. CASE m # n  BY <2>2, <1>7
  <2> QED  BY <2>1, <2>2
<1> QED  BY <1>7, <1>11, <1>12

\* So does a segment removed, whichever it is.
LEMMA RemovalShrinks ==
    ASSUME NEW dir, IsLog(dir), NEW n \in DOMAIN dir,
           NEW new, new = WithoutFile(dir, n)
    PROVE  IsPrefix(Replayed(new), Replayed(dir))
<1>1. IsLog(new)  BY WithoutFileIsLog
<1>2. DOMAIN new = DOMAIN dir \ {n}  BY DEF WithoutFile
<1>3. LatestSegment(new) <= LatestSegment(dir)
  <2>1. LatestSegment(new) \in DOMAIN dir \cup {0}  BY <1>1, <1>2, LatestTyped
  <2>2. LatestSegment(dir) \in Nat /\ \A m \in DOMAIN dir : m <= LatestSegment(dir)
    BY LatestTyped, WALAssumption
  <2> QED  BY <2>1, <2>2
<1>4. \A m \in 1 .. LatestSegment(new) :
         /\ IsPrefix(Ops(Content(new, m)), Ops(Content(dir, m)))
         /\ ReachedEof(Content(new, m)) =>
               /\ ReachedEof(Content(dir, m))
               /\ Ops(Content(new, m)) = Ops(Content(dir, m))
  <2> TAKE m \in 1 .. LatestSegment(new)
  <2>1. Ops(Content(dir, m)) \in Seq(Op)  BY ContentTyped, OpsTyped
  <2>2. CASE m = n
    <3>1. m \notin DOMAIN new  BY <1>2, <2>2
    <3>2. ~ReachedEof(Content(new, m))  BY <3>1, MissingAtEnd
    <3>3. Ops(Content(new, m)) = << >>  BY <3>1, EmptyIsWhole DEF Content
    <3> QED  BY <2>1, <3>2, <3>3, NothingIsPrefix
  <2>3. CASE m # n
    <3>1. Content(new, m) = Content(dir, m)  BY <2>3, ContentWithoutFile
    <3> QED  BY <2>1, <3>1, PrefixSame
  <2> QED  BY <2>2, <2>3
<1> QED  BY <1>1, <1>3, <1>4, ReplayedShrinks

LEMMA NothingLogged == << >> \in Seq(Op)
OBVIOUS

LEMMA CleanResultTyped ==
    CleanResult \in [clean : BOOLEAN, segment : 0 .. MaxLog,
                     last_clean_offset : Nat]
BY WALAssumption DEF CleanResult

LEMMA WholeHasNoClose ==
    ASSUME NEW f, Whole(f)
    PROVE  \A j \in DOMAIN f.cells : f.cells[j] # Close
BY DEF Whole, IsRecord

LEMMA SizeTyped ==
    ASSUME NEW f \in LogSegment
    PROVE  Size(f) \in Nat
<1>1. f.cells \in Seq(Record \cup {Close, Corrupt})  BY DEF LogSegment
<1> DEFINE N == Len(f.cells)
<1>2. N \in Nat  BY <1>1
<1>3. Size(f) \in {2 * N + 0, 2 * N + 1}  BY DEF Size
<1> HIDE DEF N
<1> QED  BY <1>2, <1>3

LEMMA TypedLog ==
    ASSUME TypeOK
    PROVE  IsLog(logs)
BY DEF TypeOK, IsLog

=============================================================================
