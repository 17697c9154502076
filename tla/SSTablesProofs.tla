--------------------------- MODULE SSTablesProofs ---------------------------
(***************************************************************************)
(* SSTables: type correctness, for every set of faults; what a directory   *)
(* says when a file is added, replaced or removed; the inductive invariant *)
(* of the environments Reliable describes; and what follows from it:       *)
(* lookups, immutability of files, what a compaction leaves, and that the  *)
(* directory implements FlushedMap.  All of it for every set of keys and   *)
(* values, every compaction trigger and every bound on the numbers.        *)
(***************************************************************************)
EXTENDS SSTablesInvariant, DirectoryProofs, FiniteSetTheorems

-----------------------------------------------------------------------------
(* Types.                                                                  *)

LEMMA EmptyTableType == EmptyTable \in LiveMap /\ EmptyTable \in Table
BY EntriesAssumption DEF EmptyTable, LiveMap, Table

\* A merge of live records with a file's holds live records only.
LEMMA FoldType ==
    ASSUME NEW m \in LiveMap, NEW t \in Table
    PROVE  Fold(m, t) \in LiveMap
BY EntriesAssumption DEF Fold, Live, LiveMap, Table, Entry

LEMMA LiveMapIsTable == LiveMap \subseteq Table
BY DEF LiveMap, Table, Entry

LEMMA FilesTyped ==
    ASSUME NEW dir, NEW n \in Segment, NEW c \in Content,
           DOMAIN dir \subseteq Segment,
           \A m \in DOMAIN dir : dir[m] \in Content
    PROVE  /\ DOMAIN WithFile(dir, n, c) \subseteq Segment
           /\ \A m \in DOMAIN WithFile(dir, n, c) :
                 WithFile(dir, n, c)[m] \in Content
BY DEF WithFile

\* What becomes of the set of open files when the vector of readers changes.
LEMMA OpenedNone == sstable_readers' = << >> => Opened' = {}
BY DEF Opened

LEMMA OpenedSame == sstable_readers' = sstable_readers => Opened' = Opened
BY DEF Opened

LEMMA OpenedAppend ==
    ASSUME NEW n \in Segment, sstable_readers \in Seq(Segment),
           sstable_readers' = Append(sstable_readers, n)
    PROVE  /\ sstable_readers' \in Seq(Segment)
           /\ Opened' = Opened \cup {n}
<1>1. /\ sstable_readers' \in Seq(Segment)
      /\ DOMAIN sstable_readers' = DOMAIN sstable_readers \cup {Len(sstable_readers) + 1}
      /\ \A i \in DOMAIN sstable_readers : sstable_readers'[i] = sstable_readers[i]
      /\ sstable_readers'[Len(sstable_readers) + 1] = n
  OBVIOUS
<1> QED  BY <1>1 DEF Opened

LEMMA TypeInvInit == Init => TypeInv
BY EmptyTableType, SSTablesAssumption
   DEF Init, TypeInv, TypeOK, NumberingInv, Phase, Segment, Opened

LEMMA SegmentBounds ==
    ASSUME TypeOK
    PROVE  /\ LatestSegment(sst) \in 0 .. MaxSegment
           /\ \A n \in DOMAIN sst : n <= LatestSegment(sst)
BY LatestSegmentBounds, SSTablesAssumption DEF TypeOK, Segment

\* The end of every operation resets compact()'s locals.
LEMMA ReturnTyped ==
    ASSUME CompactReturns
    PROVE  /\ tmp' \in Content \cup {NoFile}
           /\ inputs' \in Seq(Segment)
           /\ output_segment' \in 0 .. MaxSegment
           /\ merged' \in LiveMap
           /\ next' \in Nat \ {0}
BY EmptyTableType, SSTablesAssumption DEF CompactReturns

\* Every step keeps the variables typed, and every number within bounds.
LEMMA TypeInvNext == TypeInv /\ [Next]_sstVars => TypeInv'
<1> SUFFICES ASSUME TypeInv, [Next]_sstVars PROVE TypeInv'
  OBVIOUS
<1>0. TypeOK /\ NumberingInv  BY DEF TypeInv
<1> USE <1>0 DEF TypeInv, TypeOK, NumberingInv
<1>1. CASE Open
  BY <1>1, SegmentBounds, OpenedSame DEF Open, compactVars, mergeVars, Phase
<1>2. CASE LoadNext
  <2>1. PICK n \in DOMAIN sst : sstable_readers' = Append(sstable_readers, n)
    BY <1>2 DEF LoadNext, Unopened
  <2>2. /\ sstable_readers' \in Seq(Segment)
        /\ Opened' \subseteq DOMAIN sst
    BY <2>1, OpenedAppend
  <2>3. phase \in {"load", "reload", "reopen"} /\ phase' = phase
    BY <1>2 DEF LoadNext, NextToOpen, Loading
  <2>4. UNCHANGED <<sst, latest_segment_num, flushing, compactVars>>
    BY <1>2 DEF LoadNext
  <2> QED
    BY <2>2, <2>3, <2>4 DEF compactVars, mergeVars
<1>3. CASE LoadThrows
  <2>1. \/ sstable_readers' = << >>
        \/ sstable_readers' = sstable_readers
    BY <1>3 DEF LoadThrows
  <2>2. /\ sstable_readers' \in Seq(Segment)
        /\ Opened' \subseteq DOMAIN sst
    <3>1. CASE sstable_readers' = << >>  BY <3>1, OpenedNone
    <3>2. CASE sstable_readers' = sstable_readers  BY <3>2, OpenedSame
    <3> QED  BY <2>1, <3>1, <3>2
  <2> QED
    BY <1>3, <2>2, ReturnTyped, SSTablesAssumption DEF LoadThrows, Phase
<1>4. CASE LoadDone
  BY <1>4, ReturnTyped, SegmentBounds, OpenedSame DEF LoadDone, Phase
<1>5. CASE \E t \in Table : FlushBegin(t)
  <2>1. PICK t \in Table : FlushBegin(t)  BY <1>5
  <2>2. Target \in Segment /\ Target' \in Segment
    BY <2>1, SegmentBounds, SSTablesAssumption
    DEF FlushBegin, Room, Target, Segment
  <2>3. /\ DOMAIN sst' \subseteq Segment
        /\ \A n \in DOMAIN sst' : sst'[n] \in Content
    BY <2>1, <2>2, FilesTyped DEF FlushBegin, Content
  <2>4. Opened' \subseteq DOMAIN sst'
    BY <2>1, OpenedSame DEF FlushBegin, WithFile
  <2> QED
    BY <2>1, <2>2, <2>3, <2>4 DEF FlushBegin, compactVars, mergeVars, Phase
<1>6. CASE FlushEnd
  <2>1. Target \in Segment  BY <1>6 DEF FlushEnd
  <2>2. /\ DOMAIN sst' \subseteq Segment
        /\ \A n \in DOMAIN sst' : sst'[n] \in Content
    BY <1>6, <2>1, FilesTyped DEF FlushEnd, Content
  <2>3. latest_segment_num' \in 0 .. MaxSegment
    BY <1>6, <2>1, SSTablesAssumption DEF FlushEnd, Segment
  <2>4. /\ sstable_readers' \in Seq(Segment)
        /\ Opened' \subseteq DOMAIN sst'
    BY <1>6, <2>1, OpenedAppend DEF FlushEnd, WithFile
  <2> QED
    BY <1>6, <2>2, <2>3, <2>4, EmptyTableType
    DEF FlushEnd, compactVars, mergeVars, Phase
<1>7. CASE FlushShort
  <2>1. Target \in Segment  BY <1>7 DEF FlushShort
  <2>2. /\ DOMAIN sst' \subseteq Segment
        /\ \A n \in DOMAIN sst' : sst'[n] \in Content
    BY <1>7, <2>1, FilesTyped DEF FlushShort, Content
  <2>3. latest_segment_num' \in 0 .. MaxSegment
    BY <1>7, <2>1, SSTablesAssumption DEF FlushShort, Segment
  <2>4. /\ sstable_readers' \in Seq(Segment)
        /\ Opened' \subseteq DOMAIN sst'
    BY <1>7, <2>1, OpenedAppend, OpenedSame DEF FlushShort, WithFile
  <2>5. phase' \in {"idle", "flushed"}
    BY <1>7 DEF FlushShort
  <2> QED
    BY <1>7, <2>2, <2>3, <2>4, <2>5, EmptyTableType
    DEF FlushShort, compactVars, mergeVars, Phase
<1>8. CASE NoCompaction
  BY <1>8, OpenedSame
  DEF NoCompaction, sessionVars, compactVars, mergeVars, Phase
<1>9. CASE CompactBegin
  <2>1. output_segment' \in Segment
    BY <1>9, SegmentBounds, SSTablesAssumption DEF CompactBegin, Segment
  <2> QED
    BY <1>9, <2>1, EmptyTableType, OpenedSame
    DEF CompactBegin, sessionVars, Phase, Segment
<1>10. CASE MergeNext
  <2>1. sstable_readers[next] \in Opened
    BY <1>10 DEF MergeNext, Opened
  <2>2. merged' \in LiveMap
    BY <1>10, <2>1, FoldType DEF MergeNext, Content
  <2> QED
    BY <1>10, <2>2, OpenedSame DEF MergeNext, sessionVars
<1>11. CASE MergeThrows
  BY <1>11, ReturnTyped, OpenedSame DEF MergeThrows, sessionVars, Phase
<1>12. CASE CompactWrite
  <2>1. tmp' \in Content
    BY <1>12, LiveMapIsTable DEF CompactWrite, Content
  <2> QED
    BY <1>12, <2>1, OpenedNone DEF CompactWrite, Merged, mergeVars, Phase
<1>13. CASE CompactWriteFails
  BY <1>13, OpenedNone DEF CompactWriteFails, compactVars, mergeVars, Phase
<1>14. CASE CompactRename
  <2>1. /\ DOMAIN sst' \subseteq Segment
        /\ \A n \in DOMAIN sst' : sst'[n] \in Content
    BY <1>14, FilesTyped DEF CompactRename
  <2> QED
    BY <1>14, <2>1, OpenedNone DEF CompactRename, sessionVars, mergeVars, Phase
<1>15. CASE CompactDelete
  <2>1. /\ DOMAIN sst' \subseteq Segment
        /\ \A n \in DOMAIN sst' : sst'[n] \in Content
    BY <1>15 DEF CompactDelete, WithoutFile
  <2> QED
    BY <1>15, <2>1, OpenedNone DEF CompactDelete, sessionVars, mergeVars
<1>16. CASE CompactReload
  BY <1>16, OpenedSame
  DEF CompactReload, sessionVars, compactVars, mergeVars, Phase
<1>17. CASE Destroy
  BY <1>17, ReturnTyped, EmptyTableType, OpenedNone, SSTablesAssumption
  DEF Destroy, SessionEnds, Phase
<1>18. CASE Crash
  <2>1. /\ DOMAIN sst' \subseteq Segment
        /\ \A n \in DOMAIN sst' : sst'[n] \in Content
    BY <1>18, FilesTyped DEF Crash, Content
  <2>2. /\ CompactReturns
        /\ phase' = "down"
        /\ sstable_readers' = << >>
        /\ latest_segment_num' = 0
        /\ flushing' = EmptyTable
    BY <1>18 DEF Crash, SessionEnds
  <2>3. latest_segment_num' \in 0 .. MaxSegment
    BY <2>2, SSTablesAssumption
  <2> QED
    BY <2>1, <2>2, <2>3, ReturnTyped, EmptyTableType, OpenedNone DEF Phase
<1>19. CASE UNCHANGED sstVars
  BY <1>19, OpenedSame DEF sstVars, sessionVars, compactVars, mergeVars, Target
<1> QED
  BY <1>1, <1>2, <1>3, <1>4, <1>5, <1>6, <1>7, <1>8, <1>9, <1>10, <1>11,
     <1>12, <1>13, <1>14, <1>15, <1>16, <1>17, <1>18, <1>19
  DEF Next, Progress, Call

\* Every variable keeps its type: no operation, fault or interruption leads to
\* a segment out of bounds or a file that is neither complete nor cut short.
THEOREM TypeCorrect == Spec => []TypeOK
<1>1. TypeInv => TypeOK  BY DEF TypeInv
<1> QED  BY TypeInvInit, TypeInvNext, <1>1, PTL DEF Spec

-----------------------------------------------------------------------------
(* The output of a compaction, whatever fails.                             *)

\* The output's number is above those of all inputs, and once it is renamed into
\* place no removal of an input takes it away.
OutputInv ==
    /\ phase = "merge" =>
          /\ inputs = sstable_readers
          /\ \A n \in DOMAIN sst : n < output_segment
    /\ phase \in {"publish", "delete"} =>
          \A j \in DOMAIN inputs : inputs[j] < output_segment
    /\ phase = "delete" => output_segment \in DOMAIN sst

LEMMA OutputInvNext ==
    TypeInv /\ OutputInv /\ [Next]_sstVars => OutputInv'
<1> SUFFICES ASSUME TypeInv, OutputInv, [Next]_sstVars PROVE OutputInv'
  OBVIOUS
<1> USE DEF OutputInv
<1>1. CASE CompactBegin
  <2>1. LatestSegment(sst) \in Nat /\ DOMAIN sst \subseteq Nat
        /\ \A n \in DOMAIN sst : n <= LatestSegment(sst)
    BY SegmentBounds, SSTablesAssumption DEF TypeInv, TypeOK, Segment
  <2>2. \A n \in DOMAIN sst : n < LatestSegment(sst) + 1  BY <2>1
  <2> QED  BY <1>1, <2>2 DEF CompactBegin, sessionVars
<1>2. CASE MergeNext  BY <1>2 DEF MergeNext, sessionVars
<1>3. CASE CompactWrite
  <2>1. phase = "merge" /\ phase' = "publish" /\ inputs' = inputs
        /\ output_segment' = output_segment
    BY <1>3 DEF CompactWrite, Merged, mergeVars
  <2>2. \A j \in DOMAIN inputs : inputs[j] \in DOMAIN sst
    BY <2>1 DEF TypeInv, NumberingInv, Opened
  <2> QED  BY <2>1, <2>2
<1>4. CASE CompactRename
  <2>1. output_segment \in DOMAIN sst'  BY <1>4 DEF CompactRename, WithFile
  <2> QED  BY <1>4, <2>1 DEF CompactRename, mergeVars
<1>5. CASE CompactDelete
  <2>1. /\ phase = "delete" /\ phase' = "delete" /\ inputs' = inputs
        /\ output_segment' = output_segment /\ next <= Len(inputs)
        /\ sst' = WithoutFile(sst, inputs[next])
    BY <1>5 DEF CompactDelete, mergeVars
  <2>2. inputs[next] < output_segment /\ inputs[next] \in Nat
    <3>1. inputs \in Seq(Segment) /\ next \in Nat \ {0}
      BY DEF TypeInv, TypeOK
    <3>2. next \in DOMAIN inputs /\ inputs[next] \in Segment
      BY <2>1, <3>1
    <3> QED  BY <2>1, <3>2 DEF Segment
  <2>3. output_segment \in DOMAIN sst'  BY <2>1, <2>2 DEF WithoutFile
  <2> QED  BY <2>1, <2>3
<1>6. CASE UNCHANGED sstVars
  BY <1>6 DEF sstVars, sessionVars, compactVars, mergeVars
<1>7. CASE phase' \notin {"merge", "publish", "delete"}  BY <1>7
<1>8. \/ CompactBegin \/ MergeNext \/ CompactWrite \/ CompactRename
      \/ CompactDelete \/ UNCHANGED sstVars
      \/ phase' \notin {"merge", "publish", "delete"}
  BY DEF Next, Progress, Call, Open, LoadNext, LoadThrows, LoadDone, NextToOpen,
         Loading, FlushBegin, FlushEnd, FlushShort, NoCompaction, MergeThrows,
         CompactWriteFails, CompactReload, Destroy, Crash, SessionEnds
<1> QED  BY <1>1, <1>2, <1>3, <1>4, <1>5, <1>6, <1>7, <1>8

\* Only the loop over the inputs removes a file.
LEMMA OnlyInputsRemoved ==
    ASSUME TypeInv, OutputInv, Next, NEW n \in DOMAIN sst \ DOMAIN sst'
    PROVE  \E m \in DOMAIN sst' : m > n
<1>1. CASE CompactDelete
  <2>1. phase = "delete" /\ next <= Len(inputs)
        /\ sst' = WithoutFile(sst, inputs[next])
    BY <1>1 DEF CompactDelete
  <2>2. n = inputs[next]  BY <2>1 DEF WithoutFile
  <2>3. inputs \in Seq(Segment) /\ next \in Nat \ {0}
        /\ output_segment \in 0 .. MaxSegment
    BY DEF TypeInv, TypeOK
  <2>4. next \in DOMAIN inputs  BY <2>1, <2>3
  <2>5. n < output_segment /\ n \in Nat /\ output_segment \in DOMAIN sst
    <3>1. inputs[next] \in Segment  BY <2>3, <2>4
    <3>2. inputs[next] < output_segment /\ output_segment \in DOMAIN sst
      BY <2>1, <2>4 DEF OutputInv
    <3> QED  BY <2>2, <3>1, <3>2 DEF Segment
  <2>6. output_segment \in DOMAIN sst' /\ output_segment \in Nat
    BY <2>1, <2>2, <2>3, <2>5 DEF WithoutFile
  <2> QED  BY <2>5, <2>6
<1>2. CASE DOMAIN sst \subseteq DOMAIN sst'  BY <1>2
<1>3. CompactDelete \/ DOMAIN sst \subseteq DOMAIN sst'
  BY DEF Next, Progress, Call, Open, LoadNext, LoadThrows, LoadDone, FlushBegin,
         FlushEnd, FlushShort, NoCompaction, CompactBegin, MergeNext,
         MergeThrows, CompactWrite, CompactWriteFails, CompactRename,
         CompactReload, Destroy, Crash, WithFile
<1> QED  BY <1>1, <1>2, <1>3

\* A file is only removed while one with a higher number exists, even when a
\* write was cut short unnoticed, a load threw or the process died in between.
THEOREM OutputOutlivesInputsHolds == Spec => OutputOutlivesInputs
<1>1. Init => OutputInv  BY DEF Init, OutputInv
<1>2. TypeInv /\ OutputInv /\ [Next]_sstVars
         => [\A n \in DOMAIN sst \ DOMAIN sst' : \E m \in DOMAIN sst' : m > n]_sstVars
  BY OnlyInputsRemoved
<1> QED
  BY TypeInvInit, TypeInvNext, OutputInvNext, <1>1, <1>2, PTL
  DEF Spec, OutputOutlivesInputs

-----------------------------------------------------------------------------
(* What a directory of SSTables says, ViewOf.                              *)

LEMMA NewestIs ==
    ASSUME NEW S \in SUBSET Nat, NEW n \in S, \A m \in S : m <= n
    PROVE  Newest(S) = n
<1>1. Newest(S) \in S /\ \A m \in S : m <= Newest(S)  BY DEF Newest
<1>2. Newest(S) \in Nat /\ n \in Nat  BY <1>1
<1> QED  BY <1>1, <1>2

\* The newest holder is a file that holds the key.
LEMMA NewestHolder ==
    ASSUME NEW dir, NEW S \in SUBSET Segment, NEW k,
           Holders(dir, S, k) # {}
    PROVE  /\ Newest(Holders(dir, S, k)) \in Holders(dir, S, k)
           /\ \A m \in Holders(dir, S, k) : m <= Newest(Holders(dir, S, k))
<1>1. MaxSegment \in Nat  BY SSTablesAssumption
<1>2. Holders(dir, S, k) \subseteq S  BY DEF Holders
<1>3. S \subseteq 0 .. MaxSegment  BY <1>1 DEF Segment
<1>4. Holders(dir, S, k) \in SUBSET (0 .. MaxSegment)  BY <1>2, <1>3
<1> QED  BY <1>1, <1>4, NewestExists

LEMMA ViewType ==
    ASSUME NEW dir, NEW S \in SUBSET Segment
    PROVE  ViewOf(dir, S) \in LiveMap
<1> SUFFICES ASSUME NEW k \in Key
             PROVE  ViewOf(dir, S)[k] \in Value \cup {Absent}
  BY DEF ViewOf, LiveMap
<1>1. CASE Holders(dir, S, k) = {}
  BY <1>1 DEF ViewOf
<1>2. CASE Holders(dir, S, k) # {}
  <2> DEFINE n == Newest(Holders(dir, S, k))
  <2>1. n \in Holders(dir, S, k)  BY <1>2, NewestHolder
  <2> HIDE DEF n
  <2>2. dir[n][k] \in Entry  BY <2>1 DEF Holders, Table
  <2>3. Live(dir[n][k]) \in Value \cup {Absent}  BY <2>2 DEF Live, Entry
  <2> QED  BY <1>2, <2>3 DEF ViewOf, n
<1> QED  BY <1>1, <1>2

\* Two directories say the same when the same files hold each key, and say of
\* it the same.
LEMMA SameHoldersSameView ==
    ASSUME NEW d1, NEW S1 \in SUBSET Segment, NEW d2, NEW S2,
           \A n \in S1 : d1[n] \in Table => d1[n] = d2[n],
           \A k \in Key : Holders(d1, S1, k) = Holders(d2, S2, k)
    PROVE  ViewOf(d1, S1) = ViewOf(d2, S2)
<1> SUFFICES ASSUME NEW k \in Key
             PROVE  ViewOf(d1, S1)[k] = ViewOf(d2, S2)[k]
  BY DEF ViewOf
<1>1. CASE Holders(d1, S1, k) = {}
  BY <1>1 DEF ViewOf
<1>2. CASE Holders(d1, S1, k) # {}
  <2> DEFINE n == Newest(Holders(d1, S1, k))
  <2>1. n \in Holders(d1, S1, k)  BY <1>2, NewestHolder
  <2> HIDE DEF n
  <2>2. d1[n] = d2[n]  BY <2>1 DEF Holders
  <2> QED  BY <1>2, <2>2 DEF ViewOf, n
<1> QED  BY <1>1, <1>2

\* Files that are not complete say nothing.
LEMMA IncompleteIgnored ==
    ASSUME NEW d1, NEW S1 \in SUBSET Segment, NEW d2, NEW S2 \in SUBSET Segment,
           \A n \in S1 : d1[n] \in Table => n \in S2 /\ d2[n] = d1[n],
           \A n \in S2 : d2[n] \in Table => n \in S1 /\ d2[n] = d1[n]
    PROVE  ViewOf(d1, S1) = ViewOf(d2, S2)
<1>1. \A k \in Key : Holders(d1, S1, k) = Holders(d2, S2, k)
  BY DEF Holders
<1> QED  BY <1>1, SameHoldersSameView

LEMMA ViewOfNothing ==
    ASSUME NEW dir
    PROVE  ViewOf(dir, {}) = EmptyTable
BY DEF ViewOf, Holders, EmptyTable

\* A file newer than all others is folded into what they say.
LEMMA ViewWithNewest ==
    ASSUME NEW dir, NEW S \in SUBSET Segment, NEW n \in Segment,
           \A m \in S : m < n,
           dir[n] \in Table
    PROVE  ViewOf(dir, S \cup {n}) = Fold(ViewOf(dir, S), dir[n])
<1> SUFFICES ASSUME NEW k \in Key
             PROVE  ViewOf(dir, S \cup {n})[k] = Fold(ViewOf(dir, S), dir[n])[k]
  BY DEF ViewOf, Fold
<1>1. CASE dir[n][k] = Absent
  <2>1. Holders(dir, S \cup {n}, k) = Holders(dir, S, k)
    BY <1>1 DEF Holders
  <2> QED  BY <1>1, <2>1 DEF ViewOf, Fold
<1>2. CASE dir[n][k] # Absent
  <2>1. /\ n \in Holders(dir, S \cup {n}, k)
        /\ Holders(dir, S \cup {n}, k) \subseteq S \cup {n}
    BY <1>2 DEF Holders
  <2>2. S \cup {n} \subseteq Nat /\ \A m \in S \cup {n} : m <= n
    BY DEF Segment
  <2>3. /\ Holders(dir, S \cup {n}, k) \in SUBSET Nat
        /\ \A m \in Holders(dir, S \cup {n}, k) : m <= n
    BY <2>1, <2>2
  <2>4. Newest(Holders(dir, S \cup {n}, k)) = n
    BY <2>1, <2>3, NewestIs
  <2> QED  BY <1>2, <2>1, <2>4 DEF ViewOf, Fold
<1> QED  BY <1>1, <1>2

LEMMA FoldSelf ==
    ASSUME NEW m \in LiveMap
    PROVE  Fold(m, m) = m
BY EntriesAssumption DEF Fold, Live, LiveMap

\* Beside a file o that says all they say together, the oldest can be removed.
LEMMA ViewWithoutOldest ==
    ASSUME NEW dir, NEW S \in SUBSET Segment, NEW n \in S, NEW o \in S,
           \A m \in S : n <= m /\ m <= o,
           n # o,
           dir[o] = ViewOf(dir, S)
    PROVE  ViewOf(dir, S \ {n}) = ViewOf(dir, S)
<1> SUFFICES ASSUME NEW k \in Key
             PROVE  ViewOf(dir, S \ {n})[k] = ViewOf(dir, S)[k]
  BY DEF ViewOf
<1> DEFINE H == Holders(dir, S, k)
           L == Holders(dir, S \ {n}, k)
<1>1. H \in SUBSET Segment /\ L = H \ {n}  BY DEF Holders
<1>2. CASE L # {}
  <2>1. Newest(L) \in L /\ \A m \in L : m <= Newest(L)
    BY <1>2, NewestHolder
  <2>2. n <= Newest(L)
    BY <2>1, <1>1 DEF Holders
  <2>3. /\ H \in SUBSET Nat
        /\ Newest(L) \in H
        /\ \A m \in H : m <= Newest(L)
    BY <1>1, <2>1, <2>2 DEF Segment
  <2>4. Newest(H) = Newest(L)
    <3> HIDE DEF H, L
    <3> QED  BY <2>3, NewestIs
  <2> QED  BY <1>1, <1>2, <2>4 DEF ViewOf
<1>3. CASE L = {}
  <2>1. dir[o] \in LiveMap  BY ViewType
  <2>2. dir[o] \in Table /\ o \notin L  BY <1>3, <2>1, LiveMapIsTable
  <2>3. dir[o][k] = Absent  BY <2>2 DEF Holders
  <2> QED  BY <1>3, <2>3 DEF ViewOf
<1> QED  BY <1>2, <1>3

-----------------------------------------------------------------------------
(* The inductive invariant.                                                *)

\* Padded names sort like the numbers in them.
LEMMA NamesByNumber ==
    ASSUME Reliable, NEW a \in Segment, NEW b \in Segment, NameLess(a, b)
    PROVE  a < b
<1>1. /\ a \in Nat /\ b \in Nat /\ Radix \in Nat /\ Radix > 1
      /\ a < PadLimit /\ b < PadLimit /\ PadLimit \in Nat
  BY SSTablesAssumption DEF Reliable, Segment
<1>2. a * Radix < b * Radix \/ a < b
  BY <1>1 DEF NameLess, Scaled
<1>3. a >= b => a * Radix >= b * Radix
  BY <1>1
<1> QED  BY <1>1, <1>2, <1>3

\* The number of a complete or incomplete file is never one past all of them.
LEMMA IInvFacts ==
    ASSUME IInv
    PROVE  /\ DOMAIN sst \in SUBSET Segment
           /\ \A n \in DOMAIN sst : n \in Nat /\ (sst[n] \in Table \/ sst[n] \in {Stub, Torn})
           /\ latest_segment_num \in Nat
           /\ sstable_readers \in Seq(Segment)
           /\ inputs \in Seq(Segment)
           /\ Stub \notin Table /\ Torn \notin Table
BY SSTablesAssumption DEF IInv, TypeInv, TypeOK, Content, Segment

LEMMA OrderedAppend ==
    ASSUME NEW s \in Seq(Segment), NEW n \in Segment,
           Ordered(s), \A i \in DOMAIN s : s[i] < n
    PROVE  Ordered(Append(s, n))
<1>1. /\ DOMAIN Append(s, n) = DOMAIN s \cup {Len(s) + 1}
      /\ \A i \in DOMAIN s : Append(s, n)[i] = s[i]
      /\ Append(s, n)[Len(s) + 1] = n
      /\ \A i \in DOMAIN s : i \in Nat /\ i < Len(s) + 1
  OBVIOUS
<1> QED  BY <1>1 DEF Ordered

LEMMA IInvInit == Init => IInv
<1> SUFFICES ASSUME Init PROVE IInv
  OBVIOUS
<1>1. TypeInv  BY TypeInvInit
<1> QED
  BY <1>1 DEF IInv, Init, ReadersInv, WriterInv, FlushInv, CompleteInv,
              MergeInv, PublishInv, DeleteInv, ReloadInv, Loading, Ordered

LEMMA StepOpen ==
    ASSUME IInv, Open, TypeInv'
    PROVE  IInv'
<1>1. /\ phase = "down" /\ phase' = "load"
      /\ sstable_readers' = << >>
      /\ UNCHANGED <<sst, flushing>>
      /\ latest_segment_num' = LatestSegment(sst)
  BY DEF Open, IInv, ReadersInv
<1>2. ReadersInv'
  BY <1>1, OpenedNone DEF ReadersInv, Ordered, Unopened
<1>3. WriterInv'
  BY <1>1, SegmentBounds DEF WriterInv, IInv, TypeInv
<1>4. FlushInv' /\ CompleteInv'
  BY <1>1 DEF FlushInv, CompleteInv, IInv
<1> QED
  BY <1>1, <1>2, <1>3, <1>4
  DEF IInv, MergeInv, PublishInv, DeleteInv, ReloadInv

LEMMA StepLoadNext ==
    ASSUME Reliable, IInv, LoadNext, TypeInv'
    PROVE  IInv'
<1>1. PICK n \in Unopened : /\ NextToOpen(n)
                            /\ sstable_readers' = Append(sstable_readers, n)
  BY DEF LoadNext
<1>2. /\ phase \in {"load", "reload", "reopen"} /\ phase' = phase
      /\ UNCHANGED <<sst, latest_segment_num, flushing, merged, output_segment>>
  BY <1>1 DEF LoadNext, NextToOpen, Loading, compactVars, mergeVars
<1>3. n \in Segment /\ n \in DOMAIN sst  BY IInvFacts, <1>1 DEF Unopened
<1>4. \A m \in Opened : m < n
  BY <1>1, <1>2 DEF IInv, ReadersInv, Loading
<1>5. \A m \in Unopened \ {n} : n < m
  BY <1>1, <1>3, NamesByNumber, IInvFacts DEF NextToOpen, Unopened
<1>6. Opened' = Opened \cup {n} /\ Unopened' = Unopened \ {n}
  <2>1. Opened' = Opened \cup {n}
    BY <1>1, <1>3, OpenedAppend, IInvFacts
  <2> QED  BY <1>2, <2>1 DEF Unopened
<1>7. ReadersInv'
  <2>1. Ordered(sstable_readers)'
    BY <1>1, <1>3, <1>4, IInvFacts, OrderedAppend DEF Opened, IInv, ReadersInv
  <2>2. \A m \in Opened', u \in Unopened' : m < u
    BY <1>2, <1>4, <1>5, <1>6 DEF IInv, ReadersInv, Loading
  <2> QED  BY <1>2, <2>1, <2>2 DEF ReadersInv
<1> QED
  BY <1>2, <1>7
  DEF IInv, WriterInv, FlushInv, CompleteInv, MergeInv, PublishInv, DeleteInv,
      ReloadInv

LEMMA StepLoadThrows ==
    ASSUME Reliable, IInv, LoadThrows, TypeInv'
    PROVE  IInv'
<1>1. PICK n \in Unopened : NextToOpen(n) /\ sst[n] \notin Table
  BY DEF LoadThrows
<1>2. phase # "reload"
  <2> SUFFICES ASSUME phase = "reload" PROVE FALSE
    OBVIOUS
  <2>1. n = output_segment /\ sst[n] = merged
    BY <1>1 DEF IInv, ReloadInv, Unopened
  <2>2. merged \in Table
    BY LiveMapIsTable DEF IInv, TypeInv, TypeOK
  <2> QED  BY <1>1, <2>1, <2>2
<1>3. phase # "reopen"
  <2> SUFFICES ASSUME phase = "reopen" PROVE FALSE
    OBVIOUS
  <2>1. "crash" \notin Faults
    BY DEF IInv, CompleteInv, Reliable
  <2> QED  BY <1>1, <2>1 DEF IInv, CompleteInv, Unopened
<1>4. /\ phase = "load" /\ phase' = "down"
      /\ sstable_readers' = << >>
      /\ UNCHANGED <<sst, flushing>>
  BY <1>1, <1>2, <1>3 DEF LoadThrows, NextToOpen, Loading
<1> QED
  BY <1>4
  DEF IInv, ReadersInv, WriterInv, FlushInv, CompleteInv, MergeInv, PublishInv,
      DeleteInv, ReloadInv, Ordered, Loading

LEMMA StepLoadDone ==
    ASSUME IInv, LoadDone, TypeInv'
    PROVE  IInv'
<1>1. /\ phase \in {"load", "reload", "reopen"} /\ phase' = "idle"
      /\ UNCHANGED <<sst, sstable_readers, flushing>>
      /\ Unopened = {}
  BY DEF LoadDone, Loading
<1>2. Opened' = DOMAIN sst'
  BY <1>1, OpenedSame DEF Unopened, IInv, TypeInv, NumberingInv
<1>3. WriterInv'
  <2>1. CASE phase = "reload"
    BY <1>1, <2>1, SegmentBounds DEF LoadDone, WriterInv, IInv, TypeInv
  <2>2. CASE phase # "reload"
    BY <1>1, <2>2 DEF LoadDone, WriterInv, IInv
  <2> QED  BY <2>1, <2>2
<1>4. ReadersInv'
  BY <1>1, <1>2 DEF ReadersInv, IInv, Loading, Ordered
<1> QED
  BY <1>1, <1>3, <1>4
  DEF IInv, FlushInv, CompleteInv, MergeInv, PublishInv, DeleteInv, ReloadInv

-----------------------------------------------------------------------------
(* Flushing.                                                               *)

\* A flush begins in a file that did not exist and changes nothing that the
\* files say.
LEMMA FlushBeginFacts ==
    ASSUME IInv, NEW t \in Table, FlushBegin(t)
    PROVE  /\ Target \notin DOMAIN sst
           /\ View(sst)' = View(sst)
<1>1. Target \notin DOMAIN sst
  BY IInvFacts DEF FlushBegin, IInv, WriterInv, Target
<1>2. /\ sst' = WithFile(sst, Target, Stub)
      /\ Target \in Segment
  BY SegmentBounds, SSTablesAssumption
  DEF FlushBegin, Room, Target, Segment, IInv, TypeInv, TypeOK
<1>3. View(sst') = View(sst)
  <2>1. /\ DOMAIN sst' = DOMAIN sst \cup {Target}
        /\ sst'[Target] \notin Table
        /\ \A n \in DOMAIN sst : sst'[n] = sst[n]
    BY <1>1, <1>2, IInvFacts DEF WithFile
  <2>2. DOMAIN sst \in SUBSET Segment /\ DOMAIN sst' \in SUBSET Segment
    BY <2>1, <1>2, IInvFacts
  <2> QED  BY <2>1, <2>2, IncompleteIgnored DEF View
<1> QED  BY <1>1, <1>3

LEMMA StepFlushBegin ==
    ASSUME IInv, NEW t \in Table, FlushBegin(t), TypeInv'
    PROVE  IInv'
<1>1. /\ phase = "idle" /\ phase' = "flush"
      /\ sst' = WithFile(sst, Target, Stub)
      /\ flushing' = t /\ t # EmptyTable
      /\ UNCHANGED <<sstable_readers, latest_segment_num>>
  BY DEF FlushBegin
<1>2. Target' = Target /\ Target \notin DOMAIN sst
  BY <1>1, FlushBeginFacts DEF Target
<1>3. /\ DOMAIN sst' = DOMAIN sst \cup {Target}
      /\ sst'[Target] = Stub
      /\ \A n \in DOMAIN sst : sst'[n] = sst[n]
  BY <1>1, <1>2 DEF WithFile
<1>4. Opened' = DOMAIN sst' \ {Target'}
  BY <1>1, <1>2, <1>3, OpenedSame DEF IInv, ReadersInv
<1>5. \A n \in DOMAIN sst' : n <= Target'
  BY <1>1, <1>2, <1>3, IInvFacts DEF IInv, WriterInv, Target
<1>6. FlushInv'
  BY <1>1, <1>2, <1>3, <1>4, <1>5 DEF FlushInv
<1>7. CompleteInv'
  BY <1>1, <1>2, <1>3 DEF CompleteInv, IInv
<1>8. ReadersInv'
  BY <1>1 DEF ReadersInv, IInv, Ordered, Loading
<1> QED
  BY <1>1, <1>6, <1>7, <1>8
  DEF IInv, WriterInv, MergeInv, PublishInv, DeleteInv, ReloadInv

\* When a flush ends the files say what they said, overridden by what was
\* flushed.
LEMMA FlushEndFacts ==
    ASSUME IInv, FlushEnd
    PROVE  View(sst)' = Fold(View(sst), flushing)
<1> DEFINE Others == DOMAIN sst \ {Target}
<1>1. /\ Target \in DOMAIN sst /\ sst[Target] = Stub
      /\ \A n \in DOMAIN sst : n <= Target
      /\ sst' = WithFile(sst, Target, flushing)
      /\ flushing \in Table
  BY DEF IInv, FlushInv, FlushEnd, TypeInv, TypeOK
<1>2. /\ DOMAIN sst' = Others \cup {Target}
      /\ sst'[Target] = flushing
      /\ \A n \in Others : sst'[n] = sst[n]
  BY <1>1 DEF WithFile
<1>3. Target \in Segment /\ Others \in SUBSET Segment
  BY <1>1, IInvFacts
<1>4. \A n \in Others : n < Target
  BY <1>1, <1>3, IInvFacts
<1>5. ViewOf(sst', Others) = View(sst)
  <2>1. /\ \A n \in Others : sst'[n] \in Table => n \in DOMAIN sst /\ sst[n] = sst'[n]
        /\ \A n \in DOMAIN sst : sst[n] \in Table => n \in Others /\ sst[n] = sst'[n]
    BY <1>1, <1>2, IInvFacts
  <2> QED  BY <2>1, <1>3, IInvFacts, IncompleteIgnored DEF View
<1>6. ViewOf(sst', Others \cup {Target}) = Fold(ViewOf(sst', Others), sst'[Target])
  <2> HIDE DEF Others
  <2> QED  BY <1>1, <1>2, <1>3, <1>4, ViewWithNewest
<1> QED  BY <1>2, <1>5, <1>6 DEF View

LEMMA StepFlushEnd ==
    ASSUME IInv, FlushEnd, TypeInv'
    PROVE  IInv'
<1>1. /\ phase = "flush" /\ phase' = "flushed"
      /\ sst' = WithFile(sst, Target, flushing)
      /\ latest_segment_num' = Target
      /\ sstable_readers' = Append(sstable_readers, Target)
      /\ flushing' = EmptyTable
  BY DEF FlushEnd
<1>2. /\ Target \in DOMAIN sst
      /\ \A n \in DOMAIN sst : n <= Target
      /\ Opened = DOMAIN sst \ {Target}
  BY <1>1 DEF IInv, FlushInv
<1>3. /\ DOMAIN sst' = DOMAIN sst
      /\ sst'[Target] = flushing
      /\ \A n \in DOMAIN sst \ {Target} : sst'[n] = sst[n]
  BY <1>1, <1>2 DEF WithFile
<1>4. Target \in Segment  BY <1>2, IInvFacts
<1>5. Opened' = DOMAIN sst'
  BY <1>1, <1>2, <1>3, <1>4, OpenedAppend, IInvFacts
<1>6. Ordered(sstable_readers)'
  <2>1. \A i \in DOMAIN sstable_readers : sstable_readers[i] < Target
    <3> TAKE i \in DOMAIN sstable_readers
    <3>1. sstable_readers[i] \in DOMAIN sst \ {Target}  BY <1>2 DEF Opened
    <3> QED  BY <1>2, <1>4, <3>1, IInvFacts DEF Segment
  <2>2. Ordered(sstable_readers)  BY DEF IInv, ReadersInv
  <2>3. sstable_readers \in Seq(Segment)  BY IInvFacts
  <2>4. Ordered(Append(sstable_readers, Target))
    BY <1>4, <2>1, <2>2, <2>3, OrderedAppend
  <2> QED  BY <1>1, <2>4
<1>7. ReadersInv'
  BY <1>1, <1>5, <1>6 DEF ReadersInv, Loading
<1>8. WriterInv'
  BY <1>1, <1>2, <1>3 DEF WriterInv
<1>9. CompleteInv'
  <2>1. flushing \in Table  BY DEF IInv, TypeInv, TypeOK
  <2> QED  BY <1>1, <1>3, <2>1 DEF CompleteInv, IInv
<1> QED
  BY <1>1, <1>7, <1>8, <1>9
  DEF IInv, FlushInv, MergeInv, PublishInv, DeleteInv, ReloadInv

LEMMA StepNoCompaction ==
    ASSUME IInv, NoCompaction, TypeInv'
    PROVE  IInv'
<1>1. /\ phase = "flushed" /\ phase' = "idle"
      /\ UNCHANGED <<sst, sstable_readers, latest_segment_num, flushing>>
  BY DEF NoCompaction, sessionVars
<1>2. Opened' = Opened  BY <1>1, OpenedSame
<1> QED
  BY <1>1, <1>2
  DEF IInv, ReadersInv, WriterInv, FlushInv, CompleteInv, MergeInv, PublishInv,
      DeleteInv, ReloadInv, Ordered, Loading

-----------------------------------------------------------------------------
(* Compaction.                                                             *)

LEMMA StepCompactBegin ==
    ASSUME IInv, CompactBegin, TypeInv'
    PROVE  IInv'
<1>1. /\ phase \in {"idle", "flushed"} /\ phase' = "merge"
      /\ inputs' = sstable_readers
      /\ output_segment' = LatestSegment(sst) + 1
      /\ merged' = EmptyTable
      /\ next' = 1
      /\ UNCHANGED <<sst, sstable_readers, latest_segment_num, flushing>>
  BY DEF CompactBegin, sessionVars
<1>2. \A n \in DOMAIN sst' : n < output_segment'
  <2>1. LatestSegment(sst) \in Nat /\ \A n \in DOMAIN sst : n <= LatestSegment(sst)
    BY SegmentBounds DEF IInv, TypeInv
  <2> QED  BY <1>1, <2>1, IInvFacts
<1>3. merged' = ViewOf(sst', {sstable_readers'[i] : i \in 1 .. next' - 1})
  <2>1. {sstable_readers'[i] : i \in 1 .. next' - 1} = {}  BY <1>1
  <2> QED  BY <1>1, <2>1, ViewOfNothing
<1>4. next' <= Len(sstable_readers') + 1  BY <1>1, IInvFacts
<1>5. MergeInv'
  BY <1>1, <1>2, <1>3, <1>4 DEF MergeInv
<1>6. ReadersInv' /\ WriterInv'
  BY <1>1, OpenedSame DEF IInv, ReadersInv, WriterInv, Ordered, Loading
<1> QED
  BY <1>1, <1>5, <1>6
  DEF IInv, FlushInv, CompleteInv, PublishInv, DeleteInv, ReloadInv

LEMMA StepMergeNext ==
    ASSUME IInv, MergeNext, TypeInv'
    PROVE  IInv'
<1> DEFINE n == sstable_readers[next]
           S == {sstable_readers[i] : i \in 1 .. next - 1}
<1>1. /\ phase = "merge" /\ phase' = "merge"
      /\ next \in Nat \ {0} /\ next <= Len(sstable_readers)
      /\ next' = next + 1
      /\ sst[n] # Torn
      /\ merged' = IF sst[n] = Stub THEN merged ELSE Fold(merged, sst[n])
      /\ UNCHANGED <<sst, sstable_readers, latest_segment_num, flushing,
                     inputs, output_segment>>
  BY DEF MergeNext, sessionVars, IInv, TypeInv, TypeOK
<1>2. /\ merged = ViewOf(sst, S)
      /\ inputs = sstable_readers
      /\ \A m \in DOMAIN sst : m < output_segment
  BY <1>1 DEF IInv, MergeInv
<1>3. /\ n \in Opened /\ S \subseteq Opened
      /\ \A m \in S : m < n
      /\ {sstable_readers'[i] : i \in 1 .. next' - 1} = S \cup {n}
  <2>1. 1 .. next' - 1 = (1 .. next - 1) \cup {next}  BY <1>1
  <2>2. 1 .. next \subseteq DOMAIN sstable_readers  BY <1>1, IInvFacts
  <2>3. n \in Opened /\ S \subseteq Opened  BY <1>1, <2>2 DEF Opened
  <2>4. \A m \in S : m < n
    BY <1>1, <2>2 DEF IInv, ReadersInv, Ordered
  <2>5. {sstable_readers'[i] : i \in 1 .. next' - 1} = S \cup {n}
    BY <1>1, <2>1
  <2> QED  BY <2>3, <2>4, <2>5
<1>4. n \in DOMAIN sst /\ n \in Segment /\ S \in SUBSET Segment
  BY <1>3, IInvFacts DEF IInv, TypeInv, NumberingInv
<1>5. ViewOf(sst, S \cup {n}) = merged'
  <2> HIDE DEF n, S
  <2>1. CASE sst[n] = Stub
    <3>1. ViewOf(sst, S \cup {n}) = ViewOf(sst, S)
      BY <1>4, <2>1, IInvFacts, IncompleteIgnored
    <3> QED  BY <1>1, <1>2, <2>1, <3>1
  <2>2. CASE sst[n] # Stub
    <3>1. sst[n] \in Table  BY <1>1, <1>4, <2>2, IInvFacts
    <3>2. ViewOf(sst, S \cup {n}) = Fold(ViewOf(sst, S), sst[n])
      BY <1>3, <1>4, <3>1, ViewWithNewest
    <3> QED  BY <1>1, <1>2, <2>2, <3>2
  <2> QED  BY <2>1, <2>2
<1>6. next' <= Len(sstable_readers') + 1  BY <1>1, IInvFacts
<1> HIDE DEF n, S
<1>7. MergeInv'
  BY <1>1, <1>2, <1>3, <1>5, <1>6 DEF MergeInv
<1>8. ReadersInv' /\ WriterInv'
  BY <1>1, OpenedSame DEF IInv, ReadersInv, WriterInv, Ordered, Loading
<1> QED
  BY <1>1, <1>7, <1>8
  DEF IInv, FlushInv, CompleteInv, PublishInv, DeleteInv, ReloadInv

\* When every file is folded in, the merged map is what the files say.
LEMMA MergedIsView ==
    ASSUME IInv, Merged
    PROVE  merged = View(sst)
<1>1. /\ next \in Nat \ {0}
      /\ next = Len(sstable_readers) + 1
      /\ merged = ViewOf(sst, {sstable_readers[i] : i \in 1 .. next - 1})
      /\ Opened = DOMAIN sst
  BY IInvFacts DEF Merged, IInv, MergeInv, ReadersInv, TypeInv, TypeOK
<1>2. 1 .. next - 1 = DOMAIN sstable_readers  BY <1>1, IInvFacts
<1>3. {sstable_readers[i] : i \in 1 .. next - 1} = DOMAIN sst
  BY <1>1, <1>2 DEF Opened
<1> QED  BY <1>1, <1>3 DEF View

LEMMA StepCompactWrite ==
    ASSUME Reliable, IInv, CompactWrite, TypeInv'
    PROVE  IInv'
<1>1. /\ phase = "merge" /\ phase' = "publish"
      /\ sstable_readers' = << >>
      /\ tmp' = merged
      /\ UNCHANGED <<sst, latest_segment_num, flushing, inputs, output_segment,
                     merged>>
  BY DEF CompactWrite, Merged, mergeVars, Reliable
<1>2. merged' = View(sst')
  BY <1>1, MergedIsView DEF CompactWrite
<1>3. /\ Ordered(inputs) /\ Inputs = DOMAIN sst
      /\ \A n \in DOMAIN sst : n < output_segment
  BY <1>1 DEF IInv, MergeInv, ReadersInv, Inputs, Opened
<1>4. PublishInv'
  BY <1>1, <1>2, <1>3 DEF PublishInv, Inputs, Ordered, View
<1>5. ReadersInv'
  BY <1>1 DEF ReadersInv, Ordered, Loading
<1> QED
  BY <1>1, <1>4, <1>5
  DEF IInv, WriterInv, FlushInv, CompleteInv, MergeInv, DeleteInv, ReloadInv

LEMMA StepCompactWriteFails ==
    ASSUME IInv, CompactWriteFails, TypeInv'
    PROVE  IInv'
<1>1. /\ phase = "merge" /\ phase' = "reopen"
      /\ "tmp_open" \in Faults
      /\ sstable_readers' = << >>
      /\ UNCHANGED <<sst, latest_segment_num, flushing>>
  BY DEF CompactWriteFails, Merged
<1>2. ReadersInv'
  BY <1>1, OpenedNone DEF ReadersInv, Ordered
<1> QED
  BY <1>1, <1>2
  DEF IInv, WriterInv, FlushInv, CompleteInv, MergeInv, PublishInv, DeleteInv,
      ReloadInv

\* Publishing a merge changes nothing that the files say: the output says what
\* the inputs said.
LEMMA RenameFacts ==
    ASSUME IInv, CompactRename
    PROVE  /\ output_segment \notin DOMAIN sst
           /\ DOMAIN sst' = DOMAIN sst \cup {output_segment}
           /\ sst'[output_segment] = merged
           /\ \A n \in DOMAIN sst : sst'[n] = sst[n]
           /\ View(sst)' = merged /\ merged = View(sst)
<1>1. /\ sst' = WithFile(sst, output_segment, tmp)
      /\ tmp = merged /\ merged = View(sst)
      /\ \A n \in DOMAIN sst : n < output_segment
      /\ output_segment \in Segment
      /\ merged \in LiveMap
  BY DEF CompactRename, IInv, PublishInv, TypeInv, TypeOK, NumberingInv
<1>2. output_segment \notin DOMAIN sst  BY <1>1, IInvFacts DEF Segment
<1>3. /\ DOMAIN sst' = DOMAIN sst \cup {output_segment}
      /\ sst'[output_segment] = merged
      /\ \A n \in DOMAIN sst : sst'[n] = sst[n]
  BY <1>1, <1>2 DEF WithFile
<1>4. ViewOf(sst', DOMAIN sst) = merged
  BY <1>1, <1>3, IInvFacts, IncompleteIgnored DEF View
<1>5. ViewOf(sst', DOMAIN sst \cup {output_segment}) = Fold(merged, merged)
  BY <1>1, <1>3, <1>4, IInvFacts, LiveMapIsTable, ViewWithNewest
<1>6. View(sst)' = merged
  BY <1>1, <1>3, <1>5, FoldSelf DEF View
<1> QED  BY <1>1, <1>2, <1>3, <1>6

LEMMA StepCompactRename ==
    ASSUME IInv, CompactRename, TypeInv'
    PROVE  IInv'
<1>1. /\ phase = "publish" /\ phase' = "delete"
      /\ next' = 1
      /\ UNCHANGED <<sstable_readers, latest_segment_num, flushing, inputs,
                     output_segment, merged>>
      /\ sstable_readers = << >>
  BY DEF CompactRename, sessionVars, mergeVars, IInv, ReadersInv
<1>2. /\ Ordered(inputs) /\ Inputs = DOMAIN sst
      /\ \A n \in DOMAIN sst : n < output_segment
      /\ tmp = merged /\ merged \in LiveMap
  BY <1>1 DEF IInv, PublishInv, TypeInv, TypeOK
<1>3. DOMAIN sst' = {output_segment'} \cup {inputs'[j] : j \in next' .. Len(inputs')}
  <2>1. next' .. Len(inputs') = DOMAIN inputs  BY <1>1, IInvFacts
  <2> QED  BY <1>1, <1>2, <2>1, RenameFacts DEF Inputs
<1>4. DeleteInv'
  <2>1. next' <= Len(inputs') + 1  BY <1>1, IInvFacts
  <2>2. \A n \in Inputs' : n < output_segment'  BY <1>1, <1>2 DEF Inputs
  <2>3. sst'[output_segment'] = merged' /\ merged' = View(sst)'
    BY <1>1, RenameFacts
  <2>4. Ordered(inputs)'  BY <1>1, <1>2 DEF Ordered
  <2> QED  BY <1>3, <2>1, <2>2, <2>3, <2>4 DEF DeleteInv
<1>5. ReadersInv'
  BY <1>1 DEF ReadersInv, Ordered, Loading
<1>6. CompleteInv'
  BY <1>1, <1>2, RenameFacts, LiveMapIsTable DEF CompleteInv, IInv
<1> QED
  BY <1>1, <1>4, <1>5, <1>6
  DEF IInv, WriterInv, FlushInv, MergeInv, PublishInv, ReloadInv

\* Deleting the oldest input changes nothing that the files say.
LEMMA DeleteFacts ==
    ASSUME IInv, CompactDelete
    PROVE  /\ next \in Nat \ {0} /\ next <= Len(inputs)
           /\ DOMAIN sst' = {output_segment}
                               \cup {inputs[j] : j \in next + 1 .. Len(inputs)}
           /\ output_segment \in DOMAIN sst'
           /\ \A n \in DOMAIN sst' : n \in DOMAIN sst /\ sst'[n] = sst[n]
           /\ View(sst)' = View(sst)
<1> DEFINE n == inputs[next]
<1>1. /\ next \in Nat \ {0} /\ next <= Len(inputs)
      /\ sst' = WithoutFile(sst, n)
      /\ Ordered(inputs)
      /\ \A m \in Inputs : m < output_segment
      /\ DOMAIN sst = {output_segment} \cup {inputs[j] : j \in next .. Len(inputs)}
      /\ sst[output_segment] = merged
      /\ merged = View(sst)
  BY DEF CompactDelete, IInv, DeleteInv, TypeInv, TypeOK
<1>2. next .. Len(inputs) \subseteq DOMAIN inputs /\ next \in next .. Len(inputs)
  BY <1>1, IInvFacts
<1>3. /\ n \in Segment /\ n \in DOMAIN sst
      /\ n < output_segment
      /\ output_segment \in Segment
  <2>1. n \in Segment  BY <1>2, IInvFacts
  <2>2. n \in DOMAIN sst  BY <1>1, <1>2
  <2>3. n < output_segment  BY <1>1, <1>2 DEF Inputs
  <2>4. output_segment \in Segment  BY <1>1, IInvFacts
  <2> QED  BY <2>1, <2>2, <2>3, <2>4
<1>4. \A j \in next + 1 .. Len(inputs) : n < inputs[j]
  <2> TAKE j \in next + 1 .. Len(inputs)
  <2>1. j \in DOMAIN inputs /\ next \in DOMAIN inputs /\ next < j
    BY <1>1, <1>2, IInvFacts
  <2> QED  BY <1>1, <2>1 DEF Ordered
<1>5. next .. Len(inputs) = {next} \cup (next + 1 .. Len(inputs))
  BY <1>1, IInvFacts
<1>6. {inputs[j] : j \in next .. Len(inputs)}
         = {n} \cup {inputs[j] : j \in next + 1 .. Len(inputs)}
  BY <1>5
<1>7. n \notin {inputs[j] : j \in next + 1 .. Len(inputs)} /\ n # output_segment
  BY <1>3, <1>4 DEF Segment
<1> HIDE DEF n
<1>8. /\ DOMAIN sst' = DOMAIN sst \ {n}
      /\ \A m \in DOMAIN sst' : sst'[m] = sst[m]
  BY <1>1 DEF WithoutFile
<1>9. DOMAIN sst' = {output_segment} \cup {inputs[j] : j \in next + 1 .. Len(inputs)}
  BY <1>1, <1>6, <1>7, <1>8
<1>10. \A m \in DOMAIN sst : n <= m /\ m <= output_segment
  <2> TAKE m \in DOMAIN sst
  <2>1. CASE m = output_segment  BY <1>3, <2>1 DEF Segment
  <2>2. CASE m = n  BY <1>3, <2>2 DEF Segment
  <2>3. CASE m # n /\ m # output_segment
    <3>1. PICK j \in next + 1 .. Len(inputs) : m = inputs[j]
      BY <1>1, <1>6, <2>3
    <3>2. n < m  BY <1>4, <3>1
    <3>3. m < output_segment
      BY <1>1, <1>2, <1>5, <3>1 DEF Inputs
    <3> QED  BY <1>3, <3>2, <3>3, IInvFacts DEF Segment
  <2> QED  BY <2>1, <2>2, <2>3
<1>11. ViewOf(sst, DOMAIN sst \ {n}) = View(sst)
  <2>1. /\ DOMAIN sst \in SUBSET Segment /\ n \in DOMAIN sst
        /\ output_segment \in DOMAIN sst /\ n # output_segment
        /\ sst[output_segment] = ViewOf(sst, DOMAIN sst)
    BY <1>1, <1>3, <1>7, IInvFacts DEF View
  <2>2. ViewOf(sst, DOMAIN sst \ {n}) = ViewOf(sst, DOMAIN sst)
    BY <2>1, <1>10, ViewWithoutOldest
  <2> QED  BY <2>2 DEF View
<1>12. ViewOf(sst', DOMAIN sst') = ViewOf(sst, DOMAIN sst \ {n})
  BY <1>8, IInvFacts, IncompleteIgnored
<1> QED  BY <1>1, <1>8, <1>9, <1>11, <1>12 DEF View

LEMMA StepCompactDelete ==
    ASSUME IInv, CompactDelete, TypeInv'
    PROVE  IInv'
<1>1. /\ phase = "delete" /\ phase' = "delete"
      /\ next' = next + 1
      /\ UNCHANGED <<sstable_readers, latest_segment_num, flushing, inputs,
                     output_segment, merged>>
      /\ sstable_readers = << >>
  BY DEF CompactDelete, sessionVars, mergeVars, IInv, ReadersInv
<1>2. DeleteInv'
  <2>1. next' <= Len(inputs') + 1  BY <1>1, IInvFacts, DeleteFacts
  <2>2. Ordered(inputs)' /\ \A n \in Inputs' : n < output_segment'
    BY <1>1 DEF Ordered, Inputs, IInv, DeleteInv
  <2>3. DOMAIN sst' = {output_segment'} \cup {inputs'[j] : j \in next' .. Len(inputs')}
    BY <1>1, DeleteFacts
  <2>4. sst'[output_segment'] = merged' /\ merged' = View(sst)'
    BY <1>1, DeleteFacts DEF IInv, DeleteInv
  <2> QED  BY <2>1, <2>2, <2>3, <2>4 DEF DeleteInv
<1>3. ReadersInv'
  BY <1>1 DEF ReadersInv, Ordered, Loading
<1>4. CompleteInv'
  BY <1>1, DeleteFacts DEF CompleteInv, IInv
<1> QED
  BY <1>1, <1>2, <1>3, <1>4
  DEF IInv, WriterInv, FlushInv, MergeInv, PublishInv, ReloadInv

LEMMA StepCompactReload ==
    ASSUME IInv, CompactReload, TypeInv'
    PROVE  IInv'
<1>1. /\ phase = "delete" /\ phase' = "reload"
      /\ next > Len(inputs) /\ next \in Nat
      /\ UNCHANGED <<sst, sstable_readers, latest_segment_num, flushing, inputs,
                     output_segment, merged>>
      /\ sstable_readers = << >>
  BY DEF CompactReload, sessionVars, compactVars, mergeVars, IInv, ReadersInv,
         TypeInv, TypeOK
<1>2. DOMAIN sst = {output_segment} /\ sst[output_segment] = merged
  <2>1. next .. Len(inputs) = {}  BY <1>1, IInvFacts
  <2> QED  BY <1>1, <2>1 DEF IInv, DeleteInv
<1>3. ReadersInv'
  BY <1>1, OpenedNone DEF ReadersInv, Ordered
<1> QED
  BY <1>1, <1>2, <1>3
  DEF IInv, WriterInv, FlushInv, CompleteInv, MergeInv, PublishInv, DeleteInv,
      ReloadInv

-----------------------------------------------------------------------------
(* The end of a session.                                                   *)

LEMMA StepDestroy ==
    ASSUME IInv, Destroy, TypeInv'
    PROVE  IInv'
<1>1. /\ phase = "idle" /\ phase' = "down"
      /\ sstable_readers' = << >> /\ flushing' = EmptyTable
      /\ UNCHANGED sst
  BY DEF Destroy, SessionEnds
<1> QED
  BY <1>1
  DEF IInv, ReadersInv, WriterInv, FlushInv, CompleteInv, MergeInv, PublishInv,
      DeleteInv, ReloadInv, Ordered, Loading

LEMMA StepCrash ==
    ASSUME IInv, Crash, TypeInv'
    PROVE  IInv'
<1>1. /\ phase' = "down" /\ "crash" \in Faults
      /\ sstable_readers' = << >> /\ flushing' = EmptyTable
  BY DEF Crash, SessionEnds
<1> QED
  BY <1>1
  DEF IInv, ReadersInv, WriterInv, FlushInv, CompleteInv, MergeInv, PublishInv,
      DeleteInv, ReloadInv, Ordered, Loading

\* A crash changes nothing that the files say, and neither does a file it
\* leaves cut short.
LEMMA CrashFacts ==
    ASSUME IInv, Crash
    PROVE  /\ DOMAIN sst' = DOMAIN sst
           /\ \A n \in DOMAIN sst : sst[n] \in Table => sst'[n] = sst[n]
           /\ View(sst)' = View(sst)
<1>1. /\ DOMAIN sst' = DOMAIN sst
      /\ \A n \in DOMAIN sst :
            \/ sst'[n] = sst[n]
            \/ sst[n] \notin Table /\ sst'[n] \notin Table
  <2>1. CASE phase = "flush"
    <3>1. PICK c \in {Stub, Torn} : sst' = WithFile(sst, Target, c)
      BY <2>1 DEF Crash
    <3>2. Target \in DOMAIN sst /\ sst[Target] = Stub
      BY <2>1 DEF IInv, FlushInv
    <3> QED  BY <3>1, <3>2, IInvFacts DEF WithFile
  <2>2. CASE phase # "flush"
    BY <2>2 DEF Crash
  <2> QED  BY <2>1, <2>2
<1>2. ViewOf(sst', DOMAIN sst') = ViewOf(sst, DOMAIN sst)
  BY <1>1, IInvFacts, IncompleteIgnored
<1> QED  BY <1>1, <1>2 DEF View

LEMMA StepStutter ==
    ASSUME IInv, UNCHANGED sstVars
    PROVE  IInv'
<1>1. UNCHANGED <<sst, tmp, sstable_readers, latest_segment_num, flushing,
                  inputs, output_segment, merged, next, phase>>
  BY DEF sstVars, sessionVars, compactVars, mergeVars
<1>2. UNCHANGED <<TypeInv, ReadersInv, WriterInv, FlushInv>>
  BY <1>1 DEF TypeInv, TypeOK, NumberingInv, ReadersInv, WriterInv, FlushInv,
              Opened, Unopened, Loading, Ordered, Target
<1>3. UNCHANGED <<CompleteInv, MergeInv, PublishInv, DeleteInv, ReloadInv>>
  BY <1>1 DEF CompleteInv, MergeInv, PublishInv, DeleteInv, ReloadInv,
              Inputs, Ordered, Target, View
<1> QED  BY <1>2, <1>3 DEF IInv

-----------------------------------------------------------------------------
LEMMA IInvNext ==
    ASSUME Reliable
    PROVE  IInv /\ [Next]_sstVars => IInv'
<1> SUFFICES ASSUME IInv, [Next]_sstVars PROVE IInv'
  OBVIOUS
<1>1. TypeInv'  BY TypeInvNext DEF IInv
<1>2. ~FlushShort /\ ~MergeThrows
  BY DEF Reliable, FlushShort, MergeThrows
<1>3. CASE UNCHANGED sstVars  BY <1>3, StepStutter
<1>4. CASE Progress
  BY <1>1, <1>2, <1>4, StepLoadNext, StepLoadThrows, StepLoadDone, StepFlushEnd,
     StepNoCompaction, StepCompactBegin, StepMergeNext, StepCompactWrite,
     StepCompactWriteFails, StepCompactRename, StepCompactDelete,
     StepCompactReload
  DEF Progress
<1>5. CASE Call
  BY <1>1, <1>5, StepOpen, StepFlushBegin, StepCompactBegin, StepDestroy, StepCrash
  DEF Call
<1> QED  BY <1>3, <1>4, <1>5 DEF Next

\* In a reliable environment the files, the readers, the writer's number and
\* the progress of a flush or a compaction agree, in every phase.
THEOREM InvariantHolds ==
    ASSUME Reliable
    PROVE  Spec => []IInv
<1>1. IInv /\ [Next]_sstVars => IInv'  BY IInvNext
<1> QED  BY IInvInit, <1>1, PTL DEF Spec

-----------------------------------------------------------------------------
(* What follows from the invariant.                                        *)

\* While no operation runs, the last reader that holds a key is a reader of the
\* newest file that holds it.
LEMMA LookupsAgree == IInv => SessionReads
<1> SUFFICES ASSUME IInv, phase = "idle", NEW k \in Key
             PROVE  ReadersGet(k) = View(sst)[k]
  BY DEF SessionReads
<1> DEFINE hits == {i \in DOMAIN sstable_readers :
                       k \in Key /\ sst[sstable_readers[i]] \in Table
                                 /\ sst[sstable_readers[i]][k] # Absent}
           H == Holders(sst, DOMAIN sst, k)
<1>1. /\ Ordered(sstable_readers) /\ Opened = DOMAIN sst
      /\ DOMAIN sstable_readers = 1 .. Len(sstable_readers)
      /\ Len(sstable_readers) \in Nat
  BY IInvFacts DEF IInv, ReadersInv
<1>2. \A n \in H : \E i \in hits : sstable_readers[i] = n
  BY <1>1 DEF Holders, Opened
<1>3. \A i \in hits : sstable_readers[i] \in H
  BY <1>1 DEF Holders, Opened
<1>4. CASE hits = {}
  <2>1. H = {}  BY <1>2, <1>4
  <2> QED  BY <1>4, <2>1 DEF ReadersGet, View, ViewOf
<1>5. CASE hits # {}
  <2> DEFINE p == Newest(hits)
  <2>1. hits \in SUBSET (0 .. Len(sstable_readers))  BY <1>1
  <2>2. p \in hits /\ \A i \in hits : i <= p
    <3> HIDE DEF hits
    <3> QED  BY <1>1, <1>5, <2>1, NewestExists
  <2>3. p \in DOMAIN sstable_readers /\ sstable_readers[p] \in H  BY <1>3, <2>2
  <2>4. \A n \in H : n <= sstable_readers[p]
    <3> TAKE n \in H
    <3>1. PICK i \in hits : sstable_readers[i] = n  BY <1>2
    <3>2. i <= p /\ i \in DOMAIN sstable_readers  BY <2>2
    <3>3. i = p \/ i < p  BY <1>1, <2>3, <3>2
    <3>4. n \in Nat /\ sstable_readers[p] \in Nat
      BY <2>3, IInvFacts DEF Holders
    <3>5. i < p => n < sstable_readers[p]
      BY <1>1, <2>3, <3>1, <3>2 DEF Ordered
    <3> HIDE DEF p
    <3> QED  BY <3>1, <3>3, <3>4, <3>5
  <2>5. H \in SUBSET Nat  BY IInvFacts DEF Holders
  <2>6. Newest(H) = sstable_readers[p]
    <3> HIDE DEF H, p
    <3> QED  BY <2>3, <2>4, <2>5, NewestIs
  <2>7. H # {}  BY <2>3
  <2>8. ReadersGet(k) = Live(sst[sstable_readers[p]][k])
    BY <1>5 DEF ReadersGet
  <2>9. View(sst)[k] = Live(sst[Newest(H)][k])
    BY <2>7 DEF View, ViewOf
  <2> QED  BY <2>6, <2>8, <2>9
<1> QED  BY <1>4, <1>5

\* Between two operations a lookup answers what the files on disk say
\* (IztaDB::get over sstable_readers).
THEOREM SessionReadsHolds ==
    ASSUME Reliable
    PROVE  Spec => []SessionReads
BY InvariantHolds, LookupsAgree, PTL

-----------------------------------------------------------------------------
\* No step changes a complete file.
LEMMA CompleteFilesKept ==
    ASSUME Reliable, IInv, Next,
           NEW n \in DOMAIN sst, n \in DOMAIN sst', sst[n] \in Table
    PROVE  sst'[n] = sst[n]
<1>1. CASE \E t \in Table : FlushBegin(t)
  <2>1. PICK t \in Table : FlushBegin(t)  BY <1>1
  <2>2. n # Target  BY <2>1, FlushBeginFacts
  <2> QED  BY <2>1, <2>2 DEF FlushBegin, WithFile
<1>2. CASE FlushEnd
  <2>1. n # Target  BY <1>2, IInvFacts DEF FlushEnd, IInv, FlushInv
  <2> QED  BY <1>2, <2>1 DEF FlushEnd, WithFile
<1>3. CASE CompactRename  BY <1>3, RenameFacts
<1>4. CASE CompactDelete  BY <1>4, DeleteFacts
<1>5. CASE Crash  BY <1>5, CrashFacts
<1>6. CASE UNCHANGED sst  BY <1>6
<1>7. ~FlushShort /\ ~MergeThrows
  BY DEF Reliable, FlushShort, MergeThrows
<1>8. \/ \E t \in Table : FlushBegin(t)
      \/ FlushEnd \/ CompactRename \/ CompactDelete \/ Crash
      \/ UNCHANGED sst
  BY <1>7
  DEF Next, Progress, Call, Open, LoadNext, LoadThrows, LoadDone, NoCompaction,
      CompactBegin, MergeNext, CompactWrite, CompactWriteFails, CompactReload,
      Destroy
<1> QED  BY <1>1, <1>2, <1>3, <1>4, <1>5, <1>6, <1>8

\* SSTables are immutable: a complete file stays as it is or is deleted.
THEOREM ImmutableHolds ==
    ASSUME Reliable
    PROVE  Spec => Immutable
<1>1. IInv /\ [Next]_sstVars =>
        [\A n \in DOMAIN sst \cap DOMAIN sst' :
            sst[n] \in Table => sst'[n] = sst[n]]_sstVars
  BY CompleteFilesKept
<1> QED  BY InvariantHolds, <1>1, PTL DEF Spec, Immutable

\* A compaction that comes to its end leaves one file, without tombstones.
THEOREM CompactionFoldsAllHolds ==
    ASSUME Reliable
    PROVE  Spec => CompactionFoldsAll
<1>1. ASSUME IInv, Next, phase = "reload", phase' = "idle"
      PROVE  /\ DOMAIN sst' = {output_segment}
             /\ sst'[output_segment] \in LiveMap
  <2>1. DOMAIN sst = {output_segment} /\ sst[output_segment] = merged
    BY <1>1 DEF IInv, ReloadInv
  <2>2. merged \in LiveMap  BY <1>1 DEF IInv, TypeInv, TypeOK
  <2>3. UNCHANGED sst
    BY <1>1
    DEF Next, Progress, Call, Open, LoadNext, LoadThrows, LoadDone, FlushBegin,
        FlushEnd, FlushShort, NoCompaction, CompactBegin, MergeNext, MergeThrows,
        CompactWrite, CompactWriteFails, CompactRename, CompactDelete,
        CompactReload, Destroy, Crash, Merged
  <2> QED  BY <2>1, <2>2, <2>3
<1>2. IInv /\ [Next]_sstVars =>
        [phase = "reload" /\ phase' = "idle"
           => /\ DOMAIN sst' = {output_segment}
              /\ sst'[output_segment] \in LiveMap]_sstVars
  BY <1>1
<1> QED  BY InvariantHolds, <1>2, PTL DEF Spec, CompactionFoldsAll

-----------------------------------------------------------------------------
(* SSTables implements FlushedMap.                                         *)

LEMMA AbstractInit == Init => Abstract!Init
<1> SUFFICES ASSUME Init PROVE Abstract!Init
  OBVIOUS
<1>1. DOMAIN sst = {} /\ flushing = EmptyTable  BY DEF Init
<1>2. Abstract!EmptyTable = EmptyTable
  BY DEF EmptyTable, Abstract!EmptyTable
<1> QED  BY <1>1, <1>2, ViewOfNothing DEF Abstract!Init, View

\* A step maps to the beginning of a flush, to its end, to its loss, or to
\* nothing at all.
LEMMA AbstractStep ==
    ASSUME Reliable, IInv, [Next]_sstVars
    PROVE  [Abstract!Next]_(Abstract!vars)
<1> USE DEF Abstract!vars
<1>1. CASE \E t \in Table : FlushBegin(t)
  <2>1. PICK t \in Table : FlushBegin(t)  BY <1>1
  <2>2. /\ View(sst)' = View(sst)
        /\ flushing = EmptyTable /\ flushing' = t /\ t # EmptyTable
    BY <2>1, FlushBeginFacts DEF FlushBegin, IInv, FlushInv
  <2>3. Abstract!Begin(t)
    BY <2>2 DEF Abstract!Begin, Abstract!EmptyTable, EmptyTable
  <2>4. t \in Abstract!Table \ {Abstract!EmptyTable}
    BY <2>2 DEF Abstract!Table, Abstract!Entry, Table, Entry,
                Abstract!EmptyTable, EmptyTable
  <2> QED  BY <2>3, <2>4 DEF Abstract!Next
<1>2. CASE FlushEnd
  <2>1. /\ View(sst)' = Fold(View(sst), flushing)
        /\ flushing # EmptyTable /\ flushing' = EmptyTable
    BY <1>2, FlushEndFacts DEF FlushEnd, IInv, FlushInv
  <2>2. Abstract!Commit
    BY <2>1 DEF Abstract!Commit, Abstract!Fold, Abstract!Live, Fold, Live,
                Abstract!EmptyTable, EmptyTable
  <2> QED  BY <2>2 DEF Abstract!Next
<1>3. CASE Crash
  <2>1. View(sst)' = View(sst) /\ flushing' = EmptyTable
    BY <1>3, CrashFacts DEF Crash, SessionEnds
  <2>2. CASE flushing = EmptyTable
    BY <2>1, <2>2
  <2>3. CASE flushing # EmptyTable
    BY <2>1, <2>3
    DEF Abstract!Next, Abstract!Abort, Abstract!EmptyTable, EmptyTable
  <2> QED  BY <2>2, <2>3
<1>4. CASE CompactRename
  BY <1>4, RenameFacts DEF CompactRename, sessionVars
<1>5. CASE CompactDelete
  BY <1>5, DeleteFacts DEF CompactDelete, sessionVars
<1>6. CASE Destroy
  BY <1>6 DEF Destroy, SessionEnds, IInv, FlushInv, View
<1>7. CASE UNCHANGED <<sst, flushing>>
  BY <1>7 DEF View
<1>8. ~FlushShort /\ ~MergeThrows
  BY DEF Reliable, FlushShort, MergeThrows
<1>9. \/ \E t \in Table : FlushBegin(t)
      \/ FlushEnd \/ CompactRename \/ CompactDelete \/ Crash \/ Destroy
      \/ UNCHANGED <<sst, flushing>>
  BY <1>8
  DEF Next, Progress, Call, Open, LoadNext, LoadThrows, LoadDone, NoCompaction,
      CompactBegin, MergeNext, CompactWrite, CompactWriteFails, CompactReload,
      sstVars, sessionVars
<1> QED  BY <1>1, <1>2, <1>3, <1>4, <1>5, <1>6, <1>7, <1>9

\* The directory implements the abstract map: only a flush that completes
\* changes what the files say, and a compaction, whatever step it is
\* interrupted at, changes nothing.
THEOREM Refinement ==
    ASSUME Reliable
    PROVE  Spec => RefinesFlushedMap
<1>1. IInv /\ [Next]_sstVars => [Abstract!Next]_(Abstract!vars)
  BY AbstractStep
<1> QED
  BY AbstractInit, InvariantHolds, <1>1, PTL
  DEF Spec, RefinesFlushedMap, Abstract!Spec

\* What the files say is a map of live records, and it changes only when a flush
\* comes to its end: by all the records of the flush at once.
ViewTyped == View(sst) \in LiveMap
FlushDecides ==
    [][View(sst)' = IF phase = "flush" /\ phase' = "flushed"
                    THEN Fold(View(sst), flushing) ELSE View(sst)]_sstVars

LEMMA ViewStep ==
    ASSUME Reliable, IInv, [Next]_sstVars
    PROVE  View(sst)' = IF phase = "flush" /\ phase' = "flushed"
                        THEN Fold(View(sst), flushing) ELSE View(sst)
<1>1. CASE \E t \in Table : FlushBegin(t)
  BY <1>1, FlushBeginFacts DEF FlushBegin
<1>2. CASE FlushEnd
  BY <1>2, FlushEndFacts DEF FlushEnd
<1>3. CASE Crash
  BY <1>3, CrashFacts DEF Crash, SessionEnds
<1>4. CASE CompactRename
  BY <1>4, RenameFacts DEF CompactRename
<1>5. CASE CompactDelete
  BY <1>5, DeleteFacts DEF CompactDelete
<1>6. CASE sst' = sst /\ ~(phase = "flush" /\ phase' = "flushed")
  BY <1>6 DEF View
<1>7. \/ \E t \in Table : FlushBegin(t)
      \/ FlushEnd \/ CompactRename \/ CompactDelete \/ Crash
      \/ sst' = sst /\ ~(phase = "flush" /\ phase' = "flushed")
  BY DEF Next, Progress, Call, Open, LoadNext, LoadThrows, LoadDone, NoCompaction,
         CompactBegin, MergeNext, CompactWrite, CompactWriteFails, CompactReload,
         Reliable, FlushShort, MergeThrows, Destroy, SessionEnds, Loading, Merged,
         sstVars, sessionVars
<1> QED  BY <1>1, <1>2, <1>3, <1>4, <1>5, <1>6, <1>7

\* Only flushes decide what the files say, for as long as the database lives.
THEOREM FlushDecidesHolds ==
    ASSUME Reliable
    PROVE  Spec => []ViewTyped /\ FlushDecides
<1>1. IInv => ViewTyped
  BY IInvFacts, ViewType DEF ViewTyped, View
<1>2. IInv /\ [Next]_sstVars
         => [View(sst)' = IF phase = "flush" /\ phase' = "flushed"
                          THEN Fold(View(sst), flushing) ELSE View(sst)]_sstVars
  BY ViewStep
<1> QED  BY InvariantHolds, <1>1, <1>2, PTL DEF Spec, FlushDecides

-----------------------------------------------------------------------------
\* There is a reader for every file, so there are no more files than readers.
LEMMA FilesCountedByReaders ==
    ASSUME IInv, Opened = DOMAIN sst
    PROVE  /\ IsFiniteSet(DOMAIN sst)
           /\ Cardinality(DOMAIN sst) <= Len(sstable_readers)
<1> DEFINE N == Len(sstable_readers)
<1>1. N \in Nat /\ DOMAIN sstable_readers = 1 .. N
      /\ sstable_readers = [i \in 1 .. N |-> sstable_readers[i]]
  BY IInvFacts
<1>2. sstable_readers \in Surjection(1 .. N, DOMAIN sst)
  <2>1. sstable_readers \in [1 .. N -> DOMAIN sst]  BY <1>1 DEF Opened
  <2>2. \A n \in DOMAIN sst : \E i \in 1 .. N : sstable_readers[i] = n
    BY <1>1 DEF Opened
  <2> QED  BY <2>1, <2>2 DEF Surjection
<1>3. IsFiniteSet(1 .. N) /\ Cardinality(1 .. N) = N
  <2>1. 1 \in Int /\ N \in Int  BY <1>1
  <2>2. /\ IsFiniteSet(1 .. N)
        /\ Cardinality(1 .. N) = IF 1 > N THEN 0 ELSE N - 1 + 1
    BY <2>1, FS_Interval
  <2> QED  BY <1>1, <2>2
<1>4. IsFiniteSet(DOMAIN sst) /\ Cardinality(DOMAIN sst) <= Cardinality(1 .. N)
  BY <1>2, <1>3, FS_Surjection
<1> QED  BY <1>3, <1>4

\* Whenever a flush or a compaction has returned, fewer files are left than the
\* trigger: the file count stays bounded.
THEOREM FileCountBoundedHolds ==
    ASSUME Reliable
    PROVE  Spec => FileCountBounded
<1>1. ASSUME IInv, Next, compaction_trigger > 1,
             phase \in {"flushed", "reload"}, phase' = "idle"
      PROVE  Cardinality(DOMAIN sst') < compaction_trigger
  <2>1. compaction_trigger \in Nat  BY SSTablesAssumption
  <2>2. CASE phase = "reload"
    <3>1. DOMAIN sst = {output_segment}
      BY <1>1, <2>2 DEF IInv, ReloadInv
    <3>2. UNCHANGED sst
      BY <1>1, <2>2
      DEF Next, Progress, Call, Open, LoadNext, LoadThrows, LoadDone, FlushBegin,
          FlushEnd, FlushShort, NoCompaction, CompactBegin, MergeNext, MergeThrows,
          CompactWrite, CompactWriteFails, CompactRename, CompactDelete,
          CompactReload, Destroy, Crash, Merged
    <3>3. Cardinality(DOMAIN sst') = 1  BY <3>1, <3>2, FS_Singleton
    <3> QED  BY <1>1, <2>1, <3>3
  <2>3. CASE phase = "flushed"
    <3>1. ~TriggerReached /\ UNCHANGED sst
      BY <1>1, <2>3
      DEF Next, Progress, Call, Open, LoadNext, LoadThrows, LoadDone, FlushBegin,
          FlushEnd, FlushShort, NoCompaction, CompactBegin, MergeNext, MergeThrows,
          CompactWrite, CompactWriteFails, CompactRename, CompactDelete,
          CompactReload, Destroy, Crash, Merged, Loading, NextToOpen, SessionEnds
    <3>2. Len(sstable_readers) < compaction_trigger
          /\ Len(sstable_readers) \in Nat
      BY <1>1, <2>1, <3>1, IInvFacts DEF TriggerReached
    <3>3. Opened = DOMAIN sst  BY <1>1, <2>3 DEF IInv, ReadersInv
    <3>4. Cardinality(DOMAIN sst) \in Nat
          /\ Cardinality(DOMAIN sst) <= Len(sstable_readers)
      BY <1>1, <3>3, FilesCountedByReaders, FS_CardinalityType
    <3> QED  BY <2>1, <3>1, <3>2, <3>4
  <2> QED  BY <1>1, <2>2, <2>3
<1>2. IInv /\ [Next]_sstVars =>
        [compaction_trigger > 1 /\ phase \in {"flushed", "reload"} /\ phase' = "idle"
           => Cardinality(DOMAIN sst') < compaction_trigger]_sstVars
  BY <1>1
<1> QED  BY InvariantHolds, <1>2, PTL DEF Spec, FileCountBounded

=============================================================================
