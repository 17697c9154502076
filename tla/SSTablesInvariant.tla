------------------------- MODULE SSTablesInvariant -------------------------
(***************************************************************************)
(* The inductive invariant of SSTables: what is true in each phase of the  *)
(* thread, and why the safety properties hold.                             *)
(***************************************************************************)
EXTENDS SSTables

\* The environments in which it holds: writes that fail are noticed; the .tmp
\* file always opens, or no crash leaves a file cut short; and no number is so
\* high that its name sorts before a lower one's.
Reliable ==
    /\ "short_write" \notin Faults
    /\ "crash" \notin Faults \/ "tmp_open" \notin Faults
    /\ MaxSegment < PadLimit

Ordered(s) == \A i, j \in DOMAIN s : i < j => s[i] < s[j]
Inputs == {inputs[j] : j \in DOMAIN inputs}

\* What TypeOK needs to be inductive: the number a file is about to get is
\* within bounds, what is renamed into place is a file, and the readers are
\* readers of files that exist.
NumberingInv ==
    /\ phase = "flush" => Target \in Segment
    /\ phase \in {"merge", "publish"} => output_segment \in Segment
    /\ phase = "publish" => tmp \in Content
    /\ phase \in {"publish", "delete"} => sstable_readers = << >>
    /\ Opened \subseteq DOMAIN sst

TypeInv == TypeOK /\ NumberingInv

\* Readers are opened in the order of their numbers, and outside of a load, a
\* flush or the end of a compaction there is one for every file.
ReadersInv ==
    /\ Ordered(sstable_readers)
    /\ phase \in {"down", "publish", "delete"} => sstable_readers = << >>
    /\ phase \in {"idle", "flushed", "merge"} => Opened = DOMAIN sst
    /\ Loading => \A m \in Opened, n \in Unopened : m < n

\* The writer's cached number is no lower than that of any file.
WriterInv ==
    phase \in {"load", "idle", "flushed", "merge", "reopen"}
        => \A n \in DOMAIN sst : n <= latest_segment_num

\* A flush writes to a file of its own, above all others, and nobody has it
\* open before it is complete.
FlushInv ==
    /\ phase # "flush" => flushing = EmptyTable
    /\ phase = "flush" =>
          /\ flushing # EmptyTable
          /\ Target \in DOMAIN sst /\ sst[Target] = Stub
          /\ \A n \in DOMAIN sst : n <= Target
          /\ Opened = DOMAIN sst \ {Target}

\* Only a crash leaves a file cut short.
CompleteInv ==
    /\ phase = "reopen" => "tmp_open" \in Faults
    /\ \/ "crash" \in Faults
       \/ \A n \in DOMAIN sst :
             sst[n] \in Table \/ (phase = "flush" /\ n = Target)

\* The merge has folded the files up to its position, from the oldest on.
MergeInv ==
    phase = "merge" =>
        /\ inputs = sstable_readers
        /\ \A n \in DOMAIN sst : n < output_segment
        /\ next <= Len(sstable_readers) + 1
        /\ merged = ViewOf(sst, {sstable_readers[i] : i \in 1 .. next - 1})

\* What was written to the .tmp file is what all the files together say.
PublishInv ==
    phase = "publish" =>
        /\ Ordered(inputs)
        /\ Inputs = DOMAIN sst
        /\ \A n \in DOMAIN sst : n < output_segment
        /\ tmp = merged
        /\ merged = View(sst)

\* The output and the inputs not yet deleted say together what the output says.
DeleteInv ==
    phase = "delete" =>
        /\ Ordered(inputs)
        /\ next <= Len(inputs) + 1
        /\ \A n \in Inputs : n < output_segment
        /\ DOMAIN sst = {output_segment} \cup {inputs[j] : j \in next .. Len(inputs)}
        /\ sst[output_segment] = merged
        /\ merged = View(sst)

\* The output is all that is left.
ReloadInv ==
    phase = "reload" =>
        DOMAIN sst = {output_segment} /\ sst[output_segment] = merged

\* The files, the readers, the writer's number and the progress of a flush or a
\* compaction agree, in every phase.
IInv ==
    /\ TypeInv
    /\ ReadersInv /\ WriterInv /\ FlushInv /\ CompleteInv
    /\ MergeInv /\ PublishInv /\ DeleteInv /\ ReloadInv

=============================================================================
