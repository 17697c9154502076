---------------------------- MODULE WALHistory ----------------------------
(***************************************************************************)
(* WAL with the history a client knows of: the operations acknowledged     *)
(* since the log was last cleared, the one that was under way when the     *)
(* process died, and what it was doing then.  The three are observers:     *)
(* they restrict no step.                                                  *)
(***************************************************************************)
EXTENDS WALTable

VARIABLES history,  \* the operations acknowledged and not yet cleared
          pending,  \* the operation a dead process was writing, in a sequence
          died      \* log_phase when the process died, "rot" once a disk error
                    \* followed

allVars == <<walVars, history, pending, died>>

\* s is t with some elements left out: where[i] is the place of s[i] in t.
IsSubsequence(s, t) ==
    \E where \in [DOMAIN s -> DOMAIN t] :
        /\ \A i \in DOMAIN s : s[i] = t[where[i]]
        /\ \A i, j \in DOMAIN s : i < j => where[i] < where[j]

Restores == log_phase = "down" /\ log_phase' \in {"truncate", "open"}

\* What becomes of the history is read off the step.
Observe ==
    /\ history' =
          CASE Restores -> Replayed(logs)
            [] log_phase = "apply" /\ log_phase' = "idle" -> Append(history, op)
            [] log_phase = "clear" /\ log_phase' = "idle" -> << >>
            [] OTHER -> history
    /\ pending' =
          CASE Restores -> << >>
            [] log_phase \in {"append", "close", "apply"} /\ log_phase' = "down"
                 -> <<op>>
            [] OTHER -> pending
    /\ died' =
          CASE log_phase = "down" /\ log_phase' = "down" -> "rot"
            [] log_phase # "down" /\ log_phase' = "down" -> log_phase
            [] OTHER -> died

\* Bound: how many operations a history may hold.
HistoryRoom ==
    log_phase = "idle" /\ log_phase' = "append" => Len(history) < MaxLogged

HInit == Init /\ history = << >> /\ pending = << >> /\ died = "idle"
HNext == Next /\ Observe /\ HistoryRoom
HSpec == HInit /\ [][HNext]_allVars

-----------------------------------------------------------------------------
\* Whatever happened, a torn record or CLOSE, a spoiled record, a log half
\* cleared, a recovery that was itself interrupted, a restart replays a prefix of
\* what was logged, in order: nothing is skipped, repeated or made up.
RecoversPrefix == [][Restores => IsPrefix(history', history \o pending)]_allVars

\* Even when writes fail unnoticed, or the limit changes between sessions, what
\* a restart replays was logged, once, and in that order.
RecoversInOrder ==
    [][Restores => IsSubsequence(history', history \o pending)]_allVars

\* As long as rotation was never interrupted, every acknowledged operation is
\* replayed, and of the one under way all or nothing.
SealedLogLosesNothing ==
    [][Restores /\ Sealed /\ died \notin {"rot", "clear"}
          => Len(history') >= Len(history)]_allVars

\* A recovery that a crash cut short, between truncating the bad segment and
\* removing the ones above it, and that starts over, recovers the same again.
RecoveryRepeats ==
    [][Restores /\ died \in {"truncate", "drop", "open"}
          => history' = history]_allVars

\* The next constructor would throw: the segment it has to cut does not exist.
Stranded(dir) == ~ResultOf(dir).clean /\ ResultOf(dir).segment \notin DOMAIN dir

\* Only a clearing that was cut short leaves such a log, by removing a segment
\* while a later one is left; no rotation, no recovery, interrupted or not, and
\* no spoiled record does.
OnlyClearingStrands ==
    [][Stranded(logs') /\ ~Stranded(logs) => log_phase = "clear"]_allVars

\* From the replay to the new writer the memtable is what the log would replay,
\* however far the repair has got; and a repair that has ended leaves nothing to
\* repair.
RepairKeepsLog ==
    /\ log_phase \in {"truncate", "drop", "open"}
          => mem_table = TableOf(Replayed(logs))
    /\ log_phase = "open" => ResultOf(logs) = CleanResult

\* The restart a crash would lead to rebuilds the memtable the session has: as
\* long as rotation was never interrupted, the log is never behind the memtable,
\* and during a put it is ahead by the one record on its way.
RestartRebuilds ==
    Sealed =>
        /\ log_phase \in {"idle", "append"} => TableOf(Replayed(logs)) = mem_table
        /\ log_phase \in {"close", "apply"} =>
              TableOf(Replayed(logs)) = Insert(mem_table, op.key, op.entry)

\* Within a segment, sequence numbers count up by one, across sessions too.
ConsecutiveInSegment ==
    \A n \in DOMAIN logs : \A j \in 2 .. Len(logs[n].cells) :
        IsRecord(logs[n].cells[j - 1]) /\ IsRecord(logs[n].cells[j])
            => logs[n].cells[j].seq = logs[n].cells[j - 1].seq + 1

-----------------------------------------------------------------------------
(* What the documentation says and the code does not do.                   *)

\* "Before a record is inserted to the database it's stored in a WAL where it
\* would persist in case of a crash."
AcknowledgedPersists ==
    [][Restores /\ died \notin {"rot", "clear"}
          => Len(history') >= Len(history)]_allVars

-----------------------------------------------------------------------------
(* The inductive invariant.                                                *)

\* While a session writes, its records go to the latest segment or to the one
\* after it, and a CLOSE record to the latest.
WriterInv ==
    /\ log_phase \in {"idle", "append", "close", "apply"} =>
          /\ write_path \in {LatestSegment(logs), LatestSegment(logs) + 1}
          /\ write_path # 0
    /\ log_phase = "append" => write_path <= MaxLog
    /\ log_phase = "close" => written_to = LatestSegment(logs) /\ written_to # 0
    /\ log_phase \in {"append", "close", "apply"} => op \in Op

\* A repair is under way, or was when the process died.
Repairing ==
    \/ log_phase \in {"truncate", "drop", "open"}
    \/ log_phase = "down" /\ died \in {"truncate", "drop", "open"}

\* A repair changes nothing of what is replayed: the flagged segment is the first
\* that does not end well, and once cut it holds records only.
RepairInv ==
    /\ log_phase = "truncate"
          => recovery_result = ResultOf(logs) /\ ~recovery_result.clean
    /\ log_phase = "drop" =>
          /\ recovery_result.segment \in DOMAIN logs
          /\ Whole(logs[recovery_result.segment])
          /\ \A m \in 1 .. recovery_result.segment - 1 :
                ReachedEof(Content(logs, m))
    /\ log_phase = "open" => ResultOf(logs) = CleanResult
    /\ Repairing => history = Replayed(logs)

MemTableInv ==
    /\ history \in Seq(Op)
    /\ log_phase \notin {"down", "clear"} => mem_table = TableOf(history)
    /\ log_phase = "clear" => mem_table = EmptyTable

\* Log, writer, repair and memtable agree with what was logged at every step.
IInv == TypeOK /\ WriterInv /\ RepairInv /\ MemTableInv

-----------------------------------------------------------------------------
(* The second invariant: the log holds the history.                        *)

\* The environments in which it does: writes that fail are noticed, and every
\* session opens the log with the same limit.
Steady ==
    /\ "short_write" \notin LogFaults
    /\ \A a, b \in LogLimits : a = b

\* A segment with a CLOSE record is full, so no writer appends behind it.
FullInv ==
    \A n \in DOMAIN logs :
        (\E j \in DOMAIN logs[n].cells : logs[n].cells[j] = Close)
            => Size(logs[n]) >= max_wal_file_size

\* What is appended to can be read to its end.
TargetInv ==
    /\ log_phase \in {"idle", "append", "apply"} /\ write_path \in DOMAIN logs
          => Whole(logs[write_path])
    /\ log_phase = "close" =>
          /\ write_path \notin DOMAIN logs
          /\ Whole(logs[written_to])
          /\ Size(logs[written_to]) >= max_wal_file_size

\* While a session writes, the log holds the history and the operation on its
\* way; of what is left of it later, a reader gets a prefix.
LoggedInv ==
    /\ log_phase \in {"idle", "append"} => Logged(logs) = history
    /\ log_phase \in {"close", "apply"} => Logged(logs) = Append(history, op)
    /\ log_phase \in {"down", "clear"}
          => IsPrefix(Replayed(logs), history \o pending)
    /\ log_phase = "down" /\ died \notin {"rot", "clear"}
          => Len(history) <= Len(Logged(logs))

PendingInv ==
    /\ pending \in Seq(Op)
    /\ log_phase # "down" => pending = << >>

\* What the log holds, and what can be read of it, is what was acknowledged.
HistInv == FullInv /\ TargetInv /\ LoggedInv /\ PendingInv

\* Where the writer appends, its number is the one behind the last record's.
NumberInv ==
    (/\ log_phase \in {"idle", "append", "apply"}
     /\ write_path \in DOMAIN logs
     /\ logs[write_path].cells # << >>)
       => next_sequence = Last(logs[write_path].cells).seq + 1

\* Numbers count up where the writer has appended, and go on where it will.
CountInv == ConsecutiveInSegment /\ NumberInv

=============================================================================
