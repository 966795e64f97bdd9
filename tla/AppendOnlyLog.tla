--------------------------- MODULE AppendOnlyLog ----------------------------
(***************************************************************************)
(* What a set of audit logs promises: histories that only ever grow at     *)
(* their end.                                                              *)
(***************************************************************************)
EXTENDS Sequences, SequencesExt

CONSTANTS LogNames, LogEntries

VARIABLE logs

LogInit == logs = [n \in LogNames |-> <<>>]

\* Entries are added after everything that is already there.
Extend ==
    \A n \in LogNames :
        /\ logs'[n] \in Seq(LogEntries)
        /\ IsPrefix(logs[n], logs'[n])

LogSpec == LogInit /\ [][Extend]_logs

=============================================================================
