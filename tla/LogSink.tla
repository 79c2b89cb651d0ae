------------------------------- MODULE LogSink -------------------------------
(***************************************************************************)
(* Log lines on their way into the table logs                              *)
(* (kernel/logging/sqlite-sink.ts): a buffer, flushes one after the other  *)
(* on a chain, batches, and the trimming of the table.                     *)
(*                                                                         *)
(* Lines are numbered in the order in which they are accepted.             *)
(***************************************************************************)
EXTENDS Naturals, Sequences, FiniteSets, SequencesExt

CONSTANTS
    LinesMax,     \* bound on the lines logged
    FlushBatch,   \* flushBatch
    PruneEvery,   \* PRUNE_EVERY_BATCHES
    MaxRows,      \* maxRows
    QueueMax      \* bound on flushes waiting

LogSinkAssumption ==
    /\ FlushBatch \in Nat \ {0} /\ PruneEvery \in Nat \ {0} /\ MaxRows \in Nat
    /\ {LinesMax, QueueMax} \subseteq Nat

VARIABLES
    written,    \* writtenCount
    buffer,     \* buffer
    waiting,    \* flushes on the chain behind the one at work
    flush,      \* the flush at work: [pc, rows]
    since,      \* batchesSincePrune
    tableReady, \* the table is known to be there
    logs,       \* the table, oldest row first
    closing,    \* close: no, asked (its flush is on the chain), done
    lost,       \* history: lines given up with a failed flush
    owed        \* history: lines accepted when close was asked

logSinkVars == <<written, buffer, waiting, flush, since, tableReady, logs, closing, lost, owed>>

Resting == [pc |-> "none", rows |-> <<>>]

LogSinkInit ==
    /\ written = 0 /\ buffer = <<>> /\ waiting = 0 /\ flush = Resting /\ since = 0
    /\ tableReady = FALSE /\ logs = <<>> /\ closing = "no" /\ lost = {} /\ owed = 0

-----------------------------------------------------------------------------
(* the stream, the timer and close *)

\* A full buffer puts a flush on the chain; the stream stays open until close is done.
Write ==
    /\ closing # "done" /\ written < LinesMax
    /\ Len(buffer) + 1 >= FlushBatch => waiting < QueueMax
    /\ written' = written + 1
    /\ buffer'  = Append(buffer, written')
    /\ waiting' = IF Len(buffer') >= FlushBatch THEN waiting + 1 ELSE waiting
    /\ UNCHANGED <<flush, since, tableReady, logs, closing, lost, owed>>

\* The interval, or flush() of a caller.
AskFlush ==
    /\ closing = "no" /\ waiting < QueueMax
    /\ waiting' = waiting + 1
    /\ UNCHANGED <<written, buffer, flush, since, tableReady, logs, closing, lost, owed>>

Close ==
    /\ closing = "no"
    /\ closing' = "asked"
    /\ waiting' = waiting + 1
    /\ owed'    = written
    /\ UNCHANGED <<written, buffer, flush, since, tableReady, logs, lost>>

CloseEnds ==
    /\ closing = "asked" /\ waiting = 0 /\ flush.pc = "none"
    /\ closing' = "done"
    /\ UNCHANGED <<written, buffer, waiting, flush, since, tableReady, logs, lost, owed>>

-----------------------------------------------------------------------------
(* performFlush *)

\* Slip: the buffer is emptied when its rows are in.
FlushBeginsLate ==
    /\ flush.pc = "none" /\ waiting > 0
    /\ waiting' = waiting - 1
    /\ flush'   = IF buffer = <<>> THEN flush
                  ELSE [pc |-> IF tableReady THEN "insert" ELSE "table", rows |-> buffer]
    /\ UNCHANGED <<written, buffer, since, tableReady, logs, closing, lost, owed>>

FlushBegins ==
    /\ flush.pc = "none" /\ waiting > 0
    /\ waiting' = waiting - 1
    /\ buffer'  = <<>>
    /\ flush'   = IF buffer = <<>> THEN flush
                  ELSE [pc |-> IF tableReady THEN "insert" ELSE "table", rows |-> buffer]
    /\ UNCHANGED <<written, since, tableReady, logs, closing, lost, owed>>

EnsureTable ==
    /\ flush.pc = "table"
    /\ tableReady' = TRUE
    /\ flush' = [flush EXCEPT !.pc = "insert"]
    /\ UNCHANGED <<written, buffer, waiting, since, logs, closing, lost, owed>>

After(rows) == IF rows = <<>> THEN Resting ELSE [pc |-> "insert", rows |-> rows]
BatchOf(rows) == IF Len(rows) < FlushBatch THEN Len(rows) ELSE FlushBatch

InsertBatch ==
    /\ flush.pc = "insert"
    /\ LET n == BatchOf(flush.rows)
       IN  /\ logs'  = logs \o SubSeq(flush.rows, 1, n)
           /\ since' = IF since + 1 >= PruneEvery THEN 0 ELSE since + 1
           /\ flush' = IF since' = 0 THEN [pc |-> "prune", rows |-> SubSeq(flush.rows, n + 1, Len(flush.rows))]
                       ELSE After(SubSeq(flush.rows, n + 1, Len(flush.rows)))
    /\ UNCHANGED <<written, buffer, waiting, tableReady, closing, lost, owed>>

Newest(rows, n) == IF Len(rows) <= n THEN rows ELSE SubSeq(rows, Len(rows) - n + 1, Len(rows))

\* Slip: the oldest rows are kept.
PruneNewest ==
    /\ flush.pc = "prune"
    /\ logs'  = IF Len(logs) <= MaxRows THEN logs ELSE SubSeq(logs, 1, MaxRows)
    /\ flush' = After(flush.rows)
    /\ UNCHANGED <<written, buffer, waiting, since, tableReady, closing, lost, owed>>

Prune ==
    /\ flush.pc = "prune"
    /\ logs'  = Newest(logs, MaxRows)
    /\ flush' = After(flush.rows)
    /\ UNCHANGED <<written, buffer, waiting, since, tableReady, closing, lost, owed>>

\* Whatever of the flush is not in the table is given up.
FlushFails ==
    /\ flush.pc # "none"
    /\ lost'  = lost \union ToSet(flush.rows)
    /\ flush' = Resting
    /\ UNCHANGED <<written, buffer, waiting, since, tableReady, logs, closing, owed>>

LogSinkNext ==
    \/ Write \/ AskFlush \/ Close \/ CloseEnds
    \/ FlushBegins \/ EnsureTable \/ InsertBatch \/ Prune \/ FlushFails

LogSinkSpec == LogSinkInit /\ [][LogSinkNext]_logSinkVars

-----------------------------------------------------------------------------
\* Every variable stays within its type, and the table within what a trimming that
\* failed may leave.
LogSinkTypeOK ==
    /\ written \in 0 .. LinesMax /\ owed \in 0 .. LinesMax
    /\ waiting \in 0 .. QueueMax + 1 /\ since \in 0 .. PruneEvery
    /\ flush.pc \in {"none", "table", "insert", "prune"}
    /\ tableReady \in BOOLEAN /\ closing \in {"no", "asked", "done"}
    /\ lost \subseteq 1 .. LinesMax

Rises(rows) == \A i, j \in DOMAIN rows : i < j => rows[i] < rows[j]

\* The table, the flush at work and the buffer hold the lines in the order in which
\* they were accepted, none twice; one that is in none of them was given up with a
\* failed flush or is older than the rows that a trimming keeps; and when close is done, no
\* line accepted before it was asked is still in the buffer.
LinesKept ==
    LET all == logs \o flush.rows \o buffer
    IN  /\ Rises(all)
        /\ \A n \in 1 .. written : \/ n \in ToSet(all) \/ n \in lost
                                   \/ Cardinality({m \in ToSet(logs) : m > n}) >= MaxRows
        /\ closing = "done" => \A n \in ToSet(buffer) : n > owed
=============================================================================
