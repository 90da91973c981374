----------------------------- MODULE MetricsStore -----------------------------
(***************************************************************************)
(* The transfer statistics of utils/metrics_store.py: the threads that     *)
(* upload count a transfer in a cache and queue it, one daemon thread      *)
(* writes the queue to metrics.db, and exit lets it finish for a while.    *)
(* Every transfer has the same bytes and seconds, counted in total, and    *)
(* one file or several.  Of the counters of today and of all time, which   *)
(* are filled one after the other, those of today are modelled, for a day  *)
(* that does not end.                                                      *)
(***************************************************************************)
EXTENDS Naturals, Sequences, FiniteSets

CONSTANTS
    Recorders, MetricHosts,
    FileCounts,         \* the files_count a transfer may have
    MaxRecords,         \* bound on the transfers of one thread
    MaxMetricErrors     \* bound on failing database calls

NoHost == "no host"

ASSUME MetricsAssumption ==
    /\ IsFiniteSet(Recorders) /\ MaxRecords \in Nat /\ MaxMetricErrors \in Nat
    /\ NoHost \notin MetricHosts /\ FileCounts \subseteq Nat \ {0}

VARIABLES
    recorder,       \* [host, done] of each thread; host: counted, not yet queued
    counted,        \* the cache: [loaded, total, files] for each host, whether that
                    \* of all time is loaded too (both); history: whether a
                    \* transfer had several files (several)
    writes,         \* _write_queue
    writer,         \* [pc, item] of _write_worker
    recording,      \* _running
    closing,        \* close() has still to put its sentinel
    table,          \* metrics.db: the bytes and seconds of so many transfers, which
                    \* is also what its file columns say
    lost,           \* history: the transfers counted whose write failed, or that
                    \* were never queued
    unseen,         \* history: what was in the table when reading it failed
    metricErrors

cacheVars == <<recorder, counted, unseen>>
writerVars == <<writer, table, lost>>
closeVars == <<recording, closing>>
metricsVars == <<cacheVars, writes, writerVars, closeVars, metricErrors>>

NoItem == [host |-> NoHost, late |-> FALSE]
Item(h) == [host |-> h, late |-> ~recording]

Uncounted == [loaded |-> FALSE, total |-> 0, files |-> 0, both |-> FALSE, several |-> FALSE]

MetricsInit ==
    /\ recorder = [r \in Recorders |-> [host |-> NoHost, done |-> 0]]
    /\ table \in [MetricHosts -> 0..1]
    /\ counted = [h \in MetricHosts |-> Uncounted]
    /\ writes = <<>> /\ writer = [pc |-> "get", item |-> NoItem]
    /\ recording = TRUE /\ closing = FALSE
    /\ lost = [h \in MetricHosts |-> 0] /\ unseen = [h \in MetricHosts |-> 0]
    /\ metricErrors = 0

-----------------------------------------------------------------------------
(* record_transfer.                                                        *)

\* What is counted once base has been read, or was there.
Counted(c, base, n, both) ==
    [c EXCEPT !.loaded = TRUE, !.total = base.total + 1, !.files = base.files + n,
              !.both = both, !.several = @ \/ n > 1]
Read(seen) == [total |-> seen, files |-> seen]

\* Mutant: the cache is read anew for every transfer.
CountFrom_Reloads(h, n, seen, both) ==
    /\ counted' = [counted EXCEPT ![h] = Counted(@, Read(seen), n, both)]
    /\ unseen' = [unseen EXCEPT ![h] = table[h] - seen]

\* The cache of a host is filled from the database on its first transfer, all
\* under the cache lock; what cannot be read counts as zero.
CountFrom(h, n, seen, both) ==
    /\ counted' = [counted EXCEPT ![h] =
                     Counted(@, IF @.loaded THEN @ ELSE Read(seen), n, both)]
    /\ unseen' = [unseen EXCEPT ![h] = IF counted[h].loaded THEN @ ELSE table[h] - seen]

Idle(r) == recorder[r].host = NoHost /\ recorder[r].done < MaxRecords
MetricsFail == metricErrors < MaxMetricErrors /\ metricErrors' = metricErrors + 1

CountTransfer(r, h) ==
    /\ Idle(r) /\ recorder' = [recorder EXCEPT ![r].host = h]
    /\ \E n \in FileCounts :
         \/ CountFrom(h, n, table[h], TRUE) /\ UNCHANGED metricErrors
         \/ ~counted[h].loaded /\ MetricsFail /\ CountFrom(h, n, 0, TRUE)
    /\ UNCHANGED <<writes, writerVars, closeVars>>

\* Reading a cache may also raise, when the database cannot be opened: the caller
\* gets the error and nothing is queued, though the first cache has been counted
\* if it is the second that is read.
RecordRaises(r, h) ==
    /\ Idle(r) /\ recorder' = [recorder EXCEPT ![r].done = @ + 1] /\ MetricsFail
    /\ \/ ~counted[h].loaded /\ UNCHANGED <<counted, unseen, lost>>
       \/ /\ ~counted[h].both
          /\ \E n \in FileCounts, seen \in {0, table[h]} : CountFrom(h, n, seen, FALSE)
          /\ lost' = [lost EXCEPT ![h] = @ + 1]
    /\ UNCHANGED <<writes, writer, table, closeVars>>

\* The lock is free again when the transfer is queued.
QueueWrite(r) ==
    /\ recorder[r].host # NoHost
    /\ writes' = Append(writes, Item(recorder[r].host))
    /\ recorder' = [recorder EXCEPT ![r] = [host |-> NoHost, done |-> @.done + 1]]
    /\ UNCHANGED <<counted, unseen, writerVars, closeVars, metricErrors>>

-----------------------------------------------------------------------------
(* _write_worker.                                                          *)

GoWriter(pc, item) == writer' = [pc |-> pc, item |-> item]

\* The loop waits for a write; the sentinel, or a look at _running between two
\* waits, ends it.
Get ==
    /\ writer.pc = "get" /\ writes # <<>> /\ writes' = Tail(writes)
    /\ IF Head(writes) = NoItem THEN GoWriter("drain", NoItem) ELSE GoWriter("write", Head(writes))
    /\ UNCHANGED <<cacheVars, table, lost, closeVars, metricErrors>>

LeaveLoop ==
    /\ writer.pc = "get" /\ ~recording /\ GoWriter("drain", NoItem)
    /\ UNCHANGED <<cacheVars, writes, table, lost, closeVars, metricErrors>>

\* Mutant: the rest of the queue is left when the application closes.
Drain_Leaves ==
    /\ writer.pc = "drain" /\ GoWriter("done", NoItem)
    /\ UNCHANGED <<cacheVars, writes, table, lost, closeVars, metricErrors>>

\* What is left is written until the queue is empty.
Drain ==
    /\ writer.pc = "drain"
    /\ IF writes = <<>> THEN GoWriter("done", NoItem) /\ UNCHANGED writes
       ELSE /\ writes' = Tail(writes)
            /\ IF Head(writes) = NoItem THEN GoWriter("drain", NoItem)
               ELSE GoWriter("write last", Head(writes))
    /\ UNCHANGED <<cacheVars, table, lost, closeVars, metricErrors>>

\* _process_write: one transaction, which is not tried again.
Write ==
    /\ writer.pc \in {"write", "write last"}
    /\ GoWriter(IF writer.pc = "write" THEN "get" ELSE "drain", NoItem)
    /\ \/ /\ table' = [table EXCEPT ![writer.item.host] = @ + 1]
          /\ UNCHANGED <<lost, metricErrors>>
       \/ /\ metricErrors < MaxMetricErrors /\ metricErrors' = metricErrors + 1
          /\ lost' = [lost EXCEPT ![writer.item.host] = @ + 1] /\ UNCHANGED table
    /\ UNCHANGED <<cacheVars, writes, closeVars>>

-----------------------------------------------------------------------------
(* close, which then waits two seconds; the process may end before the     *)
(* thread does.                                                            *)

Close ==
    /\ recording /\ recording' = FALSE /\ closing' = TRUE
    /\ UNCHANGED <<cacheVars, writes, writerVars, metricErrors>>

PutSentinel ==
    /\ closing /\ closing' = FALSE /\ writes' = Append(writes, NoItem)
    /\ UNCHANGED <<cacheVars, writerVars, recording, metricErrors>>

WriterStep == Get \/ LeaveLoop \/ Drain \/ Write

MetricsNext ==
    \/ \E r \in Recorders : \/ QueueWrite(r)
                           \/ \E h \in MetricHosts : CountTransfer(r, h) \/ RecordRaises(r, h)
    \/ WriterStep \/ Close \/ PutSentinel

MetricsSpec == MetricsInit /\ [][MetricsNext]_metricsVars

-----------------------------------------------------------------------------

Items == [host : MetricHosts, late : BOOLEAN]
WriterPCs == {"get", "write", "drain", "write last", "done"}

MetricsTypeOK ==
    /\ recorder \in [Recorders -> [host : MetricHosts \cup {NoHost}, done : 0..MaxRecords]]
    /\ counted \in [MetricHosts -> [loaded : BOOLEAN, total : Nat, files : Nat, both : BOOLEAN, several : BOOLEAN]]
    /\ writes \in Seq(Items \cup {NoItem})
    /\ writer \in [pc : WriterPCs, item : Items \cup {NoItem}]
    /\ recording \in BOOLEAN /\ closing \in BOOLEAN
    /\ table \in [MetricHosts -> Nat]

\* The transfers of a host that are counted and not yet in the table.
Underway(h) ==
    Cardinality({r \in Recorders : recorder[r].host = h})
    + Cardinality({i \in DOMAIN writes : writes[i].host = h})
    + (IF writer.item.host = h THEN 1 ELSE 0)

\* The bytes and seconds shown and those on the disk differ by exactly the
\* transfers under way and the recorded database errors: none is counted twice
\* or forgotten, whenever the cache of a host was filled.  So do the files, as
\* long as every transfer is of one file: the cache counts files, the table
\* transfers.
StatsAgree ==
    \A h \in MetricHosts : counted[h].loaded =>
        /\ counted[h].total + unseen[h] = table[h] + Underway(h) + lost[h]
        /\ counted[h].several \/ counted[h].files + unseen[h] = table[h] + Underway(h) + lost[h]

\* When the writer has ended, all that was queued before the application closed
\* has been written.
WrittenOnClose ==
    writer.pc = "done" => \A i \in DOMAIN writes : writes[i] # NoItem => writes[i].late
=============================================================================
