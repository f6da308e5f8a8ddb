----------------------------- MODULE QueryLogs -----------------------------
(* Where answered queries are recorded: the daily files (core query_log.rs),  *)
(* the database (query_db_log.rs and the store), a syslog server (syslog.rs)  *)
(* and an HTTP collector (log_export.rs).  Queries are numbered as they are   *)
(* answered.  The sinks share nothing: qlSink says which one is modelled.     *)
(* No sink may hold a query up, so each may lose some: the question is        *)
(* whether it says so.                                                        *)
EXTENDS Integers, Sequences, FiniteSets, Sifting

CONSTANTS
    QlMaxQueries,   \* bound: queries answered
    QlThreads,      \* threads answering queries (files only)
    QlMaxDays,      \* bound: days that pass
    QlRetention,    \* days a file or a row is kept (0: for ever)
    QlQueue,        \* capacity of a sink's queue
    QlBatch,        \* BATCH_MAX_ROWS, batch_size
    QlMaxRows,      \* query_db_max_rows (0: no limit)
    QlAttempts,     \* ATTEMPTS of an export
    QlMaxFaults     \* bound: changes of the settings, writes and posts that fail

ASSUME QlAssumption ==
    /\ {QlQueue, QlBatch, QlAttempts} \subseteq Nat \ {0} /\ {QlRetention, QlMaxRows} \subseteq Nat
    /\ IsFiniteSet(QlThreads)

VARIABLES
    qlSink,      \* "file", "db", "syslog" or "export"
    qlAsked,     \* queries offered to the sink while it was on
    qlOn,        \* whether the sink is switched on
    qlDay,
    qlFaults,
    qlQ,         \* the sink's queue
    qlKept,      \* what reached its destination, oldest first: [n, day]
    qlDropped,   \* losses the sink has counted and not reported
    qlTold,      \* losses it has reported, or counts as sent
    qlLost,      \* history: queries lost without being counted
    qlW          \* the worker's own state
qlVars == <<qlSink, qlAsked, qlOn, qlDay, qlFaults, qlQ, qlKept, qlDropped, qlTold, qlLost, qlW>>

Idle == [task |-> "idle", n |-> 0, day |-> 0]
Workers ==
    [file |-> [writer |-> 0, disabled |-> FALSE, threads |-> [t \in QlThreads |-> Idle], cut |-> 0],
     db |-> [pending |-> <<>>, cut |-> 0, bad |-> {}],
     syslog |-> [up |-> FALSE, waits |-> FALSE, gone |-> 0, unsaid |-> 0],
     export |-> [batch |-> <<>>, on |-> FALSE, tries |-> 0, unreported |-> 0]]

QlInit ==
    /\ qlSink \in DOMAIN Workers
    /\ qlAsked = 0 /\ qlOn = TRUE /\ qlDay = 1 /\ qlFaults = 0
    /\ qlQ = <<>> /\ qlKept = <<>>
    /\ qlDropped = 0 /\ qlTold = 0 /\ qlLost = 0
    /\ qlW = Workers[qlSink]

Fault(failed) == qlFaults' = qlFaults + (IF failed THEN 1 ELSE 0) /\ qlFaults' <= QlMaxFaults
Row(n) == [n |-> n, day |-> qlDay]

----------------------------------------------------------------------------
(* Queued sinks: a query is queued, or dropped and counted, never waited for. *)
QlOffer ==
    /\ qlSink # "file" /\ qlOn /\ qlAsked < QlMaxQueries
    /\ qlAsked' = qlAsked + 1
    /\ \/ Len(qlQ) < QlQueue /\ qlQ' = Append(qlQ, Row(qlAsked')) /\ UNCHANGED <<qlDropped, qlW>>
       \/ /\ Len(qlQ) = QlQueue
          /\ qlDropped' = qlDropped + 1
          /\ qlW' = CASE qlSink = "export" -> [qlW EXCEPT !.unreported = @ + 1]
                      [] qlSink = "db" -> [qlW EXCEPT !.bad = @ \cup {qlAsked'}]
                      [] OTHER -> qlW
          /\ UNCHANGED qlQ
    /\ UNCHANGED <<qlSink, qlOn, qlDay, qlFaults, qlKept, qlTold, qlLost>>

QlSwitch ==
    /\ qlOn' = ~qlOn /\ qlFaults < QlMaxFaults /\ qlFaults' = qlFaults + 1
    /\ UNCHANGED <<qlSink, qlAsked, qlDay, qlQ, qlKept, qlDropped, qlTold, qlLost, qlW>>

QlMidnight ==
    /\ qlDay < QlMaxDays /\ qlDay' = qlDay + 1
    /\ UNCHANGED <<qlSink, qlAsked, qlOn, qlFaults, qlQ, qlKept, qlDropped, qlTold, qlLost, qlW>>

Queued == UNCHANGED <<qlSink, qlAsked, qlOn, qlDay>>

----------------------------------------------------------------------------
(* The database. *)
Numbers(rows) == {rows[k].n : k \in DOMAIN rows}

(* insert_query_logs is one transaction: all of the batch, or none of it. *)
Flushed(pending, ok) ==
    /\ Fault(~ok)
    /\ qlKept' = IF ok THEN qlKept \o pending ELSE qlKept
    /\ qlLost' = IF ok THEN qlLost ELSE qlLost + Len(pending)
    /\ qlW' = [qlW EXCEPT !.pending = <<>>, !.bad = IF ok THEN @ ELSE @ \cup Numbers(pending)]

(* run_writer takes an entry; a full batch is written at once. *)
QdReceive(ok) ==
    LET pending == Append(qlW.pending, Head(qlQ)) IN
    /\ qlSink = "db" /\ qlQ # <<>>
    /\ qlQ' = Tail(qlQ)
    /\ IF Len(pending) >= QlBatch THEN Flushed(pending, ok)
       ELSE ok /\ qlW' = [qlW EXCEPT !.pending = pending] /\ UNCHANGED <<qlKept, qlLost, qlFaults>>
    /\ UNCHANGED <<qlDropped, qlTold>> /\ Queued

(* trim_query_logs: the rows past the newest QlMaxRows go. *)
Trimmed(rows) ==
    IF QlMaxRows = 0 \/ Len(rows) <= QlMaxRows THEN rows ELSE SubSeq(rows, Len(rows) - QlMaxRows + 1, Len(rows))
(* delete_query_logs_before. *)
Young(rows) == {i \in DOMAIN rows : rows[i].day + QlRetention >= qlDay}
Recent(rows) == IF QlRetention = 0 THEN rows ELSE Sifted(rows, Young(rows))
Cut(rows, left) ==
    [qlW EXCEPT !.pending = <<>>, !.cut = IF Len(rows) > Len(left) /\ left = <<>> THEN rows[Len(rows)].n ELSE @]

(* The writer's tick: flush, trim, and once a minute trim by age. *)
QdTick(ok, aged) ==
    LET rows == IF ok THEN qlKept \o qlW.pending ELSE qlKept
        left == IF aged THEN Recent(Trimmed(rows)) ELSE Trimmed(rows) IN
    /\ qlSink = "db"
    /\ ok \/ qlW.pending # <<>>
    /\ Fault(~ok)
    /\ qlKept' = left
    /\ qlLost' = qlLost + (IF ok THEN 0 ELSE Len(qlW.pending))
    /\ qlW' = [Cut(rows, left) EXCEPT !.bad = IF ok THEN @ ELSE @ \cup Numbers(qlW.pending)]
    /\ UNCHANGED <<qlQ, qlDropped, qlTold>> /\ Queued

(* clear_query_logs. *)
QdClear ==
    /\ qlSink = "db" /\ qlKept # <<>> /\ Fault(TRUE)
    /\ qlKept' = <<>> /\ qlW' = [qlW EXCEPT !.cut = qlKept[Len(qlKept)].n]
    /\ UNCHANGED <<qlQ, qlDropped, qlTold, qlLost>> /\ Queued

(* Shutdown writes what is pending, not what is still queued. *)
QdRestart ==
    /\ qlSink = "db" /\ Fault(TRUE)
    /\ qlKept' = qlKept \o qlW.pending
    /\ qlLost' = qlLost + Len(qlQ)
    /\ qlQ' = <<>>
    /\ qlW' = [qlW EXCEPT !.pending = <<>>, !.bad = @ \cup Numbers(qlQ)]
    /\ UNCHANGED <<qlDropped, qlTold>> /\ Queued

----------------------------------------------------------------------------
(* Syslog: one line at a time, over a connection made when it is needed.  Its  *)
(* worker's histories: `gone`, lines that the kernel took and the server never *)
(* got; `unsaid`, drops counted in a note that did not get there.             *)
QsLine == qlSink = "syslog" /\ qlQ # <<>> /\ qlQ' = Tail(qlQ) /\ Queued

(* Switched off, or configured with a server that cannot be told: the line is *)
(* thrown away.                                                               *)
QsDiscards ==
    /\ QsLine
    /\ qlLost' = qlLost + 1
    /\ \/ ~qlOn /\ qlW' = [qlW EXCEPT !.up = FALSE] /\ UNCHANGED qlFaults
       \/ qlOn /\ Fault(TRUE) /\ UNCHANGED qlW
    /\ UNCHANGED <<qlKept, qlDropped, qlTold>>

(* Another server is configured: the connection and the wait are forgotten.   *)
QsRetargeted ==
    /\ qlSink = "syslog" /\ (qlW.up \/ qlW.waits) /\ Fault(TRUE)
    /\ qlW' = [qlW EXCEPT !.up = FALSE, !.waits = FALSE]
    /\ UNCHANGED <<qlQ, qlKept, qlDropped, qlTold, qlLost>> /\ Queued

(* Not connected, and waiting to try again or trying in vain.                 *)
QsCounts ==
    /\ QsLine /\ qlOn /\ ~qlW.up
    /\ qlDropped' = qlDropped + 1 /\ qlW' = [qlW EXCEPT !.waits = TRUE]
    /\ UNCHANGED <<qlFaults, qlKept, qlTold, qlLost>>

(* The count, if there is one, and then the line are handed to the kernel: it *)
(* refuses one ("fails"), or takes it, and then it may never arrive (a UDP    *)
(* server that is down, a TCP peer that is gone).                             *)
Sendings == {"arrives", "vanishes", "fails"}
QsHands(note, line) ==
    /\ QsLine /\ qlOn /\ (qlW.up \/ ~qlW.waits)
    /\ qlDropped = 0 => note = "arrives"
    /\ Fault(note # "arrives" \/ line = "vanishes")
    /\ qlKept' = IF line = "arrives" THEN Append(qlKept, Head(qlQ)) ELSE qlKept
    /\ qlTold' = IF note = "arrives" THEN qlTold + qlDropped ELSE qlTold
    /\ qlDropped' = IF line = "fails" THEN 1 ELSE 0
    /\ qlW' = [up |-> line # "fails", waits |-> FALSE,
               gone |-> IF line = "vanishes" THEN qlW.gone + 1 ELSE qlW.gone,
               unsaid |-> IF note = "arrives" THEN qlW.unsaid ELSE qlW.unsaid + qlDropped]
    /\ UNCHANGED qlLost

(* RETRY_AFTER has passed. *)
QsRetryDue ==
    /\ qlSink = "syslog" /\ qlW.waits
    /\ qlW' = [qlW EXCEPT !.waits = FALSE]
    /\ UNCHANGED <<qlFaults, qlQ, qlKept, qlDropped, qlTold, qlLost>> /\ Queued

----------------------------------------------------------------------------
(* Export: batches, each tried QlAttempts times under the settings read when  *)
(* it was begun.                                                              *)
QxTake ==
    /\ qlSink = "export" /\ qlQ # <<>> /\ qlW.tries = 0
    /\ Len(qlW.batch) < QlBatch
    /\ qlQ' = Tail(qlQ)
    /\ qlW' = [qlW EXCEPT !.batch = Append(@, Head(qlQ)), !.on = IF qlW.batch = <<>> THEN qlOn ELSE @]
    /\ UNCHANGED <<qlFaults, qlKept, qlDropped, qlTold, qlLost>> /\ Queued

(* The batch is full, or flush_secs have passed. *)
QxClose ==
    /\ qlSink = "export" /\ qlW.batch # <<>> /\ qlW.tries = 0
    /\ \/ qlW.on /\ qlW' = [qlW EXCEPT !.tries = 1] /\ UNCHANGED qlLost
       \/ ~qlW.on /\ qlW' = [qlW EXCEPT !.batch = <<>>] /\ qlLost' = qlLost + Len(qlW.batch)
    /\ UNCHANGED <<qlFaults, qlQ, qlKept, qlDropped, qlTold>> /\ Queued

(* A POST is accepted: what was dropped meanwhile is told. *)
QxSent ==
    /\ qlSink = "export" /\ qlW.tries > 0
    /\ qlKept' = qlKept \o qlW.batch /\ qlTold' = qlTold + Len(qlW.batch)
    /\ qlW' = [qlW EXCEPT !.batch = <<>>, !.tries = 0, !.unreported = 0]
    /\ UNCHANGED <<qlFaults, qlQ, qlDropped, qlLost>> /\ Queued

(* It fails, though the collector may have taken it; after the last attempt   *)
(* the batch is dropped.                                                      *)
\* Mutant of QxFails: the events of a batch given up are not counted.
QxFailsUncounted(taken) ==
    /\ qlSink = "export" /\ qlW.tries > 0 /\ Fault(TRUE)
    /\ qlKept' = IF taken THEN qlKept \o qlW.batch ELSE qlKept
    /\ qlW' = IF qlW.tries < QlAttempts THEN [qlW EXCEPT !.tries = @ + 1]
              ELSE [qlW EXCEPT !.batch = <<>>, !.tries = 0]
    /\ UNCHANGED <<qlQ, qlTold, qlLost, qlDropped>> /\ Queued
QxFails(taken) ==
    /\ qlSink = "export" /\ qlW.tries > 0 /\ Fault(TRUE)
    /\ qlKept' = IF taken THEN qlKept \o qlW.batch ELSE qlKept
    /\ IF qlW.tries < QlAttempts
       THEN qlW' = [qlW EXCEPT !.tries = @ + 1] /\ UNCHANGED qlDropped
       ELSE /\ qlW' = [qlW EXCEPT !.batch = <<>>, !.tries = 0, !.unreported = @ + Len(qlW.batch)]
            /\ qlDropped' = qlDropped + Len(qlW.batch)
    /\ UNCHANGED <<qlQ, qlTold, qlLost>> /\ Queued

----------------------------------------------------------------------------
(* The files.  QueryLogger::log looks at the writer under the lock, lets go,  *)
(* and locks again to write or, after opening today's file, to install it.    *)
Thread(t, task) == [qlW EXCEPT !.threads[t] = task]
Unqueued == UNCHANGED <<qlSink, qlOn, qlDay, qlQ, qlDropped, qlTold>>

QfLook(t) ==
    /\ qlSink = "file" /\ qlW.threads[t] = Idle /\ qlAsked < QlMaxQueries
    /\ qlAsked' = qlAsked + 1
    /\ qlW' = Thread(t, [task |-> IF qlW.disabled \/ qlW.writer # qlDay THEN "open" ELSE "write",
                         n |-> qlAsked', day |-> qlDay])
    /\ UNCHANGED <<qlFaults, qlKept, qlLost>> /\ Unqueued

(* write_line on the open writer, which another thread may have changed. *)
Wrote(t, w, ok) ==
    LET q == qlW.threads[t].n IN
    IF w.disabled THEN qlLost' = qlLost + 1 /\ qlW' = [w EXCEPT !.threads[t] = Idle] /\ ok /\ UNCHANGED <<qlKept, qlFaults>>
    ELSE /\ Fault(~ok)
         /\ IF ok THEN qlKept' = Append(qlKept, [n |-> q, day |-> w.writer]) /\ UNCHANGED qlLost
                  ELSE qlLost' = qlLost + 1 /\ UNCHANGED qlKept
         /\ qlW' = IF ok THEN [w EXCEPT !.threads[t] = Idle]
                   ELSE [w EXCEPT !.threads[t] = Idle, !.writer = 0, !.disabled = TRUE]
QfWrite(t, ok) ==
    /\ qlSink = "file" /\ qlW.threads[t].task = "write"
    /\ Wrote(t, qlW, ok)
    /\ UNCHANGED qlAsked /\ Unqueued

(* Opens the day's file (tried even when the logger is disabled) and deletes  *)
(* old ones; a failure disables the logger.                                   *)
FilesKept(files) == IF QlRetention = 0 THEN files ELSE Sifted(files, Young(files))
QfOpen(t, ok) ==
    /\ qlSink = "file" /\ qlW.threads[t].task = "open" /\ Fault(~ok)
    /\ IF ok THEN /\ qlKept' = FilesKept(qlKept)
                  /\ qlW' = [Thread(t, [qlW.threads[t] EXCEPT !.task = "install"]) EXCEPT
                               !.cut = @ + Len(qlKept) - Len(FilesKept(qlKept))]
                  /\ UNCHANGED qlLost
             ELSE qlW' = [Thread(t, Idle) EXCEPT !.disabled = TRUE] /\ qlLost' = qlLost + 1 /\ UNCHANGED qlKept
    /\ UNCHANGED qlAsked /\ Unqueued
QfInstall(t, ok) ==
    /\ qlSink = "file" /\ qlW.threads[t].task = "install"
    /\ Wrote(t, IF qlW.disabled THEN qlW ELSE [qlW EXCEPT !.writer = qlW.threads[t].day], ok)
    /\ UNCHANGED qlAsked /\ Unqueued

QlNext ==
    \/ QlOffer \/ QlSwitch \/ QlMidnight
    \/ \E ok \in BOOLEAN : QdReceive(ok) \/ \E aged \in BOOLEAN : QdTick(ok, aged)
    \/ QdClear \/ QdRestart
    \/ QsDiscards \/ QsRetargeted \/ QsCounts \/ QsRetryDue
    \/ \E note, line \in Sendings : QsHands(note, line)
    \/ QxTake \/ QxClose \/ QxSent \/ \E taken \in BOOLEAN : QxFails(taken)
    \/ \E t \in QlThreads : QfLook(t) \/ \E ok \in BOOLEAN : QfWrite(t, ok) \/ QfOpen(t, ok) \/ QfInstall(t, ok)

QlSpec == QlInit /\ [][QlNext]_qlVars

----------------------------------------------------------------------------
(* Every query a sink was offered is where the sink says it is.               *)
(*  - Files: in a file, in the hands of a thread, deleted with an old file,   *)
(*    or lost to a failure, and then the logger is disabled.                  *)
(*  - Database: rows are in the order asked; a query older than a stored row  *)
(*    that is not stored itself was refused by the full queue, lost with its  *)
(*    batch or at shutdown, or is older than every row (retention).           *)
(*  - Syslog: arrived, waiting, counted as dropped, told of in a note that    *)
(*    arrived, or lost without the server being told: taken by the kernel and *)
(*    gone, counted in a note that is gone, or thrown away with the settings. *)
(*    (syslog.rs:6-9 says of a server that is down that lines "are dropped and *)
(*    counted": over UDP they are gone, and none is counted.)  As long as the *)
(*    network loses nothing and the settings stay, every line is at the server *)
(*    or the server has been told of it, or will be.                          *)
(*  - Export: accepted, waiting, counted as dropped, or given up with the     *)
(*    settings; and what counts as sent was delivered.                        *)
LogsAccounted ==
    CASE qlSink = "file" ->
            /\ qlAsked = Len(qlKept) + qlW.cut + qlLost + Cardinality({t \in QlThreads : qlW.threads[t] # Idle})
            /\ qlLost > 0 => qlW.disabled
      [] qlSink = "db" ->
            /\ \A i, j \in DOMAIN qlKept : i < j => qlKept[i].n < qlKept[j].n
            /\ \A n \in 1 .. qlAsked :
                \/ n \in Numbers(qlKept) \cup Numbers(qlW.pending) \cup Numbers(qlQ) \cup qlW.bad
                \/ n <= qlW.cut
                \/ qlKept # <<>> /\ n < qlKept[1].n
      [] qlSink = "syslog" ->
            /\ qlAsked = Len(qlKept) + Len(qlQ) + qlDropped + qlTold + qlLost + qlW.gone + qlW.unsaid
            /\ qlFaults = 0 => qlAsked = Len(qlKept) + Len(qlQ) + qlDropped + qlTold
      [] qlSink = "export" ->
            /\ qlAsked = qlTold + qlDropped + qlLost + Len(qlQ) + Len(qlW.batch)
            /\ qlTold <= Cardinality(Numbers(qlKept))
            /\ qlW.unreported <= qlDropped
=============================================================================
