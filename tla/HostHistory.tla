---------------------------- MODULE HostHistory ----------------------------
(***************************************************************************)
(* The host metrics history: the SQLite store of internal/history (samples, *)
(* rollups, the durable sequence, recovery of an unreadable database) and   *)
(* the scheduler of internal/scheduler that drives it one collection at a   *)
(* time, with the series that internal/series builds from what is stored.   *)
(*                                                                          *)
(* A transaction is one step.  An operation that fails may have committed   *)
(* or not (a context that ends while SQLite commits), so every failing step *)
(* leaves either database.  The process may die between any two steps; what *)
(* is committed survives (losing the machine's power is not modelled).      *)
(***************************************************************************)
EXTENDS Integers, FiniteSets, FiniteSetsExt

CONSTANTS Metrics,          \* metric identifiers, ordered as the code orders them
          LastMetrics,      \* the ones whose series shows the last value (process.count)
          Values,           \* values a sample can have
          Resolution,       \* RollupResolution
          RollupAfter,      \* RollupAfter
          RetentionAge,     \* RetentionAge
          BatchSize,        \* BatchSize
          SeriesResolution, \* resolution of the requested range
          SeriesDuration,   \* duration of the requested range
          Reasons,          \* why a database cannot be read: corrupt, schema, version
          LastTime,         \* bound: last instant at which a collection happens
          MaxSeq,           \* bound: last sequence taken from the store
          MaxBad            \* bound: how often a database becomes unreadable

(* The ranges of the API whose points may come from rollups (24 hours and   *)
(* 7 days) have resolutions that are whole multiples of a rollup's.         *)
HistoryConstants ==
    /\ Metrics \subseteq Nat /\ LastMetrics \subseteq Metrics /\ Values \subseteq Nat
    /\ {Resolution, BatchSize, SeriesResolution} \subseteq Nat \ {0}
    /\ SeriesResolution % Resolution = 0 /\ SeriesDuration % SeriesResolution = 0

VARIABLES now,      \* the clock
          db,       \* the database file: kind, sequence, tables, recovery note
          proc,     \* the process: program counter, published sequence, health
          unreadable, \* how many databases have become unreadable
          kept,     \* history: samples committed and not dropped by retention
          highest,  \* history: highest sequence published from this database
          lost      \* history: an unreadable database was moved away

historyVars == <<now, db, proc, unreadable, kept, highest, lost>>

NoReason == "none"

(* A new database after migrate, and the path before there is one.          *)
Fresh == [file |-> "good", seq |-> 0, samples |-> {}, rollups |-> {}, note |-> NoReason]
Absent == [Fresh EXCEPT !.file = "none"]

Down == [pc |-> "down", current |-> 0, reason |-> NoReason, recovery |-> NoReason,
         samples |-> {}, clean |-> FALSE]

HistoryInit == /\ now = 0 /\ db = Absent /\ proc = Down /\ unreadable = 0
        /\ kept = {} /\ highest = 0 /\ lost = FALSE

At(pc) == proc.pc = pc
Goto(p, pc) == [p EXCEPT !.pc = pc]

-----------------------------------------------------------------------------
(* Health: a recovery reason is never replaced and never recovered from.    *)

recordFailure(p, reason) ==
    [p EXCEPT !.reason = IF p.recovery # NoReason THEN p.recovery ELSE reason,
              !.clean = FALSE]

recoverTransient(p, reasons) ==
    IF p.recovery = NoReason /\ p.reason \in reasons
    THEN [p EXCEPT !.reason = NoReason] ELSE p

(* The outcomes of a transaction that would leave database d.               *)
Ambiguous(d) == {db, d}

-----------------------------------------------------------------------------
(* Opening the store.                                                       *)

Opened(recovery) == [Down EXCEPT !.pc = "collect", !.reason = recovery, !.recovery = recovery]

(* A readable database is migrated (a no-op here) and its recovery note     *)
(* loaded; a note that cannot be read counts as none.                       *)
OpenReadable ==
    /\ At("down") /\ db.file = "good"
    /\ \E note \in {db.note, NoReason} : proc' = Opened(note)
    /\ UNCHANGED <<now, db, unreadable, kept, highest, lost>>

(* The main file is renamed, then its sidecars; when a sidecar cannot be    *)
(* moved the renames are undone, and an undo that fails is ignored.         *)
quarantine(reason) ==
    \/ /\ db' = Absent /\ lost' = TRUE /\ kept' = {} /\ highest' = 0
       /\ \/ proc' = [Goto(proc, "migrate") EXCEPT !.recovery = reason]
          \/ proc' = Down
    \/ UNCHANGED <<db, lost, kept, highest>> /\ proc' = Down

OpenUnreadable ==
    /\ At("down") /\ db.file = "bad"
    /\ \E reason \in Reasons : quarantine(reason)
    /\ UNCHANGED <<now, unreadable>>

OpenAbsent ==
    /\ At("down") /\ db.file = "none"
    /\ proc' = Goto(proc, "migrate")
    /\ UNCHANGED <<now, db, unreadable, kept, highest, lost>>

migrate ==
    /\ At("migrate")
    /\ \/ /\ db' = Fresh
          /\ proc' = IF proc.recovery = NoReason THEN Opened(NoReason) ELSE Goto(proc, "note")
       \/ db' \in Ambiguous(Fresh) /\ proc' = Down
    /\ UNCHANGED <<now, unreadable, kept, highest, lost>>

persistRecovery ==
    /\ At("note")
    /\ LET noted == [db EXCEPT !.note = proc.recovery]
       IN \/ db' = noted /\ proc' = Opened(proc.recovery)
          \/ db' \in Ambiguous(noted) /\ proc' = Down
    /\ UNCHANGED <<now, unreadable, kept, highest, lost>>

-----------------------------------------------------------------------------
(* One collection.  A collection that failed leaves a published snapshot in *)
(* place and only maintains the store.                                      *)

Readings == UNION {[ms -> Values] : ms \in SUBSET Metrics}

SamplesOf(reading, at) == {[m |-> m, at |-> at, v |-> reading[m]] : m \in DOMAIN reading}

Collect ==
    /\ At("collect") /\ now < LastTime
    /\ now' = now + 1
    /\ \/ \E reading \in Readings :
            proc' = [proc EXCEPT !.pc = "seq", !.samples = SamplesOf(reading, now'), !.clean = DOMAIN reading # {}]
       \/ /\ proc.current # 0
          /\ proc' = [proc EXCEPT !.pc = "rollup", !.clean = FALSE]
    /\ UNCHANGED <<db, unreadable, kept, highest, lost>>

(* Mutant: the sequence is the number of publications of this process.      *)
SequenceOfProcess ==
    /\ At("seq") /\ db.seq < MaxSeq
    /\ db' = [db EXCEPT !.seq = proc.current + 1]
    /\ proc' = [proc EXCEPT !.pc = "write", !.current = proc.current + 1]
    /\ highest' = proc.current + 1
    /\ UNCHANGED <<now, unreadable, kept, lost>>

(* The sequence is taken in one statement; collectOnce publishes it only    *)
(* when it is greater than the one published before.                        *)
NextSequence ==
    /\ At("seq") /\ db.seq < MaxSeq
    /\ LET next == [db EXCEPT !.seq = db.seq + 1]
       IN \/ /\ db' \in Ambiguous(next)
             /\ proc' = [recordFailure(proc, "SEQUENCE_FAILED") EXCEPT !.pc = "rollup", !.samples = {}]
             /\ UNCHANGED highest
          \/ LET p == recoverTransient(proc, {"SEQUENCE_FAILED"})
                 newer == next.seq > proc.current
             IN /\ db' = next
                /\ proc' = IF newer THEN [p EXCEPT !.pc = "write", !.current = next.seq]
                           ELSE [p EXCEPT !.pc = "collect", !.samples = {}, !.clean = FALSE]
                /\ highest' = IF newer THEN next.seq ELSE highest
    /\ UNCHANGED <<now, unreadable, kept, lost>>

Upsert(rows, new) ==
    {r \in rows : ~ \E n \in new : n.m = r.m /\ n.at = r.at} \cup new

(* No samples, nothing written and no word about the store's health.        *)
WriteSamples ==
    /\ At("write")
    /\ LET written == [db EXCEPT !.samples = Upsert(@, proc.samples)]
       IN \/ /\ proc.samples = {}
             /\ proc' = Goto(proc, "rollup") /\ UNCHANGED <<db, kept>>
          \/ /\ proc.samples # {} /\ db' = written
             /\ proc' = [recoverTransient(proc, {"WRITE_FAILED"}) EXCEPT !.pc = "rollup", !.samples = {}]
             /\ kept' = Upsert(kept, proc.samples)
          \/ /\ proc.samples # {} /\ db' \in Ambiguous(written)
             /\ proc' = [recordFailure(proc, "WRITE_FAILED") EXCEPT !.pc = "rollup", !.samples = {}]
             /\ kept' = IF db' = db THEN kept ELSE Upsert(kept, proc.samples)
    /\ UNCHANGED <<now, unreadable, highest, lost>>

-----------------------------------------------------------------------------
(* Maintenance.                                                             *)

Bucket(at) == at - (at % Resolution)

SampleBefore(x, y) == x.at < y.at \/ (x.at = y.at /\ x.m < y.m)
(* The n samples of S that come first in that order.                        *)
OldestSamples(S, n) == {x \in S : Cardinality({y \in S : SampleBefore(y, x)}) < n}

Total(S) == MapThenSumSet(LAMBDA s : s.v, S)
LatestOf(S) == CHOOSE s \in S : \A t \in S : t.at <= s.at

(* The accumulator of the selected samples of metric m and bucket b.        *)
Accumulate(m, b, S) ==
    [m |-> m, b |-> b, count |-> Cardinality(S), sum |-> Total(S),
     min |-> Min({s.v : s \in S}), max |-> Max({s.v : s \in S}),
     last |-> LatestOf(S).v, lastAt |-> LatestOf(S).at]

(* Mutant: a second batch of the same bucket replaces the first one's row.  *)
MergeReplaces(r, a) == a

(* INSERT ... ON CONFLICT DO UPDATE of one accumulator a over row r.        *)
MergeRollup(r, a) ==
    [r EXCEPT !.count = @ + a.count, !.sum = @ + a.sum,
              !.min = Min({@, a.min}), !.max = Max({@, a.max}),
              !.last = IF a.lastAt >= r.lastAt THEN a.last ELSE @,
              !.lastAt = Max({@, a.lastAt})]

SameRow(r, a) == r.m = a.m /\ r.b = a.b

(* One transaction: the oldest batch older than the horizon becomes rollups *)
(* and leaves the samples.                                                  *)
rollupBatch(d, before) ==
    LET input == OldestSamples({s \in d.samples : s.at < before}, BatchSize)
        groups == {Accumulate(k[1], k[2], {s \in input : s.m = k[1] /\ Bucket(s.at) = k[2]}) :
                     k \in {<<s.m, Bucket(s.at)>> : s \in input}}
        merged == {MergeRollup(ra[1], ra[2]) :
                     ra \in {x \in d.rollups \X groups : SameRow(x[1], x[2])}}
        other == {r \in d.rollups : ~ \E a \in groups : SameRow(r, a)}
        new == {a \in groups : ~ \E r \in d.rollups : SameRow(r, a)}
    IN [d EXCEPT !.samples = @ \ input, !.rollups = other \cup merged \cup new]

(* Samples and rollups in one order of age; with the log tables present the *)
(* log rows take their turns in the same budget, so any number of the       *)
(* oldest host rows may fit in it.                                          *)
Rows(d) == {[kind |-> "sample", at |-> s.at, m |-> s.m] : s \in d.samples}
           \cup {[kind |-> "rollup", at |-> r.b, m |-> r.m] : r \in d.rollups}

SharedBefore(x, y) ==
    \/ x.at < y.at
    \/ x.at = y.at /\ x.kind = "sample" /\ y.kind = "rollup"
    \/ x.at = y.at /\ x.kind = y.kind /\ x.m < y.m
OldestRows(S, n) == {x \in S : Cardinality({y \in S : SharedBefore(y, x)}) < n}

SizeBefore(x, y) ==
    \/ x.at < y.at
    \/ x.at = y.at /\ x.m < y.m
    \/ x.at = y.at /\ x.m = y.m /\ x.kind = "rollup" /\ y.kind = "sample"
OldestOfAll(S, n) == {x \in S : Cardinality({y \in S : SizeBefore(y, x)}) < n}

Without(d, rows) ==
    [d EXCEPT !.samples = {s \in @ : [kind |-> "sample", at |-> s.at, m |-> s.m] \notin rows},
              !.rollups = {r \in @ : [kind |-> "rollup", at |-> r.b, m |-> r.m] \notin rows}]

pruneShared(d, cutoff) ==
    {Without(d, OldestRows({x \in Rows(d) : x.at < cutoff}, n)) : n \in 0 .. BatchSize}

pruneAge(d, cutoff) ==
    LET old == {x \in Rows(d) : x.at < cutoff}
        samples == OldestRows({x \in old : x.kind = "sample"}, BatchSize)
        rollups == OldestRows({x \in old : x.kind = "rollup"}, BatchSize - Cardinality(samples))
    IN {Without(d, samples \cup rollups)} \cup pruneShared(d, cutoff)

pruneSize(d) ==
    {Without(d, OldestOfAll(Rows(d), BatchSize))} \cup pruneShared(d, LastTime + 1)

(* What retention has dropped: the samples of deleted rows.                 *)
Surviving(d, pruned) ==
    {s \in kept : \/ s \in pruned.samples
                  \/ s \notin d.samples /\ \E r \in pruned.rollups : r.m = s.m /\ r.b = Bucket(s.at)}

Rollup ==
    /\ At("rollup")
    /\ LET rolled == rollupBatch(db, now - RollupAfter)
       IN \/ db' = rolled /\ proc' = Goto(proc, "age")
          \/ /\ db' \in Ambiguous(rolled)
             /\ proc' = Goto(recordFailure(proc, "ROLLUP_FAILED"), "collect")
    /\ UNCHANGED <<now, unreadable, kept, highest, lost>>

Prune(options, next) ==
    \E pruned \in options :
        \/ db' = pruned /\ kept' = Surviving(db, pruned) /\ proc' = Goto(proc, next)
        \/ /\ db' \in Ambiguous(pruned)
           /\ kept' = IF db' = db THEN kept ELSE Surviving(db, pruned)
           /\ proc' = Goto(recordFailure(proc, "RETENTION_FAILED"), "collect")

PruneAge ==
    /\ At("age") /\ Prune(pruneAge(db, now - RetentionAge), "vacuum")
    /\ UNCHANGED <<now, unreadable, highest, lost>>

PruneSize ==
    /\ At("size") /\ Prune(pruneSize(db), "vacuum again")
    /\ UNCHANGED <<now, unreadable, highest, lost>>

(* incrementalVacuum and Checkpoint, the first of them to fail ending the   *)
(* round; neither changes a row.  The size is then within MaxBytes or not.  *)
VacuumAndCheckpoint ==
    /\ proc.pc \in {"vacuum", "vacuum again"}
    /\ \/ \E reason \in {"VACUUM_FAILED", "CHECKPOINT_FAILED"} :
            proc' = Goto(recordFailure(proc, reason), "collect")
       \/ LET p == recoverTransient(proc, {"CHECKPOINT_FAILED"})
          IN proc' \in (IF At("vacuum") THEN {Goto(p, "size"), Goto(p, "settle")} ELSE {Goto(p, "settle")})
    /\ UNCHANGED <<now, db, unreadable, kept, highest, lost>>

(* What a finished round of maintenance clears.                             *)
MaintenanceReasons ==
    {"ROLLUP_FAILED", "RETENTION_FAILED", "VACUUM_FAILED", "CHECKPOINT_FAILED", "STORAGE_PRESSURE"}

(* The end of Maintain: still too large, or whatever maintenance reported   *)
(* before is over.                                                          *)
Settle ==
    /\ At("settle")
    /\ \/ proc' = Goto(recordFailure(proc, "STORAGE_PRESSURE"), "collect")
       \/ proc' = Goto(recoverTransient(proc, MaintenanceReasons), "collect")
    /\ UNCHANGED <<now, db, unreadable, kept, highest, lost>>

-----------------------------------------------------------------------------
(* The environment: the process dies or is stopped; a database that nobody  *)
(* has open becomes one this build cannot read.                             *)

Crash ==
    /\ ~ At("down") /\ proc' = Down
    /\ UNCHANGED <<now, db, unreadable, kept, highest, lost>>

BecomeUnreadable ==
    /\ At("down") /\ db.file = "good" /\ unreadable < MaxBad
    /\ unreadable' = unreadable + 1
    /\ db' = [Absent EXCEPT !.file = "bad"] /\ kept' = {}
    /\ UNCHANGED <<now, proc, highest, lost>>

HistoryNext == \/ OpenReadable \/ OpenUnreadable \/ OpenAbsent \/ migrate \/ persistRecovery
        \/ Collect \/ NextSequence \/ WriteSamples
        \/ Rollup \/ PruneAge \/ VacuumAndCheckpoint \/ PruneSize \/ Settle
        \/ Crash \/ BecomeUnreadable

HistorySpec == HistoryInit /\ [][HistoryNext]_historyVars

-----------------------------------------------------------------------------
(* The series of a metric: ReadMetric's rows in one read transaction, added *)
(* to the points of the window that ends now.                               *)

WindowStart == now - (now % SeriesResolution) - SeriesDuration

Points == 0 .. (now - WindowStart) \div SeriesResolution

Index(at) == (at - WindowStart) \div SeriesResolution

(* What add leaves in point i: rows in the order they are read, the last    *)
(* value only replaced by a strictly later one.                             *)
buildMetric(m, i) ==
    LET raw == {[count |-> 1, sum |-> s.v, last |-> s.v, lastAt |-> s.at] :
                  s \in {x \in db.samples : x.m = m /\ x.at >= WindowStart /\ Index(x.at) = i}}
        rolled == {[count |-> r.count, sum |-> r.sum, last |-> r.last, lastAt |-> r.lastAt] :
                     r \in {x \in db.rollups : x.m = m /\ x.b >= WindowStart /\ Index(x.b) = i}}
        \* raw rows have distinct times, rolled ones distinct buckets
        count(S) == MapThenSumSet(LAMBDA x : x.count, S)
        sum(S) == MapThenSumSet(LAMBDA x : x.sum, S)
        all == raw \cup rolled
        newest == CHOOSE x \in all : \A y \in all : y.lastAt <= x.lastAt
    IN IF all = {} THEN [gap |-> TRUE]
       ELSE IF m \in LastMetrics THEN [gap |-> FALSE, value |-> newest.last]
       ELSE [gap |-> FALSE, sum |-> sum(raw) + sum(rolled), count |-> count(raw) + count(rolled)]

PointOf(m, i) ==
    LET own == {s \in kept : s.m = m /\ s.at >= WindowStart /\ Index(s.at) = i}
    IN IF own = {} THEN [gap |-> TRUE]
       ELSE IF m \in LastMetrics THEN [gap |-> FALSE, value |-> LatestOf(own).v]
       ELSE [gap |-> FALSE, sum |-> Total(own), count |-> Cardinality(own)]

-----------------------------------------------------------------------------
(* Properties.                                                              *)

(* However samples are spread over batches, rolled up, pruned by age or by   *)
(* size, interrupted by failures and restarts, every rollup row is the       *)
(* aggregate of exactly the samples of its bucket that were rolled up, and   *)
(* every point of the series buildMetric shows is computed from exactly the  *)
(* samples that were stored and that retention has not dropped: none lost,   *)
(* none counted twice.                                                       *)
HistoryIsExact ==
    db.file = "good" =>
    /\ \A r \in db.rollups :
          LET own == {s \in kept \ db.samples : s.m = r.m /\ Bucket(s.at) = r.b}
          IN own # {} /\ r = Accumulate(r.m, r.b, own)
    /\ \A m \in Metrics : \A i \in Points : buildMetric(m, i) = PointOf(m, i)

(* A collection in which every step on the store succeeded leaves the store  *)
(* AVAILABLE, whatever failed in earlier ones: the sequence, the write and   *)
(* the maintenance between them clear each transient reason that any of them *)
(* can set, unless a recovery is being reported.                             *)
HealthFollowsCycle ==
    At("collect") /\ proc.clean => proc.reason = proc.recovery

(* The store neither loses nor invents a sample, and its reported health is  *)
(* that of its last collection (WriteSamples, Maintain, buildMetric,         *)
(* recordFailure, recoverTransient).                                         *)
HistoryIsTrue == HistoryIsExact /\ HealthFollowsCycle

(* A snapshot is published under a sequence greater than every sequence      *)
(* published from the same database before, by this process or an earlier    *)
(* one: restarts, failed and half-failed NextSequence calls included.        *)
PublishedIsFresh ==
    [][proc'.current \notin {proc.current, 0} => proc'.current > highest]_historyVars

(* specs/005-local-data-plane: after an unreadable store is set aside "the   *)
(* observer MAY start a new store but MUST report degraded readiness and a   *)
(* stable reason code": a running store that replaced one says so.           *)
LossIsReported ==
    lost /\ proc.pc \notin {"down", "migrate", "note"} => proc.recovery \in Reasons

=============================================================================
