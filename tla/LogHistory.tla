----------------------------- MODULE LogHistory -----------------------------
(* One log source from the native journal to the stored history: the       *)
(* collector's minute loop (internal/logobs), the cursor reader            *)
(* (internal/journalreader), and the transactions of the shared store that *)
(* commit a batch and prune history (internal/history).  The journal, the  *)
(* clock and storage faults are the environment.                           *)
EXTENDS LogCoverage, FiniteSetsExt, SequencesExt

CONSTANTS
  Minute,       \* ticks per minute
  Lookback,     \* ticks of the first read's window (five minutes in the code)
  Retention,    \* ticks of log retention
  Skew,         \* how far after its query start an event's time may lie
  MaxRows,      \* MaxAcceptedEvents
  BatchSize,    \* rows one prune transaction touches
  Forms,        \* whether events parse: a subset of BOOLEAN
  Failures,     \* the native failures that occur: a subset of NativeFailures
  MaxTime, MaxEvents    \* bounds of the environment

NoValue == -1
Max2(a, b) == IF a < b THEN b ELSE a
Times == 0 .. MaxTime
MinuteOf(t) == t \div Minute
Minutes == 0 .. MinuteOf(MaxTime)

(* Why no minute counts a record.                                          *)
Unread == -1
Vanished == -2
Skipped == -3
Expired == -4
Evicted == -5

NativeFailures ==
  {[support |-> "SUPPORTED", collection |-> "FAILED", reason |-> "READER_FAILED"],
   [support |-> "SUPPORTED", collection |-> "FAILED", reason |-> "DEADLINE_EXCEEDED"],
   [support |-> "SUPPORTED", collection |-> "FAILED", reason |-> "RESPONSE_TOO_LARGE"],
   [support |-> "UNAVAILABLE", collection |-> "FAILED", reason |-> "READER_FAILED"],
   [support |-> "UNAVAILABLE", collection |-> "NOT_RUN", reason |-> "LOG_HELPER_UNAVAILABLE"],
   [support |-> "PERMISSION_DENIED", collection |-> "NOT_RUN", reason |-> "PERMISSION_DENIED"]}

ASSUME LogAssumption ==
  /\ Minute \in Nat \ {0} /\ {Lookback, Retention, Skew, MaxTime, MaxEvents} \subseteq Nat
  /\ Minute <= Lookback /\ Lookback <= Retention /\ Lookback <= MaxTime
  /\ MaxRows \in Nat \ {0, 1} /\ BatchSize \in Nat \ {0}
  /\ Forms \subseteq BOOLEAN /\ Failures \subseteq NativeFailures

VARIABLES
  now,        \* the wall clock
  journal,    \* every record ever logged: its time and whether it parses
  purged,     \* how many of the oldest records the journal has vacuumed
  db,         \* the store: checkpoint, status, minute counts, coverage, frontier
  col,        \* the collector's attempt in progress
  fate,       \* history: the minute that counts a record, or why none does
  late        \* history: records counted under a query start before their time

logVars == <<now, journal, purged, db, col, fate, late>>

-----------------------------------------------------------------------------
(* Records of the journal and what the collector stores of them.           *)
NoStatus == [support |-> "UNAVAILABLE", collection |-> "NOT_RUN", freshness |-> "UNKNOWN",
             attempted |-> NoValue, observed |-> NoValue, through |-> NoValue, reason |-> NOT_YET_OBSERVED]
NoBatch == [kind |-> "NORMAL", rev |-> 0, q |-> NoValue, support |-> "UNAVAILABLE",
            collection |-> "NOT_RUN", reason |-> "none", caught |-> FALSE, rows |-> {}, cursor |-> NoValue]

Live == purged + 1 .. Len(journal)
Newest == Max(Live)
InTime(i, q) == journal[i].at <= q + Skew
Accepted(i, q) == InTime(i, q) /\ journal[i].ok
RowTime(i, q) == IF InTime(i, q) THEN journal[i].at ELSE q

(* StatusAfterBatch: the status a committed batch leaves.                   *)
StatusAfterBatch(b, previous) ==
  LET base == [support |-> b.support, collection |-> b.collection, freshness |-> "UNKNOWN",
               attempted |-> b.q, observed |-> NoValue, through |-> NoValue, reason |-> b.reason]
      events == \E i \in b.rows : Accepted(i, b.q)
      stale == \/ b.support = "SUPPORTED" /\ b.collection \in {"PARTIAL", "FAILED"}
               \/ b.support = "UNAVAILABLE" /\ b.collection = "FAILED"
  IN IF b.kind = "NORMAL" /\ (b.caught \/ events)
     THEN [base EXCEPT !.observed = b.q, !.freshness = "CURRENT",
                       !.through = IF b.caught THEN b.q
                                   ELSE IF previous.through <= b.q THEN previous.through ELSE NoValue]
     ELSE IF stale /\ previous.observed # NoValue /\ previous.observed <= b.q
     THEN [base EXCEPT !.observed = previous.observed, !.through = previous.through,
                       !.freshness = "STALE"]
     ELSE base

(* Status.Validate and validateSourceStatus.                                *)
ValidStatus(s) ==
  /\ s.freshness = "UNKNOWN" <=> s.observed = NoValue
  /\ s.through # NoValue => s.through <= s.observed
  /\ s.observed <= s.attempted
  /\ s.collection = "OK" => s.observed # NoValue /\ s.attempted # NoValue
  /\ s.support # "SUPPORTED" /\ s.collection = "NOT_RUN" => s.observed = NoValue
  /\ s.collection = "FAILED" => s.freshness # "CURRENT"
  /\ \/ s.support = "SUPPORTED" /\ s.collection = "OK" /\ s.reason = "none"
     \/ /\ s.support = "SUPPORTED" /\ s.collection = "PARTIAL"
        /\ s.reason \in {"CHECKPOINT_RESET", "INVALID_RESPONSE", "DEADLINE_EXCEEDED",
                         "RESPONSE_TOO_LARGE", "BACKLOG_DEFERRED"}
     \/ /\ s.support = "SUPPORTED" /\ s.collection = "FAILED"
        /\ s.reason \in {"DEADLINE_EXCEEDED", "INVALID_RESPONSE", "RESPONSE_TOO_LARGE",
                         "READER_FAILED", "LOG_STORAGE_UNAVAILABLE"}
     \/ /\ s.support = "UNAVAILABLE" /\ s.collection = "FAILED"
        /\ s.reason \in {"READER_FAILED", "LOG_STORAGE_UNAVAILABLE"}
     \/ /\ s.support = "UNAVAILABLE" /\ s.collection = "NOT_RUN"
        /\ s.reason \in {"NO_VISIBLE_JOURNAL", "LOG_HELPER_UNAVAILABLE", "READER_FAILED"}
     \/ s.support = "PERMISSION_DENIED" /\ s.collection = "NOT_RUN" /\ s.reason = "PERMISSION_DENIED"

-----------------------------------------------------------------------------
(* The store.                                                              *)
Counted(b, m) ==
  Cardinality({i \in b.rows : RowTime(i, b.q) >= b.q - Retention /\ MinuteOf(RowTime(i, b.q)) = m})

deriveLogCoverage(cp, b) ==
  LET start == Max2(IF cp.previous = NoValue THEN b.q - Lookback ELSE cp.previous, Max2(0, b.q - Retention))
      missed == cp.previous # NoValue /\ start < b.q - Minute
      seen == IF missed THEN b.q - Minute ELSE start
  IN IF start >= b.q THEN {}
     ELSE IF b.kind = "NORMAL" /\ b.caught
     THEN {[start |-> seen, end |-> b.q, reason |-> COVERED]}
            \union IF missed THEN {[start |-> start, end |-> seen, reason |-> "MISSED_COLLECTION"]} ELSE {}
     ELSE {[start |-> start, end |-> b.q, reason |-> IF b.reason \in Gaps THEN b.reason ELSE "READER_FAILED"]}

(* The floor of what a commit at q may prove: retention, and what was       *)
(* evicted under storage pressure.                                         *)
(* Mutant: the eviction frontier is not consulted. *)
ProofFloorRetention(d, q) == Max2(0, q - Retention)
ProofFloor(d, q) == Max2(d.frontier, Max2(0, q - Retention))

(* The cursor after a batch: a reset replaces it, a failure keeps it.       *)
(* Mutant: a pending reset keeps the stale cursor. *)
nextOpaqueStale(cp, b) == IF b.cursor # NoValue THEN b.cursor ELSE cp.opaque
nextOpaque(cp, b) == IF b.kind # "NORMAL" \/ b.cursor # NoValue THEN b.cursor ELSE cp.opaque

nextCheckpoint(cp, b) ==
  [cp EXCEPT !.revision = @ + 1, !.previous = b.q,
             !.reset = CASE b.kind = "RESET_PENDING" -> TRUE
                         [] b.kind = "RESET_ESTABLISHED" -> FALSE
                         [] OTHER -> @,
             !.opaque = nextOpaque(cp, b),
             !.through = IF b.kind = "NORMAL" /\ b.caught THEN b.q ELSE @]

(* commitLogBatch: counts, coverage, checkpoint and status in one          *)
(* transaction.  The validation before the write is no guard here:         *)
(* StoredStateLoads shows that it has nothing to refuse.  The limits on    *)
(* rows and integers are a commit that fails (Commit).                     *)
Committed(d, b) ==
  LET loaded == {s \in d.coverage : s.end > Max2(0, b.q - Retention) /\ s.start < b.q}
      floor == ProofFloor(d, b.q)
  IN [d EXCEPT !.cp = nextCheckpoint(@, b),
               !.status = StatusAfterBatch(b, @),
               !.minutes = [m \in Minutes |-> @[m] + Counted(b, m)],
               !.coverage = (@ \ loaded)
                  \union (IF floor < b.q THEN Merged(loaded, deriveLogCoverage(d.cp, b), floor, b.q) ELSE {})]

(* One work item of pruneShared.  The oldest minute or coverage row goes    *)
(* first; a minute loses its proof before its counts.  No cutoff means     *)
(* storage pressure.                                                       *)
ProofBefore(d, edge) == {s \in d.coverage : s.reason = COVERED /\ s.start < edge}

Oldest(segments) == CHOOSE s \in segments : \A other \in segments : s.start <= other.start
CutAt(d, s, edge) ==
  [d EXCEPT !.coverage = (@ \ {s}) \union IF s.end > edge THEN {[s EXCEPT !.start = edge]} ELSE {}]

PruneItem(d, cutoff) ==
  LET old(t) == cutoff = NoValue \/ t < cutoff
      minutes == {m \in Minutes : d.minutes[m] > 0 /\ old(m * Minute)}
      rows == {s \in d.coverage : old(s.start)}
      m == Min(minutes)
      edge == (m + 1) * Minute
      s == Oldest(rows)
  IN IF minutes # {} /\ \A x \in rows : m * Minute <= x.start
     THEN IF ProofBefore(d, edge) # {} THEN CutAt(d, Oldest(ProofBefore(d, edge)), edge)
          ELSE [d EXCEPT !.minutes[m] = 0, !.frontier = Max2(@, edge)]
     ELSE IF rows # {} THEN CutAt(d, s, IF cutoff = NoValue THEN MaxTime + 1 ELSE cutoff)
     ELSE d

pruneShared(d, cutoff, work) ==
  LET item(x, i) == PruneItem(x, cutoff) IN FoldLeft(item, d, [i \in 1 .. work |-> i])

-----------------------------------------------------------------------------
LogInit ==
  /\ now = Lookback /\ journal = <<>> /\ purged = 0
  /\ db = [cp |-> [revision |-> 0, reset |-> FALSE, opaque |-> NoValue, previous |-> NoValue, through |-> NoValue],
           status |-> NoStatus, minutes |-> [m \in Minutes |-> 0], coverage |-> {}, frontier |-> 0]
  /\ col = [pc |-> "idle", batch |-> NoBatch, tries |-> 0]
  /\ fate = [i \in 1 .. MaxEvents |-> Unread] /\ late = {}

(* The environment: time passes, programs log, journald vacuums.           *)
Tick ==
  /\ now < MaxTime /\ now' = now + 1
  /\ UNCHANGED <<journal, purged, db, col, fate, late>>

Logged ==
  /\ Len(journal) < MaxEvents
  /\ \E ok \in Forms : journal' = Append(journal, [at |-> now, ok |-> ok])
  /\ UNCHANGED <<now, purged, db, col, fate, late>>

(* A record vacuumed while the source has no cursor leaves no trace.       *)
Vacuum ==
  /\ purged' \in purged + 1 .. Len(journal)
  /\ fate' = [i \in DOMAIN fate |->
                IF i <= purged' /\ fate[i] = Unread /\ db.cp.opaque = NoValue /\ ~db.cp.reset
                THEN Vanished ELSE fate[i]]
  /\ UNCHANGED <<now, journal, db, col, late>>

(* The attempt is over.  A load that fails ends it before it starts.       *)
Done == col' = [pc |-> "idle", batch |-> NoBatch, tries |-> 0]

(* collectOnce: load the checkpoint and take the query start.  A clock      *)
(* that has not moved past the previous attempt is refused.                *)
Request ==
  /\ col.pc = "idle" /\ db.cp.previous < now
  /\ col' = [col EXCEPT !.pc = "read",
                        !.batch = [NoBatch EXCEPT !.rev = db.cp.revision, !.q = now,
                                     !.kind = IF db.cp.reset THEN "RESET_PENDING" ELSE "NORMAL"]]
  /\ UNCHANGED <<now, journal, purged, db, fate, late>>

(* The reader's answer, or the batch the collector makes of its error.     *)
Answer(b) ==
  /\ col' = [col EXCEPT !.pc = "commit", !.batch = b, !.tries = 0]
  /\ UNCHANGED <<now, journal, purged, db, fate, late>>

Outcome(support, collection, reason) ==
  [col.batch EXCEPT !.support = support, !.collection = collection, !.reason = reason]

FailedBatch(kind, f) == [Outcome(f.support, f.collection, f.reason) EXCEPT !.kind = kind]
readerFailure == [support |-> "UNAVAILABLE", collection |-> "FAILED", reason |-> "READER_FAILED"]

Stale == db.cp.opaque # NoValue /\ db.cp.opaque <= purged
Resetting == db.cp.reset \/ Stale

(* A native failure drops what was read; a cursor proved stale stays so.   *)
ReadFails ==
  /\ col.pc \in {"read", "tail"}
  /\ \/ \E f \in Failures, kind \in {col.batch.kind} \union IF Stale THEN {"RESET_PENDING"} ELSE {} :
          Answer(FailedBatch(kind, f))
     \/ Answer(FailedBatch(col.batch.kind, readerFailure))

(* tail(true): the source starts again at the newest record.               *)
ReadReset ==
  /\ col.pc = "read" /\ Resetting
  /\ LET b == Outcome("SUPPORTED", "PARTIAL", "CHECKPOINT_RESET")
     IN Answer(IF Live = {} THEN [b EXCEPT !.kind = "RESET_PENDING"]
               ELSE [b EXCEPT !.kind = "RESET_ESTABLISHED", !.cursor = Newest])

(* ingest: rows after the cursor, or inside the first window.               *)
Pending == {i \in Live : IF db.cp.opaque = NoValue THEN journal[i].at >= col.batch.q - Lookback
                         ELSE i > db.cp.opaque}
Room == IF db.cp.opaque = NoValue THEN MaxRows ELSE MaxRows - 1
FirstRows(k) == {i \in Pending : Cardinality({j \in Pending : j < i}) < k}
Rows(b, rows) == [b EXCEPT !.rows = rows, !.cursor = IF rows = {} THEN db.cp.opaque ELSE Max(rows)]

caughtUp(rows) ==
  [Rows(IF \A i \in rows : Accepted(i, col.batch.q) THEN Outcome("SUPPORTED", "OK", "none")
        ELSE Outcome("SUPPORTED", "PARTIAL", "INVALID_RESPONSE"), rows) EXCEPT !.caught = TRUE]

ReadToEnd ==
  /\ col.pc = "read" /\ ~Resetting
  /\ Cardinality(Pending) <= Room /\ (Pending # {} \/ db.cp.opaque # NoValue)
  /\ Answer(caughtUp(Pending))

ReadDeferred ==
  /\ col.pc = "read" /\ ~Resetting /\ Cardinality(Pending) > Room
  /\ Answer(Rows(Outcome("SUPPORTED", "PARTIAL", "BACKLOG_DEFERRED"), FirstRows(Room)))

(* The native byte budget runs out after some rows.                        *)
ReadTooLarge ==
  /\ col.pc = "read" /\ ~Resetting
  /\ \E k \in 1 .. Room :
       /\ k <= Cardinality(Pending)
       /\ Answer(Rows(Outcome("SUPPORTED", "PARTIAL", "RESPONSE_TOO_LARGE"), FirstRows(k)))

ReadEmpty ==
  /\ col.pc = "read" /\ ~Resetting /\ db.cp.opaque = NoValue /\ Pending = {}
  /\ col' = [col EXCEPT !.pc = "tail"]
  /\ UNCHANGED <<now, journal, purged, db, fate, late>>

(* tail(false): the newest record becomes the cursor of an empty window,    *)
(* unless it arrived since.                                                *)
ReadTail ==
  /\ col.pc = "tail"
  /\ Answer(IF Live = {} THEN Outcome("UNAVAILABLE", "NOT_RUN", "NO_VISIBLE_JOURNAL")
            ELSE IF journal[Newest].at >= col.batch.q - Lookback THEN FailedBatch("NORMAL", readerFailure)
            ELSE [caughtUp({}) EXCEPT !.cursor = Newest])

-----------------------------------------------------------------------------
(* What a commit makes of the records, for the properties.                 *)
Account(b) ==
  /\ fate' = [i \in DOMAIN fate |->
                IF i \in b.rows
                THEN IF RowTime(i, b.q) < b.q - Retention THEN Expired ELSE MinuteOf(RowTime(i, b.q))
                ELSE IF b.kind = "RESET_ESTABLISHED" /\ i <= b.cursor /\ fate[i] = Unread
                        /\ journal[i].at >= b.q
                THEN Skipped ELSE fate[i]]
  /\ late' = late \union {i \in b.rows : ~InTime(i, b.q)}

(* CommitBatch within the storage deadline.  It may fail before or after    *)
(* the transaction took effect, and its success may come after the         *)
(* deadline, which counts as a failure.  The revision guards a retry.       *)
Commit(applied, seen) ==
  /\ col.pc = "commit"
  /\ applied => db.cp.revision = col.batch.rev
  /\ seen = "ok" => applied
  /\ IF applied THEN db' = Committed(db, col.batch) /\ Account(col.batch) ELSE UNCHANGED <<db, fate, late>>
  /\ IF seen = "error" THEN col' = [col EXCEPT !.pc = "reread", !.tries = @ + 1] ELSE Done
  /\ UNCHANGED <<now, journal, purged>>

(* commitConfirmed reads the revision back before it believes or retries.  *)
(* The second read, or one that fails, ends the attempt.                   *)
(* Mutant: an unchanged revision is taken for the commit's. *)
ConfirmedAnyway(b) == db.cp.revision >= b.rev
Confirmed(b) == db.cp.revision = b.rev + 1

Reread(ok) ==
  /\ col.pc = "reread"
  /\ IF ok /\ ~Confirmed(col.batch) /\ col.tries = 1 THEN col' = [col EXCEPT !.pc = "commit"] ELSE Done
  /\ UNCHANGED <<now, journal, purged, db, fate, late>>

(* Maintain: age retention and storage pressure, each in one transaction.  *)
Prune(cutoff) ==
  \E work \in 1 .. BatchSize :
    /\ db' = pruneShared(db, cutoff, work)
    /\ fate' = [i \in DOMAIN fate |->
                  IF fate[i] \in Minutes /\ db.minutes[fate[i]] > 0 /\ db'.minutes[fate[i]] = 0
                  THEN Evicted ELSE fate[i]]
    /\ UNCHANGED <<now, journal, purged, col, late>>
pruneAge == now >= Retention /\ Prune(now - Retention)
pruneSize == Prune(NoValue)

(* The process stops or dies, and a new collector starts.                  *)
Restart == Done /\ UNCHANGED <<now, journal, purged, db, fate, late>>

Environment == Tick \/ Logged \/ Vacuum \/ pruneAge \/ pruneSize
Read == ReadFails \/ ReadReset \/ ReadToEnd \/ ReadDeferred \/ ReadTooLarge \/ ReadEmpty \/ ReadTail
LogNext ==
  \/ Environment \/ Request \/ Read \/ Restart
  \/ \E applied \in BOOLEAN, seen \in {"ok", "error", "expired"} : Commit(applied, seen)
  \/ \E ok \in BOOLEAN : Reread(ok)
LogSpec == LogInit /\ [][LogNext]_logVars

-----------------------------------------------------------------------------
Status ==
  [support : {"SUPPORTED", "UNAVAILABLE", "PERMISSION_DENIED"},
   collection : {"OK", "PARTIAL", "FAILED", "NOT_RUN"},
   freshness : {"UNKNOWN", "CURRENT", "STALE"},
   attempted : Times \union {NoValue}, observed : Times \union {NoValue}, through : Times \union {NoValue},
   reason : Gaps \union {NOT_YET_OBSERVED, "none", "LOG_HELPER_UNAVAILABLE", "NO_VISIBLE_JOURNAL",
                         "LOG_STORAGE_UNAVAILABLE"}]

(* Every variable has its type, and the stored cursor is a journal record. *)
TypeOK ==
  /\ now \in Times /\ purged \in 0 .. Len(journal)
  /\ db.cp.revision \in Nat /\ db.cp.reset \in BOOLEAN
  /\ db.cp.opaque \in 1 .. Len(journal) \union {NoValue}
  /\ {db.cp.previous, db.cp.through} \subseteq Times \union {NoValue}
  /\ db.minutes \in [Minutes -> Nat] /\ db.coverage \subseteq Segment(Times)
  /\ db.status \in Status
  /\ col.pc \in {"idle", "read", "tail", "commit", "reread"} /\ col.tries \in 0 .. 2
  /\ fate \in [1 .. MaxEvents -> Minutes \union {Unread, Vanished, Skipped, Expired, Evicted}]

(* What commitLogBatch and pruneShared leave can always be loaded again:    *)
(* the checkpoint and the status pass their own validation, coverage is    *)
(* disjoint and never reaches past the last attempt.  A row that failed    *)
(* these checks would end collection for good.                             *)
StoredStateLoads ==
  /\ db.cp.revision > 0 => db.cp.previous # NoValue /\ ValidStatus(db.status)
  /\ db.cp.reset => db.cp.opaque = NoValue /\ db.cp.revision > 0
  /\ db.cp.through <= db.cp.previous
  /\ Disjoint(db.coverage) /\ \A s \in db.coverage : s.end <= db.cp.previous

(* Each record is counted at most once and a minute's row is exactly the    *)
(* records it counts, whatever was deferred, retried, committed without    *)
(* the collector learning of it, or read again after a restart.            *)
CountsAreExact ==
  \A m \in Minutes : db.minutes[m] = Cardinality({i \in DOMAIN fate : fate[i] = m})

Covered(t) == COVERED \in Evidence(db.coverage, t)

(* A covered instant is a promise about counts: every record logged then   *)
(* is counted in its own minute.  Excepted are records the reader itself   *)
(* discards for their time, records vacuumed before the source ever had a  *)
(* cursor, and those a reset jumps over (ResetSkipsNothing).                *)
CoveredMeansCounted ==
  \A i \in 1 .. Len(journal) :
    Covered(journal[i].at) =>
      fate[i] \in {MinuteOf(journal[i].at), Vanished, Skipped} \/ i \in late

(* Counts and coverage agree with the journal: no record is counted twice  *)
(* or in a wrong minute, and a covered instant leaves none out             *)
(* (commitLogBatch, deriveLogCoverage).                                    *)
CountsAreTrue == CountsAreExact /\ CoveredMeansCounted

(* The same promise for a record logged between the query start of a       *)
(* checkpoint reset and the moment the reader finds the journal's tail.    *)
ResetSkipsNothing ==
  \A i \in 1 .. Len(journal) : Covered(journal[i].at) => fate[i] # Skipped

=============================================================================
