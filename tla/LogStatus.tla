----------------------------- MODULE LogStatus -----------------------------
(* What the log collector publishes while it collects: the latest status,  *)
(* the overlay of a storage failure, the newest events, and the summaries   *)
(* that join the stored status with the overlay (internal/logobs).  Each    *)
(* step of LogHistory is extended by what it does to the collector's       *)
(* memory.                                                                 *)
EXTENDS LogHistory

CONSTANTS
  MaxRecent,    \* MaxRecentEvents
  Summaries     \* concurrent summary requests

ASSUME StatusAssumption == MaxRecent \in Nat

VARIABLES
  mem,        \* latest status, overlay and recent events
  reading     \* for each summary request, the status its transaction read

publicVars == <<logVars, mem, reading>>

(* recordStorageFailure: the overlay of a failed load or commit.            *)
StorageFailure(at, support, previous) ==
  LET known == previous.observed # NoValue /\ previous.observed <= at
  IN [support |-> support, collection |-> "FAILED",
      freshness |-> IF known THEN "STALE" ELSE "UNKNOWN", attempted |-> at,
      observed |-> IF known THEN previous.observed ELSE NoValue,
      through |-> IF known THEN previous.through ELSE NoValue,
      reason |-> "LOG_STORAGE_UNAVAILABLE"]

(* mergeStorageOverlay, applied when the overlay's attempt is the later.    *)
mergeStorageOverlay(stored, overlay) ==
  LET newer == stored.observed > overlay.observed
      observed == IF newer THEN stored.observed ELSE overlay.observed
  IN [overlay EXCEPT !.observed = observed,
                     !.freshness = IF newer THEN "STALE" ELSE @,
                     !.through = IF stored.through > @ /\ stored.through <= observed
                                 THEN stored.through ELSE @]
Shown(stored, overlay) ==
  IF overlay # NoStatus /\ overlay.attempted > stored.attempted
  THEN mergeStorageOverlay(stored, overlay) ELSE stored

(* recordStorageFailure.                                                   *)
FailStorage(at, support) ==
  mem' = [mem EXCEPT !.latest = StorageFailure(at, support, mem.latest),
                     !.overlay = StorageFailure(at, support, mem.latest)]
BatchSupport(b) == IF b.support = "SUPPORTED" THEN "SUPPORTED" ELSE "UNAVAILABLE"

(* recordCommit: the batch is durable; its events join the newest ones.    *)
Before(i, j) == journal[i].at > journal[j].at \/ (journal[i].at = journal[j].at /\ i < j)
Ring(events) == {i \in events : Cardinality({j \in events : Before(j, i)}) < MaxRecent}
RecordCommit(b) ==
  mem' = [latest |-> StatusAfterBatch(b, mem.latest), overlay |-> NoStatus,
          recent |-> Ring(mem.recent \union {i \in b.rows : Accepted(i, b.q)})]

-----------------------------------------------------------------------------
PublicInit ==
  /\ LogInit
  /\ mem = [latest |-> NoStatus, overlay |-> NoStatus, recent |-> {}]
  /\ reading = [r \in Summaries |-> NoStatus]

(* The checkpoint does not load, or the clock has not moved.               *)
LoadFails ==
  /\ col.pc = "idle"
  /\ FailStorage(now, BatchSupport(mem.latest))
  /\ UNCHANGED <<logVars, reading>>

CommitPublishes(applied, seen) ==
  /\ Commit(applied, seen)
  /\ CASE seen = "ok" -> RecordCommit(col.batch)
       [] seen = "expired" -> FailStorage(col.batch.q, BatchSupport(col.batch))
       [] OTHER -> UNCHANGED mem
  /\ UNCHANGED reading

RereadPublishes(ok) ==
  /\ Reread(ok)
  /\ IF ok /\ Confirmed(col.batch) THEN RecordCommit(col.batch)
     ELSE IF ok /\ col.tries = 1 THEN UNCHANGED mem
     ELSE FailStorage(col.batch.q, BatchSupport(col.batch))
  /\ UNCHANGED reading

(* A new process starts with empty memory.                                 *)
RestartPublishes ==
  /\ Restart
  /\ mem' = [latest |-> NoStatus, overlay |-> NoStatus, recent |-> {}]
  /\ reading' = [r \in Summaries |-> NoStatus]

(* Summary: the store is read in one transaction, the overlay after it.    *)
QuerySummary(r) ==
  /\ reading' = [reading EXCEPT ![r] =
                   IF db.cp.revision = 0 THEN [NoStatus EXCEPT !.reason = "READER_FAILED"] ELSE db.status]
  /\ UNCHANGED <<logVars, mem>>

PublicNext ==
  \/ (Environment \/ Request \/ Read) /\ UNCHANGED <<mem, reading>>
  \/ LoadFails \/ RestartPublishes
  \/ \E applied \in BOOLEAN, seen \in {"ok", "error", "expired"} : CommitPublishes(applied, seen)
  \/ \E ok \in BOOLEAN : RereadPublishes(ok)
  \/ \E r \in Summaries : QuerySummary(r)
PublicSpec == PublicInit /\ [][PublicNext]_publicVars

-----------------------------------------------------------------------------
(* The events the status page shows are counted, unless already evicted or *)
(* too old for a row.                                                      *)
RecentAreStored ==
  \A i \in mem.recent : fate[i] \in Minutes \union {Evicted, Expired}

(* Whatever status a summary read, adding the overlay of a later storage    *)
(* failure gives a status that passes the validation of the response.      *)
SummaryIsValid ==
  \A r \in Summaries : reading[r] # NoStatus => ValidStatus(Shown(reading[r], mem.overlay))

(* The status page is never ahead of the store: what it calls covered or    *)
(* observed, a committed batch of the same or a later attempt established. *)
LatestIsStored ==
  /\ mem.latest.through <= db.cp.through
  /\ mem.latest.observed <= db.cp.previous

(* What the status page and a summary show, read between any two steps of  *)
(* the collector and under any failure of the store, is backed by the      *)
(* store (recordCommit, recordStorageFailure, Summary).                    *)
PageIsTrue == RecentAreStored /\ SummaryIsValid /\ LatestIsStored
=============================================================================
