----------------------------- MODULE PairStatus -----------------------------
(* What the operator is told about an activated pair, or about the pair    *)
(* and the Docker reader: the status records the workers write, each for   *)
(* its own invocation, and ReadStatus of internal/connectedinstall with    *)
(* its rich and Docker variants, which put them together with what the     *)
(* service manager says while the workers go on, stop and restart.         *)
(* Activation models how an uploader gets past the gate; here the gate may *)
(* open at any time.                                                       *)
EXTENDS Integers, Sequences, FiniteSetsExt

CONSTANTS
  Window,         \* connectedstatus.FreshnessWindow
  MaxFuture,      \* uploadstate.MaxFuture
  MaxRestarts,    \* bound: invocations of units beyond their first
  MaxTime,        \* bound: the wall clock
  MaxEvents,      \* bound: what happens beside one call of ReadStatus
  NoRecord

ASSUME StatusAssumption ==
  /\ Window \in Nat /\ MaxFuture \in Nat /\ MaxTime \in Nat \ {0}
  /\ MaxRestarts \in Nat /\ MaxEvents \in Nat /\ NoRecord \notin Nat

VARIABLES
  docker,    \* whether the profile has a Docker reader
  manager,   \* the manager's view of each unit
  phase,     \* the uploader process
  record,    \* observedStepper.record of the uploader process
  written,   \* status.json of each worker
  now,       \* the wall clock
  query,     \* one call of ReadStatus
  passed     \* history: uploader invocations past the gate

workerVars == <<docker, manager, phase, record, written, passed>>
statusVars == <<workerVars, now, query>>

StatusUnits == {"collector", "uploader", "reader"}
(* The workers of the profile, in the order ReadStatus takes them.         *)
Workers == IF docker THEN <<"collector", "uploader", "reader">> ELSE <<"collector", "uploader">>
HasUnit(u) == \E k \in DOMAIN Workers : Workers[k] = u
(* SOURCE_UNAVAILABLE counts as COLLECTING wherever it is read.            *)
ReaderStates == {"COLLECTING", "INVALID_SNAPSHOT"}
LastInvocation == MaxRestarts + 1
Times == 0 .. MaxTime
Zero == 0
(* The states of a step that is neither an acknowledgement nor idle are    *)
(* reported as they are; one of them stands for all.                       *)
UploaderStates == {"WAITING_FIRST_UPLOAD", "RETRYING", "ACKNOWLEDGED_FRESH",
                   "ACKNOWLEDGED_STALE"}
Unseen == [u \in StatusUnits |-> NoRecord]
NoQuery == [pc |-> "idle", k |-> 0, seen |-> Unseen, rec |-> Unseen, joint |-> FALSE, events |-> 0]

Fresh(collected, at) ==
  collected # Zero /\ at - collected <= Window /\ collected <= at + MaxFuture
freshness(collected, at) ==
  IF Fresh(collected, at) THEN "ACKNOWLEDGED_FRESH" ELSE "ACKNOWLEDGED_STALE"
idleState(r, at) ==
  IF ~r.acknowledged THEN "WAITING_FIRST_UPLOAD" ELSE freshness(r.collected, at)

Write(u, r) == written' = [written EXCEPT ![u] = r]
Plain(u, state) ==
  [inv |-> manager[u].inv, state |-> state, collected |-> Zero, acknowledged |-> FALSE]

---------------------------------------------------------------------------
(* The workers.                                                            *)

(* A call is interrupted a bounded number of times.                        *)
Beside ==
  IF query.pc = "idle" THEN UNCHANGED query
  ELSE /\ query.events < MaxEvents
       /\ query' = [query EXCEPT !.events = @ + 1]

Restarts ==
  MapThenSumSet(LAMBDA u : IF manager[u].inv = 0 THEN 0 ELSE manager[u].inv - 1, StatusUnits)

StartUnit(u) ==
  /\ HasUnit(u) /\ manager[u].active # "active"
  /\ manager[u].inv = 0 \/ Restarts < MaxRestarts
  /\ manager' = [manager EXCEPT ![u] = [inv |-> manager[u].inv + 1, active |-> "active"]]
  /\ phase' = IF u = "uploader" THEN "preflight" ELSE phase
  /\ UNCHANGED <<docker, record, written, passed, now>>
  /\ Beside

(* The unit ends by itself or is stopped; an uploader that was cancelled   *)
(* while it ran leaves STOPPED behind with its last acknowledgement.       *)
EndUnit(u) ==
  /\ manager[u].active = "active"
  /\ \E active \in {"inactive", "failed"} : manager' = [manager EXCEPT ![u].active = active]
  /\ \/ UNCHANGED written
     \/ u = "uploader" /\ phase = "run" /\ Write(u, [record EXCEPT !.state = "STOPPED"])
  /\ phase' = IF u = "uploader" THEN "off" ELSE phase
  /\ record' = IF u = "uploader" THEN NoRecord ELSE record
  /\ UNCHANGED <<docker, passed, now>>
  /\ Beside

CollectorCycle ==
  /\ manager["collector"].active = "active"
  /\ Write("collector", Plain("collector", "COLLECTING"))
  /\ UNCHANGED <<docker, manager, phase, record, passed, now>>
  /\ Beside

(* dockerreader.run: a cycle is published and reported, also when the      *)
(* engine answered what cannot be projected.                               *)
ReaderCycle ==
  /\ manager["reader"].active = "active"
  /\ \E s \in ReaderStates : Write("reader", Plain("reader", s))
  /\ UNCHANGED <<docker, manager, phase, record, passed, now>>
  /\ Beside

PublishPreflight ==
  /\ phase = "preflight"
  /\ Write("uploader", Plain("uploader", "STOPPED"))
  /\ phase' = "gate"
  /\ UNCHANGED <<docker, manager, record, passed, now>>
  /\ Beside

(* The gate opens, and the dependencies of the upload loop with it.        *)
GateOpens ==
  /\ phase = "gate"
  /\ phase' = "run"
  /\ record' = Plain("uploader", "WAITING_FIRST_UPLOAD")
  /\ Write("uploader", record')
  /\ passed' = passed \union {manager["uploader"].inv}
  /\ UNCHANGED <<docker, manager, now>>
  /\ Beside

(* observedStepper.Step: the outcome of a step becomes the state, and the  *)
(* collection time of an acknowledged snapshot is kept with it.  A record  *)
(* that cannot be written ends the process (EndUnit).                      *)
ObservedStep(outcome) ==
  /\ phase = "run"
  /\ \/ /\ outcome = "Acknowledged"
        /\ \E c \in 1 .. MaxTime :
             record' = [record EXCEPT !.state = freshness(c, now), !.collected = c,
                                      !.acknowledged = TRUE]
     \/ /\ outcome # "Acknowledged"
        /\ record' = [record EXCEPT !.state =
             IF outcome = "Idle" THEN idleState(record, now) ELSE "RETRYING"]
  /\ Write("uploader", record')
  /\ UNCHANGED <<docker, manager, phase, passed, now>>
  /\ Beside

(* The wall clock, which may also be set.                                  *)
SetClock ==
  /\ \E t \in 1 .. MaxTime : t # now /\ now' = t
  /\ UNCHANGED workerVars
  /\ Beside

---------------------------------------------------------------------------
(* ReadStatus: an inspection of every worker, a record of every active     *)
(* one, and every inspection again, each at a moment of its own.           *)

Worker == Workers[query.k]
Last == Len(Workers)

ReadStatusCalled ==
  /\ query.pc = "idle"
  /\ query' = [NoQuery EXCEPT !.pc = "inspect", !.k = 1]
  /\ UNCHANGED <<workerVars, now>>

(* What follows the present turn: the next worker's, or the next round.    *)
Turn(round, next) ==
  [query EXCEPT !.pc = IF query.k < Last THEN round ELSE next,
               !.k = IF query.k < Last THEN @ + 1 ELSE 1]

inspectWorker ==
  /\ query.pc = "inspect"
  /\ query' = [Turn("inspect", "record") EXCEPT
                !.seen[Worker] = manager[Worker],
                !.joint = \A k \in 1 .. query.k - 1 : query.seen[Workers[k]] = manager[Workers[k]]]
  /\ UNCHANGED <<workerVars, now>>

(* The record of an active worker, when this invocation wrote it.          *)
OwnRecord(worker, r) ==
  IF worker.active = "active" /\ r # NoRecord /\ r.inv = worker.inv THEN r ELSE NoRecord

ReadRecord ==
  /\ query.pc = "record"
  /\ query' = [Turn("record", "again") EXCEPT
                !.rec[Worker] = OwnRecord(query.seen[Worker], written[Worker])]
  /\ UNCHANGED <<workerVars, now>>

(* The actions of this module leave no unit between two states and write   *)
(* no state that is not known; what the code makes of those is kept below. *)
Changing(u) == u.active \in {"activating", "deactivating"}

(* Mutant: an acknowledgement stays as fresh as it was written. *)
classifyAsWritten(c, u, crec, urec, at) ==
  IF c.active = "failed" \/ u.active = "failed" THEN "RECOVERY_REQUIRED"
  ELSE IF Changing(c) \/ Changing(u) THEN "STARTING"
  ELSE IF c.active = "inactive" /\ u.active = "inactive" THEN "STOPPED"
  ELSE IF c.active # "active" \/ u.active # "active" THEN "RECOVERY_REQUIRED"
  ELSE IF crec = NoRecord \/ urec = NoRecord THEN "STARTING"
  ELSE IF crec.state # "COLLECTING" THEN "RECOVERY_REQUIRED"
  ELSE IF urec.state = "STOPPED" THEN "STARTING"
  ELSE IF urec.state \notin UploaderStates THEN "RECOVERY_REQUIRED"
  ELSE urec.state
(* classifyPairStatus.                                                     *)
classifyPairStatus(c, u, crec, urec, at) ==
  IF c.active = "failed" \/ u.active = "failed" THEN "RECOVERY_REQUIRED"
  ELSE IF Changing(c) \/ Changing(u) THEN "STARTING"
  ELSE IF c.active = "inactive" /\ u.active = "inactive" THEN "STOPPED"
  ELSE IF c.active # "active" \/ u.active # "active" THEN "RECOVERY_REQUIRED"
  ELSE IF crec = NoRecord \/ urec = NoRecord THEN "STARTING"
  ELSE IF crec.state # "COLLECTING" THEN "RECOVERY_REQUIRED"
  ELSE IF urec.state = "STOPPED" THEN "STARTING"
  ELSE IF urec.state \notin UploaderStates THEN "RECOVERY_REQUIRED"
  ELSE IF urec.state = "ACKNOWLEDGED_FRESH" THEN freshness(urec.collected, at)
  ELSE urec.state

(* classifyDockerStatus: the reader can only make the pair's state worse.  *)
classifyDockerStatus(pair, r, rrec) ==
  IF pair = "RECOVERY_REQUIRED" \/ r.active = "failed" THEN "RECOVERY_REQUIRED"
  ELSE IF Changing(r) THEN "STARTING"
  ELSE IF r.active = "inactive" /\ pair = "STOPPED" THEN "STOPPED"
  ELSE IF r.active # "active" \/ pair = "STOPPED" THEN "RECOVERY_REQUIRED"
  ELSE IF rrec = NoRecord THEN "STARTING"
  ELSE IF rrec.state = "INVALID_SNAPSHOT" THEN "RECOVERY_REQUIRED"
  ELSE pair

(* The second inspections; a worker that has changed makes it STARTING.    *)
inspectWorkerAgain ==
  /\ query.pc = "again" /\ query.k < Last
  /\ query' = IF manager[Worker] = query.seen[Worker] THEN [query EXCEPT !.k = @ + 1] ELSE NoQuery
  /\ UNCHANGED <<workerVars, now>>

Classifying == query.pc = "again" /\ query.k = Last

(* What ReadStatus returns when it inspects the last worker again now.     *)
Report ==
  LET pair == classifyPairStatus(query.seen["collector"], query.seen["uploader"],
                                 query.rec["collector"], query.rec["uploader"], now) IN
  IF manager[Worker] # query.seen[Worker] THEN "STARTING"
  ELSE IF docker THEN classifyDockerStatus(pair, query.seen["reader"], query.rec["reader"])
  ELSE pair

Return ==
  /\ Classifying
  /\ query' = NoQuery
  /\ UNCHANGED <<workerVars, now>>

---------------------------------------------------------------------------
StatusInit ==
  /\ docker \in BOOLEAN
  /\ manager = [u \in StatusUnits |-> [inv |-> 0, active |-> "inactive"]]
  /\ phase = "off"
  /\ record = NoRecord
  /\ written = [u \in StatusUnits |-> NoRecord]
  /\ now = 1
  /\ query = NoQuery
  /\ passed = {}

WorkerStep ==
  \/ \E u \in StatusUnits : StartUnit(u) \/ EndUnit(u)
  \/ CollectorCycle \/ ReaderCycle \/ PublishPreflight \/ GateOpens
  \/ \E o \in {"Acknowledged", "Idle", "Retry"} : ObservedStep(o)
ReadStatus ==
  ReadStatusCalled \/ inspectWorker \/ ReadRecord \/ inspectWorkerAgain \/ Return
StatusNext == WorkerStep \/ SetClock \/ ReadStatus

StatusSpec == StatusInit /\ [][StatusNext]_statusVars

---------------------------------------------------------------------------
(* Any report but STARTING shows the workers as they were together: at the *)
(* moment the last was first inspected, each other one was still what its  *)
(* own inspection had shown, although the inspections and reads happen one *)
(* after another (the second inspections).                                 *)
ReportIsOneMoment == Classifying /\ Report # "STARTING" => query.joint

(* A report of upload progress is about an uploader that is past the gate: *)
(* a record of an earlier invocation is never shown for a restarted one    *)
(* (publishPreflightStatus, the comparison of invocation ids).  A report   *)
(* of fresh delivery rests on a collection that is inside the freshness    *)
(* window and not in the future when the report is made, however old the   *)
(* record and wherever the clock was set (classifyPairStatus), and with a  *)
(* Docker reader on one that runs and reported in its present invocation   *)
(* (classifyDockerStatus).                                                 *)
ReportIsBacked ==
  Classifying =>
    /\ Report \in UploaderStates => query.seen["uploader"].inv \in passed
    /\ Report = "ACKNOWLEDGED_FRESH" =>
         /\ Fresh(query.rec["uploader"].collected, now)
         /\ docker => /\ manager["reader"].active = "active"
                      /\ query.rec["reader"].inv = manager["reader"].inv

(* A report of the status of a pair shows its workers as they were         *)
(* together at one moment; upload progress is that of an admitted          *)
(* invocation, and fresh delivery is fresh when it is reported             *)
(* (ReadStatus, classifyPairStatus, classifyDockerStatus).                 *)
ReportIsTrue == ReportIsOneMoment /\ ReportIsBacked
=============================================================================
