----------------------------- MODULE Activation -----------------------------
(* The activation of an installed collector/uploader pair: the root        *)
(* transaction of internal/connectedinstall (Start, Stop), the gate of     *)
(* internal/connectedstartup that holds the uploader until the same        *)
(* transaction commits it, and the records the two exchange.  The service  *)
(* manager is external: an administrator may start and stop the units      *)
(* beside the transaction, a start command may fail and still launch the   *)
(* unit, even later, and every process may die between any two steps.      *)
(* A unit that is activating or deactivating counts as active: where the   *)
(* code tells them apart it fails, which the model always allows.          *)
(* Inspections in a row are one step where a later check of the same unit  *)
(* follows: an instance that is gone never comes back, so they all held at *)
(* the moment of the first.                                                *)
EXTENDS Naturals

CONSTANTS
  MaxInvocation,  \* bound: invocations the manager makes of one unit
  MaxAttempts,    \* bound: calls of Start
  MaxConfig,      \* bound: versions of the installed configuration
  None

ASSUME BoundsAssumption ==
  /\ MaxInvocation \in Nat \ {0} /\ MaxAttempts \in Nat \ {0} /\ MaxConfig \in Nat \ {0}

VARIABLES
  unit,       \* the manager's view of each unit
  queued,     \* units a failed start command left a job for, and its call
  files,      \* the activation records of /run and the uploader's response
  status,     \* status.json of each worker
  config,     \* the version of installed.json
  up,         \* the uploader process
  draws,      \* challenges drawn so far
  tx,         \* the process that holds the installation lease
  result,     \* what the last call of Start or Stop returned
  attempts,   \* calls of Start so far
  started,    \* history: invocations the last transaction launched
  collected,  \* history: collector invocations that reported COLLECTING
  authorised, \* history: commits published
  admitted    \* history: uploader invocations past the gate

worldVars == <<unit, queued, status, up, draws, collected, admitted>>
rootVars == <<tx, result, attempts, authorised>>
vars == <<unit, queued, files, status, config, up, draws, tx, result, attempts, started,
          collected, authorised, admitted>>

Units == {"uploader", "collector"}
Invocations == 1 .. MaxInvocation
Instance == [inv : 0 .. MaxInvocation, active : {"inactive", "failed", "active"}]
NoInstance == [inv |-> 0, active |-> "inactive"]

(* connectedactivation: a digest stands for the record it is taken of.     *)
Request == [nonce : 1 .. MaxAttempts, config : 1 .. MaxConfig]
Response == [request : Request, inv : Invocations, challenge : 1 .. MaxInvocation]
StatusStates == {"STOPPED", "COLLECTING", "WAITING_FIRST_UPLOAD", "RETRYING"}
Record == [inv : Invocations, state : StatusStates]
ASSUME NoneAssumption ==
  None \notin Nat /\ None \notin Instance \union Request \union Response \union Record

GatePhases == {"preflight", "request", "prove", "commit", "current"}
OffProcess == [pc |-> "off", request |-> None, challenge |-> 0, config |-> 0]
Idle == [pc |-> "idle", owned |-> [u \in Units |-> None], failed |-> FALSE,
         config |-> 0, request |-> None, response |-> None, err |-> "none"]
RootPhases == {"pin", "start_uploader", "inspect_uploader", "request", "rename_request",
               "response", "start_collector", "inspect_collector", "collector", "audit",
               "commit", "rename_commit", "ready", "recheck", "recheck_collector"}
CleanPhases == {"clean_uploader", "stop_uploader", "join_uploader",
                "clean_collector", "stop_collector", "join_collector"}

Active(u) == unit[u].active = "active"
Stopped(u) == unit[u].active \in {"inactive", "failed"}
Live(u, i) == Active(u) /\ unit[u].inv = i

(* sameWorker: the manager still shows the instance that was captured.     *)
sameWorker(u) ==
  /\ tx.owned[u] # None /\ tx.owned[u].active = "active"
  /\ unit[u] = tx.owned[u]

MatchResponse(request, inv, response) == response.request = request /\ response.inv = inv

(* Mutant: a commit is matched by the request it answers. *)
MatchCommitRequest(request, response, commit) == commit.request = response.request
MatchCommit(request, response, commit) ==
  /\ MatchResponse(request, response.inv, response)
  /\ commit = response

---------------------------------------------------------------------------
(* The service manager and the administrator (external).                   *)

Launch(u) ==
  /\ unit[u].inv < MaxInvocation
  /\ unit' = [unit EXCEPT ![u] = [inv |-> unit[u].inv + 1, active |-> "active"]]
  /\ up' = IF u = "uploader" THEN [OffProcess EXCEPT !.pc = "preflight", !.config = config]
                             ELSE up
(* A unit's process ends.  An admitted uploader that is told to stop       *)
(* records STOPPED, if its status can be written.                          *)
Ends(u, active, told) ==
  /\ unit' = [unit EXCEPT ![u].active = active]
  /\ up' = IF u = "uploader" THEN OffProcess ELSE up
  /\ \/ UNCHANGED status
     \/ /\ told /\ u = "uploader" /\ up.pc = "run"
        /\ status' = [status EXCEPT ![u] = [inv |-> unit[u].inv, state |-> "STOPPED"]]

AdminStarts(u) ==
  /\ Stopped(u)
  /\ Launch(u)
  /\ UNCHANGED <<queued, files, status, config, draws, rootVars, started, collected, admitted>>

AdminStops(u) ==
  /\ Active(u)
  /\ Ends(u, "inactive", TRUE)
  /\ UNCHANGED <<queued, files, config, draws, rootVars, started, collected, admitted>>

(* The queued job of a start command that failed runs after all.           *)
LateStart(u) ==
  /\ \E n \in 1 .. attempts :
       /\ <<u, n>> \in queued
       /\ queued' = queued \ {<<u, n>>}
       /\ \/ /\ Stopped(u) /\ Launch(u)
             /\ started' = IF n = attempts THEN started \union {<<u, unit[u].inv + 1>>}
                                          ELSE started
          \/ UNCHANGED <<unit, up, started>>
  /\ UNCHANGED <<files, status, config, draws, rootVars, collected, admitted>>

Reconfigure ==
  /\ config < MaxConfig
  /\ config' = config + 1
  /\ UNCHANGED <<worldVars, files, rootVars, started>>

---------------------------------------------------------------------------
(* The workers.                                                            *)

(* cmd/observer-connected-collector: one collection, published and then    *)
(* reported.                                                               *)
Collect ==
  /\ Active("collector")
  /\ status' = [status EXCEPT !["collector"] = [inv |-> unit["collector"].inv, state |-> "COLLECTING"]]
  /\ collected' = collected \union {unit["collector"].inv}
  /\ UNCHANGED <<unit, queued, files, config, up, draws, rootVars, started, admitted>>

(* Any early return of a worker, its deadline included: the unit fails.    *)
WorkerFails(u) ==
  /\ Active(u)
  /\ Ends(u, "failed", FALSE)
  /\ UNCHANGED <<queued, files, config, draws, rootVars, started, collected, admitted>>

(* publishPreflightStatus: whatever an earlier invocation reported is      *)
(* overwritten before the gate.                                            *)
Preflight ==
  /\ up.pc = "preflight"
  /\ status' = [status EXCEPT !["uploader"] = [inv |-> unit["uploader"].inv, state |-> "STOPPED"]]
  /\ up' = [up EXCEPT !.pc = "request"]
  /\ UNCHANGED <<unit, queued, files, config, draws, rootVars, started, collected, admitted>>

(* rendezvousBound: a request for this configuration, and a fresh          *)
(* challenge.  A request for another one ends the process (WorkerFails).   *)
ReadRequest ==
  /\ up.pc = "request"
  /\ files.request # None /\ files.request.config = up.config
  /\ draws' = draws + 1
  /\ up' = [up EXCEPT !.pc = "prove", !.request = files.request, !.challenge = draws']
  /\ UNCHANGED <<unit, queued, files, status, config, rootVars, started, collected, admitted>>

OwnResponse == [request |-> up.request, inv |-> unit["uploader"].inv, challenge |-> up.challenge]

(* The probes are done and closed; the response is published.              *)
Respond ==
  /\ up.pc = "prove"
  /\ files' = [files EXCEPT !.response = OwnResponse]
  /\ up' = [up EXCEPT !.pc = "commit"]
  /\ UNCHANGED <<unit, queued, status, config, draws, rootVars, started, collected, admitted>>

(* The commit is matched with the response kept in memory.                 *)
ReadCommit ==
  /\ up.pc = "commit"
  /\ files.commit # None
  /\ MatchCommit(up.request, OwnResponse, files.commit)
  /\ up' = [up EXCEPT !.pc = "current"]
  /\ UNCHANGED <<unit, queued, files, status, config, draws, rootVars, started, collected, admitted>>

(* Mutant: the configuration is not read again. *)
AdmitUnchecked ==
  /\ up.pc = "current"
  /\ up' = [up EXCEPT !.pc = "load"]
  /\ admitted' = admitted \union {unit["uploader"].inv}
  /\ UNCHANGED <<unit, queued, files, status, config, draws, rootVars, started, collected>>
(* The configuration is still the one the process loaded: the gate opens.  *)
Admit ==
  /\ up.pc = "current"
  /\ up.config = config
  /\ up' = [up EXCEPT !.pc = "load"]
  /\ admitted' = admitted \union {unit["uploader"].inv}
  /\ UNCHANGED <<unit, queued, files, status, config, draws, rootVars, started, collected>>

(* The credential, the ledger and the handoff are open: the upload loop    *)
(* starts, and reports after each step.                                    *)
RunUploader ==
  /\ up.pc \in {"load", "run"}
  /\ up' = [up EXCEPT !.pc = "run"]
  /\ \E s \in {"WAITING_FIRST_UPLOAD"} \union (IF up.pc = "run" THEN {"RETRYING"} ELSE {}) :
       status' = [status EXCEPT !["uploader"] = [inv |-> unit["uploader"].inv, state |-> s]]
  /\ UNCHANGED <<unit, queued, files, config, draws, rootVars, started, collected, admitted>>

---------------------------------------------------------------------------
(* The root transaction.                                                   *)

FailWith(e) == tx' = [tx EXCEPT !.pc = "clean_uploader", !.err = e]
Phase(next) == tx' = [tx EXCEPT !.pc = next]

(* Start: both workers were inspected and found stopped.                   *)
Start ==
  /\ tx.pc = "idle" /\ attempts < MaxAttempts
  /\ \A u \in Units : Stopped(u)
  /\ tx' = [Idle EXCEPT !.pc = "pin", !.config = config]
  /\ attempts' = attempts + 1
  /\ result' = "none"
  /\ started' = {}
  /\ UNCHANGED <<worldVars, files, config, authorised>>

(* clearPinnedActivationRecords: nothing but the two records may be there, *)
(* and they are unlinked one at a time.                                    *)
ClearRecord ==
  /\ tx.pc = "pin" /\ ~files.staged
  /\ \/ files.request # None /\ files' = [files EXCEPT !.request = None]
     \/ files.commit # None /\ files' = [files EXCEPT !.commit = None]
  /\ UNCHANGED <<worldVars, config, rootVars, started>>

ClearResponse ==
  /\ tx.pc = "pin" /\ ~files.staged
  /\ files.request = None /\ files.commit = None
  /\ files' = [files EXCEPT !.response = None]
  /\ Phase("start_uploader")
  /\ UNCHANGED <<worldVars, config, result, attempts, authorised, started>>

(* startActivationWorker, the command: it may fail with the unit launched, *)
(* not launched, or still to be launched; a unit that is already active is *)
(* left as it is.                                                          *)
StartWorker(u, phase, next) ==
  /\ tx.pc = phase
  /\ \E failed \in BOOLEAN :
       /\ tx' = [tx EXCEPT !.pc = next, !.failed = failed, !.owned[u] = NoInstance]
       /\ \/ Stopped(u) /\ Launch(u) /\ started' = started \union {<<u, unit[u].inv + 1>>}
             /\ UNCHANGED queued
          \/ Active(u) /\ UNCHANGED <<unit, up, started, queued>>
          \/ failed /\ queued' \in {queued, queued \union {<<u, attempts>>}} /\ UNCHANGED <<unit, up, started>>
  /\ UNCHANGED <<files, status, config, draws, result, attempts, collected, authorised, admitted>>

(* Its inspection: the instance is captured even when the command failed.  *)
InspectWorker(u, phase, next) ==
  /\ tx.pc = phase
  /\ \/ /\ ~tx.failed /\ Active(u)
        /\ tx' = [tx EXCEPT !.pc = next, !.owned[u] = unit[u]]
     \/ \E seen \in {NoInstance} \union (IF unit[u].inv = 0 THEN {} ELSE {unit[u]}) :
          tx' = [tx EXCEPT !.pc = "clean_uploader", !.err = "recovery", !.owned[u] = seen]
  /\ UNCHANGED <<worldVars, files, config, result, attempts, authorised, started>>

(* publishPinnedActivation: the staged file, then the rename that replaces *)
(* nothing.  The request names the audited configuration.                  *)
StageRequest ==
  /\ tx.pc = "request"
  /\ sameWorker("uploader") /\ tx.config = config
  /\ files' = [files EXCEPT !.staged = TRUE]
  /\ tx' = [tx EXCEPT !.pc = "rename_request",
                      !.request = [nonce |-> attempts, config |-> tx.config]]
  /\ UNCHANGED <<worldVars, config, result, attempts, authorised, started>>

RenameRequest ==
  /\ tx.pc = "rename_request" /\ files.request = None
  /\ files' = [files EXCEPT !.staged = FALSE, !.request = tx.request]
  /\ (Phase("response") \/ FailWith("recovery"))
  /\ UNCHANGED <<worldVars, config, result, attempts, authorised, started>>

(* The answer of the instance that was started, and of no other.           *)
AwaitResponse ==
  /\ tx.pc = "response"
  /\ sameWorker("uploader")
  /\ files.response # None
  /\ MatchResponse(tx.request, tx.owned["uploader"].inv, files.response)
  /\ tx' = [tx EXCEPT !.pc = "start_collector", !.response = files.response]
  /\ UNCHANGED <<worldVars, files, config, result, attempts, authorised, started>>

(* COLLECTING, reported by the instance that was started.                  *)
AwaitCollector ==
  /\ tx.pc = "collector"
  /\ sameWorker("collector") /\ sameWorker("uploader")
  /\ status["collector"] # None /\ status["collector"].inv = tx.owned["collector"].inv
  /\ Phase("audit")
  /\ UNCHANGED <<worldVars, files, config, result, attempts, authorised, started>>

FinalAudit ==
  /\ tx.pc = "audit"
  /\ sameWorker("collector") /\ sameWorker("uploader") /\ tx.config = config
  /\ Phase("commit")
  /\ UNCHANGED <<worldVars, files, config, result, attempts, authorised, started>>

StageCommit ==
  /\ tx.pc = "commit"
  /\ files' = [files EXCEPT !.staged = TRUE]
  /\ Phase("rename_commit")
  /\ UNCHANGED <<worldVars, config, result, attempts, authorised, started>>

RenameCommit ==
  /\ tx.pc = "rename_commit" /\ files.commit = None
  /\ files' = [files EXCEPT !.staged = FALSE, !.commit = tx.response]
  /\ authorised' = authorised \union
       {[commit |-> tx.response, collector |-> tx.owned["collector"].inv]}
  /\ (Phase("ready") \/ FailWith("recovery"))
  /\ UNCHANGED <<worldVars, config, result, attempts, started>>

(* Readiness, reported by the instance that was started; STOPPED is its    *)
(* report from before the gate, and is waited out.  Any other state fails. *)
AwaitReady ==
  /\ tx.pc = "ready"
  /\ sameWorker("uploader") /\ sameWorker("collector")
  /\ status["uploader"] # None /\ status["uploader"].inv = tx.owned["uploader"].inv
  /\ status["uploader"].state = "WAITING_FIRST_UPLOAD"
  /\ Phase("recheck")
  /\ UNCHANGED <<worldVars, files, config, result, attempts, authorised, started>>

(* The report may be stale by now: both instances are compared once more,  *)
(* one after the other.                                                    *)
RecheckUploader ==
  /\ tx.pc = "recheck"
  /\ sameWorker("uploader")
  /\ Phase("recheck_collector")
  /\ UNCHANGED <<worldVars, files, config, result, attempts, authorised, started>>

Succeed ==
  /\ tx.pc = "recheck_collector"
  /\ sameWorker("collector")
  /\ tx' = Idle
  /\ result' = "ok"
  /\ UNCHANGED <<worldVars, files, config, attempts, authorised, started>>

(* A check that fails, or the deadline of thirty seconds; a record that    *)
(* could not be cleared or published needs recovery.                       *)
RootFails ==
  /\ \/ /\ tx.pc \in {"pin", "start_uploader", "request", "response", "collector", "audit",
                       "commit", "ready", "recheck", "recheck_collector"}
        /\ FailWith("unsafe")
     \/ /\ tx.pc \in {"pin", "request", "rename_request", "commit", "rename_commit"}
        /\ FailWith("recovery")
  /\ UNCHANGED <<worldVars, files, config, result, attempts, authorised, started>>

(* Stop captures the instances it finds and cleans both up.                *)
Stop ==
  /\ tx.pc = "idle"
  /\ tx' = [Idle EXCEPT !.pc = "clean_uploader", !.owned = unit]
  /\ result' = "none"
  /\ started' = {}
  /\ UNCHANGED <<worldVars, files, config, attempts, authorised>>

(* A refusal touches nothing: Start finds something amiss before its first *)
(* command, Stop fails to inspect one of the two units.                    *)
Refuse ==
  /\ tx.pc = "idle"
  /\ result' = "unsafe"
  /\ UNCHANGED <<worldVars, files, config, tx, attempts, authorised, started>>

(* stopCapturedWorker.  The last unit's turn ends the call.                *)
Cleaned(u, e) ==
  IF u = "uploader"
  THEN /\ tx' = [tx EXCEPT !.pc = "clean_collector", !.err = e]
       /\ UNCHANGED result
  ELSE /\ tx' = Idle
       /\ result' = IF e = "none" THEN "stopped" ELSE e

(* Nothing of this unit is owned, or it is stopped already; an instance    *)
(* other than the captured one is left alone and needs recovery.           *)
CleanWorker(u, clean, stop) ==
  /\ tx.pc = clean
  /\ \/ (tx.owned[u] = None \/ Stopped(u)) /\ Cleaned(u, tx.err)
     \/ /\ tx.owned[u] # None
        /\ \/ Cleaned(u, "recovery")
           \/ Live(u, tx.owned[u].inv) /\ Phase(stop) /\ UNCHANGED result
  /\ UNCHANGED <<worldVars, files, config, attempts, authorised, started>>

(* Mutant: a stop command that fails is taken for one that worked. *)
StopWorkerUnchecked(u, stop, join) ==
  /\ tx.pc = stop
  /\ \/ Active(u) /\ Ends(u, "inactive", TRUE) /\ Phase(join) /\ UNCHANGED result
     \/ Cleaned(u, tx.err) /\ UNCHANGED <<unit, up, status>>
  /\ UNCHANGED <<queued, files, config, draws, attempts, authorised, started, collected, admitted>>
(* The command stops whatever instance the unit has now, or fails.         *)
StopWorker(u, stop, join) ==
  /\ tx.pc = stop
  /\ \/ Active(u) /\ Ends(u, "inactive", TRUE) /\ Phase(join) /\ UNCHANGED result
     \/ Stopped(u) /\ Phase(join) /\ UNCHANGED <<unit, up, status, result>>
     \/ Cleaned(u, "recovery") /\ UNCHANGED <<unit, up, status>>
  /\ UNCHANGED <<queued, files, config, draws, attempts, authorised, started, collected, admitted>>

JoinWorker(u, join) ==
  /\ tx.pc = join
  /\ \/ unit[u].active = "inactive" /\ Cleaned(u, tx.err)
     \/ Cleaned(u, "recovery")
  /\ UNCHANGED <<worldVars, files, config, attempts, authorised, started>>

(* The installer is killed; its lease goes with it.                        *)
RootCrashes ==
  /\ tx.pc # "idle"
  /\ tx' = Idle
  /\ result' = "crashed"
  /\ UNCHANGED <<worldVars, files, config, attempts, authorised, started>>

---------------------------------------------------------------------------
Init ==
  /\ unit = [u \in Units |-> NoInstance]
  /\ queued = {}
  /\ files = [request |-> None, commit |-> None, staged |-> FALSE, response |-> None]
  /\ status = [u \in Units |-> None]
  /\ config = 1
  /\ up = OffProcess
  /\ draws = 0
  /\ tx = Idle
  /\ result = "none"
  /\ attempts = 0
  /\ started = {} /\ collected = {} /\ authorised = {} /\ admitted = {}

RootStep ==
  \/ ClearRecord \/ ClearResponse
  \/ StartWorker("uploader", "start_uploader", "inspect_uploader")
  \/ InspectWorker("uploader", "inspect_uploader", "request")
  \/ StageRequest \/ RenameRequest \/ AwaitResponse
  \/ StartWorker("collector", "start_collector", "inspect_collector")
  \/ InspectWorker("collector", "inspect_collector", "collector")
  \/ AwaitCollector \/ FinalAudit \/ StageCommit \/ RenameCommit
  \/ AwaitReady \/ RecheckUploader \/ Succeed \/ RootFails
  \/ CleanWorker("uploader", "clean_uploader", "stop_uploader")
  \/ StopWorker("uploader", "stop_uploader", "join_uploader")
  \/ JoinWorker("uploader", "join_uploader")
  \/ CleanWorker("collector", "clean_collector", "stop_collector")
  \/ StopWorker("collector", "stop_collector", "join_collector")
  \/ JoinWorker("collector", "join_collector")

GateStep == Preflight \/ ReadRequest \/ Respond \/ ReadCommit \/ Admit

Next ==
  \/ \E u \in Units : AdminStarts(u) \/ AdminStops(u) \/ LateStart(u) \/ WorkerFails(u)
  \/ Reconfigure
  \/ Collect \/ RunUploader
  \/ GateStep
  \/ Start \/ Stop \/ Refuse \/ RootStep \/ RootCrashes

Spec == Init /\ [][Next]_vars

(* Mutant: the wait for a request has no deadline. *)
GateExpiresAfterRequest == up.pc \in GatePhases \ {"request"} /\ WorkerFails("uploader")
(* Both deadlines run out: the transaction and a gated uploader always     *)
(* have a step, if only the one that gives up (context.WithTimeout).       *)
GateExpires == up.pc \in GatePhases /\ WorkerFails("uploader")
FairSpec == Spec /\ WF_vars(RootStep) /\ WF_vars(GateStep \/ GateExpires)

---------------------------------------------------------------------------
Files == [request : Request \union {None}, commit : Response \union {None},
          staged : BOOLEAN, response : Response \union {None}]
Process == [pc : GatePhases \union {"off", "load", "run"}, request : Request \union {None},
            challenge : 0 .. MaxInvocation, config : 0 .. MaxConfig]
Transaction == [pc : RootPhases \union CleanPhases \union {"idle"},
                owned : [Units -> Instance \union {None}], failed : BOOLEAN,
                config : 0 .. MaxConfig, request : Request \union {None},
                response : Response \union {None}, err : {"none", "unsafe", "recovery"}]

(* Every variable has its type, and the uploader's process exists exactly  *)
(* while its unit is active.                                               *)
TypeOK ==
  /\ unit \in [Units -> Instance]
  /\ queued \subseteq Units \X (1 .. MaxAttempts)
  /\ files \in Files
  /\ status \in [Units -> Record \union {None}]
  /\ config \in 1 .. MaxConfig
  /\ up \in Process
  /\ draws \in 0 .. MaxInvocation
  /\ tx \in Transaction
  /\ result \in {"none", "ok", "unsafe", "recovery", "stopped", "crashed"}
  /\ attempts \in 0 .. MaxAttempts
  /\ started \subseteq Units \X Invocations
  /\ collected \subseteq Invocations
  /\ authorised \subseteq [commit : Response, collector : Invocations]
  /\ admitted \subseteq Invocations
  /\ (up.pc = "off") <=> ~Active("uploader")

(* An uploader is past the gate (and reads its credential and its ledger)  *)
(* only when a transaction committed this invocation of it, for the        *)
(* request and the challenge it holds, after the collector that            *)
(* transaction started had reported COLLECTING: records left by an earlier *)
(* transaction, a worker started by hand beside one, or a restarted worker *)
(* never pass (rendezvousBound, activateStoppedWith).                      *)
AdmissionIsAuthorised ==
  \A i \in admitted :
    \E a \in authorised : a.commit.inv = i /\ a.collector \in collected

(* The gate opens under the configuration the transaction audited, even    *)
(* when installed.json changes between the audit and the commit            *)
(* (startupPorts.current).                                                 *)
AdmissionMatchesConfig ==
  [][admitted' # admitted =>
       \E a \in authorised : a.commit.inv = unit["uploader"].inv
                             /\ a.commit.request.config = config]_vars

(* What a call of Start or Stop that was not refused says when it returns. *)
(* Without asking for recovery it has left nothing running: no instance it *)
(* launched or captured is still alive, whatever its start commands        *)
(* reported and whoever else handles the units.                            *)
LeavesNothing ==
  tx.pc # "idle" /\ tx'.pc = "idle" /\ result' \in {"unsafe", "stopped"} =>
    \A u \in Units, i \in Invocations :
      \/ tx.owned[u] # None /\ tx.owned[u].inv = i
      \/ <<u, i>> \in started /\ result' = "unsafe"
      => ~Live(u, i)'
(* It reports success only when the uploader it started has passed the     *)
(* gate, with a collector that has collected and is alive at the return.   *)
(* The uploader may have died since it was last looked at.                 *)
SuccessIsAdmission ==
  result # "ok" /\ result' = "ok" =>
    /\ tx.owned["uploader"].inv \in admitted
    /\ tx.owned["collector"].inv \in collected
    /\ Live("collector", tx.owned["collector"].inv)
(* Start and Stop of the pair return the truth: without asking for         *)
(* recovery nothing they launched or captured is left running, and success *)
(* means an uploader that was admitted, beside a collector that collects   *)
(* (stopCapturedWorker, startActivationWorkerWith, the readiness loop).    *)
ReturnsAreTrue == [][LeavesNothing /\ SuccessIsAdmission]_vars

(* A gated uploader does not wait for ever: it is admitted or it ends,     *)
(* also when the transaction dies or never existed.                        *)
GateResolves == up.pc \in GatePhases ~> up.pc \notin GatePhases

(* Start and Stop return.                                                  *)
RootReturns == tx.pc # "idle" ~> tx.pc = "idle"

(* Neither side of the rendezvous waits for the other for ever: the gate   *)
(* opens or its process ends, and the transaction returns.                 *)
ActivationEnds == GateResolves /\ RootReturns
=============================================================================
