--------------------------- MODULE DockerLifecycle ---------------------------
(* Starting and stopping the Docker profile: StartRichProcessesDocker and  *)
(* StopRichProcessesDocker (internal/connectedinstall), the transaction    *)
(* that brings up the Docker reader before the pair, and the gate of       *)
(* internal/connectedstartup that holds the reader before its first call   *)
(* of the engine.  The pair's own records and gate are module Activation;  *)
(* here it is two units that start, are compared and are cleaned up.  The  *)
(* service manager, the administrator and the engine, whose restart makes  *)
(* a new socket, are external.                                             *)
EXTENDS Naturals, Sequences

CONSTANTS
  MaxInstances,  \* bound: invocations the manager makes of one unit
  MaxCalls,      \* bound: calls of Start and Stop
  MaxAccidents,     \* bound: what happens to the units and the socket beside them
  MaxSockets,    \* bound: sockets the engine creates
  Nobody

VARIABLES
  worker,    \* the manager's view of each unit
  late,      \* units a failed start command left a job for, and its call
  socket,    \* the identity behind /run/docker.sock
  gate,      \* the reader's process
  records,   \* request.json, commit.json and the reader's response
  reported,  \* the invocation whose report is in the reader's status.json
  root,      \* the process that holds the installation lease
  returned,  \* what the last call returned
  calls,     \* calls of Start and Stop so far
  events,    \* what happened beside them so far
  mine,      \* history: the invocations the last call answers for
  audited    \* history: responses whose process passed both audits

processes == <<worker, late, gate>>
lifecycleVars == <<worker, late, socket, gate, records, reported, root, returned, calls,
                   events, mine, audited>>

DockerUnits == {"reader", "uploader", "collector"}
NoWorker == [inv |-> 0, active |-> "inactive"]
GateOff == [pc |-> "off", request |-> 0, challenge |-> 0, mounted |-> 0]
RootIdle == [pc |-> "idle", owned |-> [u \in DockerUnits |-> Nobody], failed |-> FALSE,
             socket |-> 0, response |-> Nobody, todo |-> <<>>, err |-> "none"]

Runs(u) == worker[u].active = "active"
Rests(u) == worker[u].active \in {"inactive", "failed"}

---------------------------------------------------------------------------
(* The service manager, the administrator and the engine (external).       *)

(* A launched reader has the socket of the moment bound into its view.     *)
Launched(u) ==
  /\ worker[u].inv < MaxInstances
  /\ worker' = [worker EXCEPT ![u] = [inv |-> worker[u].inv + 1, active |-> "active"]]
  /\ gate' = IF u = "reader" THEN [GateOff EXCEPT !.pc = "request", !.mounted = socket] ELSE gate

Ended(u, active) ==
  /\ worker' = [worker EXCEPT ![u].active = active]
  /\ gate' = IF u = "reader" THEN GateOff ELSE gate

Event == events < MaxAccidents /\ events' = events + 1

UnitStarts(u) ==
  /\ Rests(u) /\ Launched(u) /\ Event
  /\ UNCHANGED <<late, socket, records, reported, root, returned, calls, mine, audited>>

UnitEnds(u) ==
  /\ Runs(u) /\ (\E a \in {"inactive", "failed"} : Ended(u, a)) /\ Event
  /\ UNCHANGED <<late, socket, records, reported, root, returned, calls, mine, audited>>

(* The job of a start command that failed runs after all.                  *)
LateUnitStarts(u) ==
  /\ \E n \in 1 .. calls :
       /\ <<u, n>> \in late
       /\ late' = late \ {<<u, n>>}
       /\ Rests(u) /\ Launched(u)
       /\ mine' = IF n = calls THEN mine \union {<<u, worker[u].inv + 1>>} ELSE mine
  /\ Event
  /\ UNCHANGED <<socket, records, reported, root, returned, calls, audited>>

EngineRestarts ==
  /\ socket < MaxSockets
  /\ socket' = socket + 1 /\ Event
  /\ UNCHANGED <<processes, records, reported, root, returned, calls, mine, audited>>

---------------------------------------------------------------------------
(* The reader's gate, RunRichProcessesDockerReader.  A check that fails,   *)
(* a record that does not match and the deadline end the process, which is *)
(* UnitEnds.                                                               *)
GateElsewhere == UNCHANGED <<worker, late, socket, root, returned, calls, events, mine, audited>>

(* The challenge is drawn by the process: its invocation stands for it.    *)
ReaderReadsRequest ==
  /\ gate.pc = "request" /\ records.request # 0
  /\ gate' = [gate EXCEPT !.pc = "prove", !.request = records.request,
                          !.challenge = worker["reader"].inv]
  /\ GateElsewhere /\ UNCHANGED <<records, reported>>

GateResponse ==
  [request |-> gate.request, inv |-> worker["reader"].inv, challenge |-> gate.challenge]

(* Mutant: the response is enough. *)
rendezvousDockerReaderEarly ==
  /\ gate.pc = "prove"
  /\ records' = [records EXCEPT !.response = GateResponse]
  /\ gate' = [gate EXCEPT !.pc = "serve"]
  /\ GateElsewhere /\ UNCHANGED reported
(* rendezvousDockerReader: the probes close before the response is         *)
(* published, and the process waits for the commit of that response.       *)
rendezvousDockerReader ==
  /\ \/ /\ gate.pc = "prove"
        /\ records' = [records EXCEPT !.response = GateResponse]
        /\ gate' = [gate EXCEPT !.pc = "commit"]
     \/ /\ gate.pc = "commit" /\ records.commit = GateResponse
        /\ gate' = [gate EXCEPT !.pc = "serve"]
        /\ UNCHANGED records
  /\ GateElsewhere /\ UNCHANGED reported

(* One cycle of the engine: COLLECTING or SOURCE_UNAVAILABLE is reported.  *)
ReaderServes ==
  /\ gate.pc = "serve"
  /\ reported' = worker["reader"].inv
  /\ GateElsewhere /\ UNCHANGED <<gate, records>>

---------------------------------------------------------------------------
(* The root transaction.                                                   *)
Elsewhere == UNCHANGED <<late, socket, records, reported, calls, events, audited>>
At(phase) == root.pc = phase
Goes(phase) == root' = [root EXCEPT !.pc = phase]

sameDockerWorker(u) == /\ root.owned[u] # Nobody /\ worker[u] = root.owned[u]
                       /\ root.owned[u].active = "active"
sameDockerSocket == socket = root.socket

(* The cleanups a failure owes, in order: that of startDockerReaderWith,   *)
(* or those of activateStoppedWith and then of its caller, which was told  *)
(* of every unit but the one whose start failed.                           *)
Owed(owned, units) ==
  LET known == SelectSeq(units, LAMBDA u : owned[u] # Nobody)
  IN  [i \in DOMAIN known |-> <<known[i], owned[known[i]]>>]
ReaderPhases == {"pin", "clear", "start_reader", "inspect_reader", "audit", "request", "response",
                 "audit_again", "commit", "status"}
Cleanups(owned, failing) ==
  IF root.pc \in ReaderPhases THEN Owed(owned, <<"reader">>)
  ELSE Owed(owned, <<"uploader", "collector">>)
       \o Owed([u \in DockerUnits |-> IF u = failing THEN Nobody ELSE owned[u]], <<"uploader", "collector", "reader">>)
FailsWith(e) ==
  root' = [root EXCEPT !.pc = "clean", !.err = e, !.todo = Cleanups(root.owned, "none")]

(* StartRichProcessesDocker: the lease, the three units at rest, and the   *)
(* socket.  A refusal before that changes nothing.                         *)
StartRichProcessesDocker ==
  /\ root.pc = "idle" /\ calls < MaxCalls
  /\ \A u \in DockerUnits : Rests(u)
  /\ root' = [RootIdle EXCEPT !.pc = "pin", !.socket = socket]
  /\ calls' = calls + 1
  /\ returned' = "none" /\ mine' = {}
  /\ UNCHANGED <<processes, socket, records, reported, audited, events>>

(* pinDockerReaderActivation, after the unit was found at rest once more:  *)
(* the records of an earlier call are removed.                             *)
pinDockerReaderActivation ==
  /\ At("pin") /\ Rests("reader")
  /\ records' = [records EXCEPT !.request = 0, !.commit = Nobody]
  /\ Goes("clear")
  /\ UNCHANGED <<processes, socket, reported, returned, calls, mine, audited, events>>

clearDockerReaderResponse ==
  /\ At("clear")
  /\ records' = [records EXCEPT !.response = Nobody]
  /\ Goes("start_reader")
  /\ UNCHANGED <<processes, socket, reported, returned, calls, mine, audited, events>>

(* startActivationWorkerWith, the command and then its inspection.         *)
CommandStart(u, phase, next) ==
  /\ At(phase)
  /\ \E failed \in BOOLEAN :
       /\ root' = [root EXCEPT !.pc = next, !.failed = failed, !.owned[u] = NoWorker]
       /\ \/ /\ Rests(u) /\ Launched(u) /\ UNCHANGED late
             /\ mine' = mine \union {<<u, worker[u].inv + 1>>}
          \/ Runs(u) /\ UNCHANGED <<processes, mine>>
          \/ /\ failed /\ late' \in {late, late \union {<<u, calls>>}}
             /\ UNCHANGED <<worker, gate, mine>>
  /\ UNCHANGED <<socket, records, reported, returned, calls, audited, events>>

CommandInspect(u, phase, next) ==
  /\ At(phase)
  /\ \/ /\ ~root.failed /\ Runs(u)
        /\ root' = [root EXCEPT !.pc = next, !.owned[u] = worker[u]]
     \/ \E seen \in {NoWorker} \union (IF worker[u].inv = 0 THEN {} ELSE {worker[u]}) :
          LET owned == [root.owned EXCEPT ![u] = seen]
          IN  root' = [root EXCEPT !.pc = "clean", !.err = "recovery", !.owned = owned,
                                   !.todo = Cleanups(owned, u)]
  /\ UNCHANGED <<processes, mine, returned>> /\ Elsewhere

(* auditDockerReaderProcess: the process, its view and the socket in it,   *)
(* between two looks at the instance and at the socket.                    *)
auditDockerReaderProcess ==
  /\ sameDockerWorker("reader") /\ sameDockerSocket
  /\ gate.mounted = root.socket

AuditBeforeRequest ==
  /\ At("audit") /\ auditDockerReaderProcess
  /\ Goes("request")
  /\ UNCHANGED <<processes, mine, returned>> /\ Elsewhere

(* publishDockerReaderActivation may report a failure although the record  *)
(* is there.                                                               *)
publishDockerReaderActivation(published, next) ==
  /\ records' = published
  /\ (Goes(next) \/ FailsWith("recovery"))

(* The number of the call is its nonce.                                    *)
PublishRequest ==
  /\ At("request") /\ sameDockerWorker("reader") /\ sameDockerSocket
  /\ publishDockerReaderActivation([records EXCEPT !.request = calls], "response")
  /\ UNCHANGED <<processes, socket, reported, returned, calls, mine, audited, events>>

(* readDockerReaderResponse is matched with the request of this call and   *)
(* the instance it started.                                                *)
readDockerReaderResponse ==
  /\ records.response # Nobody
  /\ records.response.request = calls
  /\ records.response.inv = root.owned["reader"].inv

AwaitReaderResponse ==
  /\ At("response") /\ sameDockerWorker("reader") /\ sameDockerSocket
  /\ readDockerReaderResponse
  /\ root' = [root EXCEPT !.pc = "audit_again", !.response = records.response]
  /\ UNCHANGED <<processes, mine, returned>> /\ Elsewhere

AuditAfterResponse ==
  /\ At("audit_again") /\ auditDockerReaderProcess
  /\ audited' = audited \union {root.response}
  /\ Goes("commit")
  /\ UNCHANGED <<processes, socket, records, reported, returned, calls, mine, events>>

PublishReaderCommit ==
  /\ At("commit")
  /\ publishDockerReaderActivation([records EXCEPT !.commit = root.response], "status")
  /\ UNCHANGED <<processes, socket, reported, returned, calls, mine, audited, events>>

AwaitReaderStatus ==
  /\ At("status") /\ sameDockerWorker("reader") /\ sameDockerSocket
  /\ reported = root.owned["reader"].inv
  /\ Goes("pair")
  /\ UNCHANGED <<processes, mine, returned>> /\ Elsewhere

(* activateStoppedWith for the pair: both units at rest, the uploader, its *)
(* request (which compares the installed state and, wrapped, the reader),  *)
(* the collector, the final audit and the readiness of both.               *)
PairAtRest ==
  /\ At("pair") /\ Rests("uploader") /\ Rests("collector")
  /\ Goes("start_uploader")
  /\ UNCHANGED <<processes, mine, returned>> /\ Elsewhere

stillReader == sameDockerWorker("reader") /\ sameDockerSocket

(* The operations handed to the pair: what is installed does not change    *)
(* here, so the wrapped comparison is that of the reader.                  *)
dockerActivationOperations == stillReader

PairRequested ==
  /\ At("pair_request") /\ sameDockerWorker("uploader") /\ dockerActivationOperations
  /\ Goes("start_collector")
  /\ UNCHANGED <<processes, mine, returned>> /\ Elsewhere

PairAudited ==
  /\ At("pair_audit") /\ sameDockerWorker("uploader") /\ sameDockerWorker("collector")
  /\ dockerActivationOperations
  /\ Goes("pair_ready")
  /\ UNCHANGED <<processes, mine, returned>> /\ Elsewhere

PairReady ==
  /\ At("pair_ready") /\ sameDockerWorker("uploader") /\ sameDockerWorker("collector")
  /\ Goes("final")
  /\ UNCHANGED <<processes, mine, returned>> /\ Elsewhere

FinalReaderAudit ==
  /\ At("final") /\ stillReader
  /\ root' = RootIdle
  /\ returned' = "ok"
  /\ UNCHANGED <<processes, mine>> /\ Elsewhere

(* Any check that fails, and the deadlines.                                *)
CallFails ==
  /\ \/ /\ root.pc \in {"pin", "clear", "audit", "request", "response", "audit_again", "status", "pair",
                        "pair_request", "pair_audit", "pair_ready", "final"}
        /\ FailsWith("unsafe")
     \/ /\ root.pc \in {"pin", "clear", "request", "commit", "pair_request", "pair_ready"}
        /\ FailsWith("recovery")
  /\ UNCHANGED <<processes, mine, returned>> /\ Elsewhere

(* StopRichProcessesDocker: the three instances are captured, then stopped *)
(* one after the other.                                                    *)
StopRichProcessesDocker ==
  /\ root.pc = "idle" /\ calls < MaxCalls
  /\ \E u \in DockerUnits : Runs(u)
  /\ root' = [RootIdle EXCEPT !.pc = "clean",
                !.todo = Owed(worker, <<"uploader", "collector", "reader">>)]
  /\ returned' = "none"
  /\ mine' = {<<u, worker[u].inv>> : u \in {v \in DockerUnits : Runs(v)}}
  /\ calls' = calls + 1
  /\ UNCHANGED <<processes, socket, records, reported, audited, events>>

---------------------------------------------------------------------------
(* stopCapturedWorker for the first of the cleanups owed.                  *)
Unit == Head(root.todo)[1]
Want == Head(root.todo)[2]
CleanedOne(e) ==
  root' = [root EXCEPT !.pc = "clean", !.err = e, !.todo = Tail(root.todo)]

(* A unit at rest is done; an instance other than the captured one, or one *)
(* that cannot be inspected, is left alone and needs recovery.             *)
CleanUnit ==
  /\ At("clean") /\ root.todo # <<>>
  /\ \/ Rests(Unit) /\ CleanedOne(root.err)
     \/ CleanedOne("recovery")
     \/ Runs(Unit) /\ Want.inv = worker[Unit].inv /\ Goes("stop")
  /\ UNCHANGED <<processes, mine, returned>> /\ Elsewhere

StopUnit ==
  /\ At("stop")
  /\ \/ Runs(Unit) /\ Ended(Unit, "inactive") /\ Goes("join")
     \/ Rests(Unit) /\ Goes("join") /\ UNCHANGED <<worker, gate>>
     \/ CleanedOne("recovery") /\ UNCHANGED <<worker, gate>>
  /\ UNCHANGED <<mine, returned>> /\ Elsewhere

JoinUnit ==
  /\ At("join")
  /\ \/ worker[Unit].active = "inactive" /\ CleanedOne(root.err)
     \/ CleanedOne("recovery")
  /\ UNCHANGED <<processes, mine, returned>> /\ Elsewhere

(* The deferred functions are done: the call returns.                      *)
Returns ==
  /\ At("clean") /\ root.todo = <<>>
  /\ root' = RootIdle
  /\ returned' = IF root.err = "none" THEN "stopped" ELSE root.err
  /\ UNCHANGED <<processes, mine>> /\ Elsewhere

(* The installer is killed; its lease goes with it.                        *)
RootKilled ==
  /\ root.pc # "idle"
  /\ root' = RootIdle
  /\ returned' = "killed"
  /\ UNCHANGED <<processes, mine>> /\ Elsewhere

---------------------------------------------------------------------------
LifecycleInit ==
  /\ worker = [u \in DockerUnits |-> NoWorker]
  /\ late = {} /\ socket = 1 /\ gate = GateOff
  /\ records = [request |-> 0, commit |-> Nobody, response |-> Nobody]
  /\ reported = 0 /\ root = RootIdle /\ returned = "none" /\ calls = 0 /\ events = 0
  /\ mine = {} /\ audited = {}

LifecycleNext ==
  \/ \E u \in DockerUnits : UnitStarts(u) \/ UnitEnds(u) \/ LateUnitStarts(u)
  \/ EngineRestarts
  \/ ReaderReadsRequest \/ rendezvousDockerReader \/ ReaderServes
  \/ StartRichProcessesDocker \/ pinDockerReaderActivation \/ clearDockerReaderResponse
  \/ CommandStart("reader", "start_reader", "inspect_reader")
  \/ CommandInspect("reader", "inspect_reader", "audit")
  \/ AuditBeforeRequest \/ PublishRequest \/ AwaitReaderResponse
  \/ AuditAfterResponse \/ PublishReaderCommit \/ AwaitReaderStatus
  \/ PairAtRest
  \/ CommandStart("uploader", "start_uploader", "inspect_uploader")
  \/ CommandInspect("uploader", "inspect_uploader", "pair_request")
  \/ PairRequested
  \/ CommandStart("collector", "start_collector", "inspect_collector")
  \/ CommandInspect("collector", "inspect_collector", "pair_audit")
  \/ PairAudited \/ PairReady \/ FinalReaderAudit
  \/ CallFails \/ StopRichProcessesDocker
  \/ CleanUnit \/ StopUnit \/ JoinUnit \/ Returns \/ RootKilled

LifecycleSpec == LifecycleInit /\ [][LifecycleNext]_lifecycleVars

---------------------------------------------------------------------------
(* No call of the engine and no frame before the transaction that started  *)
(* this very process has audited it after its response, with the socket it *)
(* captured bound into the process's view: whatever records an earlier     *)
(* call left behind, whatever the administrator restarts in between        *)
(* (RunRichProcessesDockerReader, startDockerReaderWith).                  *)
ReaderWaitsForAudit ==
  gate.pc = "serve" =>
    \E r \in audited : r.inv = worker["reader"].inv /\ r.challenge = gate.challenge

(* A start that reports a plain refusal has left none of the workers it    *)
(* launched running, and a stop that reports success none of the ones it   *)
(* found: every other case asks for recovery, whoever else started or      *)
(* stopped the units meanwhile (stopCapturedWorker and its callers).       *)
RefusedStartLeavesNothing ==
  returned \in {"unsafe", "stopped"} =>
    \A u \in DockerUnits : Runs(u) => <<u, worker[u].inv>> \notin mine
===========================================================================
