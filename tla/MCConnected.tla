---------------------------- MODULE MCConnected ----------------------------
(* A connected installation on its host: its pair and its Docker reader    *)
(* are started and stopped, an operator asks for their status, a change of *)
(* the installation is prepared.  Every behaviour belongs to one part.     *)
(* Meanwhile the pair and its status rest in an initial state; the         *)
(* variables of the other two are Off while they rest.                     *)
EXTENDS Activation, PairStatus

CONSTANTS
  MaxInstances, MaxCalls, MaxAccidents, MaxSockets, Nobody,
  Off

VARIABLES
  part,
  worker, late, socket, gate, records, reported, root, returned, calls, events, mine, audited,
  installed, visible, loose, durable, operation, prepared, published

Docker == INSTANCE DockerLifecycle
Stage == INSTANCE TransitionStage

dockerVars ==
  <<worker, late, socket, gate, records, reported, root, returned, calls, events, mine, audited>>
stageVars == <<installed, visible, loose, durable, operation, prepared, published>>

DockerOff ==
  /\ worker = Off /\ late = Off /\ socket = Off /\ gate = Off /\ records = Off
  /\ reported = Off /\ root = Off /\ returned = Off /\ calls = Off /\ events = Off
  /\ mine = Off /\ audited = Off
StageOff ==
  /\ installed = Off /\ visible = Off /\ loose = Off /\ durable = Off /\ operation = Off
  /\ prepared = Off /\ published = Off

(* A call of ReadStatus is interrupted once more when there is no third    *)
(* worker to look at; with one, the other two end without a failure, which *)
(* the reader alone then shows.                                            *)
Interruptions == IF docker THEN MaxEvents - 1 ELSE MaxEvents
StatusStep ==
  /\ StatusNext /\ query'.events <= Interruptions
  /\ docker => \A u \in {"collector", "uploader"} : manager'[u].active # "failed"

MCInit ==
  /\ Init /\ StatusInit
  /\ \/ part = "pair" /\ ~docker /\ DockerOff /\ StageOff
     \/ part = "status" /\ DockerOff /\ StageOff
     \/ part = "docker" /\ ~docker /\ Docker!LifecycleInit /\ StageOff
     \/ part = "stage" /\ ~docker /\ Stage!StageInit /\ DockerOff

MCNext ==
  /\ UNCHANGED part
  /\ \/ part = "pair" /\ Next /\ UNCHANGED <<statusVars, dockerVars, stageVars>>
     \/ part = "status" /\ StatusStep /\ UNCHANGED <<vars, dockerVars, stageVars>>
     \/ part = "docker" /\ Docker!LifecycleNext /\ UNCHANGED <<vars, statusVars, stageVars>>
     \/ part = "stage" /\ Stage!StageNext /\ UNCHANGED <<vars, statusVars, dockerVars>>

MCSpec == MCInit /\ [][MCNext]_<<part, vars, statusVars, dockerVars, stageVars>>
-----------------------------------------------------------------------------
(* The Docker reader makes no call of the engine before the transaction    *)
(* that started this very process has audited it; a start with a reader    *)
(* that is refused has left none of the three workers it launched running, *)
(* a stop that succeeded none it found (RunRichProcessesDockerReader,      *)
(* startDockerReaderWith, stopCapturedWorker and its callers).             *)
DockerStartIsSafe ==
  part = "docker" => Docker!ReaderWaitsForAudit /\ Docker!RefusedStartLeavesNothing

(* After a loss of power at any moment of staging a change the files are   *)
(* in a phase ClassifyStaged knows, and in forward recovery once the       *)
(* journal was reported (PublishAt, PublishFirstJournalAt).                *)
SurvivesPowerLoss == part = "stage" => Stage!SurvivesPowerLoss
=============================================================================
