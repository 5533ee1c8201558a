---------------------------- MODULE MCActivation ----------------------------
(* The life of an uploader: the installation that puts it on the host, the *)
(* activation that admits it and the loop it then runs.  Every behaviour   *)
(* belongs to one part and the others rest in their initial states; the    *)
(* variables of the installation are Off while it rests.                   *)
EXTENDS Activation, UploadLoop

CONSTANTS a, b, Calls, Profiles, Grants, Nothing, Off
VARIABLES part, installs, lease, targets, dir, owner, enroller, job, server

MCCallers == {a, b}

Install == INSTANCE Installer

ASSUME InstallAssumption == Install!InstallConstants

installVars == <<installs, lease, targets, dir, owner, enroller, job, server>>
InstallOff ==
  /\ installs = Off /\ lease = Off /\ targets = Off /\ dir = Off /\ owner = Off
  /\ enroller = Off /\ job = Off /\ server = Off

MCInit ==
  /\ Init /\ LoopInit
  /\ \/ part \in {"activation", "loop"} /\ InstallOff
     \/ part = "install" /\ Install!InstallInit
MCNext ==
  /\ UNCHANGED part
  /\ \/ part = "activation" /\ Next /\ UNCHANGED <<loopSpecVars, installVars>>
     \/ part = "loop" /\ LoopNext /\ UNCHANGED <<vars, installVars>>
     \/ part = "install" /\ Install!InstallNext /\ UNCHANGED <<vars, loopSpecVars>>

(* The fairness of each part, while it is the one that runs.               *)
MCFairness ==
  /\ WF_vars(part = "activation" /\ RootStep)
  /\ WF_vars(part = "activation" /\ (GateStep \/ GateExpires))
  /\ WF_loopSpecVars(part = "loop" /\ LoopStep)

MCSpec == MCInit /\ [][MCNext]_<<vars, loopSpecVars, installVars, part>> /\ MCFairness
-----------------------------------------------------------------------------
(* An installation that start and status accept is one call's throughout   *)
(* and names one connector the platform admitted, at every moment of the   *)
(* calls that make it (Install, absentTargets, promoteFiles).              *)
InstalledIsWhole == part = "install" => Install!InstalledIsWhole

(* The phase a failed install reports is true of what it left: a refusal   *)
(* left nothing, an incomplete local setup never let the grant leave the   *)
(* host (Install's phase, runEnrollmentForPair).                           *)
PhaseIsHonest == part = "install" => Install!PhaseIsHonest
=============================================================================
