------------------------------ MODULE Installer ------------------------------
(***************************************************************************)
(* Installing a connected observer (internal/connectedinstall and          *)
(* internal/connectedenroll).  A call of Install, InstallRichProcesses or  *)
(* InstallRichProcessesDocker takes the installation lease, refuses a host *)
(* that holds any of its targets, makes the targets one after another, and *)
(* runs three transient units: one that spends the operator's one-use      *)
(* grant, one that hands back the credential, one that checks the promoted *)
(* ledger.  A call can fail at every step, be killed at every step, and    *)
(* nothing is ever repaired or taken over: what a later call, or start,    *)
(* makes of the remains is the subject of the module.                      *)
(*                                                                         *)
(* A target is a directory, file, set of accounts or unit that a call      *)
(* makes; a target's entry says how far it got and which call made it.     *)
(* Identities are calls: call i's enrollment invents connector i.          *)
(***************************************************************************)
EXTENDS EnrollmentStore, Sequences, FiniteSets

CONSTANTS Calls,     \* install commands an operator runs, as numbers from 1
          Profiles,  \* the profiles they ask for, of "numeric", "rich", "docker"
          Grants,    \* the one-use enrollment grants
          Nothing

InstallConstants ==
  /\ Calls \subseteq Nat \ {0}
  /\ Profiles \subseteq {"numeric", "rich", "docker"}
  /\ Nothing \notin Grants

VARIABLES installs,    \* calls[i]: profile, grant, pc, step number, phase, ...
          lease,    \* the call holding the installation lease, or None
          targets,     \* what each target holds: how far it got, and who made it
          dir,      \* dir[root]: the enrollment directory of a state root
          owner,    \* owner[root]: whose the enrollment directory is
          enroller,     \* unit[p]: the running enrollment unit of a profile, or None
          job,      \* start requests that the service manager has yet to serve
          server    \* the platform: the grants spent and connectors admitted

installVars == <<installs, lease, targets, dir, owner, enroller, job, server>>

-----------------------------------------------------------------------------
(* What an installation consists of. *)

\* The rich and the Docker profile share their roots.
Root(p) == IF p = "numeric" THEN "numeric" ELSE "rich"
Roots == {Root(p) : p \in Profiles}

ConfigMembers(p) == {"preparing", "credentials", "config"}
                      \cup (IF p = "numeric" THEN {} ELSE {"policy"})
dockerDirectories == {"docker-frame", "reader-status", "reader-root"}
StateMembers(p) == {"handoff", "collector-status", "uploader-status", "enrollment",
                    "uploader-root", "ledger"}
                     \cup (IF p = "docker" THEN dockerDirectories ELSE {})

\* Targets named by the root they are under, and those named by the profile.
RootTargets == {"config-root", "state-root", "opt-root", "releases", "release", "bundle",
                "root-files", "credential", "preparing", "credentials", "config", "policy",
                "handoff", "collector-status", "uploader-status", "enrollment",
                "uploader-root", "ledger"} \cup dockerDirectories
ProfileTargets == {"principals", "collector-unit", "uploader-unit", "reader-unit"}

Place(p, t) == <<IF t \in RootTargets THEN Root(p) ELSE p, t>>
Places == (Roots \X RootTargets) \cup (Profiles \X ProfileTargets)
Absent == [at |-> "absent", by |-> NoConnector, conn |-> NoConnector]

Entry(p, t) == targets[Place(p, t)]
Made(p, t, i) == Entry(p, t).at = "done" /\ Entry(p, t).by = i

Make(t) == [op |-> "make", target |-> t]
Check(what) == [op |-> "check", target |-> what]
RunUnit(mode) == [op |-> "run", target |-> mode]
Makes(ts) == [n \in DOMAIN ts |-> Make(ts[n])]

\* The configuration directory and the record that an installation began, the state
\* root and the release tree.
CreateConfigDirectory == Makes(<<"config-root">>)
PublishPreparing == Makes(<<"preparing">>)
connectedstateroot == Makes(<<"state-root">>)
copyBundle == Makes(<<"release", "bundle">>)

createRichPrincipals == Makes(<<"principals">>) \o <<Check("principals")>>
createDockerPrincipals == createRichPrincipals

prepareRootFiles == Makes(<<"handoff", "collector-status", "uploader-status",
                            "enrollment", "uploader-root", "root-files">>)
prepareDockerRootFiles ==
  prepareRootFiles \o Makes(<<"docker-frame", "reader-status", "reader-root">>)

\* The enrollment directory becomes root's, then the credential is published and
\* the ledger moved beside it.
promoteFiles == <<Check("stage-owner")>> \o Makes(<<"credentials", "credential", "ledger">>)

InstallSteps ==
  CreateConfigDirectory \o PublishPreparing \o connectedstateroot
  \o Makes(<<"opt-root", "releases", "principals">>) \o copyBundle \o prepareRootFiles
  \o <<RunUnit("enroll"), Check("binding"), RunUnit("validate-enrollment")>> \o promoteFiles
  \o <<RunUnit("validate-ledger")>> \o Makes(<<"collector-unit", "uploader-unit">>)
  \o <<Check("units"), Make("config")>>

InstallRichSteps ==
  Makes(<<"config-root", "preparing", "state-root", "opt-root", "releases">>)
  \o createRichPrincipals \o copyBundle \o prepareRootFiles
  \o <<RunUnit("enroll"), Check("binding"), RunUnit("validate-enrollment")>> \o promoteFiles
  \o <<RunUnit("validate-ledger")>> \o Makes(<<"collector-unit", "uploader-unit">>)
  \o <<Check("units"), Make("policy"), Make("config")>>

InstallDockerSteps ==
  Makes(<<"config-root", "preparing", "state-root", "opt-root", "releases">>)
  \o createDockerPrincipals \o copyBundle \o prepareDockerRootFiles
  \o <<Check("socket"), RunUnit("enroll"), Check("binding"), RunUnit("validate-enrollment")>>
  \o promoteFiles \o <<RunUnit("validate-ledger")>>
  \o Makes(<<"collector-unit", "uploader-unit", "reader-unit">>)
  \o <<Check("units"), Check("socket"), Make("policy"), Make("config")>>

Steps(p) == CASE p = "numeric" -> InstallSteps
              [] p = "rich" -> InstallRichSteps
              [] OTHER -> InstallDockerSteps

Targets(p) == {Steps(p)[n].target : n \in {m \in DOMAIN Steps(p) : Steps(p)[m].op = "make"}}

\* The phase a call reports when it fails at a step: past the grant or before it.
FailurePhase(p, k) ==
  IF \E n \in 1..k : Steps(p)[n] = RunUnit("enroll")
  THEN "ENROLLMENT_RECOVERY_REQUIRED" ELSE "LOCAL_SETUP_INCOMPLETE"

-----------------------------------------------------------------------------
(* What makes a host fit for an installation, and an installation complete. *)

NoUnit(p) == enroller[p] = Nothing

absentTargets ==
  /\ \A t \in {"config-root", "state-root", "opt-root", "principals",
               "collector-unit", "uploader-unit"} : Entry("numeric", t) = Absent
  /\ NoUnit("numeric")

\* The retired root and the run directory, absent too, are never made here.
absentRichTargets(p) ==
  /\ \A t \in {"config-root", "state-root", "opt-root"} : Entry(p, t) = Absent
  /\ "rich" \in Profiles =>
       /\ \A t \in {"principals", "collector-unit", "uploader-unit"} : Entry("rich", t) = Absent
       /\ NoUnit("rich")

absentDockerTargets ==
  /\ absentRichTargets("docker")
  /\ \A t \in {"principals", "collector-unit", "uploader-unit", "reader-unit"} :
       Entry("docker", t) = Absent
  /\ NoUnit("docker")

absent(p) == CASE p = "numeric" -> absentTargets
               [] p = "rich" -> absentRichTargets("rich")
               [] OTHER -> absentDockerTargets

\* Every listed member is there in full; a half-written one has another name.
exactMembers(p, ts, within) ==
  \A t \in RootTargets \cap within : Entry(p, t).at = IF t \in ts THEN "done" ELSE "absent"

auditInstalledDirectories(p) ==
  \A t \in {"release", "handoff", "collector-status", "uploader-status", "uploader-root",
            "credentials", "ledger"} : Entry(p, t).at = "done"

auditInstalledRenderedFiles(p) ==
  \A t \in {"collector-unit", "uploader-unit", "root-files"} :
    Made(p, t, Entry(p, "config").by)

auditDockerInstalledDirectories(p) == \A t \in dockerDirectories : Entry(p, t).at = "done"

AllConfigMembers == {"preparing", "credentials", "config", "policy"}
AllStateMembers == StateMembers("docker")

\* The configuration of this profile loads, its directories hold exactly their
\* members, and the files that follow from it are as it would render them.
inspectInstalled(p) ==
  /\ Entry(p, "config").at = "done"
  /\ installs[Entry(p, "config").by].profile = p
  /\ exactMembers(p, ConfigMembers(p), AllConfigMembers)
  /\ exactMembers(p, StateMembers(p), AllStateMembers)
  /\ Made(p, "preparing", Entry(p, "config").by)
  /\ Made(p, "bundle", Entry(p, "config").by)
  /\ auditInstalledDirectories(p)
  /\ auditInstalledRenderedFiles(p)

inspectInstalledRichProcesses(p) ==
  inspectInstalled(p) /\ Made(p, "policy", Entry(p, "config").by)

inspectInstalledRichProcessesDocker(p) ==
  /\ inspectInstalledRichProcesses(p)
  /\ Made(p, "reader-unit", Entry(p, "config").by)
  /\ auditDockerInstalledDirectories(p)

StartAccepts(p) == CASE p = "numeric" -> inspectInstalled(p)
                  [] p = "rich" -> inspectInstalledRichProcesses(p)
                  [] OTHER -> inspectInstalledRichProcessesDocker(p)

-----------------------------------------------------------------------------
(* One call. *)

NewCall == [pc |-> "idle", profile |-> Nothing, grant |-> Nothing, k |-> 0, conn |-> NoConnector,
          exit |-> Nothing, err |-> Nothing, result |-> Nothing]

InstallInit ==
  /\ installs = [i \in Calls |-> NewCall]
  /\ lease = Nothing
  /\ targets = [x \in Places |-> Absent]
  /\ dir = [r \in Roots |-> <<>>]
  /\ owner = [r \in Roots |-> Nothing]
  /\ enroller = [p \in Profiles |-> Nothing]
  /\ job = [p \in Profiles |-> Nothing]
  /\ server = [spent |-> {}, admitted |-> {}]

Profile(i) == installs[i].profile
Step(i) == Steps(Profile(i))[installs[i].k]
AtStep(i, op) == installs[i].pc = "step" /\ Step(i).op = op

\* The call's deferred work: it reports the phase it failed in and releases the lease.
ReturnFrom(i, result) ==
  /\ installs' = [installs EXCEPT ![i] = [NewCall EXCEPT !.pc = "done", !.profile = Profile(i),
                                                 !.conn = installs[i].conn, !.result = result]]
  /\ lease' = IF lease = i THEN Nothing ELSE lease

Proceed(i, conn) ==
  IF installs[i].k = Len(Steps(Profile(i))) THEN ReturnFrom(i, "ok")
  ELSE /\ installs' = [installs EXCEPT ![i].pc = "step", ![i].k = @ + 1, ![i].conn = conn,
                                 ![i].exit = Nothing]
       /\ UNCHANGED lease

FailStep(i) == ReturnFrom(i, FailurePhase(Profile(i), installs[i].k))

CheckRequest(i) ==
  /\ installs[i].pc = "idle"
  /\ \E p \in Profiles, g \in Grants :
       installs' = [installs EXCEPT ![i].pc = "lease", ![i].profile = p, ![i].grant = g]
  /\ UNCHANGED <<lease, targets, dir, owner, enroller, job, server>>

Acquire(i) ==
  /\ installs[i].pc = "lease"
  /\ IF lease = Nothing
     THEN lease' = i /\ installs' = [installs EXCEPT ![i].pc = "preflight"]
     ELSE ReturnFrom(i, "PREFLIGHT_REFUSED")
  /\ UNCHANGED <<targets, dir, owner, enroller, job, server>>

\* The bundle, the host, the addresses and the parent slices are checked with the
\* lease held, then that no target exists.
preflight(i) ==
  /\ installs[i].pc = "preflight"
  /\ \/ ReturnFrom(i, "PREFLIGHT_REFUSED")
     \/ /\ absent(Profile(i))
        /\ installs' = [installs EXCEPT ![i].pc = "step", ![i].k = 1]
        /\ UNCHANGED lease
  /\ UNCHANGED <<targets, dir, owner, enroller, job, server>>

Put(i, t, at, conn) ==
  targets' = [targets EXCEPT ![Place(Profile(i), t)] = [at |-> at, by |-> i, conn |-> conn]]

\* Mutant of createTarget: the error of the credential's publication is lost.
CreateCredentialUnchecked(i, t, conn) ==
  \/ FailStep(i) /\ UNCHANGED targets
  \/ Proceed(i, installs[i].conn) /\ Put(i, t, "done", conn)
  \/ t = "credential" /\ Proceed(i, installs[i].conn) /\ Put(i, t, "partial", conn)

\* A directory is made in an absent name and its owner, mode and durability
\* settled after; a file is staged beside its name and renamed into it.  A failure
\* leaves nothing, a part, or the whole target; one that exists is never adopted.
createTarget(i, t, conn) ==
  IF Entry(Profile(i), t) # Absent THEN FailStep(i) /\ UNCHANGED targets
  ELSE \/ FailStep(i) /\ UNCHANGED targets
       \/ \E at \in {"partial", "done"} : FailStep(i) /\ Put(i, t, at, conn)
       \/ Proceed(i, installs[i].conn) /\ Put(i, t, "done", conn)

\* The connector a target names, of those that name one.
Binds(i, t) == IF t \in {"credential", "config", "policy"} THEN installs[i].conn ELSE NoConnector

MakeTarget(i) ==
  /\ AtStep(i, "make")
  /\ LET t == Step(i).target  r == Root(Profile(i)) IN
     /\ t # "ledger"
     /\ createTarget(i, t, Binds(i, t))
     /\ owner' = IF t = "enrollment" /\ Entry(Profile(i), t) = Absent
                 THEN [owner EXCEPT ![r] = "uploader"] ELSE owner
  /\ UNCHANGED <<dir, enroller, job, server>>

\* The ledger leaves the enrollment directory in one rename that replaces nothing;
\* an error of the syncs or of the inspection after it comes too late to undo it.
promoteLedger(i) ==
  /\ AtStep(i, "make") /\ Step(i).target = "ledger"
  /\ LET p == Profile(i)  r == Root(p) IN
     IF Entry(p, "ledger") # Absent \/ "ledger" \notin Entries(dir[r])
     THEN FailStep(i) /\ UNCHANGED <<targets, dir>>
     ELSE \/ FailStep(i) /\ UNCHANGED <<targets, dir>>
          \/ /\ Put(i, "ledger", "done", dir[r]["ledger"])
             /\ dir' = [dir EXCEPT ![r] = Restrict(@, Entries(@) \ {"ledger"})]
             /\ FailStep(i) \/ Proceed(i, installs[i].conn)
  /\ UNCHANGED <<owner, enroller, job, server>>

\* A check of the host that may refuse; taking over the enrollment directory needs
\* it, and the ledger in it, to be the uploader's.
CheckStep(i) ==
  /\ AtStep(i, "check")
  /\ LET r == Root(Profile(i))  stage == Step(i).target = "stage-owner" IN
     \/ FailStep(i) /\ UNCHANGED owner
     \/ /\ stage => owner[r] = "uploader" /\ "ledger" \in Entries(dir[r])
        /\ owner' = IF stage THEN [owner EXCEPT ![r] = "root"] ELSE owner
        /\ Proceed(i, installs[i].conn)
  /\ UNCHANGED <<targets, dir, enroller, job, server>>

-----------------------------------------------------------------------------
(* Running a transient unit: runEnrollmentForPair. *)

\* No unit of the name may be loaded; its start is requested from the manager.
runEnrollment(i) ==
  /\ AtStep(i, "run")
  /\ LET p == Profile(i) IN
     \/ /\ enroller[p] = Nothing
        /\ job' = [job EXCEPT ![p] = [by |-> i, mode |-> Step(i).target, pipe |-> "open",
                                      pc |-> "read", setup |-> NewSetup, fed |-> Nothing]]
        /\ installs' = [installs EXCEPT ![i].pc = "await"]
        /\ UNCHANGED lease
     \/ /\ ReturnFrom(i, IF Step(i).target = "enroll" THEN "LOCAL_SETUP_INCOMPLETE"
                     ELSE "ENROLLMENT_RECOVERY_REQUIRED")
        /\ UNCHANGED job
  /\ UNCHANGED <<targets, dir, owner, enroller, server>>

Mine(i) == enroller[Profile(i)] # Nothing /\ enroller[Profile(i)].by = i

\* The pipe's writing end closes: what was not yet written never will be.
ClosePipe(i) ==
  /\ enroller' = [p \in Profiles |->
                IF enroller[p] # Nothing /\ enroller[p].by = i /\ enroller[p].pipe = "open"
                THEN [enroller[p] EXCEPT !.pipe = "closed"] ELSE enroller[p]]
  /\ job' = [p \in Profiles |->
               IF job[p] # Nothing /\ job[p].by = i THEN [job[p] EXCEPT !.pipe = "closed"]
               ELSE job[p]]

\* The unit is seen active under the call's nonce with the policy expected of it;
\* only then is the input written.
awaitEnrollment(i) ==
  /\ installs[i].pc = "await"
  /\ LET p == Profile(i) IN
     \/ /\ Mine(i)
        /\ enroller' = [enroller EXCEPT ![p].pipe = "data",
                                ![p].fed = IF Step(i).target = "enroll" THEN installs[i].grant
                                           ELSE installs[i].conn]
        /\ installs' = [installs EXCEPT ![i].pc = "join"]
        /\ UNCHANGED job
     \/ /\ ClosePipe(i)
        /\ installs' = [installs EXCEPT ![i].pc = "stop", ![i].err = "unsafe"]
  /\ UNCHANGED <<lease, targets, dir, owner, server>>

Failed == NoConnector

\* The unit's exit, or the deadline.
joinEnrollment(i) ==
  /\ installs[i].pc = "join"
  /\ \/ /\ installs[i].exit # Nothing
        /\ installs[i].exit # Failed
        /\ Proceed(i, installs[i].exit)
     \/ /\ installs' = [installs EXCEPT ![i].pc = "stop", ![i].err = "recovery"]
        /\ UNCHANGED lease
  /\ UNCHANGED <<targets, dir, owner, enroller, job, server>>

\* Mutant of RunFailed: any unit that was stopped counts as one never fed.
RunFailedWhenStopped(i, stopped) ==
  ReturnFrom(i, IF Step(i).target = "enroll" /\ stopped
            THEN "LOCAL_SETUP_INCOMPLETE" ELSE "ENROLLMENT_RECOVERY_REQUIRED")

\* What the error of a run means: the grant was never written, or it may be spent.
RunFailed(i, stopped) ==
  ReturnFrom(i, IF Step(i).target = "enroll" /\ installs[i].err = "unsafe" /\ stopped
            THEN "LOCAL_SETUP_INCOMPLETE" ELSE "ENROLLMENT_RECOVERY_REQUIRED")

\* The unit's state is read before the stop; one that is gone needs none.
stopEnrollment(i) ==
  /\ installs[i].pc = "stop"
  /\ \/ enroller[Profile(i)] = Nothing /\ RunFailed(i, TRUE)
     \/ RunFailed(i, FALSE)
     \/ /\ Mine(i)
        /\ installs' = [installs EXCEPT ![i].pc = "kill"]
        /\ UNCHANGED lease
  /\ UNCHANGED <<targets, dir, owner, enroller, job, server>>

\* It is read again, stopped, and read once more; it may have been collected
\* meanwhile, and any of the three may fail.
stopOwned(i) ==
  /\ installs[i].pc = "kill"
  /\ LET p == Profile(i) IN
     \/ RunFailed(i, FALSE) /\ UNCHANGED enroller
     \/ /\ Mine(i) \/ enroller[p] = Nothing
        /\ enroller' = [enroller EXCEPT ![p] = Nothing]
        /\ RunFailed(i, TRUE)
  /\ UNCHANGED <<targets, dir, owner, job, server>>

\* The command is killed: its lease and its end of the pipe go with it.
Crash(i) ==
  /\ installs[i].pc \notin {"idle", "done", "dead"}
  /\ installs' = [installs EXCEPT ![i] = [NewCall EXCEPT !.pc = "dead", !.profile = Profile(i)]]
  /\ lease' = IF lease = i THEN Nothing ELSE lease
  /\ ClosePipe(i)
  /\ UNCHANGED <<targets, dir, owner, server>>

-----------------------------------------------------------------------------
(* The unit: connectedenroll's Run and its rich and Docker twins. *)

UnitIs(p, mode, pc) == enroller[p] # Nothing /\ enroller[p].mode = mode /\ enroller[p].pc = pc

\* The manager starts what was asked of it, whoever still waits.
ManagerStarts(p) ==
  /\ job[p] # Nothing
  /\ enroller[p] = Nothing
  /\ enroller' = [enroller EXCEPT ![p] = job[p]]
  /\ job' = [job EXCEPT ![p] = Nothing]
  /\ UNCHANGED <<installs, lease, targets, dir, owner, server>>

\* The process exits and is collected; a call that waits learns its status: Failed,
\* or the connector its output names.
Exit(p, status) ==
  /\ enroller' = [enroller EXCEPT ![p] = Nothing]
  /\ installs' = [installs EXCEPT ![enroller[p].by].exit =
                 IF installs[enroller[p].by].pc \in {"await", "join"} THEN status ELSE @]

Continue(p, pc) == enroller' = [enroller EXCEPT ![p].pc = pc] /\ UNCHANGED installs

\* The input is read to its end; without it nothing is opened.
input(p) ==
  /\ enroller[p] # Nothing /\ enroller[p].pc = "read" /\ enroller[p].pipe # "open"
  /\ \/ enroller[p].pipe = "data" /\ Continue(p, IF enroller[p].mode = "enroll" THEN "open" ELSE "check")
     \/ Exit(p, Failed)
  /\ UNCHANGED <<lease, targets, dir, owner, job, server>>

\* The enrollment directory is opened as a new one: its lock is made in it.
OpenNew(p) ==
  /\ UnitIs(p, "enroll", "open")
  /\ LET r == Root(p) IN
     IF owner[r] = "uploader" /\ open(dir[r], TRUE)
     THEN /\ dir' = [dir EXCEPT ![r] = With(@, "lock", NoConnector)]
          /\ Continue(p, "begin") \/ Exit(p, Failed)
     ELSE Exit(p, Failed) /\ UNCHANGED dir
  /\ UNCHANGED <<lease, targets, owner, job, server>>

\* One step of the setup by one of its outcomes; a failed one ends the process.
Setup(p, outcomes, pc) ==
  \E o \in outcomes :
    /\ dir' = [dir EXCEPT ![Root(p)] = o.dir]
    /\ IF o.setup.failed THEN Exit(p, Failed)
       ELSE /\ enroller' = [enroller EXCEPT ![p].setup = o.setup, ![p].pc = pc]
            /\ UNCHANGED installs
    /\ UNCHANGED <<lease, targets, owner, job, server>>

\* The attempt is recorded, under a connector just invented, before the grant leaves.
BeginAttempt(p) ==
  /\ UnitIs(p, "enroll", "begin")
  /\ Setup(p, Begin(dir[Root(p)], enroller[p].setup, enroller[p].by), "exchange")

\* One exchange, never retried.  The platform admits the connector for an unspent
\* grant, rejects a spent one, or turns the request away; an answer can be lost.
Exchange(p) ==
  /\ UnitIs(p, "enroll", "exchange")
  /\ LET g == enroller[p].fed  conn == enroller[p].setup.conn IN
     \/ /\ g \notin server.spent
        /\ server' = [spent |-> server.spent \cup {g},
                      admitted |-> server.admitted \cup {conn}]
        /\ Continue(p, "create") \/ Exit(p, Failed)
     \/ Exit(p, Failed) /\ UNCHANGED server
  /\ UNCHANGED <<lease, targets, dir, owner, job>>

CreateCredential(p) ==
  /\ UnitIs(p, "enroll", "create")
  /\ Setup(p, Create(dir[Root(p)], enroller[p].setup, enroller[p].setup.conn), "provision")

ProvisionLedger(p) ==
  /\ UnitIs(p, "enroll", "provision")
  /\ Setup(p, Provision(dir[Root(p)], enroller[p].setup, enroller[p].setup.conn), "ready")

MarkAttemptReady(p) ==
  /\ UnitIs(p, "enroll", "ready")
  /\ Setup(p, MarkReady(dir[Root(p)], enroller[p].setup, enroller[p].setup.conn), "report")

\* The connector is the enrollment's only output.
report(p) ==
  /\ UnitIs(p, "enroll", "report")
  /\ Exit(p, enroller[p].setup.conn)
  /\ UNCHANGED <<lease, targets, dir, owner, job, server>>

\* The finished enrollment of the connector asked for is opened; a rich one only
\* under the profile, of connector and accounts, that its ledger was provisioned for.
validateNumericEnrollment(conn) == openReady(dir["numeric"], conn)
validateRichProcessesEnrollment(conn) ==
  openReady(dir["rich"], conn) /\ installs[conn].profile = "rich"
validateRichProcessesDockerEnrollment(conn) ==
  openReady(dir["rich"], conn) /\ installs[conn].profile = "docker"

\* Its credential is written out.
validate(p) ==
  /\ UnitIs(p, "validate-enrollment", "check")
  /\ LET r == Root(p)  conn == enroller[p].fed IN
     \/ /\ owner[r] = "uploader"
        /\ CASE p = "numeric" -> validateNumericEnrollment(conn)
             [] p = "rich" -> validateRichProcessesEnrollment(conn)
             [] OTHER -> validateRichProcessesDockerEnrollment(conn)
        /\ Exit(p, dir[r]["credential"])
     \/ Exit(p, Failed)
  /\ UNCHANGED <<lease, targets, dir, owner, job, server>>

\* The promoted ledger must be this connector's, at zero, and of its profile.
validateNumericLedger(conn) == Entry("numeric", "ledger").conn = conn
validateRichProcessesLedger(conn) ==
  Entry("rich", "ledger").conn = conn /\ installs[conn].profile = "rich"
validateRichProcessesDockerLedger(conn) ==
  Entry("docker", "ledger").conn = conn /\ installs[conn].profile = "docker"

validateLedger(p) ==
  /\ UnitIs(p, "validate-ledger", "check")
  /\ \/ /\ Entry(p, "ledger").at = "done"
        /\ CASE p = "numeric" -> validateNumericLedger(enroller[p].fed)
             [] p = "rich" -> validateRichProcessesLedger(enroller[p].fed)
             [] OTHER -> validateRichProcessesDockerLedger(enroller[p].fed)
        /\ Exit(p, enroller[p].fed)
     \/ Exit(p, Failed)
  /\ UNCHANGED <<lease, targets, dir, owner, job, server>>

\* The unit is killed, by its deadline or from outside.
UnitDies(p) ==
  /\ enroller[p] # Nothing
  /\ Exit(p, Failed)
  /\ UNCHANGED <<lease, targets, dir, owner, job, server>>

Call(i) ==
  \/ CheckRequest(i) \/ Acquire(i) \/ preflight(i) \/ MakeTarget(i) \/ promoteLedger(i)
  \/ CheckStep(i) \/ runEnrollment(i) \/ awaitEnrollment(i) \/ joinEnrollment(i)
  \/ stopEnrollment(i) \/ stopOwned(i) \/ Crash(i)

\* The three programs take the same steps, each under its own profile.
Program(p) ==
  \/ input(p) \/ OpenNew(p) \/ BeginAttempt(p) \/ Exchange(p) \/ CreateCredential(p)
  \/ ProvisionLedger(p) \/ MarkAttemptReady(p) \/ report(p) \/ validate(p) \/ validateLedger(p)

Run(p) == p = "numeric" /\ Program(p)
RunRichProcesses(p) == p = "rich" /\ Program(p)
RunRichProcessesDocker(p) == p = "docker" /\ Program(p)

UnitStep(p) == ManagerStarts(p) \/ UnitDies(p) \/ Run(p) \/ RunRichProcesses(p)
             \/ RunRichProcessesDocker(p)

InstallNext == (\E i \in Calls : Call(i)) \/ (\E p \in Profiles : UnitStep(p))

InstallSpec == InstallInit /\ [][InstallNext]_installVars

-----------------------------------------------------------------------------

\* An installation that start and status accept is one call's from the first
\* directory to the last file, and its credential, ledger and configuration (and
\* policy) name one connector, which the platform admitted.  It holds at every
\* moment, since status inspects without the lease; and what a call reports as
\* installed is accepted.  (Install's order of publication and the refusals of
\* createDirectoryAt, publishFileAt, promoteFiles, absentTargets.)
InstalledIsWhole ==
  /\ \A p \in Profiles : StartAccepts(p) =>
       LET i == Entry(p, "config").by  conn == Entry(p, "config").conn IN
       /\ \A t \in Targets(p) : Made(p, t, i)
       /\ \A t \in {"credential", "ledger", "config", "policy"} \cap Targets(p) :
            Entry(p, t).conn = conn
       /\ conn \in server.admitted
  /\ \A i \in Calls : installs[i].result = "ok" => StartAccepts(Profile(i))

\* The phase of a failed call tells the operator the truth about what is left: a
\* refusal left nothing on the host, and an incomplete local setup never let the
\* grant leave it, not even through a unit that outlives the call.  (Install's
\* phase variable and the two errors of runEnrollmentForPair.)
PhaseIsHonest ==
  \A i \in Calls :
    /\ installs[i].result = "PREFLIGHT_REFUSED" => \A x \in Places : targets[x].by # i
    /\ installs[i].result = "LOCAL_SETUP_INCOMPLETE" => i \notin server.admitted

==============================================================================
