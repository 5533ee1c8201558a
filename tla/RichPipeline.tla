---------------------------- MODULE RichPipeline ----------------------------
(* The processes behind a rich upload: the Docker reader (internal/        *)
(* dockerreader), the rich collectors and the guarded rich uploaders under *)
(* cmd/, joined by two one-record slots (module SharedHandoff shows that a *)
(* slot is atomic to its users).  Consent is a policy file and a           *)
(* configuration that names its digest; root may replace the two, one      *)
(* after the other, while everything runs.  Every process binds itself to  *)
(* the policy it found when it started.                                    *)
(*                                                                         *)
(* A check and the operation it guards are one action: nothing but a check *)
(* reads the two files, so a change between them comes to the same as one  *)
(* after them.  Machine.Step (module UploadMachine) is taken without       *)
(* sequence numbers and storage faults.  A record that decodes is a valid  *)
(* snapshot, so ErrSnapshot does not come up.                              *)
EXTENDS Naturals

CONSTANTS
  Policies,     \* digests of the policies root may install
  Bound,        \* the policy that was enrolled: the ledger is bound to it
  FrameMaxAge,  \* sharedhandoff.DockerFrameMaxAge, in ticks
  MaxAge,       \* uploadstate.MaxAge, in ticks
  Window,       \* connectedstatus.FreshnessWindow, in ticks
  MaxTime,      \* bound: the clock stops here
  MaxStarts     \* bound: starts of processes

ASSUME PipelineAssumption == {FrameMaxAge, MaxAge, Window, MaxTime, MaxStarts} \subseteq Nat

VARIABLES
  clock,      \* the clock of the host; it does not go back
  profile,    \* "rich" (processes) or "docker" (processes and containers)
  config,     \* the policy digest in the configuration
  policy,     \* the policy file
  starts,     \* processes started so far
  reader,     \* [at, bound, observed]
  frame,      \* the slot between reader and collector
  collector,  \* [at, bound, collected, section]
  handoff,    \* the slot between collector and uploader
  uploader,   \* [at, bound, failed, retired, acked, body, out]
  ledger,     \* [pending, acked, stopped]
  sent,       \* the body on its way to the platform
  status      \* what the last Step reported: none until it does

consent == <<profile, config, policy>>
Start == starts < MaxStarts /\ starts' = starts + 1
docker == <<reader, frame>>
rich == <<collector, handoff>>
upload == <<uploader, ledger, sent, status>>
pvars == <<clock, starts, consent, docker, rich, upload>>

NoPolicy == "none"
NoSection == [observed |-> 0, policy |-> NoPolicy]
NoBody == [collected |-> 0, policy |-> NoPolicy, section |-> NoSection]
NoFrame == [produced |-> 0, policy |-> NoPolicy, observed |-> 0]

(* VerifyRichProcesses[Docker]Binding at a start: the configuration names  *)
(* the policy that is there.                                               *)
Verified == config = policy
Consented(p) == config = p /\ policy = p

Tick == clock < MaxTime /\ clock' = clock + 1 /\ UNCHANGED <<starts, consent, docker, rich, upload>>

(* Root replaces the policy or the configuration.                          *)
ReplacePolicy ==
  /\ \E p \in Policies \ {policy} : policy' = p
  /\ UNCHANGED <<clock, starts, profile, config, docker, rich, upload>>
ReplaceConfig ==
  /\ \E p \in Policies \ {config} : config' = p
  /\ UNCHANGED <<clock, starts, profile, policy, docker, rich, upload>>

-----------------------------------------------------------------------------
(* The Docker reader.                                                      *)
ReaderIdle == [reader EXCEPT !.at = "idle", !.observed = 0]
ReaderDown == [reader EXCEPT !.at = "down", !.observed = 0, !.bound = NoPolicy]
ReaderElsewhere == UNCHANGED <<clock, starts, consent, rich, upload>>

(* RunInstalled, up to its loop.                                           *)
RunInstalled ==
  /\ reader.at = "down" /\ profile = "docker" /\ Start
  /\ Verified
  /\ reader' = [reader EXCEPT !.at = "idle", !.bound = policy]
  /\ UNCHANGED <<clock, consent, frame, rich, upload>>

(* run: a guard, then the Engine is asked; 0 is no usable inventory.       *)
CollectContainers ==
  /\ reader.at = "idle"
  /\ IF Consented(reader.bound)
       THEN \E o \in {0, clock} : reader' = [reader EXCEPT !.at = "collected", !.observed = o]
       ELSE reader' = ReaderDown
  /\ ReaderElsewhere /\ UNCHANGED frame

(* freshDockerFrame, for a clock that does not go back.                    *)
freshDockerFrame(observed, produced) ==
  /\ clock <= produced + FrameMaxAge
  /\ observed # 0 => clock <= observed + FrameMaxAge

(* encodeDockerFrame: the section under the digest of the reader's policy. *)
encodeDockerFrame ==
  [produced |-> clock, policy |-> reader.bound, observed |-> reader.observed]

(* The guard again, and the frame; a frame that is stale already is        *)
(* refused by encodeDockerFrame and ends the reader.                       *)
PublishFrame ==
  /\ reader.at = "collected"
  /\ IF Consented(reader.bound) /\ freshDockerFrame(reader.observed, clock)
       THEN /\ frame' = encodeDockerFrame
            /\ reader' = ReaderIdle
       ELSE reader' = ReaderDown /\ UNCHANGED frame
  /\ ReaderElsewhere

(* A signal, a failed status write or a lost socket.                       *)
ReaderEnds ==
  /\ reader.at # "down" /\ reader' = ReaderDown
  /\ ReaderElsewhere /\ UNCHANGED frame

-----------------------------------------------------------------------------
(* The collectors.                                                         *)
CollectorDown ==
  [collector EXCEPT !.at = "down", !.bound = NoPolicy, !.collected = 0, !.section = NoSection]
CollectorElsewhere == UNCHANGED <<clock, starts, consent, docker, upload>>

(* run of the two collectors, up to the loop.                              *)
CollectorStarts ==
  /\ collector.at = "down" /\ Start
  /\ Verified
  /\ collector' = [collector EXCEPT !.at = "idle", !.bound = policy]
  /\ UNCHANGED <<clock, consent, docker, handoff, upload>>
RichCollectorStarts == profile = "rich" /\ CollectorStarts
DockerCollectorStarts == profile = "docker" /\ CollectorStarts

(* The check before a cycle, in the collector of processes alone and in the*)
(* one of processes and containers.                                        *)
currentConfig == Consented(collector.bound)
currentPolicy == Consented(collector.bound)

(* run: the check before the sensors are read.                             *)
CollectHost ==
  /\ collector.at = "idle"
  /\ collector' = IF IF profile = "docker" THEN currentPolicy ELSE currentConfig
       THEN [collector EXCEPT !.at = "collected", !.collected = clock]
       ELSE CollectorDown
  /\ CollectorElsewhere /\ UNCHANGED handoff

(* Mutant: the digest inside a frame is not compared. *)
decodeDockerFrameAny(f, p) == f.produced # 0
(* decodeDockerFrame: the frame is canonical for the policy of its reader. *)
decodeDockerFrame(f, p) == f.produced # 0 /\ f.policy = p

(* readContainers: a frame that is missing, foreign or stale is no         *)
(* containers; the collector without consent for them reads none.          *)
readContainers ==
  /\ collector.at = "collected"
  /\ collector' = [collector EXCEPT !.at = "joined", !.section =
       IF /\ profile = "docker" /\ decodeDockerFrame(frame, collector.bound)
          /\ freshDockerFrame(frame.observed, frame.produced) /\ frame.observed # 0
         THEN [observed |-> frame.observed, policy |-> frame.policy]
         ELSE NoSection]
  /\ CollectorElsewhere /\ UNCHANGED handoff

(* The second check: the Docker collector looks at both files again, the   *)
(* other at the policy only, against the configuration it started with.    *)
loadPolicy == policy = collector.bound

(* encodeDocker, encodeProcesses: one cycle in one body, and the envelope  *)
(* that names the policy of the writer.                                    *)
encodeProcesses == [collected |-> collector.collected, policy |-> collector.bound,
                    section |-> NoSection]
encodeDocker == [encodeProcesses EXCEPT !.section = collector.section]
PublishBody ==
  /\ collector.at = "joined"
  /\ IF IF profile = "docker" THEN currentPolicy ELSE loadPolicy
       THEN /\ handoff' = IF profile = "docker" THEN encodeDocker ELSE encodeProcesses
            /\ collector' = [CollectorDown EXCEPT !.at = "idle", !.bound = collector.bound]
       ELSE collector' = CollectorDown /\ UNCHANGED handoff
  /\ CollectorElsewhere

CollectorEnds ==
  /\ collector.at # "down" /\ collector' = CollectorDown
  /\ CollectorElsewhere /\ UNCHANGED handoff

-----------------------------------------------------------------------------
(* The uploaders: Machine.Step with every port behind the policy guard.    *)
Elsewhere == UNCHANGED <<clock, starts, consent, docker, rich>>

(* policyGuard.Check, in the two uploaders: a guard that refused once      *)
(* refuses until the process is started again.                             *)
RichCheck == ~uploader.failed /\ Consented(uploader.bound)
DockerCheck == ~uploader.failed /\ Consented(uploader.bound)
Check == IF profile = "docker" THEN DockerCheck ELSE RichCheck

Refused(out) == [uploader EXCEPT !.failed = TRUE, !.at = "return", !.out = out, !.body = NoBody]
Returning(out) == [uploader EXCEPT !.at = "return", !.out = out, !.body = NoBody]
Unwritten == UNCHANGED <<ledger, sent, status>>

(* run: the ledger opens only for the profile and policy it was made for.  *)
UploaderStarts ==
  /\ uploader.at = "down" /\ Start
  /\ Verified /\ policy = Bound
  /\ uploader' = [uploader EXCEPT !.at = "idle", !.bound = policy, !.failed = FALSE,
                                 !.acked = FALSE]
  /\ status' = "none"
  /\ UNCHANGED <<clock, consent, docker, rich, ledger, sent>>
RichUploaderStarts == profile = "rich" /\ UploaderStarts
DockerUploaderStarts == profile = "docker" /\ UploaderStarts

CollectionTime(b) == b.collected
Expired(b) == clock > CollectionTime(b) + MaxAge

(* observedStepper.Step, the guarded Load and the start of Machine.Step.   *)
StepBegins ==
  /\ uploader.at = "idle"
  /\ uploader' =
       IF ~Check THEN Refused("ErrRecovery")
       ELSE IF ledger.stopped # "none" THEN Returning(ledger.stopped)
       ELSE [uploader EXCEPT !.retired = FALSE,
                             !.at = IF ledger.pending = NoBody THEN "read"
                                    ELSE IF Expired(ledger.pending) THEN "retire" ELSE "send"]
  /\ status' = "none"
  /\ Elsewhere /\ UNCHANGED <<ledger, sent>>

(* Mutant: a commit that retires what expired is not asked for consent. *)
CommitUngated(next, then) ==
  /\ ledger' = next /\ uploader' = then
(* guardedLedger.Commit: no consent, no change.                            *)
Commit(next, then) ==
  IF Check
    THEN ledger' = next /\ uploader' = then
    ELSE uploader' = Refused("ErrRecovery") /\ UNCHANGED ledger

RetirePending ==
  /\ uploader.at = "retire"
  /\ Commit([ledger EXCEPT !.pending = NoBody],
            [uploader EXCEPT !.retired = TRUE, !.at = "read"])
  /\ Elsewhere /\ UNCHANGED <<sent, status>>

(* A record is canonical only for the policy of its reader.                *)
decodeRichProcesses(h) == h # NoBody /\ h.policy = uploader.bound
decodeRichProcessesDocker(h) == h # NoBody /\ h.policy = uploader.bound
Decodes(h) ==
  IF profile = "docker" THEN decodeRichProcessesDocker(h) ELSE decodeRichProcesses(h)

(* guardedSource.Read: a check before and one after the slot is read.      *)
SourceError == IF uploader.retired THEN "EXPIRED" ELSE "SOURCE_UNAVAILABLE"
ReadSource ==
  /\ uploader.at = "read"
  /\ uploader' =
       IF ~Check THEN Refused(SourceError)
       ELSE IF Decodes(handoff) THEN [uploader EXCEPT !.at = "checkRead", !.body = handoff]
       ELSE [uploader EXCEPT !.at = "checkRead"]
  /\ Elsewhere /\ Unwritten
CheckRead ==
  /\ uploader.at = "checkRead"
  /\ uploader' =
       IF ~Check THEN Refused(SourceError)
       ELSE IF uploader.body = NoBody THEN Returning(SourceError)
       ELSE IF Expired(uploader.body) THEN Returning("EXPIRED")
       ELSE IF uploader.body = ledger.acked THEN Returning("IDLE")
       ELSE [uploader EXCEPT !.at = "admit"]
  /\ Elsewhere /\ Unwritten
Admit ==
  /\ uploader.at = "admit"
  /\ Commit([ledger EXCEPT !.pending = uploader.body],
            [uploader EXCEPT !.at = "send", !.body = NoBody])
  /\ Elsewhere /\ UNCHANGED <<sent, status>>

(* credentialSource.Credential: the guard is asked again for the secret.   *)
Credential == Check

(* observedTransport.Send: an error of it is a reason to retry for the     *)
(* machine.                                                                *)
Send ==
  /\ uploader.at = "send"
  /\ \/ Expired(ledger.pending) /\ uploader' = Returning("EXPIRED") /\ UNCHANGED sent
     \/ /\ ~Expired(ledger.pending) /\ ~(Check /\ Credential)
        /\ uploader' = Refused("RETRY") /\ UNCHANGED sent
     \/ /\ ~Expired(ledger.pending) /\ Check /\ Credential
        /\ uploader' = [uploader EXCEPT !.at = "await"] /\ sent' = ledger.pending
  /\ Elsewhere /\ UNCHANGED <<ledger, status>>

Acknowledge ==
  /\ uploader.at = "await"
  /\ Commit([ledger EXCEPT !.pending = NoBody, !.acked = ledger.pending],
            [Returning("ACKNOWLEDGED") EXCEPT !.acked = TRUE])
  /\ Elsewhere /\ UNCHANGED <<sent, status>>
Reject ==
  /\ uploader.at = "await"
  /\ \E o \in {"CREDENTIAL_REJECTED", "CONFLICT"} :
       Commit([ledger EXCEPT !.stopped = o], Returning(o))
  /\ Elsewhere /\ UNCHANGED <<sent, status>>
NoAnswer ==
  /\ uploader.at = "await"
  /\ \E o \in {"RETRY", "RATE_LIMITED"} : uploader' = Returning(o)
  /\ Elsewhere /\ Unwritten

(* freshness.                                                              *)
freshness(collected) ==
  IF clock <= collected + Window THEN "ACKNOWLEDGED_FRESH" ELSE "ACKNOWLEDGED_STALE"
(* observedStepper.Step: a guard that failed overrides what was returned.  *)
StepState ==
  IF uploader.failed THEN "RECOVERY_REQUIRED"
  ELSE CASE uploader.out = "ACKNOWLEDGED" -> freshness(ledger.acked.collected)
         [] uploader.out = "IDLE" ->
              IF uploader.acked THEN freshness(ledger.acked.collected) ELSE "WAITING_FIRST_UPLOAD"
         [] uploader.out = "RETRY" -> "RETRYING"
         [] uploader.out = "EXPIRED" -> "SOURCE_UNAVAILABLE"
         [] uploader.out \in {"ErrRecovery", "CONFLICT"} -> "RECOVERY_REQUIRED"
         [] OTHER -> uploader.out

UploaderDown ==
  [uploader EXCEPT !.at = "down", !.out = "none", !.body = NoBody, !.retired = FALSE]
StepReturns ==
  /\ uploader.at = "return"
  /\ status' = StepState
  /\ uploader' = IF uploader.failed
                    \/ uploader.out \in {"ErrRecovery", "CONFLICT", "CREDENTIAL_REJECTED"}
                   THEN UploaderDown
                   ELSE [UploaderDown EXCEPT !.at = "idle"]
  /\ sent' = NoBody
  /\ Elsewhere /\ UNCHANGED ledger
(* The process is killed, or its status cannot be written: the step at     *)
(* hand reports nothing.  A signal is reported as STOPPED, also over what  *)
(* the step has just reported (run, finishUpload).                         *)
UploaderEnds ==
  /\ uploader.at # "down"
  /\ uploader' = UploaderDown /\ sent' = NoBody
  /\ status' \in {IF uploader.at = "idle" THEN status ELSE "none", "STOPPED"}
  /\ Elsewhere /\ UNCHANGED ledger

-----------------------------------------------------------------------------
PipelineInit ==
  /\ clock = 1 /\ profile \in {"rich", "docker"}
  /\ config = Bound /\ policy = Bound /\ starts = 0
  /\ reader = [at |-> "down", bound |-> NoPolicy, observed |-> 0]
  /\ frame = NoFrame
  /\ collector = [at |-> "down", bound |-> NoPolicy, collected |-> 0,
                  section |-> NoSection]
  /\ handoff = NoBody
  /\ uploader = [at |-> "down", bound |-> NoPolicy, failed |-> FALSE, retired |-> FALSE,
                 acked |-> FALSE, body |-> NoBody, out |-> "none"]
  /\ ledger = [pending |-> NoBody, acked |-> NoBody, stopped |-> "none"]
  /\ sent = NoBody
  /\ status = "none"

PipelineNext ==
  \/ Tick \/ ReplacePolicy \/ ReplaceConfig
  \/ RunInstalled \/ CollectContainers \/ PublishFrame \/ ReaderEnds
  \/ RichCollectorStarts \/ DockerCollectorStarts \/ CollectHost \/ readContainers
  \/ PublishBody \/ CollectorEnds
  \/ RichUploaderStarts \/ DockerUploaderStarts \/ StepBegins \/ RetirePending
  \/ ReadSource \/ CheckRead \/ Admit \/ Send \/ Acknowledge \/ Reject \/ NoAnswer \/ StepReturns \/ UploaderEnds

PipelineSpec == PipelineInit /\ [][PipelineNext]_pvars

-----------------------------------------------------------------------------
(* decodeDockerFrame, decodeRichProcesses[Docker] and the ledger's profile *)
(* binding: whatever root installs and takes back while the processes come *)
(* and go, a body that is sent was collected under the enrolled policy, and*)
(* so were the containers in it, no more than DockerFrameMaxAge before it. *)
SentIsConsented ==
  sent # NoBody =>
    /\ sent.policy = Bound
    /\ sent.section # NoSection =>
         sent.section.policy = Bound /\ sent.collected <= sent.section.observed + FrameMaxAge

(* policyGuard: what is pending is neither sent, dropped nor replaced      *)
(* without consent, nor after a refusal the process has once met ("no      *)
(* consent refusal may be translated into dropping pending data").         *)
ConsentGates ==
  [][ledger' # ledger \/ sent' \notin {sent, NoBody} => ~uploader.failed /\ Consented(Bound)]_pvars

(* observedStepper.Step: an uploader that met a refusal never takes        *)
(* another step, and does not hide it behind what the machine returned: it *)
(* reports RECOVERY_REQUIRED, or STOPPED when it was told to stop during   *)
(* that step, or died before it reported.                                  *)
RefusalIsReported ==
  uploader.failed /\ uploader.at \in {"down", "idle"} =>
    status \in {"RECOVERY_REQUIRED", "STOPPED", "none"} /\ uploader.at = "down"

(* Both, as one invariant of the three processes (policyGuard.Check).      *)
ConsentIsKept == SentIsConsented /\ RefusalIsReported
=============================================================================
