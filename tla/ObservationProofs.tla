------------------------- MODULE ObservationProofs -------------------------
(* Proofs about RichPipeline, for every set of policies, every age limit   *)
(* and any number of starts and replacements, and about SharedHandoff, the *)
(* slot its bodies are handed over in, for any number of records,          *)
(* restarts, failures and reads.                                           *)
EXTENDS RichPipeline, SharedHandoff, FiniteSetTheorems, TLAPS

-----------------------------------------------------------------------------
(* The rich pipeline: its inductive invariant, part by part.               *)
Digests == Policies \union {Bound, NoPolicy}
Sections == [observed : Nat, policy : Digests]
Bodies == [collected : Nat, policy : Digests, section : Sections]
Stops == {"none", "CREDENTIAL_REJECTED", "CONFLICT"}
Outcomes ==
  Stops \union {"ErrRecovery", "EXPIRED", "SOURCE_UNAVAILABLE", "IDLE", "RETRY", "RATE_LIMITED",
                "ACKNOWLEDGED"}

Readers == [at : {"down", "idle", "collected"}, bound : Digests, observed : Nat]
Frames == [produced : Nat, policy : Digests, observed : Nat]
Collectors ==
  [at : {"down", "idle", "collected", "joined"}, bound : Digests, collected : Nat,
   section : Sections]
Uploaders ==
  [at : {"down", "idle", "retire", "read", "checkRead", "admit", "send", "await", "return"},
   bound : Digests, failed : BOOLEAN, retired : BOOLEAN, acked : BOOLEAN, body : Bodies,
   out : Outcomes]
Ledgers == [pending : Bodies, acked : Bodies, stopped : Stops]

PipelineTypes ==
  /\ clock \in Nat /\ profile \in {"rich", "docker"}
  /\ config \in Digests /\ policy \in Digests
  /\ reader \in Readers /\ frame \in Frames
  /\ collector \in Collectors /\ handoff \in Bodies
  /\ uploader \in Uploaders /\ ledger \in Ledgers /\ sent \in Bodies

(* A section is of the policy of its body and was fresh when the host was  *)
(* collected.                                                              *)
SoundSection(collected, bound, section) ==
  section # NoSection =>
    section.policy = bound /\ collected <= section.observed + FrameMaxAge

(* What a collector is about to publish, and what it left in the slot.     *)
CollectedIsSound ==
  /\ collector.collected <= clock
  /\ collector.at = "joined" =>
       SoundSection(collector.collected, collector.bound, collector.section)
  /\ SoundSection(handoff.collected, handoff.policy, handoff.section)

(* What an uploader took from it, keeps and sends is the enrolled policy's.*)
Enrolled(b) == b # NoBody => b.policy = Bound /\ SoundSection(b.collected, b.policy, b.section)
UploadIsEnrolled == Enrolled(uploader.body) /\ Enrolled(ledger.pending) /\ Enrolled(sent)

(* A running uploader is bound to the enrolled policy, and one that met a  *)
(* refusal is on its way out or gone, with the refusal reported.           *)
UploaderIsBound ==
  /\ uploader.at # "down" => uploader.bound = Bound
  /\ uploader.failed => uploader.at \in {"return", "down"}
  /\ uploader.failed /\ uploader.at = "down" => status \in {"RECOVERY_REQUIRED", "STOPPED", "none"}

PipelineInvariant == PipelineTypes /\ CollectedIsSound /\ UploadIsEnrolled /\ UploaderIsBound

-----------------------------------------------------------------------------
(* NoSection, NoBody and NoFrame are values of their types.                *)
LEMMA Blanks ==
  /\ NoSection \in Sections /\ NoBody \in Bodies
  /\ NoFrame \in Frames /\ NoPolicy \in Digests
  /\ NoBody.section = NoSection
  BY DEF NoSection, NoBody, NoFrame, Sections, Bodies, Digests, Frames

LEMMA PipelineInitially == PipelineInit => PipelineInvariant
  <1> SUFFICES ASSUME PipelineInit PROVE PipelineInvariant
    OBVIOUS
  <1>1. PipelineTypes
    BY Blanks DEF PipelineInit, PipelineTypes, Digests, Outcomes, Stops, Readers, Collectors, Uploaders, Ledgers
  <1>2. CollectedIsSound
    BY Blanks DEF PipelineInit, CollectedIsSound, SoundSection
  <1>3. UploadIsEnrolled /\ UploaderIsBound
    BY DEF PipelineInit, UploadIsEnrolled, Enrolled, UploaderIsBound
  <1> QED
    BY <1>1, <1>2, <1>3 DEF PipelineInvariant

(* The clock, root and the Docker reader touch nothing of the collector    *)
(* and the uploader.                                                       *)
HostStep ==
  \/ Tick \/ ReplacePolicy \/ ReplaceConfig
  \/ RunInstalled \/ CollectContainers \/ PublishFrame \/ ReaderEnds

LEMMA HostKeepsInvariant ==
  ASSUME PipelineInvariant, HostStep
  PROVE  PipelineInvariant'
  <1>1. UNCHANGED <<rich, upload, profile>> /\ clock' \in Nat /\ clock <= clock'
    BY PipelineAssumption DEF PipelineInvariant, PipelineTypes, HostStep, Tick, ReplacePolicy, ReplaceConfig, RunInstalled, CollectContainers,
      PublishFrame, ReaderEnds, ReaderElsewhere, consent, rich, upload
  <1>2. config' \in Digests /\ policy' \in Digests
    BY DEF PipelineInvariant, PipelineTypes, HostStep, Tick, ReplacePolicy, ReplaceConfig, RunInstalled, CollectContainers,
      PublishFrame, ReaderEnds, ReaderElsewhere, consent, Digests
  <1>3. reader' \in Readers /\ frame' \in Frames
    <2>1. reader \in Readers /\ frame \in Frames /\ clock \in Nat /\ policy \in Digests
      BY DEF PipelineInvariant, PipelineTypes
    <2>2. ReaderDown \in Readers /\ ReaderIdle \in Readers /\ encodeDockerFrame \in Frames
      BY <2>1, Blanks, Zenon DEF ReaderDown, ReaderIdle, encodeDockerFrame, Readers, Frames
    <2>3. CASE Tick \/ ReplacePolicy \/ ReplaceConfig
      BY <2>1, <2>3 DEF Tick, ReplacePolicy, ReplaceConfig, docker
    <2>4. CASE RunInstalled
      BY <2>1, <2>4, Zenon DEF RunInstalled, Readers
    <2>5. CASE CollectContainers
      <3>1. \A o \in Nat : [reader EXCEPT !.at = "collected", !.observed = o] \in Readers
        BY <2>1, Zenon DEF Readers
      <3>2. {0, clock} \subseteq Nat
        BY <2>1
      <3> QED
        BY <2>1, <2>2, <2>5, <3>1, <3>2, Zenon DEF CollectContainers
    <2>6. CASE PublishFrame \/ ReaderEnds
      BY <2>1, <2>2, <2>6 DEF PublishFrame, ReaderEnds
    <2> QED
      BY <2>3, <2>4, <2>5, <2>6 DEF HostStep
  <1>4. PipelineTypes'
    BY <1>1, <1>2, <1>3 DEF PipelineInvariant, PipelineTypes, rich, upload
  <1>5. CollectedIsSound'
    <2>1. collector' = collector /\ handoff' = handoff
      BY <1>1 DEF rich
    <2>2. CollectedIsSound /\ clock \in Nat /\ collector.collected \in Nat
      BY DEF PipelineInvariant, PipelineTypes, Collectors
    <2>3. collector.collected <= clock'
      BY <1>1, <2>2 DEF CollectedIsSound
    <2> QED
      BY <2>1, <2>2, <2>3 DEF CollectedIsSound, SoundSection
  <1>6. UploadIsEnrolled' /\ UploaderIsBound'
    BY <1>1 DEF PipelineInvariant, UploadIsEnrolled, UploaderIsBound, Enrolled, SoundSection, upload
  <1> QED
    BY <1>4, <1>5, <1>6 DEF PipelineInvariant

-----------------------------------------------------------------------------
(* The collectors.                                                         *)
CollectorStep ==
  \/ RichCollectorStarts \/ DockerCollectorStarts \/ CollectHost \/ readContainers
  \/ PublishBody \/ CollectorEnds

LEMMA CollectorKeepsTypes ==
  ASSUME PipelineInvariant, CollectorStep
  PROVE  PipelineTypes'
  <1>1. UNCHANGED <<clock, consent, docker, upload>>
    BY DEF CollectorStep, RichCollectorStarts, DockerCollectorStarts, CollectorStarts, CollectHost,
      readContainers, PublishBody, CollectorEnds, CollectorElsewhere
  <1>2. collector' \in Collectors /\ handoff' \in Bodies
    <2>1. /\ collector \in Collectors /\ handoff \in Bodies /\ frame \in Frames
          /\ clock \in Nat /\ policy \in Digests
      BY DEF PipelineInvariant, PipelineTypes
    <2>2. CollectorDown \in Collectors
      BY <2>1, Blanks, Zenon DEF CollectorDown, Collectors
    <2>3. CASE RichCollectorStarts \/ DockerCollectorStarts
      BY <2>1, <2>3, Zenon DEF RichCollectorStarts, DockerCollectorStarts, CollectorStarts, Collectors
    <2>4. CASE CollectHost \/ CollectorEnds
      <3>1. [collector EXCEPT !.at = "collected", !.collected = clock] \in Collectors
        BY <2>1, Zenon DEF Collectors
      <3> QED
        BY <2>1, <2>2, <2>4, <3>1 DEF CollectHost, CollectorEnds
    <2>5. CASE readContainers
      <3>1. [observed |-> frame.observed, policy |-> frame.policy] \in Sections
        BY <2>1 DEF Frames, Sections
      <3>2. \A x \in Sections : [collector EXCEPT !.at = "joined", !.section = x] \in Collectors
        BY <2>1, Zenon DEF Collectors
      <3> QED
        BY <2>1, <2>5, <3>1, <3>2, Blanks, Zenon DEF readContainers
    <2>6. CASE PublishBody
      <3>1. encodeProcesses \in Bodies /\ encodeDocker \in Bodies
        BY <2>1, Blanks DEF encodeDocker, encodeProcesses, Collectors, Bodies
      <3>2. [CollectorDown EXCEPT !.at = "idle", !.bound = collector.bound] \in Collectors
        BY <2>1, <2>2, Zenon DEF Collectors
      <3> QED
        BY <2>1, <2>2, <2>6, <3>1, <3>2 DEF PublishBody
    <2> QED
      BY <2>3, <2>4, <2>5, <2>6 DEF CollectorStep
  <1> QED
    BY <1>1, <1>2 DEF PipelineInvariant, PipelineTypes, consent, docker, upload

(* A frame that is taken up is of the collector's own policy and is not    *)
(* older than it may be now, which is after the host was collected         *)
(* (decodeDockerFrame, freshDockerFrame).                                  *)
LEMMA CollectorKeepsSound ==
  ASSUME PipelineInvariant, CollectorStep
  PROVE  CollectedIsSound'
  <1>0. collector \in Collectors /\ frame \in Frames /\ clock \in Nat /\ CollectedIsSound
    BY DEF PipelineInvariant, PipelineTypes
  <1>a. CollectorDown.at = "down" /\ CollectorDown.collected = 0
    BY <1>0 DEF Collectors, CollectorDown
  <1>1. CASE RichCollectorStarts \/ DockerCollectorStarts
    <2>1. /\ clock' = clock /\ handoff' = handoff
          /\ collector'.collected = collector.collected /\ collector'.at = "idle"
      BY <1>0, <1>1, Zenon DEF RichCollectorStarts, DockerCollectorStarts, CollectorStarts, Collectors
    <2> QED
      BY <1>0, <2>1 DEF CollectedIsSound, SoundSection
  <1>2. CASE CollectHost \/ CollectorEnds
    <2>1. clock' = clock /\ handoff' = handoff
      BY <1>2 DEF CollectHost, CollectorEnds, CollectorElsewhere
    <2>2. \/ collector' = CollectorDown
          \/ collector' = [collector EXCEPT !.at = "collected", !.collected = clock]
      BY <1>2 DEF CollectHost, CollectorEnds
    <2>3. collector'.at # "joined" /\ collector'.collected \in {0, clock}
      BY <1>0, <1>a, <2>2, Zenon DEF Collectors
    <2>4. collector'.collected <= clock
      BY <1>0, <2>3
    <2> QED
      BY <1>0, <2>1, <2>3, <2>4 DEF CollectedIsSound, SoundSection
  <1>3. CASE readContainers
    <2>1. clock' = clock /\ handoff' = handoff
      BY <1>3 DEF readContainers, CollectorElsewhere
    <2>2. PICK x : /\ collector' = [collector EXCEPT !.at = "joined", !.section = x]
                   /\ \/ x = NoSection
                      \/ /\ x = [observed |-> frame.observed, policy |-> frame.policy]
                         /\ frame.policy = collector.bound /\ clock <= frame.observed + FrameMaxAge
      BY <1>3, Zenon DEF readContainers, decodeDockerFrame, freshDockerFrame
    <2>3. /\ collector'.collected = collector.collected /\ collector'.bound = collector.bound
          /\ collector'.section = x
      BY <1>0, <2>2 DEF Collectors
    <2>4. SoundSection(collector.collected, collector.bound, x)
      <3>1. collector.collected \in Nat /\ collector.collected <= clock /\ frame.observed \in Nat
        BY <1>0 DEF CollectedIsSound, Collectors, Frames
      <3>2. FrameMaxAge \in Nat
        BY PipelineAssumption DEF PipelineAssumption
      <3> QED
        BY <1>0, <2>2, <3>1, <3>2 DEF SoundSection
    <2> QED
      BY <1>0, <2>1, <2>3, <2>4 DEF CollectedIsSound, SoundSection
  <1>4. CASE PublishBody
    <2>1. clock' = clock
      BY <1>4 DEF PublishBody, CollectorElsewhere
    <2>2. collector'.collected = 0 /\ collector'.at # "joined"
      <3>1. \/ collector' = CollectorDown
            \/ collector' = [CollectorDown EXCEPT !.at = "idle", !.bound = collector.bound]
        BY <1>4 DEF PublishBody
      <3>2. [CollectorDown EXCEPT !.at = "idle", !.bound = collector.bound].collected = 0
        BY <1>0 DEF CollectorDown, Collectors
      <3>3. [CollectorDown EXCEPT !.at = "idle", !.bound = collector.bound].at = "idle"
        BY <1>0 DEF CollectorDown, Collectors
      <3> QED
        BY <3>1, <3>2, <3>3, <1>a, Zenon
    <2>3. SoundSection(handoff'.collected, handoff'.policy, handoff'.section)
      <3>1. handoff' \in {handoff, encodeProcesses, encodeDocker}
        BY <1>4 DEF PublishBody
      <3>2. /\ encodeProcesses.section = NoSection
            /\ encodeDocker.section = collector.section
            /\ encodeDocker.policy = collector.bound
            /\ encodeDocker.collected = collector.collected
        BY DEF encodeProcesses, encodeDocker
      <3> QED
        BY <1>0, <1>4, <3>1, <3>2 DEF PublishBody, CollectedIsSound, SoundSection
    <2> QED
      BY <1>0, <2>1, <2>2, <2>3 DEF CollectedIsSound
  <1> QED
    BY <1>1, <1>2, <1>3, <1>4 DEF CollectorStep

LEMMA CollectorKeepsInvariant ==
  ASSUME PipelineInvariant, CollectorStep
  PROVE  PipelineInvariant'
  <1>1. UNCHANGED upload
    BY DEF CollectorStep, RichCollectorStarts, DockerCollectorStarts, CollectorStarts, CollectHost,
      readContainers, PublishBody, CollectorEnds, CollectorElsewhere
  <1>2. UploadIsEnrolled' /\ UploaderIsBound'
    BY <1>1 DEF PipelineInvariant, UploadIsEnrolled, UploaderIsBound, Enrolled, SoundSection, upload
  <1> QED
    BY <1>2, CollectorKeepsTypes, CollectorKeepsSound DEF PipelineInvariant

-----------------------------------------------------------------------------
(* The uploaders.  What a step of one may do to the bodies it handles, and *)
(* that it leaves the ledger and the wire alone without consent.           *)
UploaderStep ==
  \/ RichUploaderStarts \/ DockerUploaderStarts \/ StepBegins \/ RetirePending
  \/ ReadSource \/ CheckRead \/ Admit \/ Send \/ Acknowledge \/ Reject \/ NoAnswer \/ StepReturns
  \/ UploaderEnds

UploadMoves ==
  /\ uploader' \in Uploaders /\ ledger' \in Ledgers /\ sent' \in Bodies
  /\ \/ uploader'.body \in {uploader.body, NoBody}
     \/ uploader'.body = handoff /\ handoff.policy = Bound
  /\ ledger'.pending \in {ledger.pending, NoBody, uploader.body}
  /\ sent' \in {sent, NoBody, ledger.pending}
  /\ UploaderIsBound'
  /\ ledger' # ledger \/ sent' \notin {sent, NoBody} => ~uploader.failed /\ Consented(Bound)

UploadState ==
  /\ uploader \in Uploaders /\ ledger \in Ledgers /\ sent \in Bodies /\ handoff \in Bodies
  /\ policy \in Digests /\ UploaderIsBound

(* The states in which a Step ends and a process ends.                     *)
LEMMA UploaderHolds ==
  ASSUME UploadState, NEW o \in Outcomes
  PROVE  /\ Refused(o) \in Uploaders /\ Returning(o) \in Uploaders /\ UploaderDown \in Uploaders
         /\ Refused(o).at = "return" /\ Refused(o).bound = uploader.bound
         /\ Refused(o).failed /\ Refused(o).body = NoBody
         /\ Returning(o).at = "return" /\ Returning(o).bound = uploader.bound
         /\ Returning(o).failed = uploader.failed /\ Returning(o).body = NoBody
         /\ UploaderDown.at = "down" /\ UploaderDown.body = NoBody
         /\ UploaderDown.bound = uploader.bound /\ UploaderDown.failed = uploader.failed
  <1>1. Refused(o) \in Uploaders /\ Returning(o) \in Uploaders
    BY Blanks, Zenon DEF UploadState, Uploaders, Refused, Returning
  <1>2. UploaderDown \in Uploaders
    BY Blanks, Zenon DEF UploadState, Uploaders, UploaderDown, Outcomes, Stops
  <1> QED
    BY <1>1, <1>2 DEF UploadState, Uploaders, Refused, Returning, UploaderDown

(* A guard that lets an operation pass has seen consent to the policy that *)
(* was enrolled (policyGuard.Check).                                       *)
LEMMA CheckIsConsent ==
  ASSUME UploadState, Check, uploader.at # "down"
  PROVE  ~uploader.failed /\ Consented(Bound)
  BY DEF UploadState, UploaderIsBound, Check, RichCheck, DockerCheck

(* A state a running uploader may go to within a Step.                     *)
WithinStep(u) ==
  /\ u \in Uploaders /\ u.bound = Bound /\ (u.failed => u.at = "return")
  /\ u.body \in {uploader.body, NoBody}

LEMMA StepGoesOn ==
  ASSUME UploadState, uploader.at \notin {"down", "return"},
         NEW at \in {"idle", "retire", "read", "checkRead", "admit", "send", "await"},
         NEW b \in BOOLEAN, NEW o \in Outcomes
  PROVE  /\ WithinStep([uploader EXCEPT !.at = at]) /\ WithinStep([uploader EXCEPT !.retired = b, !.at = at])
         /\ WithinStep([uploader EXCEPT !.at = at, !.body = NoBody])
         /\ WithinStep(Refused(o)) /\ WithinStep(Returning(o))
         /\ WithinStep([Returning(o) EXCEPT !.acked = b])
  <1>1. uploader \in Uploaders /\ uploader.bound = Bound /\ ~uploader.failed
    BY DEF UploadState, UploaderIsBound
  <1>2. WithinStep([uploader EXCEPT !.at = at]) /\ WithinStep([uploader EXCEPT !.retired = b, !.at = at])
    <2>1. /\ [uploader EXCEPT !.at = at] \in Uploaders
          /\ [uploader EXCEPT !.retired = b, !.at = at] \in Uploaders
      BY <1>1, Zenon DEF Uploaders
    <2> QED
      BY <1>1, <2>1 DEF WithinStep, Uploaders
  <1>3. WithinStep([uploader EXCEPT !.at = at, !.body = NoBody])
    <2>1. [uploader EXCEPT !.at = at, !.body = NoBody] \in Uploaders
      BY <1>1, Blanks, Zenon DEF Uploaders
    <2> QED
      BY <1>1, <2>1 DEF WithinStep, Uploaders
  <1>4. WithinStep(Refused(o)) /\ WithinStep(Returning(o))
    BY <1>1, UploaderHolds DEF WithinStep
  <1>5. WithinStep([Returning(o) EXCEPT !.acked = b])
    <2>1. Returning(o) \in Uploaders
      BY UploaderHolds
    <2>2. [Returning(o) EXCEPT !.acked = b] \in Uploaders
      BY <2>1 DEF Uploaders
    <2>3. /\ [Returning(o) EXCEPT !.acked = b].bound = Returning(o).bound
          /\ [Returning(o) EXCEPT !.acked = b].failed = Returning(o).failed
          /\ [Returning(o) EXCEPT !.acked = b].at = Returning(o).at
          /\ [Returning(o) EXCEPT !.acked = b].body = Returning(o).body
      BY <2>1 DEF Uploaders
    <2> QED
      BY <1>1, <2>2, <2>3, UploaderHolds DEF WithinStep
  <1> QED
    BY <1>2, <1>3, <1>4, <1>5

(* A step that writes nothing, and one that writes with consent.           *)
LEMMA ReadingStep ==
  ASSUME UploadState, WithinStep(uploader'), ledger' = ledger, sent' = sent
  PROVE  UploadMoves
  BY DEF UploadState, WithinStep, UploadMoves, UploaderIsBound

LEMMA WritingStep ==
  ASSUME UploadState, uploader.at # "down", Check,
         WithinStep(uploader'), ledger' \in Ledgers,
         ledger'.pending \in {ledger.pending, NoBody, uploader.body},
         sent' \in {sent, ledger.pending}
  PROVE  UploadMoves
  <1>1. ~uploader.failed /\ Consented(Bound)
    BY CheckIsConsent
  <1>2. sent' \in Bodies
    BY DEF UploadState, Ledgers
  <1> QED
    BY <1>1, <1>2 DEF UploadState, WithinStep, UploadMoves, UploaderIsBound

LEMMA CommitStep ==
  ASSUME UploadState, uploader.at \notin {"down", "return"}, UNCHANGED <<sent, status>>,
         NEW next, NEW then, Commit(next, then), WithinStep(then), next \in Ledgers,
         next.pending \in {ledger.pending, NoBody, uploader.body}
  PROVE  UploadMoves
  <1>1. CASE Check
    BY <1>1, WritingStep DEF Commit
  <1>2. CASE ~Check
    <2>1. uploader' = Refused("ErrRecovery") /\ ledger' = ledger
      BY <1>2 DEF Commit
    <2>2. WithinStep(Refused("ErrRecovery"))
      BY StepGoesOn, Zenon DEF Outcomes
    <2> QED
      BY <2>1, <2>2, ReadingStep
  <1> QED
    BY <1>1, <1>2

(* Every step of an uploader makes such a move.                            *)
LEMMA UploaderMoves ==
  ASSUME UploadState, UploaderStep
  PROVE  UploadMoves
  <1>0. /\ uploader \in Uploaders /\ ledger \in Ledgers /\ sent \in Bodies /\ handoff \in Bodies
        /\ policy \in Digests /\ UploaderIsBound
    BY DEF UploadState
  <1>1. CASE RichUploaderStarts \/ DockerUploaderStarts
    <2>1. UploaderStarts
      BY <1>1 DEF RichUploaderStarts, DockerUploaderStarts
    <2>2. /\ uploader' \in Uploaders /\ uploader'.bound = Bound /\ ~uploader'.failed
          /\ uploader'.body = uploader.body
      BY <1>0, <2>1, Zenon DEF UploaderStarts, Uploaders
    <2>3. ledger' = ledger /\ sent' = sent
      BY <2>1 DEF UploaderStarts
    <2> QED
      BY <1>0, <2>2, <2>3 DEF UploadMoves, UploaderIsBound
  <1>2. CASE StepBegins
    <2>1. uploader.at \notin {"down", "return"} /\ ledger' = ledger /\ sent' = sent
      BY <1>2 DEF StepBegins
    <2>2. ledger.stopped \in Outcomes /\ "ErrRecovery" \in Outcomes
      BY <1>0 DEF Ledgers, Outcomes, Stops
    <2>3. \/ uploader' = Refused("ErrRecovery") \/ uploader' = Returning(ledger.stopped)
          \/ \E at \in {"read", "retire", "send"} :
               uploader' = [uploader EXCEPT !.retired = FALSE, !.at = at]
      BY <1>2, Zenon DEF StepBegins
    <2>4. WithinStep(uploader')
      BY <2>1, <2>2, <2>3, StepGoesOn, Zenon
    <2> QED
      BY <2>1, <2>4, ReadingStep
  <1>3. CASE RetirePending
    <2> DEFINE next == [ledger EXCEPT !.pending = NoBody]
               then == [uploader EXCEPT !.retired = TRUE, !.at = "read"]
    <2>1. /\ uploader.at \notin {"down", "return"} /\ Commit(next, then)
          /\ UNCHANGED <<sent, status>>
      BY <1>3 DEF RetirePending
    <2>2. next \in Ledgers /\ next.pending = NoBody
      BY <1>0, Blanks DEF Ledgers
    <2>3. WithinStep(then)
      BY <2>1, StepGoesOn, Zenon DEF Outcomes
    <2> HIDE DEF next, then
    <2> QED
      BY <2>1, <2>2, <2>3, CommitStep
  <1>4. CASE ReadSource
    <2>1. uploader.at \notin {"down", "return"} /\ ledger' = ledger /\ sent' = sent
      BY <1>4 DEF ReadSource, Unwritten
    <2>2. \/ \E o \in Outcomes : uploader' = Refused(o)
          \/ uploader' = [uploader EXCEPT !.at = "checkRead"]
          \/ /\ uploader' = [uploader EXCEPT !.at = "checkRead", !.body = handoff]
             /\ handoff.policy = uploader.bound
      BY <1>4 DEF ReadSource, SourceError, Outcomes, Decodes, decodeRichProcesses,
        decodeRichProcessesDocker
    <2>3. CASE uploader' = [uploader EXCEPT !.at = "checkRead", !.body = handoff]
               /\ handoff.policy = uploader.bound
      <3>1. /\ uploader' \in Uploaders /\ uploader'.bound = uploader.bound
            /\ uploader'.failed = uploader.failed /\ uploader'.body = handoff
            /\ uploader'.at = "checkRead"
        BY <1>0, <2>3, Zenon DEF Uploaders
      <3> QED
        BY <1>0, <2>1, <2>3, <3>1 DEF UploadMoves, UploaderIsBound
    <2>4. CASE \/ \E o \in Outcomes : uploader' = Refused(o)
               \/ uploader' = [uploader EXCEPT !.at = "checkRead"]
      <3>1. WithinStep(uploader')
        BY <2>1, <2>4, StepGoesOn, Zenon DEF Outcomes
      <3> QED
        BY <2>1, <3>1, ReadingStep
    <2> QED
      BY <2>2, <2>3, <2>4
  <1>5. CASE CheckRead
    <2>1. uploader.at \notin {"down", "return"} /\ ledger' = ledger /\ sent' = sent
      BY <1>5 DEF CheckRead, Unwritten
    <2>2. \/ \E o \in Outcomes : uploader' = Refused(o) \/ uploader' = Returning(o)
          \/ uploader' = [uploader EXCEPT !.at = "admit"]
      BY <1>5 DEF CheckRead, SourceError, Outcomes
    <2>3. WithinStep(uploader')
      BY <2>1, <2>2, StepGoesOn, Zenon DEF Outcomes
    <2> QED
      BY <2>1, <2>3, ReadingStep
  <1>6. CASE Admit
    <2> DEFINE next == [ledger EXCEPT !.pending = uploader.body]
               then == [uploader EXCEPT !.at = "send", !.body = NoBody]
    <2>1. /\ uploader.at \notin {"down", "return"} /\ Commit(next, then)
          /\ UNCHANGED <<sent, status>>
      BY <1>6 DEF Admit
    <2>2. next \in Ledgers /\ next.pending = uploader.body
      BY <1>0 DEF Ledgers, Uploaders
    <2>3. WithinStep(then)
      BY <2>1, StepGoesOn, Zenon DEF Outcomes
    <2> HIDE DEF next, then
    <2> QED
      BY <2>1, <2>2, <2>3, CommitStep
  <1>7. CASE Send
    <2>1. uploader.at \notin {"down", "return"} /\ ledger' = ledger
      BY <1>7 DEF Send
    <2>2. \/ uploader' \in {Returning("EXPIRED"), Refused("RETRY")} /\ sent' = sent
          \/ Check /\ uploader' = [uploader EXCEPT !.at = "await"] /\ sent' = ledger.pending
      BY <1>7 DEF Send
    <2>3. WithinStep(uploader')
      BY <2>1, <2>2, StepGoesOn, Zenon DEF Outcomes
    <2> QED
      BY <1>0, <2>1, <2>2, <2>3, ReadingStep, WritingStep
  <1>8. CASE Acknowledge
    <2> DEFINE next == [ledger EXCEPT !.pending = NoBody, !.acked = ledger.pending]
               then == [Returning("ACKNOWLEDGED") EXCEPT !.acked = TRUE]
    <2>1. /\ uploader.at \notin {"down", "return"} /\ Commit(next, then)
          /\ UNCHANGED <<sent, status>>
      BY <1>8 DEF Acknowledge
    <2>2. next \in Ledgers /\ next.pending = NoBody
      BY <1>0, Blanks, Zenon DEF Ledgers
    <2>3. WithinStep(then)
      BY <2>1, StepGoesOn, Zenon DEF Outcomes
    <2> HIDE DEF next, then
    <2> QED
      BY <2>1, <2>2, <2>3, CommitStep
  <1>9. CASE Reject
    <2>1. PICK o \in {"CREDENTIAL_REJECTED", "CONFLICT"} :
            Commit([ledger EXCEPT !.stopped = o], Returning(o))
      BY <1>9 DEF Reject
    <2>2. uploader.at \notin {"down", "return"} /\ UNCHANGED <<sent, status>>
      BY <1>9 DEF Reject
    <2> DEFINE next == [ledger EXCEPT !.stopped = o]
    <2>3. next \in Ledgers /\ next.pending = ledger.pending
      BY <1>0 DEF Ledgers, Stops
    <2>4. WithinStep(Returning(o))
      BY <2>2, StepGoesOn, Zenon DEF Outcomes, Stops
    <2>5. Commit(next, Returning(o))
      BY <2>1
    <2> HIDE DEF next
    <2> QED
      BY <2>2, <2>3, <2>4, <2>5, CommitStep
  <1>10. CASE NoAnswer
    <2>1. uploader.at \notin {"down", "return"} /\ ledger' = ledger /\ sent' = sent
      BY <1>10 DEF NoAnswer, Unwritten
    <2>2. \E o \in Outcomes : uploader' = Returning(o)
      BY <1>10 DEF NoAnswer, Outcomes
    <2>3. WithinStep(uploader')
      BY <2>1, <2>2, StepGoesOn, Zenon
    <2> QED
      BY <2>1, <2>3, ReadingStep
  <1>11. CASE StepReturns
    <2>1. /\ uploader.at = "return" /\ status' = StepState /\ sent' = NoBody /\ ledger' = ledger
          /\ \/ uploader' = UploaderDown
             \/ uploader' = [UploaderDown EXCEPT !.at = "idle"] /\ ~uploader.failed
      BY <1>11 DEF StepReturns
    <2>2. UploaderDown \in Uploaders /\ UploaderDown.at = "down" /\ UploaderDown.body = NoBody
          /\ UploaderDown.bound = uploader.bound /\ UploaderDown.failed = uploader.failed
      BY UploaderHolds DEF Outcomes
    <2>3. /\ uploader' \in Uploaders /\ uploader'.body = NoBody
          /\ uploader'.bound = uploader.bound /\ uploader'.failed = uploader.failed
          /\ uploader.failed => uploader'.at = "down"
      <3>1. LET u == [UploaderDown EXCEPT !.at = "idle"]
            IN  /\ u \in Uploaders /\ u.body = UploaderDown.body
                /\ u.bound = UploaderDown.bound /\ u.failed = UploaderDown.failed
        BY <2>2 DEF Uploaders
      <3> QED
        BY <2>1, <2>2, <3>1, Zenon
    <2>4. uploader.failed => status' = "RECOVERY_REQUIRED"
      BY <2>1 DEF StepState
    <2> QED
      BY <1>0, <2>1, <2>3, <2>4, Blanks DEF UploadMoves, UploaderIsBound
  <1>12. CASE UploaderEnds
    <2>1. /\ uploader.at # "down" /\ uploader' = UploaderDown /\ sent' = NoBody
          /\ ledger' = ledger
          /\ uploader.at # "idle" => status' \in {"none", "STOPPED"}
      BY <1>12 DEF UploaderEnds
    <2>2. UploaderDown \in Uploaders /\ UploaderDown.at = "down" /\ UploaderDown.body = NoBody
          /\ UploaderDown.bound = uploader.bound /\ UploaderDown.failed = uploader.failed
      BY UploaderHolds DEF Outcomes
    <2> QED
      BY <1>0, <2>1, <2>2, Blanks DEF UploadMoves, UploaderIsBound
  <1> QED
    BY <1>1, <1>2, <1>3, <1>4, <1>5, <1>6, <1>7, <1>8, <1>9, <1>10, <1>11, <1>12 DEF UploaderStep

LEMMA UploaderKeepsInvariant ==
  ASSUME PipelineInvariant, UploaderStep
  PROVE  PipelineInvariant'
  <1>1. UNCHANGED <<clock, consent, docker, rich>>
    BY DEF UploaderStep, RichUploaderStarts, DockerUploaderStarts, UploaderStarts, StepBegins,
      RetirePending, ReadSource, CheckRead, Admit, Send, Acknowledge, Reject, NoAnswer, StepReturns,
      UploaderEnds, Elsewhere
  <1>2. UploadMoves
    BY UploaderMoves DEF PipelineInvariant, PipelineTypes, UploadState
  <1>3. PipelineTypes'
    BY <1>1, <1>2 DEF PipelineInvariant, PipelineTypes, UploadMoves, consent, docker, rich
  <1>4. CollectedIsSound'
    BY <1>1 DEF PipelineInvariant, CollectedIsSound, SoundSection, rich
  <1>5. UploadIsEnrolled'
    <2>1. handoff.policy = Bound => Enrolled(handoff)
      BY DEF PipelineInvariant, CollectedIsSound, Enrolled
    <2>2. Enrolled(NoBody)
      BY DEF Enrolled
    <2>3. Enrolled(uploader.body) /\ Enrolled(ledger.pending) /\ Enrolled(sent)
      BY DEF PipelineInvariant, UploadIsEnrolled
    <2>4. Enrolled(uploader'.body) /\ Enrolled(ledger'.pending) /\ Enrolled(sent')
      BY <1>2, <2>1, <2>2, <2>3 DEF UploadMoves
    <2> QED
      BY <2>4 DEF UploadIsEnrolled, Enrolled, SoundSection
  <1>6. UploaderIsBound'
    BY <1>2 DEF UploadMoves
  <1> QED
    BY <1>3, <1>4, <1>5, <1>6 DEF PipelineInvariant

-----------------------------------------------------------------------------
LEMMA PipelineStep == PipelineInvariant /\ [PipelineNext]_pvars => PipelineInvariant'
  <1> SUFFICES ASSUME PipelineInvariant, [PipelineNext]_pvars PROVE PipelineInvariant'
    OBVIOUS
  <1>1. CASE UNCHANGED pvars
    BY <1>1 DEF pvars, consent, docker, rich, upload, PipelineInvariant, PipelineTypes,
      CollectedIsSound, UploadIsEnrolled, UploaderIsBound, Enrolled, SoundSection
  <1>2. CASE PipelineNext
    BY <1>2, HostKeepsInvariant, CollectorKeepsInvariant, UploaderKeepsInvariant
      DEF PipelineNext, HostStep, CollectorStep, UploaderStep
  <1> QED
    BY <1>1, <1>2

(* In every reachable state what a collector left in the slot, what an     *)
(* uploader keeps and what it sends is sound and of the enrolled policy,   *)
(* and an uploader that met a refusal has ended or is about to             *)
(* (decodeDockerFrame, decodeRichProcesses, policyGuard.Check).            *)
THEOREM PipelineInvariantHolds == PipelineSpec => []PipelineInvariant
  BY PipelineInitially, PipelineStep, PTL DEF PipelineSpec

(* Whatever root installs and takes back while the processes come and go,  *)
(* a body that is sent was collected under the enrolled policy, so were    *)
(* the containers in it, and a refusal ends the process and is not hidden  *)
(* behind the outcome of its last step (policyGuard.Check,                 *)
(* observedStepper.Step).                                                  *)
THEOREM ConsentHolds == PipelineSpec => []ConsentIsKept
  <1>1. PipelineInvariant => ConsentIsKept
    BY DEF PipelineInvariant, UploadIsEnrolled, Enrolled, SoundSection, UploaderIsBound,
      ConsentIsKept, SentIsConsented, RefusalIsReported
  <1> QED
    BY <1>1, PipelineInvariantHolds, PTL

(* What is pending is neither sent, dropped nor replaced without consent,  *)
(* nor after a refusal the process has once met (guardedLedger.Commit,     *)
(* observedTransport.Send, credentialSource.Credential).                   *)
THEOREM NothingMovesUnconsented == PipelineSpec => ConsentGates
  <1> DEFINE Gate ==
        ledger' # ledger \/ sent' \notin {sent, NoBody} => ~uploader.failed /\ Consented(Bound)
  <1>1. PipelineInvariant /\ [PipelineNext]_pvars => [Gate]_pvars
    <2> SUFFICES ASSUME PipelineInvariant, PipelineNext PROVE Gate
      OBVIOUS
    <2>1. CASE HostStep \/ CollectorStep
      <3>1. UNCHANGED upload
        BY <2>1 DEF HostStep, Tick, ReplacePolicy, ReplaceConfig, RunInstalled, CollectContainers,
          PublishFrame, ReaderEnds, ReaderElsewhere, CollectorStep, RichCollectorStarts,
          DockerCollectorStarts, CollectorStarts, CollectHost, readContainers, PublishBody,
          CollectorEnds, CollectorElsewhere
      <3> QED
        BY <3>1 DEF upload
    <2>2. CASE UploaderStep
      BY <2>2, UploaderMoves DEF PipelineInvariant, PipelineTypes, UploadState, UploadMoves
    <2> QED
      BY <2>1, <2>2 DEF PipelineNext, HostStep, CollectorStep, UploaderStep
  <1> QED
    BY <1>1, PipelineInvariantHolds, PTL DEF PipelineSpec, ConsentGates

-----------------------------------------------------------------------------
(* The shared slot: its inductive invariant, part by part.                 *)
Names == {Latest, Stage}
File == [record : Nat, data : {"none", "partial", "written", "synced"},
         mode : {"private", "shared"}]
Writer == [at : {"down", "open", "staging", "write", "chmod", "sync", "replace", "syncDir"},
           record : Nat, restarts : Nat, failures : Nat]
Taker == [at : {"idle", "first", "opening", "opened", "handle", "read", "handleAgain", "list",
                "last", "done"},
          seen : SUBSET Names, file : Files \union {NoFile}, reads : Nat]

HandoffTypes ==
  /\ entries \in [Names -> Files \union {NoFile}]
  /\ files \in [Files -> File]
  /\ used \in 0..Cardinality(Files)
  /\ durable \in SUBSET (Files \union {NoFile})
  /\ writer \in Writer /\ writer.record \in 0..Cardinality(Records)
  /\ taker \in Taker

(* The files somebody may take for the latest record, now or after a       *)
(* reboot.                                                                 *)
Settled == (durable \union {entries[Latest], taker.file}) \ {NoFile}

(* Such a file is whole, on the disk and readable, and holds a record that *)
(* was published.                                                          *)
SettledAreWhole ==
  \A f \in Settled :
    /\ f <= used /\ files[f].data = "synced" /\ files[f].mode = "shared"
    /\ files[f].record \in 1..writer.record

(* While a record is staged it is in the newest file, which is none of     *)
(* those, and newer than any of theirs; it is made readable, then synced.  *)
StageIsFresh ==
  /\ writer.at \in {"staging", "write", "chmod", "sync", "replace"} =>
       writer.record > 0 /\ \A f \in Settled : files[f].record < writer.record
  /\ writer.at \in {"write", "chmod", "sync", "replace"} =>
       /\ entries[Stage] = used /\ used > 0 /\ used \notin Settled
       /\ files[used].record = writer.record
  /\ writer.at \in {"sync", "replace"} => files[used].mode = "shared"
  /\ writer.at = "replace" => files[used].data = "synced"

(* A Read holds a file from its open to its return.                        *)
TakerHolds ==
  /\ taker.at \in {"idle", "first", "opening"} => taker.file = NoFile
  /\ taker.at \notin {"idle", "first", "opening"} => taker.file # NoFile

HandoffInvariant ==
  HandoffTypes /\ SettledAreWhole /\ StageIsFresh /\ TakerHolds /\ PublicationIsNeverUnsafe

-----------------------------------------------------------------------------
(* The files are numbered from one, and the next one exists while fewer    *)
(* than all are used.                                                      *)
LEMMA FilesAreNumbered ==
  /\ Cardinality(Files) \in Nat /\ Files = 1..Cardinality(Files)
  /\ NoFile \notin Files /\ Latest # Stage
  <1> DEFINE n == Cardinality(Records) + MaxRestarts + MaxFailures
  <1>1. n \in Nat /\ Files = 1..n
    BY HandoffAssumption DEF HandoffAssumption, Files
  <1>2. Cardinality(1..n) = n
    BY <1>1, FS_Interval
  <1> HIDE DEF n
  <1>3. Cardinality(Files) = n
    BY <1>1, <1>2
  <1>4. NoFile \notin 1..n
    BY <1>1 DEF NoFile
  <1> QED
    BY <1>1, <1>3, <1>4 DEF Latest, Stage

LEMMA HandoffInitially == HandoffInit => HandoffInvariant
  <1> SUFFICES ASSUME HandoffInit PROVE HandoffInvariant
    OBVIOUS
  <1>1. HandoffTypes
    <2>1. Empty \in File
      BY DEF Empty, File
    <2>2. writer \in Writer /\ writer.record \in 0..Cardinality(Records)
      BY HandoffAssumption DEF HandoffInit, HandoffAssumption, Writer
    <2>3. taker \in Taker
      BY DEF HandoffInit, Taker
    <2> QED
      BY <2>1, <2>2, <2>3, FilesAreNumbered DEF HandoffInit, HandoffTypes, Names
  <1>2. Settled = {}
    BY FilesAreNumbered DEF HandoffInit, Settled
  <1> QED
    BY <1>1, <1>2 DEF HandoffInit, HandoffInvariant, SettledAreWhole, StageIsFresh, TakerHolds,
      PublicationIsNeverUnsafe, NoOutcome

-----------------------------------------------------------------------------
(* The reader.  What it finds under the name is whole, so that nothing it  *)
(* meets is unsafe or invalid; all it keeps is the file it opened.         *)
ReaderMove ==
  \/ taker'.file = taker.file /\ outcome' = outcome
  \/ /\ taker'.file = NoFile /\ outcome'.record \in {0, RecordOf(taker.file)}
     /\ outcome'.result \notin {"UNSAFE", "INVALID"}
  \/ /\ taker.file = NoFile /\ entries[Latest] # NoFile
     /\ taker'.file = entries[Latest] /\ outcome' = outcome

(* A name that is examined is gone or stands for a readable file.          *)
LEMMA EntriesAreFit ==
  ASSUME HandoffInvariant, NEW n \in Names
  PROVE  checkEntries(n) \in {"ok", "UNAVAILABLE"}
  <1>1. n = Latest /\ entries[n] # NoFile => files[entries[n]].mode = "shared"
    BY DEF HandoffInvariant, SettledAreWhole, Settled
  <1> QED
    BY <1>1 DEF checkEntries

(* A file that is held is readable and whole.                              *)
LEMMA HeldIsWhole ==
  ASSUME HandoffInvariant, taker.file # NoFile
  PROVE  /\ checkHandle(taker.file) \in {"ok", "UNAVAILABLE"}
         /\ files[taker.file].data = "synced"
         /\ RecordOf(taker.file) = files[taker.file].record
  <1>1. files[taker.file].data = "synced" /\ files[taker.file].mode = "shared"
    BY DEF HandoffInvariant, SettledAreWhole, Settled
  <1> QED
    BY <1>1 DEF checkHandle, RecordOf

(* A Read that returns gives up its file.                                  *)
LEMMA ReturnsIsMove ==
  ASSUME HandoffInvariant, NEW r, Returns(r), r \in {"ok", "UNAVAILABLE", "MISSING"},
         r = "ok" => taker.file # NoFile
  PROVE  taker' \in Taker /\ TakerHolds' /\ ReaderMove
  <1>1. /\ taker' = [taker EXCEPT !.at = "idle", !.seen = {}, !.file = NoFile]
        /\ outcome'.result = r
        /\ outcome'.record = IF r = "ok" THEN files[taker.file].record ELSE 0
    BY DEF Returns
  <1>2. taker \in Taker
    BY DEF HandoffInvariant, HandoffTypes
  <1>3. taker' \in Taker /\ taker'.at = "idle" /\ taker'.file = NoFile
    BY <1>1, <1>2, Zenon DEF Taker
  <1>4. r = "ok" => RecordOf(taker.file) = files[taker.file].record
    BY HeldIsWhole
  <1> QED
    BY <1>1, <1>3, <1>4 DEF TakerHolds, ReaderMove

(* A Read that goes on keeps it.                                           *)
LEMMA GoesOnIsMove ==
  ASSUME HandoffInvariant, NEW s \in SUBSET Names,
         NEW at \in {"first", "opening", "handle", "read", "handleAgain", "list", "last", "done"},
         at \in {"first", "opening"} <=> taker.at \in {"idle", "first", "opening"},
         taker' \in {[taker EXCEPT !.at = at], [taker EXCEPT !.at = at, !.seen = s],
                    [taker EXCEPT !.seen = s, !.at = at]},
         outcome' = outcome
  PROVE  taker' \in Taker /\ TakerHolds' /\ ReaderMove
  <1>1. taker \in Taker /\ TakerHolds
    BY DEF HandoffInvariant, HandoffTypes
  <1>2. taker' \in Taker /\ taker'.at = at /\ taker'.file = taker.file
    BY <1>1, Zenon DEF Taker
  <1> QED
    BY <1>1, <1>2 DEF TakerHolds, ReaderMove

LEMMA ExamineIsMove ==
  ASSUME HandoffInvariant, NEW at, NEW next, Examine(at, next) \/ ExamineNone(at, next),
         <<at, next>> \in {<<"first", "opening">>, <<"last", "done">>}
  PROVE  taker' \in Taker /\ TakerHolds' /\ ReaderMove
  <1>1. taker.at = at /\ taker \in Taker
    BY Zenon DEF Examine, ExamineNone, HandoffInvariant, HandoffTypes
  <1>2. \/ at = "first" /\ next = "opening"
        \/ at = "last" /\ next = "done"
    OBVIOUS
  <1>3. CASE ExamineNone(at, next)
    <2>1. taker' = [taker EXCEPT !.at = next] /\ outcome' = outcome
      BY <1>3 DEF ExamineNone, Moves
    <2> QED
      BY <1>1, <1>2, <2>1, GoesOnIsMove, Zenon
  <1>4. CASE Examine(at, next)
    <2>1. PICK n \in taker.seen :
            IF checkEntries(n) = "ok"
              THEN /\ taker' = [taker EXCEPT !.seen = @ \ {n},
                                   !.at = IF taker.seen = {n} THEN next ELSE at]
                   /\ UNCHANGED outcome
              ELSE Returns(checkEntries(n))
      BY <1>4, Zenon DEF Examine
    <2>2. n \in Names /\ taker.seen \ {n} \in SUBSET Names
      BY <1>1 DEF Taker
    <2>3. CASE checkEntries(n) = "ok"
      <3> DEFINE s == taker.seen \ {n}
                 to == IF taker.seen = {n} THEN next ELSE at
      <3>1. taker' = [taker EXCEPT !.seen = s, !.at = to] /\ outcome' = outcome
        BY <2>1, <2>3
      <3>2. s \in SUBSET Names /\ to \in {at, next}
        BY <2>2
      <3> HIDE DEF s, to
      <3> QED
        BY <1>1, <1>2, <3>1, <3>2, GoesOnIsMove, Zenon
    <2>4. CASE checkEntries(n) # "ok"
      <3>1. checkEntries(n) = "UNAVAILABLE"
        BY <2>2, <2>4, EntriesAreFit
      <3> QED
        BY <2>1, <2>4, <3>1, ReturnsIsMove
    <2> QED
      BY <2>3, <2>4
  <1> QED
    BY <1>3, <1>4

LEMMA ReaderMoves ==
  ASSUME HandoffInvariant, ReaderStep
  PROVE  /\ UNCHANGED <<entries, files, used, durable, writer>>
         /\ taker' \in Taker /\ TakerHolds' /\ ReaderMove
  <1>0. taker \in Taker /\ TakerHolds /\ Present \in SUBSET Names
    BY DEF HandoffInvariant, HandoffTypes, Present, Names
  <1>1. UNCHANGED <<entries, files, used, durable, writer>>
    BY Zenon DEF ReaderStep, BeginRead, Examine, ExamineNone, OpenLatest, CompareLatest,
      HandleOpened, ReadData, HandleAgain, ListEntries, ReadReturns, ReadCanceled, Untouched
  <1>2. CASE BeginRead
    <2>1. /\ taker.at = "idle" /\ outcome' = NoOutcome
          /\ taker' = [taker EXCEPT !.at = "first", !.seen = Present, !.reads = @ + 1]
      BY <1>2 DEF BeginRead
    <2>2. taker.reads + 1 \in Nat
      BY <1>0 DEF Taker
    <2>3. taker' \in Taker /\ taker'.at = "first" /\ taker'.file = taker.file
      BY <1>0, <2>1, <2>2, Zenon DEF Taker
    <2> QED
      BY <1>0, <1>1, <2>1, <2>3 DEF TakerHolds, ReaderMove, NoOutcome
  <1>3. CASE \/ Examine("first", "opening") \/ ExamineNone("first", "opening")
             \/ Examine("last", "done") \/ ExamineNone("last", "done")
    BY <1>1, <1>3, ExamineIsMove
  <1>4. CASE OpenLatest
    <2>1. taker.at = "opening" /\ taker.file = NoFile
      BY <1>0, <1>4 DEF OpenLatest, TakerHolds
    <2>2. CASE entries[Latest] = NoFile
      BY <1>1, <1>4, <2>2, ReturnsIsMove DEF OpenLatest
    <2>3. CASE entries[Latest] # NoFile
      <3>1. taker' = [taker EXCEPT !.at = "opened", !.file = entries[Latest]] /\ outcome' = outcome
        BY <1>4, <2>3 DEF OpenLatest
      <3>2. entries[Latest] \in Files
        BY <2>3 DEF HandoffInvariant, HandoffTypes, Names
      <3>3. taker' \in Taker /\ taker'.at = "opened" /\ taker'.file = entries[Latest]
        BY <1>0, <3>1, <3>2, Zenon DEF Taker
      <3> QED
        BY <1>1, <2>1, <2>3, <3>1, <3>3 DEF TakerHolds, ReaderMove
    <2> QED
      BY <2>2, <2>3
  <1>5. CASE CompareLatest
    <2>1. \/ Returns("UNAVAILABLE")
          \/ taker' = [taker EXCEPT !.at = "handle"] /\ outcome' = outcome
      BY <1>5 DEF CompareLatest, Moves
    <2>2. taker.at = "opened"
      BY <1>5 DEF CompareLatest
    <2> QED
      BY <1>0, <1>1, <2>1, <2>2, ReturnsIsMove, GoesOnIsMove, Zenon
  <1>6. CASE HandleOpened \/ HandleAgain
    <2>1. taker.at \in {"handle", "handleAgain"} /\ taker.file # NoFile
      BY <1>0, <1>6 DEF HandleOpened, HandleAgain, TakerHolds
    <2>2. checkHandle(taker.file) \in {"ok", "UNAVAILABLE"}
      BY <2>1, HeldIsWhole
    <2>3. \/ Returns("UNAVAILABLE")
          \/ \E at \in {"read", "list"} : taker' = [taker EXCEPT !.at = at] /\ outcome' = outcome
      BY <1>6, <2>2 DEF HandleOpened, HandleAgain, Moves
    <2> QED
      BY <1>0, <1>1, <2>1, <2>3, ReturnsIsMove, GoesOnIsMove, Zenon
  <1>7. CASE ReadData
    <2>1. taker.at = "read" /\ taker.file # NoFile
      BY <1>0, <1>7 DEF ReadData, TakerHolds
    <2>2. taker' = [taker EXCEPT !.at = "handleAgain"] /\ outcome' = outcome
      BY <1>7, <2>1, HeldIsWhole DEF ReadData, Moves
    <2> QED
      BY <1>0, <1>1, <2>1, <2>2, GoesOnIsMove, Zenon
  <1>8. CASE ListEntries("list", "last")
    <2>1. /\ taker.at = "list" /\ outcome' = outcome
          /\ taker' = [taker EXCEPT !.at = "last", !.seen = Present]
      BY <1>8 DEF ListEntries
    <2> QED
      BY <1>0, <1>1, <2>1, GoesOnIsMove, Zenon
  <1>9. CASE ReadReturns
    <2>1. taker.file # NoFile /\ Returns("ok")
      BY <1>0, <1>9 DEF ReadReturns, TakerHolds
    <2> QED
      BY <1>1, <2>1, ReturnsIsMove
  <1>10. CASE ReadCanceled
    BY <1>1, <1>10, ReturnsIsMove DEF ReadCanceled
  <1> QED
    BY <1>2, <1>3, <1>4, <1>5, <1>6, <1>7, <1>8, <1>9, <1>10 DEF ReaderStep

LEMMA ReaderKeepsInvariant ==
  ASSUME HandoffInvariant, ReaderStep
  PROVE  HandoffInvariant'
  <1>1. /\ UNCHANGED <<entries, files, used, durable, writer>>
        /\ taker' \in Taker /\ TakerHolds' /\ ReaderMove
    BY ReaderMoves
  <1>2. Settled' \subseteq Settled
    BY <1>1 DEF Settled, ReaderMove
  <1>3. HandoffTypes'
    BY <1>1 DEF HandoffInvariant, HandoffTypes
  <1>4. SettledAreWhole'
    BY <1>1, <1>2 DEF HandoffInvariant, SettledAreWhole
  <1>5. StageIsFresh'
    BY <1>1, <1>2 DEF HandoffInvariant, StageIsFresh
  <1>6. PublicationIsNeverUnsafe'
    BY <1>1 DEF HandoffInvariant, PublicationIsNeverUnsafe, ReaderMove
  <1> QED
    BY <1>1, <1>3, <1>4, <1>5, <1>6 DEF HandoffInvariant

-----------------------------------------------------------------------------
(* The writer and the machine.  No step of theirs touches a settled file;  *)
(* the rename settles the staged one, which is whole by then.              *)
Renamed ==
  /\ entries'[Latest] = used /\ durable' = durable \union {used}
  /\ taker' = taker /\ files' = files
  /\ used # NoFile /\ files[used].data = "synced" /\ files[used].record = writer.record
  /\ writer.record \in Records /\ \A f \in Settled : files[f].record < writer.record

WriterMove ==
  /\ outcome' = outcome
  /\ \A f \in Settled : files'[f] = files[f]
  /\ \/ entries'[Latest] = entries[Latest] /\ durable' = durable /\ taker' = taker
     \/ entries'[Latest] = entries[Latest] /\ durable' = {entries[Latest]} /\ taker' = taker
     \/ Renamed
     \/ \E f \in durable : entries'[Latest] = f /\ durable' = {f} /\ taker'.file = NoFile

LEMMA QuietWriterMoves ==
  ASSUME HandoffInvariant,
         OpenWriter \/ WriterDies \/ PublishFails \/ SyncDirectory \/ RemoveStaged
  PROVE  HandoffInvariant' /\ WriterMove
  <1>0. HandoffTypes /\ Latest # Stage
    BY FilesAreNumbered DEF HandoffInvariant
  <1>1. UNCHANGED <<files, used, taker, outcome>>
    BY DEF OpenWriter, WriterDies, PublishFails, SyncDirectory, RemoveStaged
  <1>2. /\ entries' \in [Names -> Files \union {NoFile}] /\ entries'[Latest] = entries[Latest]
        /\ durable' \in {durable, {entries[Latest]}}
    BY <1>0 DEF OpenWriter, WriterDies, PublishFails, SyncDirectory, RemoveStaged, HandoffTypes,
      Names
  <1>3. /\ writer' \in Writer /\ writer'.record \in 0..Cardinality(Records)
        /\ writer'.at \in {"down", "open", "staging"} /\ writer'.record >= writer.record
        /\ writer'.at = "staging" => writer'.record = writer.record + 1
    <2>1. /\ writer \in Writer /\ writer.record \in 0..Cardinality(Records)
          /\ writer.record + 1 \in Nat /\ writer.restarts + 1 \in Nat /\ writer.failures + 1 \in Nat
      BY <1>0 DEF HandoffTypes, Writer
    <2>2. CASE RemoveStaged
      <3>1. writer' = [writer EXCEPT !.at = "staging", !.record = @ + 1]
        BY <2>2 DEF RemoveStaged
      <3>2. writer' \in Writer /\ writer'.record = writer.record + 1
        BY <2>1, <3>1, Zenon DEF Writer
      <3>3. writer.record + 1 \in 0..Cardinality(Records)
        BY <2>1, <2>2, HandoffAssumption DEF RemoveStaged, HandoffAssumption
      <3>4. writer'.at = "staging"
        BY <2>1, <3>1 DEF Writer
      <3> QED
        BY <2>1, <3>2, <3>3, <3>4
    <2>3. CASE OpenWriter \/ WriterDies \/ PublishFails \/ SyncDirectory
      <3>1. /\ writer' \in Writer /\ writer'.record = writer.record
            /\ writer'.at \in {"down", "open"}
        BY <2>1, <2>3, Zenon DEF OpenWriter, WriterDies, PublishFails, SyncDirectory, Writer
      <3> QED
        BY <2>1, <3>1
    <2> QED
      BY <2>2, <2>3
  <1>4. Settled' \subseteq Settled
    BY <1>1, <1>2 DEF Settled
  <1>5. HandoffTypes'
    BY <1>0, <1>1, <1>2, <1>3 DEF HandoffTypes, Names
  <1>6. writer.record \in Nat /\ \A f \in Settled : files[f].record \in 1..writer.record
    BY <1>0 DEF HandoffInvariant, SettledAreWhole, HandoffTypes
  <1>7. SettledAreWhole'
    <2>1. writer'.record \in Nat /\ \A f \in Settled : files[f].record \in 1..writer'.record
      BY <1>3, <1>6
    <2> QED
      BY <1>1, <1>4, <2>1 DEF HandoffInvariant, SettledAreWhole
  <1>8. StageIsFresh'
    <2>1. writer'.at = "staging" =>
            writer'.record > 0 /\ \A f \in Settled : files[f].record < writer'.record
      BY <1>3, <1>6
    <2> QED
      BY <1>1, <1>3, <1>4, <2>1 DEF StageIsFresh
  <1> QED
    BY <1>1, <1>2, <1>5, <1>7, <1>8
      DEF HandoffInvariant, TakerHolds, PublicationIsNeverUnsafe, WriterMove

(* What a step on the staged file leaves alone.                            *)
LEMMA StageMoves ==
  ASSUME HandoffInvariant, HandoffTypes', StageIsFresh',
         UNCHANGED <<durable, taker, outcome>>, entries'[Latest] = entries[Latest],
         used' >= used, writer'.record = writer.record,
         \A f \in Settled : files'[f] = files[f]
  PROVE  HandoffInvariant' /\ WriterMove
  <1>1. Settled' = Settled
    BY DEF Settled
  <1>2. \A f \in Settled : f \in Nat /\ f <= used'
    BY FilesAreNumbered
      DEF HandoffInvariant, HandoffTypes, SettledAreWhole, Settled, Taker, Names
  <1>3. SettledAreWhole'
    BY <1>1, <1>2 DEF HandoffInvariant, SettledAreWhole
  <1> QED
    BY <1>3, Zenon DEF HandoffInvariant, TakerHolds, PublicationIsNeverUnsafe, WriterMove

LEMMA CreateStageMoves ==
  ASSUME HandoffInvariant, CreateStage
  PROVE  HandoffInvariant' /\ WriterMove
  <1>0. /\ HandoffTypes /\ Latest # Stage /\ Latest \in Names /\ Stage \in Names
        /\ Cardinality(Files) \in Nat /\ Files = 1..Cardinality(Files)
    BY FilesAreNumbered DEF HandoffInvariant, Names
  <1> DEFINE next == used + 1
             new == [record |-> writer.record, data |-> "partial", mode |-> "private"]
  <1>1. next \in Files /\ next \in Nat /\ next > 0 /\ next >= used /\ next # used
    BY <1>0 DEF CreateStage, HandoffTypes
  <1>2. writer \in Writer /\ new \in File
    BY <1>0 DEF HandoffTypes, Writer, File
  <1>3. /\ used' = next /\ entries' = [entries EXCEPT ![Stage] = next]
        /\ files' = [files EXCEPT ![next] = new] /\ writer' = [writer EXCEPT !.at = "write"]
        /\ UNCHANGED <<durable, taker, outcome>> /\ writer.at = "staging"
    BY DEF CreateStage
  <1>4. next \in 0..Cardinality(Files)
    BY <1>0, <1>1
  <1>5. next \notin Settled
    BY <1>0, <1>1 DEF HandoffInvariant, SettledAreWhole, HandoffTypes
  <1>6. new.record = writer.record
    OBVIOUS
  <1> HIDE DEF next, new
  <1>7. /\ writer' \in Writer /\ writer'.at = "write" /\ writer'.record = writer.record
    BY <1>2, <1>3 DEF Writer
  <1>8. /\ entries' \in [Names -> Files \union {NoFile}] /\ entries'[Latest] = entries[Latest]
        /\ entries'[Stage] = next
    BY <1>0, <1>1, <1>3 DEF HandoffTypes
  <1>9. /\ files' \in [Files -> File] /\ files'[next] = new
        /\ \A f \in Files : f # next => files'[f] = files[f]
    BY <1>0, <1>1, <1>2, <1>3 DEF HandoffTypes
  <1>10. HandoffTypes'
    BY <1>0, <1>3, <1>4, <1>7, <1>8, <1>9 DEF HandoffTypes
  <1>11. Settled \subseteq Files /\ Settled' = Settled
    BY <1>0, <1>3, <1>8 DEF HandoffTypes, Settled, Taker
  <1>12. \A f \in Settled : files'[f] = files[f]
    BY <1>5, <1>9, <1>11
  <1>13. StageIsFresh'
    <2>1. writer.record > 0 /\ \A f \in Settled : files[f].record < writer.record
      BY <1>3 DEF HandoffInvariant, StageIsFresh
    <2> QED
      BY <1>1, <1>3, <1>5, <1>6, <1>7, <1>8, <1>9, <1>11, <1>12, <2>1 DEF StageIsFresh
  <1> QED
    BY <1>1, <1>3, <1>7, <1>8, <1>10, <1>12, <1>13, StageMoves

(* Write, chmod and sync of the staged file.                               *)
LEMMA StagedMoves ==
  ASSUME HandoffInvariant, WriteStage \/ ChmodStage \/ SyncStage
  PROVE  HandoffInvariant' /\ WriterMove
  <1>0. HandoffTypes /\ StageIsFresh
    BY DEF HandoffInvariant
  <1>1. /\ writer.at \in {"write", "chmod", "sync"}
        /\ UNCHANGED <<entries, used, durable, taker, outcome>>
    BY DEF WriteStage, ChmodStage, SyncStage, Staged
  <1>2. /\ entries[Stage] = used /\ used > 0 /\ used \notin Settled
        /\ files[used].record = writer.record /\ writer.record > 0
        /\ \A f \in Settled : files[f].record < writer.record
    BY <1>0, <1>1 DEF StageIsFresh
  <1>3. used \in Files /\ files \in [Files -> File] /\ writer \in Writer
    BY <1>0, <1>2, FilesAreNumbered DEF HandoffTypes
  <1>4. \A f \in Files : f # used => files'[f] = files[f]
    BY <1>2, <1>3 DEF WriteStage, ChmodStage, SyncStage, Staged
  <1>5. Settled \subseteq Files /\ Settled' = Settled
    BY <1>0, <1>1 DEF HandoffTypes, Settled, Taker, Names
  <1>6. \A f \in Settled : files'[f] = files[f]
    BY <1>2, <1>4, <1>5
  <1>7. /\ files'[used] \in File /\ files' \in [Files -> File]
        /\ files'[used].record = writer.record
        /\ ChmodStage => files'[used].mode = "shared"
        /\ SyncStage => files'[used].mode = files[used].mode /\ files'[used].data = "synced"
    BY <1>2, <1>3 DEF WriteStage, ChmodStage, SyncStage, Staged, File
  <1>8. /\ writer' \in Writer /\ writer'.record = writer.record
        /\ writer'.at \in {"chmod", "sync", "replace"}
        /\ writer'.at = "sync" => ChmodStage
        /\ writer'.at = "replace" => SyncStage /\ writer.at = "sync"
    BY <1>3 DEF WriteStage, ChmodStage, SyncStage, Staged, Writer
  <1>9. HandoffTypes'
    BY <1>0, <1>1, <1>7, <1>8 DEF HandoffTypes
  <1>10. StageIsFresh'
    <2>1. writer'.at \in {"sync", "replace"} => files'[used].mode = "shared"
      BY <1>0, <1>7, <1>8 DEF StageIsFresh
    <2> QED
      BY <1>1, <1>2, <1>5, <1>6, <1>7, <1>8, <2>1 DEF StageIsFresh
  <1>11. used' >= used
    BY <1>0, <1>1 DEF HandoffTypes
  <1> QED
    BY <1>1, <1>6, <1>8, <1>9, <1>10, <1>11, StageMoves

LEMMA RenameStageMoves ==
  ASSUME HandoffInvariant, RenameStage
  PROVE  HandoffInvariant' /\ WriterMove
  <1>0. /\ HandoffTypes /\ Latest # Stage /\ Latest \in Names /\ Stage \in Names
    BY FilesAreNumbered DEF HandoffInvariant, Names
  <1>1. /\ writer.at = "replace" /\ UNCHANGED <<files, used, taker, outcome>>
        /\ writer' = [writer EXCEPT !.at = "syncDir"]
    BY DEF RenameStage
  <1>2. /\ entries[Stage] = used /\ used > 0 /\ used \notin Settled
        /\ files[used].record = writer.record /\ writer.record > 0
        /\ \A f \in Settled : files[f].record < writer.record
        /\ files[used].mode = "shared" /\ files[used].data = "synced"
    BY <1>1 DEF HandoffInvariant, StageIsFresh
  <1>3. used \in Files /\ used # NoFile
    BY <1>0, <1>2, FilesAreNumbered DEF HandoffTypes
  <1>4. /\ entries' \in [Names -> Files \union {NoFile}] /\ entries'[Latest] = used
        /\ durable' = durable \union {used}
    BY <1>0, <1>2 DEF RenameStage, HandoffTypes
  <1>5. writer' \in Writer /\ writer'.at = "syncDir" /\ writer'.record = writer.record
    BY <1>0, <1>1 DEF HandoffTypes, Writer
  <1>6. HandoffTypes'
    BY <1>0, <1>1, <1>3, <1>4, <1>5 DEF HandoffTypes
  <1>7. Settled' \subseteq Settled \union {used}
    BY <1>1, <1>4 DEF Settled
  <1>8. writer.record \in 1..writer.record /\ writer.record \in Records /\ used <= used
    BY <1>0, <1>2, HandoffAssumption DEF HandoffTypes, HandoffAssumption
  <1>9. SettledAreWhole'
    BY <1>1, <1>2, <1>5, <1>7, <1>8 DEF HandoffInvariant, SettledAreWhole
  <1>10. Renamed
    BY <1>1, <1>2, <1>3, <1>4, <1>8 DEF Renamed
  <1>11. StageIsFresh'
    BY <1>5 DEF StageIsFresh
  <1> QED
    BY <1>1, <1>6, <1>9, <1>10, <1>11
      DEF HandoffInvariant, TakerHolds, PublicationIsNeverUnsafe, WriterMove

(* Power loss spares what is synced, and every settled file is.            *)
LEMMA PowerLossMoves ==
  ASSUME HandoffInvariant, PowerLoss
  PROVE  HandoffInvariant' /\ WriterMove
  <1>0. /\ HandoffTypes /\ Latest # Stage /\ Latest \in Names /\ Stage \in Names
    BY FilesAreNumbered DEF HandoffInvariant, Names
  <1>1. PICK f \in durable :
          \E s \in ({entries[Stage], entries[Latest]} \ {f}) \union {NoFile} :
            /\ entries' = [entries EXCEPT ![Latest] = f, ![Stage] = s]
            /\ durable' = {f}
    BY Zenon DEF PowerLoss
  <1>2. /\ entries' \in [Names -> Files \union {NoFile}] /\ entries'[Latest] = f
        /\ durable' = {f} /\ f \in Files \union {NoFile}
    BY <1>0, <1>1 DEF HandoffTypes
  <1>3. /\ UNCHANGED <<used, outcome>>
        /\ taker' = [taker EXCEPT !.at = "idle", !.seen = {}, !.file = NoFile]
        /\ writer' = [writer EXCEPT !.at = "down", !.restarts = @ + 1]
    BY DEF PowerLoss
  <1>4. taker' \in Taker /\ taker'.at = "idle" /\ taker'.file = NoFile
    BY <1>0, <1>3, Zenon DEF HandoffTypes, Taker
  <1>5. writer' \in Writer /\ writer'.at = "down" /\ writer'.record = writer.record
    <2>1. writer \in Writer /\ writer.restarts + 1 \in Nat
      BY <1>0 DEF HandoffTypes, Writer
    <2> QED
      BY <1>3, <2>1, Zenon DEF Writer
  <1>6. \A g \in Files :
          /\ files'[g] \in File
          /\ files[g].data = "synced" => files'[g] = files[g]
    BY <1>0 DEF PowerLoss, HandoffTypes, File
  <1>7. files' \in [Files -> File]
    BY <1>6 DEF PowerLoss
  <1>8. HandoffTypes'
    BY <1>0, <1>2, <1>3, <1>4, <1>5, <1>7 DEF HandoffTypes
  <1>9. Settled' \subseteq Settled /\ Settled \subseteq Files
    BY <1>0, <1>2, <1>4 DEF Settled, HandoffTypes, Taker
  <1>10. \A g \in Settled : files'[g] = files[g]
    BY <1>6, <1>9 DEF HandoffInvariant, SettledAreWhole
  <1>11. SettledAreWhole'
    BY <1>3, <1>5, <1>9, <1>10 DEF HandoffInvariant, SettledAreWhole
  <1>12. StageIsFresh' /\ TakerHolds'
    BY <1>4, <1>5 DEF StageIsFresh, TakerHolds
  <1> QED
    BY <1>2, <1>3, <1>4, <1>8, <1>10, <1>11, <1>12
      DEF HandoffInvariant, PublicationIsNeverUnsafe, WriterMove

LEMMA WriterMoves ==
  ASSUME HandoffInvariant, WriterStep
  PROVE  HandoffInvariant' /\ WriterMove
  BY QuietWriterMoves, CreateStageMoves, StagedMoves, RenameStageMoves, PowerLossMoves
    DEF WriterStep

LEMMA InvariantIsInductive ==
  HandoffInvariant /\ [HandoffNext]_svars => HandoffInvariant'
  <1> SUFFICES ASSUME HandoffInvariant, [HandoffNext]_svars
               PROVE  HandoffInvariant'
    OBVIOUS
  <1>1. CASE WriterStep
    BY <1>1, WriterMoves
  <1>2. CASE ReaderStep
    BY <1>2, ReaderKeepsInvariant
  <1>3. CASE UNCHANGED svars
    BY <1>3, Zenon DEF svars, HandoffInvariant, HandoffTypes, SettledAreWhole, Settled, StageIsFresh,
      TakerHolds, PublicationIsNeverUnsafe
  <1> QED
    BY <1>1, <1>2, <1>3 DEF HandoffNext

(* publishData and Reader.Read: in every reachable state, whatever a       *)
(* reader, a later Read or a reboot may take for the latest record is a    *)
(* whole, synced, readable file holding a record that was published, and   *)
(* what is being staged is none of them.                                   *)
THEOREM HandoffInvariantHolds == HandoffSpec => []HandoffInvariant
  BY HandoffInitially, InvariantIsInductive, PTL DEF HandoffSpec

(* checkEntries, openFile, checkHandle and the decoder: publications,      *)
(* deaths of the writer and power losses in any number never make a Read   *)
(* report the directory as unsafe or the record as invalid.                *)
THEOREM NeverUnsafe == HandoffSpec => []PublicationIsNeverUnsafe
  <1>1. HandoffInvariant => PublicationIsNeverUnsafe
    BY DEF HandoffInvariant
  <1> QED
    BY <1>1, HandoffInvariantHolds, PTL

-----------------------------------------------------------------------------
(* The register.  A settled file counts as the record it holds.            *)
LEMMA SettledRecords ==
  ASSUME HandoffInvariant
  PROVE  /\ RecordOf(NoFile) = 0
         /\ \A f \in Settled : RecordOf(f) = files[f].record /\ RecordOf(f) \in Nat \ {0}
  <1>1. \A f \in Settled : f # NoFile
    BY DEF Settled
  <1>2. /\ writer.record \in Nat
        /\ \A f \in Settled : files[f].data = "synced" /\ files[f].record \in 1..writer.record
    BY DEF HandoffInvariant, HandoffTypes, SettledAreWhole
  <1> QED
    BY <1>1, <1>2 DEF RecordOf

(* A step that leaves the settled files alone leaves their records alone.  *)
LEMMA RecordsStay ==
  ASSUME HandoffInvariant, \A f \in Settled : files'[f] = files[f]
  PROVE  \A f \in Settled \union {NoFile} : RecordOf(f)' = RecordOf(f)
  BY Zenon DEF RecordOf

LEMMA WriterImplements ==
  ASSUME HandoffInvariant, WriterMove
  PROVE  [Slot!SlotNext]_(Slot!slotVars)
  <1>1. outcome' = outcome /\ \A f \in Settled \union {NoFile} : RecordOf(f)' = RecordOf(f)
    BY RecordsStay, Zenon DEF WriterMove
  <1>2. /\ entries[Latest] \in Settled \union {NoFile} /\ taker.file \in Settled \union {NoFile}
        /\ durable \subseteq Settled \union {NoFile}
    BY DEF Settled
  <1>3. CASE entries'[Latest] = entries[Latest] /\ durable' = durable /\ taker' = taker
    <2>1. /\ RecordOf(entries[Latest])' = RecordOf(entries[Latest])
          /\ RecordOf(taker.file)' = RecordOf(taker.file)
          /\ {RecordOf(f) : f \in durable}' = {RecordOf(f) : f \in durable}
      BY <1>1, <1>2, <1>3 DEF RecordOf
    <2> QED
      BY <1>1, <2>1 DEF Slot!slotVars
  <1>4. CASE entries'[Latest] = entries[Latest] /\ durable' = {entries[Latest]} /\ taker' = taker
    <2>1. /\ RecordOf(entries[Latest])' = RecordOf(entries[Latest])
          /\ RecordOf(taker.file)' = RecordOf(taker.file)
      BY <1>1, <1>2, <1>4 DEF RecordOf
    <2>2. {RecordOf(f) : f \in durable}' = {RecordOf(entries[Latest])}
      BY <1>4, <2>1 DEF RecordOf
    <2> QED
      BY <1>1, <2>1, <2>2 DEF Slot!SlotNext, Slot!Settle
  <1>5. CASE Renamed
    <2>1. RecordOf(used) = writer.record /\ files' = files
      BY <1>5 DEF Renamed, RecordOf
    <2>2. /\ RecordOf(entries[Latest])' = writer.record
          /\ RecordOf(taker.file)' = RecordOf(taker.file)
          /\ {RecordOf(f) : f \in durable}' = {RecordOf(f) : f \in durable} \union {writer.record}
      BY <1>5, <2>1 DEF Renamed, RecordOf
    <2>3. writer.record > RecordOf(entries[Latest])
      <3>1. writer.record \in Nat \ {0}
        BY <1>5, HandoffAssumption DEF Renamed, HandoffAssumption
      <3>2. \A f \in Settled : writer.record > RecordOf(f)
        BY <1>5, <3>1, SettledRecords DEF Renamed
      <3> QED
        BY <1>2, <3>1, <3>2, SettledRecords
    <2>4. Slot!Publish(writer.record)
      BY <1>1, <2>2, <2>3 DEF Slot!Publish
    <2>5. writer.record \in Records
      BY <1>5 DEF Renamed
    <2> QED
      BY <2>4, <2>5 DEF Slot!SlotNext
  <1>6. ASSUME NEW f \in durable,
               entries'[Latest] = f, durable' = {f}, taker'.file = NoFile
        PROVE  Slot!Reboot
    <2>1. RecordOf(f)' = RecordOf(f)
      BY <1>1, <1>2
    <2>2. /\ RecordOf(entries[Latest])' = RecordOf(f)
          /\ RecordOf(taker.file)' = 0
          /\ {RecordOf(g) : g \in durable}' = {RecordOf(f)}
      BY <1>6, <2>1 DEF RecordOf
    <2>3. RecordOf(f) \in {RecordOf(g) : g \in durable}
      OBVIOUS
    <2> QED
      BY <1>1, <2>2, <2>3 DEF Slot!Reboot
  <1> QED
    BY <1>3, <1>4, <1>5, <1>6, Zenon DEF WriterMove, Slot!SlotNext

LEMMA ReaderImplements ==
  ASSUME HandoffInvariant, ReaderMove, UNCHANGED <<entries, files, durable>>
  PROVE  [Slot!SlotNext]_(Slot!slotVars)
  <1>1. /\ RecordOf(entries[Latest])' = RecordOf(entries[Latest])
        /\ {RecordOf(f) : f \in durable}' = {RecordOf(f) : f \in durable}
    BY DEF RecordOf
  <1>2. CASE taker'.file = taker.file /\ outcome' = outcome
    <2>1. RecordOf(taker.file)' = RecordOf(taker.file)
      BY <1>2 DEF RecordOf
    <2> QED
      BY <1>1, <1>2, <2>1 DEF Slot!slotVars
  <1>3. CASE taker'.file = NoFile /\ outcome'.record \in {0, RecordOf(taker.file)}
    <2>1. RecordOf(taker.file)' = 0
      BY <1>3 DEF RecordOf
    <2> QED
      BY <1>1, <1>3, <2>1 DEF Slot!Return, Slot!SlotNext
  <1>4. CASE /\ taker.file = NoFile /\ entries[Latest] # NoFile
             /\ taker'.file = entries[Latest] /\ outcome' = outcome
    <2>1. RecordOf(taker.file) = 0 /\ RecordOf(taker.file)' = RecordOf(entries[Latest])
      BY <1>4 DEF RecordOf
    <2>2. RecordOf(entries[Latest]) # 0
      BY <1>4, SettledRecords DEF Settled
    <2> QED
      BY <1>1, <1>4, <2>1, <2>2, Zenon DEF Slot!Take, Slot!SlotNext
  <1> QED
    BY <1>2, <1>3, <1>4 DEF ReaderMove

(* publishData and Reader.Read refine the register: the rename is Publish, *)
(* the sync of the directory Settle, the open Take, the end of a Read      *)
(* Return and a power loss Reboot; every other call, and the death of the  *)
(* writer between any two, leaves the register as it is.                   *)
THEOREM RefinesSlot == HandoffSpec => ImplementsSlot
  <1>1. HandoffInit => Slot!SlotInit
    <2> SUFFICES ASSUME HandoffInit PROVE Slot!SlotInit
      OBVIOUS
    <2>1. /\ entries[Latest] = NoFile /\ durable = {NoFile} /\ taker.file = NoFile
          /\ outcome.record = 0 /\ RecordOf(NoFile) = 0
      BY DEF HandoffInit, NoOutcome, RecordOf
    <2>2. {RecordOf(f) : f \in durable} = {0}
      BY <2>1
    <2> QED
      BY <2>1, <2>2 DEF Slot!SlotInit
  <1>2. HandoffInvariant /\ [HandoffNext]_svars => [Slot!SlotNext]_(Slot!slotVars)
    <2> SUFFICES ASSUME HandoffInvariant, [HandoffNext]_svars
                 PROVE  [Slot!SlotNext]_(Slot!slotVars)
      OBVIOUS
    <2>1. CASE WriterStep
      BY <2>1, WriterMoves, WriterImplements
    <2>2. CASE ReaderStep
      BY <2>2, ReaderMoves, ReaderImplements
    <2>3. CASE UNCHANGED svars
      BY <2>3, Zenon DEF svars, Slot!slotVars, RecordOf
    <2> QED
      BY <2>1, <2>2, <2>3 DEF HandoffNext
  <1> QED
    BY <1>1, <1>2, HandoffInvariantHolds, PTL DEF HandoffSpec, ImplementsSlot, Slot!SlotSpec

=============================================================================
