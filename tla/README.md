# Home Lab Observer: TLA+ verification project

TLA+ models of the parts of Home Lab Observer that keep durable state, talk to
another process or run beside one; the TLC runs that check them on small
instances; and TLAPS proofs of what matters most for every instance. All paths
below are relative to `src/`.

## 1. The system

The observer is a Go program, split into processes with separate users and
privileges. The parts, their state, and what makes them hard:

| Part | State | What is hard |
| --- | --- | --- |
| Uploader (`internal/uploadstate`, `uploadledger`, `platformtransport`) | one ledger row, its cached copy | kills around every commit and send, a COMMIT that fails after it took effect, late and repeated delivery, a clock set by hand, the last sequence number |
| Upload loop (`internal/uploadloop`) | single-use flag, backoff counters | cancellation racing a step, concurrent callers |
| Action journal and core (`internal/actionjournal`, `actioncore`, `actionengine`) | rows of actions, the pruning floor, attempts in memory | at most one engine call per action over crashes, expiry, pruning and clock changes; calls that take effect late |
| Action broker (`internal/actionbroker`, `actionworker`, `actionremote`) | reservations, claims, the fence | conversations broken or left behind by a restarted worker, claims handed out by the platform whose answer is lost |
| Action budget (`internal/actionbudget`) | stamps of three clocks | a host that sleeps, a wall clock that is set |
| Activation (`internal/connectedinstall`, `connectedstartup`, `connectedactivation`) | units, request/response/commit records, the installed configuration | two processes with separate deadlines that agree through files, administrators beside them, late start jobs |
| Docker lifecycle (the same packages) | the reader's records and gate, three units | a transaction over three workers that fails in the middle |
| Status (`internal/connectedstatus`, `ReadStatus`) | one status file per worker | several reads at different moments of workers that restart |
| Installers and enrollment (`internal/connectedinstall`, `connectedenroll`, `enrollmentstore`, ...) | targets on the host, the enrollment directory, a single-use grant | failure between any two targets, a grant spent between two durable steps |
| Transition stage (`internal/connectedstagefs`, `connectedtransition`) | staged files and the first journal | loss of power between any two file operations |
| Handoff (`internal/sharedhandoff`) | one file | replacement under a reader of another user, power loss |
| Rich pipeline (`internal/dockerreader`, `connectedprofile`, `cmd/*-rich-*`) | policy file, configuration, two slots, pending upload | consent withdrawn or changed while three processes run |
| Host collection (`internal/collector`, `numerichost`, `containerobs`, projections) | none between calls; counters of containers | partial failure, a deadline in the middle, fan-out |
| Host history (`internal/scheduler`, `history`, `series`) | samples, rollups, sequence, health | retention and rollups in bounded batches, quarantine, half-failed transactions |
| Native logs (`internal/journalreader`, `logobs`, `history/log_*`) | cursor, coverage intervals, counts, a memory overlay | what was never read must never count as covered |
| Background profile (`internal/background`) | guard, marker, settings, registration | operations and the installer that die at any step |
| Observer process (`cmd/observer`, `internal/lifecycle`, `diagnostics`) | control files, ports, rotated files | shutdown with requests and collections running, restarts |

The collector samples the host, stores samples and logs in the local history and
hands a snapshot to the uploader through a one-record file. The uploader sends
it to the hosted platform, held at every start by the activation gate; root runs
the transactions that install, start, stop and report. Actions arrive at the
broker, which reserves and claims them and runs them through the core over the
journal and the container engine. The local observer serves the history on the
host and is managed by the background profile.

`PROJECT.json` lists every component with its status, every definition with the
lines it models, and under `hazards` every place where a test would hardly reach
what can go wrong.

## 2. Modules

| Module | Models |
| --- | --- |
| `UploadMachine` | `Machine.Step` over its ledger, against the receiver |
| `UploadLoop` | `Loop.Run` |
| `ActionJournal` | the journal's transactions and what a failed one leaves |
| `ActionWorker` | `Worker.Execute` by several workers, composed with the journal (EXTENDS) and the engine |
| `ActionReceipt` | abstract: what one receipt may go through |
| `ActionBroker` | broker, worker, platform and their conversations |
| `ActionBudget` | the three clocks and the time limits of one action |
| `Activation` | `Start`, `Stop`, the gate and the service manager |
| `DockerLifecycle` | start and stop of the pair with a Docker reader, the reader's gate |
| `PairStatus` | the workers' status records and `ReadStatus` |
| `EnrollmentStore`, `Installer` | the enrollment directory as operators; the install commands that use it |
| `TransitionStage` | staging of a change and its first journal |
| `SharedHandoff`, `HandoffSlot` | the handoff directory, and the register it implements |
| `RichPipeline` | Docker reader, rich collector and guarded uploader over two slots |
| `HostProjection`, `Workloads`, `HostCollect` | what sections become in documents; one collection |
| `ContainerCollect` | the fan-out of one container cycle |
| `HostHistory` | scheduler, store, recovery and series |
| `LogCoverage`, `LogCoverageSweep` | coverage evidence cell by cell; the interval algorithms of the code |
| `LogHistory`, `LogStatus` | one log source to the store; what the collector publishes |
| `Background` | the background profile's operations, the installer, the session manager |
| `ObserverRuntime`, `Diagnostics` | the serving process and its stop channel; the rotated diagnostics |
| `*Proofs`, `ActionWorkerSteps`, `BackgroundInvariant` | theorems and their lemmas |

`MC*` modules give constants their values. Several of them join modules that do
not share state: a variable `part` says which one a behaviour belongs to, and the
others rest in their initial states or have the value `Off`. A property of such a
run is the module's own property, restricted to its part where the others are
`Off`. The components that do interact are composed in their own modules:
`ActionWorker` over `ActionJournal`, `Installer` over `EnrollmentStore`,
`LogStatus` over `LogHistory`, `HostCollect` over the projections, and
`RichPipeline`, which takes a slot as atomic because `SharedHandoff` implements
`HandoffSlot`.

Mutants stand beside the definition they change and are marked `Mutant`; they
are used by no specification.

### How state and actions correspond to the code

**UploadMachine.** `record`, `recovery` are the machine's fields, `disk` the
ledger row. One `Step` is several actions, cut where the process may be killed,
the clock may move or a request may arrive. A ledger commit with its computation
is one action: the machine holds its mutex and the ledger is under an exclusive
lock. `Commit` chooses whether a storage error fell before or after the effect.
`wire` keeps every request ever sent; any of them may arrive, again, at any later
time. The receiver is external: it stores by sequence and answers as the client's
status classes say. A body stands for its digest.

**UploadLoop.** Callers race for `Run`; a `Step` returns anything the interface
allows, also after a cancel. The delays are the real ones. The failure paths of
jitter and of the wait are left out: with the production functions they are not
reachable.

**ActionJournal, ActionWorker, ActionReceipt.** A row is an action with its
intent and terminal event. Each exported journal operation is one transaction
under `TryLock` and one action, with the outcomes a failed transaction may have
(`StorageFault`); a store with more rows than its limit latches recovery, which
is not the refusal of a full one. `Execute` is cut before and after each of them and around the
engine call; `inflight` holds calls the engine may still carry out when nobody
waits for them. A crash clears attempts and workers and keeps the rows.
`ActionReceipt` is the promise to the caller: one status per receipt, at most one
dispatch. `Prune` is modelled although production code does not call it yet.

**ActionBroker.** `live` are the reservations by nonce, `at`/`talk` the broker's
handlers, `worker` the remote worker's process, `wire` the message each
connection carries, `remote` what the platform holds of each action. Either
process may be killed between any two steps; the worker that follows leaves
conversations behind that the broker still executes. The journal is seen through
its `AdmissionSnapshot` and the attempt of one execution. Time is not modelled: a
deadline that may have passed is a check that may fail, and a cooldown ends at
any moment. Quiescing is folded into the fence; `finish` may fail to read the
journal and then keeps the reservation with the broker locked, as in the code.

**ActionBudget.** `boot` is BOOTTIME, `lag` how much of it the host slept, `drift`
and `ahead` how far the wall clock and the server's clock are from it.
Readings, conversation, execution and report are the checks of the code on
stamps of the three. The server hands out a claim whenever it likes; that its
delivery is in time is checked where the code checks it, when the claim is
accepted. `CheckDecision`, quiescence and the matching of claims,
digests and containers are left out.

**Activation.** `tx` is the transaction that holds the installation lease, `up`
the uploader with its gate, `unit` the service manager's view, `files` the
records. Every read and write of the transaction that another process may
interleave with is an action. Inspections of units that follow each other
without an effect in between are one step where a later check of the same unit
follows: an instance that is gone never comes back, so all of them held at the
moment of the first. The last two, before success, are steps of their own:
`Start` may succeed although the uploader died between them. `activating` and
`deactivating` count as active; where the code tells them apart it fails, which
is always possible here (`RootFails`, and `Refuse` for a call that ends before
its first command, a failed inspection of `Stop` among them). The administrator starts and stops units, a failed
start command may leave a job that runs later, and root and the workers die
anywhere. Contents of records are the facts the code compares: invocation,
challenge, configuration version.

**DockerLifecycle.** The transaction that brings up the reader before the pair,
command by command (`root`), the reader's own gate (`gate`, `records`) and the
engine, whose restart makes a new socket. The check of the worker and of the
socket are one step, the installed configuration is a constant, and a challenge
is its invocation. The pair's records and gate are those of `Activation`.

**PairStatus.** One call of `ReadStatus`, read by read, beside the workers. Its
gate may open at any time, which allows more than `Activation` does. The
classification has all branches of the code, but three of them are not reached:
no unit is ever seen `activating` or `deactivating` (the report would be
`STARTING`, which promises nothing), a collector's record counts as `COLLECTING`
wherever it is read, and no worker writes a state that is not known.

**Installer, EnrollmentStore.** A call of an install command holds the lease,
refuses a host that holds any of its targets and makes them one by one; `targets`
says how far each got and which call made it. The enrollment unit works on `dir`
through the operators of `EnrollmentStore` and spends the grant at the platform
(`server`). Calls fail and are killed at every step.

**TransitionStage.** `visible` is what a process reads, `durable` the
directories a power loss may leave: file contents that are not synced, and names
whose directory is not, may come back or not. Owner, mode and ACL checks pass,
one operation runs at a time (the lease), foreign evidence is left out.

**SharedHandoff, HandoffSlot.** The writer stages, syncs, renames and syncs the
directory; the reader opens, checks and reads without a lock. Identity, owner and
ACL checks pass. `HandoffSlot` is a register: publish, settle, read, reboot.

**RichPipeline.** The three processes with the policy each bound itself to. A
check and the operation it guards are one action: nothing but a check reads the
two files, so a change between them comes to the same as one after them.
`Machine.Step` is taken without sequence numbers and storage faults, which
`UploadMachine` has; a record that decodes is a valid snapshot, so `ErrSnapshot`
does not come up. An uploader may be killed at any step or fail to write its
status, and then reports nothing of the step at hand; one that is ended by a
signal writes `STOPPED`, also over the `RECOVERY_REQUIRED` of a step that was
refused meanwhile. The clock is monotone. Replacements of
policy and configuration are unbounded; starts are bounded.

**HostCollect, HostProjection, Workloads, ContainerCollect.** The sections of a
snapshot are read one after the other with any provider failing and the context
ending anywhere; the projections are operators. Numbers and names are the
classes that validation and projection tell apart. `ContainerCollect` is the
fan-out: indices handed to goroutines, results in any order, a deadline at any
point.

**HostHistory.** A transaction is one step; one that fails leaves either
database. `db` is the file, `proc` the scheduler's program counter with the
published sequence and the health. `kept`, `highest` and `lost` are history
variables of the properties. Losing the machine's power is not modelled.

**LogCoverage, LogCoverageSweep, LogHistory, LogStatus.** `LogCoverage` says cell
by cell what evidence means, `LogCoverageSweep` translates the merge, the
trimming and the projection of `history/log_coverage.go`. In `LogHistory` records
are logged, vacuumed and read through a cursor, a batch commits counts, coverage
and cursor together, and pruning goes by age and by size in bounded batches;
`fate` remembers what became of every record. The native read is placed at its
end, with the query start taken before it. One source is modelled; others appear
only as a use of the prune budget. What `CommitBatch` validates before it writes,
and its limits of rows and integers, appear as a commit that may fail; that what
is written would pass is `StoredStateLoads`. The clock is monotone. `LogStatus` adds the
collector's memory and summaries that read store and overlay at different
moments.

**Background.** Every file appears, is renamed or removed in a step of its own;
two operations and the installer interleave, die and fail. The session manager
is external, one of systemd, launchd and the Windows Task Scheduler; its commands
are steps of their own, and on Linux the owner may add a drop-in that makes the
unit differ from the one that was registered (`Override`). The installer is
`packaging/install.sh`: its lock, its check of the background area and its
uninstall.

**ObserverRuntime, Diagnostics.** `serve` from listening to the end of the drain,
the control directory file by file, and a requester of a stop. The watch for a
request runs from the publication to the end of the endpoint. Whether the store
is closed depends, as in the code, on what the waits returned and not on what the
collectors do at that moment, and an error of closing it makes the end unclean. A
collector that is told to stop while its tick is due may collect once more. The
diagnostics writer is cut at every rename, removal and write; a write may fail in
the middle or at the close, and the wall clock may be set back.

## 3. Runs

| Run | Question | Bounds |
| --- | --- | --- |
| `upload_machine` | Does the row stay true and does a pending frame leave it? | two bodies, sequences 1..3, five instants, one clock jump |
| `activation` | parts *activation*, *loop*, *install*: is what is installed one call's, does the gate open only under the audited configuration, do both sides and a cancelled loop end? | one invocation per unit, two configurations, two attempts; two callers of `Run`; two install calls of any profile with one grant |
| `receipts` | Is every container action dispatched at most once and fenced, and does the whole implement `ActionReceipt`? | two workers; receipts that are names of one container, that claim one identity, or that are unrelated; up to four instants and one clock jump |
| `actions` | parts *broker*, *budget*: is every claim accounted for, do the clocks limit effects? | three actions on two containers, two handlers, two worker processes, one broker; nine instants with sleeps and clock changes of three |
| `connected` | parts *pair*, *status*, *docker*, *stage*: what opens a gate, what do start and stop leave, is a status report true, what does a power loss leave? | two invocations per unit, two calls, two accidents, two sockets; two events beside `ReadStatus`, one when a reader is there |
| `observations` | parts *host*, *history*, *handoff*, *pipeline*, *inventory*: the way of a snapshot to the platform | limits of one to three rows, three records through the slot with two restarts, two metrics over four instants, two policies and three starts, three containers |
| `service` | parts *profile*, *history*, *status*, *coverage*: do the operations of the background profile exclude each other and stay recoverable; do log rows load, are counts exact, is the page backed? | two operations at once and one more after a fault on Linux, one fault; three records and four instants, one record vacuumed; every evidence of four cells |
| `runtime` | parts *runtime*, *diagnostics*: what serves, does a request end it, what do the files keep? | two processes, two starts, one request, one fault; five records, and a death or a clock set back |
| `log_reset_race`, `host_recovery`, `background_login`, `stop_unclean` | **violations**, see section 6 | |

Why the bounds are enough for the cases: sequence 3 of 3 reaches exhaustion with
two sequences before it; a second body is what a conflict needs; one clock jump
goes back behind an expiry or the pruning floor; two workers meet every lock, and
a third receipt meets the limit of two; two invocations are an old and a new one;
two calls are an attempt and the one that finds its leftovers; three records are
more than one answer holds; a retention of one tick over four instants lets log
records expire both before and after they are counted; two policies are consent and its change. These are
small instances: they show the cases named, not every size.
`AdmissionMatchesConfig` needs two configurations and one invocation,
`AdmissionIsAuthorised` two invocations and one configuration, so the two are
checked in different runs.

Symmetry is used for workers, handlers, background operations, settings and for
receipts and actions that are alike, in runs whose properties are invariants or,
for `ImplementsReceipt`, a safety formula that treats all receipts alike; never
with liveness. Deadlock is checked in `upload_machine`. The other runs say
`CHECK_DEADLOCK FALSE` because their bounded systems really end: calls, starts,
restarts or the last instant are used up.

Every property has a mutant, a plausible mistake in one definition under which
TLC finds the property broken.

## 4. What the properties say

* Upload: a sequence number names one body for ever, nothing is sent before its
  row is durable, an acknowledgement is true and the uploader never conflicts
  with itself (conjuncts and consequences of `LedgerInvariant`); the row only
  advances (`LedgerOnlyAdvances`); a pending frame is resolved
  (`PendingIsResolved`).
* Loop and installation: one loop with the pauses its own failures call for
  (`LoopIsBounded`), a cancelled one ends (`CancelEnds`); what start and status
  accept is one call's throughout (`InstalledIsWhole`) and the phase a failed
  install reports is true (`PhaseIsHonest`).
* Activation: the gate opens only for an invocation a transaction committed after
  its collector had collected (`AdmissionIsAuthorised`) and under the
  configuration it audited (`AdmissionMatchesConfig`); start and stop return the
  truth (`ReturnsAreTrue`); both sides end (`ActivationEnds`); a status report is
  of one moment, admitted and fresh (`ReportIsTrue`).
* Docker and staging: no engine call before the audit and no worker left behind
  by a refused start (`DockerStartIsSafe`); a power loss leaves a phase that
  recovery knows (`SurvivesPowerLoss`).
* Actions: at most one engine request per receipt (`AtMostOneDispatch`), never
  two for one container (`OneRequestPerContainer`), returned codes are durable
  (`ReturnedIsDurable`), the store opens again (`StoreAlwaysOpens`), and all of it
  implements `ActionReceipt` (`ImplementsReceipt`); every claim is carried by a
  reservation or has its record while the broker admits work
  (`ClaimsAreAccounted`), reservations are disjoint, within the journal's room and
  report only what is retained (`ReservationsAgree`); effects are timely
  (`EffectIsTimely`) and nothing is refused early (`NothingIsRefusedEarly`).
* Observations: what is collected can be sent and shows nothing that was not read
  (`CollectionIsSound`); an inventory is whole (`InventoryIsWhole`); the history
  neither loses nor invents a sample (`HistoryIsTrue`) and publishes under fresh
  sequences (`PublishedIsFresh`); nothing is sent without consent, and a refusal
  is reported (`ConsentIsKept`); pending data is neither sent, dropped nor
  replaced without it (`ConsentGates`); the handoff file is a register
  (`ImplementsSlot`).
* Service: operations exclude each other (`OperationsExclude`), the registration
  is answered for (`RegistrationIsOwned`), interrupted operations can be taken up
  (`InterruptedIsRecoverable`).
* Logs: stored rows load (`StoredStateLoads`), counts and coverage agree with the
  journal (`CountsAreTrue`), the published page is backed (`PageIsTrue`), the
  interval algorithms are exact (`CoverageIsExact`).
* Runtime: what serves is published and its store is open, and a requester is told
  that an instance stopped only once it no longer serves (`ServingIsBacked`; what
  the comments promise beyond that is the subject of `stop_unclean`), a request ends the instance it names (`RequestEndsInstance`), rotated files are a
  gapless run of records (`KeptIsGapless`).

**Fairness.** `UploadMachine`: weak fairness of the machine's own steps, because
the loop calls `Step` again after every non-terminal outcome with a bounded delay
and every request has a deadline, and of the clock. Kills, faults and delivery
are not fair: the receiver may never answer. `UploadLoop`: timers fire and a
`Step` returns, both bounded. `Activation`: weak fairness of the transaction's own
step, which runs under a 30 second context, and of the gate's step or its own 30
second expiry. `ObserverRuntime`: weak fairness of each process's own next step
and of the watcher that polls for a request; a collection and a handler need
never end, because every wait of the shutdown for them is bounded. Nothing is
assumed of administrators, the service manager, requesters or the other side.

## 5. Proofs

TLAPS checks the following for every value of the constants.

### The uploader (`UploadMachineProofs`)

Under `MachineAssumption` and `NoneAssumption` (constants have their types;
`None` is no body, request, record or reply), for all bodies, limits, clocks and
any number of jumps:

| Theorem | Statement |
| --- | --- |
| `TypeCorrect` | `Spec => []TypeOK` |
| `LedgerSafety` | `Spec => []LedgerInvariant` |
| `OneBodyPerSequence` | `Spec => []SequenceNamesOneBody` |
| `SendsAreDurable` | `Spec => []SentIsDurable` |
| `AcksAreTrue` | `Spec => []AckIsStored` |
| `ConflictIsForeign` | `Spec => []NoSelfConflict` |
| `RowOnlyAdvances` | `Spec => LedgerOnlyAdvances` |
| `PendingIsKept` | `Spec => PendingLeavesForAReason` |
| `LoopHolds` | `LoopSpec => []LoopIsBounded` (the loop, for any set of callers) |

None of these is inductive alone: that two requests with one sequence carry one
body needs the row to cover everything on the wire, and that needs the cached
record to be the row whenever the machine acts on it. `LedgerInvariant` joins
them: the cache is the row unless recovery is latched (`CacheIsLedger`), every
request sent is below the watermark or is the pending one (`WireIsCovered`), the
receiver holds only what was sent (`ReceiverHoldsSent`), and a reply that matches
is about a stored request (`ReplyIsTrue`). TLC checks it in `upload_machine`.
Lemmas show that each kind of commit passes the ledger's own checks,
`CommitCases` splits a commit by its fault, and `InvStep` goes action by action.
The two action properties follow through `StepMovesRow`. `TypeOK`,
`SequenceNamesOneBody`, `SentIsDurable` and `PendingLeavesForAReason` are
theorems only. The loop's invariant (`LoopInv`) adds to the property that a caller
who got the loop has it while it runs and its result after that, that it is the
only one, and that a loop that was used is not started again.

### Container actions (`ActionWorkerSteps`, `ActionWorkerProofs`)

Under `JournalAssumption` (finitely many receipts with their times in order,
natural limits, `None` outside the data), for any receipts however they share
identities, targets and containers, any workers, limits and clock:

| Theorem | Statement |
| --- | --- |
| `InvariantHolds` | `Spec => []ActionInvariant` |
| `TypeCorrect` | `Spec => []TypeOK` |
| `DispatchesOnce` | `Spec => []AtMostOneDispatch` |
| `ContainersAreFenced` | `Spec => []OneRequestPerContainer` |
| `StoreOpens` | `Spec => []StoreAlwaysOpens` |
| `ReturnsDurable` | `Spec => []ReturnedIsDurable` |
| `RefinesReceipt` | `Spec => ImplementsReceipt` |

What makes the single dispatch hold is spread over the memory of the workers, the
attempts of the handle and the rows of the store, so `ActionInvariant` has a part
for each relation:

* `WorkersHold`, `ActiveAttempts`, `CachedRows`: a worker between `Acquire` and
  `Close` holds an attempt on its own receipt, the handle's map has exactly the
  attempts that are open, and what an open attempt caches is the row, so a
  decision taken from memory is one about the store;
* `OneDispatcher`, `RequestsAreBacked`: a request that is out or was ever sent has
  an intent in the row of its receipt, or the row was swept and lies behind the
  floor; one worker at most is about to send;
* `ForgottenStayOut`: a receipt that was dispatched and whose row is gone is below
  the pruning floor, so redelivery is refused. This is the part that makes pruning
  safe, and why `Prune` must raise the floor in the transaction that deletes;
* `RowsAreSound`: what `verify` demands of a row, as it is written;
* `EngagedAreFew`: uncertain rows and open attempts together are at most two and
  unrelated, which is what `Acquire` counts and what `verify` recounts.

The argument first reduces every action to what it may do to one row, one worker,
one attempt and the floor (`Form` to `Moves`, lemma by lemma in
`ActionWorkerSteps`), and then shows for each part of the invariant that such
moves keep it (`ActionWorkerProofs`), so that no later lemma looks at an
action again. Counting is done last, with the cardinality facts of the library.
The refinement maps a receipt to its status in the store (`ReceiptStatus`) and
goes through the same moves: every step is one step of `ActionReceipt` for one
receipt, a sweep, or a stutter. `ActionInvariant` was checked by TLC on the
instance of `receipts` before it was proved.

### Time limits (`RuntimeProofs`)

`EffectsAreTimely` (`BudgetSpec => []EffectIsTimely`) and `NoEarlyRefusal`
(`BudgetSpec => []NothingIsRefusedEarly`), under `LimitsAssumption` and
`AbsentAssumption`: for all limits with `Control <= Reserve` (as the code's
constants have it) and any movement of the clocks, from an invariant that says
what an accepted reading, an open conversation and an execution are worth in terms
of the server's clock.

### Consent of the rich pipeline (`ObservationProofs`)

Under `PipelineAssumption` (the age limits and the bounds are natural numbers),
for any set of policies and any number of restarts and replacements:

| Theorem | Statement |
| --- | --- |
| `PipelineInvariantHolds` | `PipelineSpec => []PipelineInvariant` |
| `ConsentHolds` | `PipelineSpec => []ConsentIsKept` |
| `NothingMovesUnconsented` | `PipelineSpec => ConsentGates` |

A body passes through four processes before it is sent, so what is sent is right
only because of what was true of it earlier. `CollectedIsSound` says that what a
collector is about to publish, and what it left in the slot, has a section of its
own policy that was fresh when the host was collected; `UploadIsEnrolled` says
that what an uploader took, keeps or sent is of the enrolled policy;
`UploaderIsBound` says that a running uploader is bound to that policy and that a
refusal it met is on its way to the status record. The action property follows
from the last part, step by step.

### The shared slot (`ObservationProofs`)

Under `HandoffAssumption` (records numbered from one, natural bounds), for any
number of records, deaths of the writer, failed calls, power losses and reads:

| Theorem | Statement |
| --- | --- |
| `HandoffInvariantHolds` | `HandoffSpec => []HandoffInvariant` |
| `NeverUnsafe` | `HandoffSpec => []PublicationIsNeverUnsafe` |
| `RefinesSlot` | `HandoffSpec => ImplementsSlot` |

The invariant is about the *settled* files: the one under the name, the ones a
reboot may put there, and the one a reader holds open. Each is synced, readable
and holds a published record (`SettledAreWhole`), and the file being staged is
none of them, is the newest, and holds a newer record (`StageIsFresh`). That is
what makes the order write, chmod, sync, rename, sync of the directory
sufficient: no step of the writer and no power loss touches a settled file, and
the rename settles a file that is already whole. In the refinement the rename is
`Publish`, the sync of the directory `Settle`, the open `Take`, the end of a Read
`Return` and a power loss `Reboot`; every other call is a stutter.

### The background profile (`BackgroundInvariant`, `BackgroundProofs`)

Under `BackgroundAssumption` (the bounds are natural numbers, the systems are
among the three platforms, `None` is no setting and no process), for any number
of processes, settings, operations and faults, a death at every step included:

| Theorem | Statement |
| --- | --- |
| `BackgroundInvariantHolds` | `Spec => []BackgroundInv` |
| `ExclusionHolds` | `Spec => []OperationsExclude` |
| `RegistrationHolds` | `Spec => []RegistrationIsOwned` |
| `RecoverableHolds` | `Spec => []InterruptedIsRecoverable` |

Exclusion is not inductive: the lock of an operation is a directory, an owner
file in it, a lock on that file and a mark written into it, made and taken apart
in separate steps while others look at what a dead operation left. `GuardInv`
says at each place what the operation knows of the guard: who *claims* it (it
made the directory, or removed a dead owner's mark under the lock of the owner
file), that no two claim it at once, and that a marked owner file is the one in
the guard and belongs to the claimant. That a mark is only ever read under the
owner file's lock, and is gone once it was read, is what keeps two operations
from taking over the same dead one's guard. `FilesInv` has two halves: `FilesFit`
holds at every moment, and so after a death at any step (the marker is renamed
last and removed first, so settings and registration record are there while it
is; a unit file exists only under a marker), and `Fitting` is what an operation
under the lock relies on between its steps: the rest of its list of files or
commands, and which files, temporaries and unit they have left. Recovery then
follows from `FilesFit` alone. The steps of an operation are reduced to a few
moves (a claim begins, goes on or ends; work goes on with the files kept or
changed), so that the proof of each action only says which move it is.

### The start and stop of the pair (`ActivationProofs`)

Under `BoundsAssumption` (the bounds are positive natural numbers) and
`NoneAssumption` (`None` is none of the records, instances and numbers), for any
number of invocations, calls of Start and Stop and changes of the configuration,
with an administrator who starts and stops the units, start jobs that run late,
workers that fail and an installer that is killed:

| Theorem | Statement |
| --- | --- |
| `ActivationInvariantHolds` | `Spec => []ActivationInv` |
| `ActivationTypes` | `Spec => []TypeOK` |
| `AdmissionHolds` | `Spec => []AdmissionIsAuthorised` |
| `ConfigurationHolds` | `Spec => AdmissionMatchesConfig` |
| `ReturnsHold` | `Spec => ReturnsAreTrue` |

The gate and the transaction see each other only through three records, two
status files and what the manager says of the units, each of which may be left
over from an earlier call, so the invariant says what each stands for. `GateInv`:
a commit record is one some transaction issued, an uploader about to open the gate
holds a response that was committed word for word, and every commit names a
collector that had collected. The commit binds the invocation because
`OwnResponse` carries it and one invocation draws one challenge at most
(`UnitInv`). `ReportInv`: a readiness record is of an admitted invocation, so the
stale report of an earlier uploader cannot make a Start succeed. `LaunchInv` and
`CaptureInv` carry the returns: until a call needs recovery, every live instance
it launched is the one it captured, except while it is about to look, no job of
its own is queued, and from the collector's turn of the cleanup on the captured
uploader is gone and cannot come back, since invocations are numbered upwards.
Every action of the units is reduced to two facts (`UnitMoves`, `WorldInv'`), from
which one lemma (`CapturesKept`) gives the rest. TLC checked `ActivationInv` with
two invocations, calls and configurations before it was proved.

### The serving process (`RuntimeProofs`)

Under `RuntimeAssumption` (the bounds are natural numbers), for any number of
processes over one directory, addresses, starts, stop requests and faults:

| Theorem | Statement |
| --- | --- |
| `RuntimeInvariantHolds` | `RuntimeSpec => []RuntimeInv` |
| `ServingHolds` | `RuntimeSpec => []ServingIsBacked` |

The shutdown gives up waiting for a handler or a collector after a bound, so that
the store is not closed under one of them rests on what the process remembers of
its waits. `StoreSound` says what may be in use at each place of a process: a
handler that was not awaited is on record, and a store is closed only when the
record is clean and both collectors were joined. `LockSound` says that a
managed process holds the lock of the control directory from its first cleanup to
the removal of its own files, and `Alone` that the lock, the store and a nonce
have one process each. `NonceSound` then carries the publication: `instance.json`
names the published process, and a nonce a requester has read belongs to a
published or abandoned process or to none, so a restart cannot pass for the
instance that was asked to stop; `RemovedInv` adds that an instance whose
publication was removed no longer serves, whoever removed it. A collector's step is reduced to `CollectorStep`
for both collectors, a process's own step to one lemma (`ProcessMoves`).

### Only model-checked

* Liveness under fairness: `PendingIsResolved`, `ActivationEnds`, `CancelEnds`,
  `RequestEndsInstance`. The prover has no rules for `WF` and ENABLED.
* What a fold or a sum computes for every input, which would need induction over
  data: `CoverageIsExact` (merge and projection of intervals), `HistoryIsTrue`
  (rollups and series), `StoredStateLoads` and `CountsAreTrue` (pruning of a log
  store item by item).
* Safety properties without a theorem: `InstalledIsWhole`, `PhaseIsHonest`,
  `SurvivesPowerLoss`, `DockerStartIsSafe`, `ClaimsAreAccounted`,
  `ReservationsAgree`, `PublishedIsFresh`, `ReportIsTrue`, `PageIsTrue`,
  `KeptIsGapless`, `CollectionIsSound` and `InventoryIsWhole`. They are within the
  prover's reach in principle; TLC explores their instances completely.

## 6. Findings

* `log_reset_race`: after a checkpoint reset the journal reader adopts the newest
  record as its cursor without comparing its time with the query start. A record
  logged between the query start and the probe is behind the cursor, is never
  counted, and the next complete batch covers its instant, although the contract
  says that in a fully covered interval counts are present. The reader guards the
  sibling path, an empty first window, against exactly this. `CountsAreTrue`
  excepts these records (`Skipped`), those the reader discards for their time and
  those vacuumed before they could be read; it holds for all others.
* `host_recovery`: a process that ends between the quarantine of an unreadable
  database and the recovery note leaves a new store that never reports the loss;
  the specification demands degraded readiness with a reason.
* `background_login`: on Linux a registration whose `systemctl enable` failed
  leaves the unit file; `Enable` run again takes it for complete, starts the unit
  and reports that it will start at the next login, which it will not.
* `stop_unclean`: a process that is killed, or that ends through `Abandon`, leaves
  `instance.json`. When a new process starts while a requester waits,
  `lifecycle.New` removes that file, and the requester returns success, although
  the comments at `Abandon` (`internal/lifecycle/lifecycle.go:190`) and
  `RequestStop` (`:213`) say that it times out instead of taking an unclean end
  for a clean one. `ServingIsBacked` states what does hold: the instance is over.

## 7. Limits of the models and of the code, as observed

Not modelled: reads of operating system counters, codecs, rendering of units and
bundles, archive writing, HTTP handlers, the dashboard, schemas and scripts: pure
functions or plain input and output. `internal/handoff` (the handoff within one
user), foreign evidence and the later operations of a transition, the relay of
recovery queries and the broker's stale socket, `Status` and the validation of
paths of the background profile, and two diagnostics writers at once are left out
although they have state. `PROJECT.json` says so component by component.

Behaviour met while modelling that no document contradicts, so that no run is
about it:

* a crash that leaves `.disabling.next`, or the `.next` file of the manager's own
  target, stops later background operations until it is removed by hand; a
  malformed guard stays closed, which is documented;
* on Linux an `unregister` whose reload fails leaves the manager with a unit whose
  file is gone; on macOS a `disable` after `stop --force` in another process fails;
* a stop request published after the cleanup of `lifecycle.New` for the instance
  before makes later requests fail with `ErrWrongInstance` until the next restart;
* `PublishFirstJournalAt` accepts a stage that an interrupted `PublishAt` left
  without its last sync; a power loss right after that is classified as invalid,
  which is safe and needs an operator;
* a container cycle that ends by its deadline returns its items unsorted.
