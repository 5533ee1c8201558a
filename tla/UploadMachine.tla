--------------------------- MODULE UploadMachine ---------------------------
(***************************************************************************)
(* The connected uploader: internal/uploadstate (Machine.Step), its        *)
(* durable ledger internal/uploadledger (Load, Commit) and the transport   *)
(* internal/platformtransport, against the hosted snapshot receiver.       *)
(*                                                                         *)
(* One Step is several actions, because the process can be killed, the     *)
(* clock can move and an old request can still arrive at the receiver      *)
(* between a ledger commit, the source read and the reply.  A ledger       *)
(* commit and the local computation before it are one action: the machine  *)
(* holds its mutex and nothing else writes the ledger (exclusive flock).   *)
(*                                                                         *)
(* A snapshot body is an element of Bodies, its SHA-256 digest is the body *)
(* itself and its collection time is CollectedAt[body], as the code parses *)
(* it from the body.  Binding and profile never change and are left out.   *)
(* Clock value 0 is a clock outside the years 1..9999.                     *)
(***************************************************************************)
EXTENDS Integers

CONSTANTS
  Bodies,        \* valid snapshot bodies the collector can hand over
  CollectedAt,   \* the collection time inside each body
  MaxSequence,   \* math.MaxInt64: the last sequence number
  MaxAge,        \* uploadstate.MaxAge, in clock ticks
  MaxFuture,     \* uploadstate.MaxFuture, in clock ticks
  MaxTime,       \* bound: the clock stops here
  MaxJumps,      \* bound: how often the wall clock is set by hand
  None           \* absent body, pending request, cached record or reply

ASSUME MachineAssumption ==
  /\ CollectedAt \in [Bodies -> Nat]
  /\ MaxSequence \in Nat \ {0}
  /\ MaxAge \in Nat /\ MaxFuture \in Nat /\ MaxTime \in Nat /\ MaxJumps \in Nat

VARIABLES
  pc,        \* "down", "idle", or where Step is: "read", "send", "await"
  record,    \* Machine.record: the cached ledger record
  recovery,  \* Machine.recovery and Ledger.failed
  retired,   \* Step's local: an expired request was retired in this Step
  out,       \* what the last Step returned
  disk,      \* the ledger row
  now,       \* the wall clock
  jumps,     \* clock adjustments so far
  wire,      \* every request ever sent; any of them may (again) arrive
  reply,     \* the response to the request Step is waiting for
  receiver,  \* the snapshot the hosted receiver holds
  accepted,  \* history: every (sequence, body) the receiver has stored
  refused    \* history: a commit was refused as inconsistent

machine == <<pc, record, recovery, retired, out>>
hosted == <<receiver, accepted>>
vars == <<pc, record, recovery, retired, out, disk, now, jumps, wire, reply,
          receiver, accepted, refused>>

Sequences == 1..MaxSequence
Statuses == {200, 400, 401, 409, 413, 429, 500}
Request == [sequence : Sequences, body : Bodies]
Terminal == {"CREDENTIAL_REJECTED", "CONFLICT", "REJECTED"}
Stops == Terminal \union {"SEQUENCE_EXHAUSTED"}
Outcome == Stops \union {"none", "IDLE", "SOURCE_UNAVAILABLE", "RETRY",
             "RATE_LIMITED", "ACKNOWLEDGED", "EXPIRED", "CLOCK_SKEW",
             "ErrRecovery", "ErrCanceled", "ErrSnapshot"}
Record == [watermark : 0..MaxSequence, lastAck : Bodies \union {None},
           pending : Request \union {None}, stopped : Stops \union {"none"}]

ASSUME NoneAssumption ==
  /\ None \notin Bodies
  /\ None \notin Request
  /\ None \notin Record
  /\ None \notin [status : Statuses, sequence : 0..MaxSequence]

(* HasAck is lastAck # None: both fields are written together.             *)
ProvisionedRecord ==
  [watermark |-> 0, lastAck |-> None, pending |-> None, stopped |-> "none"]

ValidRecord(r) ==
  /\ r.lastAck # None => r.watermark > 0
  /\ r.stopped = "SEQUENCE_EXHAUSTED" =>
       r.watermark = MaxSequence /\ r.pending = None
  /\ r.pending # None => r.pending.sequence = r.watermark

ValidChange(expected, next) ==
  /\ next.watermark >= expected.watermark
  /\ \/ next.pending = None
     \/ next.pending.sequence > expected.watermark
     \/ next.pending = expected.pending

-----------------------------------------------------------------------------
(* The wall clock.                                                         *)
UsableClock == now > 0
FromFuture(b) == CollectedAt[b] > now + MaxFuture
(* Mutant: the age is taken with the operands swapped. *)
TooOldSwapped(b) == CollectedAt[b] - now > MaxAge
TooOld(b) == now - CollectedAt[b] > MaxAge

Tick ==
  /\ now < MaxTime
  /\ now' = now + 1
  /\ UNCHANGED <<machine, disk, jumps, wire, reply, hosted, refused>>

(* The clock is set by hand, possibly backwards.                           *)
SetClock ==
  /\ jumps < MaxJumps
  /\ jumps' = jumps + 1
  /\ now' \in 0..MaxTime
  /\ UNCHANGED <<machine, disk, wire, reply, hosted, refused>>

-----------------------------------------------------------------------------
(* Machine.commit and Ledger.Commit.  A storage error before COMMIT leaves *)
(* the old row; an error reported by or after COMMIT leaves the new one.   *)
(* Either way the machine only learns that the commit failed.              *)
StorageFault == {"none", "before", "after"}

Consistent(r, next) ==
  /\ ValidRecord(r)
  /\ ValidRecord(next)
  /\ ValidChange(r, next)
  /\ disk = r

Return(o) == pc' = "idle" /\ out' = o

(* Mutant: the error of a failed ledger commit is dropped. *)
CommitUnchecked(r, next, target, o) ==
  \E fault \in StorageFault :
    /\ disk' = IF fault # "before" THEN next ELSE disk
    /\ refused' = refused
    /\ record' = next /\ recovery' = FALSE /\ pc' = target /\ out' = o

Commit(r, next, target, o) ==
  \E fault \in StorageFault :
    /\ disk' = IF Consistent(r, next) /\ fault # "before" THEN next ELSE disk
    /\ refused' = (refused \/ ~Consistent(r, next))
    /\ IF Consistent(r, next) /\ fault = "none"
         THEN record' = next /\ recovery' = FALSE /\ pc' = target /\ out' = o
         ELSE record' = r /\ recovery' = TRUE /\ Return("ErrRecovery")

Retired(r) == [r EXCEPT !.pending = None]
Admitted(r, b) ==
  [r EXCEPT !.watermark = r.watermark + 1,
            !.pending = [sequence |-> r.watermark + 1, body |-> b]]
Settled(r) == [r EXCEPT !.lastAck = r.pending.body, !.pending = None]
Stop(r, reason) == [r EXCEPT !.stopped = reason]

-----------------------------------------------------------------------------
(* Machine.Step, up to the source read or the send.                        *)
Loaded == IF record = None THEN disk ELSE record
Pending == Loaded.pending # None

StepRefused ==
  /\ pc = "idle"
  /\ recovery
  /\ Return("ErrRecovery")
  /\ UNCHANGED <<record, recovery, retired, disk, now, jumps, wire, reply,
                 hosted, refused>>

StepLoadFails ==
  /\ pc = "idle"
  /\ ~recovery
  /\ record = None
  /\ recovery' = TRUE
  /\ Return("ErrRecovery")
  /\ UNCHANGED <<record, retired, disk, now, jumps, wire, reply, hosted, refused>>

StepBegins ==
  /\ pc = "idle"
  /\ ~recovery
  /\ record' = Loaded
  /\ retired' = FALSE
  /\ UNCHANGED <<recovery, disk, now, jumps, wire, reply, hosted, refused>>

StepStopped ==
  /\ StepBegins
  /\ Loaded.stopped # "none"
  /\ Return(Loaded.stopped)

StepSkewed ==
  /\ StepBegins
  /\ Loaded.stopped = "none"
  /\ ~UsableClock \/ (Pending /\ FromFuture(Loaded.pending.body))
  /\ Return("CLOCK_SKEW")

StepReads ==
  /\ StepBegins
  /\ Loaded.stopped = "none"
  /\ UsableClock
  /\ ~Pending
  /\ pc' = "read" /\ out' = out

StepResends ==
  /\ StepBegins
  /\ Loaded.stopped = "none"
  /\ UsableClock
  /\ Pending
  /\ ~FromFuture(Loaded.pending.body)
  /\ ~TooOld(Loaded.pending.body)
  /\ pc' = "send" /\ out' = out

(* Mutant: expiry is handled before the terminal stop. *)
StepRetiresStopped ==
  /\ pc = "idle"
  /\ ~recovery
  /\ UsableClock
  /\ Pending
  /\ TooOld(Loaded.pending.body)
  /\ Commit(Loaded, Retired(Loaded), "read", out)
  /\ retired' = TRUE
  /\ UNCHANGED <<now, jumps, wire, reply, hosted>>

StepRetires ==
  /\ pc = "idle"
  /\ ~recovery
  /\ Loaded.stopped = "none"
  /\ UsableClock
  /\ Pending
  /\ ~FromFuture(Loaded.pending.body)
  /\ TooOld(Loaded.pending.body)
  /\ Commit(Loaded, Retired(Loaded), "read", out)
  /\ retired' = TRUE
  /\ UNCHANGED <<now, jumps, wire, reply, hosted>>

-----------------------------------------------------------------------------
(* Reading the handoff and admitting a new request.                        *)
SourceFails ==
  /\ pc = "read"
  /\ Return(IF retired THEN "EXPIRED" ELSE "SOURCE_UNAVAILABLE")
  /\ UNCHANGED <<record, recovery, retired, disk, now, jumps, wire, reply,
                 hosted, refused>>

SourceInvalid ==
  /\ pc = "read"
  /\ Return("ErrSnapshot")
  /\ UNCHANGED <<record, recovery, retired, disk, now, jumps, wire, reply,
                 hosted, refused>>

Unusable(b) == ~UsableClock \/ FromFuture(b) \/ TooOld(b) \/ b = record.lastAck

SourceSkipped(b) ==
  /\ pc = "read"
  /\ Unusable(b)
  /\ Return(IF ~UsableClock \/ FromFuture(b) THEN "CLOCK_SKEW"
            ELSE IF TooOld(b) THEN "EXPIRED" ELSE "IDLE")
  /\ UNCHANGED <<record, recovery, retired, disk, now, jumps, wire, reply,
                 hosted, refused>>

SourceExhausts(b) ==
  /\ pc = "read"
  /\ ~Unusable(b)
  /\ record.watermark = MaxSequence
  /\ Commit(record, Stop(record, "SEQUENCE_EXHAUSTED"), "idle", "SEQUENCE_EXHAUSTED")
  /\ UNCHANGED <<retired, now, jumps, wire, reply, hosted>>

SourceAdmits(b) ==
  /\ pc = "read"
  /\ ~Unusable(b)
  /\ record.watermark # MaxSequence
  /\ Commit(record, Admitted(record, b), "send", out)
  /\ UNCHANGED <<retired, now, jumps, wire, reply, hosted>>

-----------------------------------------------------------------------------
(* The send, the reply and what Step makes of it.                          *)
SendSkipped ==
  /\ pc = "send"
  /\ ~UsableClock \/ FromFuture(record.pending.body) \/ TooOld(record.pending.body)
  /\ Return(IF ~UsableClock \/ FromFuture(record.pending.body)
            THEN "CLOCK_SKEW" ELSE "EXPIRED")
  /\ UNCHANGED <<record, recovery, retired, disk, now, jumps, wire, reply,
                 hosted, refused>>

Send ==
  /\ pc = "send"
  /\ UsableClock
  /\ ~FromFuture(record.pending.body)
  /\ ~TooOld(record.pending.body)
  /\ pc' = "await"
  /\ wire' = wire \union {record.pending}
  /\ reply' = None
  /\ UNCHANGED <<record, recovery, retired, out, disk, now, jumps, hosted, refused>>

(* platformtransport: what an HTTP status means to the machine.            *)
StatusOutcome(status) ==
  CASE status = 200 -> "ACKNOWLEDGED"
    [] status \in {400, 413} -> "REJECTED"
    [] status = 401 -> "CREDENTIAL_REJECTED"
    [] status = 409 -> "CONFLICT"
    [] status = 429 -> "RATE_LIMITED"
    [] OTHER -> "RETRY"

(* What Step learns of the request: a transport error, a timeout or an     *)
(* acknowledgement of another sequence only says that it may be retried.   *)
Response ==
  IF reply = None THEN "RETRY"
  ELSE IF reply.status = 200 /\ reply.sequence # record.pending.sequence THEN "RETRY"
  ELSE StatusOutcome(reply.status)

ReplyRetries ==
  /\ pc = "await"
  /\ Return("RETRY")
  /\ UNCHANGED <<record, recovery, retired, disk, now, jumps, wire, reply,
                 hosted, refused>>

ReplyRateLimited ==
  /\ pc = "await"
  /\ Response = "RATE_LIMITED"
  /\ Return("RATE_LIMITED")
  /\ UNCHANGED <<record, recovery, retired, disk, now, jumps, wire, reply,
                 hosted, refused>>

ReplyAcknowledges ==
  /\ pc = "await"
  /\ Response = "ACKNOWLEDGED"
  /\ Commit(record, Settled(record), "idle", "ACKNOWLEDGED")
  /\ UNCHANGED <<retired, now, jumps, wire, reply, hosted>>

ReplyStops ==
  /\ pc = "await"
  /\ Response \in Terminal
  /\ Commit(record, Stop(record, Response), "idle", Response)
  /\ UNCHANGED <<retired, now, jumps, wire, reply, hosted>>

(* The context is canceled; every check of ctx.Err() returns this way.     *)
Cancel ==
  /\ pc \in {"idle", "read", "send", "await"}
  /\ ~recovery
  /\ Return("ErrCanceled")
  /\ UNCHANGED <<record, recovery, retired, disk, now, jumps, wire, reply,
                 hosted, refused>>

(* The process ends, by a crash or because the upload loop finished; its   *)
(* memory is lost.  Restart=no: an operator starts the next one.           *)
Exit ==
  /\ pc # "down"
  /\ pc' = "down" /\ record' = None /\ recovery' = FALSE /\ retired' = FALSE
  /\ out' = "none" /\ reply' = None
  /\ UNCHANGED <<disk, now, jumps, wire, hosted, refused>>

(* uploadledger.OpenExisting: the row must satisfy readRecord.             *)
Open ==
  /\ pc = "down"
  /\ ValidRecord(disk)
  /\ pc' = "idle"
  /\ UNCHANGED <<record, recovery, retired, out, disk, now, jumps, wire, reply,
                 hosted, refused>>

-----------------------------------------------------------------------------
(* The hosted receiver, outside this repository.  It stores a higher       *)
(* sequence, answers an equal one with success without comparing bodies    *)
(* and answers a lower one with 409.  Requests may arrive late and twice.  *)
Awaited(m) == pc = "await" /\ m = record.pending

Answer(m) ==
  [status |-> IF m.sequence < receiver.sequence THEN 409 ELSE 200,
   sequence |-> m.sequence]

Receive(m) ==
  /\ IF m.sequence > receiver.sequence
       THEN /\ receiver' = m
            /\ accepted' = accepted \union {m}
       ELSE UNCHANGED hosted
  /\ reply' \in IF Awaited(m) THEN {reply, Answer(m)} ELSE {reply}
  /\ UNCHANGED <<machine, disk, now, jumps, wire, refused>>

(* 400/413, 401, 429, any other status, or a 200 for another sequence.     *)
ReceiverRefuses ==
  /\ pc = "await"
  /\ \/ reply' \in [status : Statuses \ {200, 409}, sequence : {0}]
     \/ reply' \in [status : {200}, sequence : Sequences \ {record.pending.sequence}]
  /\ UNCHANGED <<machine, disk, now, jumps, wire, hosted, refused>>

-----------------------------------------------------------------------------
Init ==
  /\ pc = "down" /\ record = None /\ recovery = FALSE /\ retired = FALSE
  /\ out = "none" /\ disk = ProvisionedRecord
  /\ now \in 0..MaxTime /\ jumps = 0
  /\ wire = {} /\ reply = None
  /\ receiver = [sequence |-> 0, body |-> None] /\ accepted = {}
  /\ refused = FALSE

Step ==
  \/ StepRefused \/ StepLoadFails \/ StepStopped \/ StepSkewed
  \/ StepReads \/ StepResends \/ StepRetires
  \/ SourceFails \/ SourceInvalid
  \/ \E b \in Bodies : SourceSkipped(b) \/ SourceExhausts(b) \/ SourceAdmits(b)
  \/ SendSkipped \/ Send
  \/ ReplyRetries \/ ReplyRateLimited \/ ReplyAcknowledges \/ ReplyStops

Environment ==
  \/ Tick \/ SetClock \/ Cancel \/ Exit \/ Open
  \/ (\E m \in wire : Receive(m)) \/ ReceiverRefuses

Next == Step \/ Environment

Spec == Init /\ [][Next]_vars

(* The upload loop calls Step again after every return, the send is        *)
(* bounded by RequestTimeout, and the clock advances.                      *)
FairSpec == Spec /\ WF_vars(Step) /\ WF_vars(Tick)
-----------------------------------------------------------------------------
TypeOK ==
  /\ pc \in {"down", "idle", "read", "send", "await"}
  /\ record \in Record \union {None}
  /\ recovery \in BOOLEAN /\ retired \in BOOLEAN /\ refused \in BOOLEAN
  /\ out \in Outcome
  /\ disk \in Record
  /\ now \in Nat /\ jumps \in 0..MaxJumps
  /\ wire \subseteq Request /\ accepted \subseteq Request
  /\ reply \in [status : Statuses, sequence : 0..MaxSequence] \union {None}
  /\ receiver \in Request \union {[sequence |-> 0, body |-> None]}

(* A sequence number labels one body: whatever crashes, failed commits and *)
(* restarts happen between two sends of uploadstate.Step, requests with    *)
(* the same sequence carry the same bytes.  The receiver relies on it: it  *)
(* answers an equal sequence without comparing bodies.                     *)
SequenceNamesOneBody ==
  \A m1, m2 \in wire : m1.sequence = m2.sequence => m1.body = m2.body

(* Admit before send: every sequence number ever put on the wire is        *)
(* covered by the durable watermark, so no restart can hand it out again.  *)
SentIsDurable == \A m \in wire : m.sequence <= disk.watermark

(* What the ledger records as acknowledged was stored by the receiver,     *)
(* for lost, late, duplicated and mismatched replies alike.                *)
AckIsStored ==
  disk.lastAck # None => \E m \in accepted : m.body = disk.lastAck

(* The receiver answers 409 to a lower sequence.  An uploader that is      *)
(* alone never provokes it, not even with requests that arrive late: the   *)
(* terminal CONFLICT outcome always means foreign interference.            *)
NoSelfConflict == disk.stopped # "CONFLICT"

(* The checks in Machine.commit, validChangeForProfile and the compare-    *)
(* and-swap of Ledger.commit never refuse a change Step asks for:          *)
(* RECOVERY_REQUIRED always comes from storage, not from the machine       *)
(* contradicting its own ledger.                                           *)
CommitsAreConsistent == ~refused

(* Where Step is determines what the row holds: past its load the cached   *)
(* record is the row, it reads only without and sends only with a pending  *)
(* request, and a restart always reads back a valid row.                   *)
CacheIsLedger ==
  /\ ValidRecord(disk)
  /\ record # None /\ ~recovery => record = disk
  /\ pc \in {"read", "send", "await"} =>
       record = disk /\ ~recovery /\ disk.stopped = "none"
  /\ pc = "read" => disk.pending = None
  /\ pc \in {"send", "await"} => disk.pending # None

(* Requests under the current watermark are the pending one or are over.   *)
WireIsCovered ==
  \A m \in wire : /\ m.sequence <= disk.watermark
                  /\ disk.pending # None /\ m.sequence = disk.watermark => m = disk.pending

(* The receiver holds and has held only what was sent.                     *)
ReceiverHoldsSent ==
  /\ accepted \subseteq wire
  /\ receiver.sequence # 0 => receiver \in accepted

(* A correlated success reply is about a request the receiver has stored.  *)
ReplyIsTrue ==
  pc = "await" =>
    /\ disk.pending \in wire
    /\ reply # None =>
         /\ reply.status # 409
         /\ reply.status = 200 /\ reply.sequence = disk.pending.sequence =>
              disk.pending \in accepted

(* The inductive invariant behind all of the above.                        *)
LedgerInvariant ==
  /\ CacheIsLedger /\ WireIsCovered /\ SequenceNamesOneBody
  /\ ReceiverHoldsSent /\ ReplyIsTrue
  /\ AckIsStored /\ NoSelfConflict /\ CommitsAreConsistent

(* The durable watermark never decreases and a terminal stop is never      *)
(* undone, by any Step, crash or restart.                                  *)
LedgerOnlyAdvances ==
  [][/\ disk'.watermark >= disk.watermark
     /\ disk.stopped # "none" => disk' = disk]_vars

(* A pending request is dropped only once it is acknowledged by the        *)
(* receiver or too old to be sent; it is never replaced by another body.   *)
PendingLeavesForAReason ==
  [][disk.pending # None /\ disk'.pending # disk.pending =>
       /\ disk'.pending = None
       /\ disk.pending \in accepted \/ TooOld(disk.pending.body)]_vars

(* A pending request does not stay forever: while the process runs and     *)
(* storage works, it is acknowledged, retired or ends in a terminal stop.  *)
PendingIsResolved ==
  \A s \in Sequences :
    (disk.pending # None /\ disk.pending.sequence = s)
      ~> (\/ disk.pending = None
          \/ disk.stopped # "none"
          \/ recovery
          \/ pc = "down")
=============================================================================
