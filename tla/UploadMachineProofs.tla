------------------------ MODULE UploadMachineProofs ------------------------
(***************************************************************************)
(* Proofs about the upload machine (UploadMachine), for every set of       *)
(* bodies, every sequence limit and every clock, and about the loop that   *)
(* paces it (UploadLoop), for every set of callers.                        *)
(***************************************************************************)
EXTENDS UploadMachine, UploadLoop, TLAPS

(* A commit of well-formed records leaves well-formed records.             *)
LEMMA CommitType ==
  ASSUME NEW r \in Record, NEW next \in Record, NEW target, NEW o,
         disk \in Record, refused \in BOOLEAN,
         Commit(r, next, target, o)
  PROVE  /\ disk' \in Record
         /\ record' \in Record
         /\ recovery' \in BOOLEAN
         /\ refused' \in BOOLEAN
         /\ pc' \in {target, "idle"}
         /\ out' \in {o, "ErrRecovery"}
  BY DEF Commit, Return

(* The records Step builds are well formed.                                *)
LEMMA NextRecordType ==
  ASSUME NEW r \in Record
  PROVE  /\ Retired(r) \in Record
         /\ \A reason \in Stops : Stop(r, reason) \in Record
         /\ r.pending # None => Settled(r) \in Record
         /\ \A b \in Bodies : r.watermark # MaxSequence => Admitted(r, b) \in Record
  <1>1. Retired(r) \in Record
    BY DEF Retired, Record
  <1>2. \A reason \in Stops : Stop(r, reason) \in Record
    BY DEF Stop, Record
  <1>3. r.pending # None => Settled(r) \in Record
    BY DEF Settled, Record, Request
  <1>4. ASSUME NEW b \in Bodies, r.watermark # MaxSequence
        PROVE  Admitted(r, b) \in Record
    <2>1. r.watermark + 1 \in Sequences /\ r.watermark + 1 \in 0..MaxSequence
      <3>1. r.watermark \in 0..MaxSequence
        BY DEF Record
      <3>2. MaxSequence \in Nat
        BY MachineAssumption DEF MachineAssumption
      <3> QED
        BY <1>4, <3>1, <3>2 DEF Sequences
    <2>2. [sequence |-> r.watermark + 1, body |-> b] \in Request
      BY <2>1 DEF Request
    <2> QED
      BY <2>1, <2>2 DEF Admitted, Record
  <1> QED
    BY <1>1, <1>2, <1>3, <1>4
(* What a consistent commit leaves behind: the new row and the machine's   *)
(* next position, or an unreported row and the recovery latch.             *)
LEMMA CommitCases ==
  ASSUME NEW r, NEW next, NEW target, NEW o,
         Commit(r, next, target, o), Consistent(r, next), CommitsAreConsistent
  PROVE  /\ CommitsAreConsistent'
         /\ \/ /\ disk' = next /\ record' = next /\ recovery' = FALSE
               /\ pc' = target /\ out' = o
            \/ /\ disk' \in {disk, next} /\ record' = r /\ recovery' = TRUE
               /\ pc' = "idle" /\ out' = "ErrRecovery"
  BY DEF Commit, Return, CommitsAreConsistent

(* The record Step works on is a record.                                   *)
LEMMA LoadedType == TypeOK => Loaded \in Record
  BY DEF TypeOK, Loaded

(* The assumptions on the constants, one by one.                           *)
LEMMA Limits ==
  /\ MaxSequence \in Nat /\ MaxSequence # 0
  /\ MaxTime \in Nat /\ MaxJumps \in Nat
  BY MachineAssumption DEF MachineAssumption

(* The provisioned record, the stopped process and the empty receiver are  *)
(* well typed.                                                             *)
LEMMA TypeInit == Init => TypeOK
  <1> SUFFICES ASSUME Init PROVE TypeOK
    OBVIOUS
  <1>a. disk = ProvisionedRecord /\ now \in 0..MaxTime /\ jumps = 0
    BY DEF Init
  <1>b. 0 \in 0..MaxSequence
    BY Limits
  <1>1. disk \in Record
    BY <1>a, <1>b, Zenon DEF ProvisionedRecord, Record
  <1>2. now \in Nat /\ jumps \in 0..MaxJumps
    BY <1>a, Limits
  <1> QED
    BY <1>1, <1>2 DEF Init, TypeOK, Outcome

(* Every action keeps the variables in their types; the actions that work  *)
(* on the cached record need that it is the row.                           *)
LEMMA TypeStep == TypeOK /\ CacheIsLedger /\ [Next]_vars => TypeOK'
  <1> SUFFICES ASSUME TypeOK, CacheIsLedger, [Next]_vars
               PROVE  TypeOK'
    OBVIOUS
  <1> USE DEF machine, hosted
  <1>a. pc \in {"read", "send", "await"} => record \in Record /\ record = disk
    BY DEF TypeOK, CacheIsLedger
  <1>b. pc \in {"send", "await"} => record.pending \in Request
    BY <1>a DEF CacheIsLedger, Record
  <1>c. Loaded \in Record
    BY LoadedType
  <1>1. CASE StepRefused
    BY <1>1 DEF StepRefused, TypeOK, Return, Outcome
  <1>2. CASE StepLoadFails
    BY <1>2 DEF StepLoadFails, TypeOK, Return, Outcome
  <1>3. CASE StepStopped
    BY <1>3 DEF StepStopped, TypeOK, StepBegins, Loaded, Return, Outcome, Record
  <1>4. CASE StepSkewed
    BY <1>4 DEF StepSkewed, TypeOK, StepBegins, Loaded, Return, Outcome
  <1>5. CASE StepReads
    BY <1>5 DEF StepReads, TypeOK, StepBegins, Loaded
  <1>6. CASE StepResends
    BY <1>6 DEF StepResends, TypeOK, StepBegins, Loaded
  <1>7. CASE StepRetires
    BY <1>7, <1>c, CommitType, NextRecordType DEF StepRetires, TypeOK, Outcome
  <1>8. CASE SourceFails
    BY <1>8 DEF SourceFails, TypeOK, Return, Outcome
  <1>9. CASE SourceInvalid
    BY <1>9 DEF SourceInvalid, TypeOK, Return, Outcome
  <1>10. ASSUME NEW b \in Bodies, SourceSkipped(b) PROVE TypeOK'
    BY <1>10 DEF SourceSkipped, TypeOK, Return, Outcome
  <1>11. ASSUME NEW b \in Bodies, SourceExhausts(b) PROVE TypeOK'
    BY <1>11, <1>a, CommitType, NextRecordType DEF SourceExhausts, TypeOK, Outcome, Stops
  <1>12. ASSUME NEW b \in Bodies, SourceAdmits(b) PROVE TypeOK'
    BY <1>12, <1>a, CommitType, NextRecordType DEF SourceAdmits, TypeOK, Outcome, Stops
  <1>13. CASE SendSkipped
    BY <1>13 DEF SendSkipped, TypeOK, Return, Outcome
  <1>14. CASE Send
    BY <1>14, <1>b DEF Send, TypeOK
  <1>15. CASE ReplyRetries
    BY <1>15 DEF ReplyRetries, TypeOK, Return, Outcome
  <1>16. CASE ReplyRateLimited
    BY <1>16 DEF ReplyRateLimited, TypeOK, Return, Outcome
  <1>17. CASE ReplyAcknowledges
    BY <1>17, <1>a, <1>b, CommitType, NextRecordType, NoneAssumption DEF NoneAssumption, ReplyAcknowledges, TypeOK, Outcome, Stops, Terminal
  <1>18. CASE ReplyStops
    BY <1>18, <1>a, <1>b, CommitType, NextRecordType, NoneAssumption DEF NoneAssumption, ReplyStops, TypeOK, Outcome, Stops, Terminal
  <1>19. CASE Tick
    BY <1>19, Limits DEF Tick, TypeOK
  <1>20. CASE SetClock
    BY <1>20, Limits DEF SetClock, TypeOK
  <1>21. CASE Cancel
    BY <1>21 DEF Cancel, TypeOK, Return, Outcome
  <1>22. CASE Exit
    BY <1>22 DEF Exit, TypeOK, Outcome
  <1>23. CASE Open
    BY <1>23 DEF Open, TypeOK, Outcome
  <1>24. ASSUME NEW m \in wire, Receive(m) PROVE TypeOK'
    <2>1. m \in Request
      BY DEF TypeOK
    <2>2. Answer(m) \in [status : Statuses, sequence : 0..MaxSequence]
      BY <2>1, Limits DEF Answer, Statuses, Request, Sequences
    <2> QED
      BY <1>24, <2>1, <2>2 DEF Receive, TypeOK
  <1>25. CASE ReceiverRefuses
    <2>1. reply' \in [status : Statuses, sequence : 0..MaxSequence]
      BY <1>25, Limits DEF ReceiverRefuses, Statuses, Sequences
    <2> QED
      BY <1>25, <2>1 DEF ReceiverRefuses, TypeOK
  <1>26. CASE UNCHANGED vars
    BY <1>26 DEF vars, TypeOK
  <1> QED
    BY <1>1, <1>2, <1>3, <1>4, <1>5, <1>6, <1>7, <1>8, <1>9, <1>10, <1>11, <1>12, <1>13, <1>14, <1>15, <1>16, <1>17, <1>18, <1>19, <1>20, <1>21, <1>22, <1>23, <1>24, <1>25, <1>26
       DEF Next, Step, Environment

-----------------------------------------------------------------------------
(* The fields of a record and of a request.                                *)
LEMMA RequestFields ==
  ASSUME NEW m \in Request
  PROVE  m.sequence \in Nat /\ m.sequence > 0 /\ m.body \in Bodies
  <1>1. m.sequence \in 1..MaxSequence /\ m.body \in Bodies
    BY DEF Request, Sequences
  <1> QED
    BY <1>1, Limits

(* The fields of a ledger record.                                          *)
LEMMA RecordFields ==
  ASSUME NEW r \in Record
  PROVE  /\ r.watermark \in Nat
         /\ r.pending # None => r.pending \in Request
         /\ r.stopped \in Stops \union {"none"}
  <1>1. /\ r.pending \in Request \union {None}
        /\ r.stopped \in Stops \union {"none"}
    BY DEF Record
  <1>2. r.watermark \in Nat
    <2>1. r.watermark \in 0..MaxSequence
      BY DEF Record
    <2> QED
      BY <2>1, Limits
  <1> QED
    BY <1>1, <1>2

(* What the ledger row may become without disturbing the invariant: the    *)
(* watermark does not decrease, a request that is new takes a new          *)
(* sequence, and a new acknowledgement is the receiver's.                  *)
RowAdvances ==
  /\ disk' \in Record
  /\ disk'.watermark >= disk.watermark
  /\ \/ disk'.pending = None
     \/ disk'.pending = disk.pending /\ disk'.watermark = disk.watermark
     \/ disk'.watermark > disk.watermark
  /\ \/ disk'.lastAck = disk.lastAck
     \/ \E m \in accepted : m.body = disk'.lastAck
  /\ disk'.stopped # "CONFLICT"

(* Such a change keeps what the invariant says of the wire and receiver.   *)
LEMMA RowChange ==
  ASSUME TypeOK, LedgerInvariant, RowAdvances, UNCHANGED <<wire, hosted>>
  PROVE  /\ WireIsCovered' /\ SequenceNamesOneBody' /\ ReceiverHoldsSent'
         /\ AckIsStored' /\ NoSelfConflict'
  <1> USE DEF LedgerInvariant, RowAdvances, hosted
  <1>1. WireIsCovered'
    <2> SUFFICES ASSUME NEW m \in wire
                 PROVE  /\ m.sequence <= disk'.watermark
                        /\ disk'.pending # None /\ m.sequence = disk'.watermark =>
                             m = disk'.pending
      BY DEF WireIsCovered
    <2>1. /\ m.sequence \in Nat /\ m.sequence <= disk.watermark
          /\ disk.watermark \in Nat /\ disk'.watermark \in Nat
      <3>1. m \in Request /\ disk \in Record
        BY DEF TypeOK
      <3> QED
        BY <3>1, RequestFields, RecordFields DEF WireIsCovered
    <2> QED
      BY <2>1 DEF WireIsCovered
  <1>2. SequenceNamesOneBody' /\ ReceiverHoldsSent'
    BY DEF SequenceNamesOneBody, ReceiverHoldsSent
  <1>3. AckIsStored' /\ NoSelfConflict'
    BY DEF AckIsStored, NoSelfConflict
  <1> QED
    BY <1>1, <1>2, <1>3

(* The changes Step asks for are consistent with the row and advance it.   *)
LEMMA RetireIsConsistent ==
  ASSUME disk \in Record, ValidRecord(disk)
  PROVE  Consistent(disk, Retired(disk))
  <1>1. disk.watermark \in Nat
    BY RecordFields
  <1>2. /\ Retired(disk).watermark = disk.watermark
        /\ Retired(disk).pending = None
        /\ Retired(disk).lastAck = disk.lastAck
        /\ Retired(disk).stopped = disk.stopped
    BY DEF Retired, Record
  <1> QED
    BY <1>1, <1>2 DEF Consistent, ValidRecord, ValidChange

(* Storing a fresh batch as the pending request is such a change.          *)
LEMMA AdmitIsConsistent ==
  ASSUME disk \in Record, ValidRecord(disk), NEW b \in Bodies, disk.stopped = "none"
  PROVE  Consistent(disk, Admitted(disk, b))
  <1>1. disk.watermark \in Nat
    BY RecordFields
  <1>2. /\ Admitted(disk, b).watermark = disk.watermark + 1
        /\ Admitted(disk, b).pending.sequence = disk.watermark + 1
    BY DEF Admitted, Record
  <1>5. Admitted(disk, b).stopped = "none"
    BY DEF Admitted, Record
  <1>3. ValidRecord(Admitted(disk, b))
    <2>1. Admitted(disk, b).watermark > 0
      BY <1>1, <1>2
    <2> QED
      BY <1>2, <1>5, <2>1 DEF ValidRecord
  <1>4. ValidChange(disk, Admitted(disk, b))
    <2>1. Admitted(disk, b).watermark >= disk.watermark
      BY <1>1, <1>2
    <2>2. Admitted(disk, b).pending.sequence > disk.watermark
      BY <1>1, <1>2
    <2> QED
      BY <2>1, <2>2 DEF ValidChange
  <1> QED
    BY <1>3, <1>4 DEF Consistent

(* Moving the watermark to an acknowledged pending request is one too.     *)
LEMMA SettleIsConsistent ==
  ASSUME disk \in Record, ValidRecord(disk), disk.pending # None, disk.stopped = "none"
  PROVE  Consistent(disk, Settled(disk))
  <1>1. /\ disk.watermark \in Nat
        /\ disk.pending.sequence \in Nat /\ disk.pending.sequence > 0
    BY RecordFields, RequestFields
  <1>2. /\ Settled(disk).watermark = disk.watermark
        /\ Settled(disk).pending = None
    BY DEF Settled, Record
  <1>5. Settled(disk).stopped = "none"
    BY DEF Settled, Record
  <1>3. ValidRecord(Settled(disk))
    BY <1>1, <1>2, <1>5 DEF ValidRecord
  <1>4. ValidChange(disk, Settled(disk))
    <2>1. Settled(disk).watermark >= disk.watermark
      BY <1>1, <1>2
    <2> QED
      BY <1>2, <2>1 DEF ValidChange
  <1> QED
    BY <1>3, <1>4 DEF Consistent

(* Latching a terminal stop keeps the pending request and the watermark.   *)
LEMMA StopIsConsistent ==
  ASSUME disk \in Record, ValidRecord(disk), NEW reason \in Stops,
         reason = "SEQUENCE_EXHAUSTED" => disk.watermark = MaxSequence /\ disk.pending = None
  PROVE  Consistent(disk, Stop(disk, reason))
  <1>1. disk.watermark \in Nat
    BY RecordFields
  <1>2. /\ Stop(disk, reason).watermark = disk.watermark
        /\ Stop(disk, reason).pending = disk.pending
        /\ Stop(disk, reason).lastAck = disk.lastAck
        /\ Stop(disk, reason).stopped = reason
    BY DEF Stop, Record
  <1> QED
    BY <1>1, <1>2 DEF Consistent, ValidRecord, ValidChange

-----------------------------------------------------------------------------
(* The machine starts without a request, without a reply and without       *)
(* anything at the receiver.                                               *)
LEMMA InvInit == Init => LedgerInvariant
  <1> SUFFICES ASSUME Init PROVE LedgerInvariant
    OBVIOUS
  <1>1. /\ disk = ProvisionedRecord /\ wire = {} /\ accepted = {}
        /\ receiver.sequence = 0 /\ pc = "down" /\ record = None
    BY DEF Init
  <1>2. CacheIsLedger
    BY <1>1 DEF CacheIsLedger, ValidRecord, ProvisionedRecord
  <1>3. WireIsCovered /\ SequenceNamesOneBody /\ ReceiverHoldsSent /\ ReplyIsTrue
    BY <1>1 DEF WireIsCovered, SequenceNamesOneBody, ReceiverHoldsSent, ReplyIsTrue
  <1>4. AckIsStored /\ NoSelfConflict /\ CommitsAreConsistent
    BY <1>1 DEF Init, AckIsStored, NoSelfConflict, CommitsAreConsistent, ProvisionedRecord
  <1> QED
    BY <1>2, <1>3, <1>4 DEF LedgerInvariant

(* A step that leaves the row, the wire and the receiver alone only has to *)
(* keep the machine's position and its reply in order.                     *)
LEMMA QuietStep ==
  ASSUME LedgerInvariant, UNCHANGED <<disk, wire, hosted, refused>>,
         CacheIsLedger', ReplyIsTrue'
  PROVE  LedgerInvariant'
  BY DEF LedgerInvariant, hosted, WireIsCovered, SequenceNamesOneBody,
         ReceiverHoldsSent, AckIsStored, NoSelfConflict, CommitsAreConsistent

(* While recovery is not latched, Step works on the row itself.            *)
LEMMA LoadedIsDisk ==
  ASSUME CacheIsLedger, ~recovery
  PROVE  Loaded = disk
  BY DEF CacheIsLedger, Loaded

(* Every action keeps the ledger invariant.                                *)
LEMMA InvStep == TypeOK /\ LedgerInvariant /\ [Next]_vars => LedgerInvariant'
  <1> SUFFICES ASSUME TypeOK, LedgerInvariant, [Next]_vars
               PROVE  LedgerInvariant'
    OBVIOUS
  <1> USE DEF machine, hosted
  <1>a. CacheIsLedger /\ ValidRecord(disk) /\ disk \in Record
    BY DEF LedgerInvariant, CacheIsLedger, TypeOK
  <1>1. CASE StepRefused
    <2>1. CacheIsLedger' /\ ReplyIsTrue'
      BY <1>1 DEF StepRefused, Return, LedgerInvariant, CacheIsLedger, ReplyIsTrue, ValidRecord
    <2> QED
      BY <1>1, <2>1, QuietStep DEF StepRefused
  <1>2. CASE StepLoadFails
    <2>1. CacheIsLedger' /\ ReplyIsTrue'
      BY <1>2 DEF StepLoadFails, Return, LedgerInvariant, CacheIsLedger, ReplyIsTrue, ValidRecord
    <2> QED
      BY <1>2, <2>1, QuietStep DEF StepLoadFails
  <1>3. CASE StepStopped
    <2>1. Loaded = disk
      BY <1>3, <1>a, LoadedIsDisk DEF StepStopped, StepBegins, Return
    <2>2. CacheIsLedger' /\ ReplyIsTrue'
      BY <1>3, <1>a, <2>1 DEF StepStopped, StepBegins, Return, CacheIsLedger, ReplyIsTrue, ValidRecord
    <2> QED
      BY <1>3, <2>2, QuietStep DEF StepStopped, StepBegins, Return
  <1>4. CASE StepSkewed
    <2>1. Loaded = disk
      BY <1>4, <1>a, LoadedIsDisk DEF StepSkewed, StepBegins, Return
    <2>2. CacheIsLedger' /\ ReplyIsTrue'
      BY <1>4, <1>a, <2>1 DEF StepSkewed, StepBegins, Return, CacheIsLedger, ReplyIsTrue, ValidRecord
    <2> QED
      BY <1>4, <2>2, QuietStep DEF StepSkewed, StepBegins, Return
  <1>5. CASE StepReads
    <2>1. Loaded = disk
      BY <1>5, <1>a, LoadedIsDisk DEF StepReads, StepBegins, Pending
    <2>2. CacheIsLedger' /\ ReplyIsTrue'
      BY <1>5, <1>a, <2>1 DEF StepReads, StepBegins, Pending, CacheIsLedger, ReplyIsTrue, ValidRecord
    <2> QED
      BY <1>5, <2>2, QuietStep DEF StepReads, StepBegins, Pending
  <1>6. CASE StepResends
    <2>1. Loaded = disk
      BY <1>6, <1>a, LoadedIsDisk DEF StepResends, StepBegins, Pending
    <2>2. CacheIsLedger' /\ ReplyIsTrue'
      BY <1>6, <1>a, <2>1 DEF StepResends, StepBegins, Pending, CacheIsLedger, ReplyIsTrue, ValidRecord
    <2> QED
      BY <1>6, <2>2, QuietStep DEF StepResends, StepBegins, Pending
  <1>7. CASE SourceFails
    <2>1. CacheIsLedger' /\ ReplyIsTrue'
      BY <1>7 DEF SourceFails, Return, LedgerInvariant, CacheIsLedger, ReplyIsTrue, ValidRecord
    <2> QED
      BY <1>7, <2>1, QuietStep DEF SourceFails
  <1>8. CASE SourceInvalid
    <2>1. CacheIsLedger' /\ ReplyIsTrue'
      BY <1>8 DEF SourceInvalid, Return, LedgerInvariant, CacheIsLedger, ReplyIsTrue, ValidRecord
    <2> QED
      BY <1>8, <2>1, QuietStep DEF SourceInvalid
  <1>9. ASSUME NEW b \in Bodies, SourceSkipped(b) PROVE LedgerInvariant'
    <2>1. CacheIsLedger' /\ ReplyIsTrue'
      BY <1>9 DEF SourceSkipped, Return, LedgerInvariant, CacheIsLedger, ReplyIsTrue, ValidRecord
    <2> QED
      BY <1>9, <2>1, QuietStep DEF SourceSkipped
  <1>10. CASE SendSkipped
    <2>1. CacheIsLedger' /\ ReplyIsTrue'
      BY <1>10 DEF SendSkipped, Return, LedgerInvariant, CacheIsLedger, ReplyIsTrue, ValidRecord
    <2> QED
      BY <1>10, <2>1, QuietStep DEF SendSkipped
  <1>11. CASE ReplyRetries
    <2>1. CacheIsLedger' /\ ReplyIsTrue'
      BY <1>11 DEF ReplyRetries, Return, LedgerInvariant, CacheIsLedger, ReplyIsTrue, ValidRecord
    <2> QED
      BY <1>11, <2>1, QuietStep DEF ReplyRetries
  <1>12. CASE ReplyRateLimited
    <2>1. CacheIsLedger' /\ ReplyIsTrue'
      BY <1>12 DEF ReplyRateLimited, Return, LedgerInvariant, CacheIsLedger, ReplyIsTrue, ValidRecord
    <2> QED
      BY <1>12, <2>1, QuietStep DEF ReplyRateLimited
  <1>13. CASE Tick
    <2>1. CacheIsLedger' /\ ReplyIsTrue'
      BY <1>13 DEF Tick, LedgerInvariant, CacheIsLedger, ReplyIsTrue, ValidRecord
    <2> QED
      BY <1>13, <2>1, QuietStep DEF Tick
  <1>14. CASE SetClock
    <2>1. CacheIsLedger' /\ ReplyIsTrue'
      BY <1>14 DEF SetClock, LedgerInvariant, CacheIsLedger, ReplyIsTrue, ValidRecord
    <2> QED
      BY <1>14, <2>1, QuietStep DEF SetClock
  <1>15. CASE Cancel
    <2>1. CacheIsLedger' /\ ReplyIsTrue'
      BY <1>15 DEF Cancel, Return, LedgerInvariant, CacheIsLedger, ReplyIsTrue, ValidRecord
    <2> QED
      BY <1>15, <2>1, QuietStep DEF Cancel
  <1>16. CASE Exit
    <2>1. CacheIsLedger' /\ ReplyIsTrue'
      BY <1>16 DEF Exit, LedgerInvariant, CacheIsLedger, ReplyIsTrue, ValidRecord
    <2> QED
      BY <1>16, <2>1, QuietStep DEF Exit
  <1>17. CASE Open
    <2>1. CacheIsLedger' /\ ReplyIsTrue'
      BY <1>17 DEF Open, LedgerInvariant, CacheIsLedger, ReplyIsTrue, ValidRecord
    <2> QED
      BY <1>17, <2>1, QuietStep DEF Open
  <1>18. CASE StepRetires
    <2>1. Loaded = disk /\ disk.stopped = "none"
      BY <1>18, <1>a, LoadedIsDisk DEF StepRetires
    <2>2. Consistent(disk, Retired(disk))
      BY <1>a, RetireIsConsistent
    <2>3. /\ CommitsAreConsistent'
          /\ \/ /\ disk' = Retired(disk) /\ record' = disk' /\ recovery' = FALSE
                /\ pc' = "read"
             \/ /\ disk' \in {disk, Retired(disk)} /\ recovery' = TRUE /\ pc' = "idle"
      BY <1>18, <2>1, <2>2 DEF StepRetires, Commit, Return, LedgerInvariant, CommitsAreConsistent
    <2>4. /\ Retired(disk) \in Record
          /\ Retired(disk).pending = None
          /\ Retired(disk).watermark = disk.watermark
          /\ Retired(disk).lastAck = disk.lastAck
          /\ Retired(disk).stopped = disk.stopped
      BY <1>a, NextRecordType DEF Retired, Record
    <2>5. RowAdvances
      BY <1>a, <2>1, <2>3, <2>4, RecordFields DEF RowAdvances
    <2>6. CacheIsLedger' /\ ReplyIsTrue'
      BY <1>a, <2>1, <2>2, <2>3, <2>4 DEF CacheIsLedger, ReplyIsTrue, Consistent
    <2> QED
      BY <1>18, <2>3, <2>5, <2>6, RowChange DEF StepRetires, LedgerInvariant
  <1>19. ASSUME NEW b \in Bodies, SourceExhausts(b) PROVE LedgerInvariant'
    <2> DEFINE next == Stop(disk, "SEQUENCE_EXHAUSTED")
    <2>1. /\ record = disk /\ disk.stopped = "none" /\ disk.pending = None
          /\ disk.watermark = MaxSequence
      BY <1>19, <1>a DEF SourceExhausts, CacheIsLedger
    <2>2. Consistent(disk, next)
      BY <1>a, <2>1, StopIsConsistent DEF Stops
    <2>3. /\ CommitsAreConsistent'
          /\ disk' \in {disk, next} /\ pc' = "idle"
          /\ recovery' = TRUE \/ record' = disk'
      BY <1>19, <2>1, <2>2 DEF SourceExhausts, Commit, Return, LedgerInvariant, CommitsAreConsistent
    <2>4. /\ next \in Record
          /\ next.pending = None
          /\ next.watermark = disk.watermark
          /\ next.lastAck = disk.lastAck
          /\ next.stopped # "CONFLICT"
      BY <1>a, <2>1, NextRecordType DEF Stop, Stops, Record
    <2>5. RowAdvances
      BY <1>a, <2>1, <2>3, <2>4, RecordFields DEF RowAdvances
    <2>6. CacheIsLedger' /\ ReplyIsTrue'
      BY <1>a, <2>1, <2>2, <2>3, <2>4 DEF CacheIsLedger, ReplyIsTrue, Consistent
    <2> QED
      BY <1>19, <2>3, <2>5, <2>6, RowChange DEF SourceExhausts, LedgerInvariant
  <1>20. ASSUME NEW b \in Bodies, SourceAdmits(b) PROVE LedgerInvariant'
    <2>1. /\ record = disk /\ disk.stopped = "none" /\ disk.pending = None
          /\ disk.watermark # MaxSequence
      BY <1>20, <1>a DEF SourceAdmits, CacheIsLedger
    <2>2. Consistent(disk, Admitted(disk, b))
      BY <1>a, <2>1, AdmitIsConsistent
    <2>3. /\ CommitsAreConsistent'
          /\ \/ /\ disk' = Admitted(disk, b) /\ record' = disk' /\ recovery' = FALSE
                /\ pc' = "send"
             \/ /\ disk' \in {disk, Admitted(disk, b)} /\ recovery' = TRUE /\ pc' = "idle"
      BY <1>20, <2>1, <2>2 DEF SourceAdmits, Commit, Return, LedgerInvariant, CommitsAreConsistent
    <2>4. /\ Admitted(disk, b) \in Record
          /\ Admitted(disk, b).pending # None
          /\ Admitted(disk, b).watermark = disk.watermark + 1
          /\ Admitted(disk, b).lastAck = disk.lastAck
          /\ Admitted(disk, b).stopped = "none"
      <3>1. Admitted(disk, b) \in Record
        BY <1>a, <2>1, NextRecordType
      <3>2. [sequence |-> disk.watermark + 1, body |-> b] \in Request
        <4>1. disk.watermark \in 0..MaxSequence
          BY <1>a DEF Record
        <4>2. disk.watermark + 1 \in Sequences
          BY <2>1, <4>1, Limits DEF Sequences
        <4> QED
          BY <4>2 DEF Request
      <3> QED
        BY <1>a, <2>1, <3>1, <3>2, NoneAssumption DEF NoneAssumption, Admitted, Record
    <2>5. RowAdvances
      BY <1>a, <2>1, <2>3, <2>4, RecordFields DEF RowAdvances
    <2>6. CacheIsLedger' /\ ReplyIsTrue'
      BY <1>a, <2>1, <2>2, <2>3, <2>4 DEF CacheIsLedger, ReplyIsTrue, Consistent
    <2> QED
      BY <1>20, <2>3, <2>5, <2>6, RowChange DEF SourceAdmits, LedgerInvariant
  <1>21. CASE Send
    <2>1. /\ record = disk /\ disk.pending \in Request
          /\ wire' = wire \union {disk.pending}
      BY <1>21, <1>a, RecordFields DEF Send, CacheIsLedger
    <2>2. disk.pending.sequence = disk.watermark
      BY <1>21, <1>a DEF Send, CacheIsLedger, ValidRecord
    <2>3. disk.watermark \in Nat
      BY <1>a, RecordFields
    <2>4. WireIsCovered'
      <3>1. disk' = disk
        BY <1>21 DEF Send
      <3>2. ASSUME NEW m \in wire'
            PROVE  /\ m.sequence <= disk.watermark
                   /\ disk.pending # None /\ m.sequence = disk.watermark => m = disk.pending
        <4>1. CASE m \in wire
          BY <4>1 DEF LedgerInvariant, WireIsCovered
        <4>2. CASE m = disk.pending
          BY <2>2, <2>3, <4>2
        <4> QED
          BY <2>1, <3>2, <4>1, <4>2
      <3> QED
        BY <3>1, <3>2 DEF WireIsCovered
    <2>5. SequenceNamesOneBody'
      BY <1>21, <2>1, <2>2, <1>a DEF Send, LedgerInvariant, WireIsCovered, SequenceNamesOneBody, CacheIsLedger
    <2>6. CacheIsLedger' /\ ReplyIsTrue'
      BY <1>21, <1>a, <2>1 DEF Send, CacheIsLedger, ReplyIsTrue, ValidRecord
    <2>7. ReceiverHoldsSent'
      BY <1>21, <2>1 DEF Send, LedgerInvariant, ReceiverHoldsSent
    <2>8. AckIsStored' /\ NoSelfConflict' /\ CommitsAreConsistent'
      BY <1>21 DEF Send, LedgerInvariant, AckIsStored, NoSelfConflict, CommitsAreConsistent
    <2> QED
      BY <2>4, <2>5, <2>6, <2>7, <2>8 DEF LedgerInvariant
  <1>22. CASE ReplyAcknowledges
    <2>1. /\ record = disk /\ disk.stopped = "none" /\ disk.pending # None
          /\ pc = "await"
      BY <1>22, <1>a DEF ReplyAcknowledges, CacheIsLedger
    <2>2. Consistent(disk, Settled(disk))
      BY <1>a, <2>1, SettleIsConsistent
    <2>3. /\ CommitsAreConsistent'
          /\ disk' \in {disk, Settled(disk)} /\ pc' = "idle"
          /\ recovery' = TRUE \/ record' = disk'
      BY <1>22, <2>1, <2>2 DEF ReplyAcknowledges, Commit, Return, LedgerInvariant, CommitsAreConsistent
    <2>4. disk.pending \in accepted
      <3>1. reply # None /\ reply.status = 200 /\ reply.sequence = disk.pending.sequence
        BY <1>22, <2>1 DEF ReplyAcknowledges, Response, StatusOutcome
      <3> QED
        BY <2>1, <3>1 DEF LedgerInvariant, ReplyIsTrue
    <2>5. /\ Settled(disk) \in Record
          /\ Settled(disk).pending = None
          /\ Settled(disk).watermark = disk.watermark
          /\ Settled(disk).lastAck = disk.pending.body
          /\ Settled(disk).stopped = "none"
      BY <1>a, <2>1, NextRecordType DEF Settled, Record
    <2>6. RowAdvances
      BY <1>a, <2>1, <2>3, <2>4, <2>5, RecordFields DEF RowAdvances
    <2>7. CacheIsLedger' /\ ReplyIsTrue'
      BY <1>a, <2>1, <2>2, <2>3, <2>5 DEF CacheIsLedger, ReplyIsTrue, Consistent
    <2> QED
      BY <1>22, <2>3, <2>6, <2>7, RowChange DEF ReplyAcknowledges, LedgerInvariant
  <1>23. CASE ReplyStops
    <2> DEFINE next == Stop(disk, Response)
    <2>1. /\ record = disk /\ disk.stopped = "none" /\ disk.pending # None
          /\ pc = "await"
      BY <1>23, <1>a DEF ReplyStops, CacheIsLedger
    <2>2. Response \in Stops /\ Response # "SEQUENCE_EXHAUSTED"
      BY <1>23 DEF ReplyStops, Terminal, Stops
    <2>3. Response # "CONFLICT"
      <3>1. reply # None => reply.status # 409
        BY <2>1 DEF LedgerInvariant, ReplyIsTrue
      <3> QED
        BY <3>1 DEF Response, StatusOutcome
    <2>4. Consistent(disk, next)
      BY <1>a, <2>1, <2>2, StopIsConsistent
    <2>5. /\ CommitsAreConsistent'
          /\ disk' \in {disk, next} /\ pc' = "idle"
          /\ recovery' = TRUE \/ record' = disk'
      BY <1>23, <2>1, <2>4 DEF ReplyStops, Commit, Return, LedgerInvariant, CommitsAreConsistent
    <2>6. /\ next \in Record
          /\ next.pending = disk.pending
          /\ next.watermark = disk.watermark
          /\ next.lastAck = disk.lastAck
          /\ next.stopped # "CONFLICT"
      BY <1>a, <2>2, <2>3, NextRecordType DEF Stop, Record
    <2>7. RowAdvances
      <3> HIDE DEF next
      <3>1. disk.watermark \in Nat /\ disk.stopped # "CONFLICT"
        BY <1>a, <2>1, RecordFields
      <3>2. CASE disk' = disk
        BY <1>a, <3>1, <3>2 DEF RowAdvances
      <3>3. CASE disk' = next
        BY <2>6, <3>1, <3>3 DEF RowAdvances
      <3> QED
        BY <2>5, <3>2, <3>3
    <2>8. CacheIsLedger' /\ ReplyIsTrue'
      BY <1>a, <2>1, <2>4, <2>5, <2>6 DEF CacheIsLedger, ReplyIsTrue, Consistent
    <2> QED
      BY <1>23, <2>5, <2>7, <2>8, RowChange DEF ReplyStops, LedgerInvariant
  <1>24. ASSUME NEW m \in wire, Receive(m) PROVE LedgerInvariant'
    <2>1. /\ m \in Request /\ m.sequence \in Nat /\ m.sequence > 0
          /\ receiver.sequence \in Nat
      <3>1. m \in Request
        BY DEF TypeOK
      <3>2. receiver.sequence = 0 \/ receiver \in Request
        BY DEF TypeOK
      <3> QED
        BY <3>1, <3>2, RequestFields
    <2>2. /\ accepted \subseteq accepted' /\ accepted' \subseteq wire
          /\ receiver'.sequence # 0 => receiver' \in accepted'
      BY <1>24 DEF Receive, LedgerInvariant, ReceiverHoldsSent
    <2>3. CacheIsLedger' /\ WireIsCovered' /\ SequenceNamesOneBody' /\ ReceiverHoldsSent'
      BY <1>24, <1>a, <2>2 DEF Receive, LedgerInvariant, CacheIsLedger, WireIsCovered, SequenceNamesOneBody, ReceiverHoldsSent, ValidRecord
    <2>4. AckIsStored' /\ NoSelfConflict' /\ CommitsAreConsistent'
      BY <1>24, <2>2 DEF Receive, LedgerInvariant, AckIsStored, NoSelfConflict, CommitsAreConsistent
    <2>5. ReplyIsTrue'
      <3> SUFFICES ASSUME pc = "await"
                   PROVE  /\ disk.pending \in wire
                          /\ reply' # None =>
                               /\ reply'.status # 409
                               /\ reply'.status = 200 /\ reply'.sequence = disk.pending.sequence =>
                                    disk.pending \in accepted'
        BY <1>24 DEF Receive, ReplyIsTrue
      <3>1. CASE reply' = reply
        BY <3>1, <2>2 DEF LedgerInvariant, ReplyIsTrue
      <3>2. CASE reply' = Answer(m) /\ m = disk.pending
        <4>1. m.sequence = disk.watermark
          BY <1>a, <3>2, <2>1, NoneAssumption DEF NoneAssumption, ValidRecord
        <4>2. receiver.sequence # 0 => /\ receiver \in wire
                                       /\ receiver.sequence <= m.sequence
          BY <2>1, <4>1 DEF LedgerInvariant, ReceiverHoldsSent, WireIsCovered
        <4>3. Answer(m).status = 200
          BY <2>1, <4>2 DEF Answer
        <4>4. m \in accepted'
          <5>1. CASE m.sequence > receiver.sequence
            BY <1>24, <5>1 DEF Receive
          <5>2. CASE m.sequence = receiver.sequence
            <6>1. receiver \in accepted /\ receiver \in wire
              BY <2>1, <4>2, <5>2 DEF LedgerInvariant, ReceiverHoldsSent
            <6>2. receiver = disk.pending
              BY <3>2, <4>1, <5>2, <6>1, <2>1, NoneAssumption
                 DEF NoneAssumption, LedgerInvariant, WireIsCovered
            <6> QED
              BY <3>2, <6>1, <6>2, <2>2
          <5> QED
            BY <2>1, <4>2, <5>1, <5>2
        <4> QED
          BY <3>2, <4>3, <4>4
      <3> QED
        BY <1>24, <1>a, <3>1, <3>2 DEF Receive, Awaited, CacheIsLedger
    <2> QED
      BY <2>3, <2>4, <2>5 DEF LedgerInvariant
  <1>25. CASE ReceiverRefuses
    <2>1. record = disk
      BY <1>25, <1>a DEF ReceiverRefuses, CacheIsLedger
    <2>2. ReplyIsTrue'
      BY <1>25, <2>1 DEF ReceiverRefuses, LedgerInvariant, ReplyIsTrue, Statuses
    <2>3. CacheIsLedger'
      BY <1>25, <1>a DEF ReceiverRefuses, CacheIsLedger, ValidRecord
    <2> QED
      BY <1>25, <2>2, <2>3, QuietStep DEF ReceiverRefuses
  <1>26. CASE UNCHANGED vars
    <2>1. CacheIsLedger' /\ ReplyIsTrue'
      BY <1>26 DEF vars, LedgerInvariant, CacheIsLedger, ReplyIsTrue, ValidRecord
    <2> QED
      BY <1>26, <2>1, QuietStep DEF vars
  <1> QED
    BY <1>1, <1>2, <1>3, <1>4, <1>5, <1>6, <1>7, <1>8, <1>9, <1>10, <1>11, <1>12, <1>13, <1>14, <1>15, <1>16, <1>17, <1>18, <1>19, <1>20, <1>21, <1>22, <1>23, <1>24, <1>25, <1>26
       DEF Next, Step, Environment

-----------------------------------------------------------------------------
(* Machine, store and receiver keep their types under every interleaving,  *)
(* for any number of sequences, bodies, clock values and clock changes.    *)
THEOREM TypeCorrect == Spec => []TypeOK
  <1>1. Init => TypeOK /\ LedgerInvariant
    BY TypeInit, InvInit
  <1>2. TypeOK /\ LedgerInvariant /\ [Next]_vars => TypeOK' /\ LedgerInvariant'
    BY TypeStep, InvStep DEF LedgerInvariant
  <1> QED
    BY <1>1, <1>2, PTL DEF Spec

(* The inductive invariant behind everything Machine.Step promises of its  *)
(* ledger holds in every reachable state.                                  *)
THEOREM LedgerSafety == Spec => []LedgerInvariant
  <1>1. Init => TypeOK /\ LedgerInvariant
    BY TypeInit, InvInit
  <1>2. TypeOK /\ LedgerInvariant /\ [Next]_vars => TypeOK' /\ LedgerInvariant'
    BY TypeStep, InvStep DEF LedgerInvariant
  <1> QED
    BY <1>1, <1>2, PTL DEF Spec
(* No two requests with one sequence number and different bodies are ever  *)
(* sent by Machine.Step.                                                   *)
THEOREM OneBodyPerSequence == Spec => []SequenceNamesOneBody
  <1>1. LedgerInvariant => SequenceNamesOneBody
    BY DEF LedgerInvariant
  <1> QED
    BY <1>1, LedgerSafety, PTL

(* Machine.Step never sends a sequence number the durable row does not     *)
(* cover.                                                                  *)
THEOREM SendsAreDurable == Spec => []SentIsDurable
  <1>1. LedgerInvariant => SentIsDurable
    BY DEF LedgerInvariant, WireIsCovered, SentIsDurable
  <1> QED
    BY <1>1, LedgerSafety, PTL

(* An acknowledgement in the ledger is backed by the receiver.             *)
THEOREM AcksAreTrue == Spec => []AckIsStored
  <1>1. LedgerInvariant => AckIsStored
    BY DEF LedgerInvariant
  <1> QED
    BY <1>1, LedgerSafety, PTL

(* The uploader never stops on a conflict with itself.                     *)
THEOREM ConflictIsForeign == Spec => []NoSelfConflict
  <1>1. LedgerInvariant => NoSelfConflict
    BY DEF LedgerInvariant
  <1> QED
    BY <1>1, LedgerSafety, PTL

(* Every way a step can change the ledger row: not at all, or by one of    *)
(* the four commits of Machine.Step, from an unstopped row.                *)
RowMoves ==
  \/ disk' = disk
  \/ /\ disk.stopped = "none"
     /\ \/ /\ disk' = Retired(disk) /\ disk.pending # None
           /\ TooOld(disk.pending.body)
        \/ \E b \in Bodies : disk' = Admitted(disk, b) /\ disk.pending = None
        \/ /\ disk' = Settled(disk) /\ disk.pending \in accepted
        \/ \E reason \in Stops : disk' = Stop(disk, reason)

(* Every action moves the row in one of the ways RowMoves lists.           *)
LEMMA StepMovesRow == TypeOK /\ LedgerInvariant /\ [Next]_vars => RowMoves
  <1> SUFFICES ASSUME TypeOK, LedgerInvariant, [Next]_vars PROVE RowMoves
    OBVIOUS
  <1>a. CacheIsLedger /\ disk \in Record
    BY DEF LedgerInvariant, TypeOK
  <1>1. CASE StepRetires
    <2>1. Loaded = disk
      BY <1>1, <1>a, LoadedIsDisk DEF StepRetires
    <2> QED
      BY <1>1, <2>1 DEF StepRetires, Commit, Pending, RowMoves
  <1>2. ASSUME NEW b \in Bodies, SourceExhausts(b) PROVE RowMoves
    BY <1>2, <1>a DEF SourceExhausts, Commit, CacheIsLedger, RowMoves, Stops
  <1>3. ASSUME NEW b \in Bodies, SourceAdmits(b) PROVE RowMoves
    BY <1>3, <1>a DEF SourceAdmits, Commit, CacheIsLedger, RowMoves
  <1>4. CASE ReplyAcknowledges
    <2>1. /\ record = disk /\ disk.stopped = "none" /\ disk.pending # None
          /\ pc = "await"
      BY <1>4, <1>a DEF ReplyAcknowledges, CacheIsLedger
    <2>2. reply # None /\ reply.status = 200 /\ reply.sequence = disk.pending.sequence
      BY <1>4, <2>1 DEF ReplyAcknowledges, Response, StatusOutcome
    <2>3. disk.pending \in accepted
      BY <2>1, <2>2 DEF LedgerInvariant, ReplyIsTrue
    <2> QED
      BY <1>4, <2>1, <2>3 DEF ReplyAcknowledges, Commit, RowMoves
  <1>5. CASE ReplyStops
    <2>1. record = disk /\ disk.stopped = "none" /\ Response \in Stops
      BY <1>5, <1>a DEF ReplyStops, CacheIsLedger, Stops
    <2> QED
      BY <1>5, <2>1 DEF ReplyStops, Commit, RowMoves
  <1>6. ASSUME ~StepRetires, ~ReplyAcknowledges, ~ReplyStops,
               \A b \in Bodies : ~SourceExhausts(b) /\ ~SourceAdmits(b)
        PROVE  disk' = disk
    BY <1>6 DEF Next, Step, Environment, StepBegins, StepRefused, StepLoadFails, StepStopped, StepSkewed, StepReads,
       StepResends, SourceFails, SourceInvalid, SourceSkipped, SendSkipped,
       Send, ReplyRetries, ReplyRateLimited, Tick, SetClock,
       Cancel, Exit, Open, Receive, ReceiverRefuses, vars
  <1> QED
    BY <1>1, <1>2, <1>3, <1>4, <1>5, <1>6 DEF RowMoves

(* No crash, restart or step moves the durable watermark back or undoes a  *)
(* terminal stop.                                                          *)
THEOREM RowOnlyAdvances == Spec => LedgerOnlyAdvances
  <1>1. ASSUME TypeOK, LedgerInvariant, [Next]_vars
        PROVE  /\ disk'.watermark >= disk.watermark
               /\ disk.stopped # "none" => disk' = disk
    <2>1. disk.watermark \in Nat /\ disk \in Record
      BY <1>1, RecordFields DEF TypeOK
    <2>2. /\ Retired(disk).watermark = disk.watermark
          /\ Settled(disk).watermark = disk.watermark
          /\ \A b \in Bodies : Admitted(disk, b).watermark = disk.watermark + 1
          /\ \A reason \in Stops : Stop(disk, reason).watermark = disk.watermark
      BY <2>1 DEF Retired, Settled, Admitted, Stop, Record
    <2> QED
      BY <1>1, <2>1, <2>2, StepMovesRow DEF RowMoves
  <1> QED
    BY <1>1, TypeCorrect, LedgerSafety, PTL DEF Spec, LedgerOnlyAdvances

(* A pending request leaves the row only when the receiver has stored it   *)
(* or when it is too old, and is never exchanged for another one.          *)
THEOREM PendingIsKept == Spec => PendingLeavesForAReason
  <1>1. ASSUME TypeOK, LedgerInvariant, [Next]_vars,
               disk.pending # None, disk'.pending # disk.pending
        PROVE  /\ disk'.pending = None
               /\ disk.pending \in accepted \/ TooOld(disk.pending.body)
    <2>1. disk \in Record
      BY <1>1 DEF TypeOK
    <2>2. /\ Retired(disk).pending = None
          /\ Settled(disk).pending = None
          /\ \A reason \in Stops : Stop(disk, reason).pending = disk.pending
      BY <2>1 DEF Retired, Settled, Stop, Record
    <2> QED
      BY <1>1, <2>2, StepMovesRow DEF RowMoves
  <1> QED
    BY <1>1, TypeCorrect, LedgerSafety, PTL DEF Spec, PendingLeavesForAReason

-----------------------------------------------------------------------------
(* The loop that paces the machine.                                        *)
Given == (Results \ {"none"}) \union {"running", "none", "ErrBusy", "ErrUsed"}
Holds(c) == calls[c] \in (Results \ {"none"}) \union {"running"}

(* A caller that got the loop has it while it runs and its result after    *)
(* that, and there is no other.                                            *)
CallsInv ==
  /\ calls \in [Callers -> Given] /\ running \in BOOLEAN /\ used \in BOOLEAN
  /\ at \in {"pause", "step"} => running
  /\ running => used
  /\ \A c \in Callers : Holds(c) =>
       /\ used
       /\ running => calls[c] = "running"
       /\ ~running => calls[c] = loopResult /\ calls[c] # "running"
  /\ \A c, d \in Callers : Holds(c) /\ Holds(d) => c = d
CapInv == streak \in 0 .. 8 /\ limited \in BOOLEAN /\ BackoffCap
LoopInv == CallsInv /\ CapInv

(* One failure more takes the cap one step up.                             *)
LEMMA NextCap ==
  ASSUME NEW s \in 0 .. 8, NEW t \in 0 .. 8, t = IF s < 8 THEN s + 1 ELSE s,
         NEW cap, cap = IF s > 6 THEN 60 ELSE IF s = 0 THEN 0 ELSE <<1, 2, 4, 8, 16, 32>>[s]
  PROVE  nextRetry(cap) = IF t > 6 THEN 60 ELSE IF t = 0 THEN 0 ELSE <<1, 2, 4, 8, 16, 32>>[t]
<1>1. s \in {0, 1, 2, 3, 4, 5, 6, 7, 8}
  OBVIOUS
<1>2. cap \in 0 .. 60
  BY <1>1
<1>3. nextRetry(cap) = IF cap = 0 THEN 1 ELSE IF cap >= 30 THEN 60 ELSE cap * 2
  BY <1>2 DEF nextRetry, maxRetryDelay
<1>4. CASE s = 0
  BY <1>3, <1>4
<1>5. CASE s \in {1, 2, 3}
  BY <1>3, <1>5
<1>6. CASE s \in {4, 5, 6}
  BY <1>3, <1>6
<1>7. CASE s \in {7, 8}
  BY <1>3, <1>7
<1> QED  BY <1>1, <1>4, <1>5, <1>6, <1>7

LEMMA CapStep ==
  ASSUME CapInv, [LoopNext]_loopSpecVars
  PROVE  CapInv'
<1>0. CASE streak' = 0 /\ retryCap' = 0 /\ limited' = FALSE
  <2>1. streak' \in 0 .. 8 /\ ~(streak' > 6)
    BY <1>0
  <2>2. limited' \in BOOLEAN /\ ~(limited' \/ streak' > 6)
    BY <1>0, <2>1, Zenon
  <2>3. BackoffCap'
    BY <1>0, <2>2, Zenon DEF BackoffCap
  <2> QED  BY <2>1, <2>2, <2>3, Zenon DEF CapInv
<1>1. CASE UNCHANGED <<retryCap, streak, limited>>
  BY <1>1 DEF CapInv, BackoffCap
<1>2. ASSUME NEW o \in Outcomes, StepReturns(o)
      PROVE  CapInv'
  <2>1. CASE cancelled \/ o \in Stopping
    <3>1. UNCHANGED <<retryCap, streak, limited>>
      BY <1>2, <2>1 DEF StepReturns, Stopping, Quiet, CapInv
    <3> QED  BY <1>1, <3>1
  <2>2. CASE ~cancelled /\ o \in Quiet
    <3>1. retryCap' = 0 /\ streak' = 0 /\ limited' = FALSE
      BY <1>2, <2>2 DEF StepReturns, Stopping, Quiet
    <3> QED  BY <1>0, <3>1
  <2>3. CASE ~cancelled /\ o = "RateLimited"
    <3>1. retryCap' = 60 /\ streak' = streak /\ limited' = TRUE
      BY <1>2, <2>3 DEF StepReturns, Stopping, Quiet, maxRetryDelay
    <3> QED  BY <3>1 DEF CapInv, BackoffCap, maxRetryDelay
  <2>4. CASE ~cancelled /\ o = "Retry"
    <3>1. /\ retryCap' = nextRetry(retryCap) /\ limited' = limited
          /\ streak' = IF streak < 8 THEN streak + 1 ELSE streak
      BY <1>2, <2>4 DEF StepReturns, Stopping, Quiet, CapInv
    <3>2. streak' \in 0 .. 8
      BY <3>1 DEF CapInv
    <3>3. CASE limited
      <4>1. retryCap = 60 /\ nextRetry(60) = 60
        BY <3>3 DEF CapInv, BackoffCap, maxRetryDelay, nextRetry
      <4> QED  BY <3>1, <3>2, <3>3, <4>1 DEF CapInv, BackoffCap, maxRetryDelay
    <3>4. CASE ~limited
      <4>1. retryCap = IF streak > 6 THEN 60 ELSE IF streak = 0 THEN 0 ELSE <<1, 2, 4, 8, 16, 32>>[streak]
        BY <3>4 DEF CapInv, BackoffCap, maxRetryDelay
      <4>2. retryCap' = IF streak' > 6 THEN 60 ELSE IF streak' = 0 THEN 0
                        ELSE <<1, 2, 4, 8, 16, 32>>[streak']
        BY <3>1, <3>2, <4>1, NextCap DEF CapInv
      <4> QED  BY <3>1, <3>2, <3>4, <4>2 DEF CapInv, BackoffCap, maxRetryDelay
    <3> QED  BY <3>3, <3>4 DEF CapInv
  <2> QED  BY <1>2, <2>1, <2>2, <2>3, <2>4 DEF Outcomes
<1>3. ASSUME NEW e \in Errors, StepFails(e)
      PROVE  CapInv'
  <2>1. \/ UNCHANGED <<retryCap, streak, limited>>
        \/ retryCap' = 0 /\ streak' = 0 /\ limited' = FALSE
    BY <1>3 DEF StepFails, historyVars
  <2> QED  BY <1>0, <1>1, <2>1
<1> QED  BY <1>1, <1>2, <1>3 DEF LoopNext, LoopStep, PauseEnds, CancelRun, Run, loopSpecVars,
            loopVars, historyVars

(* The run ends and its caller gets the result.                            *)
LEMMA RunEnds ==
  ASSUME CallsInv, at \in {"pause", "step"}, used' = used, NEW r \in Results \ {"none"}, finish(r)
  PROVE  CallsInv'
<1>1. /\ running' = FALSE /\ loopResult' = r /\ at' = "done" /\ running /\ used
      /\ calls' = [c \in Callers |-> IF calls[c] = "running" THEN r ELSE calls[c]]
  BY DEF finish, CallsInv
<1>2. r \in Given /\ r # "running" /\ "running" \notin Results
  BY DEF Given, Results, Stopping
<1>3. calls' \in [Callers -> Given]
  BY <1>1, <1>2 DEF CallsInv
<1>4. \A c \in Callers : calls[c] \in Results \ {"none"} => ~Holds(c)
  BY <1>1, <1>2 DEF CallsInv, Holds
<1>5. \A c \in Callers : calls[c] \notin Results \ {"none"}
  BY <1>4 DEF Holds
<1>6. \A c \in Callers : Holds(c)' => calls[c] = "running" /\ calls'[c] = r
  BY <1>1, <1>2, <1>5 DEF Holds
<1>7. \A c \in Callers : calls[c] = "running" => Holds(c)
  BY DEF Holds
<1> QED  BY <1>1, <1>2, <1>3, <1>6, <1>7 DEF CallsInv

(* It goes on.                                                             *)
LEMMA RunGoesOn ==
  ASSUME CallsInv, UNCHANGED <<calls, running, used, loopResult>>,
         at' = at \/ running
  PROVE  CallsInv'
  BY DEF CallsInv, Holds

LEMMA CallStep ==
  ASSUME CallsInv, NEW c \in Callers, Run(c)
  PROVE  CallsInv'
<1>1. /\ calls \in [Callers -> Given] /\ calls[c] = "none" /\ ~Holds(c)
      /\ \A d \in Callers : ~Holds(d) \/ used
  BY DEF CallsInv, Run, Holds, Results, Stopping
<1>2. ASSUME NEW v \in {"ErrBusy", "ErrUsed"}, calls' = [calls EXCEPT ![c] = v],
             UNCHANGED <<at, running, used, loopResult>>
      PROVE  CallsInv'
  <2>1. /\ calls' \in [Callers -> Given] /\ calls'[c] = v
        /\ \A d \in Callers : d # c => calls'[d] = calls[d]
    BY <1>1, <1>2 DEF Given
  <2>2. ~Holds(c)'
    BY <2>1 DEF Holds, Results, Stopping
  <2>3. \A d \in Callers : Holds(d)' => Holds(d) /\ calls'[d] = calls[d]
    BY <2>1, <2>2 DEF Holds
  <2> QED  BY <1>2, <2>1, <2>3 DEF CallsInv
<1>3. ASSUME ~used, used' = TRUE, running' = TRUE, calls' = [calls EXCEPT ![c] = "running"]
      PROVE  CallsInv'
  <2>1. /\ calls' \in [Callers -> Given] /\ calls'[c] = "running"
        /\ \A d \in Callers : d # c => calls'[d] = calls[d]
    BY <1>1, <1>3 DEF Given
  <2>2. \A d \in Callers : Holds(d)' => d = c
    BY <1>1, <1>3, <2>1 DEF Holds
  <2> QED  BY <1>3, <2>1, <2>2 DEF CallsInv
<1> QED  BY <1>2, <1>3 DEF Run, loopVars

LEMMA CallsStep ==
  ASSUME CallsInv, [LoopNext]_loopSpecVars
  PROVE  CallsInv'
<1>1. ASSUME NEW r \in Results \ {"none"}, at \in {"pause", "step"}, used' = used, finish(r)
      PROVE  CallsInv'
  BY <1>1, RunEnds
<1>2. ASSUME NEW d, at \in {"pause", "step"}, used' = used, Pause(d)
      PROVE  CallsInv'
  BY <1>2, RunGoesOn DEF Pause, CallsInv
<1>3. /\ "CANCELED" \in Results \ {"none"} /\ "RECOVERY_REQUIRED" \in Results \ {"none"}
      /\ "DEPENDENCY_FAILED" \in Results \ {"none"} /\ Stopping \subseteq Results \ {"none"}
  BY DEF Results, Stopping
<1>4. CASE PauseEnds
  <2>1. at = "pause" /\ used' = used
    BY <1>4 DEF PauseEnds
  <2>2. CASE finish("CANCELED")
    BY <1>1, <1>3, <2>1, <2>2
  <2>3. CASE UNCHANGED <<running, loopResult, calls>>
    BY <2>1, <2>3, RunGoesOn DEF CallsInv
  <2> QED  BY <1>4, <2>2, <2>3 DEF PauseEnds
<1>5. ASSUME NEW o \in Outcomes, StepReturns(o)
      PROVE  CallsInv'
  <2>1. at = "step" /\ used' = used
    BY <1>5 DEF StepReturns
  <2>2. \/ finish("CANCELED")
        \/ o \in Stopping /\ finish(o)
        \/ \E d : Pause(d)
    BY <1>5 DEF StepReturns
  <2> QED  BY <1>1, <1>2, <1>3, <2>1, <2>2
<1>6. ASSUME NEW e \in Errors, StepFails(e)
      PROVE  CallsInv'
  <2>1. at = "step" /\ used' = used
    BY <1>6 DEF StepFails
  <2>2. \/ \E r \in {"CANCELED", "RECOVERY_REQUIRED", "DEPENDENCY_FAILED"} : finish(r)
        \/ \E d : Pause(d)
    BY <1>6 DEF StepFails
  <2> QED  BY <1>1, <1>2, <1>3, <2>1, <2>2
<1>7. CASE CancelRun \/ UNCHANGED loopSpecVars
  BY <1>7, RunGoesOn DEF CancelRun, loopSpecVars, loopVars
<1> QED  BY <1>4, <1>5, <1>6, <1>7, CallStep DEF LoopNext, LoopStep

(* Whoever calls Run and whatever Step returns, one caller gets the loop   *)
(* and its result, and the pauses of the loop are what its own failures    *)
(* call for (Run, run, finish, nextRetry).                                 *)
THEOREM LoopHolds == LoopSpec => []LoopIsBounded
<1>1. LoopInit => LoopInv
  <2> SUFFICES ASSUME LoopInit
               PROVE  LoopInv
    OBVIOUS
  <2>1. CapInv
    <3>1. streak = 0 /\ retryCap = 0 /\ limited = FALSE
      BY Zenon DEF LoopInit
    <3>2. streak \in 0 .. 8 /\ ~(streak > 6)
      BY <3>1
    <3>3. limited \in BOOLEAN /\ ~(limited \/ streak > 6)
      BY <3>1, <3>2, Zenon
    <3>4. BackoffCap
      BY <3>1, <3>3, Zenon DEF BackoffCap
    <3> QED  BY <3>2, <3>3, <3>4, Zenon DEF CapInv
  <2>2. calls \in [Callers -> Given] /\ \A c \in Callers : ~Holds(c)
    BY DEF LoopInit, Given, Holds, Results, Stopping
  <2>3. CallsInv
    BY <2>2 DEF LoopInit, CallsInv
  <2> QED  BY <2>1, <2>3 DEF LoopInv
<1>2. LoopInv /\ [LoopNext]_loopSpecVars => LoopInv'
  BY CapStep, CallsStep DEF LoopInv
<1>3. LoopInv => LoopIsBounded
  <2> SUFFICES ASSUME LoopInv
               PROVE  OneRun
    BY DEF LoopInv, CapInv, LoopIsBounded
  <2>1. \A c \in Callers : calls[c] \in (Results \union {"running"}) \ {"none"} => Holds(c)
    BY DEF Holds
  <2>2. \A c \in Callers : calls[c] = "running" => running
    BY <2>1 DEF LoopInv, CallsInv, Holds
  <2>3. \A c \in Callers : calls[c] \in Results \ {"none"} => calls[c] = loopResult
    <3>1. "running" \notin Results
      BY DEF Results, Stopping
    <3> QED  BY <2>1, <3>1 DEF LoopInv, CallsInv
  <2>4. \A c, d \in Callers : Holds(c) /\ Holds(d) => c = d
    BY DEF LoopInv, CallsInv
  <2> QED  BY <2>1, <2>2, <2>3, <2>4 DEF OneRun
<1> QED  BY <1>1, <1>2, <1>3, PTL DEF LoopSpec
=============================================================================
