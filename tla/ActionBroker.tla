---------------------------- MODULE ActionBroker ----------------------------
(* internal/actionbroker serving internal/actionworker: the broker process *)
(* holds the journal and the engine, the worker process talks to the       *)
(* platform, and each conversation is one connection between them.  The    *)
(* worker handles one conversation at a time, but a worker that is         *)
(* restarted leaves conversations behind that the broker still executes.   *)
(* The platform, the engine and the service manager are external: a reply  *)
(* may be lost after the platform acted, either process may be killed      *)
(* between any two steps and every check of the clock budget or of the     *)
(* protected files may fail.                                               *)
(*                                                                         *)
(* The journal is seen through its AdmissionSnapshot and the attempt of    *)
(* one execution; ActionJournal and ActionWorker model it in full.  Time   *)
(* is not modelled: a deadline that may have passed is a check that may    *)
(* fail, and the cooldown of a record ends at any moment.                  *)
EXTENDS Naturals, FiniteSets

CONSTANTS
  Actions,     \* what the platform is asked to do
  Target,      \* [Actions -> containers]; validatePolicy gives each one target
  Handlers,    \* the handler slots: 3 in accept and in register
  MaxLive,     \* reservations at once: 2
  MaxRecords,  \* records of the journal: 1000
  MaxTalks,    \* bound: reservations the broker makes in a run
  MaxWorkers,  \* bound: starts of the worker process
  MaxBrokers,  \* bound: starts of the broker process
  None

Talks == 1..MaxTalks
Targets == {Target[a] : a \in Actions}
Records == {"none", "admitted", "intent", "fresh", "done"}
Terminal == {"fresh", "done"}

ASSUME BrokerAssumption ==
  /\ Target \in [Actions -> Targets]
  /\ MaxLive \in Nat \ {0} /\ MaxRecords \in Nat \ {0}
  /\ MaxTalks \in Nat /\ MaxWorkers \in Nat /\ MaxBrokers \in Nat
  /\ None \notin Actions \union Handlers

VARIABLES
  remote,   \* what the platform holds of each action
  worker,   \* the worker process: [at, conn, disabled, claim, starts]
  wire,     \* the message each connection carries
  wopen,    \* the worker's end is open
  bopen,    \* the broker's end is open
  broker,   \* the broker process: [at, fenced, locked, ready, starts]
  control,  \* the handler of the one snapshot publication, or None
  live,     \* the reservations, by nonce
  made,     \* how many were made
  at,       \* where each handler is
  talk,     \* the nonce of its reservation
  rows,     \* the journal's records
  attempt,  \* the attempts not yet closed: [Actions -> handler or None]
  carrier   \* history: the reservation a claim of this broker came under

vars == <<remote, worker, wire, wopen, bopen, broker, control, live, made, at,
          talk, rows, attempt, carrier>>

Reservation == [targets : SUBSET Targets, bound : Actions \union {None},
                tried : BOOLEAN]
Live == {n \in Talks : live[n] # None}
Up == broker.at = "up"
(* Neither fenced nor quiescing, which every step of a handler checks.     *)
Admits == Up /\ ~broker.fenced

-----------------------------------------------------------------------------
(* The journal as the broker reads it.                                     *)
Stored == {a \in Actions : rows[a] # "none"}
Owned == {live[n].bound : n \in Live}
Uncertain == {a \in Actions : rows[a] = "intent" \/ attempt[a] # None}

(* snapshot: an uncertain record that no reservation owns locks the broker *)
(* until it is restarted, and a locked broker has no snapshot.             *)
Locks == broker.locked \/ Uncertain \ Owned # {}

(* Mutant: a container another reservation is bound to is offered again. *)
eligibleByRecord(except) ==
  {t \in Targets : \A a \in Actions :
     Target[a] = t => rows[a] \notin {"intent", "fresh"}}
(* eligible: the containers with no other bound reservation, no unresolved *)
(* record and no known mutation in its cooldown.                           *)
eligible(except) ==
  {t \in Targets :
     /\ \A n \in Live \ {except} : live[n].bound = None \/ Target[live[n].bound] # t
     /\ \A a \in Actions : Target[a] = t => rows[a] \notin {"intent", "fresh"}}

(* The records there will be once every reservation has its own.           *)
logical == Cardinality(Stored) + Cardinality({n \in Live : live[n].bound \notin Stored})

-----------------------------------------------------------------------------
(* A message: its kind and what an approval, a claim or a result carries.  *)
Message(k) == [kind |-> k, body |-> <<>>]
Carry(h, k, b) == wire' = [wire EXCEPT ![h] = [kind |-> k, body |-> b]]
Send(h, k) == Carry(h, k, <<>>)
Goto(h, s) == at' = [at EXCEPT ![h] = s]
(* A handler's connection ends with its handler; what it sent can still be *)
(* read while the other end is open.                                       *)
End(h) ==
  /\ at' = [at EXCEPT ![h] = "free"]
  /\ bopen' = [bopen EXCEPT ![h] = FALSE]
  /\ talk' = [talk EXCEPT ![h] = 0]
  /\ wire' = [wire EXCEPT ![h] = IF wopen[h] THEN @ ELSE Message("none")]
(* A read that returns an end of file, a cancellation or a deadline.       *)
Sent(h, k) == bopen[h] /\ wire[h].kind = k

workerVars == <<remote, worker, wopen, carrier>>
journalVars == <<rows, attempt>>

(* openBrokerRuntime: newBrokerState refuses to open on an unresolved      *)
(* record, which nothing but an operator resolves.                         *)
openBrokerRuntime ==
  /\ broker.at = "down" /\ broker.starts < MaxBrokers
  /\ \A a \in Actions : rows[a] # "intent"
  /\ broker' = [at |-> "up", fenced |-> FALSE,
                locked |-> FALSE, ready |-> FALSE, starts |-> broker.starts + 1]
  /\ UNCHANGED <<workerVars, wire, bopen, control, live, made, at, talk, journalVars>>

(* run, told to stop or failed by its listener: every handler's context is *)
(* cancelled, which closes its connection.  quiescing, set if the state    *)
(* lock happens to be free, refuses nothing that the fence does not.       *)
stopAdmission ==
  /\ Up /\ ~broker.fenced
  /\ broker' = [broker EXCEPT !.fenced = TRUE, !.ready = FALSE]
  /\ bopen' = [h \in Handlers |-> FALSE]
  /\ UNCHANGED <<workerVars, wire, control, live, made, at, talk, journalVars>>

(* The process ends: RunBroker returns once its handlers have joined, or   *)
(* after 75 seconds without them, or the process is killed.  The records   *)
(* are what remains.                                                       *)
Exit ==
  /\ Up
  /\ broker' = [broker EXCEPT !.at = "down"]
  /\ at' = [h \in Handlers |-> "free"]
  /\ bopen' = [h \in Handlers |-> FALSE]
  /\ talk' = [h \in Handlers |-> 0]
  /\ live' = [n \in Talks |-> None]
  /\ attempt' = [a \in Actions |-> None]
  /\ control' = None
  /\ wire' = [h \in Handlers |-> IF wopen[h] THEN wire[h] ELSE Message("none")]
  /\ carrier' = [a \in Actions |-> 0]
  /\ UNCHANGED <<remote, worker, wopen, made, rows>>

-----------------------------------------------------------------------------
(* serveOwned up to the selection.  A fenced or contended registry closes  *)
(* the connection; readinessCurrent then selects the branch.               *)
serveOwned(h) ==
  /\ at[h] = "greet" /\ Sent(h, "BEGIN")
  /\ \/ /\ Admits
        /\ Goto(h, IF broker.ready THEN "reserve" ELSE "control")
        /\ Send(h, "none")
        /\ UNCHANGED <<bopen, talk>>
     \/ End(h)
  /\ UNCHANGED <<workerVars, broker, control, live, made, journalVars>>
(* The greeting or the source check fails: nothing was reserved.           *)
GreetingFails(h) ==
  /\ at[h] = "greet" /\ (~bopen[h] \/ ~wopen[h])
  /\ End(h)
  /\ UNCHANGED <<workerVars, broker, control, live, made, journalVars>>

(* beginControl and the SNAPSHOT_QUERY it sends; one publication at a time *)
(* and none with the journal full.                                         *)
beginControl(h) ==
  /\ at[h] = "control"
  /\ IF Admits /\ control = None /\ ~Locks
          /\ Cardinality(Stored) + Cardinality(Live) < MaxRecords
       THEN /\ control' = h
            /\ broker' = [broker EXCEPT !.ready = FALSE]
            /\ Send(h, "SNAPSHOT_QUERY") /\ Goto(h, "query")
            /\ UNCHANGED <<bopen, talk>>
       ELSE /\ broker' = [broker EXCEPT !.locked =
                            @ \/ (Admits /\ control = None /\ Locks)]
            /\ End(h)
            /\ UNCHANGED control
  /\ UNCHANGED <<workerVars, live, made, journalVars>>

(* completeControl on the worker's reply, or cancelControl.                *)
completeControl(h) ==
  /\ at[h] = "query"
  /\ control' = None
  /\ \/ /\ Sent(h, "SNAPSHOT_OK") /\ Admits
        /\ broker' = [broker EXCEPT !.ready = TRUE]
     \/ /\ wire[h].kind # "SNAPSHOT_OK" => (~wopen[h] \/ ~bopen[h] \/ wire[h].kind = "SNAPSHOT_REFUSED")
        /\ broker' = [broker EXCEPT !.ready = FALSE]
  /\ End(h)
  /\ UNCHANGED <<workerVars, live, made, journalVars>>

(* The readiness is 15 seconds old.                                        *)
ReadinessExpires ==
  /\ Up /\ broker.ready
  /\ broker' = [broker EXCEPT !.ready = FALSE]
  /\ UNCHANGED <<workerVars, wire, bopen, control, live, made, at, talk, journalVars>>

(* reserve: a reservation for what is eligible now.                        *)
reserve(h) ==
  /\ at[h] = "reserve"
  /\ IF /\ Admits /\ broker.ready /\ ~Locks
        /\ Cardinality(Live) < MaxLive /\ logical < MaxRecords
        /\ eligible(0) # {}
       THEN /\ made < MaxTalks
            /\ made' = made + 1
            /\ live' = [live EXCEPT ![made + 1] =
                 [targets |-> eligible(0), bound |-> None, tried |-> FALSE]]
            /\ talk' = [talk EXCEPT ![h] = made + 1]
            /\ Goto(h, "approve")
            /\ UNCHANGED <<broker, bopen, wire>>
       ELSE /\ broker' = [broker EXCEPT !.locked = @ \/ (Admits /\ broker.ready /\ Locks)]
            /\ End(h)
            /\ UNCHANGED <<made, live>>
  /\ UNCHANGED <<workerVars, control, journalVars>>

(* Mutant: an unanswered conversation is forgotten. *)
abandonQuietly(h) ==
  /\ live' = [live EXCEPT ![talk[h]] = None]
  /\ broker' = broker
  /\ End(h)
(* abandon: the platform may have handed a claim out that nobody will ever *)
(* report, so the broker is locked.                                        *)
abandon(h) ==
  /\ live' = [live EXCEPT ![talk[h]] = None]
  /\ broker' = [broker EXCEPT !.locked = TRUE]
  /\ End(h)

(* approvalFor and the APPROVAL_SNAPSHOT it sends.                         *)
approvalFor(h) ==
  /\ at[h] = "approve"
  /\ \/ /\ Admits /\ bopen[h]
        /\ Carry(h, "APPROVAL", <<talk[h], live[talk[h]].targets>>) /\ Goto(h, "claim")
        /\ UNCHANGED <<live, broker, bopen, talk>>
     \/ ~(Admits /\ bopen[h] /\ wopen[h]) /\ abandon(h)
  /\ UNCHANGED <<workerVars, control, made, journalVars>>

(* ReadClaimDelivery: NO_CLAIM releases the reservation; anything but a    *)
(* delivery in time abandons it.                                           *)
releaseUnclaimed(h) ==
  /\ at[h] = "claim" /\ Sent(h, "NO_CLAIM")
  /\ live' = [live EXCEPT ![talk[h]] = None]
  /\ End(h)
  /\ UNCHANGED <<workerVars, broker, control, made, journalVars>>
DeliveryFails(h) ==
  /\ at[h] = "claim"
  /\ abandon(h)
  /\ UNCHANGED <<workerVars, control, made, journalVars>>

(* bindClaim: the claim is new to the journal, its container was offered   *)
(* and is still eligible.  A refusal locks the broker through abandon.     *)
bindClaim(h) ==
  /\ at[h] = "claim" /\ Sent(h, "CLAIMED_EXECUTE")
  /\ LET n == talk[h]
         a == wire[h].body[1]
     IN IF /\ Admits /\ ~live[n].tried /\ ~Locks
           /\ rows[a] = "none"
           /\ Target[a] \in live[n].targets \intersect eligible(n)
          THEN /\ live' = [live EXCEPT ![n].tried = TRUE, ![n].bound = a]
               /\ Goto(h, "bound") /\ Send(h, "none")
               /\ UNCHANGED <<broker, bopen, talk>>
          ELSE abandon(h)
  /\ UNCHANGED <<workerVars, control, made, journalVars>>

-----------------------------------------------------------------------------
(* execute: currentExecution surrounds every step of the core's Execute,   *)
(* and any failure goes on to the retained report.                         *)
currentExecution(h) == Admits /\ live[talk[h]] # None
Bound(h) == live[talk[h]].bound

(* conversationAuthority.Check sends a challenge and awaits the decision.  *)
Challenge(h, from, to) ==
  /\ at[h] = from
  /\ currentExecution(h) /\ bopen[h]
  /\ Send(h, "CHALLENGE") /\ Goto(h, to)
  /\ UNCHANGED <<workerVars, bopen, broker, control, live, made, talk, journalVars>>
FirstCheck(h) == Challenge(h, "bound", "check1")
SecondCheck(h) == Challenge(h, "held", "check2")

(* The core returns before it has an attempt: refused, late or denied.     *)
NotAcquired(h) ==
  /\ at[h] \in {"bound", "check1"}
  /\ Goto(h, "report")
  /\ UNCHANGED <<workerVars, wire, bopen, broker, control, live, made, talk, journalVars>>

(* sourceJournal.Acquire once the first check permits; the journal admits  *)
(* no second attempt on a container and no record beyond its limit.  A     *)
(* check that fails after the record was admitted closes the attempt.      *)
Acquire(h) ==
  /\ at[h] = "check1" /\ Sent(h, "PERMITTED") /\ currentExecution(h)
  /\ Cardinality(Stored) < MaxRecords
  /\ \A a \in Actions : Target[a] = Target[Bound(h)] =>
       rows[a] \notin {"intent", "fresh"} /\ attempt[a] = None
  /\ rows' = [rows EXCEPT ![Bound(h)] = "admitted"]
  /\ \/ /\ attempt' = [attempt EXCEPT ![Bound(h)] = h]
        /\ Goto(h, "held")
     \/ UNCHANGED attempt /\ Goto(h, "report")
  /\ Send(h, "none")
  /\ UNCHANGED <<workerVars, bopen, broker, control, live, made, talk>>

(* attempt.Finish for a container that needs no request, attempt.Intent    *)
(* before one that does; either may be committed and still be refused.     *)
Decide(h) ==
  /\ at[h] = "check2" /\ Sent(h, "PERMITTED") /\ currentExecution(h)
  /\ \/ /\ rows' = [rows EXCEPT ![Bound(h)] = "done"] /\ Goto(h, "close")
     \/ /\ rows' = [rows EXCEPT ![Bound(h)] = "intent"]
        /\ \/ Goto(h, "dispatch")
           \/ Goto(h, "close")
  /\ Send(h, "none")
  /\ UNCHANGED <<workerVars, bopen, broker, control, live, made, talk, attempt>>

(* phaseEngine.mutate and attempt.Finish: the request is carried out and   *)
(* recorded, or the record stays unresolved.                               *)
mutate(h) ==
  /\ at[h] = "dispatch"
  /\ \/ currentExecution(h) /\ rows' = [rows EXCEPT ![Bound(h)] = "fresh"]
     \/ UNCHANGED rows
  /\ Goto(h, "close")
  /\ UNCHANGED <<workerVars, wire, bopen, broker, control, live, made, talk, attempt>>
(* A failed inspection, check or journal step ends the core's Execute.     *)
GivesUp(h) ==
  /\ at[h] \in {"held", "check2"}
  /\ Goto(h, "close")
  /\ UNCHANGED <<workerVars, wire, bopen, broker, control, live, made, talk, journalVars>>
(* The core's deferred attempt.Close.                                      *)
CloseAttempt(h) ==
  /\ at[h] = "close"
  /\ attempt' = [attempt EXCEPT ![Bound(h)] = None]
  /\ Goto(h, "report")
  /\ UNCHANGED <<workerVars, wire, bopen, broker, control, live, made, talk, rows>>

(* retainedReport: what the journal holds of this action, never what the   *)
(* core returned; a record without an intent or a terminal is no report.   *)
retainedReport(a) ==
  CASE rows[a] \in Terminal -> "DONE"
    [] rows[a] = "intent" -> "UNKNOWN"
    [] OTHER -> "none"

(* The RESULT handoff.  Cancellation, a spent budget or a changed source   *)
(* is a failure even after it was sent.                                    *)
Report(h) ==
  /\ at[h] = "report"
  /\ \/ /\ retainedReport(Bound(h)) # "none" /\ bopen[h] /\ attempt[Bound(h)] = None
        /\ Carry(h, "RESULT", <<Bound(h), retainedReport(Bound(h))>>)
        /\ \E s \in {"settle", "settleFailed"} : Goto(h, s)
     \/ UNCHANGED wire /\ Goto(h, "settleFailed")
  /\ UNCHANGED <<workerVars, bopen, broker, control, live, made, talk, journalVars>>

(* execute's deferred functions: a failure locks the broker, and finish    *)
(* releases the reservation, locking it too without a terminal record.     *)
(* When the journal cannot be read the reservation stays for good.         *)
finish(h) ==
  /\ at[h] \in {"settle", "settleFailed"}
  /\ \/ /\ broker' = [broker EXCEPT !.locked =
                        @ \/ at[h] = "settleFailed" \/ rows[Bound(h)] \notin Terminal]
        /\ live' = [live EXCEPT ![talk[h]] = None]
     \/ /\ broker' = [broker EXCEPT !.locked = TRUE]
        /\ UNCHANGED live
  /\ End(h)
  /\ UNCHANGED <<workerVars, control, made, journalVars>>

(* Thirty seconds after a known mutation.                                  *)
CooldownEnds(a) ==
  /\ rows[a] = "fresh"
  /\ rows' = [rows EXCEPT ![a] = "done"]
  /\ UNCHANGED <<workerVars, wire, bopen, broker, control, live, made, at, talk, attempt>>

-----------------------------------------------------------------------------
(* actionworker.RunWorker: one conversation at a time.  disabled is the    *)
(* one-way latch of the process.                                           *)
brokerVars == <<broker, bopen, control, live, made, talk, journalVars>>
Idle(disabled) ==
  worker' = [worker EXCEPT !.at = "dial", !.conn = None, !.claim = None,
                           !.disabled = disabled]
Received == wire[worker.conn]
Reads(k) == Received.kind = k
(* Hanging up after a last message m.                                      *)
Hangup(m) ==
  /\ wopen' = [wopen EXCEPT ![worker.conn] = FALSE]
  /\ wire' = [wire EXCEPT ![worker.conn] =
               IF bopen[worker.conn] THEN m ELSE Message("none")]

RunWorker ==
  /\ worker.at = "down" /\ worker.starts < MaxWorkers
  /\ worker' = [at |-> "dial", conn |-> None, disabled |-> FALSE,
                claim |-> None, starts |-> worker.starts + 1]
  /\ UNCHANGED <<remote, wire, wopen, at, brokerVars, carrier>>

(* The broker's accept and register: a slot for the connection; without a  *)
(* free one, or behind the fence, it is closed again and nothing changes.  *)
accept(h) ==
  /\ Admits /\ at[h] = "free"
  /\ Goto(h, "greet")
  /\ bopen' = [bopen EXCEPT ![h] = TRUE]

(* dialBroker and the BEGIN.                                               *)
dialBroker(h) ==
  /\ worker.at = "dial"
  /\ accept(h) /\ Send(h, "BEGIN")
  /\ wopen' = [wopen EXCEPT ![h] = TRUE]
  /\ worker' = [worker EXCEPT !.at = "begun", !.conn = h]
  /\ UNCHANGED <<remote, broker, control, live, made, talk, journalVars, carrier>>

(* ReadWorkerSelection meets the end of the stream: nothing was selected.  *)
NoSelection ==
  /\ worker.at = "begun" /\ ~bopen[worker.conn]
  /\ Received.kind \in {"none", "BEGIN"}
  /\ Idle(worker.disabled) /\ Hangup(Received)
  /\ UNCHANGED <<remote, at, brokerVars, carrier>>

(* RefreshSnapshot: one head read and at most one publication; any outcome *)
(* but OK is delivered as a refusal, or disables the worker.               *)
RefreshSnapshot ==
  /\ worker.at = "begun" /\ Reads("SNAPSHOT_QUERY")
  /\ \/ /\ ~worker.disabled
        /\ \E k \in {"SNAPSHOT_OK", "SNAPSHOT_REFUSED"} : Hangup(Message(k))
        /\ Idle(FALSE)
     \/ Idle(TRUE) /\ Hangup(Received)
  /\ UNCHANGED <<remote, at, brokerVars, carrier>>

(* Client.Claim offers the containers of the approval.  The platform hands *)
(* out one of their actions or none, and the request or its answer may be  *)
(* lost.  A disabled worker asks for nothing.                              *)
Claim ==
  /\ worker.at = "begun" /\ Reads("APPROVAL")
  /\ \/ Idle(TRUE) /\ Hangup(Received) /\ UNCHANGED <<remote, carrier>>
     \/ /\ ~worker.disabled
        /\ Hangup(Message("NO_CLAIM")) /\ Idle(FALSE)
        /\ UNCHANGED <<remote, carrier>>
     \/ /\ ~worker.disabled
        /\ \E a \in {b \in Actions : remote[b] = "pending"} :
             /\ Target[a] \in Received.body[2]
             /\ remote' = [remote EXCEPT ![a] = "claimed"]
             /\ carrier' = [carrier EXCEPT ![a] = Received.body[1]]
             /\ \/ /\ worker' = [worker EXCEPT !.at = "deliver", !.claim = a]
                   /\ UNCHANGED <<wire, wopen>>
                \/ Idle(TRUE) /\ Hangup(Received)
  /\ UNCHANGED <<at, brokerVars>>

(* CLAIMED_EXECUTE.                                                        *)
Deliver ==
  /\ worker.at = "deliver"
  /\ \/ Carry(worker.conn, "CLAIMED_EXECUTE", <<worker.claim>>)
        /\ worker' = [worker EXCEPT !.at = "serve"] /\ UNCHANGED wopen
     \/ ~bopen[worker.conn] /\ Idle(TRUE) /\ Hangup(Received)
  /\ UNCHANGED <<remote, at, brokerVars, carrier>>

(* Client.Check: a denial is delivered and then disables the worker.       *)
Check ==
  /\ worker.at = "serve" /\ Reads("CHALLENGE")
  /\ \/ Send(worker.conn, "PERMITTED") /\ UNCHANGED <<worker, wopen>>
     \/ Hangup(Message("DENIED")) /\ Idle(TRUE)
  /\ UNCHANGED <<remote, at, brokerVars, carrier>>

(* Client.Report of the RESULT; the platform keeps the first it receives,  *)
(* and the worker is disabled without its receipt and by an unknown one.   *)
ReportResult ==
  /\ worker.at = "serve" /\ Reads("RESULT")
  /\ LET a == Received.body[1]
         code == Received.body[2]
     IN /\ a = worker.claim
        /\ \/ /\ remote' = [remote EXCEPT ![a] = code]
              /\ \E receipt \in BOOLEAN : Idle(~receipt \/ code = "UNKNOWN")
           \/ Idle(TRUE) /\ UNCHANGED remote
  /\ Hangup(Message("none"))
  /\ UNCHANGED <<at, brokerVars, carrier>>

(* The conversation breaks off after a claim was asked for, or any of the  *)
(* worker's own deadlines passes: it never claims again.                   *)
BreaksOff ==
  /\ worker.at \in {"deliver", "serve"}
  /\ Idle(TRUE) /\ Hangup(Received)
  /\ UNCHANGED <<remote, at, brokerVars, carrier>>

(* The worker returns or is killed; its connection closes.                 *)
WorkerEnds ==
  /\ worker.at # "down"
  /\ worker' = [worker EXCEPT !.at = "down", !.conn = None, !.claim = None,
                              !.disabled = FALSE]
  /\ IF worker.conn = None THEN UNCHANGED <<wopen, wire>> ELSE Hangup(Received)
  /\ UNCHANGED <<remote, at, brokerVars, carrier>>

(* external: the platform offers an action again whose lease ran out.      *)
LeaseEnds(a) ==
  /\ remote[a] = "claimed"
  /\ remote' = [remote EXCEPT ![a] = "pending"]
  /\ UNCHANGED <<worker, wire, wopen, at, brokerVars, carrier>>

-----------------------------------------------------------------------------
(* The journal may hold records of an earlier broker.                      *)
Init ==
  /\ \E old \in SUBSET Actions :
       /\ Cardinality(old) < MaxRecords
       /\ remote = [a \in Actions |-> IF a \in old THEN "DONE" ELSE "pending"]
       /\ rows = [a \in Actions |-> IF a \in old THEN "done" ELSE "none"]
  /\ worker = [at |-> "down", conn |-> None, disabled |-> FALSE, claim |-> None,
               starts |-> 0]
  /\ wire = [h \in Handlers |-> Message("none")]
  /\ wopen = [h \in Handlers |-> FALSE]
  /\ bopen = [h \in Handlers |-> FALSE]
  /\ broker = [at |-> "down", fenced |-> FALSE,
               locked |-> FALSE, ready |-> FALSE, starts |-> 0]
  /\ control = None
  /\ live = [n \in Talks |-> None] /\ made = 0
  /\ at = [h \in Handlers |-> "free"] /\ talk = [h \in Handlers |-> 0]
  /\ attempt = [a \in Actions |-> None]
  /\ carrier = [a \in Actions |-> 0]

Handler(h) ==
  \/ serveOwned(h) \/ GreetingFails(h)
  \/ beginControl(h) \/ completeControl(h)
  \/ reserve(h) \/ approvalFor(h) \/ releaseUnclaimed(h) \/ DeliveryFails(h)
  \/ bindClaim(h) \/ FirstCheck(h) \/ NotAcquired(h) \/ Acquire(h)
  \/ SecondCheck(h) \/ Decide(h) \/ mutate(h) \/ GivesUp(h) \/ CloseAttempt(h)
  \/ Report(h) \/ finish(h)

Next ==
  \/ openBrokerRuntime \/ stopAdmission \/ Exit \/ ReadinessExpires
  \/ \E h \in Handlers : Handler(h) \/ dialBroker(h)
  \/ \E a \in Actions : CooldownEnds(a) \/ LeaseEnds(a)
  \/ RunWorker \/ NoSelection \/ RefreshSnapshot \/ Claim \/ Deliver \/ Check
  \/ ReportResult \/ BreaksOff \/ WorkerEnds

Spec == Init /\ [][Next]_vars

-----------------------------------------------------------------------------
(* abandon and finish: while the broker still admits work, every action    *)
(* the platform handed out to a conversation of this broker process is     *)
(* still carried by a live reservation or has its terminal record.         *)
ClaimsAreAccounted ==
  Admits /\ ~broker.locked =>
    \A a \in Actions : carrier[a] # 0 =>
      live[carrier[a]] # None \/ rows[a] \in Terminal

(* reserve, bindClaim and retainedReport: two reservations are never bound *)
(* to one container, so two executions never reach it; whatever the        *)
(* reservations are claimed for, the journal has room for their records;   *)
(* and the platform is told of an action what its record says, a success   *)
(* only once it is recorded and an unknown outcome only while it is        *)
(* unresolved.                                                             *)
BoundAreDisjoint ==
  \A n, m \in Live : n # m /\ live[n].bound # None /\ live[m].bound # None =>
    Target[live[n].bound] # Target[live[m].bound]
ClaimHasRoom ==
  Cardinality(Stored \union (Owned \ {None}))
    + Cardinality({n \in Live : live[n].bound = None}) <= MaxRecords
ReportIsRetained ==
  \A a \in Actions :
    /\ remote[a] = "DONE" => rows[a] \in Terminal
    /\ remote[a] = "UNKNOWN" => rows[a] = "intent"
ReservationsAgree == BoundAreDisjoint /\ ClaimHasRoom /\ ReportIsRetained
=============================================================================
