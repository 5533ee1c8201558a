---------------------------- MODULE ActionWorker ----------------------------
(* internal/actioncore.Worker.Execute over internal/actionjournal and the  *)
(* container engine.  A worker is one invocation at a time; the engine is  *)
(* external and may carry out a request late, after its caller has given   *)
(* up or died.  Every check of the remaining budget and of the authority   *)
(* may fail at any time, and a process crash may fall between any two      *)
(* steps.                                                                  *)
EXTENDS ActionJournal

VARIABLES
  pc,         \* where each worker is in Execute
  receipt,    \* the request it executes
  decision,   \* what classify made of the state Inspect returned
  unbacked,   \* history: Execute returned a final code it had not recorded
  inflight,   \* receipts whose engine request is out and not carried out
  performed,  \* receipts whose engine request was carried out
  dispatched  \* history: engine requests made for each receipt

workerVars == <<pc, receipt, decision, unbacked>>
engineVars == <<inflight, performed, dispatched>>
vars == <<journalVars, workerVars, engineVars>>

States == {"created", "exited", "running", "other"}

(* classify: the code an operation ends with in a container state; the     *)
(* Known ones take an engine request.                                      *)
classify(op, state) ==
  CASE op = "START" /\ state = "running" -> "ALREADY_RUNNING"
    [] op = "START" /\ state \in {"created", "exited"} -> "STARTED"
    [] op = "STOP" /\ state \in {"created", "exited"} -> "ALREADY_STOPPED"
    [] op = "STOP" /\ state = "running" -> "STOPPED"
    [] op = "RESTART" /\ state = "running" -> "RESTARTED"
    [] OTHER -> "TARGET_STATE_CONFLICT"
Mutates(w) == decision[w] \in Known

Goto(w, next) == pc' = [pc EXCEPT ![w] = next]
(* Execute returns a code; a final one should be what the journal holds.   *)
Recorded(k, code) ==
  rows'[ActionID[k]] # None /\ rows'[ActionID[k]].key = k
    /\ rows'[ActionID[k]].terminal # Zero /\ rows'[ActionID[k]].code = code
Return(w, code) ==
  /\ Goto(w, "idle")
  /\ receipt' = [receipt EXCEPT ![w] = None]
  /\ decision' = [decision EXCEPT ![w] = "none"]
  /\ unbacked' = (unbacked \/ (code \in Known \union Immutable /\ ~Recorded(receipt[w], code)))

(* Execute up to its Acquire: an invalid or expired request, a spent       *)
(* budget and a refusing authority return without touching the journal,    *)
(* which is no step here.                                                  *)
Execute(w, k) ==
  /\ pc[w] = "idle"
  /\ now >= Created[k] /\ now < Expires[k]
  /\ Goto(w, "acquire")
  /\ receipt' = [receipt EXCEPT ![w] = k]
  /\ UNCHANGED <<journalVars, decision, unbacked, engineVars>>

(* Acquire refuses: an identity conflict and an unresolved target have     *)
(* codes of their own.                                                     *)
AcquireCode(e) ==
  CASE e = "ErrIdentityConflict" -> "IDEMPOTENCY_CONFLICT"
    [] e = "ErrUnresolvedTarget" -> "OUTCOME_UNKNOWN"
    [] OTHER -> "UNAVAILABLE"
Refusals == {"ErrBusy", "ErrRecovery", "ErrFull", "ErrIdentityConflict", "ErrUnresolvedTarget"}

AcquireRefused(w) ==
  /\ pc[w] = "acquire"
  /\ \E e \in Refusals : AcquireFails(w, receipt[w], e) /\ Return(w, AcquireCode(e))
  /\ UNCHANGED <<floor, up, now, jumps, forgotten, engineVars>>

(* Acquire returns a record that is final or uncertain: Execute reports it *)
(* (or, out of budget, not) and closes the attempt it was never to use.    *)
ExistingCode(r) == IF r.terminal # Zero THEN r.code ELSE "OUTCOME_UNKNOWN"
AcquireReturnsExisting(w) ==
  LET k == receipt[w] IN
  /\ pc[w] = "acquire"
  /\ Usable
  /\ \E grant \in AcquireResults(k) \intersect {"retained", "expired"} :
       /\ Transaction("none", [rows EXCEPT ![ActionID[k]] = AcquiredRow(k, grant)])
       /\ \E code \in {ExistingCode(AcquiredRow(k, grant)), "BUDGET_EXCEEDED", "UNAVAILABLE"} :
            Return(w, code)
  /\ UNCHANGED <<floor, up, active, held, now, jumps, forgotten, engineVars>>

(* Acquire admits the receipt.                                             *)
Acquire(w) ==
  /\ pc[w] = "acquire"
  /\ \E grant \in {"admit", "readmit"} : AcquireGranted(w, receipt[w], grant)
  /\ Goto(w, "inspect")
  /\ UNCHANGED <<floor, up, now, jumps, forgotten, receipt, decision, unbacked, engineVars>>

(* A spent budget, a failing Inspect or a refusing authority before the    *)
(* intent: Execute closes its attempt and returns.                         *)
GiveUp(w) ==
  /\ pc[w] \in {"inspect", "decide"}
  /\ Release(w)
  /\ \E code \in {"UNAVAILABLE", "BUDGET_EXCEEDED", "DENIED"} : Return(w, code)
  /\ UNCHANGED <<rows, floor, up, failed, now, jumps, forgotten, engineVars>>

Inspect(w) ==
  /\ pc[w] = "inspect"
  /\ \E state \in States :
       decision' = [decision EXCEPT ![w] = classify(Operation[receipt[w]], state)]
  /\ Goto(w, "decide")
  /\ UNCHANGED <<journalVars, receipt, unbacked, engineVars>>

(* Nothing to do for the engine: the result is made durable and returned.  *)
FinishImmutable(w) ==
  /\ pc[w] = "decide" /\ ~Mutates(w)
  /\ LET code == decision[w] IN
     \/ /\ TransitionAllowed(w, FALSE, code)
        /\ TransitionCurrent(w, FALSE)
        /\ Transaction("none", [rows EXCEPT ![ActionID[receipt[w]]] = Finished(held[w].r, code)])
        /\ \E answer \in {code, "BUDGET_EXCEEDED"} : Return(w, answer)
     \/ TransitionFails(w, FALSE, code) /\ Return(w, "UNAVAILABLE")
  /\ Release(w)
  /\ UNCHANGED <<floor, up, now, jumps, forgotten, engineVars>>

(* The intent is made durable before the engine is asked.                  *)
Intent(w) ==
  /\ pc[w] = "decide" /\ Mutates(w)
  /\ TransitionCommits(w, TRUE, "none")
  /\ Goto(w, "call")
  /\ UNCHANGED <<floor, up, now, jumps, forgotten, receipt, decision, unbacked, engineVars>>

IntentFails(w) ==
  /\ pc[w] = "decide" /\ Mutates(w)
  /\ TransitionFails(w, TRUE, "none")
  /\ Release(w)
  /\ Return(w, "OUTCOME_UNKNOWN")
  /\ UNCHANGED <<floor, up, now, jumps, forgotten, engineVars>>

(* Persisting the intent has used up the budget of the call.               *)
CallSkipped(w) ==
  /\ pc[w] = "call"
  /\ Release(w)
  /\ Return(w, "OUTCOME_UNKNOWN")
  /\ UNCHANGED <<rows, floor, up, failed, now, jumps, forgotten, engineVars>>

Call(w) ==
  /\ pc[w] = "call"
  /\ Goto(w, "calling")
  /\ inflight' = inflight \union {receipt[w]}
  /\ dispatched' = [dispatched EXCEPT ![receipt[w]] = @ + 1]
  /\ UNCHANGED <<journalVars, receipt, decision, unbacked, performed>>

(* The engine carries a request out, at any later time, or drops it.       *)
Perform(k) ==
  /\ k \in inflight
  /\ inflight' = inflight \ {k}
  /\ performed' \in {performed, performed \union {k}}
  /\ UNCHANGED <<journalVars, workerVars, dispatched>>

(* The engine answered in time.                                            *)
CallReturns(w) ==
  /\ pc[w] = "calling"
  /\ receipt[w] \in performed \ inflight
  /\ Goto(w, "finish")
  /\ UNCHANGED <<journalVars, receipt, decision, unbacked, engineVars>>

(* An engine error or a late answer, whatever the engine did or will do.   *)
CallFails(w) ==
  /\ pc[w] = "calling"
  /\ Release(w)
  /\ Return(w, "OUTCOME_UNKNOWN")
  /\ UNCHANGED <<rows, floor, up, failed, now, jumps, forgotten, engineVars>>

(* Mutant: the error of attempt.Finish is dropped. *)
FinishUnchecked(w) ==
  /\ pc[w] = "finish"
  /\ TransitionFails(w, FALSE, decision[w])
  /\ Return(w, decision[w])
  /\ Release(w)
  /\ UNCHANGED <<floor, up, now, jumps, forgotten, engineVars>>
(* A known success is made durable and returned; else it stays uncertain.  *)
Finish(w) ==
  /\ pc[w] = "finish"
  /\ LET code == decision[w] IN
     \/ /\ TransitionAllowed(w, FALSE, code)
        /\ TransitionCurrent(w, FALSE)
        /\ Transaction("none", [rows EXCEPT ![ActionID[receipt[w]]] = Finished(held[w].r, code)])
        /\ \E answer \in {code, "OUTCOME_UNKNOWN"} : Return(w, answer)
     \/ TransitionFails(w, FALSE, code) /\ Return(w, "OUTCOME_UNKNOWN")
  /\ Release(w)
  /\ UNCHANGED <<floor, up, now, jumps, forgotten, engineVars>>

(* The process dies: its workers and its journal handle go with it.        *)
Crash ==
  /\ up' = FALSE /\ failed' = TRUE
  /\ active' = [id \in Ids |-> None]
  /\ held' = [w \in Workers |-> None]
  /\ pc' = [w \in Workers |-> "idle"]
  /\ receipt' = [w \in Workers |-> None]
  /\ decision' = [w \in Workers |-> "none"]
  /\ UNCHANGED <<rows, floor, now, jumps, forgotten, unbacked, engineVars>>

Init ==
  /\ JournalInit
  /\ pc = [w \in Workers |-> "idle"]
  /\ receipt = [w \in Workers |-> None]
  /\ decision = [w \in Workers |-> "none"]
  /\ unbacked = FALSE
  /\ inflight = {} /\ performed = {}
  /\ dispatched = [k \in Keys |-> 0]

Work(w) ==
  \/ \E k \in Keys : Execute(w, k)
  \/ AcquireRefused(w) \/ AcquireReturnsExisting(w) \/ Acquire(w)
  \/ GiveUp(w) \/ Inspect(w) \/ FinishImmutable(w)
  \/ Intent(w) \/ IntentFails(w)
  \/ CallSkipped(w) \/ Call(w) \/ CallReturns(w) \/ CallFails(w) \/ Finish(w)

Journal ==
  (Prune \/ CloseJournal \/ OpenExisting \/ Tick \/ SetBack)
    /\ UNCHANGED <<workerVars, engineVars>>

Next ==
  \/ \E w \in Workers : Work(w)
  \/ Journal
  \/ \E k \in Keys : Perform(k)
  \/ Crash

Spec == Init /\ [][Next]_vars
-----------------------------------------------------------------------------
(* Every variable has its type: rows, attempts and workers as the journal  *)
(* and Execute declare them.                                               *)
TypeOK ==
  /\ rows \in [Ids -> Row \union {None}]
  /\ floor \in 0..MaxTime
  /\ up \in BOOLEAN /\ failed \in BOOLEAN
  /\ active \in [Ids -> Workers \union {None}]
  /\ held \in [Workers -> Attempt \union {None}]
  /\ now \in Time /\ jumps \in 0..MaxJumps
  /\ forgotten \subseteq Keys
  /\ pc \in [Workers -> {"idle", "acquire", "inspect", "decide", "call", "calling", "finish"}]
  /\ receipt \in [Workers -> Keys \union {None}]
  /\ decision \in [Workers -> Known \union Immutable \union {"none"}]
  /\ unbacked \in BOOLEAN
  /\ inflight \subseteq Keys /\ performed \subseteq Keys
  /\ dispatched \in [Keys -> Nat]

(* No receipt reaches the engine twice: not by redelivery to two workers,  *)
(* not by a crash around the call, not by a late answer, and not because   *)
(* its record was pruned and the clock then set back (Journal.acquire's    *)
(* floor).                                                                 *)
AtMostOneDispatch == \A k \in Keys : dispatched[k] <= 1

(* Two engine requests are never out for one container or one target, even *)
(* when their callers have timed out or died: the unresolved intent of the *)
(* first fences the second.                                                *)
OneRequestPerContainer ==
  \A k, l \in inflight : k # l => Physical[k] # Physical[l] /\ Target[k] # Target[l]

(* Journal.verify accepts everything the journal itself ever leaves on     *)
(* disk, so no crash, partial transaction or clock change locks the broker *)
(* out of its own store.                                                   *)
StoreAlwaysOpens == StoreValid

(* A final code Execute returns is the durable one, through storage errors *)
(* that hide a commit, handles closed under it and records it only read.   *)
ReturnedIsDurable == ~unbacked

(* Worker, journal and engine together keep what the interfaces of         *)
(* actioncore promise of every single receipt (ActionReceipt), through     *)
(* redelivery, closed handles, crashes, pruning and clock changes.         *)
ReceiptStatus(k) ==
  LET r == rows[ActionID[k]] IN
  IF r # None /\ r.key = k
    THEN IF r.terminal # Zero THEN "done"
         ELSE IF r.intent # Zero THEN "intent" ELSE "admitted"
  ELSE IF k \in forgotten THEN "forgotten" ELSE "new"
Receipt == INSTANCE ActionReceipt
  WITH status <- [k \in Keys |-> ReceiptStatus(k)],
       sent <- {k \in Keys : dispatched[k] > 0}
ImplementsReceipt == Receipt!Spec
=============================================================================
