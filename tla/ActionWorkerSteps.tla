------------------------- MODULE ActionWorkerSteps -------------------------
(***************************************************************************)
(* The inductive invariant of ActionWorker and the forms its steps take:   *)
(* how one step may move a row, a worker, an active attempt and the floor, *)
(* for every finite set of receipts, however they share identities,        *)
(* targets and containers, any workers and any limits.                     *)
(***************************************************************************)
EXTENDS ActionWorker, TLAPS

-----------------------------------------------------------------------------
(* The inductive invariant, part by part.                                  *)

Busy == {"inspect", "decide", "call", "calling", "finish"}
Dispatching == {"call", "calling", "finish"}
OwnRow(k) == rows[ActionID[k]] # None /\ rows[ActionID[k]].key = k

(* Between its Acquire and its Close a worker holds an attempt on its own  *)
(* receipt, which carries an intent once Intent has returned.              *)
WorkersHold ==
  \A w \in Workers :
    /\ pc[w] = "acquire" => receipt[w] \in Keys
    /\ pc[w] \in Busy =>
         /\ receipt[w] \in Keys /\ held[w] \in Attempt
         /\ held[w].r.key = receipt[w] /\ held[w].r.terminal = Zero
         /\ held[w].r.intent = Zero <=> pc[w] \in {"inspect", "decide"}

(* The journal's map of active attempts holds exactly the attempts that    *)
(* are not closed, each under its identity.                                *)
ActiveAttempts ==
  /\ \A id \in Ids : active[id] # None =>
       pc[active[id]] \in Busy /\ ~held[active[id]].closed /\ ActionID[receipt[active[id]]] = id
  /\ \A w \in Workers : pc[w] \in Busy /\ ~held[w].closed => active[ActionID[receipt[w]]] = w

(* An attempt caches what the store holds as long as it is open, and once  *)
(* it has an intent even when its handle was closed under it.              *)
CachedRows ==
  \A w \in Workers : pc[w] \in Busy /\ (~held[w].closed \/ pc[w] \in Dispatching) =>
    rows[ActionID[receipt[w]]] = held[w].r

(* An identity has one worker past its intent.                             *)
OneDispatcher ==
  \A w, v \in Workers :
    /\ pc[w] \in Dispatching /\ pc[v] \in Dispatching
    /\ ActionID[receipt[w]] = ActionID[receipt[v]]
    => w = v

(* Every stored row passes verify and is stored under its identity, and a  *)
(* row that says STARTED, STOPPED or RESTARTED is right about the engine.  *)
RowsAreSound ==
  \A id \in Stored :
    /\ ValidRow(rows[id]) /\ ActionID[rows[id].key] = id
    /\ rows[id].code \in Known => rows[id].key \in performed

(* The floor keeps out every receipt whose record was pruned.              *)
ForgottenStayOut == \A k \in forgotten : Expires[k] <= floor /\ ~OwnRow(k)

(* An engine request, however old, has a durable intent until a pruned     *)
(* terminal record takes it along; while it is out its row is unresolved.  *)
RequestsAreBacked ==
  /\ \A k \in Keys : dispatched[k] > 0 /\ k \notin forgotten =>
       OwnRow(k) /\ rows[ActionID[k]].intent # Zero
  /\ \A k \in inflight : OwnRow(k) /\ Unresolved(ActionID[k])
  /\ \A w \in Workers :
       /\ pc[w] = "call" => dispatched[receipt[w]] = 0
       /\ pc[w] \in {"calling", "finish"} => dispatched[receipt[w]] > 0
       /\ pc[w] = "finish" => receipt[w] \in performed \ inflight

(* Uncertain actions and open attempts that may still become uncertain:    *)
(* no two of them share a container or a target, and never more than two.  *)
Engaged == {id \in Ids : Unresolved(id)} \union ActivePermits
EngagedAreFew ==
  /\ \A i, j \in Engaged : i # j => ~Related(rows[i].key, rows[j].key)
  /\ Cardinality(Engaged) <= Permits

ActionInvariant ==
  /\ TypeOK /\ WorkersHold /\ ActiveAttempts /\ CachedRows /\ OneDispatcher
  /\ RowsAreSound /\ ForgottenStayOut /\ RequestsAreBacked /\ EngagedAreFew
  /\ AtMostOneDispatch /\ ReturnedIsDurable

-----------------------------------------------------------------------------
(* The assumptions on the constants, one by one.                           *)
LEMMA Constants ==
  /\ \A k \in Keys : /\ ActionID[k] \in Ids
                     /\ Operation[k] \in {"START", "STOP", "RESTART"}
                     /\ Created[k] \in Nat /\ Expires[k] \in Nat /\ Created[k] < Expires[k]
  /\ Retention \in Nat /\ MaxTime \in Nat /\ MaxTime # 0 /\ MaxJumps \in Nat
  /\ None \notin Workers /\ None \notin Row /\ IsFiniteSet(Keys)
  BY JournalAssumption DEF JournalAssumption

(* The fields of a row.                                                    *)
LEMMA RowFields ==
  ASSUME NEW r \in Row
  PROVE  /\ r.key \in Keys /\ r.admitted \in Nat /\ r.admitted # 0
         /\ r.intent \in Nat /\ r.terminal \in Nat /\ r.code \in Codes \union {"none"}
         /\ r # None
  <1>1. /\ r.key \in Keys /\ r.admitted \in Time /\ r.intent \in Time \union {Zero}
        /\ r.terminal \in Time \union {Zero} /\ r.code \in Codes \union {"none"}
    BY DEF Row
  <1>2. Time \subseteq Nat \ {0} /\ Zero \in Nat
    BY Constants DEF Time, Zero
  <1>3. r # None
    BY Constants
  <1> QED
    BY <1>1, <1>2, <1>3, Zenon

(* What Acquire and Prune, Intent and Finish write, field by field.        *)
LEMMA WrittenRows ==
  ASSUME now \in Time
  PROVE  /\ \A k \in Keys :
              /\ NewRow(k) \in Row /\ NewRow(k).key = k /\ NewRow(k).admitted = now
              /\ NewRow(k).intent = Zero /\ NewRow(k).terminal = Zero
              /\ NewRow(k).code = "none"
         /\ \A r \in Row :
              /\ Expired(r) \in Row /\ Expired(r).key = r.key
              /\ Expired(r).admitted = r.admitted /\ Expired(r).intent = r.intent
              /\ Expired(r).terminal = now /\ Expired(r).code = "DENIED"
         /\ \A r \in Row :
              /\ Intended(r) \in Row /\ Intended(r).key = r.key
              /\ Intended(r).admitted = r.admitted /\ Intended(r).intent = now
              /\ Intended(r).terminal = r.terminal /\ Intended(r).code = r.code
         /\ \A r \in Row, c \in Codes :
              /\ Finished(r, c) \in Row /\ Finished(r, c).key = r.key
              /\ Finished(r, c).admitted = r.admitted /\ Finished(r, c).intent = r.intent
              /\ Finished(r, c).terminal = now /\ Finished(r, c).code = c
         /\ now \in Nat /\ now # Zero
  <1>1. now \in Nat /\ now # Zero
    BY Constants DEF Time, Zero
  <1>2. \A k \in Keys :
              /\ NewRow(k) \in Row /\ NewRow(k).key = k /\ NewRow(k).admitted = now
              /\ NewRow(k).intent = Zero /\ NewRow(k).terminal = Zero
              /\ NewRow(k).code = "none"
    BY DEF NewRow, Row
  <1>3. \A r \in Row :
              /\ Expired(r) \in Row /\ Expired(r).key = r.key
              /\ Expired(r).admitted = r.admitted /\ Expired(r).intent = r.intent
              /\ Expired(r).terminal = now /\ Expired(r).code = "DENIED"
    BY Zenon DEF Expired, Row, Codes
  <1>4. \A r \in Row :
              /\ Intended(r) \in Row /\ Intended(r).key = r.key
              /\ Intended(r).admitted = r.admitted /\ Intended(r).intent = now
              /\ Intended(r).terminal = r.terminal /\ Intended(r).code = r.code
    BY DEF Intended, Row
  <1>5. \A r \in Row, c \in Codes :
              /\ Finished(r, c) \in Row /\ Finished(r, c).key = r.key
              /\ Finished(r, c).admitted = r.admitted /\ Finished(r, c).intent = r.intent
              /\ Finished(r, c).terminal = now /\ Finished(r, c).code = c
    BY Zenon DEF Finished, Row
  <1> QED
    BY <1>1, <1>2, <1>3, <1>4, <1>5

-----------------------------------------------------------------------------
(* What the actions of a worker do to the journal, without their reasons.  *)

(* A record is admitted, denied because it expired, given its intent, or   *)
(* given its result.                                                       *)
Admitting(k) ==
  /\ rows[ActionID[k]] = None /\ active[ActionID[k]] = None
  /\ ~BelowFloor(k) /\ Created[k] <= now /\ now < Expires[k]
  /\ rows' = [rows EXCEPT ![ActionID[k]] = NewRow(k)]
Undispatched(k) ==
  OwnRow(k) /\ rows[ActionID[k]].intent = Zero /\ rows[ActionID[k]].terminal = Zero
Expiring(k) ==
  /\ Undispatched(k) /\ active[ActionID[k]] = None /\ now >= Expires[k]
  /\ rows' = [rows EXCEPT ![ActionID[k]] = Expired(rows[ActionID[k]])]
Attempting(w) ==
  /\ active[ActionID[receipt[w]]] = w /\ ~held[w].closed
  /\ rows[ActionID[receipt[w]]] = held[w].r
  /\ now >= held[w].r.admitted /\ now >= held[w].r.intent
Intending(w) ==
  /\ pc[w] = "decide" /\ Attempting(w) /\ now < Expires[receipt[w]]
  /\ rows' = [rows EXCEPT ![ActionID[receipt[w]]] = Intended(held[w].r)]
Finishing(w) ==
  /\ pc[w] \in {"decide", "finish"} /\ Attempting(w)
  /\ terminalAllowed(Operation[receipt[w]], held[w].r.intent # Zero, decision[w])
  /\ rows' = [rows EXCEPT ![ActionID[receipt[w]]] = Finished(held[w].r, decision[w])]

(* Execute returns: the attempt is closed, and the last transaction was    *)
(* none or one of these.                                                   *)
Leaves(w) ==
  /\ pc[w] # "idle"
  /\ pc' = [pc EXCEPT ![w] = "idle"]
  /\ receipt' = [receipt EXCEPT ![w] = None]
  /\ decision' = [decision EXCEPT ![w] = "none"]
  /\ held' \in {held, [held EXCEPT ![w] = None]}
  /\ active' = [id \in Ids |-> IF active[id] = w THEN None ELSE active[id]]
  /\ failed' \in BOOLEAN
  /\ UNCHANGED <<floor, up, now, jumps, forgotten, engineVars>>
  /\ \/ rows' = rows
     \/ receipt[w] \in Keys /\ (Admitting(receipt[w]) \/ Expiring(receipt[w]))
     \/ Intending(w) \/ Finishing(w)

(* The checks of acquire a grant has passed, and the record it returns.    *)
LEMMA Grant ==
  ASSUME TypeOK, NEW k \in Keys, NEW g \in Grants, g \in AcquireResults(k)
  PROVE  LET id == ActionID[k] IN
         \/ /\ g = "admit" /\ AcquiredRow(k, g) = NewRow(k)
            /\ rows[id] = None /\ active[id] = None /\ ~BelowFloor(k)
            /\ Created[k] <= now /\ now < Expires[k] /\ Blocked(k) = {}
         \/ /\ g = "readmit" /\ AcquiredRow(k, g) = rows[id]
            /\ Undispatched(k) /\ active[id] = None
            /\ Created[k] <= now /\ now < Expires[k] /\ Blocked(k) = {}
         \/ /\ g = "expired" /\ AcquiredRow(k, g) = Expired(rows[id])
            /\ Undispatched(k) /\ active[id] = None /\ now >= Expires[k]
         \/ g = "retained" /\ AcquiredRow(k, g) = rows[id] /\ OwnRow(k)
  <1>1. \A e \in Blocked(k) : e \in {"ErrRecovery", "ErrBusy", "ErrUnresolvedTarget"}
    BY DEF Blocked
  <1>2. now \in Nat /\ Created[k] \in Nat /\ Expires[k] \in Nat
    BY Constants DEF TypeOK, Time
  <1>3. g \notin Blocked(k)
    BY <1>1 DEF Grants
  <1>4. CASE g = "admit"
    BY <1>2, <1>3, <1>4 DEF AcquireResults, AcquiredRow
  <1>5. CASE g = "readmit"
    BY <1>2, <1>3, <1>5 DEF AcquireResults, AcquiredRow, Undispatched, OwnRow
  <1>6. CASE g = "expired"
    BY <1>2, <1>3, <1>6 DEF AcquireResults, AcquiredRow, Undispatched, OwnRow
  <1>7. CASE g = "retained"
    BY <1>2, <1>3, <1>7 DEF AcquireResults, AcquiredRow, OwnRow
  <1> QED
    BY <1>4, <1>5, <1>6, <1>7 DEF Grants

(* A worker that waits for Acquire has no attempt.                         *)
LEMMA NoAttempt ==
  ASSUME TypeOK, ActiveAttempts, NEW w \in Workers, pc[w] \notin Busy
  PROVE  active = [id \in Ids |-> IF active[id] = w THEN None ELSE active[id]]
  BY Constants DEF TypeOK, ActiveAttempts

(* A refused Acquire leaves.                                               *)
LEMMA RefusedLeaves ==
  ASSUME ActionInvariant, NEW w \in Workers, AcquireRefused(w)
  PROVE  Leaves(w)
  <1>0. TypeOK /\ ActiveAttempts /\ pc[w] = "acquire" /\ receipt[w] \in Keys
    BY DEF ActionInvariant, AcquireRefused, WorkersHold
  <1>1. active = [id \in Ids |-> IF active[id] = w THEN None ELSE active[id]]
    BY <1>0, NoAttempt DEF Busy
  <1>2. failed' \in BOOLEAN /\ UNCHANGED <<held, active>>
    BY <1>0, Zenon DEF AcquireRefused, AcquireFails, TypeOK
  <1>3. \/ rows' = rows
        \/ Admitting(receipt[w]) \/ Expiring(receipt[w])
    <2>1. PICK e \in Refusals : AcquireFails(w, receipt[w], e)
      BY DEF AcquireRefused
    <2>2. SUFFICES ASSUME NEW g \in Grants, g \in AcquireResults(receipt[w]),
                          rows' = [rows EXCEPT ![ActionID[receipt[w]]] = AcquiredRow(receipt[w], g)]
                   PROVE  rows' = rows \/ Admitting(receipt[w]) \/ Expiring(receipt[w])
      BY <2>1 DEF AcquireFails
    <2>3. rows \in [Ids -> Row \union {None}] /\ ActionID[receipt[w]] \in Ids
      BY <1>0, Constants DEF TypeOK
    <2>4. CASE g = "admit"
      BY <1>0, <2>2, <2>4, Grant, Zenon DEF Admitting
    <2>5. CASE g = "expired"
      BY <1>0, <2>2, <2>5, Grant, Zenon DEF Expiring
    <2>6. CASE g \in {"readmit", "retained"}
      <3>1. AcquiredRow(receipt[w], g) = rows[ActionID[receipt[w]]]
        BY <2>6 DEF AcquiredRow
      <3> QED
        BY <2>2, <2>3, <3>1
    <2> QED
      BY <2>4, <2>5, <2>6 DEF Grants
  <1> QED
    BY <1>0, <1>1, <1>2, <1>3 DEF Leaves, AcquireRefused, Return, Goto

(* So does one that returns a final or uncertain record.                   *)
LEMMA ExistingLeaves ==
  ASSUME ActionInvariant, NEW w \in Workers, AcquireReturnsExisting(w)
  PROVE  Leaves(w)
  <1>0. TypeOK /\ ActiveAttempts /\ pc[w] = "acquire" /\ receipt[w] \in Keys
    BY DEF ActionInvariant, AcquireReturnsExisting, WorkersHold
  <1>1. active = [id \in Ids |-> IF active[id] = w THEN None ELSE active[id]]
    BY <1>0, NoAttempt DEF Busy
  <1>2. PICK g \in {"retained", "expired"} :
          /\ g \in AcquireResults(receipt[w])
          /\ Transaction("none", [rows EXCEPT ![ActionID[receipt[w]]] = AcquiredRow(receipt[w], g)])
    BY Zenon DEF AcquireReturnsExisting
  <1>3. failed' = FALSE /\ rows' = [rows EXCEPT ![ActionID[receipt[w]]] = AcquiredRow(receipt[w], g)]
    BY <1>2, Zenon DEF Transaction
  <1>4. rows \in [Ids -> Row \union {None}] /\ ActionID[receipt[w]] \in Ids /\ g \in Grants
    BY <1>0, Constants DEF TypeOK, Grants
  <1>5. rows' = rows \/ Expiring(receipt[w])
    BY <1>0, <1>2, <1>3, <1>4, Grant, Zenon DEF Expiring
  <1> QED
    BY <1>0, <1>1, <1>3, <1>5, Zenon DEF Leaves, AcquireReturnsExisting, Return, Goto

(* Returning after the transaction of a transition, done or failed.        *)
LEMMA TransitionLeaves ==
  ASSUME ActionInvariant, NEW w \in Workers, pc[w] \in {"decide", "finish"},
         NEW intent \in BOOLEAN, NEW code,
         intent => pc[w] = "decide", ~intent => code = decision[w],
         \/ TransitionFails(w, intent, code)
         \/ /\ TransitionAllowed(w, intent, code) /\ TransitionCurrent(w, intent)
            /\ Transaction("none", [rows EXCEPT ![ActionID[receipt[w]]] = TransitionRow(w, intent, code)])
  PROVE  (rows' = rows \/ Intending(w) \/ Finishing(w)) /\ failed' \in BOOLEAN
  <1>0. /\ receipt[w] \in Keys /\ held[w] \in Attempt /\ held[w].r.key = receipt[w]
        /\ failed \in BOOLEAN
    BY DEF ActionInvariant, WorkersHold, Busy, TypeOK
  <1>1. held[w].r \in Row
    BY <1>0 DEF Attempt
  <1>2. /\ Intended(held[w].r).key = receipt[w]
        /\ Finished(held[w].r, code).key = receipt[w]
    BY <1>0, <1>1 DEF Intended, Finished, Row
  <1>3. TransitionRow(w, intent, code).key = receipt[w]
    BY <1>2 DEF TransitionRow
  <1>4. CASE rows' = rows /\ failed' \in BOOLEAN
    BY <1>4
  <1>5. CASE /\ TransitionAllowed(w, intent, code) /\ TransitionCurrent(w, intent)
             /\ rows' = [rows EXCEPT ![ActionID[receipt[w]]] = TransitionRow(w, intent, code)]
             /\ failed' \in BOOLEAN
    <2>1. Attempting(w)
      BY <1>0, <1>5, Zenon DEF TransitionAllowed, TransitionCurrent, CachedIsActual, Attempting
    <2>2. CASE intent
      BY <1>0, <1>5, <2>1, <2>2, Zenon DEF TransitionCurrent, TransitionRow, Intending
    <2>3. CASE ~intent
      BY <1>0, <1>5, <2>1, <2>3, Zenon DEF TransitionAllowed, TransitionRow, Finishing
    <2> QED
      BY <1>5, <2>2, <2>3
  <1> QED
    BY <1>0, <1>3, <1>4, <1>5, Zenon DEF TransitionFails, Transaction, StorageFault

(* Every other return of Execute.                                          *)
LEMMA WorkLeaves ==
  ASSUME ActionInvariant, NEW w \in Workers,
         GiveUp(w) \/ FinishImmutable(w) \/ IntentFails(w) \/ CallSkipped(w) \/ CallFails(w)
           \/ Finish(w)
  PROVE  Leaves(w)
  <1>0. failed \in BOOLEAN
    BY DEF ActionInvariant, TypeOK
  <1>1. CASE GiveUp(w) \/ CallSkipped(w) \/ CallFails(w)
    BY <1>0, <1>1, Zenon DEF GiveUp, CallSkipped, CallFails, Release, Return, Goto, Leaves
  <1>2. CASE FinishImmutable(w)
    <2>1. /\ rows' = rows \/ Intending(w) \/ Finishing(w)
          /\ failed' \in BOOLEAN
      BY <1>2, TransitionLeaves, Zenon DEF FinishImmutable, TransitionRow
    <2> QED
      BY <1>2, <2>1, Zenon DEF FinishImmutable, Release, Return, Goto, Leaves
  <1>3. CASE IntentFails(w)
    <2>1. /\ rows' = rows \/ Intending(w) \/ Finishing(w)
          /\ failed' \in BOOLEAN
      BY <1>3, TransitionLeaves, Zenon DEF IntentFails
    <2> QED
      BY <1>3, <2>1 DEF IntentFails, Release, Return, Goto, Leaves
  <1>4. CASE Finish(w)
    <2>1. /\ rows' = rows \/ Intending(w) \/ Finishing(w)
          /\ failed' \in BOOLEAN
      BY <1>4, TransitionLeaves, Zenon DEF Finish, TransitionRow
    <2> QED
      BY <1>4, <2>1, Zenon DEF Finish, Release, Return, Goto, Leaves
  <1> QED
    BY <1>1, <1>2, <1>3, <1>4

(* Acquire and Intent, the transactions after which Execute goes on.       *)
Acquires(w) ==
  LET k == receipt[w]  id == ActionID[k] IN
  /\ pc[w] = "acquire" /\ k \in Keys /\ active[id] = None /\ Blocked(k) = {}
  /\ Admitting(k) \/ (Undispatched(k) /\ rows' = rows)
  /\ rows'[id] \in Row /\ rows'[id].key = k
  /\ rows'[id].intent = Zero /\ rows'[id].terminal = Zero
  /\ held' = [held EXCEPT ![w] = [r |-> rows'[id], closed |-> FALSE]]
  /\ active' = [active EXCEPT ![id] = w]
  /\ pc' = [pc EXCEPT ![w] = "inspect"]
  /\ failed' \in BOOLEAN
  /\ UNCHANGED <<floor, up, now, jumps, forgotten, receipt, decision, unbacked, engineVars>>
Intends(w) ==
  /\ Intending(w)
  /\ held' = [held EXCEPT ![w].r = Intended(held[w].r)]
  /\ pc' = [pc EXCEPT ![w] = "call"]
  /\ failed' \in BOOLEAN
  /\ UNCHANGED <<floor, up, active, now, jumps, forgotten, receipt, decision, unbacked, engineVars>>

(* The two actions are these.                                              *)
LEMMA AcquireAcquires ==
  ASSUME ActionInvariant, NEW w \in Workers, Acquire(w)
  PROVE  Acquires(w)
  <1>0. TypeOK /\ pc[w] = "acquire" /\ receipt[w] \in Keys /\ now \in Time
    BY DEF ActionInvariant, Acquire, WorkersHold, TypeOK
  <1>1. PICK g \in {"admit", "readmit"} : AcquireGranted(w, receipt[w], g)
    BY Zenon DEF Acquire
  <1>2. /\ g \in AcquireResults(receipt[w]) /\ g \in Grants
        /\ rows' = [rows EXCEPT ![ActionID[receipt[w]]] = AcquiredRow(receipt[w], g)]
        /\ failed' = FALSE
        /\ held' = [held EXCEPT ![w] = [r |-> AcquiredRow(receipt[w], g), closed |-> FALSE]]
        /\ active' = [active EXCEPT ![ActionID[receipt[w]]] = w]
    BY <1>1, Zenon DEF AcquireGranted, Transaction, Grants
  <1>3. rows \in [Ids -> Row \union {None}] /\ ActionID[receipt[w]] \in Ids
    BY <1>0, Constants DEF TypeOK
  <1>4. rows'[ActionID[receipt[w]]] = AcquiredRow(receipt[w], g)
    BY <1>2, <1>3
  <1>5. CASE g = "admit"
    <2>1. /\ Admitting(receipt[w]) /\ active[ActionID[receipt[w]]] = None
          /\ Blocked(receipt[w]) = {} /\ AcquiredRow(receipt[w], g) = NewRow(receipt[w])
      BY <1>0, <1>2, <1>5, Grant, Zenon DEF Admitting
    <2>2. NewRow(receipt[w]) \in Row /\ NewRow(receipt[w]).key = receipt[w]
          /\ NewRow(receipt[w]).intent = Zero /\ NewRow(receipt[w]).terminal = Zero
      BY <1>0, WrittenRows
    <2>3. rows'[ActionID[receipt[w]]] = NewRow(receipt[w])
      BY <1>4, <2>1, Zenon
    <2> QED
      BY <1>0, <1>2, <2>1, <2>2, <2>3, Zenon DEF Acquires, Acquire, Goto
  <1>6. CASE g = "readmit"
    <2>1. /\ Undispatched(receipt[w]) /\ active[ActionID[receipt[w]]] = None
          /\ Blocked(receipt[w]) = {}
          /\ AcquiredRow(receipt[w], g) = rows[ActionID[receipt[w]]]
      BY <1>0, <1>2, <1>6, Grant, Zenon
    <2>2. rows' = rows
      BY <1>2, <1>3, <2>1, Zenon
    <2>3. rows[ActionID[receipt[w]]] \in Row
      BY <1>3, <2>1, Zenon DEF Undispatched, OwnRow
    <2> QED
      BY <1>0, <1>2, <2>1, <2>2, <2>3, Zenon DEF Acquires, Acquire, Goto, Undispatched, OwnRow
  <1> QED
    BY <1>5, <1>6
LEMMA IntentIntends ==
  ASSUME ActionInvariant, NEW w \in Workers, Intent(w)
  PROVE  Intends(w)
  <1>0. /\ pc[w] = "decide" /\ receipt[w] \in Keys /\ held[w] \in Attempt
        /\ held[w].r.key = receipt[w]
    BY DEF ActionInvariant, Intent, WorkersHold, Busy
  <1>1. Intended(held[w].r).key = receipt[w]
    BY <1>0 DEF Intended, Attempt, Row
  <1>2. Attempting(w) /\ now < Expires[receipt[w]]
    BY <1>0 DEF Intent, TransitionCommits, TransitionAllowed, TransitionCurrent,
       CachedIsActual, Attempting
  <1> QED
    BY <1>0, <1>1, <1>2, Zenon DEF Intent, TransitionCommits, TransitionRow, Transaction, Goto,
       Intending, Intends

(* Every step is one of these.                                             *)
WorkForm(w) ==
  \/ Leaves(w) \/ Acquires(w) \/ Intends(w) \/ Inspect(w) \/ Call(w) \/ CallReturns(w)
  \/ \E k \in Keys : Execute(w, k)
Form ==
  \/ \E w \in Workers : WorkForm(w)
  \/ Journal \/ Crash \/ UNCHANGED vars
  \/ \E k \in Keys : Perform(k)

(* A step of a worker takes one of these forms.                            *)
LEMMA StepForm ==
  ASSUME ActionInvariant, [Next]_vars
  PROVE  Form
  <1>1. ASSUME NEW w \in Workers, Work(w)
        PROVE  WorkForm(w)
    BY <1>1, RefusedLeaves, ExistingLeaves, WorkLeaves, AcquireAcquires, IntentIntends
       DEF Work, WorkForm
  <1> QED
    BY <1>1 DEF Next, Form

(* A row a worker writes is a row.                                         *)
LEMMA WritesRows ==
  ASSUME ActionInvariant, NEW w \in Workers,
         \/ receipt[w] \in Keys /\ (Admitting(receipt[w]) \/ Expiring(receipt[w]))
         \/ Intending(w) \/ Finishing(w)
  PROVE  /\ receipt[w] \in Keys /\ ActionID[receipt[w]] \in Ids
         /\ rows' \in [Ids -> Row \union {None}]
         /\ rows'[ActionID[receipt[w]]] \in Row
         /\ \A id \in Ids : id # ActionID[receipt[w]] => rows'[id] = rows[id]
  <1>0. rows \in [Ids -> Row \union {None}] /\ now \in Time
    BY DEF ActionInvariant, TypeOK
  <1>1. /\ receipt[w] \in Keys
        /\ Intending(w) \/ Finishing(w) => held[w].r \in Row
    BY Zenon DEF ActionInvariant, WorkersHold, Intending, Finishing, Busy, Attempt
  <1>2. ActionID[receipt[w]] \in Ids
    BY <1>1, Constants
  <1>3. Finishing(w) => decision[w] \in Codes
    BY DEF Finishing, terminalAllowed, Success, Codes, Known, Immutable
  <1>4. PICK r \in Row : rows' = [rows EXCEPT ![ActionID[receipt[w]]] = r]
    <2>1. CASE Admitting(receipt[w])
      BY <1>0, <1>1, <2>1, WrittenRows, Zenon DEF Admitting
    <2>2. CASE Expiring(receipt[w])
      <3>1. rows[ActionID[receipt[w]]] \in Row
        BY <1>0, <1>2, <2>2 DEF Expiring, Undispatched, OwnRow
      <3> QED
        BY <1>0, <2>2, <3>1, WrittenRows, Zenon DEF Expiring
    <2>3. CASE Intending(w)
      BY <1>0, <1>1, <2>3, WrittenRows, Zenon DEF Intending
    <2>4. CASE Finishing(w)
      BY <1>0, <1>1, <1>3, <2>4, WrittenRows, Zenon DEF Finishing
    <2> QED
      BY <2>1, <2>2, <2>3, <2>4
  <1> QED
    BY <1>0, <1>1, <1>2, <1>4

-----------------------------------------------------------------------------
(* Type correctness.                                                       *)
LEMMA TypeInit == Init => TypeOK
  <1> SUFFICES ASSUME Init PROVE TypeOK
    OBVIOUS
  <1>1. floor \in 0..MaxTime /\ now \in Time /\ jumps \in 0..MaxJumps
    BY Constants DEF Init, JournalInit, Time, Zero
  <1>2. rows \in [Ids -> Row \union {None}] /\ active \in [Ids -> Workers \union {None}]
    BY DEF Init, JournalInit
  <1>3. held \in [Workers -> Attempt \union {None}] /\ receipt \in [Workers -> Keys \union {None}]
    BY DEF Init, JournalInit
  <1>4. dispatched \in [Keys -> Nat]
    BY DEF Init
  <1>5. /\ pc \in [Workers -> {"idle", "acquire", "inspect", "decide", "call", "calling", "finish"}]
        /\ decision \in [Workers -> Known \union Immutable \union {"none"}]
    BY DEF Init
  <1> QED
    BY <1>1, <1>2, <1>3, <1>4, <1>5, Zenon DEF Init, JournalInit, TypeOK

(* Every step keeps the types of the journal, the workers and the engine.  *)
LEMMA TypeStep ==
  ASSUME ActionInvariant, [Next]_vars
  PROVE  TypeOK'
  <1>0. TypeOK /\ now \in Time
    BY DEF ActionInvariant, TypeOK
  <1>1. ASSUME NEW w \in Workers, Leaves(w)
        PROVE  TypeOK'
    <2>1. rows' \in [Ids -> Row \union {None}]
      BY <1>0, <1>1, WritesRows, Zenon DEF Leaves, TypeOK
    <2>2. held' \in [Workers -> Attempt \union {None}]
      BY <1>0, <1>1 DEF Leaves, TypeOK
    <2>3. active' \in [Ids -> Workers \union {None}]
      BY <1>0, <1>1 DEF Leaves, TypeOK
    <2>4. unbacked' \in BOOLEAN
      BY <1>0, ZenonT(40) DEF TypeOK, Next, Work, Journal, Perform, Crash, Execute, AcquireRefused,
         AcquireReturnsExisting, Acquire, GiveUp, Inspect, FinishImmutable, Intent,
         IntentFails, CallSkipped, Call, CallReturns, CallFails, Finish, Return,
         workerVars, vars
    <2> QED
      BY <1>0, <1>1, <2>1, <2>2, <2>3, <2>4, Zenon DEF Leaves, TypeOK, engineVars
  <1>2. ASSUME NEW w \in Workers, Acquires(w)
        PROVE  TypeOK'
    <2>1. rows' \in [Ids -> Row \union {None}]
      BY <1>0, <1>2, WritesRows, Zenon DEF Acquires, TypeOK
    <2>2. [r |-> rows'[ActionID[receipt[w]]], closed |-> FALSE] \in Attempt
      BY <1>2, Zenon DEF Acquires, Attempt
    <2>3. held' \in [Workers -> Attempt \union {None}]
      BY <1>0, <1>2, <2>2, Zenon DEF Acquires, TypeOK
    <2>4. active' \in [Ids -> Workers \union {None}]
      BY <1>0, <1>2, Zenon DEF Acquires, TypeOK
    <2> QED
      BY <1>0, <1>2, <2>1, <2>3, <2>4, Zenon DEF Acquires, TypeOK, engineVars
  <1>3. ASSUME NEW w \in Workers, Intends(w)
        PROVE  TypeOK'
    <2>1. rows' \in [Ids -> Row \union {None}]
      BY <1>0, <1>3, WritesRows DEF Intends, TypeOK
    <2>2. held[w] \in Attempt
      BY <1>3 DEF ActionInvariant, WorkersHold, Intends, Intending, Busy
    <2>3. held[w].r \in Row /\ held[w].closed \in BOOLEAN
      BY <2>2 DEF Attempt
    <2>4. Intended(held[w].r) \in Row
      BY <1>0, <2>3, WrittenRows
    <2>5. [held[w] EXCEPT !.r = Intended(held[w].r)] \in Attempt
      BY <2>2, <2>4 DEF Attempt
    <2>6. held' \in [Workers -> Attempt \union {None}]
      BY <1>0, <1>3, <2>5 DEF Intends, TypeOK
    <2> QED
      BY <1>0, <1>3, <2>1, <2>6 DEF Intends, TypeOK, engineVars
  <1>4. ASSUME NEW w \in Workers, Inspect(w)
        PROVE  TypeOK'
    <2>1. \A op, state : classify(op, state) \in Known \union Immutable
      BY DEF classify, Known, Immutable
    <2> QED
      BY <1>0, <1>4, <2>1 DEF Inspect, Goto, TypeOK, journalVars, engineVars
  <1>5. ASSUME NEW w \in Workers, Call(w)
        PROVE  TypeOK'
    <2>1. receipt[w] \in Keys
      BY <1>5, Zenon DEF ActionInvariant, WorkersHold, Call, Busy
    <2> QED
      BY <1>0, <1>5, <2>1 DEF Call, Goto, TypeOK, journalVars
  <1>6. ASSUME NEW w \in Workers, CallReturns(w)
        PROVE  TypeOK'
    BY <1>0, <1>6 DEF CallReturns, Goto, TypeOK, journalVars, engineVars
  <1>7. ASSUME NEW w \in Workers, NEW k \in Keys, Execute(w, k)
        PROVE  TypeOK'
    BY <1>0, <1>7, Zenon DEF Execute, Goto, TypeOK, journalVars, engineVars
  <1>8. CASE Prune /\ UNCHANGED <<workerVars, engineVars>>
    <2>1. PICK batch \in SUBSET Prunable, fault \in StorageFault :
            /\ Transaction(fault, PrunedRows(batch))
            /\ floor' = IF fault # "before" /\ Cutoff > floor THEN Cutoff ELSE floor
            /\ forgotten' = IF fault = "before" THEN forgotten
                  ELSE forgotten \union {rows[id].key : id \in {i \in batch : PruneDeletes(i)}}
      BY <1>8, Zenon DEF Prune
    <2>2. \A id \in Ids : rows[id] # None => rows[id] \in Row
      BY <1>0 DEF TypeOK
    <2>3. PrunedRows(batch) \in [Ids -> Row \union {None}]
      BY <1>0, <2>2, WrittenRows, Zenon DEF PrunedRows, PruneExpires, TypeOK
    <2>4. floor' \in 0..MaxTime
      BY <1>0, <2>1, Constants DEF Cutoff, TypeOK, Time
    <2>5. forgotten' \subseteq Keys
      BY <1>0, <2>1, <2>2, RowFields DEF Prunable, PruneDeletes, TypeOK
    <2>6. rows' \in [Ids -> Row \union {None}] /\ failed' \in BOOLEAN
      BY <1>0, <2>1, <2>3, Zenon DEF Transaction, TypeOK
    <2> QED
      BY <1>0, <1>8, <2>4, <2>5, <2>6, Zenon DEF Prune, TypeOK, workerVars, engineVars
  <1>9. CASE CloseJournal /\ UNCHANGED <<workerVars, engineVars>>
    <2>1. \A w \in Workers : (\E id \in Ids : active[id] = w) =>
             [held[w] EXCEPT !.closed = TRUE] \in Attempt
      <3>1. SUFFICES ASSUME NEW w \in Workers, held[w] \in Attempt
                     PROVE  [held[w] EXCEPT !.closed = TRUE] \in Attempt
        BY Constants DEF ActionInvariant, ActiveAttempts, WorkersHold
      <3> QED
        BY <3>1, Zenon DEF Attempt
    <2>2. held' \in [Workers -> Attempt \union {None}]
      BY <1>0, <1>9, <2>1 DEF CloseJournal, TypeOK
    <2> QED
      BY <1>0, <1>9, <2>2, Zenon DEF CloseJournal, TypeOK, workerVars, engineVars
  <1>10. CASE (OpenExisting \/ Tick \/ SetBack) /\ UNCHANGED <<workerVars, engineVars>>
    <2>1. now' \in Time /\ jumps' \in 0..MaxJumps
      BY <1>0, <1>10, Constants DEF OpenExisting, Tick, SetBack, TypeOK, Time
    <2> QED
      BY <1>0, <1>10, <2>1, Zenon DEF OpenExisting, Tick, SetBack, TypeOK, workerVars, engineVars
  <1>11. CASE Crash
    BY <1>0, <1>11, Zenon DEF Crash, TypeOK, engineVars
  <1>12. ASSUME NEW k \in Keys, Perform(k)
         PROVE  TypeOK'
    BY <1>0, <1>12, Zenon DEF Perform, TypeOK, journalVars, workerVars
  <1>13. CASE UNCHANGED vars
    BY <1>0, <1>13, Zenon DEF vars, journalVars, workerVars, engineVars, TypeOK
  <1> QED
    BY StepForm, <1>1, <1>2, <1>3, <1>4, <1>5, <1>6, <1>7, <1>8, <1>9, <1>10, <1>11,
       <1>12, <1>13 DEF Form, WorkForm, Journal

-----------------------------------------------------------------------------
(* How a step may move one row, one worker and one entry of the map of     *)
(* active attempts.  Everything below follows from these.                  *)
RowMove(id) ==
  LET r == rows[id]  w == active[id] IN
  \/ rows'[id] = r
  \/ /\ r = None /\ w = None
     /\ \E k \in Keys : /\ ActionID[k] = id /\ ~BelowFloor(k)
                        /\ Created[k] <= now /\ now < Expires[k]
                        /\ rows'[id] = NewRow(k)
  \/ /\ r \in Row /\ w = None /\ r.intent = Zero /\ r.terminal = Zero
     /\ now >= Expires[r.key] /\ rows'[id] = Expired(r)
  \/ /\ r \in Row /\ w \in Workers /\ pc[w] = "decide" /\ pc'[w] \in {"call", "idle"}
     /\ r = held[w].r /\ r.intent = Zero /\ r.terminal = Zero
     /\ now >= r.admitted /\ now < Expires[r.key] /\ rows'[id] = Intended(r)
  \/ /\ r \in Row /\ w \in Workers /\ pc[w] \in {"decide", "finish"} /\ pc'[w] = "idle"
     /\ r = held[w].r /\ r.terminal = Zero /\ (r.intent = Zero <=> pc[w] = "decide")
     /\ r.key = receipt[w] /\ now >= r.admitted /\ now >= r.intent
     /\ terminalAllowed(Operation[r.key], r.intent # Zero, decision[w])
     /\ decision[w] \in Codes /\ rows'[id] = Finished(r, decision[w])
  \/ /\ r \in Row /\ w = None /\ r.terminal # Zero
     /\ Expires[r.key] <= floor' /\ r.key \in forgotten' /\ rows'[id] = None

Same(w) == pc'[w] = pc[w] /\ receipt'[w] = receipt[w] /\ held'[w] = held[w]
WorkerMove(w) ==
  LET id == ActionID[receipt[w]] IN
  \/ Same(w)
  \/ pc'[w] = "idle"
  \/ pc[w] = "idle" /\ pc'[w] = "acquire" /\ receipt'[w] \in Keys
  \/ /\ pc[w] = "acquire" /\ pc'[w] = "inspect" /\ receipt'[w] = receipt[w]
     /\ receipt[w] \in Keys /\ active[id] = None /\ active'[id] = w
     /\ rows'[id] \in Row /\ rows'[id].key = receipt[w]
     /\ rows'[id].intent = Zero /\ rows'[id].terminal = Zero
     /\ held'[w] = [r |-> rows'[id], closed |-> FALSE]
  \/ /\ pc[w] = "inspect" /\ pc'[w] = "decide"
     /\ receipt'[w] = receipt[w] /\ held'[w] = held[w]
  \/ /\ pc[w] = "decide" /\ pc'[w] = "call" /\ receipt'[w] = receipt[w]
     /\ active[id] = w /\ ~held[w].closed /\ rows[id] = held[w].r
     /\ rows'[id] = Intended(held[w].r)
     /\ held'[w] = [held[w] EXCEPT !.r = Intended(held[w].r)]
  \/ /\ pc[w] = "call" /\ pc'[w] = "calling"
     /\ receipt'[w] = receipt[w] /\ held'[w] = held[w]
  \/ /\ pc[w] = "calling" /\ pc'[w] = "finish" /\ receipt[w] \in performed \ inflight
     /\ receipt'[w] = receipt[w] /\ held'[w] = held[w]
  \/ /\ pc'[w] = pc[w] /\ receipt'[w] = receipt[w] /\ pc[w] \in Busy
     /\ held'[w] = [held[w] EXCEPT !.closed = TRUE]

ActiveMove(id) ==
  LET w == active[id] IN
  \/ /\ active'[id] = None
     /\ w # None => pc'[w] = "idle" \/ (pc'[w] = pc[w] /\ held'[w].closed)
  \/ active'[id] = w /\ w # None /\ pc'[w] # "idle" /\ held'[w].closed = FALSE
  \/ /\ w = None /\ active'[id] \in Workers
     /\ pc[active'[id]] = "acquire" /\ pc'[active'[id]] = "inspect"
     /\ ActionID[receipt[active'[id]]] = id

(* A receipt is forgotten when its final record is deleted, and the floor  *)
(* only rises.                                                             *)
FloorMove ==
  /\ floor' >= floor /\ forgotten \subseteq forgotten'
  /\ \A k \in forgotten' \ forgotten :
       /\ Expires[k] <= floor' /\ OwnRow(k)
       /\ rows'[ActionID[k]] = None /\ rows[ActionID[k]].terminal # Zero
  /\ forgotten' # forgotten => UNCHANGED <<engineVars, workerVars>>

Moves ==
  /\ \A id \in Ids : RowMove(id) /\ ActiveMove(id)
  /\ \A w \in Workers : WorkerMove(w)
  /\ FloorMove

(* A worker's transaction moves one row.                                   *)
LEMMA WriteMovesRows ==
  ASSUME ActionInvariant, NEW w \in Workers,
         \/ receipt[w] \in Keys /\ (Admitting(receipt[w]) \/ Expiring(receipt[w]))
         \/ Intending(w) /\ pc'[w] \in {"call", "idle"}
         \/ Finishing(w) /\ pc'[w] = "idle"
  PROVE  \A id \in Ids : RowMove(id)
  <1>0. TypeOK /\ rows \in [Ids -> Row \union {None}] /\ now \in Time
    BY Zenon DEF ActionInvariant, TypeOK
  <1>1. /\ receipt[w] \in Keys /\ ActionID[receipt[w]] \in Ids
        /\ \A id \in Ids : id # ActionID[receipt[w]] => rows'[id] = rows[id]
    BY WritesRows, Zenon
  <1>a. \A id \in Ids : rows'[id] = rows[id] => RowMove(id)
    BY Zenon DEF RowMove
  <1>2. SUFFICES RowMove(ActionID[receipt[w]])
    BY <1>1, <1>a, Zenon
  <1>3. pc[w] \in Busy => /\ held[w].r \in Row /\ held[w].r.key = receipt[w]
                          /\ held[w].r.terminal = Zero
                          /\ held[w].r.intent = Zero <=> pc[w] \in {"inspect", "decide"}
    BY Zenon DEF ActionInvariant, WorkersHold, Attempt
  <1>4. CASE Admitting(receipt[w])
    BY <1>0, <1>1, <1>4, Zenon DEF Admitting, RowMove
  <1>5. CASE Expiring(receipt[w])
    BY <1>0, <1>1, <1>5, Zenon DEF Expiring, Undispatched, OwnRow, RowMove
  <1>6. CASE Intending(w) /\ pc'[w] \in {"call", "idle"}
    BY <1>0, <1>1, <1>3, <1>6, Zenon DEF Intending, Attempting, RowMove, Busy
  <1>7. CASE Finishing(w) /\ pc'[w] = "idle"
    <2>1. decision[w] \in Codes
      BY <1>7 DEF Finishing, terminalAllowed, Success, Codes, Known, Immutable
    <2>2. pc[w] \in Busy /\ (held[w].r.intent = Zero <=> pc[w] = "decide")
      BY <1>3, <1>7, Zenon DEF Finishing, Busy
    <2> QED
      BY <1>0, <1>1, <1>3, <1>7, <2>1, <2>2, Zenon DEF Finishing, Attempting, RowMove
  <1> QED
    BY <1>4, <1>5, <1>6, <1>7, Zenon

(* Every step is made of such moves.                                       *)
LEMMA StepMoves ==
  ASSUME ActionInvariant, [Next]_vars
  PROVE  Moves
  <1>0. /\ TypeOK /\ WorkersHold /\ ActiveAttempts
        /\ rows \in [Ids -> Row \union {None}] /\ now \in Time /\ floor \in Int
        /\ active \in [Ids -> Workers \union {None}] /\ None \notin Workers
        /\ pc \in [Workers -> {"idle", "acquire", "inspect", "decide", "call", "calling", "finish"}]
        /\ held \in [Workers -> Attempt \union {None}]
        /\ receipt \in [Workers -> Keys \union {None}]
    BY Constants DEF ActionInvariant, TypeOK
  <1>a. \A id \in Ids : rows'[id] = rows[id] => RowMove(id)
    BY Zenon DEF RowMove
  <1>b. \A w \in Workers : Same(w) => WorkerMove(w)
    BY DEF WorkerMove
  <1>c. \A id \in Ids : active[id] # None =>
          /\ active[id] \in Workers /\ pc[active[id]] \in Busy /\ pc[active[id]] # "idle"
          /\ held[active[id]] \in Attempt /\ held[active[id]].closed = FALSE
          /\ receipt[active[id]] \in Keys /\ ActionID[receipt[active[id]]] = id
    <2>1. SUFFICES ASSUME NEW id \in Ids, active[id] # None
                   PROVE  /\ active[id] \in Workers /\ pc[active[id]] \in Busy
                          /\ pc[active[id]] # "idle"
                          /\ held[active[id]] \in Attempt /\ held[active[id]].closed = FALSE
                          /\ receipt[active[id]] \in Keys /\ ActionID[receipt[active[id]]] = id
      BY Zenon
    <2>2. /\ active[id] \in Workers /\ pc[active[id]] \in Busy /\ ~held[active[id]].closed
          /\ ActionID[receipt[active[id]]] = id
      BY <1>0, <2>1 DEF ActiveAttempts
    <2>3. held[active[id]] \in Attempt /\ receipt[active[id]] \in Keys
      BY <1>0, <2>2, Zenon DEF WorkersHold
    <2>4. held[active[id]].closed \in BOOLEAN
      BY <2>3, Zenon DEF Attempt
    <2> QED
      BY <2>2, <2>3, <2>4, Zenon DEF Busy
  <1>d. \A id \in Ids :
          active'[id] = active[id] /\ (active[id] # None => Same(active[id])) => ActiveMove(id)
    BY <1>0, <1>c, Zenon DEF ActiveMove, Same
  <1>e. UNCHANGED <<floor, forgotten>> => FloorMove
    BY <1>0 DEF FloorMove
  <1>1. ASSUME NEW w \in Workers, Leaves(w)
        PROVE  Moves
    <2>1. \A v \in Workers \ {w} : Same(v)
      BY <1>0, <1>1, Zenon DEF Leaves, Same
    <2>2. pc'[w] = "idle"
      BY <1>0, <1>1, Zenon DEF Leaves
    <2>3. \A v \in Workers : WorkerMove(v)
      BY <1>b, <2>1, <2>2, Zenon DEF WorkerMove
    <2>4. \A id \in Ids : RowMove(id)
      BY <1>1, <1>a, <2>2, WriteMovesRows, Zenon DEF Leaves
    <2>5. ASSUME NEW id \in Ids PROVE ActiveMove(id)
      <3>1. active'[id] = IF active[id] = w THEN None ELSE active[id]
        BY <1>1, Zenon DEF Leaves
      <3>2. CASE active[id] = w
        BY <2>2, <3>1, <3>2, Zenon DEF ActiveMove
      <3>3. CASE active[id] # w
        BY <1>c, <1>d, <2>1, <3>1, <3>3, Zenon
      <3> QED
        BY <3>2, <3>3
    <2> QED
      BY <1>1, <1>e, <2>3, <2>4, <2>5, Zenon DEF Leaves, Moves
  <1>2. ASSUME NEW w \in Workers, Acquires(w)
        PROVE  Moves
    <2>1. \A v \in Workers \ {w} : Same(v)
      BY <1>0, <1>2, Zenon DEF Acquires, Same
    <2>2. /\ pc[w] = "acquire" /\ pc'[w] = "inspect" /\ receipt'[w] = receipt[w]
          /\ ActionID[receipt[w]] \in Ids /\ active'[ActionID[receipt[w]]] = w
          /\ held'[w] = [r |-> rows'[ActionID[receipt[w]]], closed |-> FALSE]
      BY <1>0, <1>2, Constants, Zenon DEF Acquires
    <2>3. \A v \in Workers : WorkerMove(v)
      BY <1>2, <1>b, <2>1, <2>2, Zenon DEF WorkerMove, Acquires
    <2>4. \A id \in Ids : RowMove(id)
      BY <1>2, <1>a, WriteMovesRows, Zenon DEF Acquires
    <2>5. ASSUME NEW id \in Ids PROVE ActiveMove(id)
      <3>1. CASE id = ActionID[receipt[w]]
        BY <1>2, <2>2, <3>1, Zenon DEF ActiveMove, Acquires
      <3>2. CASE id # ActionID[receipt[w]]
        <4>1. active'[id] = active[id] /\ active[id] # w
          BY <1>0, <1>2, <1>c, <2>2, <3>2 DEF Acquires, Busy
        <4> QED
          BY <1>c, <1>d, <2>1, <4>1, Zenon
      <3> QED
        BY <3>1, <3>2
    <2> QED
      BY <1>2, <1>e, <2>3, <2>4, <2>5, Zenon DEF Acquires, Moves
  <1>3. ASSUME NEW w \in Workers, Intends(w)
        PROVE  Moves
    <2>1. \A v \in Workers \ {w} : Same(v)
      BY <1>0, <1>3 DEF Intends, Same
    <2>2. /\ receipt[w] \in Keys /\ ActionID[receipt[w]] \in Ids /\ pc[w] = "decide"
          /\ pc'[w] = "call" /\ receipt'[w] = receipt[w] /\ active[ActionID[receipt[w]]] = w
          /\ ~held[w].closed /\ rows[ActionID[receipt[w]]] = held[w].r
          /\ held[w] \in Attempt
      BY <1>0, <1>3, WritesRows, Constants
         DEF Intends, Intending, Attempting, WorkersHold, Busy
    <2>3. /\ rows'[ActionID[receipt[w]]] = Intended(held[w].r)
          /\ held'[w] = [held[w] EXCEPT !.r = Intended(held[w].r)]
      BY <1>0, <1>3, <2>2 DEF Intends, Intending
    <2>4. \A v \in Workers : WorkerMove(v)
      BY <1>b, <2>1, <2>2, <2>3, Zenon DEF WorkerMove
    <2>5. \A id \in Ids : RowMove(id)
      BY <1>3, <2>2, WriteMovesRows DEF Intends
    <2>6. held'[w].closed = FALSE
      BY <2>2, <2>3 DEF Attempt
    <2>7. ASSUME NEW id \in Ids PROVE ActiveMove(id)
      <3>1. active'[id] = active[id]
        BY <1>3 DEF Intends
      <3>2. CASE active[id] = w
        BY <1>0, <2>2, <2>6, <3>1, <3>2, Zenon DEF ActiveMove
      <3>3. CASE active[id] # w
        BY <1>c, <1>d, <2>1, <3>1, <3>3, Zenon
      <3> QED
        BY <3>2, <3>3
    <2> QED
      BY <1>3, <1>e, <2>4, <2>5, <2>7 DEF Intends, Moves
  <1>4. ASSUME NEW w \in Workers,
               Inspect(w) \/ Call(w) \/ CallReturns(w) \/ \E k \in Keys : Execute(w, k)
        PROVE  Moves
    <2>1. UNCHANGED journalVars /\ \A v \in Workers \ {w} : Same(v)
      BY <1>0, <1>4, Zenon DEF Inspect, Call, CallReturns, Execute, Goto, Same, journalVars
    <2>2. WorkerMove(w) /\ pc'[w] # "idle"
      BY <1>0, <1>4, Zenon DEF Inspect, Call, CallReturns, Execute, Goto, journalVars, WorkerMove
    <2>3. ASSUME NEW id \in Ids PROVE ActiveMove(id)
      <3>1. active'[id] = active[id] /\ held' = held
        BY <2>1 DEF journalVars
      <3> QED
        BY <1>0, <1>c, <2>2, <2>1, <3>1, Zenon DEF ActiveMove, Same
    <2>4. UNCHANGED <<rows, floor, forgotten>>
      BY <2>1 DEF journalVars
    <2> QED
      BY <1>a, <1>b, <1>e, <2>1, <2>2, <2>3, <2>4 DEF Moves
  <1>5. CASE Prune /\ UNCHANGED <<workerVars, engineVars>>
    <2>1. PICK batch \in SUBSET Prunable, fault \in StorageFault :
            /\ Transaction(fault, PrunedRows(batch))
            /\ floor' = IF fault # "before" /\ Cutoff > floor THEN Cutoff ELSE floor
            /\ forgotten' = IF fault = "before" THEN forgotten
                  ELSE forgotten \union {rows[id].key : id \in {i \in batch : PruneDeletes(i)}}
      BY <1>5, Zenon DEF Prune
    <2>2. Cutoff \in Int /\ floor' >= floor /\ (fault # "before" => floor' >= Cutoff)
      BY <1>0, <2>1, Constants DEF Cutoff, Time
    <2>3. \A w \in Workers : Same(w)
      BY <1>5, Zenon DEF Prune, workerVars, Same
    <2>4. ASSUME NEW id \in Ids PROVE RowMove(id)
      <3>1. CASE fault = "before" \/ id \notin batch
        BY <1>a, <2>1, <3>1 DEF Transaction, PrunedRows
      <3>2. CASE fault # "before" /\ id \in batch /\ PruneExpires(id)
        BY <1>0, <2>1, <3>2, Zenon DEF Transaction, PrunedRows, PruneExpires, RowMove
      <3>3. CASE fault # "before" /\ id \in batch /\ ~PruneExpires(id)
        <4>1. PruneDeletes(id) /\ rows[id] \in Row /\ rows'[id] = None
          BY <1>0, <2>1, <3>3, Zenon DEF Transaction, PrunedRows, Prunable, PruneDeletes
        <4>2. Expires[rows[id].key] \in Nat
          BY <4>1, RowFields, Constants, Zenon
        <4>3. Expires[rows[id].key] <= floor'
          BY <1>0, <2>1, <2>2, <3>3, <4>1, <4>2 DEF PruneDeletes
        <4>4. rows[id].key \in forgotten'
          BY <2>1, <3>3, <4>1, Zenon
        <4> QED
          BY <4>1, <4>3, <4>4, Zenon DEF PruneDeletes, RowMove
      <3> QED
        BY <3>1, <3>2, <3>3
    <2>5. FloorMove
      <3>1. ASSUME NEW k \in forgotten' \ forgotten
            PROVE  /\ Expires[k] <= floor' /\ OwnRow(k)
                   /\ rows'[ActionID[k]] = None /\ rows[ActionID[k]].terminal # Zero
        <4>1. PICK id \in batch : PruneDeletes(id) /\ rows[id].key = k /\ fault # "before"
          BY <2>1, <3>1
        <4>2. id \in Ids /\ rows[id] \in Row /\ ~PruneExpires(id)
          BY <1>0, <4>1 DEF Prunable, PruneDeletes, PruneExpires
        <4>3. rows'[id] = None
          BY <2>1, <4>1, <4>2 DEF Transaction, PrunedRows
        <4>4. ActionID[k] = id
          BY <4>1, <4>2, RowFields DEF ActionInvariant, RowsAreSound, Stored
        <4>5. Expires[k] \in Nat
          BY <4>1, <4>2, RowFields, Constants
        <4>6. Expires[k] <= floor'
          BY <1>0, <2>1, <2>2, <4>1, <4>5 DEF PruneDeletes
        <4> QED
          BY <4>1, <4>2, <4>3, <4>4, <4>6, RowFields, Zenon DEF PruneDeletes, OwnRow
      <3> QED
        BY <1>5, <2>1, <2>2, <3>1, Zenon DEF FloorMove
    <2> QED
      BY <1>5, <1>b, <1>c, <1>d, <2>3, <2>4, <2>5, Zenon DEF Prune, Moves
  <1>6. CASE CloseJournal /\ UNCHANGED <<workerVars, engineVars>>
    <2>1. ASSUME NEW w \in Workers PROVE WorkerMove(w)
      <3>1. CASE \E id \in Ids : active[id] = w
        BY <1>0, <1>6, <1>c, <3>1 DEF CloseJournal, workerVars, WorkerMove
      <3>2. CASE ~ \E id \in Ids : active[id] = w
        BY <1>b, <1>6, <3>2, Zenon DEF CloseJournal, workerVars, Same
      <3> QED
        BY <3>1, <3>2
    <2>2. ASSUME NEW id \in Ids PROVE ActiveMove(id)
      <3>1. active'[id] = None
        BY <1>6 DEF CloseJournal
      <3>2. CASE active[id] = None
        BY <3>1, <3>2 DEF ActiveMove
      <3>3. CASE active[id] # None
        <4>1. held'[active[id]] = [held[active[id]] EXCEPT !.closed = TRUE]
          BY <1>6, <1>c, <3>3 DEF CloseJournal
        <4>2. held'[active[id]].closed
          BY <1>c, <3>3, <4>1 DEF Attempt
        <4> QED
          BY <1>6, <3>1, <4>2 DEF workerVars, ActiveMove
      <3> QED
        BY <3>2, <3>3
    <2> QED
      BY <1>6, <1>a, <1>e, <2>1, <2>2 DEF CloseJournal, Moves
  <1>7. CASE Crash
    <2>1. \A w \in Workers : pc'[w] = "idle"
      BY <1>7 DEF Crash
    <2>2. \A w \in Workers : WorkerMove(w)
      BY <2>1 DEF WorkerMove
    <2>3. \A id \in Ids : ActiveMove(id)
      BY <1>0, <1>7, <1>c, <2>1 DEF Crash, ActiveMove
    <2> QED
      BY <1>7, <1>a, <1>e, <2>2, <2>3 DEF Crash, Moves
  <1>8. CASE UNCHANGED <<rows, floor, active, held, forgotten, pc, receipt>>
    BY <1>8, <1>a, <1>b, <1>c, <1>d, <1>e DEF Moves, Same
  <1> QED
    BY StepForm, <1>1, <1>2, <1>3, <1>4, <1>5, <1>6, <1>7, <1>8, Zenon DEF Form, WorkForm, Journal,
       OpenExisting, Tick, SetBack, Perform, vars, journalVars, workerVars

-----------------------------------------------------------------------------
(* The parts of the invariant, each from the moves.                        *)

(* A worker past its Acquire keeps an attempt on its own receipt.          *)
LEMMA HoldStep ==
  ASSUME ActionInvariant, Moves
  PROVE  WorkersHold'
  <1>0. WorkersHold /\ now \in Time
    BY DEF ActionInvariant, TypeOK
  <1>1. SUFFICES ASSUME NEW w \in Workers
                 PROVE  /\ pc'[w] = "acquire" => receipt'[w] \in Keys
                        /\ pc'[w] \in Busy =>
                             /\ receipt'[w] \in Keys /\ held'[w] \in Attempt
                             /\ held'[w].r.key = receipt'[w] /\ held'[w].r.terminal = Zero
                             /\ held'[w].r.intent = Zero <=> pc'[w] \in {"inspect", "decide"}
    BY DEF WorkersHold
  <1>2. WorkerMove(w)
    BY DEF Moves
  <1>3. CASE Same(w)
    BY <1>0, <1>3 DEF Same, WorkersHold
  <1>4. CASE pc'[w] \in {"idle", "acquire"} /\ (pc'[w] = "acquire" => receipt'[w] \in Keys)
    BY <1>4 DEF Busy
  <1>5. CASE /\ pc'[w] = "inspect" /\ receipt'[w] = receipt[w] /\ receipt[w] \in Keys
             /\ rows'[ActionID[receipt[w]]] \in Row
             /\ rows'[ActionID[receipt[w]]].key = receipt[w]
             /\ rows'[ActionID[receipt[w]]].intent = Zero
             /\ rows'[ActionID[receipt[w]]].terminal = Zero
             /\ held'[w] = [r |-> rows'[ActionID[receipt[w]]], closed |-> FALSE]
    BY <1>5 DEF Attempt, Busy
  <1>6. CASE /\ \/ pc[w] = "inspect" /\ pc'[w] = "decide"
                \/ pc[w] = "call" /\ pc'[w] = "calling"
                \/ pc[w] = "calling" /\ pc'[w] = "finish"
             /\ receipt'[w] = receipt[w] /\ held'[w] = held[w]
    BY <1>0, <1>6, Zenon DEF WorkersHold, Busy
  <1>7. CASE /\ pc[w] = "decide" /\ pc'[w] = "call" /\ receipt'[w] = receipt[w]
             /\ held'[w] = [held[w] EXCEPT !.r = Intended(held[w].r)]
    <2>1. /\ receipt[w] \in Keys /\ held[w] \in Attempt
          /\ held[w].r.key = receipt[w] /\ held[w].r.terminal = Zero
      BY <1>0, <1>7 DEF WorkersHold, Busy
    <2>2. held[w].r \in Row /\ held[w].closed \in BOOLEAN
      BY <2>1 DEF Attempt
    <2>3. /\ Intended(held[w].r) \in Row /\ Intended(held[w].r).key = held[w].r.key
          /\ Intended(held[w].r).terminal = held[w].r.terminal
          /\ Intended(held[w].r).intent = now /\ now # Zero
      BY <1>0, <2>2, WrittenRows
    <2>4. held'[w] \in Attempt /\ held'[w].r = Intended(held[w].r)
      BY <1>7, <2>1, <2>3 DEF Attempt
    <2> QED
      BY <1>7, <2>1, <2>3, <2>4 DEF Busy
  <1>8. CASE /\ pc'[w] = pc[w] /\ receipt'[w] = receipt[w] /\ pc[w] \in Busy
             /\ held'[w] = [held[w] EXCEPT !.closed = TRUE]
    <2>1. held[w] \in Attempt
      BY <1>0, <1>8 DEF WorkersHold
    <2>2. held'[w] \in Attempt /\ held'[w].r = held[w].r
      BY <1>8, <2>1, Zenon DEF Attempt
    <2> QED
      BY <1>0, <1>8, <2>2 DEF WorkersHold, Busy
  <1> QED
    BY <1>2, <1>3, <1>4, <1>5, <1>6, <1>7, <1>8 DEF WorkerMove

(* The journal's map of active attempts follows Acquire and Close.         *)
LEMMA ActiveStep ==
  ASSUME ActionInvariant, Moves
  PROVE  ActiveAttempts'
  <1>0. /\ WorkersHold /\ ActiveAttempts /\ None \notin Workers
        /\ active \in [Ids -> Workers \union {None}]
    BY Constants DEF ActionInvariant, TypeOK
  <1>1. ASSUME NEW id \in Ids, active'[id] # None
        PROVE  /\ pc'[active'[id]] \in Busy /\ ~held'[active'[id]].closed
               /\ ActionID[receipt'[active'[id]]] = id
    <2>1. ActiveMove(id)
      BY DEF Moves
    <2>2. CASE /\ active'[id] = active[id] /\ active[id] # None
               /\ pc'[active[id]] # "idle" /\ held'[active[id]].closed = FALSE
      <3>1. /\ active[id] \in Workers /\ pc[active[id]] \in Busy
            /\ ActionID[receipt[active[id]]] = id
        BY <1>0, <2>2 DEF ActiveAttempts
      <3>2. WorkerMove(active[id])
        BY <3>1 DEF Moves
      <3> QED
        BY <2>2, <3>1, <3>2 DEF WorkerMove, Same, Busy
    <2>3. CASE /\ active'[id] \in Workers /\ pc[active'[id]] = "acquire"
               /\ pc'[active'[id]] = "inspect" /\ ActionID[receipt[active'[id]]] = id
      <3>1. WorkerMove(active'[id])
        BY <2>3 DEF Moves
      <3> QED
        BY <2>3, <3>1 DEF WorkerMove, Same, Busy
    <2> QED
      BY <1>1, <2>1, <2>2, <2>3, Zenon DEF ActiveMove
  <1>2. ASSUME NEW w \in Workers, pc'[w] \in Busy, ~held'[w].closed
        PROVE  active'[ActionID[receipt'[w]]] = w
    <2>1. WorkerMove(w)
      BY DEF Moves
    <2>2. CASE pc[w] = "acquire" /\ pc'[w] = "inspect"
      BY <1>2, <2>1, <2>2 DEF WorkerMove, Same, Busy
    <2>3. CASE ~(pc[w] = "acquire" /\ pc'[w] = "inspect")
      <3>1. pc[w] \in Busy /\ receipt'[w] = receipt[w]
        BY <1>2, <2>1, <2>3 DEF WorkerMove, Same, Busy
      <3>2. held[w] \in Attempt /\ receipt[w] \in Keys
        BY <1>0, <3>1 DEF WorkersHold
      <3>3. ~held[w].closed
        BY <1>2, <2>1, <2>3, <3>1, <3>2 DEF WorkerMove, Same, Busy, Attempt
      <3>4. active[ActionID[receipt[w]]] = w
        BY <1>0, <3>1, <3>3 DEF ActiveAttempts
      <3>5. ActiveMove(ActionID[receipt[w]])
        BY <3>2, Constants DEF Moves
      <3> QED
        BY <1>0, <1>2, <3>1, <3>4, <3>5 DEF ActiveMove, Busy
    <2> QED
      BY <2>2, <2>3
  <1> QED
    BY <1>1, <1>2 DEF ActiveAttempts

(* Nobody else touches the row of an open attempt, or of one with an       *)
(* intent, while its worker goes on.                                       *)
LEMMA RowIsSteady ==
  ASSUME ActionInvariant, Moves, NEW w \in Workers, pc[w] \in Busy,
         ~held[w].closed \/ pc[w] \in Dispatching,
         pc'[w] # "idle", ~(pc[w] = "decide" /\ pc'[w] = "call")
  PROVE  /\ rows[ActionID[receipt[w]]] = held[w].r
         /\ rows'[ActionID[receipt[w]]] = held[w].r
  <1> DEFINE id == ActionID[receipt[w]]
  <1>0. WorkersHold /\ ActiveAttempts /\ CachedRows /\ OneDispatcher /\ None \notin Workers
    BY Constants DEF ActionInvariant
  <1>1. /\ receipt[w] \in Keys /\ id \in Ids /\ held[w] \in Attempt
        /\ held[w].r \in Row /\ held[w].r # None /\ held[w].r.terminal = Zero
        /\ held[w].r.intent = Zero <=> pc[w] \in {"inspect", "decide"}
    BY <1>0, Constants, RowFields DEF WorkersHold, Attempt
  <1>2. rows[id] = held[w].r
    BY <1>0 DEF CachedRows
  <1>3. ~held[w].closed => active[id] = w
    BY <1>0 DEF ActiveAttempts
  <1>4. pc[w] \in Dispatching => held[w].r.intent # Zero
    BY <1>1 DEF Dispatching
  <1>5. active[id] # None => active[id] = w \/ pc[active[id]] # "finish" \/ pc[w] \notin Dispatching
    <2>1. SUFFICES ASSUME active[id] # None, pc[active[id]] = "finish", pc[w] \in Dispatching
                   PROVE  active[id] = w
      OBVIOUS
    <2>a. active \in [Ids -> Workers \union {None}]
      BY DEF ActionInvariant, TypeOK
    <2>2. active[id] \in Workers /\ ActionID[receipt[active[id]]] = id
      BY <1>0, <1>1, <2>1, <2>a, Zenon DEF ActiveAttempts
    <2> QED
      BY <1>0, <2>1, <2>2 DEF OneDispatcher, Dispatching
  <1>6. RowMove(id)
    BY <1>1, Zenon DEF Moves
  <1>7. rows'[id] = rows[id]
    <2>1. CASE ~held[w].closed
      <3>1. active[id] = w /\ w # None
        BY <1>0, <1>3, <2>1
      <3> QED
        BY <1>1, <1>2, <1>6, <3>1, Zenon DEF RowMove
    <2>2. CASE pc[w] \in Dispatching
      BY <1>0, <1>1, <1>2, <1>4, <1>5, <1>6, <2>2, Zenon DEF RowMove
    <2> QED
      BY <2>1, <2>2, Zenon
  <1> QED
    BY <1>2, <1>7

(* What an attempt caches stays what the store holds.                      *)
LEMMA CachedStep ==
  ASSUME ActionInvariant, Moves
  PROVE  CachedRows'
  <1>0. WorkersHold
    BY DEF ActionInvariant
  <1>1. SUFFICES ASSUME NEW w \in Workers, pc'[w] \in Busy,
                        ~held'[w].closed \/ pc'[w] \in Dispatching
                 PROVE  rows'[ActionID[receipt'[w]]] = held'[w].r
    BY DEF CachedRows
  <1>2. WorkerMove(w)
    BY DEF Moves
  <1>3. CASE pc[w] = "acquire" /\ pc'[w] = "inspect"
    BY <1>2, <1>3 DEF WorkerMove, Same
  <1>4. CASE pc[w] = "decide" /\ pc'[w] = "call"
    <2>1. held[w] \in Attempt
      BY <1>0, <1>4 DEF WorkersHold, Busy
    <2> QED
      BY <1>2, <1>4, <2>1 DEF WorkerMove, Same, Attempt
  <1>5. CASE ~(pc[w] = "acquire" /\ pc'[w] = "inspect") /\ ~(pc[w] = "decide" /\ pc'[w] = "call")
    <2>1. pc[w] \in Busy /\ receipt'[w] = receipt[w]
      BY <1>1, <1>2, <1>5 DEF WorkerMove, Same, Busy
    <2>2. held[w] \in Attempt
      BY <1>0, <2>1 DEF WorkersHold
    <2>3. /\ held'[w].r = held[w].r
          /\ held'[w] # held[w] => held'[w].closed /\ pc'[w] = pc[w]
      BY <1>1, <1>2, <1>5, <2>1, <2>2 DEF WorkerMove, Same, Busy, Attempt
    <2>4. ~held[w].closed \/ pc[w] \in Dispatching
      BY <1>1, <1>2, <1>5, <2>1, <2>2, <2>3 DEF WorkerMove, Same, Busy, Dispatching
    <2>5. pc'[w] # "idle"
      BY <1>1 DEF Busy
    <2> QED
      BY <1>5, <2>1, <2>3, <2>4, <2>5, RowIsSteady
  <1> QED
    BY <1>3, <1>4, <1>5

(* No step brings a second worker past the intent of one identity.         *)
LEMMA DispatcherStep ==
  ASSUME ActionInvariant, Moves
  PROVE  OneDispatcher'
  <1>0. WorkersHold /\ CachedRows /\ OneDispatcher
    BY DEF ActionInvariant
  <1>1. SUFFICES ASSUME NEW w \in Workers, NEW v \in Workers,
                        pc'[w] \in Dispatching, pc'[v] \in Dispatching,
                        ActionID[receipt'[w]] = ActionID[receipt'[v]]
                 PROVE  w = v
    BY DEF OneDispatcher
  <1>2. \A u \in {w, v} :
          /\ receipt'[u] = receipt[u]
          /\ \/ pc[u] \in Dispatching /\ rows[ActionID[receipt[u]]].intent # Zero
             \/ /\ pc[u] = "decide" /\ active[ActionID[receipt[u]]] = u
                /\ rows[ActionID[receipt[u]]].intent = Zero
    <2>1. SUFFICES ASSUME NEW u \in Workers, pc'[u] \in Dispatching
                   PROVE  /\ receipt'[u] = receipt[u]
                          /\ \/ pc[u] \in Dispatching /\ rows[ActionID[receipt[u]]].intent # Zero
                             \/ /\ pc[u] = "decide" /\ active[ActionID[receipt[u]]] = u
                                /\ rows[ActionID[receipt[u]]].intent = Zero
      BY <1>1
    <2>2. WorkerMove(u)
      BY DEF Moves
    <2>3. /\ receipt'[u] = receipt[u]
          /\ \/ pc[u] \in Dispatching
             \/ /\ pc[u] = "decide" /\ active[ActionID[receipt[u]]] = u
                /\ rows[ActionID[receipt[u]]] = held[u].r
      BY <2>1, <2>2 DEF WorkerMove, Same, Dispatching
    <2>4. CASE pc[u] \in Dispatching
      <3>1. rows[ActionID[receipt[u]]] = held[u].r /\ held[u].r.intent # Zero
        BY <1>0, <2>4 DEF CachedRows, WorkersHold, Busy, Dispatching
      <3> QED
        BY <2>3, <2>4, <3>1
    <2>5. CASE pc[u] = "decide"
      <3>1. held[u].r.intent = Zero
        BY <1>0, <2>5 DEF WorkersHold, Busy
      <3> QED
        BY <2>3, <2>5, <3>1 DEF Dispatching
    <2> QED
      BY <2>3, <2>4, <2>5
  <1> QED
    BY <1>0, <1>1, <1>2 DEF OneDispatcher

(* How a step may move the engine.                                         *)
EngineStays ==
  /\ dispatched' = dispatched /\ inflight' \subseteq inflight /\ performed \subseteq performed'
  /\ \A w \in Workers : ~(pc[w] = "call" /\ pc'[w] = "calling")
(* Call alone makes an engine request.                                     *)
LEMMA EngineMove ==
  ASSUME ActionInvariant, [Next]_vars
  PROVE  EngineStays \/ \E w \in Workers : Call(w)
  <1>0. pc \in [Workers -> {"idle", "acquire", "inspect", "decide", "call", "calling", "finish"}]
    BY DEF ActionInvariant, TypeOK
  <1>1. ASSUME NEW w \in Workers, Leaves(w) \/ Acquires(w) \/ Intends(w)
        PROVE  EngineStays
    BY <1>0, <1>1 DEF Leaves, Acquires, Intends, engineVars, EngineStays
  <1>2. ASSUME NEW w \in Workers,
               Inspect(w) \/ CallReturns(w) \/ \E k \in Keys : Execute(w, k)
        PROVE  EngineStays
    BY <1>0, <1>2 DEF Inspect, CallReturns, Execute, Goto, engineVars, EngineStays
  <1>3. CASE Journal \/ Crash \/ UNCHANGED vars
    BY <1>0, <1>3 DEF Journal, Crash, vars, workerVars, engineVars, EngineStays
  <1>4. ASSUME NEW k \in Keys, Perform(k)
        PROVE  EngineStays
    BY <1>4 DEF Perform, workerVars, EngineStays
  <1> QED
    BY StepForm, <1>1, <1>2, <1>3, <1>4 DEF Form, WorkForm
=============================================================================
