--------------------------- MODULE ActionJournal ---------------------------
(* internal/actionjournal: the durable journal of container actions.  The  *)
(* actions table, the events of each action and the pruning floor are what *)
(* survives a crash; the map of active attempts and the failed latch are   *)
(* the state of one Journal handle.  Every exported operation takes the    *)
(* mutex with TryLock and runs one transaction, so each is one action      *)
(* here; what a transaction may leave behind when it fails is StorageFault.*)
EXTENDS Integers, FiniteSets

CONSTANTS
  Keys,        \* authenticated receipts: action identity and content
  ActionID,    \* [Keys -> ids]; two receipts may claim one id
  Target,      \* [Keys -> logical targets]
  Physical,    \* [Keys -> (engine generation, container) pairs]
  Operation,   \* [Keys -> {"START", "STOP", "RESTART"}]
  Created,     \* [Keys -> time]
  Expires,     \* [Keys -> time]
  Workers,     \* concurrent invocations
  Cooldown,    \* 30 seconds after a known mutation
  Retention,   \* 30 days before a terminal record is pruned
  MaxRecords,  \* 1000 actions
  PruneBatch,  \* 50 changes per Prune
  MaxTime,     \* bound: the last instant of the clock
  MaxJumps,    \* bound: how often the clock is set back
  None

Ids == {ActionID[k] : k \in Keys}
(* internal/actionjournal never admits more than two uncertain actions.    *)
Permits == 2
(* The zero time.Time.                                                     *)
Zero == 0
Time == 1..MaxTime

Known == {"STARTED", "STOPPED", "RESTARTED"}
Immutable == {"ALREADY_RUNNING", "ALREADY_STOPPED", "TARGET_STATE_CONFLICT"}
Codes == Known \union Immutable \union {"DENIED"}

Row == [key : Keys, admitted : Time, intent : Time \union {Zero},
        terminal : Time \union {Zero}, code : Codes \union {"none"}]

ASSUME JournalAssumption ==
  /\ IsFiniteSet(Keys)
  /\ ActionID \in [Keys -> Ids]
  /\ Operation \in [Keys -> {"START", "STOP", "RESTART"}]
  /\ Created \in [Keys -> Nat] /\ Expires \in [Keys -> Nat]
  /\ \A k \in Keys : Created[k] < Expires[k]
  /\ Cooldown \in Nat /\ Retention \in Nat
  /\ MaxRecords \in Nat /\ PruneBatch \in Nat
  /\ MaxTime \in Nat \ {0} /\ MaxJumps \in Nat
  /\ None \notin Workers /\ None \notin Row

VARIABLES
  rows,     \* the actions and events tables: [Ids -> Row or None]
  floor,    \* metadata.pruned_expiry_through
  up,       \* a Journal handle is open
  failed,   \* its one-way failed latch
  active,   \* its active attempts: [Ids -> the worker holding one, or None]
  held,     \* each worker's attempt: [Workers -> attempt or None]
  now, jumps,
  forgotten \* history: receipts whose record was pruned

journalVars == <<rows, floor, up, failed, active, held, now, jumps, forgotten>>

(* An attempt caches the record it was acquired with.  Only attempts on    *)
(* undispatched records are mutable, and only those outlive their acquire. *)
Attempt == [r : Row, closed : BOOLEAN]

-----------------------------------------------------------------------------
(* terminalAllowed: which results may follow an intent, and which not.     *)
Success(op) == CASE op = "START" -> "STARTED"
                 [] op = "STOP" -> "STOPPED"
                 [] OTHER -> "RESTARTED"
terminalAllowed(op, intent, code) ==
  IF intent THEN code = Success(op)
  ELSE \/ code = "TARGET_STATE_CONFLICT"
       \/ op = "START" /\ code = "ALREADY_RUNNING"
       \/ op = "STOP" /\ code = "ALREADY_STOPPED"

(* validateAction and validateEvent: what a row must satisfy to be read.   *)
ValidRow(r) ==
  LET k == r.key IN
  /\ r.admitted >= Created[k] /\ r.admitted < Expires[k]
  /\ r.intent # Zero => r.intent >= r.admitted /\ r.intent < Expires[k]
  /\ r.terminal # Zero =>
       /\ r.terminal >= r.admitted
       /\ r.intent # Zero => r.terminal >= r.intent
       /\ \/ terminalAllowed(Operation[k], r.intent # Zero, r.code)
          \/ r.code = "DENIED" /\ r.intent = Zero /\ r.terminal >= Expires[k]

Stored == {id \in Ids : rows[id] # None}
Unresolved(id) == rows[id] # None /\ rows[id].intent # Zero /\ rows[id].terminal = Zero
(* Mutant: two names of one container are taken for two containers. *)
RelatedByTarget(k, l) == Target[k] = Target[l]
Related(k, l) == Target[k] = Target[l] \/ Physical[k] = Physical[l]

(* verify: what a store must satisfy to be opened.                         *)
StoreValid ==
  /\ \A id \in Stored : ValidRow(rows[id])
  /\ \A i, j \in Ids : Unresolved(i) /\ Unresolved(j) /\ i # j =>
       ~Related(rows[i].key, rows[j].key)
  /\ Cardinality({id \in Ids : Unresolved(id)}) <= Permits

-----------------------------------------------------------------------------
(* transactionGuarded: a failing BEGIN, COMMIT, ROLLBACK or execution      *)
(* guard leaves the old or the new rows behind and always latches failed.  *)
StorageFault == {"none", "before", "after"}
Usable == up /\ ~failed
Transaction(fault, next) ==
  /\ rows' = IF fault = "before" THEN rows ELSE next
  /\ failed' = (fault # "none")

(* The rows that share the target or the container of k.                   *)
RelatedRows(k) == {rows[id] : id \in {i \in Stored : Related(rows[i].key, k)}}
CoolingDown(r) ==
  r.code \in Known /\ now < r.terminal + Cooldown

ActivePermits == {id \in Ids : /\ active[id] # None
                               /\ held[active[id]].r.intent = Zero
                               /\ held[active[id]].r.terminal = Zero}
ActiveRelated(k) ==
  \E id \in Ids : active[id] # None /\ Related(held[active[id]].r.key, k)
UnknownCount == Cardinality({id \in Ids : Unresolved(id)})
PermitsTaken == Cardinality(ActivePermits) + UnknownCount

(* The checks a receipt passes once its record, if any, is undispatched.   *)
Blocked(k) ==
  LET others == RelatedRows(k) IN
  IF \E r \in others : ~ValidRow(r) THEN {"ErrRecovery"}
  ELSE IF \E r \in others : CoolingDown(r) \/ (r.intent # Zero /\ r.terminal = Zero)
    THEN {"ErrBusy" : r \in {x \in others : CoolingDown(x)}} \union
         {"ErrUnresolvedTarget" : r \in {x \in others : x.intent # Zero /\ x.terminal = Zero}}
  ELSE IF ActiveRelated(k) THEN {"ErrBusy"}
  ELSE IF UnknownCount > Permits THEN {"ErrRecovery"}
  ELSE IF PermitsTaken >= Permits THEN {"ErrBusy"}
  ELSE {}

(* Mutant: the floor is not consulted. *)
BelowFloorNever(k) == FALSE
BelowFloor(k) == Expires[k] <= floor

(* The body of acquire, check by check in the code's order.  Which of two  *)
(* related records is met first depends on their random identities.        *)
AcquireResults(k) ==
  LET id == ActionID[k]
      exists == rows[id] # None
  IN
  IF exists /\ ~ValidRow(rows[id]) THEN {"ErrRecovery"}
  ELSE IF exists /\ rows[id].key # k THEN {"ErrIdentityConflict"}
  ELSE IF exists /\ (rows[id].terminal # Zero \/ rows[id].intent # Zero) THEN {"retained"}
  ELSE IF active[id] # None THEN {"ErrBusy"}
  ELSE IF now < Created[k] THEN {"ErrIdentityConflict"}
  ELSE IF now >= Expires[k] THEN {IF exists THEN "expired" ELSE "ErrIdentityConflict"}
  ELSE IF ~exists /\ BelowFloor(k) THEN {"ErrIdentityConflict"}
  ELSE IF Blocked(k) # {} THEN Blocked(k)
  ELSE IF exists THEN {"readmit"}
  ELSE IF Cardinality(Stored) > MaxRecords THEN {"ErrRecovery"}
  ELSE IF Cardinality(Stored) = MaxRecords THEN {"ErrFull"}
  ELSE {"admit"}

NewRow(k) == [key |-> k, admitted |-> now, intent |-> Zero, terminal |-> Zero,
              code |-> "none"]
Expired(r) == [r EXCEPT !.terminal = now, !.code = "DENIED"]

(* The record the acquired attempt caches, and the rows acquire leaves.    *)
AcquiredRow(k, result) ==
  CASE result = "admit" -> NewRow(k)
    [] result = "expired" -> Expired(rows[ActionID[k]])
    [] OTHER -> rows[ActionID[k]]

Grants == {"admit", "readmit", "retained", "expired"}

(* acquire by worker w succeeds on an undispatched record: the attempt is  *)
(* held and active.                                                        *)
AcquireGranted(w, k, result) ==
  LET r == AcquiredRow(k, result) IN
  /\ Usable
  /\ result \in AcquireResults(k)
  /\ Transaction("none", [rows EXCEPT ![ActionID[k]] = r])
  /\ held' = [held EXCEPT ![w] = [r |-> r, closed |-> FALSE]]
  /\ active' = [active EXCEPT ![ActionID[k]] = w]

(* acquire fails: on TryLock, the execution guard or an unusable handle    *)
(* with nothing done, on one of the checks with a rollback, or with failed *)
(* latched, by the checks or by storage, the rows then being old or new.   *)
AcquireFails(w, k, result) ==
  /\ UNCHANGED <<held, active>>
  /\ \/ result \in {"ErrBusy", "ErrRecovery"} /\ UNCHANGED <<rows, failed>>
     \/ /\ Usable
        /\ result \in AcquireResults(k) \ Grants
        /\ result # "ErrRecovery"
        /\ UNCHANGED <<rows, failed>>
     \/ /\ Usable
        /\ result = "ErrRecovery"
        /\ failed' = TRUE
        /\ \/ rows' = rows
           \/ \E granted \in AcquireResults(k) \intersect Grants :
                rows' = [rows EXCEPT ![ActionID[k]] = AcquiredRow(k, granted)]

(* attempt.Close releases the handle and its place among the active.       *)
Release(w) ==
  /\ held' = [held EXCEPT ![w] = None]
  /\ active' = [id \in Ids |-> IF active[id] = w THEN None ELSE active[id]]

(* The two transitions of an attempt.                                      *)
Intended(r) == [r EXCEPT !.intent = now]
Finished(r, code) == [r EXCEPT !.terminal = now, !.code = code]

TransitionAllowed(w, intent, code) ==
  LET a == held[w] IN
  /\ Usable
  /\ ~a.closed
  /\ active[ActionID[a.r.key]] = w
  /\ a.r.terminal = Zero
  /\ IF intent THEN a.r.intent = Zero
     ELSE terminalAllowed(Operation[a.r.key], a.r.intent # Zero, code)

(* The re-read record must be the cached one and the clock must not have   *)
(* gone back behind it.                                                    *)
CachedIsActual(w) ==
  LET a == held[w]
      actual == rows[ActionID[a.r.key]]
  IN actual = a.r /\ ValidRow(actual)
(* Mutant: the clock is trusted never to go back. *)
TransitionCurrentAnyClock(w, intent) ==
  CachedIsActual(w) /\ (intent => now < Expires[held[w].r.key])
TransitionCurrent(w, intent) ==
  /\ CachedIsActual(w)
  /\ now >= held[w].r.admitted /\ now >= held[w].r.intent
  /\ intent => now < Expires[held[w].r.key]

TransitionRow(w, intent, code) ==
  IF intent THEN Intended(held[w].r) ELSE Finished(held[w].r, code)

(* transition succeeds: the event is durable and cached.                   *)
TransitionCommits(w, intent, code) ==
  LET r == TransitionRow(w, intent, code) IN
  /\ TransitionAllowed(w, intent, code)
  /\ TransitionCurrent(w, intent)
  /\ Transaction("none", [rows EXCEPT ![ActionID[r.key]] = r])
  /\ held' = [held EXCEPT ![w].r = r]
  /\ UNCHANGED active

(* transition fails: refused with nothing done, or latched by a stale      *)
(* record, a clock behind it or a storage error.                           *)
TransitionFails(w, intent, code) ==
  LET r == TransitionRow(w, intent, code) IN
  \/ UNCHANGED <<rows, failed>>
  \/ /\ TransitionAllowed(w, intent, code)
     /\ ~TransitionCurrent(w, intent)
     /\ rows' = rows /\ failed' = TRUE
  \/ /\ TransitionAllowed(w, intent, code)
     /\ TransitionCurrent(w, intent)
     /\ \E fault \in StorageFault \ {"none"} :
          Transaction(fault, [rows EXCEPT ![ActionID[r.key]] = r])

-----------------------------------------------------------------------------
(* Prune: expired undispatched actions are denied and old terminal ones    *)
(* deleted, at most PruneBatch of them, behind a floor that never returns. *)
Cutoff == now - Retention
PruneExpires(id) ==
  /\ rows[id] # None /\ active[id] = None
  /\ rows[id].intent = Zero /\ rows[id].terminal = Zero
  /\ now >= Expires[rows[id].key]
(* Mutant: an uncertain action is pruned like a final one. *)
PruneDeletesUncertain(id) ==
  /\ rows[id] # None /\ active[id] = None
  /\ rows[id].intent # Zero \/ rows[id].terminal # Zero
  /\ rows[id].terminal <= Cutoff
  /\ Expires[rows[id].key] <= Cutoff
PruneDeletes(id) ==
  /\ rows[id] # None /\ active[id] = None
  /\ rows[id].terminal # Zero /\ rows[id].terminal <= Cutoff
  /\ Expires[rows[id].key] <= Cutoff
Prunable == {id \in Ids : PruneExpires(id) \/ PruneDeletes(id)}

PrunedRows(batch) ==
  [id \in Ids |-> IF id \notin batch THEN rows[id]
                  ELSE IF PruneExpires(id) THEN Expired(rows[id]) ELSE None]

Prune ==
  /\ Usable
  /\ \A id \in Stored : ValidRow(rows[id])
  /\ \E batch \in SUBSET Prunable, fault \in StorageFault :
       /\ Cardinality(batch) = PruneBatch \/ batch = Prunable
       /\ Cardinality(batch) <= PruneBatch
       /\ Transaction(fault, PrunedRows(batch))
       /\ floor' = IF fault # "before" /\ Cutoff > floor THEN Cutoff ELSE floor
       /\ forgotten' = IF fault = "before" THEN forgotten
                       ELSE forgotten \union {rows[id].key : id \in {i \in batch : PruneDeletes(i)}}
  /\ UNCHANGED <<up, active, held, now, jumps>>

(* Journal.Close: later use of its attempts is refused.                    *)
CloseJournal ==
  /\ up
  /\ up' = FALSE
  /\ failed' = TRUE
  /\ active' = [id \in Ids |-> None]
  /\ held' = [w \in Workers |->
                IF \E id \in Ids : active[id] = w THEN [held[w] EXCEPT !.closed = TRUE]
                ELSE held[w]]
  /\ UNCHANGED <<rows, floor, now, jumps, forgotten>>

(* OpenExisting takes the lock file and verifies the store.                *)
OpenExisting ==
  /\ ~up
  /\ StoreValid
  /\ up' = TRUE /\ failed' = FALSE
  /\ UNCHANGED <<rows, floor, active, held, now, jumps, forgotten>>

(* The wall clock advances, and may be set back.                           *)
Tick ==
  /\ now < MaxTime
  /\ now' = now + 1
  /\ UNCHANGED <<rows, floor, up, failed, active, held, jumps, forgotten>>

SetBack ==
  /\ jumps < MaxJumps
  /\ now' \in 1..(now - 1)
  /\ jumps' = jumps + 1
  /\ UNCHANGED <<rows, floor, up, failed, active, held, forgotten>>

(* Provision creates an empty store and leaves its handle open.            *)
JournalInit ==
  /\ rows = [id \in Ids |-> None]
  /\ floor = Zero
  /\ up = TRUE /\ failed = FALSE
  /\ active = [id \in Ids |-> None]
  /\ held = [w \in Workers |-> None]
  /\ now = 1 /\ jumps = 0
  /\ forgotten = {}
=============================================================================
