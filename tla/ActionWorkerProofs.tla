------------------------- MODULE ActionWorkerProofs ------------------------
(***************************************************************************)
(* The theorems about ActionWorker: what its steps do to the parts of the  *)
(* inductive invariant that say what is durable and to what ActionReceipt  *)
(* sees, and the counting of uncertain actions and open attempts.          *)
(***************************************************************************)
EXTENDS ActionWorkerSteps, FiniteSetTheorems


-----------------------------------------------------------------------------
(* A row that is there keeps its identity and its receipt until it is      *)
(* deleted, and an intent is kept as well.                                 *)
LEMMA RowIsKept ==
  ASSUME ActionInvariant, Moves, NEW id \in Ids, rows[id] \in Row, rows'[id] # None
  PROVE  /\ rows'[id] \in Row /\ rows'[id].key = rows[id].key
         /\ rows[id].intent # Zero => rows'[id].intent = rows[id].intent
  <1>1. RowMove(id) /\ now \in Time
    BY DEF Moves, ActionInvariant, TypeOK
  <1>2. rows[id] # None
    BY RowFields
  <1> QED
    BY <1>1, <1>2, WrittenRows DEF RowMove

(* Every row a step writes passes verify.                                  *)
LEMMA SoundStep ==
  ASSUME ActionInvariant, [Next]_vars, Moves
  PROVE  RowsAreSound'
  <1>0. /\ RowsAreSound /\ now \in Time /\ now \in Nat /\ now # Zero
        /\ rows \in [Ids -> Row \union {None}]
    BY WrittenRows DEF ActionInvariant, TypeOK
  <1>1. performed \subseteq performed'
    BY EngineMove DEF EngineStays, Call
  <1>2. SUFFICES ASSUME NEW id \in Ids, rows'[id] # None
                 PROVE  /\ ValidRow(rows'[id]) /\ ActionID[rows'[id].key] = id
                        /\ rows'[id].code \in Known => rows'[id].key \in performed'
    BY Zenon DEF RowsAreSound, Stored, ValidRow
  <1>3. RowMove(id)
    BY DEF Moves
  <1>4. CASE rows'[id] = rows[id]
    BY <1>0, <1>1, <1>2, <1>4 DEF RowsAreSound, Stored
  <1>5. ASSUME NEW k \in Keys, ActionID[k] = id, Created[k] <= now, now < Expires[k],
               rows'[id] = NewRow(k)
        PROVE  /\ ValidRow(rows'[id]) /\ ActionID[rows'[id].key] = id
               /\ rows'[id].code \in Known => rows'[id].key \in performed'
    <2>1. /\ rows'[id].key = k /\ rows'[id].admitted = now /\ rows'[id].intent = Zero
          /\ rows'[id].terminal = Zero /\ rows'[id].code = "none"
      BY <1>0, <1>5, WrittenRows
    <2>2. Created[k] \in Nat /\ Expires[k] \in Nat
      BY Constants
    <2>3. now >= Created[k]
      BY <1>0, <1>5, <2>2
    <2> QED
      BY <1>5, <2>1, <2>3, Zenon DEF ValidRow, Known
  <1>6. ASSUME rows[id] \in Row
        PROVE  /\ rows[id] # None /\ ValidRow(rows[id]) /\ ActionID[rows[id].key] = id
               /\ rows[id].code \in Known => rows[id].key \in performed'
               /\ rows[id].key \in Keys /\ rows[id].admitted \in Nat /\ rows[id].intent \in Nat
               /\ Expires[rows[id].key] \in Nat /\ Created[rows[id].key] \in Nat
    BY <1>0, <1>1, <1>6, RowFields, Constants DEF RowsAreSound, Stored
  <1>7. CASE /\ rows[id] \in Row /\ rows[id].intent = Zero /\ now >= Expires[rows[id].key]
             /\ rows'[id] = Expired(rows[id])
    <2>1. /\ rows'[id].key = rows[id].key /\ rows'[id].admitted = rows[id].admitted
          /\ rows'[id].intent = rows[id].intent /\ rows'[id].terminal = now
          /\ rows'[id].code = "DENIED"
      BY <1>0, <1>7, WrittenRows
    <2>2. /\ rows[id].admitted >= Created[rows[id].key]
          /\ rows[id].admitted < Expires[rows[id].key] /\ now >= rows[id].admitted
      BY <1>0, <1>6, <1>7 DEF ValidRow
    <2> QED
      BY <1>6, <1>7, <2>1, <2>2, Zenon DEF ValidRow, Known
  <1>8. CASE /\ rows[id] \in Row /\ rows[id].terminal = Zero /\ now >= rows[id].admitted
             /\ now < Expires[rows[id].key] /\ rows'[id] = Intended(rows[id])
    <2>1. /\ rows'[id].key = rows[id].key /\ rows'[id].admitted = rows[id].admitted
          /\ rows'[id].intent = now /\ rows'[id].terminal = rows[id].terminal
          /\ rows'[id].code = rows[id].code
      BY <1>0, <1>8, WrittenRows
    <2> QED
      BY <1>6, <1>8, <2>1, Zenon DEF ValidRow
  <1>9. CASE /\ rows[id] \in Row /\ active[id] \in Workers
             /\ pc[active[id]] \in {"decide", "finish"}
             /\ (rows[id].intent = Zero <=> pc[active[id]] = "decide")
             /\ rows[id].key = receipt[active[id]]
             /\ now >= rows[id].admitted /\ now >= rows[id].intent
             /\ terminalAllowed(Operation[rows[id].key], rows[id].intent # Zero, decision[active[id]])
             /\ decision[active[id]] \in Codes
             /\ rows'[id] = Finished(rows[id], decision[active[id]])
    <2>1. /\ rows'[id].key = rows[id].key /\ rows'[id].admitted = rows[id].admitted
          /\ rows'[id].intent = rows[id].intent /\ rows'[id].terminal = now
          /\ rows'[id].code = decision[active[id]]
      BY <1>0, <1>9, WrittenRows
    <2>2. ValidRow(rows'[id])
      BY <1>6, <1>9, <2>1, Zenon DEF ValidRow
    <2>3. rows'[id].code \in Known => rows[id].intent # Zero
      BY <1>9, <2>1, Zenon DEF terminalAllowed, Known
    <2>4. pc[active[id]] = "finish" => receipt[active[id]] \in performed
      BY <1>9, Zenon DEF ActionInvariant, RequestsAreBacked
    <2> QED
      BY <1>1, <1>6, <1>9, <2>1, <2>2, <2>3, <2>4, ZenonT(30)
  <1> QED
    BY <1>2, <1>3, <1>4, <1>5, <1>7, <1>8, <1>9, Zenon DEF RowMove

(* A pruned receipt is never admitted again.                               *)
LEMMA ForgottenStep ==
  ASSUME ActionInvariant, Moves, TypeOK'
  PROVE  ForgottenStayOut'
  <1>0. /\ ForgottenStayOut /\ FloorMove /\ now \in Time
        /\ floor \in Nat /\ floor' \in Nat /\ rows \in [Ids -> Row \union {None}]
    BY Constants DEF ActionInvariant, Moves, TypeOK
  <1>1. SUFFICES ASSUME NEW k \in forgotten'
                 PROVE  Expires[k] <= floor' /\ ~OwnRow(k)'
    BY DEF ForgottenStayOut
  <1>2. k \in Keys /\ ActionID[k] \in Ids /\ Expires[k] \in Nat
    BY Constants DEF TypeOK
  <1>3. CASE k \in forgotten
    <2>1. Expires[k] <= floor /\ ~OwnRow(k)
      BY <1>0, <1>3 DEF ForgottenStayOut
    <2>2. Expires[k] <= floor'
      BY <1>0, <1>2, <2>1 DEF FloorMove
    <2>3. RowMove(ActionID[k])
      BY <1>2 DEF Moves
    <2>4. CASE rows[ActionID[k]] \in Row
      <3>1. rows[ActionID[k]] # None /\ rows[ActionID[k]].key # k
        BY <2>1, <2>4, RowFields DEF OwnRow
      <3> QED
        BY <1>2, <2>2, <2>4, <3>1, RowIsKept, Zenon DEF OwnRow
    <2>5. CASE rows[ActionID[k]] = None
      <3>1. ASSUME NEW l \in Keys, ~BelowFloor(l), rows'[ActionID[k]] = NewRow(l)
            PROVE  rows'[ActionID[k]].key # k
        BY <1>0, <2>1, <3>1, WrittenRows DEF BelowFloor
      <3>2. None \notin Row
        BY Constants, Zenon
      <3> QED
        BY <2>2, <2>3, <2>5, <3>1, <3>2, Zenon DEF RowMove, OwnRow
    <2> QED
      BY <1>0, <1>2, <2>4, <2>5
  <1>4. CASE k \notin forgotten
    BY <1>0, <1>1, <1>4 DEF FloorMove, OwnRow
  <1> QED
    BY <1>3, <1>4

(* Where the worker stands that is about to call the engine.               *)
LEMMA CallState ==
  ASSUME ActionInvariant, NEW w \in Workers, pc[w] = "call"
  PROVE  /\ receipt[w] \in Keys /\ ActionID[receipt[w]] \in Ids
         /\ OwnRow(receipt[w]) /\ Unresolved(ActionID[receipt[w]])
         /\ dispatched[receipt[w]] = 0
  <1>1. /\ receipt[w] \in Keys /\ held[w].r \in Row /\ held[w].r.key = receipt[w]
        /\ held[w].r.terminal = Zero /\ held[w].r.intent # Zero
    BY DEF ActionInvariant, WorkersHold, Busy, Attempt
  <1>2. rows[ActionID[receipt[w]]] = held[w].r
    BY DEF ActionInvariant, CachedRows, Busy, Dispatching
  <1>3. dispatched[receipt[w]] = 0
    BY DEF ActionInvariant, RequestsAreBacked
  <1> QED
    BY <1>1, <1>2, <1>3, RowFields, Constants DEF OwnRow, Unresolved

(* Every engine request keeps the durable intent behind it.                *)
LEMMA BackedStep ==
  ASSUME ActionInvariant, [Next]_vars, Moves
  PROVE  RequestsAreBacked'
  <1>0. /\ TypeOK /\ RequestsAreBacked /\ ForgottenStayOut /\ WorkersHold /\ OneDispatcher
        /\ rows \in [Ids -> Row \union {None}] /\ dispatched \in [Keys -> Nat]
        /\ pc \in [Workers -> {"idle", "acquire", "inspect", "decide", "call", "calling", "finish"}]
        /\ now \in Time /\ FloorMove
    BY DEF ActionInvariant, TypeOK, Moves
  <1>1. ASSUME NEW w \in Workers, Call(w)
        PROVE  RequestsAreBacked'
    <2>1. /\ receipt[w] \in Keys /\ OwnRow(receipt[w]) /\ Unresolved(ActionID[receipt[w]])
          /\ dispatched[receipt[w]] = 0 /\ pc[w] = "call"
      BY <1>1, CallState, Zenon DEF Call
    <2>2. /\ UNCHANGED <<rows, forgotten, receipt, performed>>
          /\ inflight' = inflight \union {receipt[w]} /\ pc'[w] = "calling"
          /\ \A v \in Workers \ {w} : pc'[v] = pc[v]
          /\ dispatched'[receipt[w]] = 1
          /\ \A k \in Keys \ {receipt[w]} : dispatched'[k] = dispatched[k]
      BY <1>0, <1>1, <2>1 DEF Call, Goto, journalVars
    <2>3. \A v \in Workers \ {w} : pc[v] \in Dispatching => receipt[v] \in Keys \ {receipt[w]}
      BY <1>0, <2>1, Zenon DEF OneDispatcher, WorkersHold, Dispatching, Busy
    <2>4. \A k \in Keys : dispatched'[k] > 0 /\ k \notin forgotten' =>
            OwnRow(k)' /\ rows'[ActionID[k]].intent # Zero
      BY <1>0, <2>1, <2>2 DEF RequestsAreBacked, OwnRow, Unresolved
    <2>5. \A k \in inflight' : OwnRow(k)' /\ Unresolved(ActionID[k])'
      BY <1>0, <2>1, <2>2, Zenon DEF RequestsAreBacked, OwnRow, Unresolved
    <2>6. ASSUME NEW v \in Workers
          PROVE  /\ pc'[v] = "call" => dispatched'[receipt'[v]] = 0
                 /\ pc'[v] \in {"calling", "finish"} => dispatched'[receipt'[v]] > 0
                 /\ pc'[v] = "finish" => receipt'[v] \in performed' \ inflight'
      BY <1>0, <2>2, <2>3 DEF RequestsAreBacked, Dispatching
    <2> QED
      BY <2>4, <2>5, <2>6 DEF RequestsAreBacked
  <1>2. CASE EngineStays
    <2>1. ASSUME NEW k \in Keys, dispatched'[k] > 0, k \notin forgotten'
          PROVE  OwnRow(k)' /\ rows'[ActionID[k]].intent # Zero
      <3>1. OwnRow(k) /\ rows[ActionID[k]].intent # Zero
        BY <1>0, <1>2, <2>1, Zenon DEF EngineStays, RequestsAreBacked, FloorMove
      <3>2. ActionID[k] \in Ids /\ rows[ActionID[k]] \in Row
        BY <1>0, <3>1, Constants, Zenon DEF OwnRow
      <3>3. rows'[ActionID[k]] # None
        <4>1. RowMove(ActionID[k])
          BY <3>2 DEF Moves
        <4>2. \A r \in Row : /\ r # None /\ Expired(r) # None /\ Intended(r) # None
                              /\ \A c \in Codes : Finished(r, c) # None
          BY <1>0, WrittenRows, RowFields
        <4>3. rows[ActionID[k]].key = k /\ rows[ActionID[k]] # None
          BY <3>1 DEF OwnRow
        <4> QED
          BY <2>1, <3>2, <4>1, <4>2, <4>3, Zenon DEF RowMove
      <3> QED
        BY <3>1, <3>2, <3>3, RowIsKept DEF OwnRow
    <2>2. ASSUME NEW k \in inflight'
          PROVE  OwnRow(k)' /\ Unresolved(ActionID[k])'
      <3>1. k \in inflight /\ k \in Keys /\ OwnRow(k) /\ Unresolved(ActionID[k])
        BY <1>0, <1>2, <2>2, Zenon DEF EngineStays, RequestsAreBacked, TypeOK
      <3>2. ActionID[k] \in Ids /\ RowMove(ActionID[k])
        BY <3>1, Constants, Zenon DEF Moves
      <3>3. \A v \in Workers : pc[v] = "finish" => receipt[v] # k
        BY <1>0, <3>1, Zenon DEF RequestsAreBacked
      <3>4. rows'[ActionID[k]] = rows[ActionID[k]]
        BY <3>1, <3>2, <3>3, Zenon DEF RowMove, OwnRow, Unresolved
      <3> QED
        BY <3>1, <3>4 DEF OwnRow, Unresolved
    <2>3. ASSUME NEW v \in Workers
          PROVE  /\ pc'[v] = "call" => dispatched'[receipt'[v]] = 0
                 /\ pc'[v] \in {"calling", "finish"} => dispatched'[receipt'[v]] > 0
                 /\ pc'[v] = "finish" => receipt'[v] \in performed' \ inflight'
      <3>1. WorkerMove(v)
        BY DEF Moves
      <3>2. CASE pc[v] = "decide" /\ pc'[v] = "call"
        <4>1. /\ receipt'[v] = receipt[v] /\ receipt[v] \in Keys
              /\ rows[ActionID[receipt[v]]] = held[v].r /\ held[v].r \in Row
              /\ held[v].r.key = receipt[v] /\ held[v].r.intent = Zero
          BY <1>0, <3>1, <3>2 DEF WorkerMove, Same, WorkersHold, Busy, Attempt
        <4>2. OwnRow(receipt[v])
          BY <4>1, RowFields DEF OwnRow
        <4>3. receipt[v] \notin forgotten
          BY <1>0, <4>2 DEF ForgottenStayOut
        <4>4. ~(dispatched[receipt[v]] > 0)
          BY <1>0, <4>1, <4>3 DEF RequestsAreBacked
        <4> QED
          BY <1>0, <1>2, <3>2, <4>1, <4>4 DEF EngineStays
      <3>3. CASE ~(pc[v] = "decide" /\ pc'[v] = "call") /\ pc'[v] \in Dispatching
        <4>1. /\ receipt'[v] = receipt[v]
              /\ \/ pc'[v] = pc[v]
                 \/ /\ pc[v] = "calling" /\ pc'[v] = "finish"
                    /\ receipt[v] \in performed \ inflight
          BY <1>2, <3>1, <3>3 DEF WorkerMove, Same, EngineStays, Dispatching
        <4> QED
          BY <1>0, <1>2, <4>1, Zenon DEF EngineStays, RequestsAreBacked
      <3> QED
        BY <3>2, <3>3, Zenon DEF Dispatching
    <2> QED
      BY <2>1, <2>2, <2>3, Zenon DEF RequestsAreBacked
  <1> QED
    BY <1>1, <1>2, EngineMove

(* A receipt that reaches Call has not been dispatched before.             *)
LEMMA DispatchStep ==
  ASSUME ActionInvariant, [Next]_vars
  PROVE  AtMostOneDispatch'
  <1>0. AtMostOneDispatch /\ dispatched \in [Keys -> Nat]
    BY DEF ActionInvariant, TypeOK
  <1>1. ASSUME NEW w \in Workers, Call(w)
        PROVE  AtMostOneDispatch'
    <2>1. receipt[w] \in Keys /\ dispatched[receipt[w]] = 0
      BY <1>1, CallState, Zenon DEF Call
    <2> QED
      BY <1>0, <1>1, <2>1 DEF Call, AtMostOneDispatch
  <1> QED
    BY <1>0, <1>1, EngineMove DEF EngineStays, AtMostOneDispatch

-----------------------------------------------------------------------------
(* An action that is uncertain, or may still become so, after a step was   *)
(* so before it, unless Acquire has just admitted it.                      *)
LEMMA EngagedBefore ==
  ASSUME ActionInvariant, Moves, NEW id \in Engaged',
         active'[id] = None \/ pc[active'[id]] # "acquire"
  PROVE  id \in Ids /\ id \in Engaged /\ rows'[id].key = rows[id].key
  <1>0. /\ id \in Ids /\ rows \in [Ids -> Row \union {None}] /\ now \in Time
        /\ active \in [Ids -> Workers \union {None}]
        /\ RowMove(id) /\ ActiveMove(id) /\ ActiveAttempts /\ WorkersHold
    BY Zenon DEF Engaged, ActivePermits, ActionInvariant, TypeOK, Moves
  <1>1. CASE Unresolved(id)'
    <2>1. /\ rows'[id] # None /\ rows'[id].intent # Zero /\ rows'[id].terminal = Zero
      BY <1>1, Zenon DEF Unresolved
    <2>2. now # Zero /\ now \in Nat
      BY <1>0, WrittenRows, Zenon
    <2>3. CASE rows'[id] = rows[id]
      BY <1>0, <2>1, <2>3, Zenon DEF Engaged, Unresolved
    <2>4. CASE rows'[id] # rows[id]
      <3>1. \A k \in Keys : rows'[id] # NewRow(k)
        BY <1>0, <2>1, WrittenRows
      <3>2. \A r \in Row : rows'[id] # Expired(r) /\ \A c \in Codes : rows'[id] # Finished(r, c)
        BY <1>0, <2>1, <2>2, WrittenRows
      <3>3. /\ rows[id] \in Row /\ active[id] \in Workers /\ rows[id] = held[active[id]].r
            /\ rows[id].intent = Zero /\ rows[id].terminal = Zero
            /\ rows'[id] = Intended(rows[id])
        BY <1>0, <2>1, <2>4, <3>1, <3>2, ZenonT(30) DEF RowMove
      <3>4. rows'[id].key = rows[id].key
        BY <1>0, <3>3, WrittenRows
      <3> QED
        BY <1>0, <3>3, <3>4, Constants, ZenonT(30) DEF Engaged, ActivePermits
    <2> QED
      BY <2>3, <2>4
  <1>2. CASE id \in ActivePermits'
    <2> DEFINE v == active'[id]
    <2>1. v # None /\ held'[v].r.intent = Zero /\ held'[v].r.terminal = Zero
      BY <1>2 DEF ActivePermits
    <2>2. active[id] = v /\ pc'[v] # "idle" /\ held'[v].closed = FALSE
      BY <1>0, <2>1, ZenonT(30) DEF ActiveMove
    <2>3. /\ v \in Workers /\ pc[v] \in Busy /\ ~held[v].closed /\ ActionID[receipt[v]] = id
          /\ held[v] \in Attempt
      BY <1>0, <2>1, <2>2 DEF ActiveAttempts, WorkersHold
    <2>4. WorkerMove(v) /\ pc[v] # "acquire" /\ pc[v] # "idle"
      BY <2>3, ZenonT(30) DEF Moves, Busy
    <2>5. ~(pc[v] = "decide" /\ pc'[v] = "call")
      <3> SUFFICES ASSUME pc[v] = "decide", pc'[v] = "call" PROVE FALSE
        OBVIOUS
      <3>1. held'[v] = [held[v] EXCEPT !.r = Intended(held[v].r)]
        BY <2>3, <2>4 DEF WorkerMove, Same
      <3>2. held'[v].r = Intended(held[v].r) /\ held[v].r \in Row
        BY <2>3, <3>1 DEF Attempt
      <3> QED
        BY <1>0, <2>1, <3>2, WrittenRows
    <2>6. held'[v] = held[v]
      <3>1. ~(held'[v] = [held[v] EXCEPT !.closed = TRUE])
        BY <2>2, <2>3 DEF Attempt
      <3> QED
        BY <2>2, <2>4, <2>5, <3>1, Zenon DEF WorkerMove, Same
    <2>7. rows'[id] = rows[id]
      BY <2>2, <2>3, <2>5, RowIsSteady
    <2> QED
      BY <1>0, <2>1, <2>2, <2>6, <2>7, ZenonT(30) DEF Engaged, ActivePermits
  <1> QED
    BY <1>1, <1>2, Zenon DEF Engaged

-----------------------------------------------------------------------------
(* The row Finish writes is the record of the code it returns.             *)
LEMMA FinishedIsRecorded ==
  ASSUME ActionInvariant, NEW w \in Workers, pc[w] \in Busy,
         decision[w] \in Known \union Immutable,
         rows' = [rows EXCEPT ![ActionID[receipt[w]]] = Finished(held[w].r, decision[w])]
  PROVE  Recorded(receipt[w], decision[w])
  <1>1. /\ receipt[w] \in Keys /\ held[w].r \in Row /\ held[w].r.key = receipt[w]
        /\ ActionID[receipt[w]] \in Ids
    BY Constants, Zenon DEF ActionInvariant, WorkersHold, Attempt
  <1>2. now \in Time /\ rows \in [Ids -> Row \union {None}] /\ decision[w] \in Codes
    BY DEF ActionInvariant, TypeOK, Codes
  <1>3. rows'[ActionID[receipt[w]]] = Finished(held[w].r, decision[w])
    BY <1>1, <1>2, ZenonT(30)
  <1>4. LET r == Finished(held[w].r, decision[w]) IN
        r \in Row /\ r.key = receipt[w] /\ r.terminal # Zero /\ r.code = decision[w] /\ r # None
    BY <1>1, <1>2, WrittenRows, RowFields
  <1> QED
    BY <1>3, <1>4, Zenon DEF Recorded

(* Execute returns no final code it has not read from the store or just    *)
(* written to it.                                                          *)
LEMMA ReturnedStep ==
  ASSUME ActionInvariant, [Next]_vars
  PROVE  ReturnedIsDurable'
  <1> DEFINE Final == Known \union Immutable
  <1>0. ~unbacked /\ now \in Time /\ rows \in [Ids -> Row \union {None}]
    BY DEF ActionInvariant, ReturnedIsDurable, TypeOK
  <1>a. {"IDEMPOTENCY_CONFLICT", "OUTCOME_UNKNOWN", "UNAVAILABLE", "BUDGET_EXCEEDED", "DENIED"}
          \intersect Final = {}
    BY DEF Known, Immutable
  <1>b. ASSUME NEW w \in Workers, NEW code, Return(w, code), code \in Final => Recorded(receipt[w], code)
        PROVE  ~unbacked'
    BY <1>0, <1>b, Zenon DEF Return
  <1> HIDE DEF Final
  <1>1. ASSUME NEW w \in Workers, AcquireRefused(w) PROVE ~unbacked'
    <2>1. PICK e \in Refusals : Return(w, AcquireCode(e))
      BY <1>1, Zenon DEF AcquireRefused
    <2>2. AcquireCode(e) \in {"IDEMPOTENCY_CONFLICT", "OUTCOME_UNKNOWN", "UNAVAILABLE"}
      BY DEF AcquireCode
    <2>3. AcquireCode(e) \notin Final
      BY <1>a, <2>2
    <2> QED
      BY <1>b, <2>1, <2>3
  <1>2. ASSUME NEW w \in Workers, AcquireReturnsExisting(w) PROVE ~unbacked'
    <2> DEFINE k == receipt[w]
               id == ActionID[k]
    <2>1. k \in Keys /\ id \in Ids
      BY <1>2, Constants, Zenon DEF AcquireReturnsExisting, ActionInvariant, WorkersHold
    <2>2. PICK g \in AcquireResults(k) \intersect {"retained", "expired"} :
            /\ Transaction("none", [rows EXCEPT ![id] = AcquiredRow(k, g)])
            /\ \E code \in {ExistingCode(AcquiredRow(k, g)), "BUDGET_EXCEEDED", "UNAVAILABLE"} :
                 Return(w, code)
      BY <1>2, Zenon DEF AcquireReturnsExisting
    <2>3. PICK code \in {ExistingCode(AcquiredRow(k, g)), "BUDGET_EXCEEDED", "UNAVAILABLE"} :
            Return(w, code)
      BY <2>2
    <2>4. rows'[id] = AcquiredRow(k, g)
      BY <1>0, <2>1, <2>2 DEF Transaction
    <2>5. ASSUME code = ExistingCode(AcquiredRow(k, g)), code \in Final
          PROVE  Recorded(k, code)
      <3>1. AcquiredRow(k, g).terminal # Zero /\ code = AcquiredRow(k, g).code
        BY <1>a, <2>5 DEF ExistingCode
      <3>2. CASE g = "retained"
        <4>1. OwnRow(k) /\ AcquiredRow(k, g) = rows[id]
          BY <2>1, <2>2, <3>2, Grant, ZenonT(30) DEF Grants, ActionInvariant, OwnRow
        <4> QED
          BY <2>4, <3>1, <4>1, Zenon DEF OwnRow, Recorded
      <3>3. CASE g = "expired"
        <4>1. OwnRow(k) /\ AcquiredRow(k, g) = Expired(rows[id])
          BY <2>1, <2>2, <3>3, Grant, ZenonT(30) DEF Grants, ActionInvariant, OwnRow, Undispatched
        <4>2. code = "DENIED"
          BY <1>0, <2>1, <3>1, <4>1, WrittenRows DEF OwnRow
        <4> QED
          BY <1>a, <2>5, <4>2
      <3> QED
        BY <2>2, <3>2, <3>3, Zenon
    <2>6. code \in Final => Recorded(k, code)
      BY <1>a, <2>3, <2>5
    <2> QED
      BY <1>b, <2>3, <2>6
  <1>3. ASSUME NEW w \in Workers, FinishImmutable(w) \/ Finish(w) PROVE ~unbacked'
    <2>1. pc[w] \in Busy
      BY <1>3, Zenon DEF FinishImmutable, Finish, Busy
    <2>2. PICK code :
            /\ Return(w, code)
            /\ \/ code \in {"UNAVAILABLE", "OUTCOME_UNKNOWN", "BUDGET_EXCEEDED"}
               \/ /\ code = decision[w]
                  /\ rows' = [rows EXCEPT ![ActionID[receipt[w]]] = Finished(held[w].r, decision[w])]
      <3>1. CASE FinishImmutable(w)
        BY <3>1, Zenon DEF FinishImmutable, Transaction
      <3>2. CASE Finish(w)
        BY <3>2, Zenon DEF Finish, Transaction
      <3> QED
        BY <1>3, <3>1, <3>2, Zenon
    <2>3. code \in Final => Recorded(receipt[w], code)
      BY <1>a, <2>1, <2>2, FinishedIsRecorded, Zenon DEF Final
    <2> QED
      BY <1>b, <2>2, <2>3
  <1>4. ASSUME NEW w \in Workers, GiveUp(w) \/ IntentFails(w) \/ CallSkipped(w) \/ CallFails(w)
        PROVE  ~unbacked'
    <2>1. PICK code \in {"UNAVAILABLE", "BUDGET_EXCEEDED", "DENIED", "OUTCOME_UNKNOWN"} :
            Return(w, code)
      BY <1>4, Zenon DEF GiveUp, IntentFails, CallSkipped, CallFails
    <2>2. code \notin Final
      BY <1>a, <2>1
    <2> QED
      BY <1>b, <2>1, <2>2
  <1>5. ASSUME NEW w \in Workers,
               \/ \E k \in Keys : Execute(w, k)
               \/ Acquire(w) \/ Inspect(w) \/ Intent(w) \/ Call(w) \/ CallReturns(w)
        PROVE  ~unbacked'
    BY <1>0, <1>5, Zenon DEF Execute, Acquire, Inspect, Intent, Call, CallReturns
  <1>6. ASSUME Journal \/ Crash \/ UNCHANGED vars \/ \E k \in Keys : Perform(k)
        PROVE  ~unbacked'
    BY <1>0, <1>6 DEF Journal, Crash, Perform, workerVars, vars
  <1>7. ASSUME NEW w \in Workers, Work(w) PROVE ~unbacked'
    BY <1>1, <1>2, <1>3, <1>4, <1>5, <1>7 DEF Work
  <1>8. ~unbacked'
    BY <1>6, <1>7 DEF Next
  <1> QED
    BY <1>8 DEF ReturnedIsDurable

-----------------------------------------------------------------------------
(* The refinement of ActionReceipt.                                        *)
Moved(k) == ReceiptStatus(k)' # ReceiptStatus(k)
Swept(k) ==
  \/ ReceiptStatus(k) = "admitted" /\ ReceiptStatus(k)' = "done"
  \/ ReceiptStatus(k) = "done" /\ ReceiptStatus(k)' = "forgotten"
StatusMove(k) ==
  \/ Swept(k)
  \/ ReceiptStatus(k) = "new" /\ ReceiptStatus(k)' = "admitted"
  \/ ReceiptStatus(k) = "admitted" /\ ReceiptStatus(k)' = "intent"
  \/ ReceiptStatus(k) = "intent" /\ ReceiptStatus(k)' = "done" /\ dispatched[k] > 0

(* A receipt without the row of its identity, before and after the step,   *)
(* stays new or forgotten.                                                 *)
LEMMA ForeignStays ==
  ASSUME FloorMove, NEW k \in Keys, ~OwnRow(k), ~OwnRow(k)'
  PROVE  ~Moved(k)
  <1>1. k \in forgotten' <=> k \in forgotten
    BY DEF FloorMove
  <1> QED
    BY <1>1 DEF Moved, ReceiptStatus, OwnRow

(* The status of a receipt follows its row.                                *)
LEMMA ReceiptMoves ==
  ASSUME ActionInvariant, Moves, NEW k \in Keys, Moved(k)
  PROVE  /\ StatusMove(k) /\ (OwnRow(k) \/ OwnRow(k)')
         /\ rows'[ActionID[k]] # rows[ActionID[k]]
  <1> DEFINE id == ActionID[k]
  <1>0. /\ id \in Ids /\ RowMove(id) /\ FloorMove /\ rows[id] \in Row \union {None}
        /\ now \in Time /\ now # Zero /\ None \notin Row
        /\ WorkersHold /\ RequestsAreBacked /\ ForgottenStayOut /\ floor \in Int
    <2>1. now \in Time /\ rows \in [Ids -> Row \union {None}] /\ floor \in 0..MaxTime
      BY DEF ActionInvariant, TypeOK
    <2>2. now # Zero /\ id \in Ids /\ None \notin Row
      BY <2>1, Constants, WrittenRows
    <2> QED
      BY <2>1, <2>2 DEF ActionInvariant, Moves
  <1>a. \A r \in Row : /\ Expired(r).terminal # Zero
                       /\ Intended(r).intent # Zero /\ Intended(r).terminal = r.terminal
                       /\ \A c \in Codes : Finished(r, c).terminal # Zero
    BY <1>0, WrittenRows
  <1>1. CASE rows'[id] = rows[id]
    <2>1. OwnRow(k)
      BY <1>0, <1>1, ForeignStays DEF OwnRow
    <2> QED
      BY <1>1, <2>1 DEF Moved, ReceiptStatus, OwnRow
  <1>2. CASE rows[id] = None /\ rows'[id] # None
    <2>1. PICK l \in Keys : ~BelowFloor(l) /\ rows'[id] = NewRow(l)
      BY <1>0, <1>2, Zenon DEF RowMove
    <2>2. /\ rows'[id].key = l /\ rows'[id].intent = Zero /\ rows'[id].terminal = Zero
      BY <1>0, <2>1, WrittenRows
    <2>3. l = k
      BY <1>0, <1>2, <2>2, ForeignStays DEF OwnRow
    <2>4. k \notin forgotten
      BY <1>0, <2>1, <2>3 DEF ForgottenStayOut, BelowFloor
    <2> QED
      BY <1>2, <2>2, <2>3, <2>4 DEF StatusMove, ReceiptStatus, OwnRow
  <1>3. CASE rows[id] \in Row /\ rows'[id] # rows[id] /\ rows'[id] # None
    <2>1. rows'[id] \in Row /\ rows'[id].key = rows[id].key
      BY <1>0, <1>3, RowIsKept
    <2>2. OwnRow(k) /\ OwnRow(k)'
      BY <1>0, <1>3, <2>1, ForeignStays DEF OwnRow
    <2>3. CASE \E r \in Row : r = rows[id] /\ r.intent = Zero /\ r.terminal = Zero /\ rows'[id] = Expired(r)
      <3>1. rows'[id].terminal # Zero
        BY <1>a, <2>3, Zenon
      <3> QED
        BY <1>3, <2>2, <2>3, <3>1, Zenon DEF StatusMove, Swept, ReceiptStatus, OwnRow
    <2>4. CASE \E r \in Row : r = rows[id] /\ r.intent = Zero /\ r.terminal = Zero /\ rows'[id] = Intended(r)
      <3>1. rows'[id].intent # Zero /\ rows'[id].terminal = Zero
        BY <1>a, <2>4, Zenon
      <3> QED
        BY <1>3, <2>2, <2>4, <3>1, Zenon DEF StatusMove, ReceiptStatus, OwnRow
    <2>5. ASSUME NEW w \in Workers, pc[w] \in {"decide", "finish"}, rows[id] = held[w].r,
                 rows[id].terminal = Zero, rows[id].intent = Zero <=> pc[w] = "decide",
                 rows[id].key = receipt[w], decision[w] \in Codes,
                 rows'[id] = Finished(rows[id], decision[w])
          PROVE  StatusMove(k)
      <3>1. rows'[id].terminal # Zero
        BY <1>3, <1>a, <2>5, Zenon
      <3>2. pc[w] = "finish" => dispatched[k] > 0
        BY <1>0, <2>2, <2>5, Zenon DEF RequestsAreBacked, OwnRow
      <3> QED
        BY <1>3, <2>2, <2>5, <3>1, <3>2, Zenon DEF StatusMove, Swept, ReceiptStatus, OwnRow
    <2>6. StatusMove(k)
      BY <1>0, <1>3, <2>3, <2>4, <2>5, Zenon DEF RowMove
    <2> QED
      BY <1>3, <2>2, <2>6
  <1>4. CASE rows[id] \in Row /\ rows'[id] = None
    <2>1. OwnRow(k)
      BY <1>0, <1>4, ForeignStays, Zenon DEF OwnRow
    <2>2. rows[id].terminal # Zero /\ rows[id].key \in forgotten'
      <3>1. \A r \in Row : /\ Expired(r) # None /\ Intended(r) # None
                           /\ \A c \in Codes : Finished(r, c) # None
        BY <1>0, WrittenRows, RowFields
      <3> QED
        BY <1>0, <1>4, <3>1, ZenonT(30) DEF RowMove
    <2> QED
      BY <1>0, <1>4, <2>1, <2>2, Zenon DEF StatusMove, Swept, ReceiptStatus, OwnRow
  <1> QED
    BY <1>0, <1>1, <1>2, <1>3, <1>4

(* One identity moves at most one receipt.                                 *)
LEMMA OneOfIdentity ==
  ASSUME ActionInvariant, Moves, NEW k \in Keys, NEW l \in Keys,
         Moved(k), Moved(l), ActionID[k] = ActionID[l]
  PROVE  k = l
  <1> DEFINE id == ActionID[k]
  <1>1. /\ id \in Ids /\ rows[id] \in Row \union {None}
        /\ (OwnRow(k) \/ OwnRow(k)') /\ (OwnRow(l) \/ OwnRow(l)')
    BY Constants, ReceiptMoves, Zenon DEF ActionInvariant, TypeOK
  <1>2. rows[id] # None /\ rows'[id] # None => rows'[id].key = rows[id].key
    BY <1>1, RowIsKept, Zenon
  <1> QED
    BY <1>1, <1>2 DEF OwnRow

(* A step that is not Prune writes one row at most.                        *)
LEMMA OneRowOrSweep ==
  ASSUME ActionInvariant, [Next]_vars
  PROVE  \/ \E id \in Ids : \A j \in Ids \ {id} : rows'[j] = rows[j]
         \/ rows' = rows
         \/ Prune
  <1>0. Form /\ rows \in [Ids -> Row \union {None}]
    BY StepForm DEF ActionInvariant, TypeOK
  <1>1. ASSUME NEW w \in Workers, WorkForm(w)
        PROVE  \/ \E id \in Ids : \A j \in Ids \ {id} : rows'[j] = rows[j]
               \/ rows' = rows
    <2>1. ASSUME NEW id, NEW r, rows' = [rows EXCEPT ![id] = r]
          PROVE  \/ \E i \in Ids : \A j \in Ids \ {i} : rows'[j] = rows[j]
                 \/ rows' = rows
      BY <1>0, <2>1
    <2>2. CASE Leaves(w)
      BY <2>1, <2>2, Zenon DEF Leaves, Admitting, Expiring, Intending, Finishing
    <2>3. CASE Acquires(w) \/ Intends(w)
      BY <2>1, <2>3, Zenon DEF Acquires, Admitting, Intends, Intending
    <2>4. CASE ~(Leaves(w) \/ Acquires(w) \/ Intends(w))
      BY <1>1, <2>4, Zenon DEF WorkForm, Inspect, Call, CallReturns, Execute, journalVars
    <2> QED
      BY <2>2, <2>3, <2>4
  <1>2. CASE Journal
    BY <1>2 DEF Journal, CloseJournal, OpenExisting, Tick, SetBack
  <1>3. CASE Crash \/ UNCHANGED vars \/ \E k \in Keys : Perform(k)
    BY <1>3 DEF Crash, vars, Perform, journalVars
  <1> QED
    BY <1>0, <1>1, <1>2, <1>3 DEF Form

(* Prune denies and deletes only.                                          *)
LEMMA PruneSweeps ==
  ASSUME ActionInvariant, Moves, Prune, NEW k \in Keys, Moved(k)
  PROVE  Swept(k)
  <1> DEFINE id == ActionID[k]
  <1>1. /\ id \in Ids /\ StatusMove(k) /\ rows'[id] # rows[id] /\ now \in Time
        /\ rows \in [Ids -> Row \union {None}]
    BY ReceiptMoves, Constants, Zenon DEF ActionInvariant, TypeOK
  <1>2. rows[id] # None /\ rows'[id] \in {Expired(rows[id]), None}
    <2>1. PICK batch \in SUBSET Prunable, fault \in StorageFault :
            rows' = IF fault = "before" THEN rows ELSE PrunedRows(batch)
      BY DEF Prune, Transaction
    <2>2. id \in batch /\ rows'[id] \in {Expired(rows[id]), None}
      BY <1>1, <2>1 DEF PrunedRows
    <2> QED
      BY <2>2, Zenon DEF Prunable, PruneExpires, PruneDeletes
  <1>a. \A r \in Row : Expired(r).terminal # Zero
    BY <1>1, WrittenRows
  <1>3. rows'[id] = None \/ rows'[id].terminal # Zero
    <2>1. rows[id] \in Row
      BY <1>1, <1>2
    <2> QED
      BY <1>2, <1>a, <2>1
  <1>4. ReceiptStatus(k)' \notin {"admitted", "intent"}
    BY <1>3 DEF ReceiptStatus
  <1>5. ~(ReceiptStatus(k) = "intent" /\ ReceiptStatus(k)' = "done")
    <2> SUFFICES ASSUME ReceiptStatus(k) = "intent", ReceiptStatus(k)' = "done" PROVE FALSE
      OBVIOUS
    <2>1. rows[id] # None /\ rows[id].intent # Zero /\ rows[id].terminal = Zero
      BY DEF ReceiptStatus
    <2> QED
      BY <1>1, <2>1, Zenon DEF Prune, Transaction, PrunedRows, Prunable, PruneExpires, PruneDeletes
  <1> QED
    BY <1>1, <1>4, <1>5 DEF StatusMove

(* What ActionReceipt sees of a state.                                     *)
Status == [k \in Keys |-> ReceiptStatus(k)]
Sent == {k \in Keys : dispatched[k] > 0}

(* Every step is one of ActionReceipt, or changes nothing it sees.         *)
LEMMA StepRefines ==
  ASSUME ActionInvariant, [Next]_vars
  PROVE  [Receipt!Next]_<<Status, Sent>>
  <1>0. Moves /\ dispatched \in [Keys -> Nat]
    BY StepMoves DEF ActionInvariant, TypeOK
  <1>1. ASSUME NEW w \in Workers, Call(w)
        PROVE  Receipt!Next
    <2>1. PICK k \in Keys :
            k = receipt[w] /\ OwnRow(k) /\ Unresolved(ActionID[k]) /\ dispatched[k] = 0
      BY <1>1, CallState DEF Call
    <2>2. rows' = rows /\ forgotten' = forgotten /\ dispatched' = [dispatched EXCEPT ![k] = @ + 1]
      BY <1>1, <2>1, ZenonT(30) DEF Call, journalVars
    <2>3. Status' = Status
      BY <2>2 DEF Status, ReceiptStatus
    <2>4. Sent' = Sent \union {k} /\ k \notin Sent
      BY <1>0, <2>1, <2>2 DEF Sent
    <2>5. Status[k] = "intent"
      BY <2>1 DEF Status, ReceiptStatus, OwnRow, Unresolved
    <2>6. Receipt!Send(k)
      BY <2>3, <2>4, <2>5 DEF Receipt!Send, Status, Sent
    <2> QED
      BY <2>6 DEF Receipt!Next
  <1>2. CASE EngineStays
    <2>1. Sent' = Sent
      BY <1>2 DEF EngineStays, Sent
    <2>2. CASE \A k \in Keys : Moved(k) => Swept(k)
      <3>1. Receipt!Sweep
        BY <2>1, <2>2 DEF Receipt!Sweep, Sent, Moved, Swept
      <3> QED
        BY <3>1 DEF Receipt!Next
    <2>3. ASSUME NEW k \in Keys, Moved(k), ~Swept(k)
          PROVE  Receipt!Next
      <3>1. ~Prune
        BY <1>0, <2>3, PruneSweeps
      <3>2. ActionID[k] \in Ids /\ rows'[ActionID[k]] # rows[ActionID[k]] /\ StatusMove(k)
        BY <1>0, <2>3, ReceiptMoves, Constants
      <3>3. \A j \in Ids \ {ActionID[k]} : rows'[j] = rows[j]
        BY <3>1, <3>2, OneRowOrSweep
      <3>4. ASSUME NEW l \in Keys, l # k
            PROVE  ~Moved(l)
        <4>1. CASE ActionID[l] = ActionID[k]
          BY <1>0, <2>3, <3>4, <4>1, OneOfIdentity
        <4>2. CASE ActionID[l] # ActionID[k]
          BY <1>0, <3>3, <4>2, ReceiptMoves, Constants
        <4> QED
          BY <4>1, <4>2
      <3>5. Status' = [Status EXCEPT ![k] = ReceiptStatus(k)']
        BY <3>4, Zenon DEF Status, Moved
      <3>6. CASE ReceiptStatus(k) = "new" /\ ReceiptStatus(k)' = "admitted"
        <4>1. Receipt!Admit(k)
          BY <2>1, <3>5, <3>6 DEF Receipt!Admit, Receipt!Move, Status, Sent
        <4> QED
          BY <4>1 DEF Receipt!Next
      <3>7. CASE ReceiptStatus(k) = "admitted" /\ ReceiptStatus(k)' = "intent"
        <4>1. Receipt!Intend(k)
          BY <2>1, <3>5, <3>7 DEF Receipt!Intend, Receipt!Move, Status, Sent
        <4> QED
          BY <4>1 DEF Receipt!Next
      <3>8. CASE ReceiptStatus(k) = "intent" /\ ReceiptStatus(k)' = "done" /\ dispatched[k] > 0
        <4>1. Receipt!Resolve(k)
          BY <2>1, <3>5, <3>8 DEF Receipt!Resolve, Receipt!Move, Status, Sent
        <4> QED
          BY <4>1 DEF Receipt!Next
      <3> QED
        BY <2>3, <3>2, <3>6, <3>7, <3>8 DEF StatusMove
    <2> QED
      BY <2>2, <2>3
  <1> QED
    BY <1>1, <1>2, EngineMove

-----------------------------------------------------------------------------
(* The identities are as many as the receipts at most.                     *)
LEMMA IdsAreFinite == IsFiniteSet(Ids)
  <1>1. ActionID \in Surjection(Keys, Ids)
    BY JournalAssumption DEF JournalAssumption, Surjection, Ids
  <1> QED
    BY <1>1, Constants, FS_Surjection

(* What a receipt that acquire does not block may rely on.                 *)
LEMMA NotBlocked ==
  ASSUME ActionInvariant, NEW k \in Keys, Blocked(k) = {}
  PROVE  /\ \A i \in Engaged : ~Related(rows[i].key, k)
         /\ IsFiniteSet(Engaged) /\ Cardinality(Engaged) < Permits
  <1>0. /\ active \in [Ids -> Workers \union {None}] /\ ActiveAttempts /\ WorkersHold /\ CachedRows
    BY DEF ActionInvariant, TypeOK
  <1>1. /\ \A r \in RelatedRows(k) : ~(r.intent # Zero /\ r.terminal = Zero)
        /\ ~ActiveRelated(k) /\ ~(PermitsTaken >= Permits)
    <2>1. ~\E r \in RelatedRows(k) : ~ValidRow(r)
      BY DEF Blocked
    <2>2. ASSUME NEW r \in RelatedRows(k), r.intent # Zero, r.terminal = Zero
          PROVE  FALSE
      <3>1. "ErrUnresolvedTarget" \in Blocked(k)
        BY <2>1, <2>2 DEF Blocked
      <3> QED
        BY <3>1
    <2>3. ASSUME NEW r \in RelatedRows(k), CoolingDown(r)
          PROVE  FALSE
      <3>1. "ErrBusy" \in Blocked(k)
        BY <2>1, <2>3 DEF Blocked
      <3> QED
        BY <3>1
    <2>4. ~ActiveRelated(k) /\ ~(PermitsTaken >= Permits)
      BY <2>1, <2>2, <2>3 DEF Blocked
    <2> QED
      BY <2>2, <2>4
  <1>2. ASSUME NEW i \in Ids, Unresolved(i)
        PROVE  ~Related(rows[i].key, k)
    BY <1>1, <1>2 DEF RelatedRows, Stored, Unresolved
  <1>3. ASSUME NEW i \in ActivePermits
        PROVE  ~Related(rows[i].key, k)
    <2>1. /\ i \in Ids /\ active[i] \in Workers /\ pc[active[i]] \in Busy
          /\ ~held[active[i]].closed /\ ActionID[receipt[active[i]]] = i
      BY <1>0, <1>3 DEF ActivePermits, ActiveAttempts
    <2>2. rows[i] = held[active[i]].r
      BY <1>0, <2>1 DEF CachedRows
    <2> QED
      BY <1>1, <1>3, <2>1, <2>2 DEF ActivePermits, ActiveRelated
  <1> DEFINE U == {id \in Ids : Unresolved(id)}
  <1>4. IsFiniteSet(U) /\ IsFiniteSet(ActivePermits)
    <2>1. U \subseteq Ids /\ ActivePermits \subseteq Ids
      BY DEF ActivePermits
    <2> QED
      BY <2>1, IdsAreFinite, FS_Subset
  <1>5. /\ Cardinality(U) \in Nat /\ Cardinality(ActivePermits) \in Nat
        /\ IsFiniteSet(U \intersect ActivePermits)
    BY <1>4, FS_CardinalityType, FS_Intersection, Zenon
  <1>6. Cardinality(U \intersect ActivePermits) \in Nat
    BY <1>5, FS_CardinalityType
  <1>7. /\ IsFiniteSet(U \union ActivePermits)
        /\ Cardinality(U \union ActivePermits) =
             Cardinality(U) + Cardinality(ActivePermits) - Cardinality(U \intersect ActivePermits)
    BY <1>4, FS_Union
  <1>8. Engaged = U \union ActivePermits
    BY DEF Engaged
  <1>9. ~(Cardinality(ActivePermits) + Cardinality(U) >= Permits)
    BY <1>1 DEF PermitsTaken, UnknownCount
  <1>10. Cardinality(Engaged) < Permits
    <2> HIDE DEF U
    <2> QED
      BY <1>5, <1>6, <1>7, <1>8, <1>9 DEF Permits
  <1> QED
    BY <1>2, <1>3, <1>7, <1>8, <1>10 DEF Engaged

(* Acquire alone adds to them, one whose container and target are free.    *)
LEMMA EngagedStep ==
  ASSUME ActionInvariant, [Next]_vars, Moves
  PROVE  EngagedAreFew'
  <1>0. /\ EngagedAreFew /\ Engaged \subseteq Ids /\ IsFiniteSet(Engaged)
        /\ active \in [Ids -> Workers \union {None}]
        /\ pc \in [Workers -> {"idle", "acquire", "inspect", "decide", "call", "calling", "finish"}]
    <2>1. Engaged \subseteq Ids
      BY DEF Engaged, ActivePermits
    <2> QED
      BY <2>1, IdsAreFinite, FS_Subset DEF ActionInvariant, TypeOK
  <1>1. ASSUME NEW w \in Workers, Acquires(w)
        PROVE  EngagedAreFew'
    <2> DEFINE k == receipt[w]
               id == ActionID[k]
    <2>1. /\ k \in Keys /\ id \in Ids /\ Blocked(k) = {} /\ rows'[id].key = k
          /\ \A j \in Ids \ {id} : active'[j] = active[j]
      BY <1>0, <1>1, Constants, ZenonT(30) DEF Acquires
    <2>2. /\ \A i \in Engaged : ~Related(rows[i].key, k)
          /\ IsFiniteSet(Engaged) /\ Cardinality(Engaged) < Permits
      BY <2>1, NotBlocked, ZenonT(30)
    <2>3. ASSUME NEW j \in Engaged', j # id
          PROVE  j \in Engaged /\ rows'[j].key = rows[j].key
      <3>1. j \in Ids
        BY DEF Engaged, ActivePermits
      <3>2. active'[j] = None \/ pc[active'[j]] # "acquire"
        BY <1>0, <2>1, <2>3, <3>1, ZenonT(30) DEF ActionInvariant, ActiveAttempts, Busy
      <3> QED
        BY <3>2, EngagedBefore
    <2>4. \A i, j \in Engaged' : i # j => ~Related(rows'[i].key, rows'[j].key)
      <3>1. ASSUME NEW i \in Engaged', i # id
            PROVE  ~Related(rows'[i].key, rows'[id].key) /\ ~Related(rows'[id].key, rows'[i].key)
        BY <2>1, <2>2, <2>3, <3>1, Zenon DEF Related
      <3>2. ASSUME NEW i \in Engaged', NEW j \in Engaged', i # id, j # id, i # j
            PROVE  ~Related(rows'[i].key, rows'[j].key)
        BY <1>0, <2>3, <3>2, Zenon DEF EngagedAreFew
      <3> QED
        BY <3>1, <3>2, Zenon
    <2>5. Cardinality(Engaged') <= Permits
      <3>1. Engaged' \subseteq Engaged \union {id}
        BY <2>3
      <3>2. /\ IsFiniteSet(Engaged \union {id})
            /\ \/ Cardinality(Engaged \union {id}) = Cardinality(Engaged)
               \/ Cardinality(Engaged \union {id}) = Cardinality(Engaged) + 1
        BY <2>2, FS_AddElement
      <3>3. IsFiniteSet(Engaged') /\ Cardinality(Engaged') <= Cardinality(Engaged \union {id})
        BY <3>1, <3>2, FS_Subset
      <3>4. /\ Cardinality(Engaged') \in Nat /\ Cardinality(Engaged \union {id}) \in Nat
            /\ Cardinality(Engaged) \in Nat
        BY <2>2, <3>2, <3>3, FS_CardinalityType
      <3> QED
        BY <2>2, <3>2, <3>3, <3>4 DEF Permits
    <2> QED
      BY <2>4, <2>5 DEF EngagedAreFew
  <1>2. CASE ~\E w \in Workers : Acquires(w)
    <2>1. ASSUME NEW w \in Workers, pc[w] = "acquire"
          PROVE  pc'[w] # "inspect"
      <3>1. Form
        BY StepForm
      <3>2. ASSUME NEW v \in Workers, WorkForm(v)
            PROVE  pc'[w] # "inspect"
        BY <1>0, <1>2, <2>1, <3>2
           DEF WorkForm, Leaves, Intends, Intending, Inspect, Call, CallReturns, Execute, Goto
      <3> QED
        BY <2>1, <3>1, <3>2 DEF Form, Journal, Crash, Perform, workerVars, vars
    <2>2. ASSUME NEW j \in Engaged'
          PROVE  j \in Engaged /\ rows'[j].key = rows[j].key
      <3>1. j \in Ids /\ ActiveMove(j)
        BY DEF Engaged, ActivePermits, Moves
      <3>2. active'[j] = None \/ pc[active'[j]] # "acquire"
        BY <1>0, <2>1, <3>1 DEF ActiveMove, ActionInvariant, ActiveAttempts, Busy
      <3> QED
        BY <3>2, EngagedBefore
    <2>3. Engaged' \subseteq Engaged
      BY <2>2
    <2>4. Cardinality(Engaged') <= Permits
      <3>1. IsFiniteSet(Engaged') /\ Cardinality(Engaged') <= Cardinality(Engaged)
        BY <1>0, <2>3, FS_Subset
      <3>2. Cardinality(Engaged') \in Nat /\ Cardinality(Engaged) \in Nat
        BY <1>0, <3>1, FS_CardinalityType
      <3> QED
        BY <1>0, <3>1, <3>2 DEF EngagedAreFew, Permits
    <2> QED
      BY <1>0, <2>2, <2>4 DEF EngagedAreFew
  <1> QED
    BY <1>1, <1>2

(* An empty store with no worker satisfies the invariant.                  *)
LEMMA InvariantInit == Init => ActionInvariant
  <1> SUFFICES ASSUME Init PROVE ActionInvariant
    OBVIOUS
  <1>1. /\ rows = [id \in Ids |-> None] /\ active = [id \in Ids |-> None]
        /\ pc = [w \in Workers |-> "idle"] /\ forgotten = {} /\ inflight = {}
        /\ dispatched = [k \in Keys |-> 0] /\ unbacked = FALSE
    BY DEF Init, JournalInit
  <1>2. WorkersHold /\ ActiveAttempts /\ CachedRows /\ OneDispatcher
    BY <1>1 DEF WorkersHold, ActiveAttempts, CachedRows, OneDispatcher, Busy, Dispatching
  <1>3. RowsAreSound /\ ForgottenStayOut /\ AtMostOneDispatch /\ ReturnedIsDurable
    BY <1>1 DEF RowsAreSound, Stored, ForgottenStayOut, AtMostOneDispatch, ReturnedIsDurable
  <1>4. RequestsAreBacked
    BY <1>1 DEF RequestsAreBacked
  <1>5. Engaged = {}
    BY <1>1 DEF Engaged, ActivePermits, Unresolved
  <1>6. EngagedAreFew
    BY <1>5, FS_EmptySet DEF EngagedAreFew, Permits
  <1> QED
    BY <1>2, <1>3, <1>4, <1>6, TypeInit DEF ActionInvariant

(* Every step of a worker, the journal, the engine or the machine          *)
(* preserves it.                                                           *)
LEMMA InvariantStep == ActionInvariant /\ [Next]_vars => ActionInvariant'
  <1> SUFFICES ASSUME ActionInvariant, [Next]_vars PROVE ActionInvariant'
    OBVIOUS
  <1>1. Moves /\ TypeOK'
    BY StepMoves, TypeStep
  <1>2. WorkersHold' /\ ActiveAttempts' /\ CachedRows' /\ OneDispatcher'
    BY <1>1, HoldStep, ActiveStep, CachedStep, DispatcherStep
  <1>3. RowsAreSound' /\ ForgottenStayOut' /\ RequestsAreBacked' /\ EngagedAreFew'
    BY <1>1, SoundStep, ForgottenStep, BackedStep, EngagedStep
  <1> QED
    BY <1>1, <1>2, <1>3, DispatchStep, ReturnedStep DEF ActionInvariant

(* The inductive invariant holds in every reachable state.                 *)
THEOREM InvariantHolds == Spec => []ActionInvariant
  BY InvariantInit, InvariantStep, PTL DEF Spec

(* Journal and worker state have their types in every reachable state: in  *)
(* particular a row in the actions table is always a complete record.      *)
THEOREM TypeCorrect == Spec => []TypeOK
  <1>1. ActionInvariant => TypeOK
    BY DEF ActionInvariant
  <1> QED
    BY <1>1, InvariantHolds, PTL

(* Execute makes at most one engine request per receipt, whatever is       *)
(* redelivered, crashes, times out, is pruned, or is done to the clock.    *)
THEOREM DispatchesOnce == Spec => []AtMostOneDispatch
  <1>1. ActionInvariant => AtMostOneDispatch
    BY DEF ActionInvariant
  <1> QED
    BY <1>1, InvariantHolds, PTL

(* A final code Execute returns is the one the journal holds.              *)
THEOREM ReturnsDurable == Spec => []ReturnedIsDurable
  <1>1. ActionInvariant => ReturnedIsDurable
    BY DEF ActionInvariant
  <1> QED
    BY <1>1, InvariantHolds, PTL

(* Two engine requests are never out for one container or one target: each *)
(* has an unresolved record, and no two of those are related.              *)
THEOREM ContainersAreFenced == Spec => []OneRequestPerContainer
  <1>1. ActionInvariant => OneRequestPerContainer
    <2> SUFFICES ASSUME ActionInvariant, NEW k \in inflight, NEW l \in inflight, k # l
                 PROVE  Physical[k] # Physical[l] /\ Target[k] # Target[l]
      BY DEF OneRequestPerContainer
    <2>1. /\ k \in Keys /\ l \in Keys /\ ActionID[k] \in Ids /\ ActionID[l] \in Ids
      BY Constants DEF ActionInvariant, TypeOK
    <2>2. /\ rows[ActionID[k]].key = k /\ rows[ActionID[l]].key = l
          /\ Unresolved(ActionID[k]) /\ Unresolved(ActionID[l])
      BY DEF ActionInvariant, RequestsAreBacked, OwnRow
    <2>3. ActionID[k] # ActionID[l] /\ ActionID[k] \in Engaged /\ ActionID[l] \in Engaged
      BY <2>1, <2>2 DEF Engaged
    <2>4. ~Related(k, l)
      BY <2>2, <2>3 DEF ActionInvariant, EngagedAreFew
    <2> QED
      BY <2>4 DEF Related
  <1> QED
    BY <1>1, InvariantHolds, PTL

(* Journal.verify accepts every store the journal leaves behind, so a      *)
(* restart after any crash can open it.                                    *)
THEOREM StoreOpens == Spec => []StoreAlwaysOpens
  <1>1. ActionInvariant => StoreAlwaysOpens
    <2> SUFFICES ASSUME ActionInvariant PROVE StoreValid
      BY DEF StoreAlwaysOpens
    <2> DEFINE U == {id \in Ids : Unresolved(id)}
    <2>1. \A id \in Stored : ValidRow(rows[id])
      BY DEF ActionInvariant, RowsAreSound
    <2>2. \A i, j \in Ids : Unresolved(i) /\ Unresolved(j) /\ i # j => ~Related(rows[i].key, rows[j].key)
      BY DEF ActionInvariant, EngagedAreFew, Engaged
    <2>3. Engaged \subseteq Ids /\ U \subseteq Engaged
      BY DEF Engaged, ActivePermits
    <2>4. IsFiniteSet(Engaged)
      BY <2>3, IdsAreFinite, FS_Subset
    <2>5. IsFiniteSet(U) /\ Cardinality(U) <= Cardinality(Engaged)
      BY <2>3, <2>4, FS_Subset
    <2>6. Cardinality(U) \in Nat /\ Cardinality(Engaged) \in Nat /\ Cardinality(Engaged) <= Permits
      BY <2>4, <2>5, FS_CardinalityType DEF ActionInvariant, EngagedAreFew
    <2>7. Cardinality(U) <= Permits
      <3> HIDE DEF U
      <3> QED
        BY <2>5, <2>6 DEF Permits
    <2> QED
      BY <2>1, <2>2, <2>7 DEF StoreValid
  <1> QED
    BY <1>1, InvariantHolds, PTL

(* Worker, journal and engine implement what the interfaces of actioncore  *)
(* promise of every receipt: admitted once, uncertain at most once, sent   *)
(* at most once and only while uncertain, never resumed once forgotten.    *)
THEOREM RefinesReceipt == Spec => ImplementsReceipt
  <1>1. Init => Receipt!Init
    <2> SUFFICES ASSUME Init PROVE Receipt!Init
      OBVIOUS
    <2>1. /\ \A k \in Keys : rows[ActionID[k]] = None
          /\ forgotten = {} /\ \A k \in Keys : dispatched[k] = 0
      BY Constants DEF Init, JournalInit
    <2> QED
      BY <2>1 DEF Receipt!Init, ReceiptStatus
  <1>2. ActionInvariant /\ [Next]_vars => [Receipt!Next]_<<Status, Sent>>
    BY StepRefines
  <1> QED
    BY <1>1, <1>2, InvariantHolds, PTL DEF Spec, ImplementsReceipt, Receipt!Spec, Status, Sent
=============================================================================
