--------------------------- MODULE RuntimeProofs ---------------------------
(* Proofs about two parts of the local process that stand apart from each  *)
(* other: ObserverRuntime, for any number of processes, addresses, starts, *)
(* stop requests and faults, and ActionBudget, for every value of the      *)
(* limits and every movement of the three local clocks.                    *)
EXTENDS ObserverRuntime, ActionBudget, TLAPS

-----------------------------------------------------------------------------
(* The time limits of a container action.                                  *)
Exchange == [sent : Stamp, said : Int \union {Absent}]

TypeInv ==
  /\ boot \in Int /\ lag \in Int /\ drift \in Int /\ ahead \in Int
  /\ exchange \in Exchange \union {Absent}
  /\ readiness \in Readiness \union {Absent}
  /\ conversation \in Conversation \union {Absent}
  /\ execution \in [rtt : Nat] \union {Absent}

(* What an accepted reading is worth: the exchange was short and continuous *)
(* and the server's clock was within the skew of both its ends.            *)
Vouched(r) ==
  /\ continuous(r.origin, r.recv)
  /\ r.recv.boot - r.origin.boot < Control
  /\ r.origin.boot + ahead - r.origin.wall <= Skew
  /\ r.recv.boot + ahead - r.recv.wall >= -Skew

(* The answer lies between its exchange's first stamp and now.             *)
ExchangeInv ==
  exchange # Absent =>
    /\ exchange.sent.boot <= boot
    /\ exchange.said # Absent =>
         exchange.said - ahead >= exchange.sent.boot /\ exchange.said - ahead <= boot

ReadinessInv == readiness # Absent => Vouched(readiness)

(* A conversation starts while its reading is fresh, and its claim lies    *)
(* between its start and now.                                              *)
ConversationInv ==
  conversation # Absent =>
    /\ Vouched(conversation.ready)
    /\ continuous(conversation.ready.origin, conversation.start)
    /\ conversation.start.boot - conversation.ready.recv.boot <= ReadyAge
    /\ conversation.start.boot <= boot
    /\ conversation.claimed # Absent => conversation.claimed - ahead >= conversation.start.boot

ExecutionInv == execution # Absent => conversation # Absent /\ conversation.claimed # Absent

BudgetInv ==
  TypeInv /\ ExchangeInv /\ ReadinessInv /\ ConversationInv /\ ExecutionInv

(* The stamps and limits are integers.                                     *)
LEMMA NowIsStamp == ASSUME TypeInv PROVE Now \in Stamp /\ Now.boot = boot /\ Now.wall = boot + drift
BY DEF TypeInv, Now, Stamp

LEMMA LimitsAreNat ==
  /\ Continuity \in Nat /\ Skew \in Nat /\ Control \in Nat /\ ReadyAge \in Nat
  /\ Delivery \in Nat /\ Effect \in Nat /\ Reserve \in Nat /\ Lease \in Nat
  /\ Control <= Reserve
BY LimitsAssumption

LEMMA InitBudget == BudgetInit => BudgetInv
<1> SUFFICES ASSUME BudgetInit PROVE BudgetInv
  OBVIOUS
<1>1. boot \in Int /\ lag \in Int /\ drift \in Int /\ ahead \in Int
  BY LimitsAssumption DEF BudgetInit
<1>2. Now \in Stamp /\ Now.boot = boot
  BY <1>1 DEF Now, Stamp
<1>3. exchange \in Exchange /\ exchange.sent = Now /\ exchange.said = Absent
  BY <1>2 DEF BudgetInit, Exchange
<1> QED
  BY <1>1, <1>2, <1>3
  DEF BudgetInit, BudgetInv, TypeInv, ExchangeInv, ReadinessInv, ConversationInv, ExecutionInv

(* Every step keeps the invariant: the clocks only move on, an answer and  *)
(* a claim are dated between the stamps around them, and a reading is      *)
(* accepted, or a conversation begun, only with what the invariant says.   *)
LEMMA NextBudget == BudgetInv /\ [BudgetNext]_budgetVars => BudgetInv'
<1> SUFFICES ASSUME BudgetInv, [BudgetNext]_budgetVars PROVE BudgetInv'
  OBVIOUS
<1> USE LimitsAreNat
<1>0. Now \in Stamp /\ Now.boot = boot /\ Now.wall = boot + drift
  BY NowIsStamp DEF BudgetInv
<1>1. CASE Tick
  <2>1. boot' = boot + 1 /\ lag' \in Int
    BY <1>1 DEF Tick, BudgetInv, TypeInv
  <2>2. UNCHANGED <<drift, ahead, exchange, readiness, conversation, execution>>
    BY <1>1 DEF Tick, ClocksElsewhere
  <2>3. TypeInv'
    BY <2>1, <2>2 DEF BudgetInv, TypeInv
  <2>4. ExchangeInv'
    BY <2>1, <2>2 DEF BudgetInv, TypeInv, ExchangeInv, Exchange, Stamp
  <2>5. ReadinessInv' /\ ExecutionInv'
    BY <2>2 DEF BudgetInv, ReadinessInv, ExecutionInv, Vouched
  <2>6. ConversationInv'
    BY <2>1, <2>2 DEF BudgetInv, TypeInv, ConversationInv, Vouched, Conversation, Stamp
  <2> QED BY <2>3, <2>4, <2>5, <2>6 DEF BudgetInv
<1>2. CASE SetWallClock
  <2>1. drift' \in Int
    BY <1>2, LimitsAssumption DEF SetWallClock
  <2> QED
    BY <1>2, <2>1 DEF SetWallClock, ClocksElsewhere, BudgetInv, TypeInv, ExchangeInv, ReadinessInv,
       ConversationInv, ExecutionInv, Vouched
<1>3. CASE ServerAnswers
  <2>1. exchange \in Exchange /\ exchange' = [exchange EXCEPT !.said = Server]
    BY <1>3 DEF ServerAnswers, BudgetInv, TypeInv
  <2>2. Server \in Int /\ Server - ahead = boot
    BY DEF Server, BudgetInv, TypeInv
  <2>3. exchange' \in Exchange /\ exchange'.sent = exchange.sent /\ exchange'.said = Server
    BY <2>1, <2>2 DEF Exchange
  <2>4. ExchangeInv'
    BY <1>3, <2>2, <2>3 DEF ServerAnswers, ClocksStay, BudgetInv, TypeInv, ExchangeInv, Exchange, Stamp
  <2> QED
    BY <1>3, <2>3, <2>4 DEF ServerAnswers, ClocksStay, BudgetInv, TypeInv, ReadinessInv,
       ConversationInv, ExecutionInv, Vouched
<1>4. CASE ObserveControlTime
  <2>1. exchange' = Absent /\ ClocksStay /\ UNCHANGED <<conversation, execution>>
    BY <1>4 DEF ObserveControlTime
  <2>2. readiness' \in Readiness \union {Absent} /\ ReadinessInv'
    <3>1. CASE UNCHANGED readiness
      BY <2>1, <3>1 DEF ClocksStay, BudgetInv, TypeInv, ReadinessInv, Vouched
    <3>2. CASE ~UNCHANGED readiness
      <4>1. /\ exchange \in Exchange /\ exchange.said \in Int
            /\ serverBracket(exchange.said, exchange.sent, Now)
            /\ boot - exchange.sent.boot < Control
            /\ readiness' = [origin |-> exchange.sent, recv |-> Now]
        BY <1>4, <3>2 DEF ObserveControlTime, BudgetInv, TypeInv, Exchange
      <4>2. readiness' \in Readiness /\ readiness'.origin = exchange.sent /\ readiness'.recv = Now
        BY <4>1, <1>0 DEF Readiness, Exchange
      <4>3. exchange.sent.boot + ahead - exchange.sent.wall <= Skew /\ Now.boot + ahead - Now.wall >= -Skew
        BY <1>0, <1>4, <4>1 DEF serverBracket, ObserveControlTime, BudgetInv, TypeInv, ExchangeInv, Exchange, Stamp
      <4>4. Vouched(readiness)'
        BY <1>0, <2>1, <4>1, <4>2, <4>3 DEF Vouched, serverBracket, ClocksStay, continuous, continuousWithin
      <4> QED BY <4>2, <4>4 DEF ReadinessInv
    <3> QED BY <3>1, <3>2
  <2> QED
    BY <2>1, <2>2 DEF ClocksStay, BudgetInv, TypeInv, ExchangeInv, ConversationInv, ExecutionInv, Vouched
<1>5. CASE Begin
  <2>1. /\ conversation' = [ready |-> readiness, start |-> Now, claimed |-> Absent, used |-> FALSE]
        /\ readiness \in Readiness /\ Vouched(readiness)
        /\ continuous(readiness.origin, Now) /\ boot - readiness.recv.boot <= ReadyAge
        /\ execution = Absent
    BY <1>5 DEF Begin, BudgetInv, TypeInv, ReadinessInv, ExecutionInv, Readiness, Stamp
  <2>2. /\ conversation' \in Conversation /\ conversation'.ready = readiness
        /\ conversation'.start = Now /\ conversation'.claimed = Absent
    BY <2>1, <1>0 DEF Conversation
  <2>3. Vouched(conversation.ready)'
    BY <1>5, <2>1, <2>2 DEF Begin, ClocksStay, Vouched
  <2>4. ConversationInv'
    BY <1>0, <1>5, <2>1, <2>2, <2>3
    DEF Begin, ClocksStay, ConversationInv, continuous, continuousWithin, BudgetInv, TypeInv
  <2> QED
    BY <1>5, <2>1, <2>2, <2>4 DEF Begin, ClocksStay, BudgetInv, TypeInv, ExchangeInv, ReadinessInv,
       ExecutionInv, Vouched
<1>6. CASE ServerClaims
  <2>1. conversation \in Conversation /\ conversation' = [conversation EXCEPT !.claimed = Server]
    BY <1>6 DEF ServerClaims, BudgetInv, TypeInv
  <2>2. Server \in Int /\ Server - ahead = boot
    BY DEF Server, BudgetInv, TypeInv
  <2>3. /\ conversation' \in Conversation /\ conversation'.ready = conversation.ready
        /\ conversation'.start = conversation.start /\ conversation'.claimed = Server
    BY <2>1, <2>2 DEF Conversation
  <2>4. ConversationInv'
    BY <1>6, <2>2, <2>3 DEF ServerClaims, ClocksStay, BudgetInv, TypeInv, ConversationInv, Vouched,
       Conversation, Stamp
  <2>5. execution = Absent
    BY <1>6 DEF ServerClaims, BudgetInv, ExecutionInv
  <2> QED
    BY <1>6, <2>3, <2>4, <2>5 DEF ServerClaims, ClocksStay, BudgetInv, TypeInv, ExchangeInv,
       ReadinessInv, ExecutionInv, Vouched
<1>7. CASE AcceptClaim
  <2>1. /\ conversation \in Conversation /\ conversation.claimed # Absent
        /\ conversation' = [conversation EXCEPT !.used = TRUE]
    BY <1>7 DEF AcceptClaim, BudgetInv, TypeInv
  <2>2. /\ conversation' \in Conversation /\ conversation'.ready = conversation.ready
        /\ conversation'.start = conversation.start /\ conversation'.claimed = conversation.claimed
    BY <2>1, Zenon DEF Conversation
  <2>3. execution' \in [rtt : Nat] \union {Absent}
    BY <1>7 DEF AcceptClaim, BudgetInv, TypeInv
  <2>4. conversation # Absent /\ conversation' # Absent
    BY <2>1, <2>2, AbsentAssumption, Zenon
  <2> QED
    BY <1>7, <2>1, <2>2, <2>3, <2>4 DEF AcceptClaim, ClocksStay, BudgetInv, TypeInv, ExchangeInv,
       ReadinessInv, ConversationInv, ExecutionInv, Vouched
<1>8. CASE UNCHANGED budgetVars
  BY <1>8 DEF budgetVars, BudgetInv, TypeInv, ExchangeInv, ReadinessInv, ConversationInv,
     ExecutionInv, Vouched
<1> QED
  BY <1>1, <1>2, <1>3, <1>4, <1>5, <1>6, <1>7, <1>8 DEF BudgetNext

(* The invariant bounds every effect that is allowed.  The wall clock may  *)
(* have moved by one continuity before the reading was complete and by     *)
(* another since, which is where the second one comes from.                *)
LEMMA TimelyFromInv == BudgetInv => EffectIsTimely
<1> SUFFICES ASSUME BudgetInv, CheckExecution
             PROVE  /\ Server - conversation.claimed < Lease - Reserve
                    /\ Server - conversation.claimed < execution.rtt + Effect
                    /\ Server - (boot + drift) <= Skew + Continuity
                    /\ (boot + drift) - Server <= Skew + 2 * Continuity
  BY DEF EffectIsTimely
<1> USE LimitsAreNat
<1>1. /\ conversation \in Conversation /\ conversation # Absent
      /\ conversation.claimed \in Int /\ execution.rtt \in Nat
  BY DEF CheckExecution, BudgetInv, TypeInv, ExecutionInv, Conversation
<1>2. /\ conversation.start \in Stamp /\ conversation.ready.origin \in Stamp
      /\ conversation.ready.recv \in Stamp
  BY <1>1 DEF Conversation, Readiness
<1>3. boot \in Int /\ drift \in Int /\ ahead \in Int
  BY DEF BudgetInv, TypeInv
<1>4. boot - conversation.start.boot < Lease - Reserve
      /\ boot - conversation.start.boot < execution.rtt + Effect
  BY <1>1, <1>2, <1>3 DEF CheckExecution, Deadline, minimum, Stamp
<1>5. conversation.claimed - ahead >= conversation.start.boot
  BY <1>1 DEF BudgetInv, ConversationInv, ExecutionInv, CheckExecution
<1>6. /\ Server - conversation.claimed < Lease - Reserve
      /\ Server - conversation.claimed < execution.rtt + Effect
  BY <1>1, <1>2, <1>3, <1>4, <1>5 DEF Server, Stamp
<1>7. Vouched(conversation.ready)
  BY <1>1 DEF BudgetInv, ConversationInv
<1>8. (boot + drift) - conversation.ready.origin.wall
        - (boot - conversation.ready.origin.boot) \in (-Continuity) .. Continuity
  BY <1>2, <1>3 DEF CheckExecution, continuous, continuousWithin, Now, Stamp
<1>9. conversation.ready.recv.wall - conversation.ready.origin.wall
        - (conversation.ready.recv.boot - conversation.ready.origin.boot) \in (-Continuity) .. Continuity
  BY <1>2, <1>7 DEF Vouched, continuous, continuousWithin, Stamp
<1>10. /\ Server - (boot + drift) <= Skew + Continuity
       /\ (boot + drift) - Server <= Skew + 2 * Continuity
  BY <1>2, <1>3, <1>7, <1>8, <1>9 DEF Vouched, Server, Stamp
<1> QED BY <1>6, <1>10

(* With the clocks together, the windows of continuity are wide enough:    *)
(* the exchange and the age of the reading are within them.                *)
LEMMA NotEarlyFromInv == BudgetInv => NothingIsRefusedEarly
<1> SUFFICES ASSUME BudgetInv, execution # Absent,
                    lag = conversation.ready.origin.boot - conversation.ready.origin.mono,
                    drift = conversation.ready.origin.wall - conversation.ready.origin.boot
             PROVE  /\ boot < Deadline(conversation.start, execution.rtt) => CheckExecution
                    /\ boot - conversation.start.boot < Lease => CheckReport
  BY DEF NothingIsRefusedEarly
<1> USE LimitsAreNat
<1> DEFINE origin == conversation.ready.origin
<1>1. /\ conversation \in Conversation /\ conversation # Absent /\ execution.rtt \in Nat
  BY DEF BudgetInv, TypeInv, ExecutionInv
<1>2. /\ conversation.start \in Stamp /\ origin \in Stamp /\ conversation.ready.recv \in Stamp
      /\ boot \in Int /\ drift \in Int /\ lag \in Int
  BY <1>1 DEF Conversation, Readiness, BudgetInv, TypeInv
<1>3. /\ continuous(origin, conversation.start)
      /\ conversation.start.boot <= boot
      /\ conversation.start.boot - origin.boot < Control + ReadyAge
      /\ conversation.start.boot >= origin.boot
  BY <1>1, <1>2 DEF BudgetInv, ConversationInv, Vouched, continuous, continuousWithin, Stamp
<1>4. /\ Now.boot - origin.boot = boot - origin.boot
      /\ Now.mono - origin.mono = boot - origin.boot
      /\ Now.wall - origin.wall = boot - origin.boot
  BY <1>2 DEF Now, Stamp
<1>5. boot < Deadline(conversation.start, execution.rtt) => CheckExecution
  <2> SUFFICES ASSUME boot < Deadline(conversation.start, execution.rtt) PROVE CheckExecution
    OBVIOUS
  <2>1. boot - conversation.start.boot < Lease - Reserve
    BY <1>1, <1>2 DEF Deadline, minimum, Stamp
  <2>2. boot - origin.boot \in 0 .. (ReadyAge + Lease)
    BY <1>2, <1>3, <2>1 DEF Stamp
  <2>3. continuous(origin, Now)
    BY <1>2, <1>4, <2>2 DEF continuous, continuousWithin, Stamp
  <2> QED BY <2>3 DEF CheckExecution
<1>6. boot - conversation.start.boot < Lease => CheckReport
  <2> SUFFICES ASSUME boot - conversation.start.boot < Lease PROVE CheckReport
    OBVIOUS
  <2>1. boot - origin.boot \in 0 .. (Control + ReadyAge + Lease)
        /\ boot - origin.boot < Control + ReadyAge + Lease
    BY <1>2, <1>3 DEF Stamp
  <2>2. reportContinuous(origin, Now)
    BY <1>2, <1>4, <2>1 DEF reportContinuous, continuousWithin, Stamp
  <2> QED BY <1>2, <1>3, <2>2 DEF CheckReport, Stamp
<1> QED BY <1>5, <1>6

(* Whatever the clocks do, an effect is only ever allowed within the lease *)
(* less its reserve, and while the wall clock is vouched for (checked).    *)
THEOREM EffectsAreTimely == BudgetSpec => []EffectIsTimely
<1>1. BudgetInit => BudgetInv
  BY InitBudget
<1>2. BudgetInv /\ [BudgetNext]_budgetVars => BudgetInv'
  BY NextBudget
<1>3. BudgetInv => EffectIsTimely
  BY TimelyFromInv
<1> QED BY <1>1, <1>2, <1>3, PTL DEF BudgetSpec

(* Clocks that stay together never cost an action its time: neither an     *)
(* effect nor the report is refused before its own limit                   *)
(* (continuous, reportContinuous).                                         *)
THEOREM NoEarlyRefusal == BudgetSpec => []NothingIsRefusedEarly
<1>1. BudgetInit => BudgetInv
  BY InitBudget
<1>2. BudgetInv /\ [BudgetNext]_budgetVars => BudgetInv'
  BY NextBudget
<1>3. BudgetInv => NothingIsRefusedEarly
  BY NotEarlyFromInv
<1> QED BY <1>1, <1>2, <1>3, PTL DEF BudgetSpec

-----------------------------------------------------------------------------
(* The inductive invariant, part by part.                                  *)
Locking == {"cleantemps", "cleaninstance", "cleanrequest", "write", "publish"}
Running == {"start", "serve", "shutdown", "drain", "stoplogs", "joinlogs", "stophost", "joinhost",
            "closestore"}
Closing == {"close", "closeinstance"}
Places == {"off", "store", "lock", "abandon"} \union Locking \union Running \union Closing
Collectors == {"off", "idle", "busy", "quit", "ending", "done"}
Process ==
  [pc : Places, port : Ports \union {0}, managed : BOOLEAN, nonce : Nat,
   http : {"off", "up", "closed"}, handler : BOOLEAN, host : Collectors, logs : Collectors,
   lock : BOOLEAN, store : {"none", "open", "closed"}, told : BOOLEAN, joined : BOOLEAN,
   unclean : BOOLEAN]
Asker == [pc : {"idle", "read", "write", "publish", "poll"}, nonce : Nat,
          answer : {"none", "wrong", "stopped"}]

(* A process between the publication of its instance and its removal.      *)
Published(r) == r.managed /\ r.pc \in Running \union Closing

(* A borrower whose end was not awaited is on record (joined), and that is *)
(* what CloseStore relies on.                                              *)
Awaited(r) ==
  /\ r.pc \notin {"serve", "shutdown", "drain"} /\ r.joined => ~r.handler
  /\ r.pc \in {"stophost", "joinhost", "closestore"} /\ r.joined => r.logs \in {"off", "done"}
  /\ r.pc = "closestore" /\ r.joined => r.host \in {"off", "done"}

(* What a process may have in use, given the state of its store.           *)
StoreSound(r) ==
  /\ r.store = "none" <=> r.pc \in {"off", "store"}
  /\ r.store = "closed" => r.pc \in Closing \union {"abandon"}
  /\ r.store # "open" => ~r.handler /\ r.host \in {"off", "done"} /\ r.logs \in {"off", "done"}
  /\ r.pc \in {"store", "lock", "start"} \union Locking => ~r.handler /\ r.host = "off" /\ r.logs = "off"
  /\ Awaited(r)

(* A managed process holds the lock of the control directory from the time *)
(* it cleans up to the time it has removed its own files.                  *)
LockSound(r) ==
  /\ r.pc \in {"lock"} \union Locking \union Closing => r.managed
  /\ r.pc \in Locking \/ Published(r) => r.lock
  /\ r.nonce = 0 <=> r.pc = "off"

(* One process at a time has the store open, one holds the lock, and a     *)
(* nonce names one process.                                                *)
Alone ==
  \A p, q \in Procs :
    /\ proc[p].store = "open" /\ proc[q].store = "open" => p = q
    /\ proc[p].lock /\ proc[q].lock => p = q
    /\ proc[p].nonce # 0 /\ proc[p].nonce = proc[q].nonce => p = q

(* What instance.json and the nonce a requester has read say of the        *)
(* process they name.                                                      *)
NonceSound ==
  /\ \A p \in Procs : Published(proc[p]) => instance = proc[p].nonce
  /\ \A p \in Procs : proc[p].nonce # 0 /\ proc[p].nonce \in {instance, asker.nonce} =>
       Published(proc[p]) \/ proc[p].pc = "abandon"
  /\ asker.pc # "idle" \/ asker.answer = "stopped" => asker.nonce # 0
  /\ asker.answer = "stopped" =>
       \A p \in Procs : proc[p].nonce = asker.nonce => proc[p].pc = "abandon"

RuntimeTypes ==
  /\ proc \in [Procs -> Process] /\ asker \in Asker
  /\ starts \in Nat /\ instance \in Nat /\ instance <= starts /\ asker.nonce <= starts
  /\ \A p \in Procs : proc[p].nonce <= starts

RuntimeInv ==
  /\ RuntimeTypes
  /\ \A p \in Procs : StoreSound(proc[p]) /\ LockSound(proc[p])
  /\ Alone /\ NonceSound

-----------------------------------------------------------------------------
(* A process makes a step of its own.  It gives up what it has or takes    *)
(* what nobody has, and changes the publication only under the lock.       *)
LEMMA ProcessMoves ==
  ASSUME RuntimeInv, NEW p \in Procs, NEW r \in Process, proc' = [proc EXCEPT ![p] = r],
         StoreSound(r), LockSound(r), asker' = asker, starts' = starts,
         r.nonce = proc[p].nonce \/ r.nonce = 0,
         r.lock => proc[p].lock \/ \A q \in Procs : ~proc[q].lock,
         r.store = "open" => proc[p].store = "open" \/ \A q \in Procs : proc[q].store # "open",
         Published(proc[p]) => Published(r) \/ r.pc = "abandon" \/ r.nonce = 0,
         proc[p].pc = "abandon" => r.pc = "abandon" \/ r.nonce = 0,
         \/ instance' = instance /\ (Published(r) => Published(proc[p]))
         \/ proc[p].lock /\ instance' = 0 /\ ~Published(r)
         \/ proc[p].lock /\ instance' = r.nonce /\ Published(r)
  PROVE  RuntimeInv'
<1>0. RuntimeTypes /\ Alone /\ NonceSound /\ \A q \in Procs : StoreSound(proc[q]) /\ LockSound(proc[q])
  BY DEF RuntimeInv
<1>1. /\ proc' \in [Procs -> Process] /\ proc'[p] = r
      /\ \A q \in Procs \ {p} : proc'[q] = proc[q]
  BY <1>0 DEF RuntimeTypes
<1>2. \A q \in Procs : StoreSound(proc[q])' /\ LockSound(proc[q])'
  <2>1. ASSUME NEW q \in Procs
        PROVE  StoreSound(proc'[q]) /\ LockSound(proc'[q])
    BY <1>0, <1>1
  <2> QED  BY <2>1 DEF StoreSound, Awaited, LockSound, Published
<1>3. RuntimeTypes'
  <2>1. proc[p].nonce \in Nat /\ proc[p].nonce <= starts /\ r.nonce \in Nat /\ starts \in Nat
    BY <1>0 DEF RuntimeTypes, Process
  <2>2. r.nonce <= starts
    BY <2>1
  <2>3. instance' \in Nat /\ instance' <= starts'
    BY <1>0, <2>1, <2>2 DEF RuntimeTypes
  <2>4. \A q \in Procs : proc'[q].nonce <= starts'
    BY <1>0, <1>1, <2>2 DEF RuntimeTypes
  <2> QED  BY <1>0, <1>1, <2>3, <2>4 DEF RuntimeTypes
<1>4. Alone'
  <2>1. ASSUME NEW q \in Procs \ {p}
        PROVE  /\ ~(r.store = "open" /\ proc[q].store = "open")
               /\ ~(r.lock /\ proc[q].lock)
               /\ r.nonce # 0 => r.nonce # proc[q].nonce
    BY <1>0 DEF Alone
  <2> QED  BY <1>0, <1>1, <2>1 DEF Alone
<1>5. NonceSound'
  <2>1. ASSUME NEW q \in Procs, Published(proc'[q])
        PROVE  instance' = proc'[q].nonce
    <3>1. CASE q = p
      <4>1. r.nonce # 0 /\ r.nonce = proc[p].nonce
        BY <1>1, <2>1, <3>1 DEF LockSound, Published, Running, Closing
      <4> QED  BY <1>0, <1>1, <2>1, <3>1, <4>1 DEF NonceSound
    <3>2. CASE q # p
      <4>1. proc'[q] = proc[q] /\ proc[q].lock /\ instance = proc[q].nonce
        BY <1>0, <1>1, <2>1, <3>2 DEF NonceSound, LockSound
      <4> QED  BY <1>0, <3>2, <4>1 DEF Alone
    <3> QED  BY <3>1, <3>2
  <2>2. ASSUME NEW q \in Procs, proc'[q].nonce # 0, proc'[q].nonce \in {instance', asker.nonce}
        PROVE  Published(proc'[q]) \/ proc'[q].pc = "abandon"
    <3>1. CASE q = p
      BY <1>0, <1>1, <2>2, <3>1 DEF NonceSound
    <3>2. CASE q # p
      <4>1. proc'[q] = proc[q] /\ (r.nonce # 0 => r.nonce # proc[q].nonce)
        BY <1>0, <1>1, <3>2 DEF Alone
      <4> QED  BY <1>0, <2>2, <4>1 DEF NonceSound
    <3> QED  BY <3>1, <3>2
  <2>3. ASSUME asker.answer = "stopped", NEW q \in Procs, proc'[q].nonce = asker.nonce
        PROVE  proc'[q].pc = "abandon"
    BY <1>0, <1>1, <2>3 DEF NonceSound
  <2>4. asker.pc # "idle" \/ asker.answer = "stopped" => asker.nonce # 0
    BY <1>0 DEF NonceSound
  <2> QED  BY <2>1, <2>2, <2>3, <2>4 DEF NonceSound, Published
<1> QED  BY <1>2, <1>3, <1>4, <1>5 DEF RuntimeInv

(* It goes on with the lock and the store as they are.                     *)
Same(r, old) ==
  r.nonce = old.nonce /\ r.managed = old.managed /\ r.lock = old.lock /\ r.store = old.store
LEMMA ProcessGoesOn ==
  ASSUME RuntimeInv, NEW p \in Procs, NEW r \in Process, proc' = [proc EXCEPT ![p] = r],
         Same(r, proc[p]), StoreSound(r), UNCHANGED <<instance, asker, starts>>,
         \/ r.pc = proc[p].pc
         \/ proc[p].pc \in Locking /\ r.pc \in Locking
         \/ proc[p].pc \in Running \ {"closestore"} /\ r.pc \in Running
         \/ proc[p].pc = "close" /\ r.pc = "closeinstance"
  PROVE  RuntimeInv'
<1>1. LockSound(proc[p])
  BY DEF RuntimeInv
<1>2. LockSound(r)
  BY <1>1 DEF LockSound, Published, Same, Locking, Running, Closing
<1>3. (Published(proc[p]) <=> Published(r)) /\ (proc[p].pc = "abandon" => r.pc = "abandon")
  BY DEF Published, Same, Locking, Running, Closing
<1> QED  BY <1>2, <1>3, ProcessMoves, Zenon DEF Same

(* It ends: the manager of the files closes them all.                      *)
LEMMA ProcessExits ==
  ASSUME RuntimeInv, NEW p \in Procs, Exit(p), UNCHANGED <<instance, asker, starts>>
  PROVE  RuntimeInv'
<1>1. NoProc \in Process /\ NoProc.nonce = 0 /\ ~NoProc.lock /\ NoProc.store = "none"
      /\ NoProc.pc = "off"
  BY DEF NoProc, Process, Places, Collectors
<1>2. StoreSound(NoProc) /\ LockSound(NoProc) /\ ~Published(NoProc)
  BY DEF NoProc, StoreSound, Awaited, LockSound, Published, Locking, Running, Closing
<1> QED  BY <1>1, <1>2, ProcessMoves, Zenon DEF Exit

-----------------------------------------------------------------------------
(* The steps of a process up to its publication.                           *)
LEMMA OpenStoreStep ==
  ASSUME RuntimeInv, NEW p \in Procs, OpenStore(p)
  PROVE  RuntimeInv'
<1>1. UNCHANGED <<instance, asker, starts>>
  BY DEF OpenStore, control, removals, Stay, counts
<1>2. CASE \E r \in Procs : proc[r].store = "open"
  BY <1>1, <1>2, ProcessExits DEF OpenStore
<1>3. CASE ~\E r \in Procs : proc[r].store = "open"
  <2>1. PICK pc \in {"lock", "start"} : pc = IF proc[p].managed THEN "lock" ELSE "start"
    OBVIOUS
  <2>2. PICK r : r = [proc[p] EXCEPT !.store = "open", !.pc = pc]
    OBVIOUS
  <2>3. /\ proc' = [proc EXCEPT ![p] = r]
        /\ proc[p] \in Process /\ proc[p].pc = "store" /\ StoreSound(proc[p]) /\ LockSound(proc[p])
    BY <1>3, <2>1, <2>2, Zenon DEF OpenStore, At, RuntimeInv, RuntimeTypes
  <2>4. /\ r \in Process /\ r.store = "open" /\ r.pc = pc /\ r.nonce = proc[p].nonce
        /\ r.managed = proc[p].managed /\ r.lock = proc[p].lock /\ r.handler = proc[p].handler
        /\ r.host = proc[p].host /\ r.logs = proc[p].logs
    BY <2>2, <2>3, Zenon DEF Process, Places, Running
  <2>5. StoreSound(r)
    BY <2>3, <2>4 DEF StoreSound, Awaited, Locking, Closing
  <2>6. LockSound(r) /\ ~Published(r) /\ ~Published(proc[p])
    BY <2>1, <2>3, <2>4 DEF LockSound, Published, Locking, Running, Closing
  <2> QED  BY <1>1, <1>3, <2>3, <2>4, <2>5, <2>6, ProcessMoves, Zenon
<1> QED  BY <1>2, <1>3

LEMMA LockEndpointStep ==
  ASSUME RuntimeInv, NEW p \in Procs, LockEndpoint(p)
  PROVE  RuntimeInv'
<1>1. UNCHANGED <<instance, asker, starts>>
  BY DEF LockEndpoint, control, removals, Stay, counts
<1>2. CASE \E r \in Procs : proc[r].lock
  BY <1>1, <1>2, ProcessExits DEF LockEndpoint
<1>3. CASE ~\E r \in Procs : proc[r].lock
  <2>2. PICK r : r = [proc[p] EXCEPT !.lock = TRUE, !.pc = "cleantemps"]
    OBVIOUS
  <2>3. /\ proc' = [proc EXCEPT ![p] = r]
        /\ proc[p] \in Process /\ proc[p].pc = "lock" /\ StoreSound(proc[p]) /\ LockSound(proc[p])
    BY <1>3, <2>2, Zenon DEF LockEndpoint, At, RuntimeInv, RuntimeTypes
  <2>4. /\ r \in Process /\ r.store = proc[p].store /\ r.pc = "cleantemps"
        /\ r.nonce = proc[p].nonce /\ r.managed = proc[p].managed /\ r.lock = TRUE
        /\ r.handler = proc[p].handler /\ r.host = proc[p].host /\ r.logs = proc[p].logs
    BY <2>2, <2>3, Zenon DEF Process, Places, Locking
  <2>5. StoreSound(r)
    BY <2>3, <2>4 DEF StoreSound, Awaited, Locking, Closing
  <2>6. LockSound(r) /\ ~Published(r) /\ ~Published(proc[p])
    BY <2>3, <2>4 DEF LockSound, Published, Locking, Running, Closing
  <2> QED  BY <1>1, <1>3, <2>3, <2>4, <2>5, <2>6, ProcessMoves, Zenon
<1> QED  BY <1>2, <1>3

(* The record of a process, of which at most the fields of the shutdown    *)
(* change, and one of which only the place changes.                        *)
Moved(r, old, pc) ==
  /\ Same(r, old) /\ r.pc = pc /\ r.handler = old.handler
  /\ r.host = old.host /\ r.logs = old.logs
LEMMA PlaceFields ==
  ASSUME RuntimeInv, NEW p \in Procs, NEW pc \in Places, Goto(p, pc)
  PROVE  \E r \in Process : /\ proc' = [proc EXCEPT ![p] = r]
                            /\ Moved(r, proc[p], pc) /\ r.joined = proc[p].joined
<1>1. PICK r : r = [proc[p] EXCEPT !.pc = pc]
  BY Zenon
<1>2. proc[p] \in Process
  BY DEF RuntimeInv, RuntimeTypes
<1>3. r \in Process /\ Moved(r, proc[p], pc) /\ r.joined = proc[p].joined
  BY <1>1, <1>2 DEF Process, Same, Moved
<1>4. proc' = [proc EXCEPT ![p] = r]
  BY <1>1 DEF Goto
<1> QED  BY <1>3, <1>4, Zenon

LEMMA CleaningStep ==
  ASSUME RuntimeInv, NEW p \in Procs, CleanTemps(p) \/ CleanRequest(p) \/ WriteInstance(p)
  PROVE  RuntimeInv'
<1>1. UNCHANGED <<instance, asker, starts>>
  BY DEF CleanTemps, CleanRequest, WriteInstance, Stay, counts
<1>2. PICK pc \in Locking : Goto(p, pc) /\ proc[p].pc \in Locking
  BY DEF CleanTemps, CleanRequest, WriteInstance, At, Locking
<1>3. PICK r \in Process :
        /\ proc' = [proc EXCEPT ![p] = r]
        /\ Moved(r, proc[p], pc) /\ r.joined = proc[p].joined
  <2>1. pc \in Places
    BY DEF Places
  <2> QED  BY <1>2, <2>1, PlaceFields, Zenon
<1>4. StoreSound(r)
  BY <1>2, <1>3 DEF RuntimeInv, StoreSound, Awaited, Same, Locking, Closing, Moved
<1> QED  BY <1>1, <1>2, <1>3, <1>4, ProcessGoesOn, Zenon DEF Moved

LEMMA CleanInstanceStep ==
  ASSUME RuntimeInv, NEW p \in Procs, CleanInstance(p)
  PROVE  RuntimeInv'
<1>1. instance' = 0 /\ UNCHANGED <<asker, starts>> /\ proc[p].pc = "cleaninstance"
  BY DEF CleanInstance, Stay, counts, At
<1>2. PICK r \in Process :
        /\ proc' = [proc EXCEPT ![p] = r]
        /\ Moved(r, proc[p], "cleanrequest") /\ r.joined = proc[p].joined
  <2>1. "cleanrequest" \in Places /\ Goto(p, "cleanrequest")
    BY DEF CleanInstance, Places, Locking
  <2> QED  BY <2>1, PlaceFields, Zenon
<1>3. StoreSound(r)
  BY <1>1, <1>2 DEF RuntimeInv, StoreSound, Awaited, Same, Locking, Closing, Moved
<1>4. LockSound(r) /\ proc[p].lock /\ ~Published(r) /\ ~Published(proc[p])
  BY <1>1, <1>2 DEF RuntimeInv, LockSound, Published, Same, Locking, Running, Closing, Moved
<1> QED  BY <1>1, <1>2, <1>3, <1>4, ProcessMoves, Zenon DEF Same, Moved

LEMMA PublishInstanceStep ==
  ASSUME RuntimeInv, NEW p \in Procs, PublishInstance(p)
  PROVE  RuntimeInv'
<1>1. UNCHANGED <<asker, starts>> /\ proc[p].pc = "publish"
  BY DEF PublishInstance, Stay, counts, At
<1>2. CASE instance # 0
  BY <1>1, <1>2, ProcessExits DEF PublishInstance
<1>3. CASE instance = 0
  <2>1. PICK r \in Process :
          /\ proc' = [proc EXCEPT ![p] = r]
          /\ Moved(r, proc[p], "start") /\ r.joined = proc[p].joined
    <3>1. "start" \in Places /\ Goto(p, "start")
      BY <1>3 DEF PublishInstance, Places, Running
    <3> QED  BY <3>1, PlaceFields, Zenon
  <2>2. instance' = r.nonce
    BY <1>3, <2>1 DEF PublishInstance, Same, Moved
  <2>3. StoreSound(r)
    BY <1>1, <2>1 DEF RuntimeInv, StoreSound, Awaited, Same, Locking, Closing, Moved
  <2>4. LockSound(r) /\ proc[p].lock /\ Published(r) /\ ~Published(proc[p])
    BY <1>1, <2>1 DEF RuntimeInv, LockSound, Published, Same, Locking, Running, Closing, Moved
  <2> QED  BY <1>1, <2>1, <2>2, <2>3, <2>4, ProcessMoves, Zenon DEF Same, Moved
<1> QED  BY <1>2, <1>3

-----------------------------------------------------------------------------
(* The steps of a process that serves, and of its shutdown.                *)
LEMMA Serving ==
  ASSUME RuntimeInv, NEW p \in Procs
  PROVE  /\ proc[p] \in Process /\ StoreSound(proc[p])
         /\ proc[p].pc \in Running => proc[p].store = "open"
  BY DEF RuntimeInv, RuntimeTypes, StoreSound, Awaited, Process, Running, Closing

LEMMA StartStep ==
  ASSUME RuntimeInv, NEW p \in Procs, Start(p)
  PROVE  RuntimeInv'
<1>1. UNCHANGED <<instance, asker, starts>> /\ proc[p].pc = "start"
  BY DEF Start, control, removals, At
<1>2. proc[p] \in Process /\ StoreSound(proc[p]) /\ proc[p].store = "open"
  BY <1>1, Serving DEF Running
<1>3. CASE proc' = [proc EXCEPT ![p].host = "idle", ![p].logs = "idle", ![p].pc = "serve"]
  <2>1. PICK r : r = [proc[p] EXCEPT !.host = "idle", !.logs = "idle", !.pc = "serve"]
    OBVIOUS
  <2>2. r \in Process /\ Same(r, proc[p]) /\ r.pc = "serve" /\ r.handler = proc[p].handler
    BY <1>2, <2>1, Zenon DEF Process, Same, Places, Running, Collectors
  <2>3. StoreSound(r)
    BY <1>2, <2>2 DEF StoreSound, Awaited, Same, Locking, Closing
  <2>4. proc' = [proc EXCEPT ![p] = r]
    BY <1>3, <2>1, Zenon
  <2> QED  BY <1>1, <2>2, <2>3, <2>4, ProcessGoesOn, Zenon DEF Running
<1>4. CASE proc' = [proc EXCEPT ![p].host = "idle", ![p].unclean = TRUE, ![p].pc = "stoplogs"]
  <2>1. PICK r : r = [proc[p] EXCEPT !.host = "idle", !.unclean = TRUE, !.pc = "stoplogs"]
    OBVIOUS
  <2>2. r \in Process /\ Same(r, proc[p]) /\ r.pc = "stoplogs" /\ r.handler = proc[p].handler
    BY <1>2, <2>1, Zenon DEF Process, Same, Places, Running, Collectors
  <2>3. StoreSound(r)
    BY <1>1, <1>2, <2>2 DEF StoreSound, Awaited, Same, Locking, Closing
  <2>4. proc' = [proc EXCEPT ![p] = r]
    BY <1>4, <2>1, Zenon
  <2> QED  BY <1>1, <2>2, <2>3, <2>4, ProcessGoesOn, Zenon DEF Running
<1>5. CASE proc' = [proc EXCEPT ![p].store = "closed", ![p].unclean = TRUE, ![p].pc = "abandon"]
  <2>1. PICK r : r = [proc[p] EXCEPT !.store = "closed", !.unclean = TRUE, !.pc = "abandon"]
    OBVIOUS
  <2>2. /\ r \in Process /\ r.pc = "abandon" /\ r.store = "closed" /\ r.nonce = proc[p].nonce
        /\ r.managed = proc[p].managed /\ r.lock = proc[p].lock
        /\ r.handler = proc[p].handler /\ r.host = proc[p].host /\ r.logs = proc[p].logs
    BY <1>2, <2>1, Zenon DEF Process, Places
  <2>3. StoreSound(r)
    BY <1>1, <1>2, <2>2 DEF StoreSound, Awaited, Locking, Closing
  <2>4. LockSound(r) /\ ~Published(r)
    BY <1>1, <2>2 DEF RuntimeInv, LockSound, Published, Locking, Running, Closing
  <2>5. proc' = [proc EXCEPT ![p] = r]
    BY <1>5, <2>1, Zenon
  <2> QED  BY <1>1, <1>2, <2>2, <2>3, <2>4, <2>5, ProcessMoves, Zenon
<1> QED  BY <1>3, <1>4, <1>5 DEF Start

LEMMA HandleStep ==
  ASSUME RuntimeInv, NEW p \in Procs, Handle(p)
  PROVE  RuntimeInv'
<1>1. UNCHANGED <<instance, asker, starts>>
  BY DEF Handle, control, removals, Stay, counts
<1>2. PICK b \in BOOLEAN : /\ proc' = [proc EXCEPT ![p].handler = b]
                           /\ b => proc[p].pc = "serve"
  BY Zenon DEF Handle, At
<1>3. /\ proc[p] \in Process /\ StoreSound(proc[p])
      /\ proc[p].pc = "serve" => proc[p].store = "open"
  BY Serving DEF Running
<1>4. PICK r : r = [proc[p] EXCEPT !.handler = b]
  BY Zenon
<1>5. /\ r \in Process /\ Same(r, proc[p]) /\ r.pc = proc[p].pc /\ r.handler = b
      /\ r.host = proc[p].host /\ r.logs = proc[p].logs /\ r.joined = proc[p].joined
  BY <1>3, <1>4 DEF Process, Same
<1>6. StoreSound(r)
  BY <1>2, <1>3, <1>5 DEF StoreSound, Awaited, Same, Locking
<1>7. proc' = [proc EXCEPT ![p] = r]
  BY <1>2, <1>4
<1> QED  BY <1>1, <1>5, <1>6, <1>7, ProcessGoesOn, Zenon

LEMMA CollectStep ==
  ASSUME RuntimeInv, NEW p \in Procs, Collect(p)
  PROVE  RuntimeInv'
<1>1. UNCHANGED <<instance, asker, starts>>
  BY DEF Collect, control, removals, Stay, counts
<1>2. proc[p] \in Process /\ StoreSound(proc[p])
  BY Serving
<1>3. ASSUME NEW t \in {"idle", "busy", "ending", "done"}, CollectorStep(proc[p].host, t),
             proc' = [proc EXCEPT ![p].host = t]
      PROVE  RuntimeInv'
  <2>1. PICK r : r = [proc[p] EXCEPT !.host = t]
    BY Zenon
  <2>2. /\ r \in Process /\ Same(r, proc[p]) /\ r.pc = proc[p].pc /\ r.host = t
        /\ r.logs = proc[p].logs /\ r.handler = proc[p].handler /\ r.joined = proc[p].joined
    BY <1>2, <2>1 DEF Process, Same, Collectors
  <2>3. proc[p].host \notin {"off", "done"}
    BY <1>3 DEF CollectorStep
  <2>4. StoreSound(r)
    BY <1>2, <2>2, <2>3 DEF StoreSound, Awaited, Same, Locking
  <2>5. proc' = [proc EXCEPT ![p] = r]
    BY <1>3, <2>1
  <2> QED  BY <1>1, <2>2, <2>4, <2>5, ProcessGoesOn, Zenon
<1>4. ASSUME NEW t \in {"idle", "busy", "ending", "done"}, CollectorStep(proc[p].logs, t),
             proc' = [proc EXCEPT ![p].logs = t]
      PROVE  RuntimeInv'
  <2>1. PICK r : r = [proc[p] EXCEPT !.logs = t]
    BY Zenon
  <2>2. /\ r \in Process /\ Same(r, proc[p]) /\ r.pc = proc[p].pc /\ r.logs = t
        /\ r.host = proc[p].host /\ r.handler = proc[p].handler /\ r.joined = proc[p].joined
    BY <1>2, <2>1 DEF Process, Same, Collectors
  <2>3. proc[p].logs \notin {"off", "done"}
    BY <1>4 DEF CollectorStep
  <2>4. StoreSound(r)
    BY <1>2, <2>2, <2>3 DEF StoreSound, Awaited, Same, Locking
  <2>5. proc' = [proc EXCEPT ![p] = r]
    BY <1>4, <2>1
  <2> QED  BY <1>1, <2>2, <2>4, <2>5, ProcessGoesOn, Zenon
<1> QED  BY <1>3, <1>4 DEF Collect

(* From the end of serving to the decision about the store.                *)
LEMMA ShuttingDown ==
  ASSUME RuntimeInv, NEW p \in Procs, NEW r \in Process, proc' = [proc EXCEPT ![p] = r],
         UNCHANGED <<instance, asker, starts>>, Same(r, proc[p]),
         proc[p].pc \in Running \ {"closestore"}, r.pc \in Running \ {"start"},
         Awaited(r)
  PROVE  RuntimeInv'
<1>1. r.store = "open"
  BY Serving DEF Same
<1>2. StoreSound(r)
  BY <1>1 DEF StoreSound, Awaited, Running, Locking, Closing
<1> QED  BY <1>2, ProcessGoesOn, Zenon

LEMMA EndedStep ==
  ASSUME RuntimeInv, NEW p \in Procs, StopTaken(p) \/ Ended(p) \/ Shutdown(p) \/ Drain(p)
  PROVE  RuntimeInv'
<1>1. UNCHANGED <<instance, asker, starts>> /\ proc[p].pc \in {"serve", "shutdown", "drain"}
  BY DEF StopTaken, Ended, Shutdown, Drain, control, removals, Stay, counts, At
<1>2. proc[p] \in Process
  BY Serving
<1> DEFINE Moves ==
        \E r \in Process, pc \in {"shutdown", "drain", "stoplogs"} :
          /\ proc' = [proc EXCEPT ![p] = r] /\ Moved(r, proc[p], pc)
          /\ pc = "stoplogs" /\ r.joined => ~r.handler
<1>3. Moves
  <2>1. ASSUME NEW pc \in {"shutdown", "stoplogs"}, Goto(p, pc), pc = "stoplogs" => ~proc[p].handler
        PROVE  Moves
    <3>1. pc \in Places
      BY DEF Places, Running
    <3> QED  BY <2>1, <3>1, PlaceFields DEF Moved
  <2>2. CASE proc' = [proc EXCEPT ![p].unclean = TRUE, ![p].pc = "shutdown"]
    <3>1. PICK r : r = [proc[p] EXCEPT !.unclean = TRUE, !.pc = "shutdown"]
      OBVIOUS
    <3>2. r \in Process /\ Moved(r, proc[p], "shutdown")
      BY <1>2, <3>1, Zenon DEF Process, Same, Moved, Places, Running
    <3> QED  BY <2>2, <3>1, <3>2, Zenon
  <2>3. CASE Shutdown(p)
    <3>1. PICK r : r = [proc[p] EXCEPT !.http = "closed", !.pc = "drain"]
      OBVIOUS
    <3>2. r \in Process /\ Moved(r, proc[p], "drain")
      BY <1>2, <3>1, Zenon DEF Process, Same, Moved, Places, Running
    <3> QED  BY <2>3, <3>1, <3>2, Zenon DEF Shutdown
  <2>4. CASE proc' = [proc EXCEPT ![p].joined = FALSE, ![p].unclean = TRUE, ![p].pc = "stoplogs"]
    <3>1. PICK r : r = [proc[p] EXCEPT !.joined = FALSE, !.unclean = TRUE, !.pc = "stoplogs"]
      OBVIOUS
    <3>2. r \in Process /\ Moved(r, proc[p], "stoplogs") /\ ~r.joined
      BY <1>2, <3>1, Zenon DEF Process, Same, Moved, Places, Running
    <3> QED  BY <2>4, <3>1, <3>2, Zenon
  <2> QED  BY <2>1, <2>2, <2>3, <2>4, Zenon DEF StopTaken, Ended, Drain
<1>4. ASSUME NEW r \in Process, r.pc \in {"shutdown", "drain", "stoplogs"},
             r.pc = "stoplogs" /\ r.joined => ~r.handler
      PROVE  Awaited(r)
  BY <1>4 DEF Awaited
<1> QED  BY <1>1, <1>3, <1>4, ShuttingDown, Zenon DEF Running, Moved

LEMMA WatchStep ==
  ASSUME RuntimeInv, NEW p \in Procs, Watch(p)
  PROVE  RuntimeInv'
<1>1. UNCHANGED <<instance, asker, starts>> /\ proc' = [proc EXCEPT ![p].told = TRUE]
  BY DEF Watch, removals, Stay, counts
<1>2. proc[p] \in Process /\ StoreSound(proc[p])
  BY Serving
<1>3. PICK r : r = [proc[p] EXCEPT !.told = TRUE]
  BY Zenon
<1>4. r \in Process /\ Moved(r, proc[p], proc[p].pc) /\ r.joined = proc[p].joined
  BY <1>2, <1>3, Zenon DEF Process, Same, Moved
<1>5. proc' = [proc EXCEPT ![p] = r]
  BY <1>1, <1>3, Zenon
<1>6. StoreSound(r)
  BY <1>2, <1>4, Zenon DEF StoreSound, Awaited, Same, Moved
<1> QED  BY <1>1, <1>4, <1>5, <1>6, ProcessGoesOn, Zenon DEF Moved

LEMMA StoppingStep ==
  ASSUME RuntimeInv, NEW p \in Procs,
         CancelLogs(p) \/ JoinLogs(p) \/ CancelHost(p) \/ JoinHost(p)
  PROVE  RuntimeInv'
<1>1. /\ UNCHANGED <<instance, asker, starts>>
      /\ proc[p].pc \in {"stoplogs", "joinlogs", "stophost", "joinhost"}
  BY DEF CancelLogs, JoinLogs, CancelHost, JoinHost, Join, control, removals, Stay, counts, At
<1>2. proc[p] \in Process /\ StoreSound(proc[p])
  BY Serving
<1> DEFINE Moves ==
        \E r \in Process : /\ proc' = [proc EXCEPT ![p] = r]
                           /\ r.pc \in {"joinlogs", "stophost", "joinhost", "closestore"}
                           /\ Same(r, proc[p]) /\ Awaited(r)
<1>3. Moves
  <2>1. \A c \in Collectors : Cancelled(c) \in Collectors
    BY DEF Cancelled, Collectors
  <2>2. CASE CancelLogs(p)
    <3>1. PICK c \in Collectors : c = Cancelled(proc[p].logs)
      BY <1>2, <2>1 DEF Process
    <3>2. PICK r : r = [proc[p] EXCEPT !.logs = c, !.pc = "joinlogs"]
      OBVIOUS
    <3>3. /\ r \in Process /\ Same(r, proc[p]) /\ r.pc = "joinlogs"
          /\ r.handler = proc[p].handler /\ r.joined = proc[p].joined
      BY <1>2, <3>2, Zenon DEF Process, Same, Places, Running
    <3>4. Awaited(r)
      BY <1>1, <1>2, <3>3, Zenon DEF StoreSound, Awaited
    <3> QED  BY <2>2, <3>1, <3>2, <3>3, <3>4, Zenon DEF CancelLogs
  <2>3. CASE CancelHost(p)
    <3>1. PICK c \in Collectors : c = Cancelled(proc[p].host)
      BY <1>2, <2>1, Zenon DEF Process
    <3>2. PICK r : r = [proc[p] EXCEPT !.host = c, !.pc = "joinhost"]
      OBVIOUS
    <3>3. /\ r \in Process /\ Same(r, proc[p]) /\ r.pc = "joinhost" /\ r.logs = proc[p].logs
          /\ r.handler = proc[p].handler /\ r.joined = proc[p].joined
      BY <1>2, <3>2, Zenon DEF Process, Same, Places, Running
    <3>4. proc[p].pc = "stophost"
      BY <2>3 DEF CancelHost, At
    <3>5. Awaited(r)
      BY <1>2, <3>3, <3>4 DEF StoreSound, Awaited
    <3> QED  BY <2>3, <3>1, <3>2, <3>3, <3>5, Zenon DEF CancelHost
  <2>4. ASSUME NEW c, NEW pc \in {"stophost", "closestore"}, Join(p, c, pc),
               \/ pc = "stophost" /\ c = proc[p].logs
               \/ pc = "closestore" /\ c = proc[p].host /\ proc[p].pc = "joinhost"
        PROVE  Moves
    <3>0. pc \in Places
      BY DEF Places, Running
    <3>1. CASE c \in {"done", "off"}
      <4>1. PICK r \in Process : /\ proc' = [proc EXCEPT ![p] = r]
                                /\ Moved(r, proc[p], pc) /\ r.joined = proc[p].joined
        BY <2>4, <3>0, <3>1, PlaceFields, Zenon DEF Join
      <4>2. Awaited(r)
        BY <1>1, <1>2, <2>4, <3>1, <4>1, Zenon DEF StoreSound, Awaited, Moved
      <4> QED  BY <4>1, <4>2, Zenon DEF Moved
    <3>2. CASE c \notin {"done", "off"}
      <4>1. PICK r : r = [proc[p] EXCEPT !.joined = FALSE, !.unclean = TRUE, !.pc = pc]
        OBVIOUS
      <4>2. r \in Process /\ Same(r, proc[p]) /\ r.pc = pc /\ ~r.joined
        BY <1>2, <3>0, <4>1, Zenon DEF Process, Same
      <4>3. Awaited(r)
        BY <4>2 DEF Awaited
      <4> QED  BY <2>4, <3>2, <4>1, <4>2, <4>3, Zenon DEF Join
    <3> QED  BY <3>1, <3>2
  <2> QED  BY <2>2, <2>3, <2>4 DEF JoinLogs, JoinHost, At
<1> QED  BY <1>1, <1>3, ShuttingDown, Zenon DEF Running

-----------------------------------------------------------------------------
(* The end of a process.                                                   *)
LEMMA CloseStoreStep ==
  ASSUME RuntimeInv, NEW p \in Procs, CloseStore(p)
  PROVE  RuntimeInv'
<1>1. UNCHANGED <<instance, asker, starts>> /\ proc[p].pc = "closestore"
  BY DEF CloseStore, control, removals, Stay, counts, At
<1>2. proc[p] \in Process /\ StoreSound(proc[p]) /\ LockSound(proc[p]) /\ proc[p].store = "open"
  BY <1>1, Serving DEF Running, RuntimeInv
<1>3. PICK pc \in {"close", "abandon"}, st \in {"open", "closed"} :
        /\ proc' = [proc EXCEPT ![p].store = st, ![p].pc = pc]
        /\ pc = "close" => proc[p].managed
        /\ st = "closed" => proc[p].joined
  BY <1>2, Zenon DEF CloseStore, Closes
<1>4. PICK r : r = [proc[p] EXCEPT !.store = st, !.pc = pc]
  OBVIOUS
<1>5. /\ r \in Process /\ r.pc = pc /\ r.store = st /\ r.nonce = proc[p].nonce
      /\ r.managed = proc[p].managed /\ r.lock = proc[p].lock /\ r.joined = proc[p].joined
      /\ r.handler = proc[p].handler /\ r.host = proc[p].host /\ r.logs = proc[p].logs
  BY <1>2, <1>4, Zenon DEF Process, Places, Closing
<1>6. proc' = [proc EXCEPT ![p] = r]
  BY <1>3, <1>4, Zenon
<1>7. StoreSound(r)
  BY <1>1, <1>2, <1>3, <1>5 DEF StoreSound, Awaited, Locking, Closing
<1>8. /\ LockSound(r) /\ (Published(r) => Published(proc[p]))
      /\ (Published(proc[p]) => Published(r) \/ r.pc = "abandon")
  BY <1>1, <1>2, <1>3, <1>5 DEF LockSound, Published, Locking, Running, Closing
<1> QED  BY <1>1, <1>2, <1>5, <1>6, <1>7, <1>8, ProcessMoves, Zenon

LEMMA CloseEndpointStep ==
  ASSUME RuntimeInv, NEW p \in Procs, CloseRequest(p) \/ CloseInstance(p)
  PROVE  RuntimeInv'
<1>1. UNCHANGED <<asker, starts>>
  BY Zenon DEF CloseRequest, CloseInstance, Stay, counts
<1>2. StoreSound(proc[p]) /\ LockSound(proc[p])
  BY DEF RuntimeInv
<1>3. CASE CloseRequest(p)
  <2>1. PICK r \in Process :
          /\ proc' = [proc EXCEPT ![p] = r]
          /\ Moved(r, proc[p], "closeinstance") /\ r.joined = proc[p].joined
    <3>1. "closeinstance" \in Places /\ Goto(p, "closeinstance")
      BY <1>3 DEF CloseRequest, Places, Closing
    <3> QED  BY <3>1, PlaceFields, Zenon
  <2>2. proc[p].pc = "close" /\ instance' = instance
    BY <1>3 DEF CloseRequest, At
  <2>3. StoreSound(r)
    BY <1>2, <2>1, <2>2 DEF StoreSound, Awaited, Same, Locking, Closing, Moved
  <2> QED  BY <1>1, <2>1, <2>2, <2>3, ProcessGoesOn, Zenon DEF Moved
<1>4. CASE CloseInstance(p)
  <2>1. PICK r \in Process :
          /\ proc' = [proc EXCEPT ![p] = r]
          /\ Moved(r, proc[p], "abandon") /\ r.joined = proc[p].joined
    <3>1. "abandon" \in Places /\ Goto(p, "abandon")
      BY <1>4, Zenon DEF CloseInstance, Places
    <3> QED  BY <3>1, PlaceFields, Zenon
  <2>2. proc[p].pc = "closeinstance"
    BY <1>4, Zenon DEF CloseInstance, At
  <2>3. Published(proc[p]) /\ proc[p].lock
    BY <1>2, <2>2, Zenon DEF LockSound, Published, Closing
  <2>4. instance' \in {0, instance}
    BY <1>4 DEF CloseInstance
  <2>5. StoreSound(r)
    BY <1>2, <2>1, <2>2 DEF StoreSound, Awaited, Same, Locking, Closing, Moved
  <2>6. LockSound(r) /\ ~Published(r)
    BY <1>2, <2>1, <2>2 DEF LockSound, Published, Same, Locking, Running, Closing, Moved
  <2> QED  BY <1>1, <2>1, <2>2, <2>3, <2>4, <2>5, <2>6, ProcessMoves, Zenon DEF Same, Moved
<1> QED  BY <1>3, <1>4

LEMMA EndStep ==
  ASSUME RuntimeInv, NEW p \in Procs, Abandon(p) \/ Crash(p)
  PROVE  RuntimeInv'
<1>1. Exit(p) /\ UNCHANGED <<instance, asker, starts>>
  BY DEF Abandon, Crash, control, removals, Stay, counts
<1> QED  BY <1>1, ProcessExits

(* A process starts, with a nonce nobody had.                              *)
LEMMA ListenStep ==
  ASSUME RuntimeInv, NEW p \in Procs, NEW port \in Ports, NEW managed \in BOOLEAN,
         Listen(p, port, managed)
  PROVE  RuntimeInv'
<1>0. RuntimeTypes /\ Alone /\ NonceSound /\ \A q \in Procs : StoreSound(proc[q]) /\ LockSound(proc[q])
  BY DEF RuntimeInv
<1>1. UNCHANGED <<instance, asker>> /\ proc[p].pc = "off" /\ starts' = starts + 1
  BY DEF Listen, control, removals, At
<1>2. PICK n \in Nat : n = starts + 1 /\ n # 0
  BY <1>0 DEF RuntimeTypes
<1>3. PICK r : r = [NoProc EXCEPT !.pc = "store", !.port = port, !.managed = managed, !.http = "up",
                                  !.nonce = n]
  OBVIOUS
<1>4. /\ r \in Process /\ r.pc = "store" /\ r.nonce = n /\ r.managed = managed /\ ~r.lock
      /\ r.store = "none" /\ ~r.handler /\ r.host = "off" /\ r.logs = "off"
  BY <1>3, Zenon DEF NoProc, Process, Places, Collectors
<1>5. proc' = [proc EXCEPT ![p] = r]
  BY <1>2, <1>3 DEF Listen
<1>6. StoreSound(r) /\ LockSound(r) /\ ~Published(r)
  BY <1>2, <1>4 DEF StoreSound, Awaited, LockSound, Published, Locking, Running, Closing
<1>7. /\ proc' \in [Procs -> Process] /\ proc'[p] = r
      /\ \A q \in Procs \ {p} : proc'[q] = proc[q]
  BY <1>0, <1>4, <1>5 DEF RuntimeTypes
<1>8. \A q \in Procs : StoreSound(proc[q])' /\ LockSound(proc[q])'
  <2>1. ASSUME NEW q \in Procs
        PROVE  StoreSound(proc'[q]) /\ LockSound(proc'[q])
    BY <1>0, <1>6, <1>7, Zenon
  <2> QED  BY <2>1, Zenon DEF StoreSound, Awaited, LockSound, Published
<1>9. /\ \A q \in Procs : proc[q].nonce # n
      /\ instance # n /\ asker.nonce # n
  <2>1. \A q \in Procs : proc[q].nonce \in Nat /\ proc[q].nonce <= starts
    BY <1>0 DEF RuntimeTypes, Process
  <2>2. asker.nonce \in Nat /\ asker.nonce <= starts /\ instance \in Nat /\ instance <= starts
    BY <1>0 DEF RuntimeTypes, Asker
  <2>3. starts \in Nat
    BY <1>0 DEF RuntimeTypes
  <2> QED  BY <1>2, <2>1, <2>2, <2>3
<1>10. RuntimeTypes'
  <2>1. \A q \in Procs : proc[q].nonce \in Nat /\ proc[q].nonce <= starts
    BY <1>0 DEF RuntimeTypes, Process
  <2>2. starts \in Nat /\ starts' \in Nat /\ starts <= starts' /\ n = starts'
    BY <1>0, <1>1, <1>2 DEF RuntimeTypes
  <2>3. \A q \in Procs : proc'[q].nonce <= starts'
    BY <1>4, <1>7, <2>1, <2>2
  <2>4. asker' \in Asker /\ instance' \in Nat /\ instance' <= starts' /\ asker'.nonce <= starts'
    BY <1>0, <1>1, <2>2 DEF RuntimeTypes, Asker
  <2> QED  BY <1>7, <2>2, <2>3, <2>4 DEF RuntimeTypes
<1>11. Alone'
  <2>1. r.store # "open" /\ ~r.lock /\ \A q \in Procs : proc[q].nonce # r.nonce
    BY <1>4, <1>9, Zenon
  <2>2. \A q \in Procs : q # p => proc'[q] = proc[q]
    BY <1>7, Zenon
  <2>3. \A q \in Procs : proc'[q].store = "open" \/ proc'[q].lock => q # p
    BY <1>7, <2>1, Zenon
  <2>4. \A q, t \in Procs : /\ proc'[q].store = "open" /\ proc'[t].store = "open" => q = t
                            /\ proc'[q].lock /\ proc'[t].lock => q = t
    BY <1>0, <2>2, <2>3, Zenon DEF Alone
  <2>5. ASSUME NEW q \in Procs, NEW t \in Procs,
               proc'[q].nonce # 0, proc'[q].nonce = proc'[t].nonce
        PROVE  q = t
    <3>1. CASE q # p /\ t # p
      BY <1>0, <2>2, <2>5, <3>1, Zenon DEF Alone
    <3>2. CASE q = p /\ t # p
      BY <1>7, <2>1, <2>2, <2>5, <3>2, Zenon
    <3>3. CASE q # p /\ t = p
      BY <1>7, <2>1, <2>2, <2>5, <3>3, Zenon
    <3> QED  BY <3>1, <3>2, <3>3, Zenon
  <2> QED  BY <2>4, <2>5, Zenon DEF Alone
<1>12. NonceSound'
  <2>1. \A q \in Procs : Published(proc'[q]) => q # p /\ Published(proc[q]) /\ proc'[q] = proc[q]
    BY <1>6, <1>7
  <2>2. \A q \in Procs : proc'[q].nonce # 0 /\ proc'[q].nonce \in {instance, asker.nonce} =>
          proc'[q] = proc[q]
    BY <1>4, <1>7, <1>9
  <2> QED  BY <1>0, <1>1, <2>1, <2>2, Zenon DEF NonceSound, Published
<1> QED  BY <1>8, <1>10, <1>11, <1>12 DEF RuntimeInv

-----------------------------------------------------------------------------
(* The requester, who changes no process and no publication.               *)
LEMMA AskerMoves ==
  ASSUME RuntimeInv, UNCHANGED <<proc, instance, starts>>, asker' \in Asker,
         asker'.nonce \in {0, instance, asker.nonce},
         asker'.pc # "idle" \/ asker'.answer = "stopped" => asker'.nonce # 0,
         asker'.answer = "stopped" =>
           \A p \in Procs : proc[p].nonce = asker'.nonce => proc[p].pc = "abandon"
  PROVE  RuntimeInv'
<1>1. RuntimeTypes'
  <2>1. asker'.nonce <= starts
    BY DEF RuntimeInv, RuntimeTypes
  <2> QED  BY <2>1 DEF RuntimeInv, RuntimeTypes
<1>2. NonceSound'
  BY Zenon DEF RuntimeInv, NonceSound, Published
<1> QED  BY <1>1, <1>2, ZenonT(30) DEF RuntimeInv, Alone, StoreSound, Awaited, LockSound, Published

LEMMA AskerAsks ==
  ASSUME asker \in Asker, AskRead \/ AskWrite \/ AskPublish
  PROVE  asker' \in Asker /\ asker'.nonce = asker.nonce /\ asker'.answer \in {"none", "wrong", asker.answer}
<1>1. CASE AskRead
  <2>1. PICK pc \in {"idle", "write", "poll"}, ans \in {"none", "wrong"} :
          \/ asker' = [asker EXCEPT !.pc = pc]
          \/ asker' = [asker EXCEPT !.pc = pc, !.answer = ans]
    BY <1>1, Zenon DEF AskRead
  <2> QED  BY <2>1, Zenon DEF Asker
<1>2. CASE AskWrite
  BY <1>2 DEF AskWrite, Asker
<1>3. CASE AskPublish
  <2>1. PICK pc \in {"idle", "poll"}, ans \in {"none", "wrong"} :
          asker' = [asker EXCEPT !.pc = pc, !.answer = ans]
    BY <1>3, Zenon DEF AskPublish
  <2> QED  BY <2>1, Zenon DEF Asker
<1> QED  BY <1>1, <1>2, <1>3

LEMMA AskStep ==
  ASSUME RuntimeInv, Requester
  PROVE  RuntimeInv'
<1>0. /\ asker \in Asker /\ NonceSound /\ instance \in Nat
      /\ UNCHANGED <<proc, instance, starts>>
  BY DEF RuntimeInv, RuntimeTypes, Requester, Ask, AskRead, AskWrite, AskPublish, AskPoll, AskEnds,
         control, removals, counts
<1>1. CASE Ask
  <2>1. /\ asker' \in Asker /\ asker'.nonce = instance /\ instance # 0 /\ asker'.answer = "none"
    BY <1>0, <1>1 DEF Ask, Asker
  <2> QED  BY <1>0, <2>1, AskerMoves
<1>2. CASE AskRead \/ AskWrite \/ AskPublish
  <2>1. asker' \in Asker /\ asker'.nonce = asker.nonce /\ asker'.answer \in {"none", "wrong", asker.answer}
    BY <1>0, <1>2, AskerAsks
  <2>2. asker.nonce # 0
    BY <1>0, <1>2 DEF NonceSound, AskRead, AskWrite, AskPublish
  <2> QED  BY <1>0, <2>1, <2>2, AskerMoves DEF NonceSound
<1>3. CASE AskPoll
  <2>1. /\ asker' \in Asker /\ asker'.nonce = asker.nonce /\ asker.nonce # 0
        /\ asker'.pc = "idle" /\ (asker'.answer = "stopped" => instance = 0)
    BY <1>0, <1>3, Zenon DEF AskPoll, Asker, NonceSound
  <2>2. ASSUME instance = 0, NEW p \in Procs, proc[p].nonce = asker.nonce
        PROVE  proc[p].pc = "abandon"
    BY <1>0, <2>1, <2>2 DEF NonceSound
  <2> QED  BY <1>0, <2>1, <2>2, AskerMoves
<1>4. CASE AskEnds
  <2>1. asker' = NoAsker
    BY <1>4 DEF AskEnds
  <2>2. asker' \in Asker /\ asker'.nonce = 0 /\ asker'.pc = "idle" /\ asker'.answer = "none"
    BY <2>1 DEF NoAsker, Asker
  <2> QED  BY <1>0, <2>2, AskerMoves
<1> QED  BY <1>1, <1>2, <1>3, <1>4 DEF Requester

-----------------------------------------------------------------------------
LEMMA RuntimeInitially == RuntimeInit => RuntimeInv
<1> SUFFICES ASSUME RuntimeInit
             PROVE  RuntimeInv
  OBVIOUS
<1>1. /\ NoProc \in Process /\ NoProc.nonce = 0 /\ ~NoProc.lock /\ NoProc.store = "none"
      /\ NoAsker \in Asker /\ NoAsker.nonce = 0 /\ NoAsker.pc = "idle" /\ NoAsker.answer = "none"
  BY SMTT(20) DEF NoProc, Process, Places, Collectors, NoAsker, Asker
<1>2. StoreSound(NoProc) /\ LockSound(NoProc) /\ ~Published(NoProc)
  BY Zenon DEF NoProc, StoreSound, Awaited, LockSound, Published, Locking, Running, Closing
<1>3. \A p \in Procs : proc[p] = NoProc
  BY DEF RuntimeInit
<1>4. RuntimeTypes /\ Alone /\ NonceSound
  BY <1>1, <1>2, <1>3 DEF RuntimeInit, RuntimeTypes, Alone, NonceSound
<1> QED  BY <1>2, <1>3, <1>4 DEF RuntimeInv

LEMMA RuntimeStep ==
  ASSUME RuntimeInv, [RuntimeNext]_rvars
  PROVE  RuntimeInv'
<1>1. ASSUME NEW p \in Procs, NEW port \in Ports, NEW managed \in BOOLEAN, Listen(p, port, managed)
      PROVE  RuntimeInv'
  BY <1>1, ListenStep
<1>2. ASSUME NEW p \in Procs, Proceed(p)
      PROVE  RuntimeInv'
  BY <1>2, OpenStoreStep, LockEndpointStep, CleaningStep, CleanInstanceStep, PublishInstanceStep,
     StartStep, EndedStep, StoppingStep, CloseStoreStep, CloseEndpointStep, EndStep DEF Proceed
<1>3. ASSUME NEW p \in Procs, Handle(p) \/ Collect(p) \/ Watch(p) \/ Ended(p) \/ Crash(p)
      PROVE  RuntimeInv'
  BY <1>3, HandleStep, CollectStep, WatchStep, EndedStep, EndStep
<1>4. CASE Requester
  BY <1>4, AskStep
<1>5. CASE UNCHANGED rvars
  BY <1>5, ZenonT(30) DEF rvars, RuntimeInv, RuntimeTypes, Alone, NonceSound, StoreSound, Awaited, LockSound, Published
<1> QED  BY <1>1, <1>2, <1>3, <1>4, <1>5 DEF RuntimeNext

(* In every reachable state: what each process has in use at its place,    *)
(* who holds the store and the lock, and what a published nonce names.     *)
THEOREM RuntimeInvariantHolds == RuntimeSpec => []RuntimeInv
  BY RuntimeInitially, RuntimeStep, PTL DEF RuntimeSpec

(* What a requester waits for is published, or was removed by its own      *)
(* process or by a later one.                                              *)
Removed == closed \union replaced
RemovedInv ==
  /\ asker.pc # "idle" => asker.nonce \in Removed \union {instance}
  /\ asker.answer = "stopped" => asker.nonce \in Removed

LEMMA RemovedStep ==
  ASSUME RuntimeInv, RemovedInv, [RuntimeNext]_rvars
  PROVE  RemovedInv'
<1> DEFINE Kept == /\ closed \subseteq closed' /\ replaced \subseteq replaced'
                   /\ instance # 0 /\ instance' # instance => instance \in Removed'
<1>0. asker \in Asker /\ (asker.pc # "idle" \/ asker.answer = "stopped" => asker.nonce # 0)
  BY DEF RuntimeInv, RuntimeTypes, NonceSound
<1>1. ASSUME NEW p \in Procs,
             \/ \E port \in Ports, managed \in BOOLEAN : Listen(p, port, managed)
             \/ Proceed(p) \/ Handle(p) \/ Collect(p) \/ Watch(p) \/ Ended(p) \/ Crash(p)
      PROVE  RemovedInv'
  <2>1. asker' = asker /\ Kept
    <3>1. CASE CleanInstance(p)
      BY <3>1 DEF CleanInstance, Stay, Removed
    <3>2. CASE CloseInstance(p)
      BY <3>2 DEF CloseInstance, Removed
    <3>3. CASE PublishInstance(p)
      BY <3>3 DEF PublishInstance, Stay, removals, Removed
    <3> DEFINE Other == UNCHANGED <<asker, instance, closed, replaced>>
    <3>4. CASE \/ \E port \in Ports, managed \in BOOLEAN : Listen(p, port, managed)
               \/ Handle(p) \/ Collect(p) \/ Watch(p) \/ Ended(p) \/ Crash(p)
      <4>1. Other
        BY <3>4, Zenon DEF Listen, Handle, Collect, Watch, Ended, Crash, Stay, control, removals
      <4> QED  BY <4>1
    <3>5. CASE \/ OpenStore(p) \/ LockEndpoint(p) \/ CleanTemps(p) \/ CleanRequest(p)
               \/ WriteInstance(p) \/ Start(p) \/ StopTaken(p)
      <4>1. Other
        BY <3>5 DEF OpenStore, LockEndpoint, CleanTemps, CleanRequest, WriteInstance, Start, StopTaken,
                    Stay, control, removals
      <4> QED  BY <4>1
    <3>6. CASE \/ Shutdown(p) \/ Drain(p) \/ CancelLogs(p) \/ JoinLogs(p) \/ CancelHost(p)
               \/ JoinHost(p) \/ CloseStore(p) \/ CloseRequest(p) \/ Abandon(p)
      <4>1. Other
        BY <3>6, Zenon DEF Shutdown, Drain, CancelLogs, JoinLogs, CancelHost, JoinHost, Join, CloseStore,
                    CloseRequest, Abandon, Stay, control, removals
      <4> QED  BY <4>1
    <3> QED  BY <1>1, <3>1, <3>2, <3>3, <3>4, <3>5, <3>6, Zenon DEF Proceed
  <2> QED  BY <1>0, <2>1 DEF RemovedInv, Removed
<1>2. CASE Requester
  <2>1. UNCHANGED <<instance, closed, replaced>>
    BY <1>2 DEF Requester, Ask, AskRead, AskWrite, AskPublish, AskPoll, AskEnds, control, removals
  <2>2. CASE Ask
    BY <2>1, <2>2 DEF Ask, RemovedInv, Removed
  <2>3. CASE AskRead \/ AskWrite \/ AskPublish
    <3>1. asker.pc # "idle"
      BY <2>3 DEF AskRead, AskWrite, AskPublish
    <3> QED  BY <1>0, <2>1, <2>3, <3>1, AskerAsks DEF RemovedInv, Removed
  <2>4. CASE AskPoll
    <3>1. /\ asker'.pc = "idle" /\ asker'.nonce = asker.nonce /\ asker.pc = "poll"
          /\ instance # asker.nonce
      BY <1>0, <2>4 DEF AskPoll, Asker
    <3> QED  BY <2>1, <3>1 DEF RemovedInv, Removed
  <2>5. CASE AskEnds
    BY <2>1, <2>5 DEF AskEnds, NoAsker, RemovedInv
  <2> QED  BY <1>2, <2>2, <2>3, <2>4, <2>5 DEF Requester
<1>3. CASE UNCHANGED rvars
  BY <1>3 DEF rvars, RemovedInv, Removed
<1> QED  BY <1>1, <1>2, <1>3, Zenon DEF RuntimeNext

(* The history store is open while a handler or a collection uses it, one  *)
(* process has it open, a managed process that serves is the published     *)
(* one, and a requester is told that an instance stopped only when its     *)
(* publication was removed, by itself or by a later process, and it no     *)
(* longer serves (stopCollectors, finishHTTP, lifecycle.New, RequestStop). *)
THEOREM ServingHolds == RuntimeSpec => []ServingIsBacked
<1>1. ASSUME RuntimeInv, RemovedInv
      PROVE  ServingIsBacked
  <2>1. ASSUME NEW p \in Procs, Borrowed(p)
        PROVE  proc[p].store = "open"
    BY <1>1, <2>1 DEF Borrowed, RuntimeInv, StoreSound
  <2>2. \A p, q \in Procs : proc[p].store = "open" /\ proc[q].store = "open" => p = q
    BY <1>1 DEF RuntimeInv, Alone
  <2>3. ASSUME NEW p \in Procs, At(p, "serve"), proc[p].managed
        PROVE  instance = proc[p].nonce
    BY <1>1, <2>3 DEF RuntimeInv, NonceSound, Published, Running, At
  <2>4. asker.answer = "stopped" =>
          /\ asker.nonce \in closed \union replaced
          /\ \A p \in Procs : proc[p].nonce = asker.nonce => proc[p].pc \in {"abandon", "off"}
    BY <1>1 DEF RuntimeInv, NonceSound, RemovedInv, Removed
  <2> QED  BY <2>1, <2>2, <2>3, <2>4 DEF ServingIsBacked, StoreOutlivesBorrowers, ServingIsPublished
<1>2. RuntimeInit => RemovedInv
  BY DEF RuntimeInit, NoAsker, RemovedInv
<1>3. RuntimeInv /\ RemovedInv /\ [RuntimeNext]_rvars => RemovedInv'
  BY RemovedStep
<1>4. RuntimeSpec => [](RuntimeInv /\ RemovedInv)
  BY <1>2, <1>3, RuntimeInvariantHolds, PTL DEF RuntimeSpec
<1> QED  BY <1>1, <1>4, PTL
=============================================================================
