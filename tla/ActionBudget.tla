---------------------------- MODULE ActionBudget ----------------------------
(* The time limits of a container action (internal/actionbudget).  Three   *)
(* local clocks are read together: CLOCK_BOOTTIME, the monotonic clock,    *)
(* which stands still while the machine sleeps, and the wall clock, which  *)
(* may be set.  A reading of the server's clock is bracketed by two such   *)
(* readings, a conversation starts while it is fresh, and the claim the    *)
(* conversation delivers may be executed, and reported, for as long as     *)
(* none of the clocks has left the others behind.  BOOTTIME is taken for   *)
(* real time: the server's clock differs from it by a constant.            *)
EXTENDS Integers

CONSTANTS
  Continuity,  \* 100ms: how far the clocks may part
  Skew,        \* 4.9s: how far the server's clock may be off
  Control,     \* 5s: the exchange that reads the server's clock
  ReadyAge,    \* 15s: how long its reading serves
  Delivery,    \* 30s: from the start of a conversation to its claim
  Effect,      \* 60s: from the receipt of the claim to its last effect
  Reserve,     \* 30s: kept free of effects at the end of the lease
  Lease,       \* 119s: from the start of a conversation to its last report
  MaxBoot,     \* bound: the last moment
  MaxStep,     \* bound: how far the wall clock is set off
  MaxSleep,    \* bound: how long the machine sleeps
  MaxAhead,    \* bound: how far the server's clock is off
  Absent

ASSUME LimitsAssumption ==
  /\ {Continuity, Skew, Control, ReadyAge, Delivery, Effect, Reserve, Lease} \subseteq Nat
  /\ {MaxBoot, MaxStep, MaxSleep, MaxAhead} \subseteq Nat
  /\ Control <= Reserve

Stamp == [boot : Int, mono : Int, wall : Int]
Readiness == [origin : Stamp, recv : Stamp]
Conversation ==
  [ready : Readiness, start : Stamp, claimed : Int \union {Absent}, used : BOOLEAN]

ASSUME AbsentAssumption == Absent \notin Conversation

VARIABLES
  boot,          \* CLOCK_BOOTTIME
  lag,           \* how much of it the machine slept
  drift,         \* the wall clock less boot
  ahead,         \* the server's clock less boot
  exchange,      \* the exchange that reads the server's clock
  readiness,     \* the last reading of the server's clock
  conversation,  \* the conversation, any one of those a reading serves
  execution      \* its claim, accepted

budgetVars == <<boot, lag, drift, ahead, exchange, readiness, conversation, execution>>

Now == [boot |-> boot, mono |-> boot - lag, wall |-> boot + drift]
Server == boot + ahead

minimum(a, b) == IF a < b THEN a ELSE b

continuousWithin(from, to, maximum) ==
  LET b == to.boot - from.boot
      m == to.mono - from.mono
      w == to.wall - from.wall
  IN  /\ b \in 0 .. maximum /\ w >= 0
      /\ m >= 0 /\ m >= b - Continuity /\ m <= b + Continuity
      /\ w >= b - Continuity /\ w <= b + Continuity

continuous(from, to) == continuousWithin(from, to, ReadyAge + Lease)

(* Mutant: the report is held to the window of the execution. *)
reportContinuousShort(from, to) == continuousWithin(from, to, Lease)
(* The report alone has the longer window, the exchange included.          *)
reportContinuous(from, to) ==
  /\ to.boot - from.boot < Control + ReadyAge + Lease
  /\ continuousWithin(from, to, Control + ReadyAge + Lease)

(* Mutant: only the answer's age is looked at. *)
serverBracketLate(server, send, recv) == continuous(send, recv) /\ server - send.wall <= Skew
(* The server's reading is within the skew of both ends of the exchange.   *)
serverBracket(server, send, recv) ==
  /\ continuous(send, recv)
  /\ server - recv.wall >= -Skew
  /\ server - send.wall <= Skew

---------------------------------------------------------------------------
(* The clocks (external).                                                  *)
ClocksElsewhere == UNCHANGED <<ahead, exchange, readiness, conversation, execution>>

Tick ==
  /\ boot < MaxBoot
  /\ boot' = boot + 1
  /\ lag' \in {lag, lag + 1} /\ lag' <= MaxSleep
  /\ UNCHANGED drift /\ ClocksElsewhere

SetWallClock ==
  /\ drift' \in (-MaxStep) .. MaxStep
  /\ UNCHANGED <<boot, lag>> /\ ClocksElsewhere

---------------------------------------------------------------------------
ClocksStay == UNCHANGED <<boot, lag, drift, ahead>>

(* The exchange that reads the server's clock: a stamp, the answer,        *)
(* another stamp.  Time starts with the first; a later reading would not   *)
(* reach the conversation, which keeps its own.                            *)
ServerAnswers ==
  /\ exchange # Absent /\ exchange.said = Absent
  /\ exchange' = [exchange EXCEPT !.said = Server]
  /\ ClocksStay /\ UNCHANGED <<readiness, conversation, execution>>

(* ObserveControlTime: the whole exchange within its limit, and            *)
(* ObserveServerTime.  A refusal leaves no reading.                         *)
ObserveControlTime ==
  /\ readiness = Absent
  /\ exchange # Absent /\ exchange.said # Absent
  /\ IF /\ continuous(exchange.sent, Now) /\ boot - exchange.sent.boot < Control
        /\ serverBracket(exchange.said, exchange.sent, Now)
     THEN readiness' = [origin |-> exchange.sent, recv |-> Now]
     ELSE UNCHANGED readiness
  /\ exchange' = Absent
  /\ ClocksStay /\ UNCHANGED <<conversation, execution>>

Begin ==
  /\ conversation = Absent /\ readiness # Absent
  /\ continuous(readiness.origin, Now)
  /\ boot - readiness.recv.boot \in 0 .. ReadyAge
  /\ conversation' = [ready |-> readiness, start |-> Now, claimed |-> Absent, used |-> FALSE]
  /\ ClocksStay /\ UNCHANGED <<exchange, readiness, execution>>

(* CheckDelivery surrounds the send of the approval, which is taken to     *)
(* follow Begin at once, and the receipt of the claim.                     *)
CheckDelivery ==
  /\ ~conversation.used
  /\ continuous(conversation.ready.origin, Now) /\ continuous(conversation.start, Now)
  /\ boot - conversation.start.boot < Delivery

(* The server claims the action between the two (external).                *)
ServerClaims ==
  /\ conversation # Absent /\ conversation.claimed = Absent
  /\ conversation' = [conversation EXCEPT !.claimed = Server]
  /\ ClocksStay /\ UNCHANGED <<exchange, readiness, execution>>

Deadline(start, rtt) == start.boot + minimum(Lease - Reserve, rtt + Effect)

(* The check at the receipt and AcceptClaim, once per conversation,        *)
(* whatever comes of it.                                                   *)
AcceptClaim ==
  /\ conversation # Absent /\ conversation.claimed # Absent /\ ~conversation.used
  /\ conversation' = [conversation EXCEPT !.used = TRUE]
  /\ \E rtt \in 0 .. minimum(Delivery, boot - conversation.start.boot) :
       IF /\ CheckDelivery
          /\ serverBracket(conversation.claimed, conversation.start, Now)
          /\ boot < Deadline(conversation.start, rtt)
       THEN execution' = [rtt |-> rtt]
       ELSE UNCHANGED execution
  /\ ClocksStay /\ UNCHANGED <<exchange, readiness>>

(* checked, for the claim that was accepted: CheckExecution before every   *)
(* commit of the journal and every question to the server, CheckMutation   *)
(* around every write to the engine.                                       *)
CheckExecution ==
  /\ execution # Absent
  /\ continuous(conversation.ready.origin, Now)
  /\ boot < Deadline(conversation.start, execution.rtt)

CheckReport ==
  /\ execution # Absent
  /\ continuous(conversation.ready.origin, conversation.start)
  /\ reportContinuous(conversation.ready.origin, Now)
  /\ boot >= conversation.start.boot /\ boot - conversation.start.boot < Lease

---------------------------------------------------------------------------
BudgetInit ==
  /\ boot = 0 /\ lag = 0 /\ drift = 0
  /\ ahead \in (-MaxAhead) .. MaxAhead
  /\ exchange = [sent |-> Now, said |-> Absent]
  /\ readiness = Absent /\ conversation = Absent /\ execution = Absent

BudgetNext ==
  \/ Tick \/ SetWallClock
  \/ ServerAnswers \/ ObserveControlTime
  \/ Begin \/ ServerClaims \/ AcceptClaim

BudgetSpec == BudgetInit /\ [][BudgetNext]_budgetVars

---------------------------------------------------------------------------
(* While an effect is allowed, the server's lease has its reserve left and *)
(* the effect's own time is not over, counted from the server's claim and  *)
(* over any sleep; and the local wall clock, which dates the journal, is   *)
(* within the skew and two continuities of the server's, however it was    *)
(* set since the reading that vouches for it (checked, serverBracket).     *)
EffectIsTimely ==
  CheckExecution =>
    /\ Server - conversation.claimed < Lease - Reserve
    /\ Server - conversation.claimed < execution.rtt + Effect
    /\ Server - (boot + drift) <= Skew + Continuity
    /\ (boot + drift) - Server <= Skew + 2 * Continuity

(* If the machine never slept and the wall clock was never set since the   *)
(* reading, nothing is refused early: the effect is allowed to its         *)
(* deadline and the report to the end of the lease, although the window    *)
(* that continuity is checked over began before the conversation           *)
(* (continuous, reportContinuous).                                         *)
NothingIsRefusedEarly ==
  (/\ execution # Absent
   /\ lag = conversation.ready.origin.boot - conversation.ready.origin.mono
   /\ drift = conversation.ready.origin.wall - conversation.ready.origin.boot)
  => /\ boot < Deadline(conversation.start, execution.rtt) => CheckExecution
     /\ boot - conversation.start.boot < Lease => CheckReport
===========================================================================
