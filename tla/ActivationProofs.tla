-------------------------- MODULE ActivationProofs --------------------------
(* Proofs about Activation, for any number of invocations, calls of Start  *)
(* and changes of the configuration.                                       *)
EXTENDS Activation, TLAPS

-----------------------------------------------------------------------------
(* The inductive invariant, part by part.                                  *)

(* An active unit was invoked, and every invocation of the uploader draws  *)
(* one challenge at most.                                                  *)
UnitInv ==
  /\ \A u \in Units : Active(u) => unit[u].inv > 0
  /\ draws <= unit["uploader"].inv
  /\ up.pc \in {"preflight", "request"} => draws < unit["uploader"].inv
  /\ up.pc # "off" => up.config > 0

(* What the uploader has to show for being where it is, and what every     *)
(* commit, admission and report stands for.                                *)
GateInv ==
  /\ up.pc \in {"prove", "commit", "current"} =>
       up.request \in Request /\ up.request.config = up.config /\ up.challenge > 0
  /\ up.pc = "current" => \E a \in authorised : a.commit = OwnResponse
  /\ up.pc \in {"load", "run"} => unit["uploader"].inv \in admitted
  /\ files.commit # None => \E a \in authorised : a.commit = files.commit
  /\ \A a \in authorised : a.collector \in collected
  /\ AdmissionIsAuthorised
ReportInv ==
  /\ status["uploader"] # None /\ status["uploader"].state = "WAITING_FIRST_UPLOAD" =>
       status["uploader"].inv \in admitted
  /\ status["collector"] # None => status["collector"].inv \in collected

(* What a transaction has collected on its way.                            *)
Requested == {"rename_request", "response", "start_collector", "inspect_collector", "collector",
              "audit", "commit", "rename_commit", "ready", "recheck", "recheck_collector"}
Answered == {"start_collector", "inspect_collector", "collector", "audit", "commit",
             "rename_commit"}
Rechecks == {"recheck", "recheck_collector"}
Collecting == {"audit", "commit", "rename_commit", "ready"} \union Rechecks
RootInv ==
  /\ tx.pc \in RootPhases => tx.err = "none" /\ tx.config > 0 /\ attempts > 0
  /\ tx.pc \in Requested => tx.request \in Request
  /\ tx.pc \in Answered => tx.response \in Response
  /\ tx.pc \in Collecting =>
       tx.owned["collector"] \in Instance /\ tx.owned["collector"].inv \in collected
  /\ tx.pc \in Rechecks =>
       tx.owned["uploader"] \in Instance /\ tx.owned["uploader"].inv \in admitted

(* Whom a transaction answers for.  Until it needs recovery it has         *)
(* captured every live instance it launched, except while it is about to   *)
(* look, and no job of its own is queued; from the turn of the collector   *)
(* on, the uploader it captured is gone.                                   *)
Accountable == tx.pc \in RootPhases \/ (tx.pc \in CleanPhases /\ tx.err = "unsafe")
Looking(u) == IF u = "uploader" THEN tx.pc = "inspect_uploader" ELSE tx.pc = "inspect_collector"
Captured(u) ==
  /\ ~(Looking(u) /\ tx.failed) => <<u, attempts>> \notin queued
  /\ ~Looking(u) =>
       \A i \in Invocations : <<u, i>> \in started /\ Live(u, i) =>
         tx.owned[u] \in Instance /\ tx.owned[u].inv = i
Gone(u) == tx.owned[u] \in Instance => ~Live(u, tx.owned[u].inv)
LaunchInv ==
  /\ \A u \in Units, n \in 1 .. MaxAttempts : <<u, n>> \in queued => n <= attempts
  /\ \A u \in Units, i \in Invocations : <<u, i>> \in started => i <= unit[u].inv
  /\ \A u \in Units : tx.owned[u] \in Instance => tx.owned[u].inv <= unit[u].inv
CaptureInv ==
  /\ Accountable => \A u \in Units : Captured(u)
  /\ tx.pc \in {"clean_collector", "stop_collector", "join_collector"} /\ tx.err # "recovery" =>
       Gone("uploader")

(* The types, those of the units and processes and those of the rest.      *)
WorldOK ==
  /\ unit \in [Units -> Instance]
  /\ status \in [Units -> Record \union {None}]
  /\ up \in Process
  /\ draws \in 0 .. MaxInvocation
  /\ collected \subseteq Invocations
  /\ admitted \subseteq Invocations
  /\ (up.pc = "off") <=> ~Active("uploader")
RestOK ==
  /\ queued \subseteq Units \X (1 .. MaxAttempts)
  /\ files \in Files
  /\ config \in 1 .. MaxConfig
  /\ tx \in Transaction
  /\ result \in {"none", "ok", "unsafe", "recovery", "stopped", "crashed"}
  /\ attempts \in 0 .. MaxAttempts
  /\ started \subseteq Units \X Invocations
  /\ authorised \subseteq [commit : Response, collector : Invocations]

WorldInv == WorldOK /\ UnitInv /\ GateInv /\ ReportInv
ActivationInv == WorldInv /\ RestOK /\ RootInv /\ LaunchInv /\ CaptureInv

-----------------------------------------------------------------------------
(* What happens to the units.                                              *)

(* Invocations are numbered upwards, and one that has ended is not seen    *)
(* alive again.                                                            *)
UnitMoves ==
  \A u \in Units :
    /\ unit'[u].inv \in Nat /\ unit'[u].inv >= unit[u].inv
    /\ \A i \in Nat : Live(u, i)' /\ i <= unit[u].inv => Live(u, i)

LEMMA Numbers ==
  /\ \A u \in Units : unit \in [Units -> Instance] => unit[u].inv \in Nat
  /\ \A i \in Invocations : i \in Nat /\ i > 0
  /\ "uploader" \in Units /\ "collector" \in Units
  BY BoundsAssumption DEF Instance, Invocations, Units

LEMMA UnitsStay ==
  ASSUME UNCHANGED unit, WorldOK
  PROVE  UnitMoves
  BY Numbers DEF UnitMoves, Live, Active, WorldOK

LEMMA Launched ==
  ASSUME WorldOK, RestOK, NEW u \in Units, Launch(u)
  PROVE  /\ unit' \in [Units -> Instance] /\ up' \in Process
         /\ unit'[u].inv = unit[u].inv + 1 /\ unit'[u].active = "active"
         /\ unit[u].inv + 1 \in Invocations
         /\ \A v \in Units \ {u} : unit'[v] = unit[v]
         /\ IF u = "uploader" THEN up'.pc = "preflight" /\ up'.config = config ELSE up' = up
<1>1. unit[u].inv + 1 \in 1 .. MaxInvocation
  BY BoundsAssumption DEF WorldOK, Launch, Instance
<1>2. [inv |-> unit[u].inv + 1, active |-> "active"] \in Instance
  BY <1>1 DEF Instance
<1>3. /\ unit' \in [Units -> Instance] /\ unit'[u] = [inv |-> unit[u].inv + 1, active |-> "active"]
      /\ \A v \in Units \ {u} : unit'[v] = unit[v]
  BY <1>2 DEF WorldOK, Launch
<1>4. CASE u = "uploader"
  <2>1. up' = [pc |-> "preflight", request |-> None, challenge |-> 0, config |-> config]
    BY <1>4, Zenon DEF Launch, OffProcess
  <2>2. config \in 0 .. MaxConfig /\ 0 \in 0 .. MaxInvocation
    BY BoundsAssumption DEF RestOK
  <2> QED  BY <1>1, <1>3, <1>4, <2>1, <2>2 DEF Process, GatePhases, Invocations
<1>5. CASE u # "uploader"
  BY <1>1, <1>3, <1>5 DEF Launch, WorldOK, Invocations
<1> QED  BY <1>4, <1>5

LEMMA Ended ==
  ASSUME WorldOK, NEW u \in Units, NEW a \in {"inactive", "failed"}, NEW told \in BOOLEAN,
         Active(u), UnitInv, Ends(u, a, told)
  PROVE  /\ unit' \in [Units -> Instance] /\ up' \in Process
         /\ unit'[u].inv = unit[u].inv /\ unit'[u].active = a
         /\ \A v \in Units \ {u} : unit'[v] = unit[v]
         /\ IF u = "uploader" THEN up'.pc = "off" ELSE up' = up
         /\ status' \in [Units -> Record \union {None}]
         /\ status'["collector"] = status["collector"]
         /\ \/ status'["uploader"] = status["uploader"]
            \/ status'["uploader"].state = "STOPPED"
<1>1. /\ unit' \in [Units -> Instance] /\ unit'[u].inv = unit[u].inv /\ unit'[u].active = a
      /\ \A v \in Units \ {u} : unit'[v] = unit[v]
  BY DEF Ends, WorldOK, Instance
<1>2. up' \in Process /\ (IF u = "uploader" THEN up'.pc = "off" ELSE up' = up)
  BY BoundsAssumption DEF Ends, WorldOK, OffProcess, Process
<1>3. CASE UNCHANGED status
  BY <1>1, <1>2, <1>3 DEF WorldOK
<1>4. CASE u = "uploader" /\ status' = [status EXCEPT ![u] = [inv |-> unit[u].inv, state |-> "STOPPED"]]
  <2>1. unit[u].inv \in Invocations
    BY BoundsAssumption DEF WorldOK, UnitInv, Instance, Invocations
  <2>2. [inv |-> unit[u].inv, state |-> "STOPPED"] \in Record
    BY <2>1 DEF Record, StatusStates
  <2> QED  BY <1>1, <1>2, <1>4, <2>2, Numbers DEF WorldOK
<1> QED  BY <1>3, <1>4 DEF Ends

(* A launch, whoever made it, and an end, whatever caused it, keep what is *)
(* known of the units, of the gate and of the reports.                     *)
LEMMA LaunchWorld ==
  ASSUME WorldInv, RestOK, NEW u \in Units, Launch(u), Stopped(u),
         UNCHANGED <<files, status, draws, collected, authorised, admitted>>
  PROVE  WorldInv' /\ UnitMoves
<1>1. WorldOK /\ UnitInv /\ GateInv /\ ReportInv
  BY DEF WorldInv
<1>2. /\ unit' \in [Units -> Instance] /\ up' \in Process
      /\ unit'[u].inv = unit[u].inv + 1 /\ unit'[u].active = "active"
      /\ \A v \in Units \ {u} : unit'[v] = unit[v]
      /\ IF u = "uploader" THEN up'.pc = "preflight" /\ up'.config = config ELSE up' = up
  BY <1>1, Launched
<1>3. \A v \in Units : unit[v].inv \in Nat
  BY <1>1, Numbers DEF WorldOK
<1>4. WorldOK'
  BY <1>1, <1>2, Numbers DEF WorldOK, Active
<1>5. UnitInv'
  <2>1. \A v \in Units : Active(v)' => unit'[v].inv > 0
    BY <1>1, <1>2, <1>3 DEF UnitInv, Active
  <2>2. /\ draws' <= unit'["uploader"].inv
        /\ up'.pc \in {"preflight", "request"} => draws' < unit'["uploader"].inv
    BY <1>1, <1>2, <1>3, Numbers DEF UnitInv, WorldOK
  <2>3. up'.pc # "off" => up'.config > 0
    BY <1>1, <1>2 DEF UnitInv, RestOK
  <2> QED  BY <2>1, <2>2, <2>3 DEF UnitInv
<1>6. GateInv'
  <2>1. CASE u = "uploader"
    BY <1>1, <1>2, <2>1 DEF GateInv, AdmissionIsAuthorised
  <2>2. CASE u # "uploader"
    <3>1. up' = up /\ unit'["uploader"] = unit["uploader"] /\ OwnResponse' = OwnResponse
      BY <1>2, <2>2, Numbers DEF OwnResponse
    <3> QED  BY <1>1, <3>1 DEF GateInv, AdmissionIsAuthorised
  <2> QED  BY <2>1, <2>2
<1>7. ReportInv'
  BY <1>1 DEF ReportInv
<1>8. UnitMoves
  BY <1>2, <1>3 DEF UnitMoves, Live, Active
<1> QED  BY <1>4, <1>5, <1>6, <1>7, <1>8 DEF WorldInv

LEMMA EndWorld ==
  ASSUME WorldInv, NEW u \in Units, NEW a \in {"inactive", "failed"}, NEW told \in BOOLEAN,
         Active(u), Ends(u, a, told),
         UNCHANGED <<files, draws, collected, authorised, admitted>>
  PROVE  WorldInv' /\ UnitMoves
<1>1. WorldOK /\ UnitInv /\ GateInv /\ ReportInv
  BY DEF WorldInv
<1>2. /\ unit' \in [Units -> Instance] /\ up' \in Process
      /\ unit'[u].inv = unit[u].inv /\ unit'[u].active = a
      /\ \A v \in Units \ {u} : unit'[v] = unit[v]
      /\ IF u = "uploader" THEN up'.pc = "off" ELSE up' = up
      /\ status' \in [Units -> Record \union {None}]
      /\ status'["collector"] = status["collector"]
      /\ \/ status'["uploader"] = status["uploader"]
         \/ status'["uploader"].state = "STOPPED"
  BY <1>1, Ended
<1>3. \A v \in Units : unit[v].inv \in Nat /\ unit'[v].inv = unit[v].inv
  BY <1>1, <1>2, Numbers DEF WorldOK
<1>4. WorldOK'
  BY <1>1, <1>2, Numbers DEF WorldOK, Active
<1>5. UnitInv'
  BY <1>1, <1>2, <1>3, Numbers DEF UnitInv, Active
<1>6. GateInv'
  <2>1. CASE u = "uploader"
    BY <1>1, <1>2, <2>1 DEF GateInv, AdmissionIsAuthorised
  <2>2. CASE u # "uploader"
    <3>1. up' = up /\ unit'["uploader"] = unit["uploader"] /\ OwnResponse' = OwnResponse
      BY <1>2, <2>2, Numbers DEF OwnResponse
    <3> QED  BY <1>1, <3>1 DEF GateInv, AdmissionIsAuthorised
  <2> QED  BY <2>1, <2>2
<1>7. ReportInv'
  BY <1>1, <1>2 DEF ReportInv
<1>8. UnitMoves
  BY <1>2, <1>3 DEF UnitMoves, Live, Active
<1> QED  BY <1>4, <1>5, <1>6, <1>7, <1>8 DEF WorldInv

(* What the transaction knows of its workers outlives whatever happens to  *)
(* the units while it does not look.                                       *)
LateCleaning ==
  tx.pc \in {"clean_collector", "stop_collector", "join_collector"} /\ tx.err # "recovery"
LEMMA CapturesKept ==
  ASSUME ActivationInv, UnitMoves, attempts' = attempts, queued' \subseteq queued,
         tx'.owned = tx.owned, tx'.failed = tx.failed,
         Accountable' => Accountable, LateCleaning' => LateCleaning,
         \A u \in Units : Looking(u)' <=> Looking(u),
         \A u \in Units, i \in Invocations : <<u, i>> \in started' =>
           <<u, i>> \in started \/ (i = unit'[u].inv /\ <<u, attempts>> \in queued)
  PROVE  LaunchInv' /\ CaptureInv'
<1>1. LaunchInv /\ CaptureInv /\ WorldOK /\ RestOK
  BY DEF ActivationInv, WorldInv
<1>2. \A u \in Units : /\ unit[u].inv \in Nat /\ unit'[u].inv \in Nat
                       /\ unit'[u].inv >= unit[u].inv
                       /\ tx.owned[u] \in Instance => tx.owned[u].inv \in Nat
  BY <1>1, Numbers DEF UnitMoves, WorldOK, Instance
<1>3. \A u \in Units, i \in Invocations : i \in Nat /\ (Live(u, i)' /\ i <= unit[u].inv => Live(u, i))
  BY Numbers DEF UnitMoves
<1>4. LaunchInv'
  <2>1. \A u \in Units, n \in 1 .. MaxAttempts : <<u, n>> \in queued' => n <= attempts'
    BY <1>1 DEF LaunchInv
  <2>2. ASSUME NEW u \in Units, NEW i \in Invocations, <<u, i>> \in started'
        PROVE  i <= unit'[u].inv
    <3>1. <<u, i>> \in started => i <= unit[u].inv
      BY <1>1 DEF LaunchInv
    <3>2. i \in Nat /\ unit[u].inv \in Nat /\ unit'[u].inv \in Nat /\ unit[u].inv <= unit'[u].inv
      BY <1>2, <1>3
    <3>3. <<u, i>> \in started \/ i = unit'[u].inv
      BY <2>2, Zenon
    <3> QED  BY <3>1, <3>2, <3>3
  <2>3. ASSUME NEW u \in Units, tx'.owned[u] \in Instance
        PROVE  tx'.owned[u].inv <= unit'[u].inv
    BY <1>1, <1>2, <2>3 DEF LaunchInv
  <2> QED  BY <2>1, <2>2, <2>3 DEF LaunchInv
<1>5. ASSUME Accountable', NEW u \in Units
      PROVE  Captured(u)'
  <2>1. Captured(u)
    BY <1>1, <1>5 DEF CaptureInv
  <2>2. ~(Looking(u)' /\ tx'.failed) => <<u, attempts'>> \notin queued'
    BY <2>1 DEF Captured
  <2>3. ASSUME ~Looking(u)', NEW i \in Invocations, <<u, i>> \in started', Live(u, i)'
        PROVE  tx'.owned[u] \in Instance /\ tx'.owned[u].inv = i
    <3>1. <<u, i>> \in started
      BY <2>1, <2>3 DEF Captured
    <3>2. Live(u, i)
      BY <1>1, <1>3, <2>3, <3>1 DEF LaunchInv
    <3> QED  BY <2>1, <2>3, <3>1, <3>2 DEF Captured
  <2> QED  BY <2>2, <2>3 DEF Captured
<1>6. ASSUME LateCleaning'
      PROVE  Gone("uploader")'
  <2>1. Gone("uploader")
    BY <1>1, <1>6 DEF CaptureInv, LateCleaning
  <2> QED  BY <1>1, <1>2, <2>1, Numbers DEF Gone, UnitMoves, LaunchInv
<1> QED  BY <1>4, <1>5, <1>6 DEF CaptureInv, LateCleaning

(* The numbering of jobs and instances, when a call launches, queues or    *)
(* captures something.                                                     *)
Numbered(o, u) == o \in Instance => o.inv <= unit[u].inv
LEMMA NumberedInstances ==
  ASSUME WorldOK, NEW u \in Units
  PROVE  Numbered(NoInstance, u) /\ Numbered(unit[u], u)
<1>1. unit[u].inv \in Nat /\ NoInstance.inv = 0
  BY Numbers DEF WorldOK, NoInstance
<1> QED  BY <1>1 DEF Numbered

LEMMA NumbersKept ==
  ASSUME LaunchInv, WorldOK, UnitMoves, attempts \in Nat, attempts' = attempts,
         NEW u \in Units, queued' \subseteq queued \union {<<u, attempts>>},
         \A v \in Units, i \in Invocations : <<v, i>> \in started' =>
           <<v, i>> \in started \/ (v = u /\ i <= unit'[v].inv),
         \A v \in Units : tx'.owned[v] = tx.owned[v] \/ Numbered(tx'.owned[v], v)
  PROVE  LaunchInv'
<1>1. \A v \in Units, n \in 1 .. MaxAttempts : <<v, n>> \in queued' => n <= attempts'
  <2>1. \A v \in Units, n \in 1 .. MaxAttempts : <<v, n>> \in queued' =>
          <<v, n>> \in queued \/ n = attempts
    OBVIOUS
  <2> QED  BY <2>1 DEF LaunchInv
<1>2. \A v \in Units : unit'[v].inv \in Nat /\ unit[v].inv \in Nat /\ unit[v].inv <= unit'[v].inv
  BY Numbers DEF UnitMoves, WorldOK
<1>3. ASSUME NEW v \in Units, NEW i \in Invocations, <<v, i>> \in started'
      PROVE  i <= unit'[v].inv
  <2>1. i \in Nat /\ (<<v, i>> \in started => i <= unit[v].inv)
    BY Numbers DEF LaunchInv
  <2> QED  BY <1>2, <1>3, <2>1
<1>4. ASSUME NEW v \in Units, tx'.owned[v] \in Instance
      PROVE  tx'.owned[v].inv <= unit'[v].inv
  <2>1. PICK o \in Instance : o = tx'.owned[v]
    BY <1>4
  <2>2. o.inv \in Nat /\ o.inv <= unit[v].inv
    BY <2>1 DEF LaunchInv, Numbered, Instance
  <2> QED  BY <1>2, <2>1, <2>2
<1> QED  BY <1>1, <1>3, <1>4 DEF LaunchInv

-----------------------------------------------------------------------------
(* The steps of the administrator, the manager and the workers.            *)
LEMMA WorldStep ==
  ASSUME ActivationInv, WorldInv', UnitMoves, UNCHANGED rootVars, RestOK', queued' \subseteq queued,
         collected \subseteq collected', admitted \subseteq admitted',
         \A u \in Units, i \in Invocations : <<u, i>> \in started' =>
           <<u, i>> \in started \/ (i = unit'[u].inv /\ <<u, attempts>> \in queued)
  PROVE  ActivationInv'
<1>1. tx' = tx /\ attempts' = attempts
  BY DEF rootVars
<1>2. RootInv'
  BY <1>1 DEF ActivationInv, RootInv
<1>3. LaunchInv' /\ CaptureInv'
  BY <1>1, CapturesKept DEF Accountable, LateCleaning, Looking
<1> QED  BY <1>2, <1>3 DEF ActivationInv

(* Nothing happens to the units, and no new commit is there.               *)
LEMMA WorldStays ==
  ASSUME WorldInv, UNCHANGED worldVars, authorised' = authorised,
         files'.commit = files.commit \/ files'.commit = None
  PROVE  WorldInv' /\ UnitMoves
<1>1. /\ unit' = unit /\ status' = status /\ up' = up /\ draws' = draws
      /\ collected' = collected /\ admitted' = admitted /\ OwnResponse' = OwnResponse
  BY DEF worldVars, OwnResponse
<1>2. WorldOK' /\ UnitInv' /\ ReportInv'
  BY <1>1 DEF WorldInv, WorldOK, UnitInv, ReportInv, Active
<1>3. GateInv'
  BY <1>1 DEF WorldInv, GateInv, AdmissionIsAuthorised
<1> QED  BY <1>1, <1>2, <1>3, UnitsStay DEF WorldInv

LEMMA AdminStep ==
  ASSUME ActivationInv, NEW u \in Units, AdminStarts(u) \/ AdminStops(u) \/ WorkerFails(u)
  PROVE  ActivationInv'
<1>0. WorldInv /\ RestOK
  BY DEF ActivationInv
<1>1. /\ UNCHANGED <<queued, files, config, draws, started, collected, admitted>> /\ UNCHANGED rootVars
  BY Zenon DEF AdminStarts, AdminStops, WorkerFails
<1>2. authorised' = authorised /\ RestOK'
  BY <1>0, <1>1 DEF RestOK, rootVars
<1>3. WorldInv' /\ UnitMoves
  <2>1. CASE AdminStarts(u)
    BY <1>0, <1>1, <1>2, <2>1, LaunchWorld DEF AdminStarts
  <2>2. CASE AdminStops(u)
    BY <1>0, <1>1, <1>2, <2>2, EndWorld, Zenon DEF AdminStops
  <2>3. CASE WorkerFails(u)
    BY <1>0, <1>1, <1>2, <2>3, EndWorld, Zenon DEF WorkerFails
  <2> QED  BY <2>1, <2>2, <2>3
<1> QED  BY <1>1, <1>2, <1>3, WorldStep

LEMMA LateStartStep ==
  ASSUME ActivationInv, NEW u \in Units, LateStart(u)
  PROVE  ActivationInv'
<1>0. WorldInv /\ RestOK
  BY DEF ActivationInv
<1>1. /\ UNCHANGED <<files, status, config, draws, collected, admitted>> /\ UNCHANGED rootVars
      /\ authorised' = authorised
  BY DEF LateStart, rootVars
<1>2. PICK n \in 1 .. attempts :
        /\ <<u, n>> \in queued /\ queued' = queued \ {<<u, n>>}
        /\ \/ /\ Stopped(u) /\ Launch(u)
              /\ started' = IF n = attempts THEN started \union {<<u, unit[u].inv + 1>>}
                                           ELSE started
           \/ UNCHANGED <<unit, up, started>>
  BY DEF LateStart
<1>3. CASE Stopped(u) /\ Launch(u)
           /\ started' = IF n = attempts THEN started \union {<<u, unit[u].inv + 1>>} ELSE started
  <2>1. WorldInv' /\ UnitMoves
    BY <1>0, <1>1, <1>3, LaunchWorld
  <2>2. unit'[u].inv = unit[u].inv + 1 /\ unit[u].inv + 1 \in Invocations
    BY <1>0, <1>3, Launched DEF WorldInv
  <2>3. RestOK'
    BY <1>0, <1>1, <1>2, <1>3, <2>2 DEF RestOK, rootVars
  <2>4. ASSUME NEW v \in Units, NEW i \in Invocations, <<v, i>> \in started'
        PROVE  <<v, i>> \in started \/ (i = unit'[v].inv /\ <<v, attempts>> \in queued)
    BY <1>2, <1>3, <2>2, <2>4
  <2> QED  BY <1>1, <1>2, <2>1, <2>3, <2>4, WorldStep
<1>4. CASE UNCHANGED <<unit, up, started>>
  <2>1. RestOK'
    BY <1>0, <1>1, <1>2, <1>4 DEF RestOK, rootVars
  <2>2. WorldInv' /\ UnitMoves
    <3>1. /\ unit' = unit /\ status' = status /\ up' = up /\ draws' = draws /\ files' = files
          /\ collected' = collected /\ admitted' = admitted /\ OwnResponse' = OwnResponse
      BY <1>1, <1>4 DEF OwnResponse
    <3>2. WorldOK' /\ UnitInv' /\ ReportInv' /\ GateInv'
      BY <1>0, <1>1, <3>1 DEF WorldInv, WorldOK, UnitInv, ReportInv, GateInv, AdmissionIsAuthorised,
                              Active
    <3> QED  BY <1>0, <3>1, <3>2, UnitsStay DEF WorldInv
  <2> QED  BY <1>1, <1>2, <1>4, <2>1, <2>2, WorldStep
<1> QED  BY <1>2, <1>3, <1>4

LEMMA ReconfigureStep ==
  ASSUME ActivationInv, Reconfigure
  PROVE  ActivationInv'
<1>1. /\ UNCHANGED worldVars /\ UNCHANGED rootVars /\ files' = files /\ started' = started
      /\ queued' = queued /\ collected' = collected /\ admitted' = admitted
      /\ authorised' = authorised
  BY DEF Reconfigure, worldVars, rootVars
<1>2. RestOK'
  <2>1. config' \in 1 .. MaxConfig
    BY BoundsAssumption DEF Reconfigure, ActivationInv, RestOK
  <2> QED  BY <1>1, <2>1 DEF ActivationInv, RestOK, rootVars
<1>3. WorldInv' /\ UnitMoves
  BY <1>1, WorldStays DEF ActivationInv
<1> QED  BY <1>1, <1>2, <1>3, WorldStep

(* A step of a running worker: the units stay.                             *)
LEMMA WorkerStep ==
  ASSUME ActivationInv, UNCHANGED <<unit, queued, config, started>>, UNCHANGED rootVars,
         collected \subseteq collected', admitted \subseteq admitted',
         files' \in Files, WorldInv'
  PROVE  ActivationInv'
<1>1. RestOK' /\ UnitMoves
  BY UnitsStay DEF ActivationInv, WorldInv, RestOK, rootVars
<1> QED  BY <1>1, WorldStep

(* The invocation of an active unit.                                       *)
LEMMA Invoked ==
  ASSUME WorldInv, NEW u \in Units, Active(u)
  PROVE  unit[u].inv \in Invocations
  BY BoundsAssumption DEF WorldInv, WorldOK, UnitInv, Instance, Invocations

LEMMA CollectStep ==
  ASSUME ActivationInv, Collect
  PROVE  ActivationInv'
<1> DEFINE i == unit["collector"].inv
<1>0. WorldInv /\ RestOK /\ WorldOK /\ UnitInv /\ GateInv /\ ReportInv
  BY DEF ActivationInv, WorldInv
<1>1. i \in Invocations
  BY <1>0, Invoked, Numbers DEF Collect
<1> HIDE DEF i
<1>2. /\ UNCHANGED <<unit, queued, config, started>> /\ UNCHANGED rootVars
      /\ files' = files /\ up' = up /\ draws' = draws /\ admitted' = admitted
      /\ authorised' = authorised /\ OwnResponse' = OwnResponse
      /\ status' = [status EXCEPT !["collector"] = [inv |-> i, state |-> "COLLECTING"]]
      /\ collected' = collected \union {i}
  BY DEF Collect, rootVars, OwnResponse, i
<1>3. [inv |-> i, state |-> "COLLECTING"] \in Record
  BY <1>1 DEF Record, StatusStates
<1>4. /\ status' \in [Units -> Record \union {None}] /\ status'["uploader"] = status["uploader"]
      /\ status'["collector"] = [inv |-> i, state |-> "COLLECTING"]
  BY <1>0, <1>2, <1>3, Numbers DEF WorldOK
<1>5. WorldOK' /\ UnitInv'
  BY <1>0, <1>1, <1>2, <1>4, SMTT(20) DEF WorldOK, UnitInv, Active
<1>6. GateInv'
  BY <1>0, <1>2, Zenon DEF GateInv, AdmissionIsAuthorised
<1>7. ReportInv'
  BY <1>0, <1>2, <1>4 DEF ReportInv
<1> QED  BY <1>0, <1>2, <1>5, <1>6, <1>7, WorkerStep DEF WorldInv, RestOK

(* The steps of the uploader.                                              *)
LEMMA UploaderLives ==
  ASSUME WorldInv, up.pc # "off"
  PROVE  unit["uploader"].inv \in Invocations /\ Active("uploader")
  BY Invoked, Numbers DEF WorldInv, WorldOK

LEMMA GateStepKeeps ==
  ASSUME ActivationInv, NEW p \in {"preflight", "request", "prove", "commit", "current", "load", "run"},
         up' \in Process, up'.pc = p, up'.config = up.config, up.pc # "off",
         UNCHANGED <<unit, queued, config, started, collected>>, UNCHANGED rootVars,
         files' \in Files, files'.commit = files.commit,
         status' \in [Units -> Record \union {None}], status'["collector"] = status["collector"],
         ReportInv', draws' \in 0 .. MaxInvocation, draws' <= unit["uploader"].inv,
         p \in {"preflight", "request"} => draws' < unit["uploader"].inv,
         admitted \subseteq admitted', admitted' \subseteq Invocations,
         AdmissionIsAuthorised',
         p \in {"prove", "commit", "current"} =>
           up'.request \in Request /\ up'.request.config = up'.config /\ up'.challenge > 0,
         p = "current" => \E a \in authorised : a.commit = OwnResponse',
         p \in {"load", "run"} => unit["uploader"].inv \in admitted'
  PROVE  ActivationInv'
<1>0. WorldInv /\ WorldOK /\ UnitInv /\ GateInv /\ authorised' = authorised
  BY DEF ActivationInv, WorldInv, rootVars
<1>1. WorldOK'
  BY <1>0, UploaderLives DEF WorldOK, Active
<1>2. UnitInv'
  BY <1>0 DEF UnitInv, Active
<1>3. GateInv'
  BY <1>0 DEF GateInv
<1> QED  BY <1>1, <1>2, <1>3, WorkerStep DEF WorldInv

LEMMA GateStepStep ==
  ASSUME ActivationInv, GateStep \/ RunUploader
  PROVE  ActivationInv'
<1> DEFINE i == unit["uploader"].inv
<1>0. WorldInv /\ RestOK /\ WorldOK /\ UnitInv /\ GateInv /\ ReportInv /\ AdmissionIsAuthorised
  BY DEF ActivationInv, WorldInv, GateInv
<1>1. up.pc # "off" /\ i \in Invocations /\ up \in Process
  <2>1. up.pc # "off"
    BY DEF GateStep, RunUploader, Preflight, ReadRequest, Respond, ReadCommit, Admit
  <2> QED  BY <1>0, <2>1, UploaderLives DEF WorldOK
<1>2. /\ UNCHANGED <<unit, queued, config, started, collected>> /\ UNCHANGED rootVars
      /\ authorised' = authorised
  BY DEF GateStep, RunUploader, Preflight, ReadRequest, Respond, ReadCommit, Admit, rootVars
<1>3. \A s \in StatusStates : [inv |-> i, state |-> s] \in Record
  BY <1>1 DEF Record
<1>4. CASE Preflight
  <2>1. /\ up' \in Process /\ up'.pc = "request" /\ up'.config = up.config
        /\ UNCHANGED <<files, draws, admitted>>
    BY <1>1, <1>4 DEF Preflight, Process, GatePhases
  <2>2. /\ status' \in [Units -> Record \union {None}] /\ status'["collector"] = status["collector"]
        /\ status'["uploader"] = [inv |-> i, state |-> "STOPPED"]
    BY <1>0, <1>3, <1>4, Numbers, SMTT(20) DEF Preflight, WorldOK, StatusStates
  <2>3. ReportInv'
    BY <1>0, <1>2, <2>1, <2>2 DEF ReportInv
  <2>4. /\ draws' \in 0 .. MaxInvocation /\ draws' <= i /\ draws' < i
        /\ files' \in Files /\ files'.commit = files.commit /\ admitted' \subseteq Invocations
        /\ AdmissionIsAuthorised'
    BY <1>0, <1>2, <1>4, <2>1 DEF Preflight, UnitInv, WorldOK, RestOK, AdmissionIsAuthorised
  <2> QED  BY <1>1, <1>2, <2>1, <2>2, <2>3, <2>4, GateStepKeeps
<1>5. CASE ReadRequest
  <2>1. /\ UNCHANGED <<files, status, admitted>> /\ draws' = draws + 1 /\ draws \in Nat
        /\ draws < i /\ draws' \in 1 .. MaxInvocation /\ draws' <= i
    BY <1>0, <1>1, <1>5, BoundsAssumption DEF ReadRequest, UnitInv, WorldOK, Invocations
  <2>2. files.request \in Request /\ files.request.config = up.config
    BY <1>0, <1>5 DEF ReadRequest, RestOK, Files
  <2>3. /\ up' \in Process /\ up'.pc = "prove" /\ up'.config = up.config
        /\ up'.request = files.request /\ up'.challenge = draws'
    <3>1. PICK d \in 0 .. MaxInvocation : d = draws'
      BY <2>1
    <3>2. PICK r \in Request : r = files.request
      BY <2>2
    <3>3. up' = [up EXCEPT !.pc = "prove", !.request = r, !.challenge = d]
      BY <1>5, <3>1, <3>2 DEF ReadRequest
    <3> QED  BY <1>1, <3>1, <3>2, <3>3, Zenon DEF Process, GatePhases
  <2>4. /\ ReportInv' /\ files' \in Files /\ files'.commit = files.commit
        /\ admitted' \subseteq Invocations /\ AdmissionIsAuthorised'
        /\ status' \in [Units -> Record \union {None}] /\ status'["collector"] = status["collector"]
    BY <1>0, <1>2, <2>1 DEF ReportInv, WorldOK, RestOK, AdmissionIsAuthorised
  <2> QED  BY <1>1, <1>2, <2>1, <2>2, <2>3, <2>4, GateStepKeeps
<1>6. CASE Respond
  <2>1. /\ UNCHANGED <<status, draws, admitted>>
        /\ up.request \in Request /\ up.request.config = up.config /\ up.challenge > 0
    BY <1>0, <1>6 DEF Respond, GateInv
  <2>2. /\ up' \in Process /\ up'.pc = "commit" /\ up'.config = up.config
        /\ up'.request = up.request /\ up'.challenge = up.challenge
    BY <1>1, <1>6 DEF Respond, Process, GatePhases
  <2>3. up.challenge \in 1 .. MaxInvocation
    BY <1>1, <2>1, BoundsAssumption DEF Process
  <2>4. OwnResponse \in Response
    BY <1>1, <2>1, <2>3 DEF OwnResponse, Response
  <2>5. files' \in Files /\ files'.commit = files.commit
    BY <1>0, <1>6, <2>4, SMTT(20) DEF Respond, RestOK, Files
  <2>6. /\ ReportInv' /\ admitted' \subseteq Invocations /\ AdmissionIsAuthorised'
        /\ status' \in [Units -> Record \union {None}] /\ status'["collector"] = status["collector"]
        /\ draws' \in 0 .. MaxInvocation /\ draws' <= i
    BY <1>0, <1>2, <2>1, Zenon DEF ReportInv, WorldOK, UnitInv, AdmissionIsAuthorised
  <2> QED  BY <1>1, <1>2, <2>1, <2>2, <2>5, <2>6, GateStepKeeps
<1>7. CASE ReadCommit
  <2>1. /\ UNCHANGED <<files, status, draws, admitted>>
        /\ up.request \in Request /\ up.request.config = up.config /\ up.challenge > 0
        /\ files.commit # None /\ files.commit = OwnResponse
    BY <1>0, <1>7 DEF ReadCommit, GateInv, MatchCommit
  <2>2. /\ up' \in Process /\ up'.pc = "current" /\ up'.config = up.config
        /\ up'.request = up.request /\ up'.challenge = up.challenge
    BY <1>1, <1>7 DEF ReadCommit, Process, GatePhases
  <2>3. \E a \in authorised : a.commit = OwnResponse'
    BY <1>0, <1>2, <2>1, <2>2, Zenon DEF GateInv, OwnResponse
  <2>4. /\ ReportInv' /\ admitted' \subseteq Invocations /\ AdmissionIsAuthorised'
        /\ status' \in [Units -> Record \union {None}] /\ status'["collector"] = status["collector"]
        /\ draws' \in 0 .. MaxInvocation /\ draws' <= i
        /\ files' \in Files /\ files'.commit = files.commit
    BY <1>0, <1>2, <2>1, Zenon DEF ReportInv, WorldOK, RestOK, UnitInv, AdmissionIsAuthorised
  <2> QED  BY <1>1, <1>2, <2>1, <2>2, <2>3, <2>4, GateStepKeeps, Zenon
<1>8. CASE Admit
  <2>1. UNCHANGED <<files, status, draws>> /\ admitted' = admitted \union {i}
    BY <1>8 DEF Admit
  <2>2. up' \in Process /\ up'.pc = "load" /\ up'.config = up.config
    BY <1>1, <1>8 DEF Admit, Process
  <2>3. \E a \in authorised : a.commit.inv = i /\ a.collector \in collected
    BY <1>0, <1>8 DEF Admit, GateInv, OwnResponse
  <2>4. AdmissionIsAuthorised'
    BY <1>0, <1>2, <2>1, <2>3, SMTT(20) DEF AdmissionIsAuthorised
  <2>5. /\ ReportInv' /\ admitted' \subseteq Invocations /\ admitted \subseteq admitted'
        /\ status' \in [Units -> Record \union {None}] /\ status'["collector"] = status["collector"]
        /\ draws' \in 0 .. MaxInvocation /\ draws' <= i
        /\ files' \in Files /\ files'.commit = files.commit
    BY <1>0, <1>1, <1>2, <2>1, Zenon DEF ReportInv, WorldOK, RestOK, UnitInv
  <2> QED  BY <1>1, <1>2, <2>1, <2>2, <2>4, <2>5, GateStepKeeps, Zenon
<1>9. CASE RunUploader
  <2>1. UNCHANGED <<files, draws, admitted>> /\ i \in admitted
    BY <1>0, <1>9 DEF RunUploader, GateInv
  <2>2. up' \in Process /\ up'.pc = "run" /\ up'.config = up.config
    BY <1>1, <1>9 DEF RunUploader, Process
  <2>3. PICK s \in {"WAITING_FIRST_UPLOAD", "RETRYING"} :
          status' = [status EXCEPT !["uploader"] = [inv |-> i, state |-> s]]
    BY <1>9, Zenon DEF RunUploader
  <2>4. /\ status' \in [Units -> Record \union {None}] /\ status'["collector"] = status["collector"]
        /\ status'["uploader"] = [inv |-> i, state |-> s]
    BY <1>0, <1>3, <2>3, Numbers DEF WorldOK, StatusStates
  <2>5. /\ ReportInv' /\ admitted' \subseteq Invocations /\ AdmissionIsAuthorised'
        /\ draws' \in 0 .. MaxInvocation /\ draws' <= i
        /\ files' \in Files /\ files'.commit = files.commit
    BY <1>0, <1>2, <2>1, <2>4 DEF ReportInv, WorldOK, RestOK, UnitInv, AdmissionIsAuthorised
  <2>6. admitted \subseteq admitted' /\ i \in admitted' /\ files'.commit = files.commit
    BY <2>1
  <2> QED  BY <1>1, <1>2, <2>2, <2>4, <2>5, <2>6, GateStepKeeps, Zenon
<1> QED  BY <1>4, <1>5, <1>6, <1>7, <1>8, <1>9 DEF GateStep

-----------------------------------------------------------------------------
(* The steps of the transaction.                                           *)
Looks == {"inspect_uploader", "inspect_collector"}
Returned == {"none", "ok", "unsafe", "recovery", "stopped", "crashed"}
RootFrame == UNCHANGED worldVars /\ config' = config /\ attempts' = attempts /\ started' = started

LEMMA RootPlain ==
  ASSUME ActivationInv, RootFrame, authorised' = authorised, files' \in Files,
         files'.commit = files.commit \/ files'.commit = None,
         tx' \in Transaction, result' \in Returned
  PROVE  WorldInv' /\ RestOK'
<1>1. WorldInv'
  BY WorldStays DEF ActivationInv, RootFrame
<1>2. RestOK'
  BY DEF ActivationInv, RestOK, RootFrame, worldVars, Returned
<1> QED  BY <1>1, <1>2

(* It goes on to another phase, or gives up and cleans up; what it has     *)
(* captured stays captured.                                                *)
LEMMA RootGoesOn ==
  ASSUME ActivationInv, RootFrame, WorldInv', RestOK', RootInv',
         tx.pc \in RootPhases \ Looks, tx'.owned = tx.owned, tx'.failed = tx.failed,
         \/ tx'.pc \in RootPhases \ Looks
         \/ tx'.pc = "clean_uploader"
  PROVE  ActivationInv'
<1>1. UnitMoves
  BY UnitsStay DEF RootFrame, worldVars, ActivationInv, WorldInv
<1>2. Accountable /\ ~LateCleaning' /\ \A u \in Units : ~Looking(u) /\ ~Looking(u)'
  BY DEF Accountable, LateCleaning, Looking, Looks, RootPhases
<1>3. LaunchInv' /\ CaptureInv'
  BY <1>1, <1>2, CapturesKept DEF RootFrame, worldVars
<1> QED  BY <1>3 DEF ActivationInv

LEMMA PhaseFields ==
  ASSUME tx \in Transaction, NEW p \in RootPhases \union CleanPhases \union {"idle"}, Phase(p)
  PROVE  /\ tx' \in Transaction /\ tx'.pc = p /\ tx'.owned = tx.owned /\ tx'.failed = tx.failed
         /\ tx'.config = tx.config /\ tx'.request = tx.request /\ tx'.response = tx.response
         /\ tx'.err = tx.err
  BY DEF Phase, Transaction

LEMMA FailFields ==
  ASSUME tx \in Transaction, NEW e \in {"unsafe", "recovery"}, FailWith(e)
  PROVE  /\ tx' \in Transaction /\ tx'.pc = "clean_uploader" /\ tx'.owned = tx.owned
         /\ tx'.failed = tx.failed
  BY Zenon DEF FailWith, Transaction, CleanPhases

LEMMA RootGivesUp ==
  ASSUME ActivationInv, RootFrame, WorldInv', RestOK', tx.pc \in RootPhases \ Looks,
         NEW e \in {"unsafe", "recovery"}, FailWith(e)
  PROVE  ActivationInv'
<1>1. /\ tx'.pc = "clean_uploader" /\ tx'.owned = tx.owned /\ tx'.failed = tx.failed
  BY FailFields DEF ActivationInv, RestOK
<1>2. RootInv'
  BY <1>1 DEF RootInv, RootPhases, Requested, Answered, Collecting, Rechecks
<1> QED  BY <1>1, <1>2, RootGoesOn

LEMMA RootFailsStep ==
  ASSUME ActivationInv, RootFails
  PROVE  ActivationInv'
<1>1. PICK e \in {"unsafe", "recovery"} : FailWith(e)
  BY DEF RootFails
<1>2. /\ RootFrame /\ authorised' = authorised /\ files' = files /\ result' = result
      /\ tx.pc \in RootPhases \ Looks
  BY DEF RootFails, RootFrame, RootPhases, Looks
<1>3. tx' \in Transaction /\ files' \in Files /\ result' \in Returned
  BY <1>1, <1>2, FailFields DEF ActivationInv, RestOK, Returned
<1> QED  BY <1>1, <1>2, <1>3, RootPlain, RootGivesUp

LEMMA ClearStep ==
  ASSUME ActivationInv, ClearRecord \/ ClearResponse
  PROVE  ActivationInv'
<1>0. RestOK /\ RootInv /\ tx \in Transaction /\ files \in Files
  BY DEF ActivationInv, RestOK
<1>1. /\ RootFrame /\ authorised' = authorised /\ result' = result /\ tx.pc = "pin"
      /\ tx.pc \in RootPhases \ Looks /\ result' \in Returned
  BY <1>0 DEF ClearRecord, ClearResponse, RootFrame, rootVars, RootPhases, Looks, RestOK, Returned
<1>2. files' \in Files /\ (files'.commit = files.commit \/ files'.commit = None)
  BY <1>0 DEF ClearRecord, ClearResponse, Files
<1>3. /\ tx' \in Transaction /\ tx'.owned = tx.owned /\ tx'.failed = tx.failed
      /\ tx'.err = tx.err /\ tx'.config = tx.config
      /\ tx'.pc \in {"pin", "start_uploader"}
  <2>1. CASE ClearRecord
    BY <1>0, <1>1, <2>1 DEF ClearRecord, rootVars
  <2>2. CASE ClearResponse
    <3>1. "start_uploader" \in RootPhases \union CleanPhases \union {"idle"}
      BY DEF RootPhases
    <3> QED  BY <1>0, <2>2, <3>1, PhaseFields DEF ClearResponse
  <2> QED  BY <2>1, <2>2
<1>4. RootInv'
  BY <1>0, <1>1, <1>3 DEF RootInv, RootFrame, RootPhases, Requested, Answered, Collecting, Rechecks
<1>5. tx'.pc \in RootPhases \ Looks
  BY <1>3 DEF RootPhases, Looks
<1> QED  BY <1>1, <1>2, <1>3, <1>4, <1>5, RootPlain, RootGoesOn

LEMMA RequestStep ==
  ASSUME ActivationInv, StageRequest
  PROVE  ActivationInv'
<1>0. RestOK /\ RootInv /\ tx \in Transaction /\ files \in Files
  BY DEF ActivationInv, RestOK
<1>1. /\ RootFrame /\ authorised' = authorised /\ result' \in Returned /\ tx.pc = "request"
      /\ tx.pc \in RootPhases \ Looks /\ tx.err = "none" /\ tx.config > 0 /\ attempts > 0
  BY <1>0 DEF StageRequest, RootFrame, RootPhases, Looks, RestOK, Returned, RootInv
<1>2. files' \in Files /\ files'.commit = files.commit
  BY <1>0, Zenon DEF StageRequest, Files
<1>3. attempts \in 1 .. MaxAttempts /\ tx.config \in 1 .. MaxConfig
  BY <1>0, <1>1, BoundsAssumption DEF RestOK, Transaction
<1>4. PICK r \in Request : r = [nonce |-> attempts, config |-> tx.config]
  BY <1>3, Zenon DEF Request
<1>5. /\ tx' \in Transaction /\ tx'.pc = "rename_request" /\ tx'.request = r
      /\ tx'.owned = tx.owned /\ tx'.failed = tx.failed /\ tx'.err = tx.err /\ tx'.config = tx.config
  <2>1. tx' = [tx EXCEPT !.pc = "rename_request", !.request = r]
    BY <1>4 DEF StageRequest
  <2> QED  BY <1>0, <2>1, Zenon DEF Transaction, RootPhases
<1>6. RootInv'
  BY <1>1, <1>5 DEF RootInv, RootFrame, RootPhases, Requested, Answered, Collecting, Rechecks
<1>7. tx'.pc \in RootPhases \ Looks
  BY <1>5 DEF RootPhases, Looks
<1> QED  BY <1>1, <1>2, <1>5, <1>6, <1>7, RootPlain, RootGoesOn

LEMMA RenameRequestStep ==
  ASSUME ActivationInv, RenameRequest
  PROVE  ActivationInv'
<1>0. RestOK /\ RootInv /\ tx \in Transaction /\ files \in Files
  BY DEF ActivationInv, RestOK
<1>1. /\ RootFrame /\ authorised' = authorised /\ result' \in Returned /\ tx.pc = "rename_request"
      /\ tx.pc \in RootPhases \ Looks /\ tx.request \in Request
  BY <1>0 DEF RenameRequest, RootFrame, RootPhases, Looks, RestOK, Returned, RootInv, Requested
<1>2. files' \in Files /\ files'.commit = files.commit
  BY <1>0, <1>1, Zenon DEF RenameRequest, Files
<1>3. CASE FailWith("recovery")
  BY <1>0, <1>1, <1>2, <1>3, FailFields, RootPlain, RootGivesUp
<1>4. CASE Phase("response")
  <2>1. "response" \in RootPhases \ Looks
    BY DEF RootPhases, Looks
  <2>2. /\ tx' \in Transaction /\ tx'.pc = "response" /\ tx'.owned = tx.owned
        /\ tx'.failed = tx.failed /\ tx'.config = tx.config /\ tx'.request = tx.request
        /\ tx'.err = tx.err
    BY <1>0, <1>4, <2>1, PhaseFields
  <2>3. RootInv'
    BY <1>0, <1>1, <2>1, <2>2 DEF RootInv, RootFrame, Requested, Answered, Collecting, Rechecks
  <2> QED  BY <1>1, <1>2, <2>1, <2>2, <2>3, RootPlain, RootGoesOn
<1> QED  BY <1>3, <1>4 DEF RenameRequest

LEMMA AwaitResponseStep ==
  ASSUME ActivationInv, AwaitResponse
  PROVE  ActivationInv'
<1>0. RestOK /\ RootInv /\ tx \in Transaction /\ files \in Files
  BY DEF ActivationInv, RestOK
<1>1. /\ RootFrame /\ authorised' = authorised /\ result' \in Returned /\ tx.pc = "response"
      /\ tx.pc \in RootPhases \ Looks /\ tx.request \in Request /\ files' = files
      /\ tx.err = "none" /\ tx.config > 0 /\ attempts > 0
  BY <1>0 DEF AwaitResponse, RootFrame, RootPhases, Looks, RestOK, Returned, RootInv, Requested
<1>2. PICK r \in Response : r = files.response
  BY <1>0 DEF AwaitResponse, Files
<1>3. /\ tx' \in Transaction /\ tx'.pc = "start_collector" /\ tx'.response = r
      /\ tx'.request = tx.request
      /\ tx'.owned = tx.owned /\ tx'.failed = tx.failed /\ tx'.err = tx.err /\ tx'.config = tx.config
  <2>1. tx' = [tx EXCEPT !.pc = "start_collector", !.response = r]
    BY <1>2 DEF AwaitResponse
  <2> QED  BY <1>0, <2>1, Zenon DEF Transaction, RootPhases
<1>4. RootInv'
  BY <1>1, <1>3 DEF RootInv, RootFrame, RootPhases, Requested, Answered, Collecting, Rechecks
<1>5. tx'.pc \in RootPhases \ Looks
  BY <1>3 DEF RootPhases, Looks
<1> QED  BY <1>0, <1>1, <1>3, <1>4, <1>5, RootPlain, RootGoesOn

(* The waits and the audit, which only go on to the next phase.            *)
LEMMA WaitStep ==
  ASSUME ActivationInv,
         AwaitCollector \/ FinalAudit \/ StageCommit \/ AwaitReady \/ RecheckUploader
  PROVE  ActivationInv'
<1>0. RestOK /\ RootInv /\ tx \in Transaction /\ files \in Files /\ WorldOK /\ ReportInv
  BY DEF ActivationInv, RestOK, WorldInv
<1>1. /\ RootFrame /\ authorised' = authorised /\ result' \in Returned
      /\ files' \in Files /\ files'.commit = files.commit
      /\ tx.pc \in {"collector", "audit", "commit", "ready", "recheck"}
      /\ collected' = collected /\ admitted' = admitted
  BY <1>0, Zenon DEF AwaitCollector, FinalAudit, StageCommit, AwaitReady, RecheckUploader, RootFrame,
                  RestOK, Returned, Files, worldVars
<1>2. PICK p \in {"audit", "commit", "rename_commit", "recheck", "recheck_collector"} :
        /\ Phase(p)
        /\ tx.pc = "collector" <=> p = "audit"
        /\ tx.pc = "audit" <=> p = "commit"
        /\ tx.pc = "commit" <=> p = "rename_commit"
        /\ tx.pc = "ready" <=> p = "recheck"
        /\ tx.pc = "recheck" <=> p = "recheck_collector"
  BY DEF AwaitCollector, FinalAudit, StageCommit, AwaitReady, RecheckUploader
<1>3. p \in RootPhases \ Looks /\ tx.pc \in RootPhases \ Looks
  BY <1>1 DEF RootPhases, Looks
<1>4. /\ tx' \in Transaction /\ tx'.pc = p /\ tx'.owned = tx.owned /\ tx'.failed = tx.failed
      /\ tx'.config = tx.config /\ tx'.request = tx.request /\ tx'.response = tx.response
      /\ tx'.err = tx.err
  BY <1>0, <1>2, <1>3, PhaseFields
<1>5. /\ tx.err = "none" /\ tx.config > 0 /\ attempts > 0 /\ tx.request \in Request
      /\ tx.pc \notin {"ready", "recheck"} => tx.response \in Response
  BY <1>0, <1>1, <1>3 DEF RootInv, Requested, Answered
<1>6. tx.owned["collector"] \in Instance /\ tx.owned["collector"].inv \in collected
  <2>1. CASE tx.pc = "collector"
    <3>1. AwaitCollector
      BY <2>1 DEF FinalAudit, StageCommit, AwaitReady, RecheckUploader
    <3>2. tx.owned["collector"] \in Instance
      BY <1>0, <3>1, Numbers DEF AwaitCollector, sameWorker, Transaction
    <3> QED  BY <1>0, <3>1, <3>2 DEF AwaitCollector, ReportInv
  <2>2. CASE tx.pc # "collector"
    BY <1>0, <1>1, <2>2 DEF RootInv, Collecting, Rechecks
  <2> QED  BY <2>1, <2>2
<1>7. p \in Rechecks =>
        tx.owned["uploader"] \in Instance /\ tx.owned["uploader"].inv \in admitted
  <2> SUFFICES ASSUME p \in Rechecks, tx.pc # "recheck"
               PROVE  tx.owned["uploader"] \in Instance /\ tx.owned["uploader"].inv \in admitted
    BY <1>0 DEF RootInv, Rechecks
  <2>1. AwaitReady
    BY <1>2 DEF AwaitCollector, FinalAudit, StageCommit, RecheckUploader, Rechecks
  <2>2. tx.owned["uploader"] \in Instance
    BY <1>0, <2>1, Numbers, Zenon DEF AwaitReady, sameWorker, Transaction
  <2> QED  BY <1>0, <2>1, <2>2, Zenon DEF AwaitReady, ReportInv
<1>8. RootInv'
  BY <1>1, <1>2, <1>4, <1>5, <1>6, <1>7 DEF RootInv, RootFrame, Requested, Answered, Collecting,
                                            Rechecks
<1> QED  BY <1>1, <1>3, <1>4, <1>8, RootPlain, RootGoesOn

LEMMA RenameCommitStep ==
  ASSUME ActivationInv, RenameCommit
  PROVE  ActivationInv'
<1> DEFINE a == [commit |-> tx.response, collector |-> tx.owned["collector"].inv]
<1>0. /\ RestOK /\ RootInv /\ tx \in Transaction /\ files \in Files
      /\ WorldInv /\ WorldOK /\ UnitInv /\ GateInv /\ ReportInv
  BY DEF ActivationInv, RestOK, WorldInv
<1>1. /\ RootFrame /\ result' \in Returned /\ tx.pc = "rename_commit"
      /\ tx.pc \in RootPhases \ Looks /\ tx.request \in Request /\ tx.response \in Response
      /\ tx.owned["collector"].inv \in collected
  BY <1>0 DEF RenameCommit, RootFrame, RootPhases, Looks, RestOK, Returned, RootInv, Requested,
              Answered, Collecting, Rechecks
<1>2. a \in [commit : Response, collector : Invocations] /\ a.commit = tx.response
      /\ a.collector \in collected
  BY <1>0, <1>1, Zenon DEF WorldOK
<1>3. authorised' = authorised \union {a}
  BY DEF RenameCommit
<1> HIDE DEF a
<1>4. files' \in Files /\ files'.commit = tx.response
  BY <1>0, <1>1, Zenon DEF RenameCommit, Files
<1>5. WorldInv'
  <2>1. /\ unit' = unit /\ status' = status /\ up' = up /\ draws' = draws
        /\ collected' = collected /\ admitted' = admitted /\ OwnResponse' = OwnResponse
    BY <1>1 DEF RootFrame, worldVars, OwnResponse
  <2>2. WorldOK' /\ UnitInv' /\ ReportInv'
    BY <1>0, <2>1 DEF WorldOK, UnitInv, ReportInv, Active
  <2>3. AdmissionIsAuthorised'
    BY <1>0, <1>3, <2>1 DEF GateInv, AdmissionIsAuthorised
  <2>4. \E b \in authorised' : b.commit = files'.commit
    BY <1>2, <1>3, <1>4
  <2>5. GateInv'
    BY <1>0, <1>2, <1>3, <2>1, <2>3, <2>4 DEF GateInv
  <2> QED  BY <2>2, <2>5 DEF WorldInv
<1>6. ASSUME tx' \in Transaction
      PROVE  RestOK'
  BY <1>0, <1>1, <1>2, <1>3, <1>4, <1>6 DEF RestOK, RootFrame, worldVars, Returned
<1>7. CASE FailWith("recovery")
  BY <1>0, <1>1, <1>5, <1>6, <1>7, FailFields, RootGivesUp, Zenon
<1>8. CASE Phase("ready")
  <2>1. "ready" \in RootPhases \ Looks
    BY DEF RootPhases, Looks
  <2>2. /\ tx' \in Transaction /\ tx'.pc = "ready" /\ tx'.owned = tx.owned
        /\ tx'.failed = tx.failed /\ tx'.config = tx.config /\ tx'.request = tx.request
        /\ tx'.err = tx.err
    BY <1>0, <1>8, <2>1, PhaseFields
  <2>3. collected' = collected
    BY <1>1 DEF RootFrame, worldVars
  <2>4. RootInv'
    BY <1>0, <1>1, <2>1, <2>2, <2>3, Zenon DEF RootInv, RootFrame, Requested, Answered, Collecting, Rechecks
  <2> QED  BY <1>1, <1>5, <1>6, <2>1, <2>2, <2>4, RootGoesOn, Zenon
<1> QED  BY <1>7, <1>8 DEF RenameCommit

(* The lease is given back.                                                *)
LEMMA IdleFields ==
  /\ Idle \in Transaction /\ Idle.pc = "idle" /\ Idle.err = "none"
  /\ \A u \in Units : Idle.owned[u] \notin Instance
<1>1. 0 \in 0 .. MaxConfig /\ None \notin Instance
  BY BoundsAssumption, NoneAssumption
<1> QED  BY <1>1 DEF Idle, Transaction

LEMMA ReturnStep ==
  ASSUME ActivationInv, RootFrame, authorised' = authorised, files' = files, tx' = Idle,
         result' \in Returned
  PROVE  ActivationInv'
<1>1. WorldInv' /\ RestOK'
  BY IdleFields, RootPlain, Zenon DEF ActivationInv, RestOK
<1>2. RootInv'
  BY IdleFields DEF RootInv, RootPhases, Requested, Answered, Collecting, Rechecks
<1>3. LaunchInv'
  BY IdleFields, Zenon DEF ActivationInv, LaunchInv, RootFrame, worldVars
<1>4. CaptureInv'
  BY IdleFields DEF CaptureInv, Accountable, RootPhases, CleanPhases
<1> QED  BY <1>1, <1>2, <1>3, <1>4 DEF ActivationInv

LEMMA SucceedStep ==
  ASSUME ActivationInv, Succeed \/ RootCrashes
  PROVE  ActivationInv'
  BY ReturnStep DEF Succeed, RootCrashes, RootFrame, Returned

LEMMA RefuseStep ==
  ASSUME ActivationInv, Refuse
  PROVE  ActivationInv'
<1>1. /\ UNCHANGED worldVars /\ files' = files /\ config' = config /\ tx' = tx
      /\ attempts' = attempts /\ authorised' = authorised /\ started' = started
      /\ queued' = queued /\ unit' = unit /\ collected' = collected /\ admitted' = admitted
      /\ result' = "unsafe"
  BY DEF Refuse, worldVars
<1>2. WorldInv' /\ RestOK'
  BY <1>1, WorldStays, Zenon DEF ActivationInv, RestOK, Returned
<1>3. RootInv' /\ LaunchInv' /\ CaptureInv'
  BY <1>1, Zenon DEF ActivationInv, RootInv, LaunchInv, CaptureInv, Accountable, Captured, Looking,
                     Gone, Live, Active
<1> QED  BY <1>2, <1>3 DEF ActivationInv

LEMMA StartStep ==
  ASSUME ActivationInv, Start
  PROVE  ActivationInv'
<1>0. RestOK /\ WorldInv /\ LaunchInv
  BY DEF ActivationInv
<1>1. /\ UNCHANGED worldVars /\ files' = files /\ config' = config /\ authorised' = authorised
      /\ queued' = queued /\ unit' = unit
      /\ result' = "none" /\ started' = {} /\ attempts' = attempts + 1 /\ attempts' \in 1 .. MaxAttempts
  BY <1>0, BoundsAssumption DEF Start, worldVars, RestOK
<1>2. WorldInv'
  BY <1>0, <1>1, WorldStays
<1>3. /\ tx' \in Transaction /\ tx'.pc = "pin" /\ tx'.err = "none" /\ tx'.config > 0
      /\ \A u \in Units : tx'.owned[u] \notin Instance
  <2>1. PICK n \in 1 .. MaxConfig : n = config
    BY <1>0 DEF RestOK
  <2>2. tx' = [Idle EXCEPT !.pc = "pin", !.config = n]
    BY <2>1 DEF Start
  <2>3. n \in 0 .. MaxConfig /\ n > 0
    BY BoundsAssumption
  <2> QED  BY <2>2, <2>3, IdleFields, Zenon DEF Transaction, RootPhases
<1>4. RestOK'
  BY <1>0, <1>1, <1>3 DEF RestOK
<1>5. RootInv'
  BY <1>1, <1>3 DEF RootInv, Requested, Answered, Collecting, Rechecks
<1>6. LaunchInv'
  <2>1. attempts \in Nat /\ attempts' = attempts + 1
    BY <1>0, <1>1, BoundsAssumption DEF RestOK
  <2>2. \A n \in 1 .. MaxAttempts : n <= attempts => n <= attempts'
    BY <2>1
  <2>3. \A u \in Units, n \in 1 .. MaxAttempts : <<u, n>> \in queued' => n <= attempts'
    BY <1>0, <1>1, <2>2, Zenon DEF LaunchInv
  <2> QED  BY <1>1, <1>3, <2>3, Zenon DEF LaunchInv
<1>7. \A u \in Units : Captured(u)'
  <2>1. \A u \in Units : <<u, attempts'>> \notin queued'
    BY <1>0, <1>1 DEF LaunchInv, RestOK
  <2> QED  BY <1>1, <2>1 DEF Captured
<1>8. CaptureInv'
  BY <1>3, <1>7 DEF CaptureInv
<1> QED  BY <1>2, <1>4, <1>5, <1>6, <1>8 DEF ActivationInv

LEMMA StopStep ==
  ASSUME ActivationInv, Stop
  PROVE  ActivationInv'
<1>0. RestOK /\ WorldInv /\ WorldOK /\ LaunchInv
  BY DEF ActivationInv, WorldInv
<1>1. /\ UNCHANGED worldVars /\ files' = files /\ config' = config /\ authorised' = authorised
      /\ queued' = queued /\ unit' = unit
      /\ result' = "none" /\ started' = {} /\ attempts' = attempts
  BY DEF Stop, worldVars
<1>2. WorldInv'
  BY <1>0, <1>1, WorldStays
<1>3. /\ tx' \in Transaction /\ tx'.pc = "clean_uploader" /\ tx'.err = "none" /\ tx'.owned = unit
  BY <1>0, IdleFields, Zenon DEF Stop, Transaction, CleanPhases, WorldOK
<1>4. RestOK'
  BY <1>0, <1>1, <1>3 DEF RestOK
<1>5. RootInv'
  BY <1>3 DEF RootInv, RootPhases, Requested, Answered, Collecting, Rechecks
<1>6. LaunchInv'
  <2>1. \A u \in Units : unit[u].inv <= unit[u].inv
    BY <1>0, Numbers DEF WorldOK
  <2>2. \A u \in Units, i \in Invocations : <<u, i>> \notin started'
    BY <1>1, Zenon
  <2>3. \A u \in Units : tx'.owned[u].inv <= unit'[u].inv
    BY <1>1, <1>3, <2>1, Zenon
  <2> QED  BY <1>0, <1>1, <2>2, <2>3, Zenon DEF LaunchInv
<1>7. CaptureInv'
  BY <1>3 DEF CaptureInv, Accountable, RootPhases
<1> QED  BY <1>2, <1>4, <1>5, <1>6, <1>7 DEF ActivationInv

(* A worker is started and then looked at.                                 *)
StartOf(u) == IF u = "uploader" THEN "start_uploader" ELSE "start_collector"
LookAt(u) == IF u = "uploader" THEN "inspect_uploader" ELSE "inspect_collector"
AfterLook(u) == IF u = "uploader" THEN "request" ELSE "collector"

(* One start more.                                                         *)
LEMMA OneMore ==
  ASSUME NEW old, old \subseteq Units \X Invocations, NEW u \in Units, NEW j \in Invocations,
         NEW new, new = old \union {<<u, j>>}
  PROVE  /\ new \subseteq Units \X Invocations
         /\ \A v \in Units, i \in Invocations : <<v, i>> \in new => <<v, i>> \in old \/ (v = u /\ i = j)
  OBVIOUS

LEMMA StartWorkerStep ==
  ASSUME ActivationInv, NEW u \in Units, StartWorker(u, StartOf(u), LookAt(u))
  PROVE  ActivationInv'
<1>0. /\ RestOK /\ RootInv /\ tx \in Transaction /\ WorldInv /\ WorldOK /\ LaunchInv /\ CaptureInv
  BY DEF ActivationInv, RestOK, WorldInv
<1>1. PICK failed \in BOOLEAN :
        /\ tx' = [tx EXCEPT !.pc = LookAt(u), !.failed = failed, !.owned[u] = NoInstance]
        /\ \/ Stopped(u) /\ Launch(u) /\ started' = started \union {<<u, unit[u].inv + 1>>}
              /\ UNCHANGED queued
           \/ Active(u) /\ UNCHANGED <<unit, up, started, queued>>
           \/ failed /\ queued' \in {queued, queued \union {<<u, attempts>>}} /\ UNCHANGED <<unit, up, started>>
  BY Zenon DEF StartWorker
<1>2. /\ UNCHANGED <<files, status, config, draws, result, attempts, collected, authorised, admitted>>
      /\ tx.pc = StartOf(u) /\ tx.pc \in RootPhases /\ tx.pc \notin Looks
  BY DEF StartWorker, StartOf, RootPhases, Looks
<1>3. /\ tx' \in Transaction /\ tx'.pc = LookAt(u) /\ tx'.failed = failed
      /\ tx'.owned[u] = NoInstance /\ \A v \in Units \ {u} : tx'.owned[v] = tx.owned[v]
      /\ tx'.config = tx.config /\ tx'.request = tx.request /\ tx'.response = tx.response
      /\ tx'.err = tx.err
  <2>1. NoInstance \in Instance /\ LookAt(u) \in RootPhases
    BY BoundsAssumption DEF NoInstance, Instance, LookAt, RootPhases
  <2> QED  BY <1>0, <1>1, <2>1, Zenon DEF Transaction
<1>4. attempts > 0 /\ attempts \in 1 .. MaxAttempts /\ tx.err = "none" /\ tx.config > 0
  <2>1. attempts > 0 /\ tx.err = "none" /\ tx.config > 0
    BY <1>0, <1>2 DEF RootInv
  <2> QED  BY <1>0, <2>1, BoundsAssumption DEF RestOK
<1>5. /\ WorldInv' /\ UnitMoves
      /\ started' \subseteq Units \X Invocations
      /\ \A v \in Units, i \in Invocations : <<v, i>> \in started' =>
           <<v, i>> \in started \/ (v = u /\ i <= unit'[v].inv)
  <2>1. CASE Stopped(u) /\ Launch(u) /\ started' = started \union {<<u, unit[u].inv + 1>>}
    <3>1. WorldInv' /\ UnitMoves
      BY <1>0, <1>2, <2>1, LaunchWorld, Zenon
    <3>2. unit'[u].inv = unit[u].inv + 1 /\ unit[u].inv + 1 \in Invocations
      BY <1>0, <2>1, Launched, Zenon
    <3>3. /\ started' \subseteq Units \X Invocations
          /\ \A v \in Units, i \in Invocations : <<v, i>> \in started' =>
               <<v, i>> \in started \/ (v = u /\ i = unit'[u].inv)
      <4>1. PICK j \in Invocations : j = unit[u].inv + 1
        BY <3>2
      <4>2. started' = started \union {<<u, j>>} /\ started \subseteq Units \X Invocations
            /\ unit'[u].inv = j
        BY <1>0, <2>1, <3>2, <4>1, Zenon DEF RestOK
      <4>3. /\ started' \subseteq Units \X Invocations
            /\ \A v \in Units, i \in Invocations : <<v, i>> \in started' =>
                 <<v, i>> \in started \/ (v = u /\ i = j)
        BY <4>2, OneMore
      <4> QED  BY <4>2, <4>3, Zenon
    <3>4. \A i \in Invocations : i = unit'[u].inv => i <= unit'[u].inv
      BY Numbers
    <3> QED  BY <3>1, <3>3, <3>4, Zenon
  <2>2. CASE UNCHANGED <<unit, up, started>>
    <3>1. /\ unit' = unit /\ status' = status /\ up' = up /\ draws' = draws /\ files' = files
          /\ collected' = collected /\ admitted' = admitted /\ OwnResponse' = OwnResponse
      BY <1>2, <2>2 DEF OwnResponse
    <3>2. WorldOK' /\ UnitInv' /\ ReportInv' /\ GateInv'
      BY <1>0, <1>2, <3>1, Zenon DEF WorldInv, WorldOK, UnitInv, ReportInv, GateInv, AdmissionIsAuthorised,
                              Active
    <3> QED  BY <1>0, <2>2, <3>1, <3>2, UnitsStay, Zenon DEF WorldInv, RestOK
  <2> QED  BY <1>1, <2>1, <2>2
<1>6. queued' \subseteq queued \union {<<u, attempts>>} /\ (~failed => queued' = queued)
  BY <1>1
<1>7. RestOK'
  <2>1. queued' \subseteq Units \X (1 .. MaxAttempts)
    BY <1>0, <1>4, <1>6 DEF RestOK
  <2> QED  BY <1>0, <1>2, <1>3, <1>5, <2>1, Zenon DEF RestOK
<1>8. RootInv'
  BY <1>0, <1>2, <1>3, <1>4, Zenon DEF RootInv, StartOf, LookAt, RootPhases, Requested, Answered, Collecting, Rechecks
<1>9. LaunchInv'
  <2>1. \A v \in Units : tx'.owned[v] = tx.owned[v] \/ Numbered(tx'.owned[v], v)
    BY <1>0, <1>3, NumberedInstances, Zenon
  <2>2. attempts' = attempts /\ attempts \in Nat
    BY <1>2, <1>4
  <2> QED  BY <1>0, <1>5, <1>6, <2>1, <2>2, NumbersKept, Zenon
<1>10. ASSUME NEW v \in Units
       PROVE  Captured(v)'
  <2>1. Captured(v) /\ ~Looking(v)
    BY <1>0, <1>2 DEF CaptureInv, Accountable, Looking, Looks
  <2>2. Looking(v)' <=> v = u
    BY <1>3 DEF Looking, LookAt, Units
  <2>3. ~(Looking(v)' /\ tx'.failed) => <<v, attempts'>> \notin queued'
    BY <1>2, <1>3, <1>6, <2>1, <2>2, Zenon DEF Captured
  <2>4. ASSUME ~Looking(v)', NEW i \in Invocations, <<v, i>> \in started', Live(v, i)'
        PROVE  tx'.owned[v] \in Instance /\ tx'.owned[v].inv = i
    <3>1. v # u /\ <<v, i>> \in started /\ i <= unit[v].inv
      BY <1>0, <1>5, <2>2, <2>4, Zenon DEF LaunchInv
    <3>2. Live(v, i)
      BY <1>5, <2>4, <3>1, Numbers DEF UnitMoves
    <3> QED  BY <1>3, <2>1, <3>1, <3>2, Zenon DEF Captured
  <2> QED  BY <2>3, <2>4 DEF Captured
<1>11. CaptureInv'
  BY <1>3, <1>10, Zenon DEF CaptureInv, LookAt
<1> QED  BY <1>5, <1>7, <1>8, <1>9, <1>11, Zenon DEF ActivationInv

LEMMA InspectWorkerStep ==
  ASSUME ActivationInv, NEW u \in Units, InspectWorker(u, LookAt(u), AfterLook(u))
  PROVE  ActivationInv'
<1>0. /\ RestOK /\ RootInv /\ tx \in Transaction /\ WorldInv /\ WorldOK /\ LaunchInv /\ CaptureInv
  BY DEF ActivationInv, RestOK, WorldInv
<1>1. /\ RootFrame /\ authorised' = authorised /\ files' = files /\ result' = result
      /\ tx.pc = LookAt(u) /\ tx.pc \in RootPhases
      /\ unit' = unit /\ queued' = queued /\ started' = started /\ attempts' = attempts
  BY Zenon DEF InspectWorker, RootFrame, LookAt, RootPhases, worldVars
<1>2. tx.err = "none" /\ tx.config > 0 /\ attempts > 0
  BY <1>0, <1>1 DEF RootInv
<1>2a. UnitMoves /\ attempts \in Nat
  BY <1>0, <1>1, UnitsStay DEF RestOK
<1>3. CASE ~tx.failed /\ Active(u) /\ tx' = [tx EXCEPT !.pc = AfterLook(u), !.owned[u] = unit[u]]
  <2>1. /\ tx' \in Transaction /\ tx'.pc = AfterLook(u) /\ tx'.failed = tx.failed
        /\ tx'.owned[u] = unit[u] /\ \A v \in Units \ {u} : tx'.owned[v] = tx.owned[v]
        /\ tx'.config = tx.config /\ tx'.request = tx.request /\ tx'.response = tx.response
        /\ tx'.err = tx.err
    <3>1. unit[u] \in Instance /\ AfterLook(u) \in RootPhases
      BY <1>0 DEF WorldOK, AfterLook, RootPhases
    <3> QED  BY <1>0, <1>3, <3>1, Zenon DEF Transaction
  <2>2. WorldInv' /\ RestOK'
    BY <1>0, <1>1, <2>1, RootPlain, Zenon DEF RestOK, Returned
  <2>3. RootInv'
    BY <1>0, <1>1, <1>2, <2>1, Zenon DEF RootInv, AfterLook, LookAt, RootPhases, Requested, Answered, Collecting, Rechecks
  <2>4. LaunchInv'
    <3>1. \A v \in Units : tx'.owned[v] = tx.owned[v] \/ Numbered(tx'.owned[v], v)
      BY <1>0, <2>1, NumberedInstances, Zenon
    <3> QED  BY <1>0, <1>1, <1>2a, <3>1, NumbersKept, Zenon
  <2>5. ASSUME NEW v \in Units
        PROVE  Captured(v)'
    <3>1. Captured(v) /\ (v # u => ~Looking(v)) /\ ~Looking(v)'
      BY <1>0, <1>1, <2>1, Zenon DEF CaptureInv, Accountable, Looking, LookAt, AfterLook, Units
    <3>2. <<v, attempts'>> \notin queued'
      BY <1>1, <1>3, <3>1 DEF Captured
    <3>3. ASSUME NEW i \in Invocations, <<v, i>> \in started', Live(v, i)'
          PROVE  tx'.owned[v] \in Instance /\ tx'.owned[v].inv = i
      <4>1. Live(v, i) /\ unit[v] \in Instance
        BY <1>0, <1>1, <3>3 DEF Live, Active, WorldOK
      <4>2. CASE v = u
        BY <2>1, <4>1, <4>2, Zenon DEF Live
      <4>3. CASE v # u
        BY <1>1, <2>1, <3>1, <3>3, <4>1, <4>3, Zenon DEF Captured
      <4> QED  BY <4>2, <4>3
    <3> QED  BY <3>1, <3>2, <3>3, Zenon DEF Captured
  <2>6. CaptureInv'
    BY <2>1, <2>5, Zenon DEF CaptureInv, AfterLook
  <2> QED  BY <2>2, <2>3, <2>4, <2>6 DEF ActivationInv
<1>4. ASSUME NEW seen \in {NoInstance, unit[u]},
             tx' = [tx EXCEPT !.pc = "clean_uploader", !.err = "recovery", !.owned[u] = seen]
      PROVE  ActivationInv'
  <2>1. /\ tx' \in Transaction /\ tx'.pc = "clean_uploader" /\ tx'.err = "recovery"
        /\ tx'.owned[u] = seen /\ \A v \in Units \ {u} : tx'.owned[v] = tx.owned[v]
    <3>1. seen \in Instance
      BY <1>0, BoundsAssumption DEF WorldOK, NoInstance, Instance
    <3> QED  BY <1>0, <1>4, <3>1, Zenon DEF Transaction, CleanPhases
  <2>2. WorldInv' /\ RestOK'
    BY <1>0, <1>1, <2>1, RootPlain, Zenon DEF RestOK, Returned
  <2>3. RootInv'
    BY <2>1 DEF RootInv, RootPhases, Requested, Answered, Collecting, Rechecks
  <2>4. LaunchInv'
    <3>1. \A v \in Units : tx'.owned[v] = tx.owned[v] \/ Numbered(tx'.owned[v], v)
      BY <1>0, <1>4, <2>1, NumberedInstances
    <3> QED  BY <1>0, <1>1, <1>2a, <3>1, NumbersKept, Zenon
  <2>5. CaptureInv'
    BY <2>1, Zenon DEF CaptureInv, Accountable, RootPhases
  <2> QED  BY <2>2, <2>3, <2>4, <2>5 DEF ActivationInv
<1> QED  BY <1>3, <1>4, Zenon DEF InspectWorker

(* The cleanup, one unit after the other.                                  *)
TurnOf(u) == IF u = "uploader" THEN {"clean_uploader", "stop_uploader", "join_uploader"}
                               ELSE {"clean_collector", "stop_collector", "join_collector"}

LEMMA CleanedStep ==
  ASSUME ActivationInv, NEW u \in Units, RootFrame, authorised' = authorised, files' = files,
         tx.pc \in TurnOf(u), NEW e, e = tx.err \/ e = "recovery", e # "recovery" => Gone(u),
         Cleaned(u, e)
  PROVE  ActivationInv'
<1>0. /\ RestOK /\ tx \in Transaction /\ LaunchInv /\ CaptureInv
  BY DEF ActivationInv, RestOK
<1>1. e \in {"none", "unsafe", "recovery"}
  <2>1. tx.err \in {"none", "unsafe", "recovery"}
    BY <1>0, Zenon DEF Transaction
  <2> QED  BY <2>1, Zenon
<1>2. CASE u = "uploader"
  <2>1. /\ tx' \in Transaction /\ tx'.pc = "clean_collector" /\ tx'.err = e /\ tx'.owned = tx.owned
        /\ tx'.failed = tx.failed /\ result' = result
    BY <1>0, <1>1, <1>2, ZenonT(30) DEF Cleaned, Transaction, CleanPhases
  <2>2. /\ unit' = unit /\ queued' = queued /\ started' = started /\ attempts' = attempts
    BY DEF RootFrame, worldVars
  <2>3. WorldInv' /\ RestOK'
    BY <1>0, <2>1, RootPlain DEF RestOK, Returned
  <2>4. RootInv'
    BY <2>1, Zenon DEF RootInv, RootPhases, Requested, Answered, Collecting, Rechecks
  <2>5. LaunchInv'
    BY <1>0, <2>1, <2>2, Zenon DEF LaunchInv
  <2>6. ASSUME Accountable', NEW v \in Units
        PROVE  Captured(v)'
    <3>1. tx.err = "unsafe" /\ Accountable
      BY <1>2, <2>1, <2>6 DEF Accountable, RootPhases, CleanPhases, TurnOf
    <3>2. Captured(v) /\ ~Looking(v) /\ ~Looking(v)'
      BY <1>0, <1>2, <2>1, <3>1 DEF CaptureInv, Looking, TurnOf
    <3> QED  BY <2>1, <2>2, <3>2, Zenon DEF Captured, Live, Active
  <2>7. e # "recovery" => Gone("uploader")'
    BY <1>2, <2>1, <2>2, Zenon DEF Gone, Live, Active
  <2>8. CaptureInv'
    BY <2>1, <2>6, <2>7, Zenon DEF CaptureInv
  <2> QED  BY <2>3, <2>4, <2>5, <2>8 DEF ActivationInv
<1>3. CASE u # "uploader"
  <2>1. tx' = Idle /\ result' \in Returned
    BY <1>1, <1>3 DEF Cleaned, Returned
  <2> QED  BY <2>1, ReturnStep
<1> QED  BY <1>2, <1>3

(* Within the turn of a unit the cleanup goes on while the unit may end.   *)
LEMMA TurnGoesOn ==
  ASSUME ActivationInv, NEW u \in Units, tx.pc \in TurnOf(u), NEW p \in TurnOf(u), Phase(p),
         WorldInv', UnitMoves,
         UNCHANGED <<queued, files, config, result, attempts, authorised, started, collected, admitted>>
  PROVE  ActivationInv'
<1>0. RestOK /\ tx \in Transaction
  BY DEF ActivationInv, RestOK
<1>1. p \in CleanPhases /\ tx.pc \in CleanPhases
  BY DEF TurnOf, CleanPhases
<1>2. /\ tx' \in Transaction /\ tx'.pc = p /\ tx'.owned = tx.owned /\ tx'.failed = tx.failed
      /\ tx'.err = tx.err
  BY <1>0, <1>1, PhaseFields
<1>3. RestOK'
  BY <1>0, <1>2 DEF RestOK
<1>4. /\ Accountable' => Accountable
      /\ LateCleaning' => LateCleaning
      /\ \A v \in Units : ~Looking(v) /\ ~Looking(v)'
  <2>1. p \notin RootPhases /\ tx.pc \notin RootPhases
    BY <1>1 DEF CleanPhases, RootPhases
  <2>2. LateCleaning' => LateCleaning
    BY <1>2 DEF LateCleaning, TurnOf
  <2> QED  BY <1>1, <1>2, <2>1, <2>2 DEF Accountable, Looking, CleanPhases
<1>5. LaunchInv' /\ CaptureInv'
  BY <1>2, <1>4, CapturesKept, Zenon
<1>6. RootInv'
  BY <1>1, <1>2 DEF RootInv, CleanPhases, RootPhases, Requested, Answered, Collecting, Rechecks
<1> QED  BY <1>3, <1>5, <1>6 DEF ActivationInv

CleanOf(u) == IF u = "uploader" THEN "clean_uploader" ELSE "clean_collector"
StopOf(u) == IF u = "uploader" THEN "stop_uploader" ELSE "stop_collector"
JoinOf(u) == IF u = "uploader" THEN "join_uploader" ELSE "join_collector"

(* A unit that is stopped, or of which nothing was captured, leaves        *)
(* nothing behind.                                                         *)
LEMMA StoppedIsGone ==
  ASSUME NEW u \in Units, tx.owned[u] = None \/ Stopped(u)
  PROVE  Gone(u)
  BY NoneAssumption DEF Gone, Live, Active, Stopped

LEMMA CleanupStep ==
  ASSUME ActivationInv, NEW u \in Units,
         \/ CleanWorker(u, CleanOf(u), StopOf(u))
         \/ StopWorker(u, StopOf(u), JoinOf(u))
         \/ JoinWorker(u, JoinOf(u))
  PROVE  ActivationInv'
<1>0. /\ tx.pc \in TurnOf(u) /\ StopOf(u) \in TurnOf(u) /\ JoinOf(u) \in TurnOf(u) /\ WorldInv
      /\ UNCHANGED <<queued, files, config, attempts, authorised, started, collected, admitted, draws>>
  BY Zenon DEF CleanWorker, StopWorker, JoinWorker, CleanOf, StopOf, JoinOf, TurnOf, worldVars, ActivationInv
<1>1. CASE CleanWorker(u, CleanOf(u), StopOf(u))
  <2>1. RootFrame
    BY <1>1 DEF CleanWorker, RootFrame
  <2>2. CASE (tx.owned[u] = None \/ Stopped(u)) /\ Cleaned(u, tx.err)
    BY <1>0, <2>1, <2>2, StoppedIsGone, CleanedStep
  <2>3. CASE Cleaned(u, "recovery")
    BY <1>0, <2>1, <2>3, CleanedStep
  <2>4. CASE Phase(StopOf(u)) /\ UNCHANGED result
    <3>1. WorldInv' /\ UnitMoves
      BY <1>0, <2>1, WorldStays DEF RootFrame
    <3> QED  BY <1>0, <2>4, <3>1, TurnGoesOn
  <2> QED  BY <1>1, <2>2, <2>3, <2>4 DEF CleanWorker
<1>2. CASE StopWorker(u, StopOf(u), JoinOf(u))
  <2>1. CASE Active(u) /\ Ends(u, "inactive", TRUE) /\ Phase(JoinOf(u)) /\ UNCHANGED result
    <3>1. WorldInv' /\ UnitMoves
      BY <1>0, <2>1, EndWorld, Zenon
    <3> QED  BY <1>0, <2>1, <3>1, TurnGoesOn
  <2>2. CASE UNCHANGED <<unit, up, status>>
    <3>1. RootFrame /\ UNCHANGED worldVars
      BY <1>0, <2>2 DEF RootFrame, worldVars
    <3>2. WorldInv' /\ UnitMoves
      BY <1>0, <3>1, WorldStays
    <3>3. CASE Phase(JoinOf(u)) /\ UNCHANGED result
      BY <1>0, <3>2, <3>3, TurnGoesOn
    <3>4. CASE Cleaned(u, "recovery")
      BY <1>0, <3>1, <3>4, CleanedStep
    <3> QED  BY <1>2, <3>3, <3>4, Zenon DEF StopWorker
  <2> QED  BY <1>2, <2>1, <2>2, Zenon DEF StopWorker
<1>3. CASE JoinWorker(u, JoinOf(u))
  <2>1. RootFrame
    BY <1>3, Zenon DEF JoinWorker, RootFrame
  <2>2. CASE unit[u].active = "inactive" /\ Cleaned(u, tx.err)
    BY <1>0, <2>1, <2>2, StoppedIsGone, CleanedStep, Zenon DEF Stopped
  <2>3. CASE Cleaned(u, "recovery")
    BY <1>0, <2>1, <2>3, CleanedStep
  <2> QED  BY <1>3, <2>2, <2>3, Zenon DEF JoinWorker
<1> QED  BY <1>1, <1>2, <1>3

-----------------------------------------------------------------------------
LEMMA ActivationInitially == Init => ActivationInv
<1> SUFFICES ASSUME Init
             PROVE  ActivationInv
  OBVIOUS
<1>1. /\ OffProcess \in Process /\ OffProcess.pc = "off" /\ NoInstance \in Instance
      /\ NoInstance.inv = 0 /\ NoInstance.active = "inactive"
  BY BoundsAssumption DEF OffProcess, Process, NoInstance, Instance
<1>2. \A u \in Units : unit[u] = NoInstance /\ ~Active(u) /\ status[u] = None
  BY <1>1 DEF Init, Active
<1>3. WorldOK
  BY <1>1, <1>2, BoundsAssumption, Numbers DEF Init, WorldOK
<1>4. UnitInv /\ ReportInv
  BY <1>1, <1>2, Numbers DEF Init, UnitInv, ReportInv
<1>5. GateInv
  BY <1>1, Zenon DEF Init, GateInv, AdmissionIsAuthorised
<1>6. RestOK
  <2>1. files \in Files /\ tx \in Transaction
    BY IdleFields DEF Init, Files
  <2>2. config \in 1 .. MaxConfig /\ attempts \in 0 .. MaxAttempts
    BY BoundsAssumption DEF Init
  <2> QED  BY <2>1, <2>2 DEF Init, RestOK
<1>7. RootInv /\ CaptureInv
  BY IdleFields, Zenon DEF Init, RootInv, CaptureInv, Accountable, RootPhases, CleanPhases, Requested,
                    Answered, Collecting, Rechecks
<1>8. LaunchInv
  BY IdleFields, Zenon DEF Init, LaunchInv
<1> QED  BY <1>3, <1>4, <1>5, <1>6, <1>7, <1>8 DEF ActivationInv, WorldInv

(* The transaction's steps, named by the unit they are about.              *)
LEMMA UnitSteps ==
  ASSUME RootStep
  PROVE  \/ ClearRecord \/ ClearResponse \/ StageRequest \/ RenameRequest \/ AwaitResponse
         \/ AwaitCollector \/ FinalAudit \/ StageCommit \/ RenameCommit
         \/ AwaitReady \/ RecheckUploader \/ Succeed \/ RootFails
         \/ \E u \in Units :
              \/ StartWorker(u, StartOf(u), LookAt(u)) \/ InspectWorker(u, LookAt(u), AfterLook(u))
              \/ CleanWorker(u, CleanOf(u), StopOf(u)) \/ StopWorker(u, StopOf(u), JoinOf(u))
              \/ JoinWorker(u, JoinOf(u))
  BY DEF RootStep, Units, StartOf, LookAt, AfterLook, CleanOf, StopOf, JoinOf

LEMMA ActivationStep ==
  ASSUME ActivationInv, [Next]_vars
  PROVE  ActivationInv'
<1>1. CASE \E u \in Units : AdminStarts(u) \/ AdminStops(u) \/ LateStart(u) \/ WorkerFails(u)
  BY <1>1, AdminStep, LateStartStep
<1>2. CASE Reconfigure \/ Collect \/ RunUploader \/ GateStep
  BY <1>2, ReconfigureStep, CollectStep, GateStepStep
<1>3. CASE Start \/ Stop \/ Refuse \/ RootCrashes
  BY <1>3, StartStep, StopStep, RefuseStep, SucceedStep
<1>4. CASE RootStep
  BY <1>4, UnitSteps, ClearStep, RequestStep, RenameRequestStep, AwaitResponseStep, WaitStep,
     RenameCommitStep, SucceedStep, RootFailsStep, StartWorkerStep, InspectWorkerStep, CleanupStep
<1>5. CASE UNCHANGED vars
  <2>1. /\ UNCHANGED worldVars /\ UNCHANGED rootVars /\ files' = files /\ config' = config
        /\ started' = started /\ queued' = queued /\ collected' = collected /\ admitted' = admitted
        /\ authorised' = authorised
    BY <1>5 DEF vars, worldVars, rootVars
  <2>2. RestOK'
    BY <2>1 DEF ActivationInv, RestOK, rootVars
  <2>3. WorldInv' /\ UnitMoves
    BY <2>1, WorldStays DEF ActivationInv
  <2> QED  BY <2>1, <2>2, <2>3, WorldStep
<1> QED  BY <1>1, <1>2, <1>3, <1>4, <1>5 DEF Next

(* In every reachable state: what the gate has seen, which commits stand   *)
(* for which admissions, what the transaction holds at each phase and whom *)
(* it answers for.                                                         *)
THEOREM ActivationInvariantHolds == Spec => []ActivationInv
  BY ActivationInitially, ActivationStep, PTL DEF Spec

(* The types of the module hold, and the uploader's process exists exactly *)
(* while its unit is active.                                               *)
THEOREM ActivationTypes == Spec => []TypeOK
<1>1. ActivationInv => TypeOK
  BY DEF ActivationInv, WorldInv, WorldOK, RestOK, TypeOK
<1> QED  BY <1>1, ActivationInvariantHolds, PTL

(* An uploader is past the gate only when a transaction committed this     *)
(* very invocation of it, after the collector it started had collected     *)
(* (rendezvousBound, activateStoppedWith).                                 *)
THEOREM AdmissionHolds == Spec => []AdmissionIsAuthorised
<1>1. ActivationInv => AdmissionIsAuthorised
  BY DEF ActivationInv, WorldInv, GateInv
<1> QED  BY <1>1, ActivationInvariantHolds, PTL

(* The gate opens under the configuration the transaction audited, even    *)
(* when installed.json changes meanwhile (startupPorts.current).           *)
THEOREM ConfigurationHolds == Spec => AdmissionMatchesConfig
<1>1. ASSUME ActivationInv, [Next]_vars, admitted' # admitted
      PROVE  \E a \in authorised : a.commit.inv = unit["uploader"].inv
                                   /\ a.commit.request.config = config
  <2>1. Admit
    BY <1>1, Zenon DEF Next, vars, AdminStarts, AdminStops, LateStart, WorkerFails, Reconfigure, Collect,
                RunUploader, GateStep, Preflight, ReadRequest, Respond, ReadCommit, Start, Stop, Refuse,
                RootCrashes, RootStep, ClearRecord, ClearResponse, StartWorker, InspectWorker,
                StageRequest, RenameRequest, AwaitResponse, AwaitCollector, FinalAudit,
                StageCommit, RenameCommit, AwaitReady, RecheckUploader, Succeed, RootFails, CleanWorker,
                StopWorker, JoinWorker, worldVars
  <2>2. /\ up.request.config = up.config /\ up.config = config
        /\ \E a \in authorised : a.commit = OwnResponse
    BY <1>1, <2>1 DEF Admit, ActivationInv, WorldInv, GateInv
  <2> QED  BY <2>2 DEF OwnResponse
<1> QED  BY <1>1, ActivationInvariantHolds, PTL DEF Spec, AdmissionMatchesConfig

-----------------------------------------------------------------------------
(* The returns of Start and Stop: a call that needs no recovery returns at *)
(* the end of the collector's turn, which it finds stopped or not its own. *)
LEMMA ReturnsWhere ==
  ASSUME ActivationInv, Next, tx.pc # "idle", tx'.pc = "idle", result' \in {"unsafe", "stopped"}
  PROVE  /\ tx.pc \in TurnOf("collector") /\ unit' = unit
         /\ tx.owned["collector"] = None \/ Stopped("collector")
         /\ tx.err # "recovery" /\ (result' = "unsafe" => tx.err = "unsafe")
<1>0. tx \in Transaction /\ "uploader" \in Units /\ "collector" \in Units
  BY Numbers DEF ActivationInv, RestOK
<1>1. tx' # tx
  OBVIOUS
<1>2. RootStep
  <2>1. result' # "crashed" /\ result' # "none"
    OBVIOUS
  <2>2. UNCHANGED tx \/ Start \/ Stop \/ RootStep \/ RootCrashes
    BY Zenon DEF Next, AdminStarts, AdminStops, LateStart, WorkerFails, Reconfigure, Collect,
           RunUploader, GateStep, Preflight, ReadRequest, Respond, ReadCommit, Admit, Refuse, rootVars
  <2> QED  BY <1>1, <2>1, <2>2 DEF Start, Stop, RootCrashes
<1>3. \A p : (Phase(p) => tx'.pc = p) /\ (FailWith(p) => tx'.pc = "clean_uploader")
  BY <1>0, PhaseFields, FailFields, Zenon DEF Transaction, Phase, FailWith
<1>4. ~(ClearRecord \/ ClearResponse \/ RenameRequest \/ AwaitCollector \/ FinalAudit \/ StageCommit
        \/ RenameCommit \/ AwaitReady \/ RecheckUploader \/ RootFails)
  BY <1>1, <1>3 DEF ClearRecord, ClearResponse, RenameRequest, AwaitCollector, FinalAudit,
                    StageCommit, RenameCommit, AwaitReady, RecheckUploader, RootFails, rootVars
<1>5. ~(StageRequest \/ AwaitResponse \/ Succeed)
  BY <1>0, Zenon DEF StageRequest, AwaitResponse, Succeed, Transaction
<1>6. ASSUME NEW u \in Units
      PROVE  ~(StartWorker(u, StartOf(u), LookAt(u)) \/ InspectWorker(u, LookAt(u), AfterLook(u)))
  BY <1>0, Zenon DEF StartWorker, InspectWorker, StartOf, LookAt, AfterLook, Transaction
<1>7. \A e : Cleaned("uploader", e) => tx'.pc = "clean_collector"
  BY <1>0, Zenon DEF Cleaned, Transaction
<1>8. ~(\/ CleanWorker("uploader", "clean_uploader", "stop_uploader")
        \/ StopWorker("uploader", "stop_uploader", "join_uploader")
        \/ JoinWorker("uploader", "join_uploader"))
  BY <1>3, <1>7, Zenon DEF CleanWorker, StopWorker, JoinWorker
<1>9. \/ CleanWorker("collector", "clean_collector", "stop_collector")
      \/ StopWorker("collector", "stop_collector", "join_collector")
      \/ JoinWorker("collector", "join_collector")
  BY <1>2, <1>4, <1>5, <1>6, <1>8, <1>0 DEF RootStep, StartOf, LookAt, AfterLook
<1>10. \A e : Cleaned("collector", e) =>
         e # "recovery" /\ (result' = "unsafe" => e = "unsafe")
  BY DEF Cleaned
<1>11. /\ tx.pc \in TurnOf("collector") /\ unit' = unit /\ Cleaned("collector", tx.err)
       /\ tx.owned["collector"] = None \/ Stopped("collector")
  BY <1>3, <1>9, <1>10, Zenon DEF CleanWorker, StopWorker, JoinWorker, TurnOf, Stopped, worldVars
<1> QED  BY <1>10, <1>11

LEMMA ReturnsClean ==
  ASSUME ActivationInv, [Next]_vars
  PROVE  LeavesNothing
<1> SUFFICES ASSUME tx.pc # "idle", tx'.pc = "idle", result' \in {"unsafe", "stopped"},
                    NEW u \in Units, NEW i \in Invocations,
                    \/ tx.owned[u] # None /\ tx.owned[u].inv = i
                    \/ <<u, i>> \in started /\ result' = "unsafe",
                    Live(u, i)'
             PROVE  FALSE
  BY DEF LeavesNothing
<1>1. Next
  BY DEF vars, rootVars
<1>2. /\ tx.pc \in {"clean_collector", "stop_collector", "join_collector"} /\ unit' = unit
      /\ tx.owned["collector"] = None \/ Stopped("collector")
      /\ tx.err # "recovery" /\ (result' = "unsafe" => tx.err = "unsafe")
  BY <1>1, ReturnsWhere, Zenon DEF TurnOf
<1>3. Live(u, i)
  BY <1>2, Zenon DEF Live, Active
<1>4. Gone("uploader") /\ Gone("collector")
  BY <1>2, StoppedIsGone, Numbers, Zenon DEF ActivationInv, CaptureInv
<1>5. Gone(u)
  BY <1>4 DEF Units
<1>6. tx.owned[u] \in Instance \union {None}
  BY DEF ActivationInv, RestOK, Transaction
<1>7. CASE tx.owned[u] # None /\ tx.owned[u].inv = i
  BY <1>3, <1>5, <1>6, <1>7 DEF Gone
<1>8. CASE <<u, i>> \in started /\ result' = "unsafe"
  <2>1. Accountable /\ ~Looking(u)
    BY <1>2, <1>8 DEF Accountable, CleanPhases, Looking
  <2>2. Captured(u)
    BY <2>1 DEF ActivationInv, CaptureInv
  <2> QED  BY <1>3, <1>5, <1>8, <2>1, <2>2 DEF Captured, Gone
<1> QED  BY <1>7, <1>8

LEMMA SuccessEarned ==
  ASSUME ActivationInv, [Next]_vars
  PROVE  SuccessIsAdmission
<1> SUFFICES ASSUME result # "ok", result' = "ok"
             PROVE  /\ tx.owned["uploader"].inv \in admitted
                    /\ tx.owned["collector"].inv \in collected
                    /\ Live("collector", tx.owned["collector"].inv)
  BY DEF SuccessIsAdmission
<1>0. tx.err # "ok"
  BY DEF ActivationInv, RestOK, Transaction
<1>1. \A u, e : Cleaned(u, e) /\ e # "ok" => result' # "ok"
  BY DEF Cleaned
<1>2. UNCHANGED result \/ Start \/ Stop \/ Refuse \/ RootStep \/ RootCrashes
  BY Zenon DEF Next, AdminStarts, AdminStops, LateStart, WorkerFails, Reconfigure, Collect, RunUploader,
         GateStep, Preflight, ReadRequest, Respond, ReadCommit, Admit, rootVars, vars
<1>3. RootStep
  BY <1>2 DEF Start, Stop, Refuse, RootCrashes
<1>4. ASSUME NEW u, NEW p, NEW q
      PROVE  /\ ~CleanWorker(u, p, q) /\ ~StopWorker(u, p, q) /\ ~JoinWorker(u, p)
             /\ ~StartWorker(u, p, q) /\ ~InspectWorker(u, p, q)
  <2>1. ~Cleaned(u, tx.err) /\ ~Cleaned(u, "recovery") /\ result' # result
    BY <1>0, <1>1
  <2>2. ~CleanWorker(u, p, q) /\ ~StopWorker(u, p, q) /\ ~JoinWorker(u, p)
    BY <2>1, Zenon DEF CleanWorker, StopWorker, JoinWorker
  <2>3. ~StartWorker(u, p, q) /\ ~InspectWorker(u, p, q)
    BY <2>1, Zenon DEF StartWorker, InspectWorker
  <2> QED  BY <2>2, <2>3
<1>5. Succeed
  BY <1>3, <1>4 DEF RootStep, ClearRecord, ClearResponse, StageRequest, RenameRequest,
                    AwaitResponse, AwaitCollector, FinalAudit, StageCommit, RenameCommit,
                    AwaitReady, RecheckUploader, RootFails, rootVars
<1>6. /\ tx.owned["uploader"].inv \in admitted /\ tx.owned["collector"].inv \in collected
  BY <1>5, Zenon DEF Succeed, ActivationInv, RootInv, Collecting, Rechecks
<1>7. Live("collector", tx.owned["collector"].inv)
  BY <1>5 DEF Succeed, sameWorker, Live, Active
<1> QED  BY <1>6, <1>7

(* What Start and Stop say when they return is so.  Without asking for     *)
(* recovery they have left nothing running that they launched or captured, *)
(* and success is reported only for an uploader that was admitted, beside  *)
(* a collector that has collected and is alive.                            *)
THEOREM ReturnsHold == Spec => ReturnsAreTrue
<1>1. ActivationInv /\ [Next]_vars => LeavesNothing /\ SuccessIsAdmission
  BY ReturnsClean, SuccessEarned
<1> QED  BY <1>1, ActivationInvariantHolds, PTL DEF Spec, ReturnsAreTrue
=============================================================================
