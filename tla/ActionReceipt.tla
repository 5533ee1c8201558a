--------------------------- MODULE ActionReceipt ---------------------------
(* What the interfaces Journal, Attempt and Engine of internal/actioncore  *)
(* promise their caller about one receipt, whatever workers, handles and   *)
(* processes come and go: it is admitted once, becomes uncertain at most   *)
(* once, is sent to the engine at most once and only while uncertain, ends *)
(* at most once, and is never taken up again when its record is gone.      *)
CONSTANT Keys
VARIABLES status, sent

Statuses == {"new", "admitted", "intent", "done", "forgotten"}
Init == status = [k \in Keys |-> "new"] /\ sent = {}

Move(k, from, to) ==
  /\ status[k] = from
  /\ status' = [status EXCEPT ![k] = to]

(* Journal.Acquire *)
Admit(k) == Move(k, "new", "admitted") /\ UNCHANGED sent
(* Attempt.Intent *)
Intend(k) == Move(k, "admitted", "intent") /\ UNCHANGED sent
(* Engine.Start, Engine.Stop, Engine.Restart *)
Send(k) ==
  /\ status[k] = "intent" /\ k \notin sent
  /\ sent' = sent \union {k}
  /\ UNCHANGED status
(* Attempt.Finish after the engine request *)
Resolve(k) == Move(k, "intent", "done") /\ k \in sent /\ UNCHANGED sent
(* Attempt.Finish without one, expiry and pruning, of several at once *)
Sweep ==
  /\ \A k \in Keys :
       \/ status'[k] = status[k]
       \/ status[k] = "admitted" /\ status'[k] = "done"
       \/ status[k] = "done" /\ status'[k] = "forgotten"
  /\ DOMAIN status' = Keys
  /\ UNCHANGED sent

Next ==
  \/ Sweep
  \/ \E k \in Keys : Admit(k) \/ Intend(k) \/ Send(k) \/ Resolve(k)
Spec == Init /\ [][Next]_<<status, sent>>
=============================================================================
