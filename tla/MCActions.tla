----------------------------- MODULE MCActions -----------------------------
(* Container actions beside the journal: the conversations of broker and   *)
(* worker, and the clocks that limit them.  Every behaviour belongs to one *)
(* part and the other rests in its initial state.                          *)
EXTENDS ActionBroker, ActionBudget, TLC

CONSTANTS a1, a2, a3, h1, h2
VARIABLE part

(* Three actions, two of them on one container.                            *)
MCActions == {a1, a2, a3}
MCTarget == (a1 :> "c1") @@ (a2 :> "c1") @@ (a3 :> "c2")
MCHandlers == {h1, h2}
(* The handlers are alike, and so are the actions on one container.        *)
Symmetry == {f @@ g : f \in Permutations(MCHandlers), g \in Permutations({a1, a2})}

MCInit ==
  /\ Init /\ BudgetInit
  /\ part \in {"broker", "budget"}
  /\ part = "broker" => ahead = 0
  /\ part = "budget" => Stored = {}

MCNext ==
  \/ part = "broker" /\ Next /\ UNCHANGED <<part, budgetVars>>
  \/ part = "budget" /\ BudgetNext /\ UNCHANGED <<part, vars>>

MCSpec == MCInit /\ [][MCNext]_<<part, vars, budgetVars>>
=============================================================================
