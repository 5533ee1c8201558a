--------------------------- MODULE MCActionWorker ---------------------------
(* ActionWorker for TLC: a behaviour delivers the receipts of one family   *)
(* and keeps to the family's bounds on the clock.                          *)
EXTENDS ActionWorker, TLC

CONSTANTS k1, k2, k3, k4, k5, w1, w2
VARIABLE family

(* k1 and k2 claim one identity; k1 and k3 are names for one container; k3,*)
(* k4 and k5 have nothing in common.                                       *)
Family == [alias |-> {k1, k3}, claim |-> {k1, k2}, free |-> {k3, k4, k5}]
Last == [alias |-> 2, claim |-> 4, free |-> 1]
Jumps == [alias |-> 1, claim |-> 1, free |-> 0]

MCKeys == {k1, k2, k3, k4, k5}
MCActionID == [k \in MCKeys |-> IF k = k2 THEN k1 ELSE k]
MCTarget == MCActionID
MCPhysical == [k \in MCKeys |-> IF k = k3 THEN k1 ELSE MCActionID[k]]
MCOperation == (k1 :> "RESTART") @@ (k2 :> "STOP") @@ [k \in MCKeys |-> "START"]
MCCreated == [k \in MCKeys |-> 1]
MCExpires == (k1 :> 2) @@ [k \in MCKeys |-> 3]
MCWorkers == {w1, w2}

(* The workers are alike, and so are the receipts k4 and k5.              *)
Symmetry == {f @@ g : f \in Permutations(MCWorkers), g \in Permutations({k4, k5})}

MCInit == Init /\ family \in DOMAIN Family
MCNext ==
  /\ Next
  /\ now' <= Last[family] /\ jumps' <= Jumps[family]
  /\ \A w \in Workers : receipt'[w] \in Family[family] \union {None}
  /\ UNCHANGED family
MCSpec == MCInit /\ [][MCNext]_<<vars, family>>
=============================================================================
