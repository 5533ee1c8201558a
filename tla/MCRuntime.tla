------------------------------ MODULE MCRuntime ------------------------------
(* The runtime and the diagnostics it writes, each from its own start.     *)
EXTENDS ObserverRuntime, Diagnostics

VARIABLE part

both == <<rvars, dvars, part>>
Init == RuntimeInit /\ DiagnosticsInit /\ part \in {"runtime", "diagnostics"}
(* The slots are alike: a process is started in the first that is free.    *)
FirstFree == \A p, q \in Procs : At(p, "off") /\ proc'[p].pc # "off" /\ q < p => ~At(q, "off")
(* The clock is set back, or a write fails or a process dies.              *)
OneUpset == ~(setBack' /\ deaths' > 0)
Next ==
  /\ UNCHANGED part
  /\ \/ part = "runtime" /\ RuntimeNext /\ FirstFree /\ UNCHANGED dvars
     \/ part = "diagnostics" /\ DiagnosticsNext /\ OneUpset /\ UNCHANGED rvars
Spec == Init /\ [][Next]_both /\ RuntimeFairness
=============================================================================
