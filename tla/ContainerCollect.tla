-------------------------- MODULE ContainerCollect --------------------------
(* One collector of container observations (internal/containerobs): a      *)
(* cycle lists the containers and hands them to a few goroutines, each of  *)
(* which asks the engine for the statistics of one container after the     *)
(* other, until they are all observed or the cycle's deadline passes.      *)
(* What the statistics come to is module Workloads; here they are read or  *)
(* not, and leave the counters of the container behind for the next cycle. *)
EXTENDS Naturals, FiniteSets, Sequences

CONSTANTS
  Containers,     \* the containers the engine knows
  MaxContainers,  \* 500: how many of them are observed
  Fanout          \* 4: goroutines that read statistics

CollectConstants ==
  /\ IsFiniteSet(Containers) /\ Containers # {}
  /\ MaxContainers \in Nat \ {0} /\ Fanout \in Nat \ {0}

VARIABLES
  cycle,     \* the cycle under way
  items,     \* what is observed of the containers, in the order of the list
  next,      \* the index the cycle hands out next
  helpers,   \* the index each goroutine works on, 0 when it waits
  prior,     \* the containers whose counters are kept
  expired,   \* the cycle's context is done
  current    \* the inventory of the last cycle, cached

collectVars == <<cycle, items, next, helpers, prior, expired, current>>

Listings == UNION {[1 .. n -> Containers] : n \in 0 .. Cardinality(Containers)}
IdleCycle == [at |-> "idle", list |-> <<>>, runs |-> {}, total |-> 0]
NoInventory == [state |-> "NOT_RUN", items |-> <<>>, total |-> 0]
Exited == [h \in {} |-> 0]

(* The deadline of four seconds, or the caller's cancellation.            *)
Expires ==
  /\ cycle.at # "idle" /\ ~expired
  /\ expired' = TRUE
  /\ UNCHANGED <<cycle, items, next, helpers, prior, current>>

(* getJSON: a status, a size or a body that is refused, an engine that     *)
(* does not answer, and certainly an expired context, are failures.        *)
getJSON(answers) == {FALSE} \union (IF expired THEN {} ELSE answers)

---------------------------------------------------------------------------
(* Collect holds its lock for the whole cycle.                             *)
Collect ==
  /\ cycle.at = "idle"
  /\ cycle' = [IdleCycle EXCEPT !.at = "version"]
  /\ expired' = FALSE
  /\ UNCHANGED <<items, next, helpers, prior, current>>

(* The inventory of the cycle is cached as it is returned.                 *)
Returns(inventory) ==
  /\ current' = inventory
  /\ cycle' = IdleCycle /\ items' = <<>> /\ next' = 1 /\ helpers' = Exited /\ expired' = FALSE

failedInventory == [NoInventory EXCEPT !.state = "FAILED"]

(* negotiateVersion: no common version is a failure of the cycle.          *)
negotiateVersion ==
  /\ cycle.at = "version"
  /\ \E ok \in getJSON({TRUE}) :
       IF ok THEN cycle' = [cycle EXCEPT !.at = "list"] /\ UNCHANGED <<items, next, helpers, expired, current>>
             ELSE Returns(failedInventory)
  /\ UNCHANGED prior

(* listContainers: a list that names a container twice is refused.         *)
Unrepeated(list) == Cardinality({list[i] : i \in DOMAIN list}) = Len(list)

(* The list, which says of each container whether it runs, is cut, and the *)
(* goroutines are started.                                                 *)
listContainers ==
  /\ cycle.at = "list"
  /\ \E ok \in getJSON({TRUE}) : \E list \in Listings :
       IF ok /\ Unrepeated(list)
       THEN LET cut == SubSeq(list, 1, IF Len(list) > MaxContainers THEN MaxContainers ELSE Len(list))
            IN  /\ \E runs \in SUBSET {cut[i] : i \in DOMAIN cut} :
                     cycle' = [at |-> "hand_out", list |-> cut, total |-> Len(list), runs |-> runs]
                /\ items' = [i \in DOMAIN cut |-> "unset"]
                /\ next' = 1
                /\ helpers' = [h \in 1 .. (IF Len(cut) < Fanout THEN Len(cut) ELSE Fanout) |-> 0]
                /\ UNCHANGED <<expired, current>>
       ELSE Returns(failedInventory)
  /\ UNCHANGED prior

(* One index to one goroutine that waits.                                  *)
HandOut(h) ==
  /\ cycle.at = "hand_out" /\ next <= Len(cycle.list)
  /\ helpers[h] = 0
  /\ helpers' = [helpers EXCEPT ![h] = next]
  /\ next' = next + 1
  /\ UNCHANGED <<cycle, items, prior, expired, current>>

(* observeContainer: a container that does not run is not asked about; the *)
(* counters of one that answers are kept, if they are complete.            *)
observeContainer(h) ==
  /\ helpers[h] # 0
  /\ LET c == cycle.list[helpers[h]]
     IN  IF c \notin cycle.runs
         THEN items' = [items EXCEPT ![helpers[h]] = "not_running"] /\ UNCHANGED prior
         ELSE \E ok \in getJSON({TRUE}) :
                /\ \E measure \in IF ok THEN {"measured", "partial"} ELSE {"unavailable"} :
                     items' = [items EXCEPT ![helpers[h]] = measure]
                /\ prior' \in {prior} \union (IF ok THEN {prior \union {c}} ELSE {})
  /\ helpers' = [helpers EXCEPT ![h] = 0]
  /\ UNCHANGED <<cycle, next, expired, current>>

(* The indices left are filled in without asking, once the context is      *)
(* done; then, as at the end of the list, the channel is closed.           *)
GiveUp ==
  /\ cycle.at = "hand_out" /\ expired /\ next <= Len(cycle.list)
  /\ items' = [i \in DOMAIN items |-> IF i < next THEN items[i] ELSE "unavailable"]
  /\ next' = Len(cycle.list) + 1
  /\ UNCHANGED <<cycle, helpers, prior, expired, current>>

pruneCPU == prior \intersect cycle.runs

successfulInventory ==
  [state |-> IF \E i \in DOMAIN items : items[i] \in {"unavailable", "partial"} THEN "PARTIAL" ELSE "OK",
   items |-> items, total |-> cycle.total]

(* Mutant: after the deadline the goroutines are not waited for. *)
FinishUnjoined ==
  /\ cycle.at = "hand_out" /\ next > Len(cycle.list)
  /\ expired \/ \A h \in DOMAIN helpers : helpers[h] = 0
  /\ prior' = pruneCPU
  /\ Returns(successfulInventory)
(* workers.Wait, then the deferred pruning of the counters.                *)
Finish ==
  /\ cycle.at = "hand_out" /\ next > Len(cycle.list)
  /\ \A h \in DOMAIN helpers : helpers[h] = 0
  /\ prior' = pruneCPU
  /\ Returns(successfulInventory)

---------------------------------------------------------------------------
CollectInit ==
  /\ cycle = IdleCycle /\ items = <<>> /\ next = 1 /\ helpers = Exited
  /\ prior = {} /\ expired = FALSE /\ current = NoInventory

CollectNext ==
  \/ Expires \/ Collect \/ negotiateVersion \/ listContainers
  \/ \E h \in DOMAIN helpers : HandOut(h) \/ observeContainer(h)
  \/ GiveUp \/ Finish

CollectSpec == CollectInit /\ [][CollectNext]_collectVars

---------------------------------------------------------------------------
(* An inventory that is returned is whole, whether or not the deadline cut *)
(* it short: every container of the list up to the limit has its own entry *)
(* in it, the count tells of the ones left out, and "OK" says that none    *)
(* was given up (collect, successfulInventory).                            *)
InventoryIsWhole ==
  /\ \A i \in DOMAIN current.items : current.items[i] # "unset"
  /\ Len(current.items) =
       (IF current.total > MaxContainers THEN MaxContainers ELSE current.total)
  /\ current.state = "OK" => \A i \in DOMAIN current.items : current.items[i] # "unavailable"
===========================================================================
