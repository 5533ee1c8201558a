--------------------------- MODULE MCObservation ---------------------------
(* The way of an observation: the host and its containers are collected,   *)
(* the history keeps what the local observer shows, and the workers of a   *)
(* connected host hand the snapshot on to the platform.  Every behaviour   *)
(* belongs to one part and the others rest in their initial states; the    *)
(* variables of the container inventory are Off while it rests.            *)
EXTENDS HostCollect, HostHistory, SharedHandoff, RichPipeline

CONSTANTS Containers, Fanout, Off

VARIABLES part, cycle, items, next, helpers, prior, expired, current

Inventory == INSTANCE ContainerCollect

ASSUME ObservationAssumption == HistoryConstants /\ Inventory!CollectConstants

inventoryVars == <<cycle, items, next, helpers, prior, expired, current>>

InventoryOff ==
  /\ cycle = Off /\ items = Off /\ next = Off /\ helpers = Off /\ prior = Off
  /\ expired = Off /\ current = Off

MCInit ==
  /\ Init /\ HistoryInit /\ HandoffInit /\ PipelineInit
  /\ \/ part \in {"host", "history", "handoff", "pipeline"} /\ InventoryOff
     \/ part = "inventory" /\ Inventory!CollectInit
  /\ part # "host" => local
  /\ part # "pipeline" => profile = "rich"

MCNext ==
  \/ /\ part = "host" /\ Next
     /\ UNCHANGED <<part, historyVars, svars, pvars, inventoryVars>>
  \/ /\ part = "history" /\ HistoryNext
     /\ UNCHANGED <<part, vars, svars, pvars, inventoryVars>>
  \/ /\ part = "handoff" /\ HandoffNext
     /\ UNCHANGED <<part, vars, historyVars, pvars, inventoryVars>>
  \/ /\ part = "pipeline" /\ PipelineNext
     /\ UNCHANGED <<part, vars, historyVars, svars, inventoryVars>>
  \/ /\ part = "inventory" /\ Inventory!CollectNext
     /\ UNCHANGED <<part, vars, historyVars, svars, pvars>>

MCSpec == MCInit /\ [][MCNext]_<<part, vars, historyVars, svars, pvars, inventoryVars>>
-----------------------------------------------------------------------------
(* An inventory that is returned is whole: an entry for every container up *)
(* to the limit, also when the deadline cut the fan-out short (collect).   *)
InventoryIsWhole == part = "inventory" => Inventory!InventoryIsWhole
=============================================================================
