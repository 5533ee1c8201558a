----------------------------- MODULE Workloads -----------------------------
(* The workload inventory: the containers the Docker reader sees            *)
(* (internal/containerobs) and the process and container sections of the   *)
(* document sent to the platform (internal/workloadprojection).            *)
EXTENDS Integers, FiniteSets

CONSTANTS
  MaxProcesses,     \* rows of the process section (200 in the code)
  MaxContainers     \* rows of the container section (500 in the code)

Nil == -1
Observed == {"AVAILABLE", "DEGRADED"}

-----------------------------------------------------------------------------
(* q: the closed reasons of a section's quality.                            *)
q(state, reason) ==
  [state |-> IF state \in {"AVAILABLE", "DEGRADED", "DISABLED", "PERMISSION_DENIED", "UNSUPPORTED", "UNAVAILABLE"}
             THEN state ELSE "UNKNOWN",
   reason |-> CASE state = "AVAILABLE" -> "none"
                [] state = "DEGRADED" -> "PARTIAL_COLLECTION"
                [] state = "DISABLED" -> "DISABLED_BY_CONFIGURATION"
                [] state \in {"PERMISSION_DENIED", "UNSUPPORTED"} -> state
                [] state = "UNAVAILABLE" ->
                     IF reason \in {"DEADLINE_EXCEEDED", "COLLECTION_CANCELED", "NO_DATA"}
                     THEN reason ELSE "COLLECTION_FAILED"
                [] OTHER -> "NOT_YET_OBSERVED"]

(* A section on the wire; total is Nil when the producer cannot vouch for   *)
(* it, rows holds what validContainersSection looks at in the rows.        *)
Wire(quality, observed, returned, total, truncated, rows) ==
  [quality |-> quality, observed |-> observed, returned |-> returned, total |-> total,
   truncated |-> truncated, rows |-> rows]
empty(state, reason) == Wire(q(state, reason), FALSE, 0, Nil, FALSE, {})
UnavailableContainers == empty("UNAVAILABLE", "COLLECTION_FAILED")

(* fitSection: at most so many rows and so many bytes; fits is the number   *)
(* of leading rows whose encoding stays below MaxSectionBytes.              *)
fitSection(s, rows, fits) ==
  LET most == IF s.returned > rows THEN rows ELSE s.returned
      left == IF most > fits THEN fits ELSE most
  IN IF left = s.returned THEN s
     ELSE [s EXCEPT !.returned = left, !.truncated = TRUE, !.quality = q("DEGRADED", "none")]

validQuality(v) == v = q(v.state, v.reason)
validSection(s, enabled, rows) ==
  /\ validQuality(s.quality) /\ s.returned <= rows /\ (s.total = Nil \/ s.total >= s.returned)
  /\ enabled \/ s.quality.state = "DISABLED"
  /\ s.total # Nil => (s.truncated <=> s.total > s.returned)
  /\ CASE s.quality.state = "AVAILABLE" -> s.observed /\ s.total = s.returned /\ ~s.truncated
       [] s.quality.state = "DEGRADED" -> s.observed
       [] OTHER -> /\ s.returned = 0 /\ s.total = Nil /\ ~s.truncated
                   /\ s.quality.state \in {"DISABLED", "UNKNOWN"} => ~s.observed

-----------------------------------------------------------------------------
(* projectProcesses, for a process section of the host snapshot.            *)
wireReason(reason) ==
  CASE reason = "deadline_exceeded" -> "DEADLINE_EXCEEDED"
    [] reason = "collection_canceled" -> "COLLECTION_CANCELED"
    [] reason = "no_data" -> "NO_DATA"
    [] OTHER -> "none"
processesRefused(p) ==
  /\ p.state \in Observed /\ p.data
  /\ p.total < p.samples \/ (p.truncated # (p.total > p.samples)) \/ p.bad # {}
projectProcesses(p) ==
  LET quality == q(p.state, wireReason(p.reason))
      whole == p.state = "AVAILABLE" /\ p.errors = 0
  IN IF p.state \notin Observed
     THEN Wire(quality, quality.state \notin {"DISABLED", "UNKNOWN"}, 0, Nil, FALSE, {})
     ELSE IF ~p.data THEN empty("UNAVAILABLE", "NO_DATA")
     ELSE Wire(IF ~whole \/ p.truncated THEN q("DEGRADED", "none") ELSE quality, TRUE, p.samples,
               IF whole THEN p.total ELSE Nil, p.truncated, {})

-----------------------------------------------------------------------------
(* One container as the Engine reports it: whether it runs, and its         *)
(* counters: CPU time, system time, memory; Nil for a missing counter.     *)
NoCounters == [total |-> Nil, system |-> Nil]
currentCPUCounters(stats) ==
  IF stats.system \in {Nil, 0} \/ stats.total = Nil \/ stats.capacity = 0
  THEN NoCounters ELSE [total |-> stats.total, system |-> stats.system]

(* cpuPercent: the share of the system time since the counters of the       *)
(* previous reading, Nil without a usable difference.                      *)
cpuPercent(stats, previous) ==
  LET fresh == currentCPUCounters(stats)
      own == stats.preSystem \notin {Nil, 0} /\ stats.preTotal # Nil
      before == IF own THEN [total |-> stats.preTotal, system |-> stats.preSystem] ELSE previous
  IN IF fresh = NoCounters \/ before = NoCounters THEN Nil
     ELSE IF fresh.system <= before.system \/ fresh.total < before.total
             \/ fresh.total - before.total > fresh.system - before.system
     THEN Nil ELSE ((fresh.total - before.total) * 100) \div (fresh.system - before.system)

(* normalizedContainer: without counters a row says why.                    *)
Container(running, cpu, memory, metrics, reason) ==
  [running |-> running, cpu |-> cpu, memory |-> memory, metrics |-> metrics, reason |-> reason]
withoutStats(running, failure) ==
  Container(running, Nil, Nil, IF running THEN "UNAVAILABLE" ELSE "NOT_RUNNING", failure)
withStats(memory, cpu) ==
  Container(TRUE, cpu, memory,
            IF cpu # Nil /\ memory # Nil THEN "AVAILABLE"
            ELSE IF cpu # Nil \/ memory # Nil THEN "PARTIAL" ELSE "UNAVAILABLE",
            IF cpu # Nil /\ memory # Nil THEN "none" ELSE "METRIC_COUNTER_INVALID")

(* successfulInventory and failedInventory.                                 *)
successfulInventory(found, total) ==
  [support |-> "SUPPORTED", reason |-> "none", total |-> total, items |-> found,
   collection |-> IF \E c \in DOMAIN found : /\ found[c].metrics # "AVAILABLE"
                                             /\ found[c].reason # "NOT_RUNNING"
                  THEN "PARTIAL" ELSE "OK"]
failedInventory(reason) ==
  [support |-> CASE reason = "PERMISSION_DENIED" -> "PERMISSION_DENIED"
                 [] reason = "API_VERSION_UNSUPPORTED" -> "UNSUPPORTED"
                 [] OTHER -> "UNAVAILABLE",
   reason |-> reason, total |-> 0, items |-> <<>>, collection |-> "NOT_RUN"]

(* metricReason and validContainer: a row of the document.                  *)
metricReason(reason) ==
  CASE reason \in {"PERMISSION_DENIED", "DEADLINE_EXCEEDED", "COLLECTION_CANCELED"} -> reason
    [] reason \in {"ENGINE_OS_UNSUPPORTED", "API_VERSION_UNSUPPORTED"} -> "UNSUPPORTED"
    [] reason = "METRIC_COUNTER_INVALID" -> "INVALID_COUNTER"
    [] OTHER -> "METRIC_UNAVAILABLE"
containerRow(c) ==
  [c EXCEPT !.reason = CASE c.metrics = "NOT_RUNNING" -> "NOT_RUNNING"
                         [] c.metrics = "PARTIAL" -> "INVALID_COUNTER"
                         [] c.metrics = "AVAILABLE" -> "none"
                         [] OTHER -> metricReason(@)]
validContainer(c) ==
  /\ c.cpu <= 100
  /\ IF ~c.running THEN c.metrics = "NOT_RUNNING" /\ c.cpu = Nil /\ c.memory = Nil /\ c.reason = "NOT_RUNNING"
     ELSE CASE c.metrics = "AVAILABLE" -> c.cpu # Nil /\ c.memory # Nil /\ c.reason = "none"
            [] c.metrics = "PARTIAL" -> ((c.cpu = Nil) # (c.memory = Nil)) /\ c.reason = "INVALID_COUNTER"
            [] c.metrics = "UNAVAILABLE" ->
                 /\ c.cpu = Nil /\ c.memory = Nil
                 /\ c.reason \in {"METRIC_UNAVAILABLE", "INVALID_COUNTER", "PERMISSION_DENIED", "UNSUPPORTED",
                                  "DEADLINE_EXCEEDED", "COLLECTION_CANCELED"}
            [] OTHER -> FALSE

(* projectContainers and ProjectContainers.                                 *)
Limping(rows) == \E c \in rows : c.metrics \in {"PARTIAL", "UNAVAILABLE"}
containersRefused(inventory) ==
  /\ inventory.support = "SUPPORTED"
  /\ \E c \in DOMAIN inventory.items : ~validContainer(containerRow(inventory.items[c]))
projectContainers(inventory) ==
  LET rows == {containerRow(inventory.items[c]) : c \in DOMAIN inventory.items}
      returned == Cardinality(DOMAIN inventory.items)
      cut == inventory.total > returned
  IN IF inventory.support # "SUPPORTED"
     THEN empty(inventory.support, inventory.reason)
     ELSE Wire(IF Limping(rows) \/ inventory.collection = "PARTIAL" \/ cut
               THEN q("DEGRADED", "none") ELSE q("AVAILABLE", "none"),
               TRUE, returned, inventory.total, cut, rows)
validContainersSection(s, enabled) ==
  /\ validSection(s, enabled, MaxContainers)
  /\ \A c \in s.rows : validContainer(c)
  /\ Limping(s.rows) => s.quality.state = "DEGRADED"

(* ProjectContainers: a refused inventory has no section; the reader sends  *)
(* UnavailableContainers for it.                                           *)
ProjectionFails(inventory, fits) ==
  \/ containersRefused(inventory)
  \/ ~validContainersSection(fitSection(projectContainers(inventory), MaxContainers, fits), TRUE)

(* What the collector makes of the answers of the Engine: every row, with   *)
(* counters that are missing, stand still or go back, and every inventory.  *)
EngineStats ==
  [total : {Nil, 0, 1, 2}, system : {Nil, 0, 1, 2}, preTotal : {Nil, 0, 1}, preSystem : {Nil, 0, 1},
   capacity : {0, 1}]
PriorCounters == {NoCounters} \union [total : {0, 1}, system : {1, 2}]
ReadFailures ==
  {"PERMISSION_DENIED", "DEADLINE_EXCEEDED", "COLLECTION_CANCELED", "ENGINE_UNAVAILABLE", "INVALID_RESPONSE"}
ContainerRows ==
  {withStats(memory, cpuPercent(stats, previous)) :
     memory \in {Nil, 1}, stats \in EngineStats, previous \in PriorCounters}
  \union {withoutStats(TRUE, failure) : failure \in ReadFailures \union {"ENGINE_OS_UNSUPPORTED"}}
  \union {withoutStats(FALSE, failure) : failure \in {"NOT_RUNNING", "DEADLINE_EXCEEDED", "COLLECTION_CANCELED"}}
Inventories ==
  {failedInventory(reason) : reason \in ReadFailures \union {"API_VERSION_UNSUPPORTED"}}
  \union UNION {{successfulInventory(found, total) :
                   found \in [1 .. n -> ContainerRows],
                   total \in IF n < MaxContainers THEN {n} ELSE {n, n + 1}} : n \in 0 .. MaxContainers}

(* Every inventory the collector can return has a container section that    *)
(* the document's own validation accepts, however much of it fits           *)
(* (ProjectContainers, validContainersSection).                             *)
InventoriesCanBeSent ==
  \A inventory \in Inventories, fits \in 0 .. MaxContainers : ~ProjectionFails(inventory, fits)

(* EncodeProcessesAndContainers: the processes of the snapshot with a       *)
(* container section read from the handoff.                                *)
EncodeWorkloadsFails(processes, fits, containers) ==
  \/ processesRefused(processes)
  \/ ~validSection(fitSection(projectProcesses(processes), MaxProcesses, fits), TRUE, MaxProcesses)
  \/ ~validContainersSection(containers, TRUE)
=============================================================================
