---------------------------- MODULE HostCollect ----------------------------
(* One collection of the host (internal/collector, internal/numerichost):  *)
(* the sections are read one after the other from providers that may fail, *)
(* while the deadline of the collection may pass; what the views and the   *)
(* documents say of the snapshot is HostProjection and Workloads.          *)
EXTENDS HostProjection, Workloads

CONSTANTS
  MaxPartitions,   \* bound: the partitions a host has
  MaxScan,         \* process details read (4096 in the code)
  MaxPids,         \* bound: the processes a host has
  MaxFaulty,       \* bound: the sections in which a provider misbehaves
  ProviderErrors   \* the ways a provider fails besides its context

ASSUME CollectAssumption ==
  /\ MaxPartitions \in Nat /\ MaxScan \in Nat /\ MaxPids \in Nat /\ MaxFaulty \in Nat
  /\ ProviderErrors \subseteq {"permission", "nodata", "unsupported", "other"}

VARIABLES
  local,   \* the local observer, or an installed worker without network
  pc,      \* the next section to read, or "done"
  ctx,     \* the context: live, or ended by its deadline or a cancel
  raw,     \* the snapshot so far
  good,    \* ghost: the readings that returned usable values
  late     \* the collection took longer than a document may say

vars == <<local, pc, ctx, raw, good, late>>

(* classify, and first: a reading without an error was invalid data.        *)
classify(e) ==
  CASE e = "permission" -> [state |-> "PERMISSION_DENIED", reason |-> "permission_denied"]
    [] e = "deadline" -> [state |-> "UNAVAILABLE", reason |-> "deadline_exceeded"]
    [] e = "canceled" -> [state |-> "UNAVAILABLE", reason |-> "collection_canceled"]
    [] e = "nodata" -> [state |-> "UNAVAILABLE", reason |-> "no_data"]
    [] e = "unsupported" -> [state |-> "UNSUPPORTED", reason |-> "unsupported"]
    [] OTHER -> [state |-> "UNAVAILABLE", reason |-> "collection_failed"]
FailedWith(e, errors) == Failed(classify(e).state, classify(e).reason, errors)
boolInt(b) == IF b THEN 1 ELSE 0
Disabled == Failed("DISABLED", "disabled_by_configuration", 0)

(* What a call may return: usable values, values out of range ("invalid"),  *)
(* values no document may carry ("bad"), or an error.                      *)
Outcomes(c) == {"ok", "invalid", "bad"} \union ProviderErrors \union ({c} \ {"live"})
IsError(e) == e \notin {"ok", "invalid", "bad"}

(* CPU: the count and the percentage belong together.                      *)
CPU(e1, e2) ==
  IF IsError(e1) \/ IsError(e2) \/ "invalid" \in {e1, e2}
  THEN FailedWith(IF IsError(e1) THEN e1 ELSE IF IsError(e2) THEN e2 ELSE "invalid",
                  boolInt(IsError(e1)) + boolInt(IsError(e2)))
  ELSE Section("AVAILABLE", "none", 2, 0, 0, FALSE, IF "bad" \in {e1, e2} THEN {"value"} ELSE {})

(* Memory: without swap the section is degraded, not lost.                  *)
Memory(e, swap) ==
  IF IsError(e) THEN FailedWith(e, 1)
  ELSE IF e = "invalid" THEN FailedWith("other", 1 + boolInt(IsError(swap)))
  ELSE Section(IF IsError(swap) THEN "DEGRADED" ELSE "AVAILABLE",
               IF IsError(swap) THEN "partial_collection" ELSE "none", 1, 0, boolInt(IsError(swap)), FALSE,
               (IF e = "bad" THEN {"value"} ELSE {}) \union (IF swap = "bad" THEN {"swap"} ELSE {}))

(* The mountpoints of the partitions that are looked at.                    *)
Mounts(partitions) ==
  {partitions[i] : i \in {j \in DOMAIN partitions : j <= MaxFilesystems}}

(* Mutant: the total counts the rows read, not the partitions. *)
FilesystemsCounted(partitions, usage, cut, ended, here) ==
  LET out == {m \in Mounts(partitions) : usage[m] \in {"ok", "bad"}}
  IN IF out = {} THEN FailedWith("nodata", 0)
     ELSE Section("DEGRADED", "partial_collection", Cardinality(out), Cardinality(out), 0,
                  Len(partitions) > MaxFilesystems, {})

(* Filesystems: partitions is the sorted list, usage what every mountpoint  *)
(* answers, cut the mountpoints read before the context ended, here the    *)
(* local observer.                                                         *)
Filesystems(partitions, usage, cut, ended, here) ==
  LET total == Len(partitions)
      truncated == total > MaxFilesystems
      read == {m \in Mounts(partitions) : Cardinality({n \in Mounts(partitions) : n < m}) < cut}
      out == {m \in read : usage[m] \in {"ok", "bad"}}
      failures == {classify(usage[m]) : m \in read \ out}
                    \union (IF read # Mounts(partitions) THEN {classify(ended)} ELSE {})
      errors == Cardinality(read \ out) + boolInt(read # Mounts(partitions))
      failed == IF Cardinality(failures) = 1 THEN CHOOSE f \in failures : TRUE ELSE classify("other")
  IN IF out = {}
     THEN [Failed(IF errors = 0 THEN "UNAVAILABLE" ELSE failed.state,
                  IF errors = 0 THEN "no_data" ELSE failed.reason, errors)
           EXCEPT !.total = total, !.truncated = truncated]
     ELSE LET whole == errors = 0 /\ ~truncated /\ here
          IN Section(IF whole THEN "AVAILABLE" ELSE "DEGRADED",
                     IF whole THEN "none" ELSE "partial_collection",
                     Cardinality(out), total, errors, truncated,
                     IF \E m \in out : usage[m] = "bad" THEN {"value"} ELSE {})

(* Uptime, and network: one call each.                                      *)
Single(e) ==
  IF IsError(e) THEN FailedWith(e, 1)
  ELSE Section("AVAILABLE", "none", 1, 0, 0, FALSE, IF e = "bad" THEN {"value"} ELSE {})
network(e) == IF local THEN Single(e) ELSE Disabled

(* scanProcesses and processes: discovered process numbers, answers the     *)
(* details read of the first MaxScan of them.                              *)
Count(answers, kind) == Cardinality({i \in DOMAIN answers : answers[i] = kind})
processes(discovered, answers) ==
  LET scanned == Len(answers)
      rows == Count(answers, "ok") + Count(answers, "bad")
      listed == rows + Count(answers, "invalid")
      errors == scanned - rows
      shown == IF rows > MaxProcesses THEN MaxProcesses ELSE rows
  IN IF listed = 0 /\ scanned > 0
     THEN IF discovered > MaxScan
          THEN Section("DEGRADED", "partial_collection", 0, discovered, errors, TRUE, {})
          ELSE [FailedWith(IF Count(answers, "permission") = scanned THEN "permission"
                           ELSE IF Count(answers, "unsupported") = scanned THEN "unsupported" ELSE "other", errors)
                EXCEPT !.total = discovered]
     ELSE Section(IF errors > 0 \/ discovered > MaxScan THEN "DEGRADED" ELSE "AVAILABLE",
                  IF errors > 0 \/ discovered > MaxScan THEN "partial_collection" ELSE "none",
                  shown, discovered, errors, discovered > shown,
                  IF Count(answers, "bad") > 0 /\ shown > 0 THEN {"value"} ELSE {})

-----------------------------------------------------------------------------
Order == <<"cpu", "memory", "filesystems", "network", "uptime", "processes", "done">>
After(section) == Order[1 + CHOOSE i \in DOMAIN Order : Order[i] = section]

Init ==
  /\ local \in BOOLEAN /\ pc = "cpu" /\ ctx = "live" /\ good = {} /\ late = FALSE
  /\ raw = [s \in SectionNames |-> Disabled]

(* The context may end before or during any reading.                        *)
Ends == ctx' \in IF ctx = "live" THEN {"live", "deadline", "canceled"} ELSE {ctx}

Faulty(snapshot) ==
  {s \in SectionNames : snapshot[s].bad # {} \/ snapshot[s].reason \notin
     {"none", "deadline_exceeded", "collection_canceled", "disabled_by_configuration"}}

Reads(section, result, readings) ==
  /\ pc' = After(section)
  /\ raw' = [raw EXCEPT ![section] = result]
  /\ Cardinality(Faulty(raw')) <= MaxFaulty
  /\ good' = good \union readings
  /\ UNCHANGED <<local, late>>

CollectCPU ==
  /\ pc = "cpu" /\ Ends
  /\ \E e1, e2 \in Outcomes(ctx') \ {"nodata"} :
       Reads("cpu", CPU(e1, e2), IF {e1, e2} \subseteq {"ok", "bad"} THEN {"cpu"} ELSE {})
CollectMemory ==
  /\ pc = "memory" /\ Ends
  /\ \E e \in Outcomes(ctx'), swap \in Outcomes(ctx') \ {"invalid"} :
       Reads("memory", Memory(e, swap),
             (IF e \in {"ok", "bad"} THEN {"memory"} ELSE {}) \union (IF IsError(swap) THEN {} ELSE {"swap"}))
(* Every list of partitions with every answer to every question about them, *)
(* by what happens to the context meanwhile: the section it makes.          *)
ContextSteps ==
  {<<"live", c>> : c \in {"live", "deadline", "canceled"}} \union {<<c, c>> : c \in {"deadline", "canceled"}}
PartitionLists ==
  UNION {{p \in [1 .. n -> 1 .. MaxPartitions] : \A i \in 1 .. n - 1 : p[i] <= p[i + 1]} : n \in 0 .. MaxPartitions}
Usages(c) == [1 .. MaxPartitions -> {"ok", "invalid", "bad", "permission"} \union ({c} \ {"live"})]
Cuts(step) ==
  CASE step[2] = "live" -> {MaxPartitions} [] step[1] # "live" -> {0} [] OTHER -> 0 .. MaxPartitions
FilesystemReadings ==
  UNION {{[here |-> l, step |-> step, section |-> Filesystems(p, usage, cut, step[2], l),
           whole |-> /\ cut >= Cardinality(Mounts(p))
                     /\ \A i \in DOMAIN p : usage[p[i]] \in {"ok", "bad"}]
            : l \in BOOLEAN, p \in PartitionLists, usage \in Usages(step[2]), cut \in Cuts(step)}
          : step \in ContextSteps}

CollectFilesystems ==
  /\ pc = "filesystems" /\ Ends
  /\ \/ \E e \in ProviderErrors \union ({ctx'} \ {"live"}) : Reads("filesystems", FailedWith(e, 1), {})
     \/ \E f \in FilesystemReadings :
          /\ f.here = local /\ f.step = <<ctx, ctx'>>
          /\ Reads("filesystems", f.section, IF f.whole THEN {"filesystems"} ELSE {})
CollectNetwork ==
  /\ pc = "network" /\ Ends
  /\ \E e \in Outcomes(ctx') \ {"invalid", "bad"} : Reads("network", network(e), IF e = "ok" THEN {"network"} ELSE {})
CollectUptime ==
  /\ pc = "uptime" /\ Ends
  /\ \E e \in Outcomes(ctx') \ {"invalid"} : Reads("uptime", Single(e), IF e \in {"ok", "bad"} THEN {"uptime"} ELSE {})

(* A scan whose context ends is an error of the whole section; a context    *)
(* that ends afterwards loses the rows not yet copied.                     *)
CollectProcesses ==
  /\ pc = "processes" /\ Ends
  /\ \/ \E e \in ProviderErrors \union ({ctx'} \ {"live"}) : Reads("processes", FailedWith(e, 1), {})
     \/ /\ ctx = "live"
        /\ \E discovered \in 0 .. MaxPids :
             \E answers \in [1 .. (IF discovered > MaxScan THEN MaxScan ELSE discovered)
                             -> {"ok", "invalid", "bad", "permission", "unsupported", "other"}] :
                Reads("processes", processes(discovered, answers),
                      IF discovered <= MaxScan /\ \A i \in DOMAIN answers : answers[i] \in {"ok", "bad"}
                      THEN {"processes"} ELSE {})

(* The deadline is the longest duration a document may carry, so a cut      *)
(* collection may be too long for one.                                     *)
Finish ==
  /\ pc = "done" /\ ~late /\ ctx = "deadline"
  /\ late' = TRUE
  /\ UNCHANGED <<local, pc, ctx, raw, good>>

Next ==
  \/ CollectCPU \/ CollectMemory \/ CollectFilesystems \/ CollectNetwork
  \/ CollectUptime \/ CollectProcesses \/ Finish

Spec == Init /\ [][Next]_vars

-----------------------------------------------------------------------------
(* A collection can be sent: EncodeNative and EncodeProcessesAndContainers  *)
(* refuse a snapshot, and end the collector with it, only when a provider   *)
(* reported a value no document may carry or the deadline passed; the older *)
(* Encode also when one mountpoint was listed twice.                        *)
CollectedCanBeSent ==
  pc = "done" /\ (\A s \in SectionNames : raw[s].bad = {}) =>
    /\ EncodeNativeFails(raw, late) => ctx = "deadline"
    /\ EncodeFails(raw) => raw.filesystems.total > raw.filesystems.samples
    /\ \A fits \in 0 .. MaxProcesses : ~EncodeWorkloadsFails(raw.processes, fits, UnavailableContainers)

(* Nothing is invented: a value the platform, the local view or the history *)
(* shows was read without an error, and a count said to be complete was     *)
(* counted whole.                                                           *)
NothingIsInvented ==
  pc = "done" =>
    LET d == nativeDocument(raw)
        w == projectProcesses(raw.processes)
    IN /\ \A part \in CPUParts : d[part].present => part \in good
       /\ d.memory.swap => "swap" \in good
       /\ d.filesystems.total # None => "filesystems" \in good /\ local
       /\ w.total # Nil => "processes" \in good
       /\ projectOverview(raw).collection = "OK" => CPUParts \union {"swap"} \subseteq good
       /\ Current(raw) = "OK" => \A s \in Lists : raw[s].state \in {"DISABLED", "UNSUPPORTED"} \/ s \in good
       /\ \A m \in Extract(raw, TRUE) :
            MetricStatuses(raw)[m].collection = "OK" => MetricSection[m] \in good
       /\ \A s \in Lists :
            LET l == projectList(raw[s], IF s = "processes" THEN MaxProcesses ELSE MaxFilesystems)
            IN l.status.collection = "OK" /\ ~l.truncated => s \in good /\ l.returned = l.total

(* What Collect returns, whichever providers failed and wherever the        *)
(* deadline fell, can be encoded for the platform and shows nothing that    *)
(* was not read, and so can every inventory of containers (EncodeNative,    *)
(* nativeDocument, projectOverview, ProjectContainers).                     *)
CollectionIsSound == CollectedCanBeSent /\ NothingIsInvented /\ (pc = "done" => InventoriesCanBeSent)
=============================================================================
