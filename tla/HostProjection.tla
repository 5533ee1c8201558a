--------------------------- MODULE HostProjection ---------------------------
(* The sections of one host snapshot and what is made of them: the local   *)
(* view (internal/projection), the stored samples (internal/history), and  *)
(* the document sent to the platform (internal/remoteprojection).          *)
EXTENDS Integers, FiniteSets, Sequences

CONSTANTS MaxFilesystems      \* rows a document carries (16 in the code)

None == -1
CPUParts == {"cpu", "memory", "uptime"}
Lists == {"filesystems", "processes"}
SectionNames == CPUParts \union Lists \union {"network"}
Observable == {"AVAILABLE", "DEGRADED"}
States == Observable \union {"DISABLED", "PERMISSION_DENIED", "UNAVAILABLE", "UNSUPPORTED"}

(* A section: its state, its reason, the rows it returns, the rows that    *)
(* exist, how many readings failed, whether rows were cut off, whether it  *)
(* carries data, and which of its values no document may carry (a used     *)
(* size above its total, an integer beyond 2^53 - 1).                      *)
Section(state, reason, samples, total, errors, truncated, bad) ==
  [state |-> state, reason |-> reason, samples |-> samples, total |-> total, errors |-> errors,
   truncated |-> truncated, data |-> state \in Observable, bad |-> bad]
Failed(state, reason, errors) == Section(state, reason, 0, 0, errors, FALSE, {})

-----------------------------------------------------------------------------
(* The local view.                                                         *)
SectionStatus(support, collection, reason) ==
  [support |-> support, collection |-> collection, reason |-> reason]

(* statusFor: the status of a section that stands alone.                    *)
statusFor(s) ==
  CASE s.state = "AVAILABLE" -> SectionStatus("SUPPORTED", "OK", "none")
    [] s.state = "DEGRADED" ->
         SectionStatus("SUPPORTED", "PARTIAL", IF s.reason = "none" THEN "partial_collection" ELSE s.reason)
    [] OTHER -> SectionStatus(s.state, "NOT_RUN", s.reason)

(* unavailableStatus: the most actionable reason, in this order.            *)
Precedence == <<"PERMISSION_DENIED", "DISABLED", "UNAVAILABLE", "UNSUPPORTED">>
Parts == <<"cpu", "memory", "uptime">>
unavailableStatus(raw) ==
  LET hit == {<<p, i>> \in (DOMAIN Precedence) \X (DOMAIN Parts) : raw[Parts[i]].state = Precedence[p]}
      first == CHOOSE x \in hit : \A y \in hit : x[1] < y[1] \/ (x[1] = y[1] /\ x[2] <= y[2])
  IN IF hit = {} THEN SectionStatus("UNSUPPORTED", "NOT_RUN", "OVERVIEW_INCOMPLETE")
     ELSE SectionStatus(Precedence[first[1]], "NOT_RUN", raw[Parts[first[2]]].reason)

(* projectOverview: CPU, memory and uptime are one section of the view.     *)
projectOverview(raw) ==
  LET degraded == {i \in DOMAIN Parts : raw[Parts[i]].state = "DEGRADED"}
      last == CHOOSE i \in degraded : \A j \in degraded : j <= i
  IN IF \E p \in CPUParts : ~raw[p].data \/ raw[p].state \notin Observable
     THEN unavailableStatus(raw)
     ELSE IF degraded = {} THEN statusFor(raw.cpu) ELSE statusFor(raw[Parts[last]])

(* projectFilesystems and projectProcesses: the rows shown of a list.       *)
projectList(s, cap) ==
  LET shown == IF s.data THEN IF s.samples > cap THEN cap ELSE s.samples ELSE 0
      total == IF s.total < s.samples THEN s.samples ELSE s.total
  IN [status |-> statusFor(s), returned |-> shown, total |-> IF s.data THEN total ELSE 0,
      truncated |-> s.data /\ (s.truncated \/ total > shown)]

(* projectedCollectionState.                                                *)
projectedCollectionState(statuses) ==
  LET counted == {s \in statuses : s.support \notin {"DISABLED", "UNSUPPORTED"}}
      useful == {s \in counted : s.collection \in {"OK", "PARTIAL"}}
  IN IF useful = {} THEN "FAILED"
     ELSE IF \E s \in counted : s.collection # "OK" THEN "PARTIAL" ELSE "OK"

Current(raw) ==
  projectedCollectionState({projectOverview(raw), statusFor(raw.filesystems), statusFor(raw.processes)})

(* MetricStatuses: which section decides whether a metric is supported.     *)
MetricSection == [cpu |-> "cpu", memory |-> "memory", filesystem |-> "filesystems",
                  receive |-> "network", transmit |-> "network", process |-> "processes"]
MetricStatuses(raw) == [m \in DOMAIN MetricSection |-> statusFor(raw[MetricSection[m]])]

(* Extract: the metrics a snapshot has samples of.  Rates need an earlier   *)
(* reading whose counters are not ahead of this one.                       *)
Rates == {"receive", "transmit"}
Extract(raw, previous) ==
  {m \in DOMAIN MetricSection : raw[MetricSection[m]].state \in Observable
                                /\ raw[MetricSection[m]].data /\ (m \in Rates => previous)}

-----------------------------------------------------------------------------
(* The document for the platform: nullable metrics with their quality.     *)
incomplete(s) == s.truncated \/ s.errors # 0

(* nativeState: only the closed reasons of the wire format leave the host.  *)
nativeReason == [deadline_exceeded |-> "DEADLINE_EXCEEDED", collection_canceled |-> "COLLECTION_CANCELED",
                 no_data |-> "NO_DATA", collection_failed |-> "COLLECTION_FAILED"]
nativeState(state, reason) ==
  [state |-> state,
   reason |-> CASE state = "AVAILABLE" -> "none"
                [] state = "DEGRADED" -> "PARTIAL_COLLECTION"
                [] state = "DISABLED" -> "DISABLED_BY_CONFIGURATION"
                [] state = "UNAVAILABLE" -> IF reason \in DOMAIN nativeReason
                                            THEN nativeReason[reason] ELSE "COLLECTION_FAILED"
                [] OTHER -> state]
failedNative == nativeState("UNAVAILABLE", "collection_failed")

(* EncodeNative, one scalar section: present only when complete.            *)
nativeScalar(s) ==
  IF s.state = "AVAILABLE" /\ s.data /\ ~incomplete(s)
  THEN [quality |-> nativeState(s.state, s.reason), present |-> TRUE]
  ELSE [quality |-> IF s.state \in Observable THEN failedNative ELSE nativeState(s.state, s.reason),
        present |-> FALSE]

(* EncodeNative, memory: a degraded section keeps its totals without swap.  *)
nativeMemory(s) ==
  IF s.state = "DEGRADED" /\ s.reason = "partial_collection" /\ s.data /\ ~s.truncated
  THEN [quality |-> nativeState(s.state, s.reason), present |-> TRUE, swap |-> FALSE]
  ELSE [quality |-> nativeScalar(s).quality, present |-> nativeScalar(s).present, swap |-> nativeScalar(s).present]

(* EncodeNative, filesystems: rows that contradict their own counts are     *)
(* refused, incomplete rows are sent as degraded without a total.           *)
filesystemsRefused(s) ==
  /\ s.state \in Observable /\ s.data
  /\ \/ s.samples > MaxFilesystems \/ s.total < s.samples
     \/ s.truncated /\ s.total <= s.samples
nativeFilesystems(s) ==
  IF s.state \in Observable /\ s.data
  THEN IF s.state = "AVAILABLE" /\ ~incomplete(s) /\ s.total = s.samples
       THEN [quality |-> nativeState(s.state, s.reason), returned |-> s.samples, total |-> s.samples, truncated |-> FALSE]
       ELSE IF s.samples > 0
       THEN [quality |-> nativeState("DEGRADED", "partial_collection"), returned |-> s.samples,
             total |-> None, truncated |-> s.truncated]
       ELSE [quality |-> nativeState("UNAVAILABLE", "no_data"), returned |-> 0, total |-> None, truncated |-> FALSE]
  ELSE [quality |-> IF s.state \in Observable THEN failedNative ELSE nativeState(s.state, s.reason),
        returned |-> 0, total |-> None, truncated |-> FALSE]

nativeDocument(raw) ==
  [cpu |-> nativeScalar(raw.cpu), memory |-> nativeMemory(raw.memory),
   uptime |-> nativeScalar(raw.uptime), filesystems |-> nativeFilesystems(raw.filesystems)]

(* The values of the document that its format cannot hold.                  *)
sentBad(raw, d) ==
  \/ \E part \in {"cpu", "memory", "uptime"} : d[part].present /\ "value" \in raw[part].bad
  \/ d.memory.swap /\ "swap" \in raw.memory.bad
  \/ d.filesystems.returned > 0 /\ raw.filesystems.bad # {}

(* qualityValid and validNative: what the uploader accepts as its own.      *)
qualityValid(q) ==
  CASE q.state = "AVAILABLE" -> q.reason = "none"
    [] q.state = "UNAVAILABLE" ->
         q.reason \in {"COLLECTION_FAILED", "DEADLINE_EXCEEDED", "COLLECTION_CANCELED", "NO_DATA"}
    [] OTHER -> q = nativeState(q.state, "none")
validNative(d) ==
  /\ \A part \in DOMAIN d : qualityValid(d[part].quality)
  /\ \A part \in {"cpu", "uptime"} :
       /\ d[part].present <=> d[part].quality.state = "AVAILABLE"
       /\ d[part].quality.state # "DEGRADED"
  /\ d.memory.present <=> d.memory.quality.state \in Observable
  /\ d.memory.swap <=> d.memory.quality.state = "AVAILABLE"
  /\ d.filesystems.returned <= MaxFilesystems
  /\ CASE d.filesystems.quality.state = "AVAILABLE" ->
            d.filesystems.total = d.filesystems.returned /\ ~d.filesystems.truncated
       [] d.filesystems.quality.state = "DEGRADED" ->
            d.filesystems.returned > 0 /\ d.filesystems.total = None
       [] OTHER -> d.filesystems.returned = 0 /\ d.filesystems.total = None /\ ~d.filesystems.truncated
EncodeNativeFails(raw, late) ==
  late \/ filesystemsRefused(raw.filesystems) \/ ~validNative(nativeDocument(raw))
       \/ sentBad(raw, nativeDocument(raw))

(* Encode: the earlier document carries the overview whole or not at all.   *)
overviewAvailable(raw) ==
  \A part \in CPUParts \union {"filesystems"} :
    raw[part].state = "AVAILABLE" /\ raw[part].data /\ ~incomplete(raw[part])
EncodeFails(raw) ==
  /\ overviewAvailable(raw)
  /\ \/ raw.filesystems.samples > MaxFilesystems
     \/ raw.filesystems.total # raw.filesystems.samples
     \/ \E part \in CPUParts \union {"filesystems"} : raw[part].bad # {}
=============================================================================
