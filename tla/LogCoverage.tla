---------------------------- MODULE LogCoverage ----------------------------
(* Coverage evidence of one log source: half-open intervals of time that   *)
(* were either read completely (COVERED, the blank reason of the code) or  *)
(* are known gaps with a reason.  Time without evidence is in no segment.  *)
(* The operators say what internal/history/log_coverage.go computes, cell  *)
(* by cell; LogCoverageSweep is its algorithm.                             *)
EXTENDS Integers

COVERED == "COVERED"
NOT_YET_OBSERVED == "NOT_YET_OBSERVED"    \* no evidence: never stored
Reasons == <<"CHECKPOINT_RESET", "PERMISSION_DENIED", "DEADLINE_EXCEEDED", "INVALID_RESPONSE",
             "RESPONSE_TOO_LARGE", "READER_FAILED", "BACKLOG_DEFERRED", "MISSED_COLLECTION">>
Gaps == {Reasons[i] : i \in DOMAIN Reasons}
Rank(reason) == CHOOSE i \in DOMAIN Reasons : Reasons[i] = reason

strongerLogReason(candidate, existing) ==
  /\ candidate # COVERED
  /\ existing = COVERED \/ Rank(candidate) < Rank(existing)

Segment(times) ==
  {s \in [start : times, end : times, reason : Gaps \union {COVERED}] : s.start < s.end}

Within(s, t) == s.start <= t /\ t < s.end
Evidence(segments, t) == {s.reason : s \in {x \in segments : Within(x, t)}}
Disjoint(segments) ==
  \A a, b \in segments : a # b => a.end <= b.start \/ b.end <= a.start

Strongest(reasons) ==
  CHOOSE r \in reasons : \A other \in reasons \ {r} : strongerLogReason(r, other)

(* The maximal intervals inside floor .. end with one strongest reason:    *)
(* what appendLogSegment leaves after joining neighbours.                  *)
Runs(segments, floor, end) ==
  LET shown == [t \in floor - 1 .. end |->
                  IF t < floor \/ t >= end \/ Evidence(segments, t) = {}
                  THEN "none" ELSE Strongest(Evidence(segments, t))]
      starts == {t \in floor .. end : shown[t] # "none" /\ shown[t - 1] # shown[t]}
      stop(a) == CHOOSE b \in a + 1 .. end :
                   shown[b] # shown[a] /\ \A t \in a .. b - 1 : shown[t] = shown[a]
  IN {[start |-> a, end |-> stop(a), reason |-> shown[a]] : a \in starts}

Merged(old, additions, floor, end) == Runs(old \union additions, floor, end)
=============================================================================
