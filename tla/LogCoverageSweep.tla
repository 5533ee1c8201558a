-------------------------- MODULE LogCoverageSweep --------------------------
(* The interval algorithms of internal/history/log_coverage.go on sorted   *)
(* sequences of segments: mergeLogCoverage and projectLogCoverage.  One    *)
(* source's evidence grows by arbitrary commits and is clipped by          *)
(* arbitrary windows; truth holds the same evidence cell by cell.          *)
EXTENDS LogCoverage, SequencesExt

CONSTANTS
  Horizon,    \* the last instant; time is counted in nanosecond cells
  Second,     \* cells per second
  Levels      \* the gap reasons the additions carry

SweepConstants ==
  /\ Horizon \in Nat /\ Second \in Nat \ {0} /\ Horizon % Second = 0 /\ Levels \subseteq Gaps

VARIABLES
  rows,    \* the stored evidence, as mergeLogCoverage returned it
  truth    \* the strongest evidence of every cell, "none" without any

vars == <<rows, truth>>

Cells == 0 .. Horizon - 1
Additions == {s \in Segment(0 .. Horizon) : s.reason \in Levels \union {COVERED}}

appendLogSegment(out, s) ==
  IF out # <<>> /\ Last(out).end = s.start /\ Last(out).reason = s.reason
  THEN [out EXCEPT ![Len(out)].end = s.end]
  ELSE Append(out, s)

Clip(s, floor, end) ==
  [s EXCEPT !.start = IF @ < floor THEN floor ELSE @, !.end = IF @ > end THEN end ELSE @]

Sorted(set) ==
  [i \in 1 .. Cardinality(set) |-> CHOOSE t \in set : Cardinality({u \in set : u < t}) = i - 1]

(* The first segment from position on that ends after left; one past the   *)
(* last without any.                                                       *)
(* Mutant: a segment that ends at left still counts. *)
AdvanceShort(current, position, left) ==
  Min({p \in position .. Len(current) : current[p].end >= left} \union {Len(current) + 1})
Advance(current, position, left) ==
  Min({p \in position .. Len(current) : current[p].end > left} \union {Len(current) + 1})

(* One addition: between two neighbouring bounds at most one old segment   *)
(* and the addition hold, and position is the old one to look at.          *)
Sweep(current, addition) ==
  LET bounds == Sorted({s.start : s \in ToSet(current)} \union {s.end : s \in ToSet(current)}
                       \union {addition.start, addition.end})
      interval(acc, i) ==
        LET left == bounds[i]
            position == Advance(current, acc.position, left)
            old == IF position <= Len(current) /\ left >= current[position].start
                   THEN {current[position].reason} ELSE {}
            new == IF Within(addition, left) /\ \A r \in old : strongerLogReason(addition.reason, r)
                   THEN {addition.reason} ELSE old
        IN [position |-> position,
            merged |-> IF new = {} THEN acc.merged
                       ELSE appendLogSegment(acc.merged, [start |-> left, end |-> bounds[i + 1],
                                                          reason |-> CHOOSE r \in new : TRUE])]
  IN FoldLeft(interval, [position |-> 1, merged |-> <<>>],
              [i \in 1 .. Len(bounds) - 1 |-> i]).merged

Remains(s, floor, end) == Clip(s, floor, end).start < Clip(s, floor, end).end

mergeLogCoverage(old, additions, floor, end) ==
  LET keep(out, s) == IF Remains(s, floor, end) THEN appendLogSegment(out, Clip(s, floor, end)) ELSE out
      add(out, s) == IF Remains(s, floor, end) THEN Sweep(out, Clip(s, floor, end)) ELSE out
  IN FoldLeft(add, FoldLeft(keep, <<>>, old), additions)

-----------------------------------------------------------------------------
(* projectLogCoverage: one bucket of the summary.                          *)
Up(t) == ((t + Second - 1) \div Second) * Second
Down(t) == (t \div Second) * Second
coveredTime(s) == IF Up(s.start) < Down(s.end) THEN Down(s.end) - Up(s.start) ELSE 0

projectLogCoverage(segments, start, end) ==
  LET coalesced == mergeLogCoverage(segments, <<>>, start, end)
      count(sum, s) == IF s.reason = COVERED THEN sum + coveredTime(s) ELSE sum
      worst(r, s) == IF s.reason # COVERED /\ (r = NOT_YET_OBSERVED \/ strongerLogReason(s.reason, r))
                     THEN s.reason ELSE r
      covered == FoldLeft(count, 0, coalesced)
      reason == FoldLeft(worst, NOT_YET_OBSERVED, coalesced)
  IN [state |-> IF covered = end - start THEN "FULL"
                ELSE IF covered > 0 THEN "PARTIAL"
                ELSE IF reason # NOT_YET_OBSERVED THEN "GAP" ELSE "UNKNOWN",
      covered |-> covered \div Second,
      reason |-> IF covered = end - start THEN "none" ELSE reason]

-----------------------------------------------------------------------------
Init == rows = <<>> /\ truth = [t \in Cells |-> "none"]

(* A commit adds up to two neighbouring segments and keeps what lies       *)
(* between the retention floor and the query start.                        *)
Commit ==
  \E floor \in Cells, end \in 1 .. Horizon :
    \E new \in {<<>>} \union {<<a>> : a \in Additions}
               \union {<<p[1], p[2]>> : p \in {x \in Additions \X Additions : x[1].end = x[2].start}} :
      LET evidence(t) == (IF truth[t] = "none" THEN {} ELSE {truth[t]})
                           \union {s.reason : s \in {x \in ToSet(new) : Within(x, t)}}
      IN /\ floor < end
         /\ rows' = mergeLogCoverage(rows, new, floor, end)
         /\ truth' = [t \in Cells |-> IF t < floor \/ t >= end \/ evidence(t) = {}
                                      THEN "none" ELSE Strongest(evidence(t))]

Spec == Init /\ [][Commit]_vars

-----------------------------------------------------------------------------
(* mergeLogCoverage keeps every gap and otherwise the strongest evidence:  *)
(* its result is exactly the maximal runs of the cell-by-cell evidence, in *)
(* order, so the rows can always be loaded again.                          *)
MergeIsPointwise ==
  LET cells == {[start |-> t, end |-> t + 1, reason |-> truth[t]] :
                  t \in {x \in Cells : truth[x] # "none"}}
  IN /\ ToSet(rows) = Merged(cells, {}, 0, Horizon)
     /\ Len(rows) = Cardinality(ToSet(rows))
     /\ \A i \in 1 .. Len(rows) - 1 : rows[i].end <= rows[i + 1].start

(* projectLogCoverage counts a second only when all of it is covered, says *)
(* FULL only when every second is, and otherwise shows the strongest gap   *)
(* of the bucket.                                                          *)
ProjectionIsHonest ==
  \A start, end \in {t \in 0 .. Horizon : t % Second = 0} :
    start < end =>
      LET bucket == projectLogCoverage(rows, start, end)
          cells == start .. end - 1
          whole == {s \in start \div Second .. end \div Second - 1 :
                      \A t \in s * Second .. (s + 1) * Second - 1 : truth[t] = COVERED}
          gaps == {truth[t] : t \in cells} \ {COVERED, "none"}
      IN /\ bucket.covered = Cardinality(whole)
         /\ bucket.state = "FULL" <=> \A t \in cells : truth[t] = COVERED
         /\ bucket.state = "UNKNOWN" <=> whole = {} /\ gaps = {}
         /\ bucket.state = "GAP" <=> whole = {} /\ gaps # {}
         /\ bucket.reason = IF bucket.state = "FULL" THEN "none"
                             ELSE IF gaps = {} THEN NOT_YET_OBSERVED ELSE Strongest(gaps)
=============================================================================
