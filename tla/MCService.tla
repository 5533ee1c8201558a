----------------------------- MODULE MCService -----------------------------
(* The local observer on its host: the background profile that runs it,    *)
(* and the native logs it keeps (the store alone with several records, the *)
(* collector's published state with one record and failing reads, and the  *)
(* interval algorithms).  Every behaviour belongs to one part and the      *)
(* others rest in an initial state.                                        *)
EXTENDS Background, LogStatus, TLC

CONSTANTS Horizon, Second, Levels
VARIABLES part, segments, truth

Sweep == INSTANCE LogCoverageSweep WITH rows <- segments

ASSUME SweepAssumption == Sweep!SweepConstants

sweepVars == <<segments, truth>>

(* The platforms share the guard and the files: the third operation is     *)
(* left to one of them, after a fault.                                     *)
Operations == IF os = "linux" /\ faults > 0 THEN MaxRuns ELSE MaxRuns - 1

(* A failure to open the journal, beside the failing reads of readerFailure*)
SomeFailures == {f \in NativeFailures : f.reason = "PERMISSION_DENIED"}
MCLevels == {"CHECKPOINT_RESET", "MISSED_COLLECTION"}

MCInit ==
  /\ Init /\ PublicInit /\ Sweep!Init
  /\ \/ part = "profile"
     \/ part \in {"history", "status", "coverage"} /\ os = "linux"

(* The records of the first part do not parse and one of them is vacuumed, *)
(* those of the second parse and stay.                                     *)
HistoryStep ==
  /\ LogNext /\ purged' <= 1
  /\ \A i \in DOMAIN journal' : ~journal'[i].ok
  /\ col'.batch.reason \notin {f.reason : f \in SomeFailures}
StatusStep ==
  /\ PublicNext /\ purged' = 0
  /\ \A i \in DOMAIN journal' : journal'[i].ok
  /\ Len(journal') <= 1

MCNext ==
  /\ UNCHANGED part
  /\ \/ part = "profile" /\ Next /\ (runs' = runs \/ runs' <= Operations) /\ UNCHANGED <<publicVars, sweepVars>>
     \/ part = "history" /\ HistoryStep /\ UNCHANGED <<vars, sweepVars, mem, reading>>
     \/ part = "status" /\ StatusStep /\ UNCHANGED <<vars, sweepVars>>
     \/ part = "coverage" /\ Sweep!Commit /\ UNCHANGED <<vars, publicVars>>

MCSpec == MCInit /\ [][MCNext]_<<part, vars, publicVars, sweepVars>>

(* The operations are alike, and so are the settings they enable.          *)
Symmetry == Permutations(Calls) \union Permutations(Profiles)
-----------------------------------------------------------------------------
(* mergeLogCoverage leaves exactly the maximal runs of the cell-by-cell    *)
(* evidence, and projectLogCoverage counts a second only when all of it is *)
(* covered and otherwise shows the strongest gap.                          *)
CoverageIsExact ==
  part = "coverage" => Sweep!MergeIsPointwise /\ Sweep!ProjectionIsHonest
=============================================================================
