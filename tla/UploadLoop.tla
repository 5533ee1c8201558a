----------------------------- MODULE UploadLoop -----------------------------
(* internal/uploadloop: the loop that paces the upload state machine.      *)
(* Callers race each other for its single run, the context may be          *)
(* cancelled at any moment, and a Step may return anything its interface   *)
(* allows, also after the cancellation.  Delays are in seconds.            *)
EXTENDS Integers

CONSTANTS
  Callers,   \* goroutines that call Run
  MaxCount   \* the counters saturate here (math.MaxUint64 in the code)

ASSUME MaxCountAssumption == MaxCount \in Nat \ {0}

VARIABLES
  used, running, loopResult,            \* Loop.used, Stats.Running, Stats.Result
  at,                               \* where run is
  nextDelay, retryCap,              \* Stats.NextDelay, the local retryCap
  acks, lastOutcome, lastIssue,     \* Stats
  cancelled,                        \* the context of the run
  calls,                            \* what each caller's Run returned
  streak, limited                   \* history, see BackoffCap

loopVars == <<used, running, loopResult, at, nextDelay, retryCap, acks, lastOutcome, lastIssue>>
historyVars == <<streak, limited>>
loopSpecVars == <<loopVars, cancelled, calls, historyVars>>

startupDelay == 60
pollDelay == 15
maxRetryDelay == 60

Quiet == {"Acknowledged", "Idle", "SourceUnavailable", "Expired", "ClockSkew"}
Stopping == {"CredentialRejected", "Conflict", "Rejected", "Exhausted"}
Outcomes == Quiet \union Stopping \union {"Retry", "RateLimited"}
Errors == {"ErrCanceled", "ErrSnapshot", "ErrRecovery", "other"}
Results == {"none", "CANCELED", "RECOVERY_REQUIRED", "DEPENDENCY_FAILED"} \union Stopping

increment(v) == IF v = MaxCount THEN v ELSE v + 1

nextRetry(previous) ==
  IF previous = 0 THEN 1
  ELSE IF previous >= maxRetryDelay \div 2 THEN maxRetryDelay
  ELSE previous * 2
JitterLow(cap) == IF cap \div 2 > 1 THEN cap \div 2 ELSE 1
(* retryJitter: a delay between the bounds; whole seconds stand for all.   *)
retryJitter(cap) == JitterLow(cap) .. cap

(* Mutant: the loop can be run again when it is over. *)
RunAgain(c) ==
  /\ calls[c] = "none"
  /\ \/ running /\ calls' = [calls EXCEPT ![c] = "ErrBusy"]
        /\ UNCHANGED <<loopVars, historyVars>>
     \/ /\ ~running
        /\ used' = TRUE /\ running' = TRUE
        /\ at' = "pause" /\ nextDelay' = startupDelay
        /\ calls' = [calls EXCEPT ![c] = "running"]
        /\ UNCHANGED <<loopResult, retryCap, acks, lastOutcome, lastIssue, historyVars>>
  /\ UNCHANGED cancelled
(* Run: one caller gets the loop, once.                                    *)
Run(c) ==
  /\ calls[c] = "none"
  /\ \/ running /\ calls' = [calls EXCEPT ![c] = "ErrBusy"]
        /\ UNCHANGED <<loopVars, historyVars>>
     \/ ~running /\ used /\ calls' = [calls EXCEPT ![c] = "ErrUsed"]
        /\ UNCHANGED <<loopVars, historyVars>>
     \/ /\ ~running /\ ~used
        /\ used' = TRUE /\ running' = TRUE
        /\ at' = "pause" /\ nextDelay' = startupDelay
        /\ calls' = [calls EXCEPT ![c] = "running"]
        /\ UNCHANGED <<loopResult, retryCap, acks, lastOutcome, lastIssue, historyVars>>
  /\ UNCHANGED cancelled

CancelRun ==
  /\ used /\ ~cancelled
  /\ cancelled' = TRUE
  /\ UNCHANGED <<loopVars, calls, historyVars>>

finish(r) ==
  /\ running' = FALSE
  /\ loopResult' = r
  /\ nextDelay' = 0
  /\ at' = "done"
  /\ calls' = [c \in Callers |-> IF calls[c] = "running" THEN r ELSE calls[c]]

(* Mutant: the wait does not listen to the context. *)
PauseEndsByTimer ==
  /\ at = "pause" /\ ~cancelled
  /\ at' = "step" /\ nextDelay' = 0
  /\ UNCHANGED <<running, loopResult, calls>>
  /\ UNCHANGED <<used, retryCap, acks, lastOutcome, lastIssue, cancelled, historyVars>>
(* The wait is over, or ends with the context; the loop looks at the       *)
(* context again before it calls Step.                                     *)
PauseEnds ==
  /\ at = "pause"
  /\ \/ ~cancelled /\ at' = "step" /\ nextDelay' = 0 /\ UNCHANGED <<running, loopResult, calls>>
     \/ cancelled /\ finish("CANCELED")
  /\ UNCHANGED <<used, retryCap, acks, lastOutcome, lastIssue, cancelled, historyVars>>

Counted(o) == IF o = "Acknowledged" THEN increment(acks) ELSE acks

Issue(e) ==
  CASE e = "ErrCanceled" /\ cancelled -> "none"
    [] e = "ErrSnapshot" -> "INVALID_SNAPSHOT"
    [] e = "ErrRecovery" -> "RECOVERY_REQUIRED"
    [] OTHER -> "DEPENDENCY_FAILED"

Pause(delay) == nextDelay' = delay /\ at' = "pause" /\ UNCHANGED <<running, loopResult, calls>>

(* Step returned an outcome: it is recorded before the context is looked   *)
(* at, then it decides the next delay or the end.                          *)
StepReturns(o) ==
  /\ at = "step"
  /\ lastOutcome' = o /\ lastIssue' = "none"
  /\ acks' = Counted(o)
  /\ retryCap' = IF cancelled \/ o \in Stopping THEN retryCap
                 ELSE IF o = "Retry" THEN nextRetry(retryCap)
                 ELSE IF o = "RateLimited" THEN maxRetryDelay
                 ELSE 0
  /\ streak' = IF cancelled THEN streak
               ELSE IF o = "Retry" THEN (IF streak < 8 THEN streak + 1 ELSE streak)
               ELSE IF o \in Quiet THEN 0 ELSE streak
  /\ limited' = IF cancelled THEN limited ELSE o = "RateLimited" \/ (limited /\ o \notin Quiet)
  /\ \/ cancelled /\ finish("CANCELED")
     \/ /\ ~cancelled
        /\ \/ o \in Quiet /\ Pause(pollDelay)
           \/ o = "Retry" /\ \E d \in retryJitter(retryCap') : Pause(d)
           \/ o = "RateLimited" /\ Pause(maxRetryDelay)
           \/ o \in Stopping /\ finish(o)
  /\ UNCHANGED <<used, cancelled>>

(* Step returned an error: an invalid snapshot is waited out, the others   *)
(* end the run.                                                            *)
StepFails(e) ==
  /\ at = "step"
  /\ lastOutcome' = "none" /\ lastIssue' = Issue(e)
  /\ \/ /\ cancelled /\ finish("CANCELED")
        /\ UNCHANGED <<retryCap, historyVars>>
     \/ /\ ~cancelled /\ e = "ErrSnapshot"
        /\ retryCap' = 0 /\ streak' = 0 /\ limited' = FALSE
        /\ Pause(pollDelay)
     \/ /\ ~cancelled /\ e # "ErrSnapshot"
        /\ finish(IF e = "ErrRecovery" THEN "RECOVERY_REQUIRED" ELSE "DEPENDENCY_FAILED")
        /\ UNCHANGED <<retryCap, historyVars>>
  /\ UNCHANGED <<used, acks, cancelled>>

LoopInit ==
  /\ used = FALSE /\ running = FALSE /\ loopResult = "none"
  /\ at = "idle"
  /\ nextDelay = 0 /\ retryCap = 0
  /\ acks = 0 /\ lastOutcome = "none" /\ lastIssue = "none"
  /\ cancelled = FALSE
  /\ calls = [c \in Callers |-> "none"]
  /\ streak = 0 /\ limited = FALSE

LoopStep == PauseEnds \/ (\E o \in Outcomes : StepReturns(o)) \/ (\E e \in Errors : StepFails(e))
LoopNext == LoopStep \/ CancelRun \/ \E c \in Callers : Run(c)

LoopSpec == LoopInit /\ [][LoopNext]_loopSpecVars
(* A timer fires and a Step returns: both are bounded by their own         *)
(* deadlines.                                                              *)
LoopFairSpec == LoopSpec /\ WF_loopSpecVars(LoopStep)

---------------------------------------------------------------------------
(* The cap of the backoff is what the failures since the last quiet        *)
(* outcome call for, 1, 2, 4, 8, 16, 32 and then 60 seconds, or 60 after a *)
(* rate limit: an idle or acknowledged round in between starts it afresh,  *)
(* an invalid snapshot too (run, nextRetry).                               *)
BackoffCap ==
  retryCap = IF limited \/ streak > 6 THEN maxRetryDelay
             ELSE IF streak = 0 THEN 0
             ELSE <<1, 2, 4, 8, 16, 32>>[streak]

(* Of all the callers of Run at most one ran the loop, and what it got is  *)
(* the result the statistics show.                                         *)
OneRun ==
  \A c, d \in Callers :
    /\ calls[c] = "running" => running
    /\ calls[c] \in Results \ {"none"} => calls[c] = loopResult
    /\ calls[c] \in Results \union {"running"} /\ calls[d] \in Results \union {"running"} =>
         c = d \/ calls[c] = "none" \/ calls[d] = "none"

(* Whoever calls Run, one loop runs, and its pauses are what its own       *)
(* failures call for (Run, run, nextRetry).                                *)
LoopIsBounded == BackoffCap /\ OneRun

(* A cancelled run ends.                                                   *)
CancelEnds == cancelled ~> ~running
=============================================================================
