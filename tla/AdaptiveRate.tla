---------------------------- MODULE AdaptiveRate ----------------------------
(***************************************************************************)
(* connector/adaptive_rate.go: the rate is computed under the mutex and    *)
(* pushed to the bucket after it is released, so the pushes of two callers *)
(* can arrive in either order, and a push can fail.                        *)
(***************************************************************************)
EXTENDS Naturals, FiniteSets

CONSTANTS Callers,         \* goroutines that report to the limiter
          BaseRate, FloorRate, RecoveryStep,
          MaxThrottles,    \* bound on Throttled calls
          MaxPushFailures  \* bound on failing SetRate calls

VARIABLES
  current,    \* the limiter's rate, under its mutex
  cooled,     \* CooldownInterval has passed since lastUp
  pushing,    \* the rate each caller is about to push, 0 when it is not
  bucket,     \* the rate the bucket was last set to
  throttles, pushFailures,
  crossed     \* two pushes were under way at once

rateVars == <<current, cooled, pushing, bucket, throttles, pushFailures, crossed>>

RateInit ==
  /\ current = BaseRate /\ bucket = BaseRate /\ cooled = FALSE
  /\ pushing = [c \in Callers |-> 0]
  /\ throttles = 0 /\ pushFailures = 0 /\ crossed = FALSE

StartPush(c, rate) ==
  /\ pushing' = [pushing EXCEPT ![c] = rate]
  /\ crossed' = (crossed \/ \E o \in Callers \ {c} : pushing[o] # 0)

(* Throttled halves the rate down to the floor.                             *)
Throttled(c) ==
  LET half == current \div 2 IN
  /\ pushing[c] = 0 /\ throttles < MaxThrottles
  /\ throttles' = throttles + 1
  /\ current' = IF half < FloorRate THEN FloorRate ELSE half
  /\ StartPush(c, current')
  /\ UNCHANGED <<cooled, bucket, pushFailures>>

\* Mutant: a step that would pass the base rate is not taken.
HealthyStopsShort(c) ==
  /\ pushing[c] = 0 /\ cooled
  /\ cooled' = FALSE
  /\ IF current + RecoveryStep > BaseRate
     THEN UNCHANGED <<current, pushing, crossed>>
     ELSE current' = current + RecoveryStep /\ StartPush(c, current')
  /\ UNCHANGED <<bucket, throttles, pushFailures>>

(* Healthy steps the rate up, at most once an interval; at the base rate it *)
(* only restarts the interval and pushes nothing.                           *)
Healthy(c) ==
  LET up == current + RecoveryStep IN
  /\ pushing[c] = 0 /\ cooled
  /\ cooled' = FALSE
  /\ IF current >= BaseRate
     THEN UNCHANGED <<current, pushing, crossed>>
     ELSE /\ current' = IF up > BaseRate THEN BaseRate ELSE up
          /\ StartPush(c, current')
  /\ UNCHANGED <<bucket, throttles, pushFailures>>

(* Bucket.SetRate of either.                                                *)
SetRate(c) ==
  /\ pushing[c] # 0
  /\ pushing' = [pushing EXCEPT ![c] = 0]
  /\ \/ bucket' = pushing[c] /\ UNCHANGED pushFailures
     \/ pushFailures < MaxPushFailures /\ pushFailures' = pushFailures + 1 /\ UNCHANGED bucket
  /\ UNCHANGED <<current, cooled, throttles, crossed>>

CoolDown ==
  /\ ~cooled /\ cooled' = TRUE
  /\ UNCHANGED <<current, pushing, bucket, throttles, pushFailures, crossed>>

RateNext ==
  \/ CoolDown
  \/ \E c \in Callers : Throttled(c) \/ Healthy(c) \/ SetRate(c)

-----------------------------------------------------------------------------
(* Once the upstream stops throttling, the bucket is back at the base rate  *)
(* for good, unless pushes overlapped or failed: at the base rate Healthy   *)
(* pushes nothing, so the last push is never repeated.                      *)
BucketRecovers ==
  throttles = MaxThrottles ~> [](bucket = BaseRate \/ crossed \/ pushFailures > 0)
=============================================================================
