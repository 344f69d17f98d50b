------------------------- MODULE StageBreakerProofs -------------------------
(***************************************************************************)
(* Machine-checked proofs about StageBreaker, for any set of workers and   *)
(* any positive Threshold, OpenFor and MaxAttempts.                        *)
(*                                                                         *)
(* The inductive invariant is Inv: the three safety invariants, plus the   *)
(* facts that only a worker inside runWithRetry counts as a probe and that *)
(* a sleeping worker has an attempt left.  Without the first the history   *)
(* variable could name an idle worker, and the half-open gate could be     *)
(* shut with nobody left to open it; without the second the loop variable  *)
(* could pass MaxAttempts.                                                 *)
(***************************************************************************)
EXTENDS StageBreaker, TLAPS

\* A worker counted as a probe is inside runWithRetry.
ProbersBusy == \A w \in prober : pc[w] # "idle"

\* A worker that sleeps between two attempts has an attempt left.
SleepersMayRetry == \A w \in Workers : pc[w] = "backoff" => attempt[w] < MaxAttempts

Inv ==
  /\ TypeOK
  /\ TrippedIffThreshold
  /\ ProbeSlotIffHalfOpen
  /\ HalfOpenHasProbe
  /\ ProbersBusy
  /\ SleepersMayRetry

USE ThresholdAssumption, OpenForAssumption, MaxAttemptsAssumption

\* The constructor establishes the invariant (NewStageCircuitBreaker).
LEMMA InitInv == Init => Inv
<1> SUFFICES ASSUME Init PROVE Inv
  OBVIOUS
<1>1. probeInFlight \in BOOLEAN /\ ProbeSlotIffHalfOpen
  BY Zenon DEF Init, ProbeSlotIffHalfOpen
<1>2. TypeOK
  BY <1>1 DEF Init, TypeOK, States
<1>3. TrippedIffThreshold /\ HalfOpenHasProbe /\ ProbersBusy /\ SleepersMayRetry
  BY DEF Init, TrippedIffThreshold, HalfOpenHasProbe, ProbersBusy, SleepersMayRetry
<1>. QED BY <1>1, <1>2, <1>3 DEF Inv

\* A report to the breaker (OnSuccess or OnFailure) keeps the breaker's own
\* fields consistent and always leaves the half-open state.
LEMMA ReportLeavesHalfOpen ==
  ASSUME TypeOK, TrippedIffThreshold, ProbeSlotIffHalfOpen, OnSuccess \/ OnFailure
  PROVE  /\ state' \in {"closed", "open"}
         /\ fails' \in 0..Threshold
         /\ elapsed' \in 0..OpenFor
         /\ probeInFlight' = FALSE
         /\ TrippedIffThreshold'
<1>1. CASE OnSuccess
  BY <1>1 DEF OnSuccess, TypeOK, States, TrippedIffThreshold
<1>2. CASE OnFailure
  <2>1. CASE state = "half-open"
    BY <1>2, <2>1 DEF OnFailure, TypeOK, States, TrippedIffThreshold
  <2>2. CASE state # "half-open"
    <3>1. /\ fails' = Saturated(fails + 1)
          /\ probeInFlight' = probeInFlight
          /\ IF fails + 1 >= Threshold /\ state = "closed"
             THEN state' = "open" /\ elapsed' = 0
             ELSE state' = state /\ elapsed' = elapsed
      BY <1>2, <2>2 DEF OnFailure
    <3>2. probeInFlight' = FALSE
      BY <2>2, <3>1, Zenon DEF ProbeSlotIffHalfOpen, TypeOK
    <3>3. state' \in {"closed", "open"} /\ fails' \in 0..Threshold /\ elapsed' \in 0..OpenFor
      BY <2>2, <3>1 DEF Saturated, TypeOK, States
    <3>4. TrippedIffThreshold'
      BY <2>2, <3>1 DEF Saturated, TypeOK, States, TrippedIffThreshold
    <3>. QED BY <3>2, <3>3, <3>4
  <2>. QED BY <2>1, <2>2, Zenon
<1>. QED BY <1>1, <1>2, Zenon

\* Every step of a worker or of the clock preserves the invariant.
LEMMA NextInv == Inv /\ [Next]_vars => Inv'
<1> SUFFICES ASSUME Inv, [Next]_vars PROVE Inv'
  OBVIOUS
<1>1. ASSUME NEW w \in Workers, Allow(w) PROVE Inv'
  <2>. probeInFlight' \in BOOLEAN
    BY <1>1, Zenon DEF Inv, TypeOK, Allow
  <2>1. TypeOK'
    BY <1>1 DEF Inv, TypeOK, States, Allow
  <2>2. TrippedIffThreshold' /\ ProbeSlotIffHalfOpen'
    BY <1>1 DEF Inv, TypeOK, States, Allow, CooledDown, TrippedIffThreshold, ProbeSlotIffHalfOpen
  <2>3. HalfOpenHasProbe'
    BY <1>1 DEF Inv, TypeOK, States, Allow, Admits, CooledDown, HalfOpenHasProbe, ProbeSlotIffHalfOpen
  <2>4. ProbersBusy' /\ SleepersMayRetry'
    BY <1>1 DEF Inv, TypeOK, Allow, ProbersBusy, SleepersMayRetry
  <2>. QED BY <2>1, <2>2, <2>3, <2>4 DEF Inv
<1>2. ASSUME NEW w \in Workers, ShortCircuit(w) PROVE Inv'
  BY <1>2 DEF ShortCircuit, vars, Inv, TypeOK, TrippedIffThreshold, ProbeSlotIffHalfOpen,
              HalfOpenHasProbe, ProbersBusy, SleepersMayRetry
<1>3. ASSUME NEW w \in Workers, AttemptRetry(w) PROVE Inv'
  BY <1>3 DEF AttemptRetry, breakerVars, Inv, TypeOK, TrippedIffThreshold, ProbeSlotIffHalfOpen,
              HalfOpenHasProbe, ProbersBusy, SleepersMayRetry
<1>4. ASSUME NEW w \in Workers, BackoffElapsed(w) PROVE Inv'
  BY <1>4 DEF BackoffElapsed, breakerVars, Inv, TypeOK, TrippedIffThreshold, ProbeSlotIffHalfOpen,
              HalfOpenHasProbe, ProbersBusy, SleepersMayRetry
<1>5. ASSUME NEW w \in Workers, Report(w) PROVE Inv'
  <2>1. (OnSuccess \/ OnFailure) /\ Leave(w)
    BY <1>5 DEF Report, AttemptHealthy, AttemptExhausted, Abandon
  <2>2. /\ state' \in {"closed", "open"}
        /\ fails' \in 0..Threshold
        /\ elapsed' \in 0..OpenFor
        /\ probeInFlight' = FALSE
        /\ TrippedIffThreshold'
    BY <2>1, ReportLeavesHalfOpen, Zenon DEF Inv
  <2>. probeInFlight' \in BOOLEAN
    BY <2>2, Zenon
  <2>3. TypeOK'
    BY <2>1, <2>2 DEF Leave, Inv, TypeOK, States
  <2>4. ProbeSlotIffHalfOpen' /\ HalfOpenHasProbe'
    BY <2>2 DEF ProbeSlotIffHalfOpen, HalfOpenHasProbe
  <2>5. ProbersBusy' /\ SleepersMayRetry'
    BY <2>1 DEF Leave, Inv, TypeOK, ProbersBusy, SleepersMayRetry
  <2>. QED BY <2>2, <2>3, <2>4, <2>5 DEF Inv
<1>6. CASE Tick
  BY <1>6 DEF Tick, Inv, TypeOK, TrippedIffThreshold, ProbeSlotIffHalfOpen,
              HalfOpenHasProbe, ProbersBusy, SleepersMayRetry
<1>7. CASE UNCHANGED vars
  BY <1>7 DEF vars, Inv, TypeOK, TrippedIffThreshold, ProbeSlotIffHalfOpen,
              HalfOpenHasProbe, ProbersBusy, SleepersMayRetry
<1>. QED BY <1>1, <1>2, <1>3, <1>4, <1>5, <1>6, <1>7 DEF Next, Step

\* The whole invariant holds in every reachable state of the breaker.
THEOREM BreakerInvariant == Spec => []Inv
BY InitInv, NextInv, PTL DEF Spec

\* Every field keeps its type and no call exceeds MaxAttempts (runWithRetry).
THEOREM BreakerTypeCorrect == Spec => []TypeOK
<1>1. Inv => TypeOK
  BY DEF Inv
<1>. QED BY <1>1, BreakerInvariant, PTL

\* The breaker is away from closed exactly on a full streak of failures
\* (OnSuccess, OnFailure), for any number of workers and any threshold.
THEOREM BreakerTripsExactly == Spec => []TrippedIffThreshold
<1>1. Inv => TrippedIffThreshold
  BY DEF Inv
<1>. QED BY <1>1, BreakerInvariant, PTL

\* The half-open gate never wedges: some admitted probe is still running and
\* will report (Allow and every return path of runWithRetry).
THEOREM BreakerGateNeverWedges == Spec => []HalfOpenHasProbe
<1>1. Inv => HalfOpenHasProbe
  BY DEF Inv
<1>. QED BY <1>1, BreakerInvariant, PTL
=============================================================================
