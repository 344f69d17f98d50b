---------------------------- MODULE StageBreaker ----------------------------
(***************************************************************************)
(* One per-stage circuit breaker of the ingest coordinator                 *)
(* (internal/pipeline/stage_breaker.go) together with the retry loop that  *)
(* consults it (runWithRetry in internal/pipeline/coordinator.go).         *)
(*                                                                         *)
(* Every worker of the stage runs the loop: Allow, then up to MaxAttempts  *)
(* attempts separated by a backoff, then exactly one report to the         *)
(* breaker.  Allow, OnSuccess and OnFailure hold the breaker's mutex, so   *)
(* each is one step; an attempt is a call to an external service and spans *)
(* two steps, between which any other worker may run.                      *)
(*                                                                         *)
(* Time is counted in ticks.  Only NowFn().Sub(openAt) is ever compared,   *)
(* and only with OpenFor, so the model keeps that difference, saturated at *)
(* OpenFor, instead of the two time stamps.  fails is only compared with   *)
(* Threshold, so it saturates there.                                       *)
(***************************************************************************)
EXTENDS Naturals

CONSTANTS
  Workers,      \* goroutines of one stage: StageConfig.<Stage>Workers
  Threshold,    \* StageCircuitBreakerConfig.Threshold
  OpenFor,      \* StageCircuitBreakerConfig.OpenFor, in ticks
  MaxAttempts   \* CoordinatorConfig.MaxAttempts

ASSUME ThresholdAssumption   == Threshold \in Nat \ {0}
ASSUME OpenForAssumption     == OpenFor \in Nat \ {0}
ASSUME MaxAttemptsAssumption == MaxAttempts \in Nat \ {0}

VARIABLES
  state,          \* StageCircuitBreaker.state
  fails,          \* StageCircuitBreaker.fails, saturated at Threshold
  elapsed,        \* NowFn() - openAt, saturated at OpenFor
  probeInFlight,  \* StageCircuitBreaker.probeInFlight
  pc,             \* where each worker is inside runWithRetry
  attempt,        \* the loop variable of runWithRetry
  prober          \* history: the set of workers whose current call was
                  \* admitted by the open -> half-open transition

breakerVars == <<state, fails, elapsed, probeInFlight>>
vars == <<state, fails, elapsed, probeInFlight, pc, attempt, prober>>

States == {"closed", "open", "half-open"}

-----------------------------------------------------------------------------

Init ==
  /\ state = "closed"
  /\ fails = 0
  /\ elapsed = 0
  /\ probeInFlight = FALSE
  /\ pc = [w \in Workers |-> "idle"]
  /\ attempt = [w \in Workers |-> 0]
  /\ prober = {}

\* The conditions under which Allow returns nil.
CooledDown == state = "open" /\ elapsed >= OpenFor
Admits     == state = "closed" \/ CooledDown \/ (state = "half-open" /\ ~probeInFlight)

\* Allow returns nil and the worker enters its first attempt.
Allow(w) ==
  /\ pc[w] = "idle"
  /\ Admits
  /\ IF CooledDown
     THEN /\ state' = "half-open"
          /\ probeInFlight' = TRUE
          /\ prober' = prober \union {w}
     ELSE UNCHANGED <<state, probeInFlight, prober>>
  /\ pc' = [pc EXCEPT ![w] = "attempt"]
  /\ attempt' = [attempt EXCEPT ![w] = 1]
  /\ UNCHANGED <<fails, elapsed>>

\* The call of runWithRetry is over: the worker takes its next event.
Leave(w) ==
  /\ pc' = [pc EXCEPT ![w] = "idle"]
  /\ attempt' = [attempt EXCEPT ![w] = 0]
  /\ prober' = prober \ {w}

\* Mutant: a denied call restarts the cooldown.
ShortCircuitExtends(w) ==
  /\ pc[w] = "idle"
  /\ ~Admits
  /\ elapsed' = 0
  /\ UNCHANGED <<state, fails, probeInFlight, pc, attempt, prober>>

\* Allow returns ErrStageBreakerOpen: the event goes to the DLQ, the breaker
\* is not told anything.
ShortCircuit(w) ==
  /\ pc[w] = "idle"
  /\ ~Admits
  /\ UNCHANGED vars

Saturated(n) == IF n < Threshold THEN n ELSE Threshold

OnSuccess ==
  /\ fails' = 0
  /\ probeInFlight' = FALSE
  /\ state' = "closed"
  /\ UNCHANGED elapsed

OnFailure ==
  IF state = "half-open"
  THEN /\ state' = "open"
       /\ elapsed' = 0
       /\ probeInFlight' = FALSE
       /\ UNCHANGED fails
  ELSE /\ fails' = Saturated(fails + 1)
       /\ IF fails + 1 >= Threshold /\ state = "closed"
          THEN state' = "open" /\ elapsed' = 0
          ELSE UNCHANGED <<state, elapsed>>
       /\ UNCHANGED probeInFlight

\* Mutant: a poison message returns without reporting to the breaker.
AttemptHealthySilent(w) ==
  /\ pc[w] = "attempt"
  /\ OnSuccess \/ UNCHANGED breakerVars
  /\ Leave(w)

\* The attempt ended without blaming the stage: it succeeded, the document
\* was unchanged (ErrUnchanged) or the document is at fault
\* (ErrPoisonMessage).  All three report OnSuccess.
AttemptHealthy(w) ==
  /\ pc[w] = "attempt"
  /\ OnSuccess
  /\ Leave(w)

\* A transient error with attempts left: the worker sleeps.
AttemptRetry(w) ==
  /\ pc[w] = "attempt"
  /\ attempt[w] < MaxAttempts
  /\ pc' = [pc EXCEPT ![w] = "backoff"]
  /\ UNCHANGED <<breakerVars, attempt, prober>>

\* A transient error on the last attempt: "retries exhausted".
AttemptExhausted(w) ==
  /\ pc[w] = "attempt"
  /\ attempt[w] >= MaxAttempts
  /\ OnFailure
  /\ Leave(w)

BackoffElapsed(w) ==
  /\ pc[w] = "backoff"
  /\ pc' = [pc EXCEPT ![w] = "attempt"]
  /\ attempt' = [attempt EXCEPT ![w] = @ + 1]
  /\ UNCHANGED <<breakerVars, prober>>

\* ctx.Done() wins the select against the backoff timer.
Abandon(w) ==
  /\ pc[w] = "backoff"
  /\ OnFailure
  /\ Leave(w)

\* One tick of NowFn.
Tick ==
  /\ elapsed < OpenFor
  /\ elapsed' = elapsed + 1
  /\ UNCHANGED <<state, fails, probeInFlight, pc, attempt, prober>>

Report(w) == AttemptHealthy(w) \/ AttemptExhausted(w) \/ Abandon(w)

Step(w) == Allow(w) \/ ShortCircuit(w) \/ AttemptRetry(w) \/ BackoffElapsed(w) \/ Report(w)

Next == Tick \/ \E w \in Workers : Step(w)

Spec == Init /\ [][Next]_vars

\* The steps of a call after Allow; a denied or idle worker takes none of them.
Working(w) == AttemptRetry(w) \/ BackoffElapsed(w) \/ Report(w)

-----------------------------------------------------------------------------

\* Every field has its type; attempt stays within the retry budget of
\* runWithRetry and only a worker inside a call holds one.
TypeOK ==
  /\ state \in States
  /\ fails \in 0..Threshold
  /\ elapsed \in 0..OpenFor
  /\ probeInFlight \in BOOLEAN
  /\ pc \in [Workers -> {"idle", "attempt", "backoff"}]
  /\ attempt \in [Workers -> 0..MaxAttempts]
  /\ prober \subseteq Workers

\* The breaker is away from "closed" exactly while the streak of failures
\* since the last healthy call has reached Threshold: no order of late
\* reports from several workers leaves it closed on a full streak, or open
\* on a short one (OnSuccess, OnFailure).
TrippedIffThreshold == (state = "closed") <=> (fails < Threshold)

\* The probe slot is taken exactly in the half-open state, so the last line
\* of Allow never admits a call in the half-open state.
ProbeSlotIffHalfOpen == probeInFlight <=> state = "half-open"

\* The half-open gate cannot wedge: while it is shut, a worker admitted as
\* the probe is still inside runWithRetry and will report.  Every return
\* path of runWithRetry after a successful Allow has to report for this.
HalfOpenHasProbe == state = "half-open" => \E w \in prober : pc[w] # "idle"

\* While events keep arriving the stage does not stay dead: the half-open
\* state is left again, and an open breaker is eventually probed or closed by
\* a late success.
StageRecovers ==
  /\ state = "half-open" ~> state # "half-open"
  /\ state = "open" ~> state # "open"
=============================================================================
