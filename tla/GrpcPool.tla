------------------------------ MODULE GrpcPool ------------------------------
(***************************************************************************)
(* internal/grpcpool: the breaker of a pool of connections to one sidecar. *)
(* allow and report hold the mutex, so each is one step; between a Borrow  *)
(* and its release any other caller may borrow and report.  openedAt is    *)
(* only compared with OpenFor, so the model keeps the time since then,     *)
(* saturated; failures is only compared with Threshold and saturates.      *)
(***************************************************************************)
EXTENDS Naturals

CONSTANTS Callers,        \* goroutines that borrow from the pool
          PoolThreshold,  \* Config.Threshold
          PoolOpenFor     \* Config.OpenFor, in ticks

\* Config.defaults makes both positive.
ASSUME PoolAssumption == PoolThreshold \in Nat \ {0} /\ PoolOpenFor \in Nat \ {0}

VARIABLES
  poolState,      \* Pool.state
  failures,       \* Pool.failures, saturated at PoolThreshold
  sinceOpened,    \* time.Since(openedAt), saturated at PoolOpenFor
  trialInFlight,  \* Pool.trialInFlight
  calls           \* each caller: "none", "call", "trial", or "overtaken" once another
                  \* caller's report has ended the half-open phase of its trial

poolVars == <<poolState, failures, sinceOpened, trialInFlight, calls>>

PoolInit ==
  /\ poolState = "closed" /\ failures = 0 /\ sinceOpened = 0
  /\ trialInFlight = FALSE
  /\ calls = [w \in Callers |-> "none"]

Cooled == poolState = "open" /\ sinceOpened >= PoolOpenFor

(* Borrow: allow lets a closed pool's caller through, and one trial once     *)
(* the pool has been open for OpenFor.                                      *)
Borrow(w) ==
  /\ calls[w] = "none"
  /\ \/ /\ poolState = "closed"
        /\ calls' = [calls EXCEPT ![w] = "call"]
        /\ UNCHANGED <<poolState, trialInFlight>>
     \/ /\ Cooled \/ (poolState = "half-open" /\ ~trialInFlight)
        /\ poolState' = "half-open" /\ trialInFlight' = TRUE
        /\ calls' = [calls EXCEPT ![w] = "trial"]
  /\ UNCHANGED <<failures, sinceOpened>>

(* ErrCircuitOpen.                                                          *)
BorrowRefused(w) ==
  /\ calls[w] = "none"
  /\ (poolState = "open" /\ ~Cooled) \/ (poolState = "half-open" /\ trialInFlight)
  /\ UNCHANGED poolVars

(* The caller gives its connection back.  Whoever reports in a half-open    *)
(* pool ends the phase, also when the trial is another caller's: that call  *)
(* goes on, overtaken.                                                      *)
Released(w) ==
  calls' = [v \in Callers |-> IF v = w THEN "none"
                              ELSE IF poolState = "half-open" /\ calls[v] = "trial" THEN "overtaken"
                              ELSE calls[v]]

(* report(true): any success closes the pool, from an open one too.         *)
ReportSuccess(w) ==
  /\ calls[w] # "none"
  /\ failures' = 0 /\ poolState' = "closed"
  /\ trialInFlight' = IF poolState = "half-open" THEN FALSE ELSE trialInFlight
  /\ Released(w)
  /\ UNCHANGED sinceOpened

\* Mutant: a failed trial opens the pool again and keeps its slot.
ReportFailureKeepsSlot(w) ==
  /\ calls[w] # "none"
  /\ failures' = IF failures < PoolThreshold THEN failures + 1 ELSE failures
  /\ IF poolState = "half-open" \/ failures + 1 >= PoolThreshold
     THEN poolState' = "open" /\ sinceOpened' = 0
     ELSE UNCHANGED <<poolState, sinceOpened>>
  /\ Released(w)
  /\ UNCHANGED trialInFlight

(* report(false): a half-open pool opens again; otherwise the streak counts, *)
(* and a late failure of an open pool restarts its wait.                    *)
ReportFailure(w) ==
  /\ calls[w] # "none"
  /\ failures' = IF failures < PoolThreshold THEN failures + 1 ELSE failures
  /\ IF poolState = "half-open"
     THEN poolState' = "open" /\ sinceOpened' = 0 /\ trialInFlight' = FALSE
     ELSE /\ IF failures + 1 >= PoolThreshold
             THEN poolState' = "open" /\ sinceOpened' = 0
             ELSE UNCHANGED <<poolState, sinceOpened>>
          /\ UNCHANGED trialInFlight
  /\ Released(w)

(* State() moves a cooled pool to half-open without claiming the trial.     *)
PoolStateRead ==
  /\ Cooled
  /\ poolState' = "half-open"
  /\ UNCHANGED <<failures, sinceOpened, trialInFlight, calls>>

PoolTick ==
  /\ poolState = "open" /\ sinceOpened < PoolOpenFor
  /\ sinceOpened' = sinceOpened + 1
  /\ UNCHANGED <<poolState, failures, trialInFlight, calls>>

PoolNext ==
  \/ \E w \in Callers : Borrow(w) \/ BorrowRefused(w) \/ ReportSuccess(w) \/ ReportFailure(w)
  \/ PoolStateRead \/ PoolTick

PoolSpec == PoolInit /\ [][PoolNext]_poolVars

-----------------------------------------------------------------------------
(* The trial slot is taken only in a half-open pool, and then by exactly    *)
(* one call that has still to report: late reports of calls borrowed before *)
(* the pool opened never leak the slot, which would refuse every caller for *)
(* good, and never admit two trials to one half-open phase.  They do end    *)
(* the phase of a trial that is still running, so that an overtaken trial   *)
(* and the trial of the next phase can reach the sidecar side by side.      *)
TrialHasCaller ==
  /\ trialInFlight => poolState = "half-open" /\ \E w \in Callers : calls[w] = "trial"
  /\ \A v, w \in Callers : calls[v] = "trial" /\ calls[w] = "trial" => v = w
  /\ \A w \in Callers : calls[w] = "trial" => trialInFlight
=============================================================================
