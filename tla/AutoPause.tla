------------------------------ MODULE AutoPause ------------------------------
(***************************************************************************)
(* internal/admin/source_auto_pause.go: the error window of one source and *)
(* the Record calls that pause it.  Record reads the clock, works under    *)
(* the mutex, pauses and audits outside it, and takes it again to commit.  *)
(***************************************************************************)
EXTENDS Naturals, FiniteSetsExt

CONSTANTS Recorders,            \* concurrent Record calls
          WindowBuckets,        \* each lasts one tick
          MinSampleSize,
          ConsecutiveThreshold, \* ConsecutiveFailureThreshold; 0 disables it
          PauseCooldown,
          MaxPauseTime,         \* bound on the clock
          MaxObservations       \* bound on Record calls

ASSUME PauseAssumption == PauseCooldown \in Nat

VARIABLES
  window,     \* [buckets, cursor, cursorTime]; cursorTime is 0 before the first call
  failing,    \* consecutiveFailures
  lastPaused, \* 0 is the zero time
  pending,    \* pendingPause
  recorder,   \* locals of each Record: where it is, and its now
  audited,    \* when the last source.auto_paused row was written
  observed, pauseTime

pauseVars == <<window, failing, lastPaused, pending, recorder, audited, observed, pauseTime>>

Buckets == 0 .. WindowBuckets - 1
EmptyBucket == [total |-> 0, errors |-> 0]
NoRecord == [pc |-> "idle", at |-> 0]

PauseInit ==
  /\ window = [buckets |-> [b \in Buckets |-> EmptyBucket], cursor |-> 0, cursorTime |-> 0]
  /\ failing = 0 /\ lastPaused = 0 /\ pending = FALSE /\ audited = 0
  /\ recorder = [c \in Recorders |-> NoRecord] /\ observed = 0 /\ pauseTime = 1

(* Buckets the cursor passes are zeroed; after a whole window all are.      *)
advance(at) ==
  LET steps == at - window.cursorTime
      passed == {(window.cursor + i) % WindowBuckets : i \in 1 .. steps}
  IN IF window.cursorTime = 0 THEN [window EXCEPT !.cursorTime = at]
     ELSE IF at <= window.cursorTime THEN window
     ELSE IF steps >= WindowBuckets
          THEN [buckets |-> [b \in Buckets |-> EmptyBucket], cursor |-> 0, cursorTime |-> at]
     ELSE [buckets |-> [b \in Buckets |-> IF b \in passed THEN EmptyBucket ELSE window.buckets[b]],
           cursor |-> (window.cursor + steps) % WindowBuckets, cursorTime |-> at]

windowTotal(w) == SumFunction([b \in Buckets |-> w.buckets[b].total])
windowErrors(w) == SumFunction([b \in Buckets |-> w.buckets[b].errors])

RecordBegins(c) ==
  /\ recorder[c].pc = "idle" /\ observed < MaxObservations /\ observed' = observed + 1
  /\ recorder' = [recorder EXCEPT ![c] = [pc |-> "record", at |-> pauseTime]]
  /\ UNCHANGED <<window, failing, lastPaused, pending, audited, pauseTime>>

(* The first critical section.  ErrorRateThreshold is one half.             *)
Observes(c, ok, mayPause) ==
  LET at == recorder[c].at
      rolled == advance(at)
      w == [rolled EXCEPT !.buckets[rolled.cursor] =
              [total |-> @.total + 1, errors |-> @.errors + (IF ok THEN 0 ELSE 1)]]
      run == IF ok THEN 0 ELSE failing + 1
      rateBreach == windowTotal(w) >= MinSampleSize /\ 2 * windowErrors(w) >= windowTotal(w)
      consecBreach == ConsecutiveThreshold > 0 /\ run >= ConsecutiveThreshold
      cooled == lastPaused = 0 \/ at >= lastPaused + PauseCooldown
      shouldPause == (rateBreach \/ consecBreach) /\ cooled /\ mayPause
  IN /\ recorder[c].pc = "record"
     /\ window' = w /\ failing' = run
     /\ pending' = (pending \/ shouldPause)
     /\ recorder' = [recorder EXCEPT ![c] = IF shouldPause THEN [pc |-> "pause", at |-> 0] ELSE NoRecord]
     /\ UNCHANGED <<lastPaused, audited, observed, pauseTime>>

(* Mutant: a pause under way does not hold back another.                    *)
RecordPausesAgain(c, ok) == Observes(c, ok, TRUE)

RecordOutcome(c, ok) == Observes(c, ok, ~pending)

(* PauseSource; when it fails the next breach tries again at once.          *)
PauseSource(c) ==
  /\ recorder[c].pc = "pause"
  /\ \/ recorder' = [recorder EXCEPT ![c].pc = "audit"] /\ UNCHANGED pending
     \/ recorder' = [recorder EXCEPT ![c] = NoRecord] /\ pending' = FALSE
  /\ UNCHANGED <<window, failing, lastPaused, audited, observed, pauseTime>>

(* The audit row; when it fails the source is paused, unaudited and not     *)
(* cooling down.                                                            *)
AuditPause(c) ==
  /\ recorder[c].pc = "audit"
  /\ \/ recorder' = [recorder EXCEPT ![c].pc = "commit"] /\ audited' = pauseTime /\ UNCHANGED pending
     \/ recorder' = [recorder EXCEPT ![c] = NoRecord] /\ pending' = FALSE /\ UNCHANGED audited
  /\ UNCHANGED <<window, failing, lastPaused, observed, pauseTime>>

(* The second critical section.                                             *)
CommitPause(c) ==
  /\ recorder[c].pc = "commit"
  /\ lastPaused' = pauseTime /\ pending' = FALSE
  /\ recorder' = [recorder EXCEPT ![c] = NoRecord]
  /\ UNCHANGED <<window, failing, audited, observed, pauseTime>>

PauseTick ==
  /\ pauseTime < MaxPauseTime /\ pauseTime' = pauseTime + 1
  /\ UNCHANGED <<window, failing, lastPaused, pending, recorder, audited, observed>>

PauseNext ==
  \/ \E c \in Recorders :
       \/ RecordBegins(c) \/ \E ok \in BOOLEAN : RecordOutcome(c, ok)
       \/ PauseSource(c) \/ AuditPause(c) \/ CommitPause(c)
  \/ PauseTick

PauseSpec == PauseInit /\ [][PauseNext]_pauseVars

-----------------------------------------------------------------------------
(* "the minimum interval between successive auto-pause emissions for the    *)
(* same source": two rows are at least a cooldown apart, although the pause *)
(* and the row are written outside the mutex, Record calls overlap, and     *)
(* each decides with a clock it read before it waited for the mutex.        *)
PausesSpaced ==
  [][(audited' # audited /\ audited # 0) => audited' >= audited + PauseCooldown]_pauseVars
=============================================================================
