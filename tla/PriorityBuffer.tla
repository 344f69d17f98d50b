--------------------------- MODULE PriorityBuffer ---------------------------
(***************************************************************************)
(* The three-bucket buffer in front of Stage 1                             *)
(* (internal/pipeline/priority.go), its pushers (Coordinator.Submit), the  *)
(* drain goroutine of Coordinator.Run and Close (CloseInputs).             *)
(*                                                                         *)
(* An event is abstracted to its priority, a bucket to the number of       *)
(* events in it (a Go channel is FIFO, so nothing else is observable).     *)
(* Push reads the closed flag and then parks in a select; Close sets the   *)
(* flag and then closes done; Drain polls the buckets one at a time.  Each *)
(* of these is a step of its own, so every interleaving is a behaviour.    *)
(* The two anti-starvation counters are only compared with their limits,   *)
(* so they saturate there; the two histories saturate above their bounds.  *)
(***************************************************************************)
EXTENDS Naturals

CONSTANTS
  Pushers,      \* goroutines that call Push
  Capacity,     \* events per bucket: High/Normal/LowCapacity
  NormalAfter,  \* PriorityBufferConfig.NormalAfter
  LowAfter      \* PriorityBufferConfig.LowAfter

ASSUME CapacityAssumption    == Capacity \in Nat \ {0}
ASSUME NormalAfterAssumption == NormalAfter \in Nat \ {0}
ASSUME LowAfterAssumption    == LowAfter \in Nat \ {0}

Priorities == {"high", "normal", "low"}
Idle == "none"

VARIABLES
  bucket,        \* len(p.high), len(p.normal), len(p.low)
  closed,        \* PriorityBuffer.closed
  done,          \* the done channel is closed
  parked,        \* the priority each pusher is parked on, or Idle
  cancelled,     \* the ctx of Drain is cancelled
  drainPc,       \* the next line of Drain
  held,          \* the event Drain is handing to sink, or Idle
  consecHigh,    \* saturated at NormalAfter
  consecNonLow,  \* saturated at LowAfter
  late,          \* history: per bucket, whether a push landed after Close had set the flag
  lowWait,       \* history: other picks made since a low event is waiting, saturated
  normalWait     \* history: high picks made since a normal event is waiting, saturated

drainVars == <<drainPc, held, consecHigh, consecNonLow, lowWait, normalWait>>
bufferVars == <<bucket, closed, done, parked, cancelled, drainPc, held, consecHigh, consecNonLow,
                late, lowWait, normalWait>>

Polls == {"forceLow", "forceNormal", "high", "normal", "low"}

BufferInit ==
  /\ bucket = [p \in Priorities |-> 0]
  /\ closed = FALSE
  /\ done = FALSE
  /\ parked = [g \in Pushers |-> Idle]
  /\ cancelled = FALSE
  /\ drainPc = "forceLow"
  /\ held = Idle
  /\ consecHigh = 0
  /\ consecNonLow = 0
  /\ late = [p \in Priorities |-> FALSE]
  /\ lowWait = 0
  /\ normalWait = 0

-----------------------------------------------------------------------------
(* Push *)

\* The flag is not set: the pusher goes on to its select.
PushCheck(g) ==
  /\ parked[g] = Idle
  /\ ~closed
  /\ \E p \in Priorities : parked' = [parked EXCEPT ![g] = p]
  /\ UNCHANGED <<bucket, closed, done, cancelled, drainVars, late>>

\* The send arm of the select: Push returns nil.
PushSend(g) ==
  /\ parked[g] # Idle
  /\ bucket[parked[g]] < Capacity
  /\ bucket' = [bucket EXCEPT ![parked[g]] = @ + 1]
  /\ late' = [late EXCEPT ![parked[g]] = @ \/ closed]
  /\ parked' = [parked EXCEPT ![g] = Idle]
  /\ UNCHANGED <<closed, done, cancelled, drainVars>>

\* The done arm, or the arm of the pusher's own ctx, which a rebalance may
\* cancel at any time: Push returns an error and the event is not accepted.
PushRefused(g) ==
  /\ parked[g] # Idle
  /\ parked' = [parked EXCEPT ![g] = Idle]
  /\ UNCHANGED <<bucket, closed, done, cancelled, drainVars, late>>

(* Close, called through CloseInputs; the sync.Once makes it happen once. *)

CloseFlag ==
  /\ ~closed
  /\ closed' = TRUE
  /\ UNCHANGED <<bucket, done, parked, cancelled, drainVars, late>>

CloseDone ==
  /\ closed
  /\ ~done
  /\ done' = TRUE
  /\ UNCHANGED <<bucket, closed, parked, cancelled, drainVars, late>>

Cancel ==
  /\ ~cancelled
  /\ cancelled' = TRUE
  /\ UNCHANGED <<bucket, closed, done, parked, drainVars, late>>

-----------------------------------------------------------------------------
(* Drain *)

Bump(n, limit) == IF n < limit THEN n + 1 ELSE limit

\* Mutant: a normal pick resets the counter of non-low picks.
TakeResetsNonLow(p) ==
  /\ bucket[p] > 0
  /\ bucket' = [bucket EXCEPT ![p] = @ - 1]
  /\ held' = p
  /\ drainPc' = "sink"
  /\ consecHigh' = IF p = "high" THEN Bump(consecHigh, NormalAfter) ELSE 0
  /\ consecNonLow' = IF p # "high" THEN 0 ELSE Bump(consecNonLow, LowAfter)
  /\ lowWait' = IF p = "low" \/ bucket["low"] = 0 THEN 0 ELSE Bump(lowWait, LowAfter + 1)
  /\ UNCHANGED normalWait

\* Take one event of priority p, update the counters, call sink.
Take(p) ==
  /\ bucket[p] > 0
  /\ bucket' = [bucket EXCEPT ![p] = @ - 1]
  /\ held' = p
  /\ drainPc' = "sink"
  /\ consecHigh' = IF p = "high" THEN Bump(consecHigh, NormalAfter) ELSE 0
  /\ consecNonLow' = IF p = "low" THEN 0 ELSE Bump(consecNonLow, LowAfter)
  /\ lowWait' = IF p = "low" \/ bucket["low"] = 0 THEN 0 ELSE Bump(lowWait, LowAfter + 1)
  /\ normalWait' = CASE p = "normal" \/ bucket["normal"] = 0 -> 0
                     [] p = "high" -> Bump(normalWait, 2 * NormalAfter + 1)
                     [] OTHER -> normalWait

GotoLine(next) ==
  /\ drainPc' = next
  /\ UNCHANGED <<bucket, held, consecHigh, consecNonLow, lowWait, normalWait>>

\* One tryRecvOpen: on an empty bucket, or when the forcing counter has not
\* reached its limit, the drain falls through to the next line.
Poll(line, p, due, next) ==
  /\ drainPc = line
  /\ IF due /\ bucket[p] > 0 THEN Take(p) ELSE GotoLine(next)

\* The top of the loop.
DrainForceLow ==
  /\ ~cancelled
  /\ Poll("forceLow", "low", consecNonLow >= LowAfter, "forceNormal")
  /\ UNCHANGED <<closed, done, parked, cancelled, late>>

\* Mutant: the normal bucket is never forced.
DrainNeverForceNormal ==
  /\ Poll("forceNormal", "normal", FALSE, "high")
  /\ UNCHANGED <<closed, done, parked, cancelled, late>>

DrainForceNormal ==
  /\ Poll("forceNormal", "normal", consecHigh >= NormalAfter, "high")
  /\ UNCHANGED <<closed, done, parked, cancelled, late>>

DrainPoll ==
  /\ \/ Poll("high", "high", TRUE, "normal")
     \/ Poll("normal", "normal", TRUE, "low")
     \/ Poll("low", "low", TRUE, "allClosed")
  /\ UNCHANGED <<closed, done, parked, cancelled, late>>

\* Mutant: the drain returns as soon as the flag is set.
DrainClosedOnly ==
  /\ drainPc = "allClosed"
  /\ GotoLine(IF closed THEN "returned" ELSE "blocked")
  /\ UNCHANGED <<closed, done, parked, cancelled, late>>

\* allClosed: the flag is set and all buckets are empty.
DrainAllClosed ==
  /\ drainPc = "allClosed"
  /\ GotoLine(IF closed /\ \A p \in Priorities : bucket[p] = 0 THEN "returned" ELSE "blocked")
  /\ UNCHANGED <<closed, done, parked, cancelled, late>>

\* Mutant: the blocking select does not watch done.
DrainBlockedDeaf ==
  /\ drainPc = "blocked"
  /\ \E p \in Priorities : Take(p)
  /\ UNCHANGED <<closed, done, parked, cancelled, late>>

\* The blocking select picks any ready arm.
DrainBlocked ==
  /\ drainPc = "blocked"
  /\ \/ \E p \in Priorities : Take(p)
     \/ done /\ GotoLine("forceLow")
  /\ UNCHANGED <<closed, done, parked, cancelled, late>>

\* ctx.Done() seen at the top of the loop or in the blocking select.
DrainCancelled ==
  /\ drainPc \in {"forceLow", "blocked"}
  /\ cancelled
  /\ GotoLine("returned")
  /\ UNCHANGED <<closed, done, parked, cancelled, late>>

\* sink, the callback of Coordinator.Run: the event is sent to stage1, or
\* dropped when ctx is cancelled.
DrainSink ==
  /\ drainPc = "sink"
  /\ held' = Idle
  /\ drainPc' = "forceLow"
  /\ UNCHANGED <<bucket, closed, done, parked, cancelled, consecHigh, consecNonLow,
                 late, lowWait, normalWait>>

Drain == DrainForceLow \/ DrainForceNormal \/ DrainPoll \/ DrainAllClosed \/ DrainBlocked
           \/ DrainCancelled \/ DrainSink

Push(g) == PushCheck(g) \/ PushSend(g) \/ PushRefused(g)

BufferNext == Drain \/ CloseFlag \/ CloseDone \/ Cancel \/ \E g \in Pushers : Push(g)

-----------------------------------------------------------------------------

\* Anti-starvation, however the pushes race with the polls.  While a low
\* event waits the drain makes at most LowAfter other picks (the forceLow
\* branch of Drain).  A forced low pick also resets consecHigh, so a waiting
\* normal event can see the high picks made before that reset and another
\* NormalAfter after it: the bound Drain really gives when LowAfter exceeds
\* NormalAfter.
WaitsBounded ==
  /\ lowWait <= LowAfter
  /\ NormalAfter < LowAfter => normalWait <= 2 * NormalAfter

\* After Close the drain goroutine ends, whatever the pushers do, so Run can
\* close stage1 and shut down; and unless it was cancelled it leaves nothing
\* behind that was accepted before Close set the flag: an event still in a
\* bucket shares the bucket with a push that landed after the flag.
DrainCompletes ==
  closed ~> drainPc = "returned" /\ (cancelled \/ \A p \in Priorities : bucket[p] > 0 => late[p])
=============================================================================
