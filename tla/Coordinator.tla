---------------------------- MODULE Coordinator ----------------------------
(***************************************************************************)
(* The four-stage pipeline (Coordinator.Run in                             *)
(* internal/pipeline/coordinator.go): fetch, parse, embed and store        *)
(* workers joined by bounded channels, a closer per stage that closes the  *)
(* next channel when the stage's workers are gone, and the two ways to     *)
(* stop: CloseInputs and the cancellation of ctx.                          *)
(*                                                                         *)
(* runWithRetry is reduced to its result (StageBreaker has the loop), the  *)
(* stores to success or failure (Storer has Stage 4).  Every worker is a   *)
(* loop: receive, work, send; each select is one step, and with several    *)
(* arms ready any may be taken.  The two best-effort GraphRAG calls and    *)
(* the metrics change nothing here.                                        *)
(***************************************************************************)
EXTENDS Naturals, Sequences, FiniteSets

CONSTANTS
  Events,      \* events that may be submitted, each once
  Deletions,   \* those of kind EventDocumentDeleted or EventPurge
  Workers,     \* all worker goroutines
  StageOf,     \* the stage of each: StageConfig
  QueueSize    \* CoordinatorConfig.QueueSize

Stages == 1..4

ASSUME DeletionsAssumption == Deletions \subseteq Events
ASSUME StageOfAssumption   == StageOf \in [Workers -> Stages]
ASSUME QueueSizeAssumption == QueueSize \in Nat \ {0}

NoEvent == "none"
ASSUME NoEventAssumption == NoEvent \notin Events

VARIABLES
  queue,      \* stage1 .. stage4
  closed,     \* which of them are closed
  cancelled,  \* gctx is done
  pc,         \* where each worker is in its loop
  hand,       \* the event a worker holds, or NoEvent
  submitted,  \* events Submit has accepted
  reported    \* history: OnSuccess and OnDLQ calls made for each event, up to 2

vars == <<queue, closed, cancelled, pc, hand, submitted, reported>>

Team(s) == {w \in Workers : StageOf[w] = s}

Init ==
  /\ queue = [s \in Stages |-> <<>>]
  /\ closed = [s \in Stages |-> FALSE]
  /\ cancelled = FALSE
  /\ pc = [w \in Workers |-> "receive"]
  /\ hand = [w \in Workers |-> NoEvent]
  /\ submitted = {}
  /\ reported = [e \in Events |-> 0]

-----------------------------------------------------------------------------
(* Submit, CloseInputs, cancellation *)

\* The send arm; no one submits after CloseInputs (its contract).
Submit(e) ==
  /\ e \notin submitted
  /\ ~closed[1]
  /\ Len(queue[1]) < QueueSize
  /\ queue' = [queue EXCEPT ![1] = Append(@, e)]
  /\ submitted' = submitted \union {e}
  /\ UNCHANGED <<closed, cancelled, pc, hand, reported>>

CloseInputs ==
  /\ ~closed[1]
  /\ closed' = [closed EXCEPT ![1] = TRUE]
  /\ UNCHANGED <<queue, cancelled, pc, hand, submitted, reported>>

Cancel ==
  /\ ~cancelled
  /\ cancelled' = TRUE
  /\ UNCHANGED <<queue, closed, pc, hand, submitted, reported>>

-----------------------------------------------------------------------------
(* A worker *)

Receive(w) ==
  /\ pc[w] = "receive"
  /\ queue[StageOf[w]] # <<>>
  /\ hand' = [hand EXCEPT ![w] = Head(queue[StageOf[w]])]
  /\ queue' = [queue EXCEPT ![StageOf[w]] = Tail(@)]
  /\ pc' = [pc EXCEPT ![w] = "work"]
  /\ UNCHANGED <<closed, cancelled, submitted, reported>>

Exit(w) ==
  /\ pc' = [pc EXCEPT ![w] = "exited"]
  /\ hand' = [hand EXCEPT ![w] = NoEvent]
  /\ UNCHANGED <<queue, closed, cancelled, submitted, reported>>

\* Mutant: a worker leaves when its channel is closed, drained or not.
ExitClosedEarly(w) ==
  /\ pc[w] = "receive"
  /\ closed[StageOf[w]]
  /\ Exit(w)

\* The channel is closed and drained.
ExitClosed(w) ==
  /\ pc[w] = "receive"
  /\ closed[StageOf[w]]
  /\ queue[StageOf[w]] = <<>>
  /\ Exit(w)

\* Mutant: the send does not watch gctx.
ExitCancelledIdle(w) ==
  /\ cancelled
  /\ pc[w] = "receive"
  /\ Exit(w)

\* The gctx.Done() arm of a receive or of a send; the event in hand is dropped.
ExitCancelled(w) ==
  /\ cancelled
  /\ pc[w] \in {"receive", "send"}
  /\ Exit(w)

\* Mutant: after the hook the worker falls through to the send.
ReportFallsThrough(w) ==
  /\ reported' = [reported EXCEPT ![hand[w]] = IF @ < 2 THEN @ + 1 ELSE @]
  /\ IF StageOf[w] < 4
     THEN pc' = [pc EXCEPT ![w] = "send"] /\ UNCHANGED hand
     ELSE pc' = [pc EXCEPT ![w] = "receive"] /\ hand' = [hand EXCEPT ![w] = NoEvent]

\* OnSuccess or OnDLQ, and back to the top of the loop.
Report(w) ==
  /\ reported' = [reported EXCEPT ![hand[w]] = IF @ < 2 THEN @ + 1 ELSE @]
  /\ pc' = [pc EXCEPT ![w] = "receive"]
  /\ hand' = [hand EXCEPT ![w] = NoEvent]

\* Mutant: the early return forgets OnSuccess.
SkipSilently(w) ==
  /\ pc[w] = "work"
  /\ StageOf[w] = 1
  /\ pc' = [pc EXCEPT ![w] = "receive"]
  /\ hand' = [hand EXCEPT ![w] = NoEvent]
  /\ UNCHANGED <<queue, closed, cancelled, submitted, reported>>

\* Stage 1 drops the event: its source is paused, or FetchEvent returned
\* ErrUnchanged.  A paused source drops deletions too.
Skip(w) ==
  /\ pc[w] = "work"
  /\ StageOf[w] = 1
  /\ Report(w)
  /\ UNCHANGED <<queue, closed, cancelled, submitted>>

\* The stage may call its service: deletions have nothing to do before
\* Stage 4.  (A document without blocks cannot fail in Stage 3; which ones
\* those are is left open.)
Serves(w) == StageOf[w] = 4 \/ hand[w] \notin Deletions

\* runWithRetry returned an error: routeDLQ.
Fail(w) ==
  /\ pc[w] = "work"
  /\ Serves(w)
  /\ Report(w)
  /\ UNCHANGED <<queue, closed, cancelled, submitted>>

\* The work is done: on to the send, or from Stage 4 to OnSuccess.
Succeed(w) ==
  /\ pc[w] = "work"
  /\ IF StageOf[w] = 4
     THEN Report(w)
     ELSE pc' = [pc EXCEPT ![w] = "send"] /\ UNCHANGED <<hand, reported>>
  /\ UNCHANGED <<queue, closed, cancelled, submitted>>

\* A send on a closed channel panics in Go.
Send(w) ==
  /\ pc[w] = "send"
  /\ LET next == StageOf[w] + 1
     IN /\ ~closed[next]
        /\ Len(queue[next]) < QueueSize
        /\ queue' = [queue EXCEPT ![next] = Append(@, hand[w])]
  /\ hand' = [hand EXCEPT ![w] = NoEvent]
  /\ pc' = [pc EXCEPT ![w] = "receive"]
  /\ UNCHANGED <<closed, cancelled, submitted, reported>>

Exited(s) == \A w \in Team(s) : pc[w] = "exited"

\* The closer goroutine of a stage, after wg.Wait.
CloseDownstream(s) ==
  /\ Exited(s)
  /\ ~closed[s + 1]
  /\ closed' = [closed EXCEPT ![s + 1] = TRUE]
  /\ UNCHANGED <<queue, cancelled, pc, hand, submitted, reported>>

Step(w) ==
  \/ Receive(w) \/ ExitClosed(w) \/ ExitCancelled(w)
  \/ Skip(w) \/ Fail(w) \/ Succeed(w) \/ Send(w)

Next ==
  \/ CloseInputs \/ Cancel
  \/ \E e \in Events : Submit(e)
  \/ \E w \in Workers : Step(w)
  \/ \E s \in 1..3 : CloseDownstream(s)

Spec == Init /\ [][Next]_vars

(***************************************************************************)
(* Fairness: goroutines run and every call to a service returns (it has a  *)
(* timeout).  Each event is submitted once, so no goroutine can keep the   *)
(* others from running, and it is enough that some goroutine that can take *)
(* a step does.  Nothing is assumed about Submit, CloseInputs or Cancel.   *)
(***************************************************************************)
FairSpec == Spec /\ WF_vars((\E w \in Workers : Step(w)) \/ (\E s \in 1..3 : CloseDownstream(s)))

-----------------------------------------------------------------------------

\* Types and channel capacities; a worker holds an event exactly while it
\* works or sends, and Stage 4 does not send.
TypeOK ==
  /\ queue \in [Stages -> Seq(Events)]
  /\ \A s \in Stages : Len(queue[s]) <= QueueSize
  /\ closed \in [Stages -> BOOLEAN]
  /\ cancelled \in BOOLEAN
  /\ pc \in [Workers -> {"receive", "work", "send", "exited"}]
  /\ hand \in [Workers -> Events \union {NoEvent}]
  /\ \A w \in Workers : hand[w] # NoEvent <=> pc[w] \in {"work", "send"}
  /\ \A w \in Workers : pc[w] = "send" => StageOf[w] < 4
  /\ submitted \subseteq Events
  /\ reported \in [Events -> 0..2]

\* No worker ever meets a closed channel downstream, which would panic the
\* process: a closer waits for its whole stage (wg.Wait), and Stage 4 sends
\* nothing.
NoSendOnClosed ==
  \A w \in Workers : pc[w] # "exited" => StageOf[w] = 4 \/ ~closed[StageOf[w] + 1]

InHand(e) == \E w \in Workers : hand[w] = e
InQueue(e) == \E s \in Stages : \E i \in 1..Len(queue[s]) : queue[s][i] = e

OneHolder == \A v, w \in Workers : hand[v] = hand[w] /\ hand[v] # NoEvent => v = w

Distinct ==
  \A s, t \in Stages : \A i \in 1..Len(queue[s]), j \in 1..Len(queue[t]) :
    queue[s][i] = queue[t][j] => s = t /\ i = j

\* An event is never in two places: no two hands, no two channel places, no
\* hand and channel share one, and one that was reported (once) is in none.
\* So no event is stored by two workers or reported twice, whatever the
\* channels, closers and cancellation do.
Exclusive ==
  /\ OneHolder
  /\ Distinct
  /\ \A e \in Events : ~(InHand(e) /\ InQueue(e))
  /\ \A e \in Events : reported[e] > 0 => reported[e] = 1 /\ ~InHand(e) /\ ~InQueue(e)

\* Until ctx is cancelled no accepted event is lost: it is in a channel, in a
\* hand, or was reported to the consumer (OnSuccess, OnDLQ).
NothingLost ==
  ~cancelled => \A e \in submitted : reported[e] > 0 \/ InHand(e) \/ InQueue(e)

Returned == \A s \in Stages : Exited(s)

\* Where an event is, as the consumer sees it.
Whereabouts(e) ==
  IF reported[e] > 0 THEN IF reported[e] = 1 /\ ~InHand(e) /\ ~InQueue(e) THEN "done" ELSE "doubled"
  ELSE IF e \notin submitted THEN "new"
  ELSE IF InHand(e) \/ InQueue(e) THEN "pending" ELSE "dropped"

Delivery == INSTANCE EventDelivery WITH status <- [e \in Events |-> Whereabouts(e)], stopping <- cancelled

\* The pipeline is an EventDelivery: however full the channels are and
\* whichever worker, closer or cancellation comes first, every event goes from
\* new to pending to settled, once, and is only dropped after a cancellation
\* (Submit, Run, routeDLQ).
ImplementsDelivery == Delivery!Spec

\* Accepted events are all reported, unless ctx is cancelled, so every claim
\* that waits is woken; and after CloseInputs or a cancellation, whatever the
\* channels hold, every worker leaves and Run returns.
PipelineEnds == Delivery!Settles /\ ((closed[1] \/ cancelled) ~> Returned)
=============================================================================
