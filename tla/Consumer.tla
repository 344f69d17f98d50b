------------------------------ MODULE Consumer ------------------------------
(***************************************************************************)
(* The Kafka consumer that drives the pipeline                             *)
(* (internal/pipeline/consumer.go): one ConsumeClaim goroutine per         *)
(* partition registers an event, submits it, waits for its completion and  *)
(* marks the message; the coordinator's hooks call markDone, which signals *)
(* every partition that has the event's key registered.                    *)
(*                                                                         *)
(* A partition is a (topic, partition) pair with a log of events, each     *)
(* reduced to its pendingKey, or Malformed.  The coordinator is external   *)
(* here: it holds copies of submitted events and reports them in any       *)
(* order.  A copy survives the session that submitted it, unless the       *)
(* process dies.  markDone visits the partitions one after the other.      *)
(*                                                                         *)
(* A claim handles one message at a time, so the offset it has marked is   *)
(* its position.  Which marked offset the group has committed when a       *)
(* session ends is up to sarama and the broker: any between the last       *)
(* committed one and the marked one.                                       *)
(***************************************************************************)
EXTENDS Naturals, Sequences, FiniteSets

CONSTANTS
  Partitions,   \* the claims of this member
  Log,          \* the events of each partition, as their pendingKey
  Malformed,    \* a message decodeEvent refuses
  MaxSessions   \* bound: generations of the consumer group

ASSUME LogAssumption         == DOMAIN Log = Partitions
ASSUME MaxSessionsAssumption == MaxSessions \in Nat \ {0}

NoKey == "none"
ASSUME NoKeyAssumption == \A p \in Partitions : \A o \in 1..Len(Log[p]) : Log[p][o] # NoKey

VARIABLES
  session,    \* generation of the group
  ending,     \* sess.Context() is done
  pc,         \* where each ConsumeClaim is
  position,   \* the message it is at: all before it are marked
  committed,  \* position the group would resume from
  pending,    \* the key registered in the partitionState of the claim, or NoKey
  signalled,  \* a token is in the channel of the claim's current registration
  inflight,   \* copies of events inside the coordinator
  marking,    \* calls of markDone under way: a copy and the partitions left to visit
  finished    \* history: events the coordinator has reported (Stage 4 or DLQ)

claims == <<session, ending, pc, position, committed, pending, signalled>>
vars == <<session, ending, pc, position, committed, pending, signalled,
          inflight, marking, finished>>

Events == UNION {{<<p, o>> : o \in 1..Len(Log[p])} : p \in Partitions}
Key(e) == Log[e[1]][e[2]]
Current(p) == <<p, position[p]>>

Init ==
  /\ session = 1
  /\ ending = FALSE
  /\ pc = [p \in Partitions |-> "receive"]
  /\ position = [p \in Partitions |-> 1]
  /\ committed = [p \in Partitions |-> 1]
  /\ pending = [p \in Partitions |-> NoKey]
  /\ signalled = [p \in Partitions |-> FALSE]
  /\ inflight = {}
  /\ marking = {}
  /\ finished = {}

-----------------------------------------------------------------------------
(* ConsumeClaim *)

Goto(p, next) == pc' = [pc EXCEPT ![p] = next]

\* MarkMessage; the claim goes on to the next message.
MarkMessage(p) ==
  /\ position' = [position EXCEPT ![p] = @ + 1]
  /\ Goto(p, "receive")

\* A malformed message goes straight to the DLQ and is marked.
ReceiveMalformed(p) ==
  /\ pc[p] = "receive"
  /\ Current(p) \in Events
  /\ Key(Current(p)) = Malformed
  /\ MarkMessage(p)
  /\ UNCHANGED <<session, ending, committed, pending, signalled, inflight, marking, finished>>

\* register: the entry of an earlier message is gone, so the channel is new.
Receive(p) ==
  /\ pc[p] = "receive"
  /\ Current(p) \in Events
  /\ Key(Current(p)) # Malformed
  /\ pending' = [pending EXCEPT ![p] = Key(Current(p))]
  /\ signalled' = [signalled EXCEPT ![p] = FALSE]
  /\ Goto(p, "submit")
  /\ UNCHANGED <<session, ending, position, committed, inflight, marking, finished>>

\* Mutant: the completion channel is registered after Submit instead of before.
SubmitThenRegister(p) ==
  /\ pc[p] = "submit"
  /\ LET c == [event |-> Current(p), session |-> session]
     IN IF c \in inflight \/ c.event \in finished
        THEN /\ pending' = [pending EXCEPT ![p] = Key(Current(p))]
             /\ Goto(p, "wait")
             /\ UNCHANGED inflight
        ELSE /\ inflight' = inflight \union {c}
             /\ pending' = [pending EXCEPT ![p] = NoKey]
             /\ UNCHANGED pc
  /\ UNCHANGED <<session, ending, position, committed, signalled, marking, finished>>

\* Submit returns nil: the coordinator holds a copy.
Submit(p) ==
  /\ pc[p] = "submit"
  /\ inflight' = inflight \union {[event |-> Current(p), session |-> session]}
  /\ Goto(p, "wait")
  /\ UNCHANGED <<session, ending, position, committed, pending, signalled, marking, finished>>

\* Mutant: the message is marked as soon as it is submitted.
WakeEarly(p) ==
  /\ pc[p] = "wait"
  /\ MarkMessage(p)
  /\ UNCHANGED <<session, ending, committed, pending, signalled, inflight, marking, finished>>

\* The doneCh arm.
Wake(p) ==
  /\ pc[p] = "wait"
  /\ signalled[p]
  /\ MarkMessage(p)
  /\ UNCHANGED <<session, ending, committed, pending, signalled, inflight, marking, finished>>

\* ConsumeClaim returns: the session context is done, seen in the outer
\* select, by Submit or by the wait, or CommitTimeout is over.  A claim that
\* returns ends the session for all (sarama).
ReturnClaim(p) ==
  /\ pc[p] # "returned"
  /\ ending \/ pc[p] = "wait"
  /\ ending' = TRUE
  /\ Goto(p, "returned")
  /\ UNCHANGED <<session, position, committed, pending, signalled, inflight, marking, finished>>

-----------------------------------------------------------------------------
(* The coordinator's hooks *)

\* Stage 4 succeeded, or publishDLQ has run: OnSuccess or OnDLQ enters markDone.
Report ==
  /\ \E c \in inflight :
       /\ inflight' = inflight \ {c}
       /\ marking' = marking \union {[copy |-> c, left |-> Partitions]}
       /\ finished' = finished \union {c.event}
  /\ UNCHANGED claims

Replace(old, new) == (marking \ {old}) \union (IF new.left = {} THEN {} ELSE {new})

\* Mutant: the comparison ignores what tells two keys apart (SourceID).
MatchesAny(k, p) == pending[p] # NoKey

\* partitionState.complete: the entry is there and its key is the event's.
Matches(k, p) == pending[p] = k

\* One turn of the Range in markDone.
MarkDone ==
  /\ \E d \in marking : \E p \in d.left :
       /\ marking' = Replace(d, [d EXCEPT !.left = @ \ {p}])
       /\ IF Matches(Key(d.copy.event), p)
          THEN /\ signalled' = [signalled EXCEPT ![p] = TRUE]
               /\ pending' = [pending EXCEPT ![p] = NoKey]
          ELSE UNCHANGED <<signalled, pending>>
  /\ UNCHANGED <<session, ending, pc, position, committed, inflight, finished>>

-----------------------------------------------------------------------------
(* Sessions *)

\* The broker starts a rebalance, or the member misses its heartbeats.
Rebalance ==
  /\ ~ending
  /\ session < MaxSessions
  /\ ending' = TRUE
  /\ UNCHANGED <<session, pc, position, committed, pending, signalled, inflight, marking, finished>>

\* The process dies: what the coordinator holds is gone.
Crash ==
  /\ session < MaxSessions
  /\ ending' = TRUE
  /\ pc' = [p \in Partitions |-> "returned"]
  /\ inflight' = {}
  /\ marking' = {}
  /\ UNCHANGED <<session, position, committed, pending, signalled, finished>>

\* All claims have returned; the next generation resumes from the committed
\* offsets, after Setup has dropped the partition states.
Setup ==
  /\ \A p \in Partitions : pc[p] = "returned"
  /\ session < MaxSessions
  /\ session' = session + 1
  /\ ending' = FALSE
  /\ committed' \in {c \in [Partitions -> UNION {1..position[p] : p \in Partitions}] :
                       \A p \in Partitions : committed[p] <= c[p] /\ c[p] <= position[p]}
  /\ position' = committed'
  /\ pc' = [p \in Partitions |-> "receive"]
  /\ pending' = [p \in Partitions |-> NoKey]
  /\ signalled' = [p \in Partitions |-> FALSE]
  /\ UNCHANGED <<inflight, marking, finished>>

ConsumeClaim(p) == ReceiveMalformed(p) \/ Receive(p) \/ Submit(p) \/ Wake(p)

Next ==
  \/ Report \/ MarkDone \/ Rebalance \/ Crash \/ Setup
  \/ \E p \in Partitions : ConsumeClaim(p) \/ ReturnClaim(p)

Spec == Init /\ [][Next]_vars

(***************************************************************************)
(* Fairness: claims run, the coordinator reports every copy it holds (each *)
(* stage is bounded by its timeout and its retries), and markDone, once    *)
(* entered, finishes.                                                      *)
(***************************************************************************)
FairSpec ==
  /\ Spec /\ WF_vars(Report) /\ WF_vars(MarkDone)
  /\ \A p \in Partitions : WF_vars(ConsumeClaim(p))

-----------------------------------------------------------------------------

Marked(e) == e[2] < position[e[1]] /\ Key(e) # Malformed

\* No other event in any log is about the same document.
Unique(e) == \A f \in Events : Key(f) = Key(e) => f = e

\* Events about the same document are all in this partition.
Local(e) == \A f \in Events : Key(f) = Key(e) => f[1] = e[1]

\* Whatever the logs hold and however sessions end, a message is marked only
\* after some event of the same document has finished (register, markDone),
\* and it was itself finished, by Stage 4 or the DLQ, if its document occurs
\* once, or occurs in one partition only and no session has ended yet: for
\* these, nothing is lost when the consumer restarts.
MarkedMeansFinished ==
  \A e \in Events : Marked(e) =>
    /\ \E f \in finished : Key(f) = Key(e)
    /\ Unique(e) \/ (session = 1 /\ Local(e)) => e \in finished

\* Before the first session ends, the events of one document are in the
\* pipeline one at a time, in log order (the wait of ConsumeClaim): what
\* Stage 4 relies on when it rewrites a document.
SerialPerDocument ==
  session = 1 => \A c, d \in inflight :
    Key(c.event) = Key(d.event) /\ Local(c.event) => c = d

\* No completion is missed: if sessions stop ending, every message is marked.
\* Registering before Submit is what this needs.
AllMarked == \A p \in Partitions : position[p] > Len(Log[p])
ClaimsProgress == <>[](~ending) => <>[]AllMarked

\* What the comments on ConsumeClaim and markDone say: a message is marked
\* only after Stage 4 has finished that event.
MarkedOnlyAfterStage4 == \A e \in Events : Marked(e) => e \in finished
=============================================================================
