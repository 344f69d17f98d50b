-------------------------------- MODULE DLQ --------------------------------
(***************************************************************************)
(* The life of an event that failed: publishDLQ puts it on the dead-letter *)
(* topic, DLQConsumer (dlq_consumer.go) persists it as a row, and Replayer *)
(* sends it again, called by operators through the admin handler and by    *)
(* the auto-replay worker (dlq_auto_replay.go).                            *)
(*                                                                         *)
(* Events are not told apart.  A topic holds messages that are consumed in *)
(* any order across partitions, so that only how many copies of each       *)
(* message wait there matters.  The number of a row is its place in the    *)
(* order of failed_at, the time of the failure in the envelope: rows are   *)
(* inserted in any order.                                                  *)
(*                                                                         *)
(* Replay is not a transaction: Get, SendMessage, MarkReplayed and         *)
(* BumpAttemptCount are steps, and each may fail.  Time is the age of a    *)
(* row counted in steps of the schedule [1m, 5m, 30m].                     *)
(***************************************************************************)
EXTENDS Naturals, FiniteSets

CONSTANTS
  Operators,       \* concurrent requests to the admin replay endpoints
  Worker,          \* the auto-replay worker
  MaxAttempts,     \* Replayer.maxAttempts
  MaxAutoRetries,  \* DLQAutoReplayConfig.MaxAutoRetries
  BatchSize,       \* DLQAutoReplayConfig.BatchSize
  Faulty,          \* whether the calls of a replay may fail
  Restarts,        \* whether DLQConsumer may be restarted
  MaxRows,         \* bound: rows the model follows
  MaxEvents,       \* bound: events waiting on the ingest topic
  MaxCopies        \* bound: messages waiting on the dead-letter topic

ASSUME OperatorsAssumption      == IsFiniteSet(Operators)
ASSUME WorkerAssumption         == Worker \notin Operators
ASSUME MaxAttemptsAssumption    == MaxAttempts \in Nat \ {0}
ASSUME MaxAutoRetriesAssumption == MaxAutoRetries \in 1..3
ASSUME BatchSizeAssumption      == BatchSize \in Nat \ {0}
ASSUME FaultyAssumption         == Faulty \in BOOLEAN
ASSUME RestartsAssumption       == Restarts \in BOOLEAN
ASSUME MaxRowsAssumption        == MaxRows \in Nat \ {0}
ASSUME MaxEventsAssumption      == MaxEvents \in Nat \ {0}
ASSUME MaxCopiesAssumption      == MaxCopies \in Nat \ {0}

Replayers == Operators \union {Worker}
RowIDs == 1..MaxRows
Categories == {"permanent", "other"}
Topics == {"ingest", "ingest.dlq"}
NoHeader == "none"

\* The message publishDLQ writes has no original_topic header and no attempt
\* count.
Envelope(c) == [event |-> TRUE, category |-> c, header |-> NoHeader]

\* A replay sends the bare event, which decodes to an envelope without an event.
Bare == [event |-> FALSE, category |-> "other", header |-> NoHeader]
Messages == {Envelope("permanent"), Envelope("other"), Bare}

NoSends == [p \in Replayers |-> 0]

VARIABLES
  ingest,    \* events waiting on the ingest topic
  dlq,       \* copies of each message waiting on the dead-letter topic
  rows,      \* rows of dlq_messages
  category,  \* their columns
  topic,
  attempts,
  replayed,  \* replayed_at is not NULL
  age,       \* steps of the schedule that have passed since failed_at, saturated
  pc,        \* where each replayer is inside Replay
  row,       \* the row it replays
  target,    \* the topic it was called with
  force,     \* the force flag it was called with
  batch,     \* rows the worker has listed and not yet looked at
  sent,      \* history: unforced sends that landed, by row and replayer, up to 2
  unsent,    \* history: rows for which a SendMessage reported an error
  unmarked   \* history: rows for which a MarkReplayed failed; no other history is kept for them

table == <<rows, category, topic, attempts, replayed, age>>
calls == <<pc, row, target, force, batch>>
history == <<sent, unsent, unmarked>>
vars == <<ingest, dlq, rows, category, topic, attempts, replayed, age,
          pc, row, target, force, batch, sent, unsent, unmarked>>

Waiting == {m \in Messages : dlq[m] > 0}
Waits == dlq[Envelope("permanent")] + dlq[Envelope("other")] + dlq[Bare]
Take(m) == dlq' = [dlq EXCEPT ![m] = @ - 1]
Publish(m) == Waits < MaxCopies /\ dlq' = [dlq EXCEPT ![m] = @ + 1]

Init ==
  /\ ingest \in 1..MaxEvents
  /\ dlq = [m \in Messages |-> 0]
  /\ rows = {}
  /\ category = [r \in RowIDs |-> "other"]
  /\ topic = [r \in RowIDs |-> "ingest.dlq"]
  /\ attempts = [r \in RowIDs |-> 0]
  /\ replayed = [r \in RowIDs |-> FALSE]
  /\ age = [r \in RowIDs |-> 0]
  /\ pc = [p \in Replayers |-> "idle"]
  /\ row = [p \in Replayers |-> 1]
  /\ target = [p \in Replayers |-> "ingest"]
  /\ force = [p \in Replayers |-> FALSE]
  /\ batch = {}
  /\ sent = [r \in RowIDs |-> NoSends]
  /\ unsent = {}
  /\ unmarked = {}

-----------------------------------------------------------------------------
(* From the pipeline to the dead-letter topic *)

\* The consumer of the ingest topic finishes with a copy: Stage 4 succeeded,
\* or the event failed and publishDLQ ran, whose own error is ignored.
Process ==
  /\ ingest > 0
  /\ ingest' = ingest - 1
  /\ \/ UNCHANGED dlq
     \/ \E c \in Categories : Publish(Envelope(c))
  /\ UNCHANGED <<table, calls, history>>

\* A row that failed earlier than another is not younger.
InOrder(ages, ids) == \A q, r \in ids : q < r => ages[q] >= ages[r]

\* persist, when Insert succeeds: a fresh row, replayable, with no attempts,
\* whose failure may be some time ago.  An envelope without an event has no
\* tenant and Insert refuses it.
InsertRow(msg) ==
  /\ msg.event
  /\ \E r \in RowIDs \ rows, a \in 0..MaxAutoRetries :
       /\ rows' = rows \union {r}
       /\ category' = [category EXCEPT ![r] = msg.category]
       /\ topic' = [topic EXCEPT ![r] = IF msg.header = NoHeader THEN "ingest.dlq" ELSE msg.header]
       /\ age' = [age EXCEPT ![r] = a]
       /\ InOrder(age', rows')
  /\ UNCHANGED <<attempts, replayed>>

\* ConsumeClaim: persist, then MarkMessage whether or not the row was stored.
\* After a restart before the offset is committed the message comes again.
Persist ==
  \E msg \in Waiting :
    /\ \/ /\ InsertRow(msg)
          /\ Take(msg) \/ (Restarts /\ UNCHANGED dlq)
       \/ UNCHANGED table /\ Take(msg)
    /\ UNCHANGED <<ingest, calls, history>>

Tick ==
  /\ \E r \in rows : age[r] < MaxAutoRetries
  /\ age' = [r \in RowIDs |-> IF r \in rows /\ age[r] < MaxAutoRetries THEN age[r] + 1 ELSE age[r]]
  /\ UNCHANGED <<ingest, dlq, rows, category, topic, attempts, replayed, calls, history>>

-----------------------------------------------------------------------------
(* Replay *)

Goto(p, next) == pc' = [pc EXCEPT ![p] = next] /\ UNCHANGED <<row, target, force>>

\* Replay returns; its locals are gone.
Return(p) ==
  /\ pc' = [pc EXCEPT ![p] = "idle"]
  /\ row' = [row EXCEPT ![p] = 1]
  /\ target' = [target EXCEPT ![p] = "ingest"]
  /\ force' = [force EXCEPT ![p] = FALSE]

\* Mutant: the attempt cap is compared with > instead of >=.
AdmittedOffByOne(r, f) == (f \/ ~replayed[r]) /\ attempts[r] <= MaxAttempts

\* The two guards at the head of Replay.
Admitted(r, f) == (f \/ ~replayed[r]) /\ attempts[r] < MaxAttempts

\* Get and the guards; a refused call returns and changes nothing.
Get(p, r, t, f) ==
  /\ pc[p] = "idle"
  /\ IF Admitted(r, f)
     THEN /\ pc' = [pc EXCEPT ![p] = "send"]
          /\ row' = [row EXCEPT ![p] = r]
          /\ target' = [target EXCEPT ![p] = t]
          /\ force' = [force EXCEPT ![p] = f]
     ELSE UNCHANGED <<pc, row, target, force>>

\* replay of the admin handler: always to the ingest topic.
AdminReplay(p) ==
  /\ p \in Operators
  /\ \E r \in rows, f \in BOOLEAN : Get(p, r, "ingest", f)
  /\ UNCHANGED <<ingest, dlq, table, batch, history>>

\* One turn of batchReplay's loop: the list was read before the first turn, so
\* that the row may have been replayed since, with or without force.
BatchReplay(p) ==
  /\ p \in Operators
  /\ \E r \in rows, f \in BOOLEAN : Get(p, r, "ingest", f)
  /\ UNCHANGED <<ingest, dlq, table, batch, history>>

\* What the target topic gains: the bare event, without an envelope.
Deliver(t) ==
  IF t = "ingest"
  THEN /\ ingest < MaxEvents
       /\ ingest' = ingest + 1
       /\ UNCHANGED dlq
  ELSE Publish(Bare) /\ UNCHANGED ingest

\* SendMessage: it lands, lands but reports an error, or fails.
Send(p) ==
  /\ pc[p] = "send"
  /\ \/ /\ Deliver(target[p])
        /\ sent' = IF force[p] \/ row[p] \in unmarked THEN sent
                   ELSE [sent EXCEPT ![row[p]][p] = IF @ < 2 THEN @ + 1 ELSE @]
        /\ \/ Goto(p, "mark") /\ UNCHANGED unsent
           \/ Faulty /\ Goto(p, "markError") /\ unsent' = unsent \union ({row[p]} \ unmarked)
     \/ /\ Faulty
        /\ Goto(p, "markError")
        /\ unsent' = unsent \union ({row[p]} \ unmarked)
        /\ UNCHANGED <<ingest, dlq, sent>>
  /\ UNCHANGED <<table, batch, unmarked>>

\* Mutant: the order before the fix the comment in Replay describes.  The
\* counter is bumped first, and its failure ends the call.
MarkReplayedAfterBump(p) ==
  /\ pc[p] \in {"mark", "markError"}
  /\ \/ /\ attempts' = [attempts EXCEPT ![row[p]] = @ + 1]
        /\ replayed' = [replayed EXCEPT ![row[p]] = TRUE] \/ (Faulty /\ UNCHANGED replayed)
     \/ Faulty /\ UNCHANGED <<attempts, replayed>>
  /\ Return(p)
  /\ UNCHANGED <<ingest, dlq, rows, category, topic, age, batch, history>>

\* MarkReplayed, after a send and after a failed send alike; its failure ends
\* the call.
MarkReplayed(p) ==
  /\ pc[p] \in {"mark", "markError"}
  /\ \/ /\ replayed' = [replayed EXCEPT ![row[p]] = TRUE]
        /\ IF pc[p] = "mark" THEN Goto(p, "bump") ELSE Return(p)
        /\ UNCHANGED history
     \/ /\ Faulty
        /\ Return(p)
        /\ unmarked' = unmarked \union {row[p]}
        /\ sent' = [sent EXCEPT ![row[p]] = NoSends]
        /\ unsent' = unsent \ {row[p]}
        /\ UNCHANGED replayed
  /\ UNCHANGED <<ingest, dlq, rows, category, topic, attempts, age, batch>>

BumpAttemptCount(p) ==
  /\ pc[p] = "bump"
  /\ \/ attempts' = [attempts EXCEPT ![row[p]] = @ + 1]
     \/ Faulty /\ UNCHANGED attempts
  /\ Return(p)
  /\ UNCHANGED <<ingest, dlq, rows, category, topic, replayed, age, batch, history>>

-----------------------------------------------------------------------------
(* The auto-replay worker *)

\* BackoffFor and the comparison with failed_at.
Due(r) == age[r] >= attempts[r] + 1

\* The WHERE of the query: permanent rows pass it.
AutoReplayable == {r \in rows : ~replayed[r] /\ attempts[r] < MaxAutoRetries /\ age[r] >= 1}

\* Mutant: the newest rows come first.
NewestFirst(ids) == {r \in ids : Cardinality({q \in ids : q > r}) < BatchSize}

\* ORDER BY failed_at LIMIT BatchSize.
OldestFirst(ids) == {r \in ids : Cardinality({q \in ids : q < r}) < BatchSize}

ListAutoReplayable ==
  /\ pc[Worker] = "idle"
  /\ batch = {}
  /\ AutoReplayable # {}
  /\ batch' = OldestFirst(AutoReplayable)
  /\ UNCHANGED <<ingest, dlq, table, pc, row, target, force, history>>

\* One turn of the loop of Tick over the listed rows: a permanent row, one
\* over the budget and one that is not due are skipped, any other is replayed
\* to its original topic.
AutoReplay ==
  /\ pc[Worker] = "idle"
  /\ \E r \in batch :
       /\ \A x \in batch : r <= x
       /\ IF category[r] # "permanent" /\ attempts[r] < MaxAutoRetries /\ Due(r)
          THEN Get(Worker, r, topic[r], FALSE)
          ELSE UNCHANGED <<pc, row, target, force>>
       /\ batch' = batch \ {r}
  /\ UNCHANGED <<ingest, dlq, table, history>>

Replay(p) == Send(p) \/ MarkReplayed(p) \/ BumpAttemptCount(p)

WorkerStep == ListAutoReplayable \/ AutoReplay \/ Replay(Worker)

Next ==
  \/ Process \/ Persist \/ Tick \/ ListAutoReplayable \/ AutoReplay
  \/ \E p \in Replayers : AdminReplay(p) \/ BatchReplay(p) \/ Replay(p)

Spec == Init /\ [][Next]_vars

(***************************************************************************)
(* Fairness: time passes, the consumers of both topics run, and the worker *)
(* keeps ticking (Run uses a ticker).  Nothing is assumed about operators  *)
(* or about the success of any call.                                       *)
(***************************************************************************)
FairSpec ==
  /\ Spec /\ WF_vars(Tick) /\ WF_vars(Process) /\ WF_vars(Persist)
  /\ WF_vars(WorkerStep)

-----------------------------------------------------------------------------

Busy(r) == {p \in Replayers : pc[p] # "idle" /\ row[p] = r}

\* However replayers race on a row and whatever fails: one replayer puts it
\* on a topic at most once without force, unless a MarkReplayed for that row
\* failed (what the order "mark, then bump" in Replay is for); the counter is
\* never ahead of the mark; and forced replays that passed the guard together
\* overshoot the cap by at most one each.
ReplaysBounded ==
  \A r \in RowIDs :
    /\ r \notin unmarked => \A p \in Replayers : sent[r][p] <= 1
    /\ attempts[r] > 0 => replayed[r]
    /\ attempts[r] + Cardinality(Busy(r)) <= MaxAttempts + Cardinality(Replayers) - 1

\* Older rows that stay in the list of the worker whatever it does: permanent
\* ones, which it skips, and those whose MarkReplayed failed.
Ahead(r) == {q \in rows : q < r /\ ~replayed[q] /\ (category[q] = "permanent" \/ q \in unmarked)}

\* A row whose error is not permanent is eventually sent and marked replayed,
\* by the worker or by an operator, except in the two ways the code loses it:
\* a SendMessage or MarkReplayed for it failed (a failed send is marked as a
\* replay too), or older rows that never leave the list fill the LIMIT of
\* ListAutoReplayable, so that no Tick reaches it.
RowsAreReplayed ==
  \A r \in RowIDs :
    (r \in rows /\ category[r] # "permanent")
      ~> \/ replayed[r]
         \/ r \in unsent \union unmarked
         \/ Cardinality(Ahead(r)) >= BatchSize

\* The head of dlq_auto_replay.go: the worker re-emits a row after each
\* successive failure, at 1m, 5m and 30m, until its budget is used up.  Here
\* the failed send did not land.
ReEmittedAfterFailure ==
  \A r \in RowIDs :
    (pc[Worker] = "markError" /\ row[Worker] = r /\ sent[r][Worker] = 0)
      ~> \/ pc[Worker] = "send" /\ row[Worker] = r
         \/ attempts[r] >= MaxAutoRetries

\* The comment on Replayer: a replay goes back onto the main ingest topic.
ReplaysReachIngest == \A msg \in Waiting : msg.event
=============================================================================
