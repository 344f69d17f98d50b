----------------------------- MODULE AuditOutbox -----------------------------
(***************************************************************************)
(* internal/audit/outbox.go: audit rows, whose ids are minted before their *)
(* transaction commits, are forwarded to Kafka in batches and then marked. *)
(* Run ends for good at the first error of RunOnce; only a new process     *)
(* begins again.  The retention sweep deletes rows by age alone.           *)
(***************************************************************************)
EXTENDS Naturals, FiniteSets, FiniteSetsExt

CONSTANTS MaxEntries,  \* bound: rows of the audit log
          BatchSize,   \* rows of one RunOnce
          MaxRestarts  \* bound: times the process is started again

VARIABLES
  entries,  \* id -> none, open (in a transaction), rolled back, pending, published or expired
  outbox,   \* locals of Run and RunOnce; failed is the row its error names
  topic,    \* ids Kafka has
  restarts

outboxVars == <<entries, outbox, topic, restarts>>

Entries == 1 .. MaxEntries
NoBatch == [pc |-> "idle", batch |-> {}, sent |-> {}, failed |-> 0]
RunEnded(i) == [NoBatch EXCEPT !.pc = "returned", !.failed = i]

OutboxInit ==
  entries = [i \in Entries |-> "none"] /\ outbox = NoBatch /\ topic = {} /\ restarts = 0

(* NewAuditLog mints the id; the caller's transaction inserts the row, and  *)
(* commits in any order or not at all.                                      *)
NewAuditLog(i) ==
  /\ entries[i] = "none" /\ \A j \in 1 .. i - 1 : entries[j] # "none"
  /\ entries' = [entries EXCEPT ![i] = "open"]
  /\ UNCHANGED <<outbox, topic, restarts>>

CreateInTx(i) ==
  /\ entries[i] = "open"
  /\ \E end \in {"pending", "rolled back"} : entries' = [entries EXCEPT ![i] = end]
  /\ UNCHANGED <<outbox, topic, restarts>>

(* AuditRetentionSweeper.Tick: rows older than the window go, published or  *)
(* not.                                                                     *)
Expire(i) ==
  /\ entries[i] \in {"pending", "published"}
  /\ entries' = [entries EXCEPT ![i] = "expired"]
  /\ UNCHANGED <<outbox, topic, restarts>>

Lowest(ids) == {i \in ids : Cardinality({j \in ids : j < i}) < BatchSize}

(* The unpublished rows with the lowest ids.                                *)
PendingPublish ==
  LET pending == {i \in Entries : entries[i] = "pending"}
  IN /\ outbox.pc = "idle" /\ pending # {}
     /\ outbox' = [NoBatch EXCEPT !.pc = "sending", !.batch = Lowest(pending)]
     /\ UNCHANGED <<entries, topic, restarts>>

SendMessage ==
  LET i == Min(outbox.batch)
  IN /\ outbox.pc = "sending" /\ outbox.batch # {}
     /\ topic' = topic \cup {i}
     /\ outbox' = [outbox EXCEPT !.batch = @ \ {i}, !.sent = @ \cup {i}]
     /\ UNCHANGED <<entries, restarts>>

(* The UPDATE finds only the rows that are still there.                     *)
Stamped(ids) == [i \in Entries |-> IF i \in ids /\ entries[i] = "pending" THEN "published" ELSE entries[i]]

(* A failing send: what went out is marked, the error of that ignored, and  *)
(* RunOnce and then Run return.                                             *)
SendFails ==
  /\ outbox.pc = "sending" /\ outbox.batch # {}
  /\ entries' \in {entries, Stamped(outbox.sent)}
  /\ outbox' = RunEnded(Min(outbox.batch))
  /\ UNCHANGED <<topic, restarts>>

(* Mutant: the batch is marked although some rows were not sent.            *)
MarkWholeBatch ==
  /\ outbox.pc = "sending"
  /\ entries' = Stamped(outbox.batch \cup outbox.sent)
  /\ outbox' = NoBatch /\ UNCHANGED <<topic, restarts>>

MarkPublished ==
  /\ outbox.pc = "sending" /\ outbox.batch = {}
  /\ entries' = Stamped(outbox.sent)
  /\ outbox' = NoBatch /\ UNCHANGED <<topic, restarts>>

(* The SELECT or the last UPDATE fails, or ctx is cancelled: Run returns.   *)
RunReturns ==
  /\ outbox.pc = "idle" \/ (outbox.pc = "sending" /\ outbox.batch = {})
  /\ outbox' = RunEnded(0)
  /\ UNCHANGED <<entries, topic, restarts>>

(* The process dies at any point, or is replaced, and Run is called anew.   *)
Restart ==
  /\ restarts < MaxRestarts
  /\ restarts' = restarts + 1
  /\ outbox' = NoBatch
  /\ UNCHANGED <<entries, topic>>

OutboxNext ==
  \/ \E i \in Entries : NewAuditLog(i) \/ CreateInTx(i) \/ Expire(i)
  \/ PendingPublish \/ SendMessage \/ SendFails \/ MarkPublished \/ RunReturns \/ Restart

(* The poller runs on a ticker for as long as Run does.                     *)
OutboxSpec ==
  /\ OutboxInit /\ [][OutboxNext]_outboxVars
  /\ WF_outboxVars(PendingPublish \/ SendMessage \/ MarkPublished)

-----------------------------------------------------------------------------
(* A committed row reaches Kafka in whatever order transactions commit, and *)
(* although the process may die at any point and rows are deleted under the *)
(* poller, unless Run has returned (it does at the first error, and nothing *)
(* calls it again) or the row was too old first: rows are marked only once  *)
(* they were sent, and later ids do not keep an earlier one out of a batch. *)
CommittedIsSent ==
  \A i \in Entries :
    entries[i] = "pending" ~> i \in topic \/ entries[i] = "expired" \/ outbox.pc = "returned"

(* The comment in RunOnce: it stops on the first failure so that the send   *)
(* is retried on the next tick.                                             *)
FailedSendIsRetried ==
  \A i \in Entries : outbox.failed = i ~> i \in topic \/ entries[i] = "expired"
=============================================================================
