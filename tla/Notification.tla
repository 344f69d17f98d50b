---------------------------- MODULE Notification ----------------------------
(***************************************************************************)
(* internal/admin: the first delivery of a notification, the row it leaves *)
(* in the delivery log, and the retry workers of every replica, which read *)
(* due rows and write each one back whole.                                 *)
(***************************************************************************)
EXTENDS Naturals

CONSTANTS Subscriptions,  \* enabled preferences for the event
          RetryWorkers,   \* replicas running NotificationRetryWorker
          WebhookTries,   \* requests of one Send, len(backoff) + 1
          MaxAttempts     \* attempts before a row is given up

VARIABLES
  delivery, \* subscription -> its row in the delivery log
  sending   \* worker -> locals of the Send under way

notifyVars == <<delivery, sending>>

Senders == RetryWorkers \cup {"dispatch"}
NoDelivery == [status |-> "none", attempt |-> 0, due |-> FALSE]
NotSending == [pc |-> "idle", sub |-> "none", copy |-> NoDelivery, tries |-> 0, code |-> "none"]

NotifyInit ==
  /\ delivery = [p \in Subscriptions |-> NoDelivery]
  /\ sending = [w \in Senders |-> NotSending]

SendStarts(w, p) ==
  sending' = [sending EXCEPT ![w] = [pc |-> "send", sub |-> p, copy |-> delivery[p], tries |-> 0, code |-> "none"]]

(* Dispatch takes the subscriptions of ListByEvent one after another.       *)
Dispatch(p) ==
  /\ sending["dispatch"].pc = "idle" /\ delivery[p].status = "none"
  /\ SendStarts("dispatch", p)
  /\ UNCHANGED delivery

(* ListPending: rows with a retry time that has come.                       *)
ListPending(w, p) ==
  /\ w \in RetryWorkers /\ sending[w].pc = "idle" /\ delivery[p].due
  /\ SendStarts(w, p)
  /\ UNCHANGED delivery

(* One request of WebhookDelivery.Send: it is accepted, refused for good    *)
(* (4xx other than 429), or worth another try (5xx, 429, no answer).        *)
Send(w) ==
  /\ sending[w].pc = "send"
  /\ \E code \in {"ok", "refused", "transient"} :
       LET again == code = "transient" /\ sending[w].tries + 1 < WebhookTries
       IN sending' = [sending EXCEPT ![w].tries = @ + 1, ![w].code = code,
                                     ![w].pc = IF again THEN "send" ELSE "answered"]
  /\ UNCHANGED delivery

isRetryableResponseCode(code) == code = "transient"
SendReturns(w) == sending' = [sending EXCEPT ![w] = NotSending]

(* Append of the first attempt.  When it fails no row is left, and nothing  *)
(* retries.                                                                 *)
AppendAttempt ==
  LET s == sending["dispatch"]
      row == [status |-> IF s.code = "ok" THEN "delivered" ELSE "failed",
              attempt |-> 1, due |-> isRetryableResponseCode(s.code)]
  IN /\ s.pc = "answered"
     /\ \/ delivery' = [delivery EXCEPT ![s.sub] = row]
        \/ delivery' = [delivery EXCEPT ![s.sub].status = "unlogged"]
     /\ SendReturns("dispatch")

(* Mutant: a retry does not count as an attempt.                            *)
retryOneSameAttempt(row, code) ==
  IF code = "ok" THEN [status |-> "delivered", attempt |-> row.attempt + 1, due |-> FALSE]
  ELSE IF ~isRetryableResponseCode(code) \/ row.attempt >= MaxAttempts
  THEN [status |-> "failed", attempt |-> row.attempt, due |-> FALSE]
  ELSE [status |-> "pending", attempt |-> row.attempt, due |-> TRUE]

(* retryOne: what becomes of the copy of the row after the Send.            *)
retryOne(row, code) ==
  LET attempt == row.attempt + 1
  IN IF code = "ok" THEN [status |-> "delivered", attempt |-> attempt, due |-> FALSE]
     ELSE IF ~isRetryableResponseCode(code) \/ attempt >= MaxAttempts
     THEN [status |-> "failed", attempt |-> attempt, due |-> FALSE]
     ELSE [status |-> "pending", attempt |-> attempt, due |-> TRUE]

(* UpdateAttempt writes the worker's copy over whatever the row holds now.  *)
UpdateAttempt(w) ==
  LET s == sending[w]
  IN /\ w \in RetryWorkers /\ s.pc = "answered"
     /\ delivery' = [delivery EXCEPT ![s.sub] = retryOne(s.copy, s.code)]
     /\ SendReturns(w)

(* The UPDATE fails, or the process ends during or after the Send.          *)
UpdateFails(w) ==
  /\ w \in RetryWorkers /\ sending[w].pc # "idle"
  /\ SendReturns(w) /\ UNCHANGED delivery

NotifyNext ==
  \/ \E p \in Subscriptions : Dispatch(p) \/ (\E w \in RetryWorkers : ListPending(w, p))
  \/ \E w \in Senders : Send(w) \/ UpdateAttempt(w) \/ UpdateFails(w)
  \/ AppendAttempt

-----------------------------------------------------------------------------
(* Every notification is settled in the end, delivered or given up, and is  *)
(* not taken up again, although two replicas may deliver a row twice and    *)
(* write stale copies over each other's result (retryOne counts from the    *)
(* copy it read), as long as Send returns and the database does not fail    *)
(* for ever.                                                                *)
RetriesSettle == <>[](\A p \in Subscriptions : ~delivery[p].due)
=============================================================================
