------------------------- MODULE BackfillCompletion -------------------------
(***************************************************************************)
(* internal/admin/backfill_completion.go: the emitter that audits the      *)
(* completion of a source's backfill and tells the server-sent-event       *)
(* streams.  Emit holds the mutex twice, with the audit write between, and *)
(* streams subscribe and unsubscribe meanwhile.  The process may end and   *)
(* start again, with an empty map: nothing calls MarkSeen at a start.      *)
(***************************************************************************)
EXTENDS Naturals, Sequences, SequencesExt

CONSTANTS Emitters,     \* goroutines calling Emit
          Completed,    \* sources whose backfill completes
          Channels,     \* channels that may be subscribed
          Capacity16,   \* buffer of a channel (16 in Subscribe)
          MaxLifetimes  \* processes, one after the other

VARIABLES
  seenKeys,    \* the dedup map
  mutex,       \* the emitter holding e.mu over its fan-out, or "free"
  subscribers, \* e.subscribers
  chan,        \* channel -> its state, its fill, and how often it was sent each source
  emit,        \* the locals of each Emit
  auditRows,   \* source -> completion rows of the audit log
  lifetimes,   \* processes so far
  panicked     \* a send on a closed channel

completionVars == <<seenKeys, mutex, subscribers, chan, emit, auditRows, lifetimes, panicked>>

NoEmit == [pc |-> "idle", key |-> "", todo |-> <<>>]
FreshChannel == [state |-> "unused", fill |-> 0, told |-> [s \in Completed |-> 0]]

CompletionInit ==
  /\ seenKeys = {} /\ mutex = "free" /\ subscribers = <<>>
  /\ chan = [c \in Channels |-> FreshChannel] /\ emit = [e \in Emitters |-> NoEmit]
  /\ auditRows = [s \in Completed |-> 0] /\ lifetimes = 1 /\ panicked = FALSE

-----------------------------------------------------------------------------
Subscribe(c) ==
  /\ mutex = "free" /\ chan[c].state = "unused"
  /\ chan' = [chan EXCEPT ![c].state = "open"] /\ subscribers' = Append(subscribers, c)
  /\ UNCHANGED <<seenKeys, mutex, emit, auditRows, lifetimes, panicked>>

(* The channel leaves the slice and is closed under the same lock; a second *)
(* call finds nothing.                                                      *)
Unsubscribe(c) ==
  /\ mutex = "free" /\ Contains(subscribers, c)
  /\ subscribers' = SelectSeq(subscribers, LAMBDA d : d # c)
  /\ chan' = [chan EXCEPT ![c].state = "closed"]
  /\ UNCHANGED <<seenKeys, mutex, emit, auditRows, lifetimes, panicked>>

(* The stream takes an event from its channel.                              *)
StreamReceives(c) ==
  /\ chan[c].state = "open" /\ chan[c].fill > 0
  /\ chan' = [chan EXCEPT ![c].fill = @ - 1]
  /\ UNCHANGED <<seenKeys, mutex, subscribers, emit, auditRows, lifetimes, panicked>>

(* A source that is not to be announced; only the tests call it.            *)
MarkSeen(s) ==
  /\ mutex = "free" /\ seenKeys' = seenKeys \cup {s}
  /\ UNCHANGED <<mutex, subscribers, chan, emit, auditRows, lifetimes, panicked>>

-----------------------------------------------------------------------------
(* Emit: the first critical section, the check and the flip.                *)
EmitChecks(e, s) ==
  /\ emit[e].pc = "idle" /\ mutex = "free" /\ s \notin seenKeys
  /\ seenKeys' = seenKeys \cup {s}
  /\ emit' = [emit EXCEPT ![e].pc = "audit", ![e].key = s]
  /\ UNCHANGED <<mutex, subscribers, chan, auditRows, lifetimes, panicked>>

(* The audit write, without the lock; its error does not stop the fan-out.  *)
EmitAudits(e) ==
  /\ emit[e].pc = "audit"
  /\ \/ auditRows' = [auditRows EXCEPT ![emit[e].key] = @ + 1]
     \/ UNCHANGED auditRows
  /\ emit' = [emit EXCEPT ![e].pc = "notify"]
  /\ UNCHANGED <<seenKeys, mutex, subscribers, chan, lifetimes, panicked>>

\* Mutant: the subscribers are copied under the lock and sent to without it.
EmitSnapshots(e) ==
  /\ emit[e].pc = "notify" /\ mutex = "free"
  /\ emit' = [emit EXCEPT ![e].pc = "fanout", ![e].todo = subscribers]
  /\ UNCHANGED <<seenKeys, mutex, subscribers, chan, auditRows, lifetimes, panicked>>

(* The second critical section.                                             *)
EmitLocks(e) ==
  /\ emit[e].pc = "notify" /\ mutex = "free" /\ mutex' = e
  /\ emit' = [emit EXCEPT ![e].pc = "fanout", ![e].todo = subscribers]
  /\ UNCHANGED <<seenKeys, subscribers, chan, auditRows, lifetimes, panicked>>

(* One turn of the loop: a full channel misses the event.                   *)
EmitSends(e) ==
  LET c == Head(emit[e].todo) IN
  /\ emit[e].pc = "fanout" /\ emit[e].todo # <<>>
  /\ chan' = IF chan[c].state = "open" /\ chan[c].fill < Capacity16
             THEN [chan EXCEPT ![c].fill = @ + 1, ![c].told[emit[e].key] = @ + 1] ELSE chan
  /\ panicked' = (panicked \/ chan[c].state = "closed")
  /\ emit' = [emit EXCEPT ![e].todo = Tail(@)]
  /\ UNCHANGED <<seenKeys, mutex, subscribers, auditRows, lifetimes>>

EmitReturns(e) ==
  /\ emit[e].pc = "fanout" /\ emit[e].todo = <<>>
  /\ mutex' = "free" /\ emit' = [emit EXCEPT ![e] = NoEmit]
  /\ UNCHANGED <<seenKeys, subscribers, chan, auditRows, lifetimes, panicked>>

(* The process ends; the map of the next one is empty, the log is kept.     *)
EmitterRestart ==
  /\ lifetimes < MaxLifetimes /\ lifetimes' = lifetimes + 1
  /\ seenKeys' = {} /\ mutex' = "free" /\ subscribers' = <<>>
  /\ chan' = [c \in Channels |-> FreshChannel] /\ emit' = [e \in Emitters |-> NoEmit]
  /\ UNCHANGED <<auditRows, panicked>>

CompletionNext ==
  \/ \E c \in Channels : Subscribe(c) \/ Unsubscribe(c) \/ StreamReceives(c)
  \/ \E s \in Completed : MarkSeen(s)
  \/ \E e \in Emitters :
       \/ \E s \in Completed : EmitChecks(e, s)
       \/ EmitAudits(e) \/ EmitLocks(e) \/ EmitSends(e) \/ EmitReturns(e)
  \/ EmitterRestart

-----------------------------------------------------------------------------
(* Whatever subscriptions, emissions and restarts interleave: Emit never    *)
(* sends on a channel that Unsubscribe closed, a stream hears of a source   *)
(* at most once, and each process adds at most one completion of it to the  *)
(* audit log.  (A restart does add another: the sweep that would seed the   *)
(* map from the log is in no command.)                                      *)
CompletedOnce ==
  /\ ~panicked
  /\ \A c \in Channels, s \in Completed : chan[c].told[s] <= 1
  /\ \A s \in Completed : auditRows[s] <= lifetimes
=============================================================================
