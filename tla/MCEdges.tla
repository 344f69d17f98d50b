------------------------------ MODULE MCEdges -------------------------------
(***************************************************************************)
(* What the platform exchanges with services it does not run: connectors   *)
(* that list, poll and fetch, notifications and audit rows that go out.    *)
(* The machines share no state, so a behaviour runs one of them: the state *)
(* spaces add up and do not multiply.  Connectors with equal plans share   *)
(* their states.                                                           *)
(***************************************************************************)
EXTENDS ConnectorCalls, Backfill, DeltaPoll, AdaptiveRate, AuditOutbox, Notification,
        ContentConnectors, BusinessConnectors

VARIABLE machine

vars == <<machine, setupVars, backfillVars, deltaVars, fetchVars, rateVars, outboxVars, notifyVars>>

AllSetups == FileSetups \cup ChatSetups \cup WorkSetups \cup BusinessSetups
AllWalks == FileWalks \cup ChatWalks \cup WorkWalks \cup BusinessWalks
AllFetches == FileFetches \cup ChatFetches \cup WorkFetches \cup BusinessFetches

(* A poll that is refused keeps its cursor whatever the error is called, so *)
(* the treatment of refusals does not tell two delta plans apart.           *)
AllDeltas == {Treating(p, Plain) : p \in FileDeltas \cup ChatDeltas \cup WorkDeltas \cup BusinessDeltas}

(* The listings whose Next returns false as soon as the last page is there. *)
EagerWalks == {w \in AllWalks : w[2].eager}

Init ==
  /\ machine \in {"setup", "backfill", "delta", "fetch", "rate", "outbox", "notify"}
  /\ IF machine = "setup" THEN SetupInit ELSE SetupIdle
  /\ IF machine = "backfill" THEN BackfillInit ELSE BackfillIdle
  /\ IF machine = "delta" THEN DeltaInit ELSE DeltaIdle
  /\ IF machine = "fetch" THEN FetchInit ELSE FetchIdle
  /\ RateInit /\ OutboxInit /\ NotifyInit

Keep(m, v) == IF machine = m THEN TRUE ELSE UNCHANGED v

KeepOthers ==
  /\ Keep("setup", setupVars) /\ Keep("backfill", backfillVars) /\ Keep("delta", deltaVars)
  /\ Keep("fetch", fetchVars) /\ Keep("rate", rateVars)
  /\ Keep("outbox", outboxVars) /\ Keep("notify", notifyVars)

Step(m, action) == machine = m /\ action /\ UNCHANGED machine /\ KeepOthers

Next ==
  \/ Step("setup", SetupNext)
  \/ Step("backfill", BackfillNext)
  \/ Step("delta", DeltaNext)
  \/ Step("fetch", FetchNext)
  \/ Step("rate", RateNext)
  \/ Step("outbox", OutboxNext)
  \/ Step("notify", NotifyNext)

(* A backfill and a poll go on while there is a next request; callers go on *)
(* reporting success to the limiter.                                        *)
ConnectorFairness ==
  /\ WF_vars(Step("backfill", BackfillStep)) /\ WF_vars(Step("delta", DeltaStep))
  /\ WF_vars(Step("rate", CoolDown)) /\ SF_vars(Step("rate", \E c \in Callers : Healthy(c)))
  /\ \A c \in Callers : WF_vars(Step("rate", SetRate(c)))

(* The outbox poller and the retry workers run on tickers, and the database *)
(* faults the retry workers see end at some time.                           *)
TickerFairness ==
  /\ WF_vars(Step("outbox", PendingPublish \/ SendMessage \/ MarkPublished))
  /\ WF_vars(Step("notify", AppendAttempt))
  /\ \A w \in Senders : WF_vars(Step("notify", Send(w))) /\ WF_vars(Step("notify", UpdateAttempt(w)))
  /\ \A w \in RetryWorkers : WF_vars(Step("notify", \E p \in Subscriptions : ListPending(w, p)))
  /\ <>[][machine = "notify" => \A w \in RetryWorkers : ~UpdateFails(w)]_vars

Spec == Init /\ [][Next]_vars /\ ConnectorFairness /\ TickerFairness

(* A single backfill needs no fairness to break an invariant.               *)
SafetySpec == Init /\ [][Next]_vars
=============================================================================
