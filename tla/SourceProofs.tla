---------------------------- MODULE SourceProofs ----------------------------
(***************************************************************************)
(* Machine-checked proofs about the two machines that change a source: its *)
(* removal, beside the writers of its row, and its automatic pauses.  They *)
(* hold for any numbers of writers, workers, tiers and Record calls.       *)
(***************************************************************************)
EXTENDS SourceLifecycle, AutoPause, TLAPS

-----------------------------------------------------------------------------
(* Removing a source.                                                       *)
\* The statuses after a DELETE.
Terminal == {"removing", "removed"}

SourceTypes ==
  /\ srcStatus \in {"none", "active", "paused"} \cup Terminal
  /\ "grant" \in DOMAIN srcConfig
  /\ swept \subseteq 1 .. Tiers
  /\ forget \in [ForgetWorkers -> [pc : {"idle", "leased", "sweep", "release"}, next : 1 .. Tiers + 1, outlived : BOOLEAN]]

\* Sweeping needs a source being removed, goes tier by tier, and comes before the mark.
SweptThenRemoved ==
  /\ swept # {} => srcStatus \in Terminal
  /\ srcStatus = "removed" => swept = 1 .. Tiers
  /\ \A f \in ForgetWorkers : forget[f].pc = "sweep"
       => srcStatus \in Terminal /\ 1 .. forget[f].next - 1 \subseteq swept
  /\ \A f \in ForgetWorkers : forget[f].pc \in {"idle", "leased"} => forget[f].next = 1

SourceInv == SourceTypes /\ SweptThenRemoved

\* The step of RemovalIsFinal.
Final ==
  /\ swept' # {} => srcStatus' \in {"removing", "removed"}
  /\ srcStatus' = "removed" => swept' = 1 .. Tiers
  /\ srcStatus \in {"removing", "removed"}
       => srcStatus' \in {srcStatus, "removed"} /\ srcConfig'.grant = srcConfig.grant

\* Before the connect request.
LEMMA SourceInitInv == SourceInit => SourceInv
  BY TiersAssumption DEF SourceInit, NoConfig, Credential, NoForget, SourceInv, SourceTypes, SweptThenRemoved, Terminal

\* A write of the row by the API, the refresher or a rotation: only while it is not terminal.
LEMMA RowStep ==
  ASSUME SourceInv, UNCHANGED <<swept, forget>>,
         "grant" \in DOMAIN srcConfig',
         \/ srcStatus' = srcStatus /\ srcConfig'.grant = srcConfig.grant
         \/ srcStatus \notin Terminal /\ srcStatus' \in {"active", "paused", "removing", srcStatus}
  PROVE  SourceInv' /\ Final
  BY DEF SourceInv, SourceTypes, SweptThenRemoved, Terminal, Final

\* One sweeper of ForgetWorker.Run.
LEMMA SweepStep == ASSUME SourceInv, NEW f \in ForgetWorkers, Sweep(f) PROVE SourceInv' /\ Final
<1> USE TiersAssumption
<1> DEFINE n == forget[f].next
<1>1. /\ forget[f].pc = "sweep" /\ n \in 1 .. Tiers /\ srcStatus \in Terminal
      /\ UNCHANGED <<srcStatus, srcConfig>>
  BY DEF Sweep, rowVars, SourceInv, SourceTypes, SweptThenRemoved
<1>2. CASE swept' = swept \cup {n} /\ forget' = [forget EXCEPT ![f].next = @ + 1]
  <2>1. SourceTypes'
    BY <1>1, <1>2 DEF SourceInv, SourceTypes
  <2>2. 1 .. forget'[f].next - 1 \subseteq swept'
    BY <1>1, <1>2 DEF SourceInv, SourceTypes, SweptThenRemoved
  <2>3. srcStatus' = "removed" => swept' = 1 .. Tiers
    BY <1>1, <1>2 DEF SourceInv, SweptThenRemoved
  <2>4. \A o \in ForgetWorkers \ {f} : forget'[o] = forget[o]
    BY <1>2 DEF SourceInv, SourceTypes
  <2>5. forget'[f].pc = "sweep"
    BY <1>1, <1>2 DEF SourceInv, SourceTypes
  <2>6. SweptThenRemoved'
    BY <1>1, <1>2, <2>2, <2>3, <2>4, <2>5 DEF SourceInv, SweptThenRemoved
  <2> QED BY <1>1, <2>1, <2>3, <2>6 DEF SourceInv, Final, Terminal
<1>3. CASE Forgets(f, "release") /\ UNCHANGED swept
  BY <1>1, <1>3 DEF Forgets, SourceInv, SourceTypes, SweptThenRemoved, Terminal, Final
<1> QED BY <1>2, <1>3 DEF Sweep

\* Every step of the source's writers and of its forget workers.
LEMMA SourceStep == ASSUME SourceInv, [SourceNext]_sourceVars PROVE SourceInv' /\ Final
<1> USE TiersAssumption
<1>1. CASE Connect \/ DeleteSource \/ TokenAges
  BY <1>1, RowStep DEF Connect, DeleteSource, TokenAges, Patchable, Credential, sweepVars, SourceInv, SourceTypes, Terminal
<1>2. ASSUME NEW status \in {"active", "paused"}, Patch(status) PROVE SourceInv' /\ Final
  BY <1>2, RowStep DEF Patch, Patchable, sweepVars, SourceInv, SourceTypes, Terminal
<1>3. CASE bulk({"pause", "resume", "disconnect", "reindex", "rotate-credentials"})
  BY <1>1, <1>2, <1>3 DEF bulk, applyBulk
<1>4. ASSUME NEW w \in Writers, ListAllActive(w) \/ Refresh(w) \/ RotateRead(w) PROVE SourceInv' /\ Final
  BY <1>4, RowStep DEF ListAllActive, Refresh, RotateRead, rowVars, sweepVars, SourceInv, SourceTypes
<1>5. ASSUME NEW w \in Writers, UpdateConfig(w) \/ RotateWrite(w) PROVE SourceInv' /\ Final
  BY <1>5, RowStep DEF UpdateConfig, RotateWrite, Patchable, Credential, sweepVars, SourceInv, SourceTypes, Terminal
<1>6. ASSUME NEW f \in ForgetWorkers, AcquireLease(f) \/ LoadSource(f) PROVE SourceInv' /\ Final
  BY <1>6, SMTT(30) DEF AcquireLease, LoadSource, Forgets, rowVars, SourceInv, SourceTypes, SweptThenRemoved, Terminal, Final
<1>7. ASSUME NEW f \in ForgetWorkers, MarkRemoved(f) PROVE SourceInv' /\ Final
  <2>1. swept = 1 .. Tiers /\ srcStatus \in Terminal
    <3>1. forget[f].pc = "sweep" /\ forget[f].next = Tiers + 1 /\ swept \subseteq 1 .. Tiers
      BY <1>7 DEF MarkRemoved, SourceInv, SourceTypes
    <3>2. srcStatus \in Terminal /\ 1 .. (Tiers + 1) - 1 \subseteq swept
      BY <3>1 DEF SourceInv, SweptThenRemoved
    <3>3. (Tiers + 1) - 1 = Tiers
      OBVIOUS
    <3> QED BY <3>1, <3>2, <3>3, Zenon
  <2> QED BY <1>7, <2>1 DEF MarkRemoved, Forgets, SourceInv, SourceTypes, SweptThenRemoved, Terminal, Final
<1>8. ASSUME NEW f \in ForgetWorkers, ReleaseLease(f) \/ ForgetCrash(f) PROVE SourceInv' /\ Final
  <2>1. forget' = [forget EXCEPT ![f] = NoForget] /\ UNCHANGED <<srcStatus, srcConfig, swept>>
    BY <1>8 DEF ReleaseLease, ForgetCrash, rowVars
  <2>2. NoForget \in [pc : {"idle", "leased", "sweep", "release"}, next : 1 .. Tiers + 1, outlived : BOOLEAN]
    BY DEF NoForget
  <2>3. SourceTypes'
    BY <2>1, <2>2 DEF SourceInv, SourceTypes
  <2>4. SweptThenRemoved' /\ Final
    BY <2>1 DEF NoForget, SourceInv, SourceTypes, SweptThenRemoved, Terminal, Final
  <2> QED BY <2>3, <2>4 DEF SourceInv
<1>9. CASE LeaseExpires
  <2>1. /\ UNCHANGED <<srcStatus, srcConfig, swept>>
        /\ forget' \in [ForgetWorkers -> [pc : {"idle", "leased", "sweep", "release"}, next : 1 .. Tiers + 1, outlived : BOOLEAN]]
        /\ \A f \in ForgetWorkers : forget'[f].pc = forget[f].pc /\ forget'[f].next = forget[f].next
    <3> DEFINE R == [pc : {"idle", "leased", "sweep", "release"}, next : 1 .. Tiers + 1, outlived : BOOLEAN]
    <3>1. \A f \in ForgetWorkers : LET x == [forget[f] EXCEPT !.outlived = TRUE] IN
            x \in R /\ x.pc = forget[f].pc /\ x.next = forget[f].next
      BY Zenon DEF SourceInv, SourceTypes
    <3>2. forget \in [ForgetWorkers -> R]
      BY DEF SourceInv, SourceTypes
    <3> QED BY <1>9, <3>1, <3>2 DEF LeaseExpires, rowVars
  <2> QED BY <2>1 DEF SourceInv, SourceTypes, SweptThenRemoved, Terminal, Final
<1>10. CASE UNCHANGED sourceVars
  BY <1>10 DEF sourceVars, SourceInv, SourceTypes, SweptThenRemoved, Terminal, Final
<1> QED BY <1>1, <1>2, <1>3, <1>4, <1>5, <1>6, <1>7, <1>8, <1>9, <1>10, SweepStep DEF SourceNext

\* A source is swept only while it is being removed, removed only once swept, and
\* never revived by a read-modify-write under way (UpdateConfig, Rotate, MarkRemoved).
THEOREM SourceRemovalIsFinal == SourceSpec => RemovalIsFinal
<1>1. SourceInv /\ [SourceNext]_sourceVars => SourceInv' /\ [Final]_sourceVars
  BY SourceStep
<1> QED BY SourceInitInv, <1>1, PTL DEF SourceSpec, RemovalIsFinal, Final

\* Acquiring, outliving and releasing the lease of a forget worker.
LEMMA LeaseStep == ASSUME SourceInv, LeaseKept, [SourceNext]_sourceVars PROVE LeaseKept'
<1> USE LeaseAssumption
<1>1. ASSUME UNCHANGED sweepVars PROVE LeaseKept'
  BY <1>1 DEF sweepVars, LeaseKept
<1>2. CASE Connect \/ DeleteSource \/ TokenAges
  BY <1>1, <1>2, Zenon DEF Connect, DeleteSource, TokenAges, sweepVars
<1>3. ASSUME NEW status \in {"active", "paused"}, Patch(status) PROVE LeaseKept'
  BY <1>1, <1>3 DEF Patch, sweepVars
<1>4. CASE bulk({"pause", "resume", "disconnect", "reindex", "rotate-credentials"})
  BY <1>2, <1>3, <1>4 DEF bulk, applyBulk
<1>5. ASSUME NEW w \in Writers,
             ListAllActive(w) \/ Refresh(w) \/ UpdateConfig(w) \/ RotateRead(w) \/ RotateWrite(w)
      PROVE  LeaseKept'
  BY <1>1, <1>5, Zenon DEF ListAllActive, Refresh, UpdateConfig, RotateRead, RotateWrite, sweepVars
<1>6. ASSUME NEW f \in ForgetWorkers, AcquireLease(f) PROVE LeaseKept'
  BY <1>6 DEF AcquireLease, Forgets, SourceInv, SourceTypes, LeaseKept
<1>7. ASSUME NEW f \in ForgetWorkers, LoadSource(f) \/ Sweep(f) \/ MarkRemoved(f) PROVE LeaseKept'
  <2>1. srcLease' = srcLease /\ \A g \in ForgetWorkers : forget'[g].outlived = forget[g].outlived
                                                         /\ (g # f => forget'[g].pc = forget[g].pc)
    BY <1>7 DEF LoadSource, Sweep, MarkRemoved, Forgets, SourceInv, SourceTypes
  <2>2. forget[f].pc # "idle"
    BY <1>7 DEF LoadSource, Sweep, MarkRemoved
  <2> QED BY <2>1, <2>2 DEF LeaseKept
<1>8. ASSUME NEW f \in ForgetWorkers, ReleaseLease(f) \/ ForgetCrash(f) PROVE LeaseKept'
  <2>1. /\ forget'[f].pc = "idle" /\ \A g \in ForgetWorkers \ {f} : forget'[g] = forget[g]
        /\ srcLease' = srcLease \/ srcLease = f
    BY <1>8 DEF ReleaseLease, ForgetCrash, NoForget, SourceInv, SourceTypes
  <2> QED BY <2>1 DEF LeaseKept
<1>9. CASE LeaseExpires
  <2>1. \A f \in ForgetWorkers : forget'[f].pc = forget[f].pc
                                 /\ (srcLease # f \/ forget[f].pc = "idle" => forget'[f] = forget[f])
                                 /\ (srcLease = f /\ forget[f].pc # "idle" => forget'[f].outlived)
    BY <1>9 DEF LeaseExpires, SourceInv, SourceTypes
  <2> QED BY <2>1 DEF LeaseKept
<1>10. CASE UNCHANGED sourceVars
  BY <1>1, <1>10 DEF sourceVars, sweepVars
<1> QED BY <1>2, <1>3, <1>4, <1>5, <1>6, <1>7, <1>8, <1>9, <1>10 DEF SourceNext

\* A forget worker that has not outlived its lease holds it: the compare-and-delete
\* script never frees the lease of another run (forget_worker.go).
THEOREM SweepersExclude == SourceSpec => []LeaseKept
<1>1. SourceInit => LeaseKept
  BY DEF SourceInit, NoForget, LeaseKept
<1>2. SourceInv /\ LeaseKept /\ [SourceNext]_sourceVars => SourceInv' /\ LeaseKept'
  BY SourceStep, LeaseStep
<1> QED BY SourceInitInv, <1>1, <1>2, PTL DEF SourceSpec

-----------------------------------------------------------------------------
(* Automatic pauses of a source.                                            *)
\* Where a Record is between its two critical sections.
Pausing == {"pause", "audit", "commit"}

PauseTypes ==
  /\ recorder \in [Recorders -> [pc : {"idle", "record"} \cup Pausing, at : Nat]]
  /\ pending \in BOOLEAN
  /\ pauseTime \in Nat \ {0} /\ lastPaused \in 0 .. pauseTime /\ audited \in 0 .. pauseTime

\* At most one Record is pausing, with pendingPause set, and it decided after the cooldown.
OnePause ==
  /\ \A c \in Recorders : recorder[c].pc \in Pausing => pending
  /\ \A c, d \in Recorders : recorder[c].pc \in Pausing /\ recorder[d].pc \in Pausing => c = d
  /\ \A c \in Recorders : recorder[c].pc = "record" => recorder[c].at <= pauseTime
  /\ \A c \in Recorders : recorder[c].pc \in {"pause", "audit"} /\ audited # 0
       => pauseTime >= audited + PauseCooldown
  /\ audited > lastPaused => \E c \in Recorders : recorder[c].pc = "commit"

PauseInv == PauseTypes /\ OnePause

\* The step of PausesSpaced.
Spaced == (audited' # audited /\ audited # 0) => audited' >= audited + PauseCooldown

\* A source without observations.
LEMMA PauseInitInv == PauseInit => PauseInv
<1> SUFFICES ASSUME PauseInit PROVE PauseInv
  OBVIOUS
<1>1. pending \in BOOLEAN
  BY Zenon DEF PauseInit
<1>2. PauseTypes
  BY <1>1 DEF PauseInit, NoRecord, PauseTypes
<1>3. OnePause
  BY DEF PauseInit, NoRecord, OnePause, Pausing
<1> QED BY <1>2, <1>3 DEF PauseInv

\* The first critical section of Record either lets go or begins a pause.
LEMMA ObserveEffect ==
  ASSUME NEW c \in Recorders, NEW ok \in BOOLEAN, RecordOutcome(c, ok)
  PROVE  /\ recorder[c].pc = "record" /\ UNCHANGED <<lastPaused, audited, pauseTime>>
         /\ pending' \in BOOLEAN
         /\ \/ recorder' = [recorder EXCEPT ![c] = NoRecord] /\ (pending' <=> pending)
            \/ /\ recorder' = [recorder EXCEPT ![c] = [pc |-> "pause", at |-> 0]]
               /\ ~pending /\ pending'
               /\ lastPaused = 0 \/ recorder[c].at >= lastPaused + PauseCooldown
  BY Zenon DEF RecordOutcome, Observes

\* A Record that returns.
LEMMA RecordLeaves ==
  ASSUME PauseInv, NEW c \in Recorders, recorder' = [recorder EXCEPT ![c] = NoRecord],
         UNCHANGED <<pauseTime, audited>>, lastPaused' \in {lastPaused, pauseTime},
         recorder[c].pc = "commit" => lastPaused' = pauseTime,
         pending' \in BOOLEAN,
         recorder[c].pc \in Pausing \/ (pending' <=> pending)
  PROVE  PauseInv' /\ Spaced
<1> USE PauseAssumption DEF PauseInv
<1>1. NoRecord \in [pc : {"idle", "record"} \cup Pausing, at : Nat] /\ NoRecord.pc = "idle"
  BY DEF NoRecord
<1>2. PauseTypes'
  BY <1>1 DEF PauseTypes
<1>3. recorder'[c].pc = "idle" /\ \A d \in Recorders \ {c} : recorder'[d] = recorder[d]
  BY <1>1 DEF PauseTypes
<1>4. \A d \in Recorders : recorder'[d].pc \in Pausing => pending'
  BY <1>3 DEF OnePause, Pausing
<1>5. audited' > lastPaused' => \E d \in Recorders : recorder'[d].pc = "commit"
  <2>1. SUFFICES ASSUME audited > lastPaused' PROVE \E d \in Recorders : recorder'[d].pc = "commit"
    OBVIOUS
  <2>2. lastPaused' = lastPaused /\ recorder[c].pc # "commit"
    BY <2>1 DEF PauseTypes
  <2> QED BY <2>1, <2>2, <1>3 DEF OnePause
<1>6. OnePause'
  BY <1>3, <1>4, <1>5 DEF OnePause, Pausing
<1> QED BY <1>2, <1>6 DEF Spaced

\* A Record that begins, or goes on with its pause.
LEMMA RecordMoves ==
  ASSUME PauseInv, NEW c \in Recorders,
         NEW new \in [pc : {"record"} \cup Pausing, at : Nat], recorder' = [recorder EXCEPT ![c] = new],
         UNCHANGED <<pauseTime, lastPaused>>, audited' \in {audited, pauseTime}, pending' \in BOOLEAN,
         new.pc = "record" => new.at <= pauseTime /\ recorder[c].pc = "idle" /\ (pending' <=> pending),
         new.pc \in Pausing => pending' /\ \A d \in Recorders \ {c} : recorder[d].pc \notin Pausing,
         recorder[c].pc # "commit",
         new.pc \in {"pause", "audit"} /\ audited # 0 => pauseTime >= audited + PauseCooldown,
         audited' # audited => recorder[c].pc = "audit" /\ new.pc = "commit"
  PROVE  PauseInv' /\ Spaced
<1> USE PauseAssumption DEF PauseInv
<1>1. PauseTypes'
  BY DEF PauseTypes
<1>2. recorder'[c] = new /\ \A d \in Recorders \ {c} : recorder'[d] = recorder[d]
  BY DEF PauseTypes
<1>3. \A d \in Recorders : recorder'[d].pc \in {"pause", "audit"} /\ audited' # 0 => pauseTime' >= audited' + PauseCooldown
  BY <1>2 DEF OnePause, Pausing
<1>4. audited' > lastPaused' => \E d \in Recorders : recorder'[d].pc = "commit"
  BY <1>2 DEF OnePause
<1>5. \A d \in Recorders : recorder'[d].pc \in Pausing => pending'
  BY <1>2 DEF OnePause, Pausing
<1>6. OnePause'
  BY <1>2, <1>3, <1>4, <1>5 DEF OnePause, Pausing
<1>7. Spaced
  BY DEF Spaced, OnePause, PauseTypes
<1> QED BY <1>1, <1>6, <1>7

\* Every step of Record and of the clock.
LEMMA PauseStep == ASSUME PauseInv, [PauseNext]_pauseVars PROVE PauseInv' /\ Spaced
<1> USE PauseAssumption
<1>1. ASSUME NEW c \in Recorders, RecordBegins(c) PROVE PauseInv' /\ Spaced
  <2> DEFINE new == [pc |-> "record", at |-> pauseTime]
  <2>1. new \in [pc : {"record"} \cup Pausing, at : Nat] /\ new.pc = "record" /\ new.at = pauseTime
    BY DEF PauseInv, PauseTypes
  <2>2. /\ recorder[c].pc = "idle" /\ recorder' = [recorder EXCEPT ![c] = new]
        /\ UNCHANGED <<pending, lastPaused, audited, pauseTime>>
    BY <1>1 DEF RecordBegins
  <2>3. pending' \in BOOLEAN /\ (pending' <=> pending) /\ pauseTime \in Nat
    BY <2>2 DEF PauseInv, PauseTypes
  <2>4. /\ new.at <= pauseTime /\ audited' = audited /\ new.pc \notin Pausing
        /\ new.pc \notin {"pause", "audit"} /\ recorder[c].pc # "commit"
    BY <2>1, <2>2, <2>3 DEF Pausing
  <2> HIDE DEF new
  <2>5. audited' \in {audited, pauseTime} /\ UNCHANGED <<pauseTime, lastPaused>>
    BY <2>2
  <2> QED BY <2>1, <2>2, <2>3, <2>4, <2>5, RecordMoves, Zenon
<1>2. ASSUME NEW c \in Recorders, NEW ok \in BOOLEAN, RecordOutcome(c, ok) PROVE PauseInv' /\ Spaced
  <2>1. CASE recorder' = [recorder EXCEPT ![c] = NoRecord] /\ (pending' <=> pending)
    BY <1>2, <2>1, ObserveEffect, RecordLeaves, Zenon
  <2>2. CASE /\ recorder' = [recorder EXCEPT ![c] = [pc |-> "pause", at |-> 0]]
             /\ ~pending /\ pending'
             /\ lastPaused = 0 \/ recorder[c].at >= lastPaused + PauseCooldown
    <3>1. recorder[c].pc = "record" /\ UNCHANGED <<lastPaused, audited, pauseTime>> /\ pending' \in BOOLEAN
      BY <1>2, ObserveEffect
    <3>2. recorder[c].at \in Nat /\ recorder[c].at <= pauseTime
      BY <3>1 DEF PauseInv, PauseTypes, OnePause
    <3>3. \A d \in Recorders : recorder[d].pc \notin Pausing
      BY <2>2 DEF PauseInv, OnePause
    <3>4. audited <= lastPaused
      BY <3>3 DEF PauseInv, PauseTypes, OnePause, Pausing
    <3>5. audited # 0 => pauseTime >= audited + PauseCooldown
      BY <2>2, <3>2, <3>4 DEF PauseInv, PauseTypes
    <3> QED BY <2>2, <3>1, <3>3, <3>5, RecordMoves, Zenon DEF Pausing
  <2> QED BY <1>2, <2>1, <2>2, ObserveEffect
<1>3. ASSUME NEW c \in Recorders, recorder[c].pc \in Pausing
      PROVE  pending /\ \A d \in Recorders \ {c} : recorder[d].pc \notin Pausing
  BY <1>3 DEF PauseInv, OnePause
<1>4. ASSUME NEW c \in Recorders, NEW pc \in Pausing
      PROVE  [recorder[c] EXCEPT !.pc = pc] \in [pc : {"record"} \cup Pausing, at : Nat]
  BY <1>4 DEF PauseInv, PauseTypes
<1>5. ASSUME NEW c \in Recorders, PauseSource(c) PROVE PauseInv' /\ Spaced
  <2>1. CASE recorder' = [recorder EXCEPT ![c] = NoRecord] /\ pending' = FALSE
    BY <1>5, <2>1, RecordLeaves, Zenon DEF PauseSource, Pausing
  <2>2. CASE recorder' = [recorder EXCEPT ![c].pc = "audit"] /\ UNCHANGED pending
    <3> DEFINE new == [recorder[c] EXCEPT !.pc = "audit"]
    <3>1. new \in [pc : {"record"} \cup Pausing, at : Nat] /\ new.pc = "audit" /\ recorder' = [recorder EXCEPT ![c] = new]
      BY <1>4, <2>2 DEF Pausing, PauseInv, PauseTypes
    <3>2. /\ recorder[c].pc = "pause" /\ pending /\ UNCHANGED <<pending, lastPaused, audited, pauseTime>>
          /\ \A d \in Recorders \ {c} : recorder[d].pc \notin Pausing
          /\ audited # 0 => pauseTime >= audited + PauseCooldown
      BY <1>3, <1>5, <2>2 DEF PauseSource, Pausing, PauseInv, OnePause
    <3>3. pending' \in BOOLEAN
      BY <3>2 DEF PauseInv, PauseTypes
    <3> HIDE DEF new
    <3> QED BY <3>1, <3>2, <3>3, RecordMoves, Zenon
  <2> QED BY <1>5, <2>1, <2>2, Zenon DEF PauseSource
<1>6. ASSUME NEW c \in Recorders, AuditPause(c) PROVE PauseInv' /\ Spaced
  <2>1. CASE recorder' = [recorder EXCEPT ![c] = NoRecord] /\ pending' = FALSE /\ UNCHANGED audited
    BY <1>6, <2>1, RecordLeaves, Zenon DEF AuditPause, Pausing
  <2>2. CASE recorder' = [recorder EXCEPT ![c].pc = "commit"] /\ audited' = pauseTime /\ UNCHANGED pending
    <3> DEFINE new == [recorder[c] EXCEPT !.pc = "commit"]
    <3>1. new \in [pc : {"record"} \cup Pausing, at : Nat] /\ new.pc = "commit" /\ recorder' = [recorder EXCEPT ![c] = new]
      BY <1>4, <2>2, SMTT(30) DEF Pausing, PauseInv, PauseTypes
    <3>2. /\ recorder[c].pc = "audit" /\ pending /\ UNCHANGED <<pending, lastPaused, pauseTime>>
          /\ \A d \in Recorders \ {c} : recorder[d].pc \notin Pausing
      BY <1>3, <1>6, <2>2 DEF AuditPause, Pausing
    <3>3. pending' \in BOOLEAN
      BY <3>2 DEF PauseInv, PauseTypes
    <3>4. UNCHANGED <<pauseTime, lastPaused>> /\ audited' \in {audited, pauseTime} /\ pending'
      BY <2>2, <3>2
    <3> HIDE DEF new
    <3> QED BY <3>1, <3>2, <3>3, <3>4, RecordMoves, Zenon DEF Pausing
  <2> QED BY <1>6, <2>1, <2>2, Zenon DEF AuditPause
<1>7. ASSUME NEW c \in Recorders, CommitPause(c) PROVE PauseInv' /\ Spaced
  BY <1>7, RecordLeaves, Zenon DEF CommitPause, Pausing
<1>8. CASE PauseTick
  BY <1>8 DEF PauseTick, PauseInv, PauseTypes, OnePause, Pausing, Spaced
<1>9. CASE UNCHANGED pauseVars
  BY <1>9 DEF pauseVars, PauseInv, PauseTypes, OnePause, Spaced
<1> QED BY <1>1, <1>2, <1>5, <1>6, <1>7, <1>8, <1>9 DEF PauseNext

\* Two audit rows of automatic pauses are at least a cooldown apart, however Record
\* calls overlap and however stale the clock they read (source_auto_pause.go).
THEOREM AutoPausesAreSpaced == PauseSpec => PausesSpaced
<1>1. PauseInv /\ [PauseNext]_pauseVars => PauseInv' /\ [Spaced]_pauseVars
  BY PauseStep
<1> QED BY PauseInitInv, <1>1, PTL DEF PauseSpec, PausesSpaced, Spaced
=============================================================================
