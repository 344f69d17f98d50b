--------------------------- MODULE PlatformProofs ---------------------------
(***************************************************************************)
(* Machine-checked proofs about five machines of the platform, for any     *)
(* numbers of callers, documents, runs, workers, keys and rows.  Each has  *)
(* an inductive invariant of its own: the types the steps need, what the   *)
(* locals of a call in progress say about the shared state, and the        *)
(* property.  The machines share no variable, so that a theorem about one  *)
(* of them also holds of the bundle that TLC checks.  SourceProofs and     *)
(* ShardsProofs go on with the machines of a source and of the shards.     *)
(***************************************************************************)
EXTENDS GrpcPool, TenantForget, ExportJobs, ApiKeys, GraphStage, TLAPS

-----------------------------------------------------------------------------
(* The breaker of a connection pool.                                        *)
PoolTypes ==
  /\ poolState \in {"closed", "open", "half-open"}
  /\ trialInFlight \in BOOLEAN
  /\ calls \in [Callers -> {"none", "call", "trial", "overtaken"}]

\* The property is inductive with the types alone.
PoolInv == PoolTypes /\ TrialHasCaller

\* A new pool (New) is closed with a free trial slot.
LEMMA PoolInitInv == PoolInit => PoolInv
  BY Zenon DEF PoolInit, PoolInv, PoolTypes, TrialHasCaller

\* allow, report and State keep the claim on the trial slot and the state in step.
LEMMA PoolStepInv == ASSUME PoolInv, [PoolNext]_poolVars PROVE PoolInv'
<1> USE DEF PoolInv
<1>1. ASSUME NEW w \in Callers, Borrow(w) PROVE PoolInv'
  <2>1. PoolTypes'
    BY <1>1, Zenon DEF Borrow, PoolTypes
  <2>2. TrialHasCaller'
    BY <1>1 DEF Borrow, PoolTypes, TrialHasCaller, Cooled
  <2> QED BY <2>1, <2>2
<1>2. ASSUME NEW w \in Callers, ReportSuccess(w) \/ ReportFailure(w) PROVE PoolInv'
  <2>1. PoolTypes'
    BY <1>2, Zenon DEF ReportSuccess, ReportFailure, Released, PoolTypes
  <2>2. TrialHasCaller'
    BY <1>2, Zenon DEF ReportSuccess, ReportFailure, Released, PoolTypes, TrialHasCaller
  <2> QED BY <2>1, <2>2
<1>3. CASE PoolStateRead \/ PoolTick \/ UNCHANGED poolVars
  BY <1>3 DEF PoolStateRead, PoolTick, poolVars, Cooled, PoolTypes, TrialHasCaller
<1>4. ASSUME NEW w \in Callers, BorrowRefused(w) PROVE PoolInv'
  BY <1>4 DEF BorrowRefused, poolVars, PoolTypes, TrialHasCaller
<1> QED BY <1>1, <1>2, <1>3, <1>4 DEF PoolNext

\* The trial slot of a half-open pool always has its one caller, so that allow
\* (pool.go) neither refuses every caller for good nor admits two trials to one
\* half-open phase.
THEOREM PoolTrialNeverLeaks == PoolSpec => []TrialHasCaller
<1>1. PoolInv /\ [PoolNext]_poolVars => PoolInv'
  BY PoolStepInv
<1>2. PoolInv => TrialHasCaller
  BY DEF PoolInv
<1> QED BY PoolInitInv, <1>1, <1>2, PTL DEF PoolSpec

-----------------------------------------------------------------------------
(* The tenant's graph.                                                      *)
EnrichType ==
  [pc : {"idle", "prune", "write"}, doc : GraphDocs \cup {"absent"}, nodes : SUBSET Entities,
   relations : SUBSET (Entities \X Entities), beside : SUBSET Entities]

GraphTypes ==
  /\ owner \in [Entities -> GraphDocs \cup {"absent", "bare"}]
  /\ enrich \in [Enrichers -> EnrichType]
  /\ latest \in [GraphDocs -> SUBSET Entities]
  /\ \A w \in Enrichers : enrich[w].pc # "idle" => enrich[w].doc \in GraphDocs

\* Between the prune and the write of an Enrich only the nodes that others have
\* written meanwhile carry the document's id.
PrunedBeforeWrite ==
  \A w \in Enrichers : enrich[w].pc = "write" =>
    \A n \in Entities : owner[n] = enrich[w].doc => n \in enrich[w].beside

GraphInv == GraphTypes /\ PrunedBeforeWrite /\ NoSupersededNode

\* An empty graph has no superseded node.
LEMMA GraphInitInv == GraphInit => GraphInv
<1> SUFFICES ASSUME GraphInit PROVE GraphInv
  OBVIOUS
<1> USE GraphAssumption DEF GraphInit, NoWork
<1>1. NoWork \in EnrichType
  BY DEF EnrichType
<1>2. GraphTypes
  BY <1>1 DEF GraphTypes
<1>3. PrunedBeforeWrite /\ NoSupersededNode
  BY DEF PrunedBeforeWrite, NoSupersededNode
<1> QED BY <1>2, <1>3 DEF GraphInv

\* DeleteByDocument leaves no node of the document and takes no other over.
LEMMA PruneEffect ==
  ASSUME GraphTypes, NEW d \in GraphDocs, DeleteByDocument(d)
  PROVE  /\ owner' \in [Entities -> GraphDocs \cup {"absent", "bare"}]
         /\ \A n \in Entities : owner'[n] # d /\ owner'[n] \in {owner[n], "absent"}
         /\ latest' = [latest EXCEPT ![d] = {}] /\ latest' \in [GraphDocs -> SUBSET Entities]
  BY GraphAssumption DEF DeleteByDocument, GraphTypes

\* So it keeps the nodes of every document, that one's included, in what was last written.
LEMMA PruneSupersedes ==
  ASSUME GraphInv, NEW d \in GraphDocs, DeleteByDocument(d)
  PROVE  /\ NoSupersededNode'
         /\ \A e \in GraphDocs, n \in Entities : owner'[n] = e => owner[n] = e /\ e # d
<1>1. \A e \in GraphDocs, n \in Entities : owner'[n] = e => owner[n] = e /\ e # d
  BY PruneEffect, GraphAssumption DEF GraphInv
<1>2. \A e \in GraphDocs : e # d => latest'[e] = latest[e]
  BY PruneEffect DEF GraphInv, GraphTypes
<1> QED BY <1>1, <1>2 DEF GraphInv, NoSupersededNode

\* A call that returns without a write leaves the others as they are.
LEMMA EnrichReturns ==
  ASSUME GraphInv, NEW w \in Enrichers, GraphEnds(w), UNCHANGED <<owner, latest>>
  PROVE  GraphInv'
<1>1. NoWork \in EnrichType
  BY DEF NoWork, EnrichType
<1>2. /\ enrich' \in [Enrichers -> EnrichType] /\ enrich'[w] = NoWork
      /\ \A v \in Enrichers \ {w} : enrich'[v] = enrich[v]
  BY <1>1 DEF GraphEnds, GraphInv, GraphTypes
<1>3. GraphTypes'
  BY <1>2 DEF NoWork, GraphInv, GraphTypes
<1>4. PrunedBeforeWrite' /\ NoSupersededNode'
  BY <1>2 DEF NoWork, GraphInv, PrunedBeforeWrite, NoSupersededNode
<1> QED BY <1>3, <1>4 DEF GraphInv

\* Every remote call of Enrich, and the deletion of a subgraph, keep the invariant.
LEMMA GraphStepInv == ASSUME GraphInv, [GraphNext]_graphVars PROVE GraphInv'
<1> USE GraphAssumption DEF GraphInv
<1>1. ASSUME NEW w \in Enrichers, NEW d \in GraphDocs, NEW e \in Extractions, ExtractEntities(w, d, e) PROVE GraphInv'
  <2> DEFINE rec == [pc |-> "prune", doc |-> d, nodes |-> e.nodes, relations |-> e.relations, beside |-> {}]
  <2>1. e \in [nodes : SUBSET Entities, relations : SUBSET (Entities \X Entities)]
    OBVIOUS
  <2>2. rec \in EnrichType /\ rec.pc = "prune" /\ rec.doc = d
    BY <2>1 DEF EnrichType
  <2>3. enrich' = [enrich EXCEPT ![w] = rec] /\ UNCHANGED <<owner, latest>>
    BY <1>1 DEF ExtractEntities
  <2> HIDE DEF rec
  <2>4. GraphTypes'
    BY <2>2, <2>3 DEF GraphTypes
  <2>5. PrunedBeforeWrite' /\ NoSupersededNode'
    BY <2>2, <2>3 DEF GraphTypes, PrunedBeforeWrite, NoSupersededNode
  <2> QED BY <2>4, <2>5
<1>2. ASSUME NEW w \in Enrichers, PrunePrior(w) PROVE GraphInv'
  <2> DEFINE d == enrich[w].doc
  <2>0. d \in GraphDocs
    BY <1>2 DEF PrunePrior, GraphTypes
  <2>1. CASE DeleteByDocument(d) /\ enrich' = [enrich EXCEPT ![w].pc = "write"]
    <3>1. /\ enrich' \in [Enrichers -> EnrichType] /\ enrich'[w].doc = d
          /\ \A v \in Enrichers : enrich'[v].doc = enrich[v].doc /\ enrich'[v].beside = enrich[v].beside
          /\ \A v \in Enrichers \ {w} : enrich'[v] = enrich[v]
      BY <2>1 DEF GraphTypes, EnrichType
    <3>2. GraphTypes'
      BY <1>2, <2>0, <2>1, <3>1, PruneEffect DEF PrunePrior, GraphTypes
    <3>3. PrunedBeforeWrite'
      BY <2>0, <2>1, <3>1, PruneSupersedes DEF GraphTypes, PrunedBeforeWrite
    <3> QED BY <2>0, <2>1, <3>2, <3>3, PruneSupersedes
  <2>2. CASE GraphEnds(w) /\ UNCHANGED <<owner, edges, latest>>
    BY <2>2, EnrichReturns
  <2> QED BY <1>2, <2>1, <2>2 DEF PrunePrior
<1>3. ASSUME NEW w \in Enrichers, WriteSubgraph(w) PROVE GraphInv'
  <2> DEFINE d == enrich[w].doc
  <2>1. enrich[w].pc = "write" /\ d \in GraphDocs /\ enrich[w] \in EnrichType
    BY <1>3 DEF WriteSubgraph, GraphTypes
  <2>2. CASE GraphEnds(w) /\ UNCHANGED <<owner, edges, latest>>
    BY <2>2, EnrichReturns
  <2>3. CASE WriteNodes(projectGraphPayload(w)) /\ Written(w)
    <3>1. /\ owner' \in [Entities -> GraphDocs \cup {"absent", "bare"}]
          /\ \A n \in enrich[w].nodes : owner'[n] = d
          /\ \A n \in Entities \ enrich[w].nodes : owner'[n] \in {owner[n], "bare"}
      BY <2>1, <2>3 DEF WriteNodes, projectGraphPayload, GraphTypes, EnrichType
    <3>2. latest' = [latest EXCEPT ![d] = enrich[w].nodes \cup enrich[w].beside] /\ latest' \in [GraphDocs -> SUBSET Entities]
      BY <2>1, <2>3 DEF Written, GraphTypes, EnrichType
    <3>3. \A v \in Enrichers \ {w} :
            enrich'[v] = IF enrich[v].pc = "write" /\ enrich[v].doc = d
                         THEN [enrich[v] EXCEPT !.beside = @ \cup enrich[w].nodes] ELSE enrich[v]
      BY <2>3 DEF Written
    <3>4. enrich'[w] = NoWork /\ enrich' = [v \in Enrichers |-> enrich'[v]]
      BY <2>3 DEF Written
    <3>5. ASSUME NEW v \in Enrichers \ {w}
          PROVE  /\ enrich'[v] \in EnrichType /\ enrich'[v].pc = enrich[v].pc /\ enrich'[v].doc = enrich[v].doc
                 /\ enrich[v].beside \subseteq enrich'[v].beside
                 /\ enrich[v].pc = "write" /\ enrich[v].doc = d => enrich[w].nodes \subseteq enrich'[v].beside
      <4>1. enrich[v] \in EnrichType
        BY DEF GraphTypes
      <4>2. CASE enrich[v].pc = "write" /\ enrich[v].doc = d
        <5> DEFINE rec == [enrich[v] EXCEPT !.beside = enrich[v].beside \cup enrich[w].nodes]
        <5>1. enrich'[v] = rec
          BY <3>3, <4>2, Zenon
        <5>2. rec \in EnrichType /\ rec.pc = enrich[v].pc /\ rec.doc = enrich[v].doc
          BY <2>1, <4>1 DEF EnrichType
        <5>3. rec.beside = enrich[v].beside \cup enrich[w].nodes
          BY <4>1 DEF EnrichType
        <5> HIDE DEF rec
        <5> QED BY <5>1, <5>2, <5>3
      <4>3. CASE ~(enrich[v].pc = "write" /\ enrich[v].doc = d)
        BY <3>3, <4>1, <4>3, Zenon
      <4> QED BY <4>2, <4>3
    <3>6. NoWork \in EnrichType /\ NoWork.pc = "idle"
      BY DEF NoWork, EnrichType
    <3>7. GraphTypes'
      <4>1. \A v \in Enrichers : enrich'[v] \in EnrichType /\ (enrich'[v].pc # "idle" => enrich'[v].doc \in GraphDocs)
        BY <3>4, <3>5, <3>6 DEF GraphTypes
      <4> QED BY <3>1, <3>2, <3>4, <4>1 DEF GraphTypes
    <3>8. PrunedBeforeWrite'
      <4> SUFFICES ASSUME NEW v \in Enrichers \ {w}, enrich'[v].pc = "write", NEW n \in Entities, owner'[n] = enrich'[v].doc
                   PROVE  n \in enrich'[v].beside
        BY <3>4, <3>6 DEF PrunedBeforeWrite
      <4>1. enrich[v].pc = "write" /\ enrich'[v].doc = enrich[v].doc /\ enrich[v].doc \in GraphDocs
        BY <3>5 DEF GraphTypes
      <4>2. CASE n \in enrich[w].nodes
        BY <3>1, <3>5, <4>1, <4>2
      <4>3. CASE n \notin enrich[w].nodes
        BY <3>1, <3>5, <4>1, <4>3 DEF PrunedBeforeWrite
      <4> QED BY <4>2, <4>3
    <3>9. NoSupersededNode'
      <4> SUFFICES ASSUME NEW n \in Entities, NEW c \in GraphDocs, owner'[n] = c PROVE n \in latest'[c]
        BY DEF NoSupersededNode
      <4>1. CASE n \in enrich[w].nodes
        BY <2>1, <3>1, <3>2, <4>1 DEF GraphTypes
      <4>2. CASE n \notin enrich[w].nodes
        <5>1. owner[n] = c
          BY <3>1, <4>2
        <5>2. CASE c = d
          BY <2>1, <3>2, <5>1, <5>2 DEF GraphTypes, PrunedBeforeWrite
        <5>3. CASE c # d
          BY <3>2, <5>1, <5>3 DEF GraphTypes, NoSupersededNode
        <5> QED BY <5>2, <5>3
      <4> QED BY <4>1, <4>2
    <3> QED BY <3>7, <3>8, <3>9
  <2> QED BY <1>3, <2>2, <2>3 DEF WriteSubgraph
<1>4. ASSUME NEW d \in GraphDocs, DeleteSubgraph(d) PROVE GraphInv'
  <2>1. DeleteByDocument(d) /\ UNCHANGED enrich
    BY <1>4 DEF DeleteSubgraph
  <2>2. GraphTypes'
    BY <2>1, PruneEffect DEF GraphTypes
  <2>3. PrunedBeforeWrite'
    BY <2>1, PruneSupersedes DEF GraphTypes, PrunedBeforeWrite
  <2> QED BY <2>1, <2>2, <2>3, PruneSupersedes
<1>5. CASE UNCHANGED graphVars
  BY <1>5 DEF graphVars, GraphTypes, PrunedBeforeWrite, NoSupersededNode
<1> QED BY <1>1, <1>2, <1>3, <1>4, <1>5 DEF GraphNext

\* Re-ingestion supersedes a document's prior nodes (GraphRAGStageGRPC.Enrich) but
\* for those that another call for the document writes between its prune and its
\* write, whichever calls overlap and whichever fail.
THEOREM GraphSupersedes == GraphSpec => []NoSupersededNode
<1>1. GraphInv /\ [GraphNext]_graphVars => GraphInv'
  BY GraphStepInv
<1>2. GraphInv => NoSupersededNode
  BY DEF GraphInv
<1> QED BY GraphInitInv, <1>1, <1>2, PTL DEF GraphSpec

-----------------------------------------------------------------------------
(* Erasing a tenant.                                                        *)
TenantTypes ==
  /\ wired \in [forget : 0 .. Stores, delete : 0 .. Stores]
  /\ held \in [1 .. Stores -> BOOLEAN]
  /\ eraser \in [Erasers -> [pc : {"idle", "drain", "lease", "sweep", "release"}, next : 1 .. Stores + 1]]
  /\ late \in BOOLEAN

\* A run that sweeps has emptied every store before the one it is at.
SweptInOrder ==
  ~late => \A r \in Erasers, s \in 1 .. Stores :
             eraser[r].pc = "sweep" /\ s < eraser[r].next => ~held[s]

\* A run that has not begun to sweep begins with the first store.
FirstSweep ==
  \A r \in Erasers : eraser[r].pc \in {"idle", "drain", "lease"} => eraser[r].next = 1

TenantInv == TenantTypes /\ FirstSweep /\ SweptInOrder /\ DeletedMeansSwept

\* A tenant that nobody erases satisfies the invariant.
LEMMA TenantInitInv == TenantInit => TenantInv
<1> SUFFICES ASSUME TenantInit PROVE TenantInv
  OBVIOUS
<1>1. /\ late = FALSE /\ held = [s \in 1 .. Stores |-> TRUE] /\ eraser = [r \in Erasers |-> NotErasing]
      /\ wired \in [forget : 0 .. Stores, delete : 0 .. Stores]
      /\ lifecycle = "none" /\ tenantStatus = "active"
  BY DEF TenantInit, Configured
<1>2. TenantTypes
  <2>1. held \in [1 .. Stores -> BOOLEAN] /\ late \in BOOLEAN
    BY <1>1, Zenon
  <2>2. NotErasing \in [pc : {"idle", "drain", "lease", "sweep", "release"}, next : 1 .. Stores + 1]
    BY StoresAssumption DEF NotErasing
  <2> QED BY <1>1, <2>1, <2>2 DEF TenantTypes
<1>3. SweptInOrder
  BY <1>1, StoresAssumption DEF NotErasing, SweptInOrder
<1>4. DeletedMeansSwept
  BY <1>1, StoresAssumption DEF DeletedMeansSwept
<1>5. FirstSweep
  BY <1>1 DEF NotErasing, FirstSweep
<1> QED BY <1>2, <1>3, <1>4, <1>5 DEF TenantInv

\* A run that moves without touching a store keeps the order of the sweep.
LEMMA EraserMoves ==
  ASSUME TenantTypes, FirstSweep, SweptInOrder, UNCHANGED <<wired, held, late>>, NEW r \in Erasers,
         NEW pc \in {"drain", "lease", "sweep", "release"}, eraser' = [eraser EXCEPT ![r].pc = pc],
         pc # "release" => eraser[r].next = 1
  PROVE  TenantTypes' /\ FirstSweep' /\ SweptInOrder'
<1>1. TenantTypes'
  BY DEF TenantTypes
<1>2. FirstSweep'
  BY DEF TenantTypes, FirstSweep
<1>3. \A o \in Erasers : eraser'[o].next = eraser[o].next /\ (o # r => eraser'[o] = eraser[o])
  BY DEF TenantTypes
<1>4. eraser'[r].pc = "sweep" => eraser'[r].next = 1
  BY <1>3 DEF TenantTypes
<1>5. SweptInOrder'
  BY <1>3, <1>4 DEF SweptInOrder
<1> QED BY <1>1, <1>2, <1>5

\* A run that returns forgets how far it was.
LEMMA EraserStops ==
  ASSUME TenantTypes, FirstSweep, SweptInOrder, UNCHANGED <<wired, held, late>>, NEW r \in Erasers, EraserReturns(r)
  PROVE  TenantTypes' /\ FirstSweep' /\ SweptInOrder'
<1> USE StoresAssumption DEF EraserReturns, NotErasing
<1>1. TenantTypes'
  BY DEF TenantTypes
<1>2. FirstSweep'
  BY DEF TenantTypes, FirstSweep
<1>3. SweptInOrder'
  BY DEF TenantTypes, SweptInOrder
<1> QED BY <1>1, <1>2, <1>3

\* Every step of Forget and Delete, of the lease and of the pipeline.
LEMMA TenantStepInv == ASSUME TenantInv, [TenantNext]_tenantVars PROVE TenantInv'
<1> USE StoresAssumption DEF TenantInv
<1>1. ASSUME NEW r \in Erasers, MarkPending(r) PROVE TenantInv'
  <2>1. TenantTypes' /\ FirstSweep' /\ SweptInOrder'
    BY <1>1, EraserMoves, Zenon DEF MarkPending, EraserAt, FirstSweep
  <2>2. DeletedMeansSwept'
    BY <1>1 DEF MarkPending, Mark, MarkLifecycle, UpsertStatus, DeletedMeansSwept
  <2> QED BY <2>1, <2>2
<1>2. ASSUME NEW r \in Erasers, Drain(r) \/ AcquireTenantLease(r) \/ ReleaseTenantLease(r) PROVE TenantInv'
  <2>1. UNCHANGED <<wired, lifecycle, tenantStatus, held, late>>
    BY <1>2 DEF Drain, AcquireTenantLease, ReleaseTenantLease
  <2>2. EraserReturns(r) \/ \E pc \in {"lease", "sweep"} : EraserAt(r, pc) /\ eraser[r].next = 1
    BY <1>2 DEF Drain, AcquireTenantLease, ReleaseTenantLease, FirstSweep
  <2>3. TenantTypes' /\ FirstSweep' /\ SweptInOrder'
    BY <2>1, <2>2, EraserMoves, EraserStops DEF EraserAt
  <2>4. DeletedMeansSwept'
    BY <2>1 DEF DeletedMeansSwept
  <2> QED BY <2>3, <2>4
<1>3. ASSUME NEW r \in Erasers, EraseFailed(r), UNCHANGED <<wired, held, late>>
      PROVE  TenantTypes' /\ FirstSweep' /\ SweptInOrder'
  BY <1>3, EraserMoves, EraserStops DEF EraseFailed, EraserAt
<1>4. ASSUME NEW r \in Erasers, SweepStore(r) PROVE TenantInv'
  <2> DEFINE n == eraser[r].next
  <2>1. n \in 1 .. Stores /\ eraser[r].pc = "sweep" /\ UNCHANGED <<wired, lifecycle, tenantStatus, late>>
    BY <1>4 DEF SweepStore, Sweepers, TenantTypes
  <2>2. CASE held' = [held EXCEPT ![n] = FALSE] /\ eraser' = [eraser EXCEPT ![r].next = @ + 1]
    <3>1. TenantTypes'
      BY <2>1, <2>2 DEF TenantTypes
    <3>2. FirstSweep'
      BY <2>1, <2>2 DEF TenantTypes, FirstSweep
    <3>3. SweptInOrder'
      BY <2>1, <2>2 DEF TenantTypes, SweptInOrder
    <3>4. DeletedMeansSwept'
      BY <2>1, <2>2 DEF TenantTypes, SweptInOrder, DeletedMeansSwept
    <3> QED BY <3>1, <3>2, <3>3, <3>4
  <2>3. CASE EraseFailed(r) /\ UNCHANGED held
    BY <1>3, <2>1, <2>3 DEF DeletedMeansSwept
  <2> QED BY <1>4, <2>2, <2>3 DEF SweepStore
<1>5. ASSUME NEW r \in Erasers, MarkDeleted(r) PROVE TenantInv'
  <2>1. TenantTypes' /\ FirstSweep' /\ SweptInOrder' /\ UNCHANGED <<wired, held, late>>
    BY <1>3, <1>5 DEF MarkDeleted
  <2>2. late \/ \A s \in 1 .. Sweepers(r) : ~held[s]
    BY <1>5 DEF MarkDeleted, Sweepers, TenantTypes, SweptInOrder
  <2>3. DeletedMeansSwept'
    BY <1>5, <2>1, <2>2 DEF MarkDeleted, Mark, MarkLifecycle, UpsertStatus, Sweepers, DeletedMeansSwept
  <2> QED BY <2>1, <2>3
<1>6. CASE TenantLeaseExpires \/ UNCHANGED tenantVars
  BY <1>6 DEF TenantLeaseExpires, tenantVars, TenantTypes, FirstSweep, SweptInOrder, DeletedMeansSwept
<1>7. ASSUME NEW s \in 1 .. Stores, PipelineWrite(s) PROVE TenantInv'
  BY <1>7 DEF PipelineWrite, TenantTypes, FirstSweep, SweptInOrder, DeletedMeansSwept
<1> QED BY <1>1, <1>2, <1>4, <1>5, <1>6, <1>7 DEF TenantNext

\* A tenant marked deleted has been erased from every store the orchestrator that
\* marked it sweeps, in their order, whichever runs of Forget and Delete overlap and
\* however many sweepers each is given, none included (forget.go, tenant_delete.go).
THEOREM DeletedTenantIsSwept == TenantSpec => []DeletedMeansSwept
<1>1. TenantInv /\ [TenantNext]_tenantVars => TenantInv'
  BY TenantStepInv
<1>2. TenantInv => DeletedMeansSwept
  BY DEF TenantInv
<1> QED BY TenantInitInv, <1>1, <1>2, PTL DEF TenantSpec

-----------------------------------------------------------------------------
(* API keys.                                                                *)
KeyTypes ==
  /\ keyRow \in [ApiKeyIds -> [status : {"none", "active", "grace", "expired"}, graceUntil : Nat]]
  /\ keysUsed \in ApiKeyIds /\ keyTime \in Nat
  /\ shown \in SUBSET ApiKeyIds
  /\ rotator \in [KeyRotators -> [pc : {"idle", "update", "insert", "answer"}, seen : SUBSET ApiKeyIds,
                                  moved : SUBSET ApiKeyIds, key : 0 .. MaxApiKeys, grace : Nat]]

\* The key of an open rotation has no row, no other open rotation has it, and the
\* rows a rotation moves are there: so that it never moves its own key.
KeysMinted ==
  /\ \A k \in ApiKeyIds : k > keysUsed => keyRow[k].status = "none"
  /\ \A r \in KeyRotators : rotator[r].pc # "idle" => rotator[r].key \in 1 .. keysUsed
  /\ \A r \in KeyRotators : rotator[r].pc \in {"update", "insert"} => keyRow[rotator[r].key].status = "none"
  /\ \A r \in KeyRotators : rotator[r].pc = "answer" => keyRow[rotator[r].key].status # "none"
  /\ \A r \in KeyRotators : \A k \in rotator[r].moved : keyRow[k].status # "none"
  /\ \A q, r \in KeyRotators :
       rotator[q].pc # "idle" /\ rotator[r].pc # "idle" /\ rotator[q].key = rotator[r].key => q = r

\* The sweeper expires no key before its deadline.
ExpiredIsDue == \A k \in ApiKeyIds : keyRow[k].status = "expired" => keyRow[k].graceUntil < keyTime

KeysInv == KeyTypes /\ KeysMinted /\ ExpiredIsDue /\ NeverWithoutKey

\* The tenant begins with one active key.
LEMMA KeysInitInv == KeysInit => KeysInv
<1> SUFFICES ASSUME KeysInit PROVE KeysInv
  OBVIOUS
<1> USE KeysAssumption DEF KeysInit, ApiKeyIds, Row, NoRotation
<1>1. KeyTypes
  BY DEF KeyTypes
<1>2. KeysMinted /\ ExpiredIsDue
  BY DEF KeysMinted, ExpiredIsDue
<1>3. 1 \in Active
  BY DEF Active
<1>4. NeverWithoutKey
  BY <1>3 DEF NeverWithoutKey
<1> QED BY <1>1, <1>2, <1>4 DEF KeysInv

\* Every statement of Rotate, its roll-back and the sweeper keep the invariant.
LEMMA KeysStepInv == ASSUME KeysInv, [KeysNext]_keyVars PROVE KeysInv'
<1> USE KeysAssumption DEF KeysInv
<1>1. ASSUME NEW r \in KeyRotators, rotate(r) PROVE KeysInv'
  <2>1. KeyTypes'
    BY <1>1, SMTT(30) DEF rotate, KeyTypes, ApiKeyIds, Active
  <2>2. KeysMinted'
    <3>1. /\ keysUsed' = keysUsed + 1 /\ keysUsed' \in ApiKeyIds /\ UNCHANGED keyRow
          /\ rotator'[r].pc = "update" /\ rotator'[r].key = keysUsed' /\ rotator'[r].moved = {}
          /\ \A q \in KeyRotators \ {r} : rotator'[q] = rotator[q]
      BY <1>1 DEF rotate, KeyTypes, ApiKeyIds
    <3>2. \A q \in KeyRotators \ {r} : rotator[q].pc # "idle" => rotator[q].key \in 1 .. keysUsed
      BY DEF KeysMinted
    <3>3. \A q \in KeyRotators : rotator'[q].pc # "idle" => rotator'[q].key \in 1 .. keysUsed'
      <4>1. keysUsed \in Nat /\ 1 .. keysUsed \subseteq 1 .. keysUsed' /\ keysUsed' \in 1 .. keysUsed'
        BY <3>1 DEF KeyTypes, ApiKeyIds
      <4> QED BY <3>1, <3>2, <4>1, Zenon
    <3>4. keyRow'[rotator'[r].key].status = "none"
      BY <3>1 DEF KeyTypes, KeysMinted, ApiKeyIds
    <3>5. \A q \in KeyRotators \ {r} : rotator'[q].pc # "idle" => rotator'[q].key # rotator'[r].key
      BY <3>1, <3>2, SMTT(30) DEF KeyTypes, ApiKeyIds
    <3>6. \A k \in ApiKeyIds : k > keysUsed' => keyRow'[k].status = "none"
      BY <3>1 DEF KeyTypes, KeysMinted, ApiKeyIds
    <3>7. \A q \in KeyRotators : /\ rotator'[q].pc \in {"update", "insert"} => keyRow'[rotator'[q].key].status = "none"
                                 /\ rotator'[q].pc = "answer" => keyRow'[rotator'[q].key].status # "none"
      BY <3>1, <3>4 DEF KeysMinted
    <3>8. \A q \in KeyRotators : \A k \in rotator'[q].moved : keyRow'[k].status # "none"
      BY <3>1 DEF KeysMinted
    <3>9. \A p, q \in KeyRotators :
            rotator'[p].pc # "idle" /\ rotator'[q].pc # "idle" /\ rotator'[p].key = rotator'[q].key => p = q
      BY <3>1, <3>5 DEF KeysMinted
    <3> QED BY <3>3, <3>6, <3>7, <3>8, <3>9 DEF KeysMinted
  <2>3. ExpiredIsDue' /\ NeverWithoutKey'
    BY <1>1 DEF rotate, ExpiredIsDue, NeverWithoutKey, Active
  <2> QED BY <2>1, <2>2, <2>3
<1>2. ASSUME NEW r \in KeyRotators, RotateUpdate(r) PROVE KeysInv'
  <2>0. rotator[r].seen \cap Active \in SUBSET ApiKeyIds
    BY DEF Active
  <2>1. KeyTypes'
    <3> DEFINE rec == [rotator[r] EXCEPT !.pc = "insert", !.seen = {}, !.moved = rotator[r].seen \cap Active]
    <3>1. UNCHANGED <<keyRow, keysUsed, shown, keyTime>> /\ rotator' = [rotator EXCEPT ![r] = rec]
      BY <1>2 DEF RotateUpdate
    <3>2. rec \in [pc : {"idle", "update", "insert", "answer"}, seen : SUBSET ApiKeyIds,
                   moved : SUBSET ApiKeyIds, key : 0 .. MaxApiKeys, grace : Nat]
      BY <2>0, ZenonT(60) DEF KeyTypes
    <3> HIDE DEF rec
    <3> QED BY <3>1, <3>2 DEF KeyTypes
  <2>2. KeysMinted'
    BY <1>2 DEF RotateUpdate, KeyTypes, KeysMinted, Active
  <2>3. ExpiredIsDue' /\ NeverWithoutKey'
    BY <1>2 DEF RotateUpdate, ExpiredIsDue, NeverWithoutKey, Active
  <2> QED BY <2>1, <2>2, <2>3
<1>3. ASSUME NEW r \in KeyRotators, Rotate(r) PROVE KeysInv'
  <2> DEFINE new == rotator[r].key
  <2>1. new \in ApiKeyIds /\ new <= keysUsed /\ keyRow[new].status = "none" /\ new \notin rotator[r].moved
    BY <1>3 DEF Rotate, KeyTypes, KeysMinted, ApiKeyIds
  <2>2. /\ keyRow' \in [ApiKeyIds -> [status : {"none", "active", "grace", "expired"}, graceUntil : Nat]]
        /\ keyRow'[new].status = "active"
        /\ \A k \in ApiKeyIds \ {new} : keyRow'[k] = keyRow[k] \/ (k \in rotator[r].moved /\ keyRow'[k].status = "grace")
    BY <1>3, <2>1 DEF Rotate, Row, KeyTypes
  <2>3. /\ rotator' = [rotator EXCEPT ![r] = [@ EXCEPT !.pc = "answer", !.moved = {}]]
        /\ UNCHANGED <<keysUsed, shown, keyTime>>
    BY <1>3 DEF Rotate
  <2>4. KeyTypes'
    <3>1. rotator' \in [KeyRotators -> [pc : {"idle", "update", "insert", "answer"}, seen : SUBSET ApiKeyIds,
                                       moved : SUBSET ApiKeyIds, key : 0 .. MaxApiKeys, grace : Nat]]
      <4> DEFINE rec == [rotator[r] EXCEPT !.pc = "answer", !.moved = {}]
      <4>1. rec \in [pc : {"idle", "update", "insert", "answer"}, seen : SUBSET ApiKeyIds,
                     moved : SUBSET ApiKeyIds, key : 0 .. MaxApiKeys, grace : Nat]
        BY ZenonT(60) DEF KeyTypes
      <4>2. rotator' = [rotator EXCEPT ![r] = rec]
        BY <2>3
      <4> HIDE DEF rec
      <4> QED BY <4>1, <4>2 DEF KeyTypes
    <3> QED BY <2>2, <2>3, <3>1, Zenon DEF KeyTypes
  <2>5. /\ rotator'[r].pc = "answer" /\ rotator'[r].key = new /\ rotator'[r].moved = {}
        /\ \A q \in KeyRotators \ {r} : rotator'[q] = rotator[q]
    BY <2>3 DEF KeyTypes
  <2>6. \A k \in ApiKeyIds \ {new} : keyRow'[k].status = "none" <=> keyRow[k].status = "none"
    BY <2>2 DEF KeyTypes, KeysMinted
  <2>7. \A q \in KeyRotators \ {r} : rotator[q].pc # "idle" => rotator[q].key \in ApiKeyIds \ {new}
    <3>1. rotator[r].pc # "idle"
      BY <1>3 DEF Rotate
    <3>2. \A q \in KeyRotators : rotator[q].pc # "idle" => rotator[q].key \in ApiKeyIds
      BY DEF KeyTypes, KeysMinted, ApiKeyIds
    <3> QED BY <3>1, <3>2, Zenon DEF KeysMinted
  <2>8. KeysMinted'
    <3>1. \A k \in ApiKeyIds : k > keysUsed' => keyRow'[k].status = "none"
      BY <2>1, <2>3, <2>6, SMTT(30) DEF KeyTypes, KeysMinted, ApiKeyIds
    <3>2. \A q \in KeyRotators : rotator'[q].key = rotator[q].key /\ (rotator'[q].pc = "idle" <=> rotator[q].pc = "idle")
      BY <1>3, <2>5 DEF Rotate
    <3>3. \A q \in KeyRotators : rotator'[q].pc \in {"update", "insert"} => keyRow'[rotator'[q].key].status = "none"
      BY <2>5, <2>6, <2>7 DEF KeysMinted
    <3>4. \A q \in KeyRotators : rotator'[q].pc = "answer" => keyRow'[rotator'[q].key].status # "none"
      BY <2>2, <2>5, <2>6, <2>7 DEF KeysMinted
    <3>5. \A q \in KeyRotators : \A k \in rotator'[q].moved : keyRow'[k].status # "none"
      <4>1. \A q \in KeyRotators : rotator[q].moved \subseteq ApiKeyIds
        BY DEF KeyTypes
      <4> QED BY <2>1, <2>2, <2>5, <2>6, <4>1 DEF KeysMinted
    <3>6. \A q \in KeyRotators : rotator'[q].pc # "idle" => rotator'[q].key \in 1 .. keysUsed'
      BY <2>3, <3>2, SMTT(30) DEF KeysMinted
    <3>7. \A p, q \in KeyRotators :
            rotator'[p].pc # "idle" /\ rotator'[q].pc # "idle" /\ rotator'[p].key = rotator'[q].key => p = q
      BY <3>2 DEF KeysMinted
    <3> QED BY <3>1, <3>3, <3>4, <3>5, <3>6, <3>7 DEF KeysMinted
  <2>9. ExpiredIsDue'
    BY <2>2, <2>3 DEF ExpiredIsDue
  <2>10. new \in Active'
    BY <2>1, <2>2 DEF Active
  <2>11. \A k \in shown : k \in ApiKeyIds \ {new}
    BY <2>1 DEF KeyTypes, NeverWithoutKey
  <2>12. NeverWithoutKey'
    BY <2>2, <2>3, <2>10, <2>11, SMTT(30) DEF NeverWithoutKey
  <2> QED BY <2>4, <2>8, <2>9, <2>12
<1>4. ASSUME NEW r \in KeyRotators, rotator' = [rotator EXCEPT ![r] = NoRotation], UNCHANGED <<keyRow, keysUsed, keyTime>>
      PROVE  /\ shown' \in SUBSET ApiKeyIds => KeyTypes'
             /\ KeysMinted' /\ ExpiredIsDue' /\ Active' = Active
  BY <1>4 DEF NoRotation, KeyTypes, KeysMinted, ExpiredIsDue, Active
<1>5. ASSUME NEW r \in KeyRotators, RotateFails(r) PROVE KeysInv'
  <2>1. UNCHANGED <<keyRow, keysUsed, shown, keyTime>> /\ rotator' = [rotator EXCEPT ![r] = NoRotation]
    BY <1>5 DEF RotateFails
  <2>2. NeverWithoutKey'
    BY <2>1 DEF NeverWithoutKey, Active
  <2> QED BY <1>4, <2>1, <2>2, Zenon DEF KeyTypes
<1>6. ASSUME NEW r \in KeyRotators, RotateAnswers(r) PROVE KeysInv'
  <2>1. /\ UNCHANGED <<keyRow, keysUsed, keyTime>> /\ rotator' = [rotator EXCEPT ![r] = NoRotation]
        /\ shown' = shown \cup {rotator[r].key}
        /\ rotator[r].key \in ApiKeyIds /\ keyRow[rotator[r].key].status # "none"
    BY <1>6 DEF RotateAnswers, KeyTypes, KeysMinted, ApiKeyIds
  <2>2. shown' \in SUBSET ApiKeyIds
    BY <2>1 DEF KeyTypes
  <2>3. NeverWithoutKey'
    BY <2>1 DEF KeyTypes, ExpiredIsDue, NeverWithoutKey, Active
  <2> QED BY <1>4, <2>1, <2>2, <2>3, Zenon
<1>7. CASE SweepOnce
  <2>1. /\ UNCHANGED <<keysUsed, rotator, shown, keyTime>>
        /\ \A k \in ApiKeyIds :
             \/ keyRow'[k] = keyRow[k]
             \/ keyRow'[k].status = "expired" /\ keyRow[k].status = "grace" /\ keyRow'[k].graceUntil < keyTime
        /\ keyRow' \in [ApiKeyIds -> [status : {"none", "active", "grace", "expired"}, graceUntil : Nat]]
    BY <1>7 DEF SweepOnce, ExpireGrace, Row, KeyTypes
  <2>2. KeyTypes'
    BY <2>1 DEF KeyTypes
  <2>3. \A k \in ApiKeyIds : keyRow'[k].status = "none" <=> keyRow[k].status = "none"
    BY <2>1
  <2>4. KeysMinted'
    <3>1. \A r \in KeyRotators : rotator[r].moved \subseteq ApiKeyIds
                                 /\ (rotator[r].pc # "idle" => rotator[r].key \in ApiKeyIds)
      BY DEF KeyTypes, KeysMinted, ApiKeyIds
    <3> QED BY <2>1, <2>3, <3>1 DEF KeysMinted
  <2>5. ExpiredIsDue'
    BY <2>1 DEF ExpiredIsDue
  <2>6. NeverWithoutKey'
    BY <2>1 DEF NeverWithoutKey, Active, KeyTypes
  <2> QED BY <2>2, <2>4, <2>5, <2>6
<1>8. CASE KeyTick \/ UNCHANGED keyVars
  BY <1>8 DEF KeyTick, keyVars, KeyTypes, KeysMinted, ExpiredIsDue, NeverWithoutKey, Active
<1> QED BY <1>1, <1>2, <1>3, <1>5, <1>6, <1>7, <1>8 DEF KeysNext

\* No interleaving of rotations, lost answers and sweeps leaves a tenant without an
\* active key or cuts off a key it was given before its deadline (Rotate in
\* api_key_rotation.go, ExpireGrace in api_key_sweeper.go).
THEOREM TenantKeepsAKey == KeysSpec => []NeverWithoutKey
<1>1. KeysInv /\ [KeysNext]_keyVars => KeysInv'
  BY KeysStepInv
<1>2. KeysInv => NeverWithoutKey
  BY DEF KeysInv
<1> QED BY KeysInitInv, <1>1, <1>2, PTL DEF KeysSpec

-----------------------------------------------------------------------------
(* Export jobs.                                                             *)
\* Where a worker is once its claim has succeeded.
Claimed == {"collect", "written", "fail"}

ExportTypes ==
  /\ jobs \in [JobIds -> {"none", "pending", "running", "succeeded", "failed"}]
  /\ exporter \in [ExportWorkers -> [pc : {"idle", "claim"} \cup Claimed, job : 0 .. MaxExportJobs]]

\* A claimed job is running, has one worker, and is archived once that is written.
ClaimsExclusive ==
  /\ \A w \in ExportWorkers : exporter[w].pc \in Claimed
       => exporter[w].job \in JobIds /\ jobs[exporter[w].job] = "running"
  /\ \A v, w \in ExportWorkers :
       exporter[v].pc \in Claimed /\ exporter[w].pc \in Claimed /\ exporter[v].job = exporter[w].job => v = w
  /\ \A w \in ExportWorkers : exporter[w].pc = "written" => exporter[w].job \in archives

ExportInv == ExportTypes /\ ClaimsExclusive

\* The step of JobsMoveForward.
Forward ==
  \A j \in JobIds : jobs'[j] # jobs[j] =>
    /\ ExportRank(jobs'[j]) > ExportRank(jobs[j])
    /\ jobs'[j] = "succeeded" => j \in archives

\* No job and no worker at work.
LEMMA ExportInitInv == ExportInit => ExportInv
  BY ExportAssumption DEF ExportInit, NoJob, ExportInv, ExportTypes, ClaimsExclusive, Claimed

\* A worker that gives up leaves the other claims as they are.
LEMMA ExporterLeaves ==
  ASSUME ExportInv, NEW w \in ExportWorkers, Finishes(w), UNCHANGED <<jobs, archives>>
  PROVE  ExportInv'
<1>1. ExportTypes'
  BY ExportAssumption DEF Finishes, NoJob, ExportInv, ExportTypes, Claimed
<1>2. ClaimsExclusive'
  BY DEF Finishes, NoJob, ExportInv, ExportTypes, ClaimsExclusive, Claimed
<1> QED BY <1>1, <1>2 DEF ExportInv

\* Every statement of CreateJob, ClaimNextPending and ProcessOne.
LEMMA ExportStep == ASSUME ExportInv, [ExportNext]_exportVars PROVE ExportInv' /\ Forward
<1> USE ExportAssumption DEF Claimed, JobIds
<1>1. ASSUME NEW j \in JobIds, CreateJob(j) PROVE ExportInv' /\ Forward
  BY <1>1, SMTT(30) DEF CreateJob, InsertJob, ExportInv, ExportTypes, ClaimsExclusive, Forward, ExportRank
<1>2. ASSUME NEW w \in ExportWorkers, ClaimRead(w) PROVE ExportInv' /\ Forward
  BY <1>2, SMTT(30) DEF ClaimRead, Pending, ExportInv, ExportTypes, ClaimsExclusive, Forward
<1>3. ASSUME NEW w \in ExportWorkers, ClaimNextPending(w) PROVE ExportInv' /\ Forward
  <2>1. CASE Finishes(w) /\ UNCHANGED jobs
    BY <1>3, <2>1, ExporterLeaves DEF ClaimNextPending, Forward
  <2>2. CASE /\ exporter[w].job \in Pending
             /\ jobs' = [jobs EXCEPT ![exporter[w].job] = "running"] /\ Proceeds(w, "collect")
    <3>1. ExportTypes'
      BY <2>2, Zenon DEF Proceeds, ExportInv, ExportTypes
    <3>2. ClaimsExclusive'
      BY <1>3, <2>2 DEF ClaimNextPending, Proceeds, Pending, ExportInv, ExportTypes, ClaimsExclusive
    <3>3. Forward
      BY <2>2 DEF Pending, ExportInv, ExportTypes, Forward, ExportRank
    <3> QED BY <3>1, <3>2, <3>3 DEF ExportInv
  <2> QED BY <1>3, <2>1, <2>2 DEF ClaimNextPending
<1>4. ASSUME NEW w \in ExportWorkers, ProcessOne(w) PROVE ExportInv' /\ Forward
  <2>1. PICK pc \in {"written", "fail"} :
          /\ exporter[w].pc = "collect" /\ Proceeds(w, pc) /\ UNCHANGED jobs /\ archives \subseteq archives'
          /\ pc = "written" => exporter[w].job \in archives'
    BY <1>4 DEF ProcessOne
  <2>2. ExportTypes' /\ Forward
    BY <2>1 DEF Proceeds, ExportInv, ExportTypes, Forward
  <2>3. ClaimsExclusive'
    BY <2>1 DEF Proceeds, ExportInv, ExportTypes, ClaimsExclusive
  <2> QED BY <2>2, <2>3 DEF ExportInv
<1>5. ASSUME NEW w \in ExportWorkers, NEW status \in {"succeeded", "failed"}, Settle(w, status),
             exporter[w].pc = (IF status = "succeeded" THEN "written" ELSE "fail")
      PROVE  ExportInv' /\ Forward
  <2>1. CASE UNCHANGED jobs
    BY <1>5, <2>1, ExporterLeaves DEF Settle, Forward
  <2>2. CASE jobs' = [jobs EXCEPT ![exporter[w].job] = status]
    <3>1. exporter[w].job \in JobIds /\ jobs[exporter[w].job] = "running"
      BY <1>5 DEF ExportInv, ClaimsExclusive
    <3>2. ExportTypes'
      <4>1. exporter' = [exporter EXCEPT ![w] = NoJob]
        BY <1>5 DEF Settle, Finishes
      <4>2. NoJob \in [pc : {"idle", "claim"} \cup Claimed, job : 0 .. MaxExportJobs]
        BY DEF NoJob
      <4> QED BY <2>2, <4>1, <4>2, Zenon DEF ExportInv, ExportTypes
    <3>3. \A v \in ExportWorkers \ {w} : exporter'[v] = exporter[v]
                                         /\ (exporter[v].pc \in Claimed => exporter[v].job # exporter[w].job)
      BY <1>5 DEF Settle, Finishes, ExportInv, ExportTypes, ClaimsExclusive
    <3>4. exporter'[w].pc = "idle" /\ archives' = archives
      BY <1>5, SMTT(30) DEF Settle, Finishes, NoJob, ExportInv, ExportTypes
    <3>5. ClaimsExclusive'
      <4>1. \A v \in ExportWorkers : exporter'[v].pc \in Claimed => v # w /\ exporter'[v] = exporter[v]
        BY <3>3, <3>4, SMTT(30)
      <4>2. \A v \in ExportWorkers : exporter'[v].pc \in Claimed => jobs'[exporter[v].job] = jobs[exporter[v].job]
        BY <2>2, <3>1, <3>3, <4>1 DEF ExportInv, ExportTypes, ClaimsExclusive
      <4> QED BY <3>4, <4>1, <4>2, SMTT(30) DEF ExportInv, ClaimsExclusive
    <3>6. Forward
      BY <1>5, <2>2, <3>1, SMTT(30) DEF ExportInv, ExportTypes, ClaimsExclusive, Forward, ExportRank
    <3> QED BY <3>2, <3>5, <3>6, SMTT(30) DEF ExportInv
  <2> QED BY <1>5, <2>1, <2>2, SMTT(30) DEF Settle
<1>6. ASSUME NEW w \in ExportWorkers, ExporterCrash(w) PROVE ExportInv' /\ Forward
  BY <1>6, ExporterLeaves, SMTT(30) DEF ExporterCrash, Forward
<1>7. CASE UNCHANGED exportVars
  BY <1>7 DEF exportVars, ExportInv, ExportTypes, ClaimsExclusive, Forward
<1>8. ASSUME NEW w \in ExportWorkers, MarkSucceeded(w) \/ MarkFailed(w) PROVE ExportInv' /\ Forward
  BY <1>5, <1>8 DEF MarkSucceeded, MarkFailed
<1> QED BY <1>1, <1>2, <1>3, <1>4, <1>6, <1>7, <1>8 DEF ExportNext

\* An export job's status only moves forward and success implies its archive,
\* although MarkSucceeded and MarkFailed are unconditional (data_export.go).
THEOREM ExportJobsMoveForward == ExportSpec => JobsMoveForward
<1>1. ExportInv /\ [ExportNext]_exportVars => ExportInv' /\ [Forward]_exportVars
  BY ExportStep
<1> QED BY ExportInitInv, <1>1, PTL DEF ExportSpec, JobsMoveForward, Forward
=============================================================================
