----------------------------- MODULE GraphStage -----------------------------
(***************************************************************************)
(* Stage 3b: pipeline/graphrag.go over storage/falkordb.go.  Documents of  *)
(* one tenant share a graph, keyed by the document's id without its        *)
(* source: calls for two documents, or for one that two sources have,      *)
(* interleave between the three remote calls of Enrich (the consumer is    *)
(* serial for each partition only).                                        *)
(***************************************************************************)
EXTENDS FiniteSets

CONSTANTS GraphDocs,  \* documents
          Enrichers,  \* calls of Enrich that can be in flight together
          Entities,   \* node ids the extractor can name; an id fixes its label
          Extractions \* its answers: nodes and the <<source, destination>> pairs it relates

\* A document's id is not one of the two marks of a node without a document.
ASSUME GraphAssumption ==
  /\ {"absent", "bare"} \cap GraphDocs = {}
  /\ Extractions \subseteq [nodes : SUBSET Entities, relations : SUBSET (Entities \X Entities)]

VARIABLES
  owner,   \* node id -> document_id, "absent", or "bare" (made by an edge's MERGE)
  edges,   \* <<source, destination, document>>
  enrich,  \* locals of each Enrich: where it is, its document, what was extracted
           \* and (ghost) the nodes others wrote to the document since its prune
  latest   \* ghost: the document's nodes as last written

graphVars == <<owner, edges, enrich, latest>>

NoWork == [pc |-> "idle", doc |-> "absent", nodes |-> {}, relations |-> {}, beside |-> {}]

GraphInit ==
  /\ owner = [n \in Entities |-> "absent"] /\ edges = {}
  /\ enrich = [w \in Enrichers |-> NoWork] /\ latest = [d \in GraphDocs |-> {}]

GraphEnds(w) == enrich' = [enrich EXCEPT ![w] = NoWork]

(* ExtractEntities answers; when it fails nothing changes and nil is        *)
(* returned, as it is without blocks.                                       *)
ExtractEntities(w, d, e) ==
  /\ enrich[w].pc = "idle"
  /\ enrich' = [enrich EXCEPT ![w] = [pc |-> "prune", doc |-> d, nodes |-> e.nodes,
                                      relations |-> e.relations, beside |-> {}]]
  /\ UNCHANGED <<owner, edges, latest>>

(* Nodes of the document go, with every edge that touches one.  An edge of  *)
(* the document between nodes of others stays.                              *)
DeleteByDocument(d) ==
  LET gone == {n \in Entities : owner[n] = d}
  IN /\ owner' = [n \in Entities |-> IF n \in gone THEN "absent" ELSE owner[n]]
     /\ edges' = {e \in edges : e[1] \notin gone /\ e[2] \notin gone}
     /\ latest' = [latest EXCEPT ![d] = {}]

(* Mutant: the prior subgraph is not pruned.                                *)
PrunePriorSkipped(w) ==
  /\ enrich[w].pc = "prune" /\ enrich' = [enrich EXCEPT ![w].pc = "write"]
  /\ UNCHANGED <<owner, edges, latest>>

(* A prune that fails ends the call: the old subgraph stays as it is.       *)
PrunePrior(w) ==
  /\ enrich[w].pc = "prune"
  /\ \/ DeleteByDocument(enrich[w].doc) /\ enrich' = [enrich EXCEPT ![w].pc = "write"]
     \/ GraphEnds(w) /\ UNCHANGED <<owner, edges, latest>>

(* Every node carries the document's id.                                    *)
projectGraphPayload(w) ==
  [nodes |-> [n \in enrich[w].nodes |-> enrich[w].doc],
   edges |-> {<<r[1], r[2], enrich[w].doc>> : r \in enrich[w].relations}]

(* One query: nodes are merged by id and take the new document_id, whoever  *)
(* had them; an edge's missing end is made without one.                     *)
WriteNodes(payload) ==
  LET named == DOMAIN payload.nodes
      touched == UNION {{e[1], e[2]} : e \in payload.edges}
  IN /\ owner' = [n \in Entities |-> IF n \in named THEN payload.nodes[n]
                                     ELSE IF n \in touched /\ owner[n] = "absent" THEN "bare"
                                     ELSE owner[n]]
     /\ edges' = edges \cup payload.edges

(* The ghosts of a write: the calls for the same document that have pruned. *)
Written(w) ==
  LET d == enrich[w].doc
  IN /\ latest' = [latest EXCEPT ![d] = enrich[w].nodes \cup enrich[w].beside]
     /\ enrich' = [v \in Enrichers |->
          IF v = w THEN NoWork
          ELSE IF enrich[v].pc = "write" /\ enrich[v].doc = d
               THEN [enrich[v] EXCEPT !.beside = @ \cup enrich[w].nodes]
          ELSE enrich[v]]

(* Write failures are logged: the document is left without its subgraph.    *)
WriteSubgraph(w) ==
  /\ enrich[w].pc = "write"
  /\ \/ WriteNodes(projectGraphPayload(w)) /\ Written(w)
     \/ GraphEnds(w) /\ UNCHANGED <<owner, edges, latest>>

(* EventDocumentDeleted and EventPurge; a failure changes nothing.          *)
DeleteSubgraph(d) == DeleteByDocument(d) /\ UNCHANGED enrich

GraphNext ==
  \/ \E w \in Enrichers :
       \/ \E d \in GraphDocs, e \in Extractions : ExtractEntities(w, d, e)
       \/ PrunePrior(w) \/ WriteSubgraph(w)
  \/ \E d \in GraphDocs : DeleteSubgraph(d)

GraphSpec == GraphInit /\ [][GraphNext]_graphVars

-----------------------------------------------------------------------------
(* "re-ingestion of the same document supersedes prior nodes": a node that  *)
(* names a document is of the last write to it or of a write that fell      *)
(* between that one's prune and itself, whatever prunes and writes fail and *)
(* however other documents take nodes over and drop them.  So the nodes of  *)
(* an earlier version stay only where two calls for the document overlap    *)
(* (both prune, both write), as those of a deleted one do where the write   *)
(* of a call that has pruned comes last; the next prune drops them.         *)
NoSupersededNode ==
  \A n \in Entities, d \in GraphDocs : owner[n] = d => n \in latest[d]
=============================================================================
