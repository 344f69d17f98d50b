----------------------------- MODULE Retention ------------------------------
(***************************************************************************)
(* The retention worker (internal/pipeline/retention_worker.go) and its    *)
(* deleter (internal/pipeline/retention_deleter.go) running beside Stage 4 *)
(* on the same two stores.                                                 *)
(*                                                                         *)
(* A sweep lists the chunk rows, keeps the expired ones, and calls         *)
(* DeleteChunk for each: a vector delete of that one chunk, then           *)
(* DeleteByDocument for the whole document.  The list is read once, before *)
(* the first delete.  A sweep ends early when ctx is cancelled or the      *)
(* process dies.                                                           *)
(***************************************************************************)
EXTENDS Storer

VARIABLES
  aged,       \* blocks whose row is older than the effective MaxAgeDays
  sweepPc,    \* where the worker is inside DeleteChunk
  listed,     \* expired chunks still to be deleted by this sweep
  trouble,    \* history: "overlap" with Stage 4, or a "failure" or cut of a sweep
  unswept     \* history: chunks whose vector delete a sweep failed or never reached

sweeperVars == <<sweepPc, listed>>
retentionVars == <<storerVars, aged, sweeperVars, trouble, unswept>>

SweepInit ==
  /\ StorerInit
  /\ aged = {}
  /\ sweepPc = "idle"
  /\ listed = {}
  /\ trouble = {}
  /\ unswept = {}

Sweeping == sweepPc # "idle"

\* Time passes: every row written so far is now past its MaxAgeDays.
Age ==
  /\ aged' = Stored(meta)
  /\ UNCHANGED <<storerVars, sweeperVars, trouble, unswept>>

Rewritten(w) == IF storerPc[w] = "upsertMeta" THEN BlocksOf[op[w]] ELSE {}

\* A step of Stage 4.  UpsertChunks rewrites created_at, so the rows it
\* writes are young again; when it fails without a visible change, either
\* may be the case.
StageFourStep(w) ==
  /\ StageFour(w)
  /\ \/ aged' = aged \ Rewritten(w)
     \/ meta' = meta /\ storerPc'[w] # "upsertVec" /\ UNCHANGED aged
  /\ trouble' = trouble \union (IF Sweeping THEN {"overlap"} ELSE {})
  /\ UNCHANGED <<sweeperVars, unswept>>

\* Mutant: one chunk per document is enough ("1:1 in the retention sweep").
SweepListOne ==
  /\ sweepPc = "idle"
  /\ \/ aged \intersect Stored(meta) = {} /\ listed' = {}
     \/ \E b \in aged \intersect Stored(meta) : listed' = {b}
  /\ sweepPc' = "next"
  /\ trouble' = trouble \union (IF AtRest THEN {} ELSE {"overlap"})
  /\ UNCHANGED <<storerVars, aged, unswept>>

\* sweepTenant: ListChunks, then the expiry test of each listed chunk.
SweepList ==
  /\ sweepPc = "idle"
  /\ listed' = aged \intersect Stored(meta)
  /\ sweepPc' = "next"
  /\ trouble' = trouble \union (IF AtRest THEN {} ELSE {"overlap"})
  /\ UNCHANGED <<storerVars, aged, unswept>>

\* DeleteChunk, first half.  An error does not stop the second half.
SweepVector ==
  /\ sweepPc = "next"
  /\ \E b \in listed :
       /\ listed' = listed \ {b}
       /\ \/ vec' = Drop(vec, {b}) /\ UNCHANGED <<trouble, unswept>>
          \/ /\ Faulty
             /\ trouble' = trouble \union {"failure"}
             /\ unswept' = unswept \union {b}
             /\ UNCHANGED vec
  /\ sweepPc' = "metadata"
  /\ UNCHANGED <<meta, lastHash, storerPc, op, ids, storeTry, outcome, orphans, aged>>

\* DeleteChunk, second half: DeleteByDocument drops every row of the document;
\* the ids it collects are ignored.
SweepMetadata ==
  /\ sweepPc = "metadata"
  /\ \/ meta' = Drop(meta, Blocks) /\ aged' = {} /\ UNCHANGED trouble
     \/ Faulty /\ trouble' = trouble \union {"failure"} /\ UNCHANGED <<meta, aged>>
  /\ sweepPc' = "next"
  /\ UNCHANGED <<vec, lastHash, storerPc, op, ids, storeTry, outcome, orphans, listed, unswept>>

SweepEnd ==
  /\ sweepPc = "next"
  /\ listed = {}
  /\ sweepPc' = "idle"
  /\ UNCHANGED <<storerVars, aged, listed, trouble, unswept>>

\* ctx.Err() between two chunks, or the process dies anywhere in the sweep.
SweepCutShort ==
  /\ Sweeping
  /\ sweepPc' = "idle"
  /\ listed' = {}
  /\ trouble' = trouble \union {"failure"}
  /\ unswept' = unswept \union listed
  /\ UNCHANGED <<storerVars, aged>>

RetentionSweep == SweepList \/ SweepVector \/ SweepMetadata \/ SweepEnd \/ SweepCutShort

SweepNext == Age \/ RetentionSweep \/ \E w \in Storers : StageFourStep(w)

SweepSpec == SweepInit /\ [][SweepNext]_retentionVars

-----------------------------------------------------------------------------

\* Operations on the document are serialised: one worker of Stage 4, as the
\* consumer arranges for events of one partition.  Whatever fails, times out
\* or is cut short, and until a sweep overlaps an operation of Stage 4:
\*   - the chunks table never mixes two versions (the content_hash branch of
\*     Store);
\*   - a point without a chunk row is on its way out (the vector delete of
\*     Store, Delete or the sweep has its id), or a vector delete for it
\*     failed or was never reached after the metadata delete had landed;
\*   - at rest, after an operation that succeeded and sweeps that completed,
\*     both stores hold the same version: the retries converge, and the vector
\*     deletes of one sweep add up to the metadata delete (DeleteChunk).
StoresConsistent ==
  /\ Stored(meta) = {} \/ meta = Write([b \in Blocks |-> None], lastHash)
  /\ "overlap" \notin trouble =>
       Stored(vec) \ Stored(meta) \subseteq
         orphans \union unswept \union listed \union UNION {ids[w] : w \in {v \in Storers : storerPc[v] = "deleteVec"}}
  /\ AtRest /\ ~Sweeping /\ outcome = "ok" /\ orphans = {} /\ trouble = {} => vec = meta
=============================================================================
