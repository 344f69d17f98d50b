------------------------------- MODULE Storer -------------------------------
(***************************************************************************)
(* Stage 4 of the pipeline (internal/pipeline/store.go) writing one        *)
(* document to its two stores: the chunks table in PostgreSQL              *)
(* (internal/storage/postgres.go) and the points in Qdrant.                *)
(*                                                                         *)
(* A chunk id is a function of (tenant, document, block), so the chunks of *)
(* different documents never meet and one document is enough.  A chunk row *)
(* and a point are abstracted to the content hash they carry.  Every call  *)
(* to a store is a step; it may fail before it took effect or after (a     *)
(* timed-out call whose effect landed).  A worker that sees an error       *)
(* starts the operation again, up to StoreAttempts times (runWithRetry),   *)
(* and then gives the event to the DLQ.                                    *)
(***************************************************************************)
EXTENDS Naturals

CONSTANTS
  Storers,      \* Stage 4 goroutines
  Blocks,       \* block ids of the document, over all its versions
  Hashes,       \* content hashes of its versions
  BlocksOf,     \* the blocks a version is parsed (and deduplicated) into
  StoreAttempts,  \* CoordinatorConfig.MaxAttempts
  Faulty        \* whether calls to the stores may fail

ASSUME BlocksOfAssumption    == BlocksOf \in [Hashes -> SUBSET Blocks]
ASSUME StoreAttemptsAssumption == StoreAttempts \in Nat \ {0}
ASSUME FaultyAssumption      == Faulty \in BOOLEAN

None   == "none"
Delete == "delete"
ASSUME NamesAssumption == None \notin Hashes /\ Delete \notin Hashes

VARIABLES
  meta,      \* chunks table: the content hash in the row of each block, or None
  vec,       \* Qdrant: the content hash in the point of each block, or None
  lastHash,  \* content hash of the row with the newest updated_at
  storerPc,  \* where each worker is inside Store or Delete
  op,        \* what each worker executes: a content hash to store, or Delete
  ids,       \* the ids DeleteByDocument has collected
  storeTry,   \* attempts started for the current operation
  outcome,   \* history: how the last operation to finish ended
  orphans    \* history: ids that were collected for a vector delete that never ran

stores == <<meta, vec, lastHash>>
storerVars == <<meta, vec, lastHash, storerPc, op, ids, storeTry, outcome, orphans>>

Stored(store) == {b \in Blocks : store[b] # None}
Write(store, h) == [b \in Blocks |-> IF b \in BlocksOf[h] THEN h ELSE store[b]]
Drop(store, bs) == [b \in Blocks |-> IF b \in bs THEN None ELSE store[b]]

StoreSteps  == {"ensure", "latest", "upsertMeta", "upsertVec"}

StorerInit ==
  /\ meta = [b \in Blocks |-> None]
  /\ vec = [b \in Blocks |-> None]
  /\ lastHash = None
  /\ storerPc = [w \in Storers |-> "idle"]
  /\ op = [w \in Storers |-> None]
  /\ ids = [w \in Storers |-> {}]
  /\ storeTry = [w \in Storers |-> 0]
  /\ outcome = "none"
  /\ orphans = {}

-----------------------------------------------------------------------------
(* Control *)

Goto(w, next) == storerPc' = [storerPc EXCEPT ![w] = next]

FirstStep(o) == IF o = Delete THEN "pluck" ELSE "ensure"

\* Stage 4 takes an event and enters Store or Delete.
Begin(w) ==
  /\ storerPc[w] = "idle"
  /\ \E o \in Hashes \union {Delete} :
       /\ op' = [op EXCEPT ![w] = o]
       /\ Goto(w, FirstStep(o))
  /\ storeTry' = [storeTry EXCEPT ![w] = 1]
  /\ outcome' = "none"
  /\ UNCHANGED <<stores, ids, orphans>>

\* The operation returned nil: OnSuccess.
Succeed(w) ==
  /\ Goto(w, "idle")
  /\ ids' = [ids EXCEPT ![w] = {}]
  /\ outcome' = "ok"
  /\ op' = [op EXCEPT ![w] = None]
  /\ storeTry' = [storeTry EXCEPT ![w] = 0]

\* The operation returned an error: start again, or give up to the DLQ.
\* The ids it had collected are forgotten.
Fail(w) ==
  /\ Faulty
  /\ ids' = [ids EXCEPT ![w] = {}]
  /\ IF storeTry[w] < StoreAttempts
     THEN /\ storeTry' = [storeTry EXCEPT ![w] = @ + 1]
          /\ Goto(w, FirstStep(op[w]))
          /\ UNCHANGED <<op, outcome>>
     ELSE /\ Goto(w, "idle")
          /\ outcome' = "failed"
          /\ op' = [op EXCEPT ![w] = None]
          /\ storeTry' = [storeTry EXCEPT ![w] = 0]

Continue(w, next) == Goto(w, next) /\ UNCHANGED <<op, ids, storeTry, outcome>>

-----------------------------------------------------------------------------
(* Store *)

EnsureCollection(w) ==
  /\ storerPc[w] = "ensure"
  /\ Continue(w, "latest") \/ Fail(w)
  /\ UNCHANGED <<stores, orphans>>

LatestHashForDocument == IF Stored(meta) = {} THEN None ELSE lastHash

\* Mutant: the previous version is left in place.
LatestHashKeepsOld(w) ==
  /\ storerPc[w] = "latest"
  /\ Continue(w, "upsertMeta") \/ Fail(w)
  /\ UNCHANGED <<stores, orphans>>

LatestHash(w) ==
  /\ storerPc[w] = "latest"
  /\ \/ Continue(w, IF LatestHashForDocument \in {None, op[w]} THEN "upsertMeta" ELSE "pluck")
     \/ Fail(w)
  /\ UNCHANGED <<stores, orphans>>

\* One transaction: all the rows of the version or none.
UpsertChunks(w) ==
  /\ storerPc[w] = "upsertMeta"
  /\ \/ /\ meta' = Write(meta, op[w])
        /\ lastHash' = IF BlocksOf[op[w]] = {} THEN lastHash ELSE op[w]
        /\ Continue(w, "upsertVec") \/ Fail(w)
     \/ Fail(w) /\ UNCHANGED <<meta, lastHash>>
  /\ UNCHANGED <<vec, orphans>>

VectorUpsert(w) ==
  /\ storerPc[w] = "upsertVec"
  /\ \/ vec' = Write(vec, op[w]) /\ (Succeed(w) \/ Fail(w))
     \/ Fail(w) /\ UNCHANGED vec
  /\ UNCHANGED <<meta, lastHash, orphans>>

-----------------------------------------------------------------------------
(* Delete, and the removal of the previous version inside Store *)

\* DeleteByDocument, first statement.
CollectIDs(w) ==
  /\ storerPc[w] = "pluck"
  /\ \/ /\ ids' = [ids EXCEPT ![w] = Stored(meta)]
        /\ Goto(w, "deleteMeta")
        /\ UNCHANGED <<op, storeTry, outcome>>
     \/ Fail(w)
  /\ UNCHANGED <<stores, orphans>>

\* Both callers skip the vector delete when no id came back.
AfterDelete(w) ==
  IF op[w] = Delete
  THEN Succeed(w)
  ELSE /\ Goto(w, "upsertMeta")
       /\ ids' = [ids EXCEPT ![w] = {}]
       /\ UNCHANGED <<op, storeTry, outcome>>

\* Mutant: the ids are not mirrored to Qdrant.
DeleteByDocumentOnly(w) ==
  /\ storerPc[w] = "deleteMeta"
  /\ \/ meta' = Drop(meta, Blocks) /\ AfterDelete(w)
     \/ Fail(w) /\ UNCHANGED meta
  /\ UNCHANGED <<vec, lastHash, orphans>>

\* DeleteByDocument, second statement.
DeleteByDocument(w) ==
  /\ storerPc[w] = "deleteMeta"
  /\ \/ /\ meta' = Drop(meta, Blocks)
        /\ \/ /\ IF ids[w] = {} THEN AfterDelete(w) ELSE Continue(w, "deleteVec")
              /\ UNCHANGED orphans
           \/ Fail(w) /\ orphans' = orphans \union ids[w]
     \/ Fail(w) /\ UNCHANGED <<meta, orphans>>
  /\ UNCHANGED <<vec, lastHash>>

VectorDelete(w) ==
  /\ storerPc[w] = "deleteVec"
  /\ \/ /\ vec' = Drop(vec, ids[w])
        /\ AfterDelete(w) \/ Fail(w)
        /\ UNCHANGED orphans
     \/ /\ Fail(w)
        /\ orphans' = orphans \union ids[w]
        /\ UNCHANGED vec
  /\ UNCHANGED <<meta, lastHash>>

StageFour(w) == Begin(w) \/ EnsureCollection(w) \/ LatestHash(w) \/ UpsertChunks(w) \/ VectorUpsert(w)
             \/ CollectIDs(w) \/ DeleteByDocument(w) \/ VectorDelete(w)

StorerNext == \E w \in Storers : StageFour(w)

StorerSpec == StorerInit /\ [][StorerNext]_storerVars

-----------------------------------------------------------------------------

AtRest == \A w \in Storers : storerPc[w] = "idle"

\* What the comments on Store and Delete promise: a successful operation
\* leaves the two stores in lock step, after whatever failures.
SuccessMeansLockStep == AtRest /\ outcome = "ok" => Stored(vec) = Stored(meta)
=============================================================================
