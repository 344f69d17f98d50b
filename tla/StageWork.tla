------------------------------ MODULE StageWork ------------------------------
(***************************************************************************)
(* What the stages do with one document: pipeline/fetch.go, parse.go,      *)
(* embed.go and dedup.go, call by call.  The queues between them are       *)
(* Coordinator's.  Blocks are their positions; a vector is the block and   *)
(* the model it was computed from.                                         *)
(***************************************************************************)
EXTENDS Naturals, Sequences, SequencesExt

CONSTANTS MaxBlocks,     \* blocks of a document
          EmbedBatch,     \* chunks of a local embedding request
          StageAttempts, \* MaxAttempts of each stage
          LocalModels,   \* models the local service can run
          RemoteModel,   \* the model a remote service reports
          Similar        \* <<i, j>>: the cosine of blocks i and j reaches the threshold

VARIABLES
  stage,     \* the stage the document is in, and in the end how it ended
  tries,     \* attempts of the current call
  blocks,    \* sequence of blocks
  sent,      \* chunks sent to the local service
  vectors,   \* sequence of [block, model]
  model,     \* the model id reported so far
  wanted,    \* the model the resolver or the configuration asks for; "any" if none
  serving,   \* the model the local service was started with
  redeployed \* it was started with another while batches were being embedded

workVars == <<stage, tries, blocks, sent, vectors, model, wanted, serving, redeployed>>

WorkInit ==
  /\ stage = "event" /\ tries = 0 /\ blocks = <<>> /\ sent = 0 /\ vectors = <<>> /\ model = "none"
  /\ wanted \in LocalModels \cup {"any"} /\ serving \in LocalModels /\ redeployed = FALSE

EntersStage(s) == stage' = s /\ tries' = 0
Quiet == UNCHANGED <<blocks, sent, vectors, model, wanted, serving, redeployed>>

(* The event is refused as poison, carries its content, or names an URL.    *)
FetchEvent ==
  /\ stage = "event"
  /\ \E s \in {"poison", "hash", "http", "s3"} : EntersStage(s)
  /\ Quiet

(* One attempt fails: an error that may pass is tried again until the       *)
(* attempts are used up; any other ends the stage.                          *)
AttemptFails ==
  \/ tries + 1 < StageAttempts /\ tries' = tries + 1 /\ UNCHANGED stage
  \/ EntersStage("failed")

(* httpAttempt and the loop of fetchHTTP; a body over the limit is final.   *)
fetchHTTP == stage = "http" /\ (EntersStage("hash") \/ AttemptFails) /\ Quiet

(* No retry here, and a malformed URL is poison.                            *)
fetchS3 == stage = "s3" /\ (\E s \in {"hash", "failed", "poison"} : EntersStage(s)) /\ Quiet

(* The content is the previous one, and the event does not force it.        *)
HashContent == stage = "hash" /\ (EntersStage("unchanged") \/ EntersStage("parse")) /\ Quiet

(* adapt keeps the order of the response's blocks.                          *)
adapt(n) == [i \in 1 .. n |-> i]

Parse ==
  /\ stage = "parse"
  /\ \/ \E n \in 0 .. MaxBlocks : blocks' = adapt(n) /\ EntersStage("embed")
     \/ AttemptFails /\ UNCHANGED blocks
  /\ UNCHANGED <<sent, vectors, model, wanted, serving, redeployed>>

(* Vectors for the blocks of a range; one past the last is of no block.     *)
Vectors(from, upto, m) ==
  [i \in 1 .. upto - from + 1 |-> [block |-> IF from + i - 1 <= Len(blocks) THEN blocks[from + i - 1] ELSE 0, model |-> m]]

(* A remote service leaves a vector out, answers in full, or adds one.      *)
RemoteCounts(n) == {n - 1, n, n + 1}

(* No blocks need no call.  A tenant that allows it is served remotely, in  *)
(* one request whose vectors nothing counts here; a remote failure starts   *)
(* over with the local service.                                             *)
EmbedBlocksForSource ==
  /\ stage = "embed"
  /\ \/ Len(blocks) = 0 /\ EntersStage("dedup") /\ UNCHANGED <<vectors, model>>
     \/ /\ Len(blocks) > 0 /\ (\E n \in RemoteCounts(Len(blocks)) : vectors' = Vectors(1, n, RemoteModel))
        /\ model' = RemoteModel /\ EntersStage("dedup")
     \/ Len(blocks) > 0 /\ EntersStage("local") /\ UNCHANGED <<vectors, model>>
  /\ UNCHANGED <<blocks, sent, wanted, serving, redeployed>>

(* ComputeEmbeddings of the local service: one vector for each chunk, of    *)
(* its own model, which is also the one it reports; request.model_id is not *)
(* looked at.                                                               *)
Served == serving
Smaller(a, b) == IF a < b THEN a ELSE b

(* One request: the next batch, retried as above.                           *)
LocalBatch(reported) ==
  LET upto == Smaller(sent + EmbedBatch, Len(blocks))
  IN /\ stage = "local"
     /\ \/ /\ vectors' = vectors \o Vectors(sent + 1, upto, Served)
           /\ sent' = upto /\ model' = reported
           /\ IF upto = Len(blocks) THEN EntersStage("dedup") ELSE stage' = stage /\ tries' = 0
        \/ AttemptFails /\ UNCHANGED <<sent, vectors, model>>
     /\ UNCHANGED <<blocks, wanted, serving, redeployed>>

(* Mutant: what is reported is what was asked for.                          *)
callLocalReportsWanted == LocalBatch(wanted)

(* The first answer's model is the one reported.                            *)
callLocal == LocalBatch(IF model = "none" THEN Served ELSE model)

(* The service is started again with another model.                         *)
Redeploy(m) ==
  /\ stage \in {"embed", "local"} /\ m # serving /\ serving' = m
  /\ redeployed' = (redeployed \/ stage = "local")
  /\ UNCHANGED <<stage, tries, blocks, sent, vectors, model, wanted>>

Alike(i, j) == <<i, j>> \in Similar \/ <<j, i>> \in Similar

(* The positions the pass keeps, first to last: a block goes when it        *)
(* resembles one that was kept before it.                                   *)
Kept(s) == FoldLeft(LAMBDA kept, b : IF \E k \in kept : Alike(b, k) THEN kept ELSE kept \cup {b}, {}, s)

(* Store refuses a document whose vectors do not count up to its blocks;    *)
(* Apply returns its input when dedup is off.                               *)
ApplyDedup ==
  /\ stage = "dedup"
  /\ \/ Len(vectors) # Len(blocks) /\ EntersStage("failed") /\ UNCHANGED <<blocks, vectors>>
     \/ Len(vectors) = Len(blocks) /\ EntersStage("store") /\ UNCHANGED <<blocks, vectors>>
     \/ /\ Len(vectors) = Len(blocks) /\ Len(blocks) >= 2 /\ EntersStage("store")
        /\ LET kept == Kept(blocks)
           IN /\ blocks' = SelectSeq(blocks, LAMBDA b : b \in kept)
              /\ vectors' = SelectSeq(vectors, LAMBDA v : v.block \in kept)
  /\ UNCHANGED <<sent, model, wanted, serving, redeployed>>

WorkNext ==
  \/ FetchEvent \/ fetchHTTP \/ fetchS3 \/ HashContent \/ Parse
  \/ EmbedBlocksForSource \/ callLocal \/ (\E m \in LocalModels : Redeploy(m)) \/ ApplyDedup

-----------------------------------------------------------------------------
(* What reaches Stage 4: one vector for each block, in the blocks' order    *)
(* and of the model reported for the document, through batches, retries,    *)
(* a remote service that miscounts or fails, and the dedup pass, unless the *)
(* local service changes its model between two batches: nothing compares    *)
(* their models.  The model reported is the one that served, which need not *)
(* be the one asked for.                                                    *)
VectorsFitBlocks ==
  stage = "store" =>
    /\ Len(vectors) = Len(blocks)
    /\ \A i \in 1 .. Len(blocks) : vectors[i].block = blocks[i] /\ (vectors[i].model = model \/ redeployed)
=============================================================================
