------------------------------ MODULE Retrieval ------------------------------
(***************************************************************************)
(* internal/retrieval: requests for one query that run side by side,       *)
(* share the semantic cache and are filtered by the policy each of them    *)
(* resolved, while administrators change that policy, backends fail or run *)
(* out of time, and cache writes land late.  A request names its skill and *)
(* the entry point it came through: the retrieve endpoint, a batch, the    *)
(* cache warmer, or the policy simulator, which supplies the snapshot and  *)
(* leaves the cache alone.                                                 *)
(*                                                                         *)
(* Scores are left out: the rerankers and the diversifier return what they *)
(* were given in some order, so every order is tried.  A match is a chunk  *)
(* and the groups of attributes some backend returned with it: "payload"   *)
(* (source, namespace and tags), "path" and "label".                       *)
(***************************************************************************)
EXTENDS PolicyRules, Sequences, SequencesExt, TLC

CONSTANTS Clients,     \* requests in flight
          Corpus,      \* chunk -> its source, namespace, path, label and tags
          Backends,    \* backend -> what it finds and what it returns with it
          Asks,        \* the requests
          Snapshots,   \* policies that may be in force
          Drafts,      \* policies the simulator asks about
          Pins,        \* the pins of the query
          TopK,        \* top_k of every request
          ShardReady,  \* version of the device shard, 0 without one
          MaxWrites    \* cache writes that are late at a time

VARIABLES
  policyNow,  \* the snapshot the resolver returns
  results,    \* cache key -> the hits stored under it
  writes,     \* cache writes that have not landed
  client      \* the locals and the answer of each request

retrievalVars == <<policyNow, results, writes, client>>

privacyOrder == <<"public", "internal", "confidential", "restricted", "secret">>
NoAsk == [via |-> "", skill |-> "", privacy |-> "", sources |-> {}, tier |-> ""]
NoSnapshot == [mode |-> "", acl |-> {}, chunkACL |-> {}, denyLocal |-> FALSE,
               recipient |-> [installed |-> FALSE, defaultAllow |-> TRUE, rules |-> {}]]
NoRequest == [pc |-> "idle", ask |-> NoAsk, snap |-> NoSnapshot, hits |-> <<>>, local |-> FALSE, cacheHit |-> FALSE]

(* resolveTopKAndPrivacy: the snapshot's mode replaces the request's.       *)
resolvePrivacy(ask, snap) == IF snap.mode # "" THEN snap.mode ELSE ask.privacy

scopeHashFor(ask, snap) == <<ask.sources, ask.skill, resolvePrivacy(ask, snap)>>
Keys == {scopeHashFor(a, s) : a \in {b \in Asks : b.via # "simulator"}, s \in Snapshots}

RetrievalInit ==
  /\ policyNow = CHOOSE s \in Snapshots : s.acl = {}
  /\ results = [k \in Keys |-> <<>>] /\ writes = {}
  /\ client = [c \in Clients |-> NoRequest]

-----------------------------------------------------------------------------
(* The fields a match has not got yet come from the next stream with it.    *)
fillMissing(fields, b) == fields \cup Backends[b].carries

(* One match for a chunk, filled from every stream that returns it; a       *)
(* stream that failed or ran out of time is left out.                       *)
Merge(found) ==
  LET Streams(c) == {b \in DOMAIN found : c \in found[b]}
  IN {[id |-> c, fields |-> FoldSet(LAMBDA b, f : fillMissing(f, b), {}, Streams(c))] :
        c \in UNION Range(found)}

(* The first place of an id is kept.                                        *)
Dedup(hits) ==
  FoldLeft(LAMBDA out, m : IF \E o \in Range(out) : o.id = m.id THEN out ELSE Append(out, m), <<>>, hits)

(* buildFilter restricts the vector search to the sources asked for; the    *)
(* other backends are not told.                                             *)
Search(b, ask) == {c \in Backends[b].finds : Backends[b].filtered /\ ask.sources # {}
                                               => Corpus[c].source \in ask.sources}

fanOut(ask, up) == [b \in up |-> Search(b, ask)]

(* A label the order does not know ranks above all of them, and so does a   *)
(* mode it does not know, which therefore admits everything.                *)
idxOf(label) == IF \E i \in 1 .. 5 : privacyOrder[i] = label
                THEN CHOOSE i \in 1 .. 5 : privacyOrder[i] = label ELSE 7

LabelAllowed(m, mode) ==
  idxOf(IF "label" \in m.fields THEN Corpus[m.id].label ELSE "public")
    <= idxOf(IF mode = "" THEN "public" ELSE mode)

Apply(hits, mode) == SelectSeq(hits, LAMBDA m : LabelAllowed(m, mode))

chunkTags(m) == IF "payload" \in m.fields THEN Corpus[m.id].tags ELSE {}

matchAttrs(m) == [source |-> IF "payload" \in m.fields THEN Corpus[m.id].source ELSE "",
                  namespace |-> IF "payload" \in m.fields THEN Corpus[m.id].namespace ELSE "",
                  path |-> IF "path" \in m.fields THEN Corpus[m.id].path ELSE ""]

applyPolicySnapshot(hits, snap, skill) ==
  IF ~IsAllowed(snap.recipient, skill) THEN <<>>
  ELSE SelectSeq(hits, LAMBDA m : /\ Evaluate(snap.acl, matchAttrs(m))
                                  /\ EvaluateChunk(snap.chunkACL, m.id, chunkTags(m)))

Truncate(hits) == SubSeq(hits, 1, Min({Len(hits), TopK}))

-----------------------------------------------------------------------------
(* A hit that is pinned to another slot than i.                             *)
pinnedElsewhere(h, i, pins) == \E p \in Range(pins) : p.chunk = h.id /\ p.position # i

(* Slot i takes the pin of position i, otherwise the next hit that is not   *)
(* pinned to another slot; a slot with neither is skipped.                  *)
ApplyPins(hits, pins) ==
  LET pinned == SortSeq(pins, LAMBDA a, b : a.position < b.position)
      slots == Max({pinned[Len(pins)].position + 1, Len(hits) + Len(pins)})
      Hit(c) == IF \E h \in Range(hits) : h.id = c THEN CHOOSE h \in Range(hits) : h.id = c
                ELSE [id |-> c, fields |-> {}]
      fill[i \in 0 .. slots, p \in 1 .. Len(pins) + 1, s \in 1 .. Len(hits) + 1] ==
        LET free == {t \in s .. Len(hits) : ~pinnedElsewhere(hits[t], i, pins)}
        IN IF i = slots THEN <<>>
           ELSE IF p <= Len(pins) /\ pinned[p].position = i
                THEN <<Hit(pinned[p].chunk)>> \o fill[i + 1, p + 1, s]
           ELSE IF free = {} THEN fill[i + 1, p, Len(hits) + 1]
           ELSE <<hits[Min(free)]>> \o fill[i + 1, p, Min(free) + 1]
  IN IF pins = <<>> THEN hits ELSE fill[0, 1, 1]

-----------------------------------------------------------------------------
(* LatestShardVersion may fail, and the hint is then withheld.              *)
applyDeviceFirst(ask, snap) ==
  {Decide(ask.tier, ~snap.denyLocal, resolvePrivacy(ask, snap), v) : v \in {0, ShardReady}}

(* The answer of a request; the hint stays as it was for the simulator.     *)
Answers(c, hits, hit) ==
  \E hint \in IF client[c].ask.via = "simulator" THEN {FALSE}
              ELSE applyDeviceFirst(client[c].ask, client[c].snap) :
    client' = [client EXCEPT ![c] = [@ EXCEPT !.pc = "answered", !.hits = hits, !.local = hint, !.cacheHit = hit]]

Starts(c, ask, snap, pc) ==
  /\ client[c].pc \in {"idle", "answered"}
  /\ client' = [client EXCEPT ![c] = [pc |-> pc, ask |-> ask, snap |-> snap, hits |-> <<>>, local |-> FALSE, cacheHit |-> FALSE]]
  /\ UNCHANGED <<policyNow, results, writes>>

(* The entry points.  Without a snapshot the request ends in an error and   *)
(* serves nothing.  The sub-requests of a batch run side by side, the       *)
(* warmer's one after the other.                                            *)
Resolve(c, ask) == ask.via = "retrieve" /\ Starts(c, ask, policyNow, "resolved")

runOne(c, ask) == ask.via = "batch" /\ Starts(c, ask, policyNow, "resolved")

Warm(c, ask) ==
  /\ ask.via = "warm" /\ ask.skill = "" /\ ask.sources = {}
  /\ \A d \in Clients : client[d].ask.via = "warm" => client[d].pc \in {"idle", "answered"}
  /\ Starts(c, ask, policyNow, "resolved")

RetrieveWithSnapshot(c, ask, snap) == ask.via = "simulator" /\ Starts(c, ask, snap, "search")

(* Mutant: the privacy label is checked again, the snapshot is not.         *)
filterCachedByLabel(hits, ask, snap) == Truncate(Apply(hits, resolvePrivacy(ask, snap)))

(* filterCachedByPrivacyMode and filterCachedBySnapshot: what the cache     *)
(* holds was filtered for the request that stored it.                       *)
filterCached(hits, ask, snap) ==
  Truncate(applyPolicySnapshot(Apply(hits, resolvePrivacy(ask, snap)), snap, ask.skill))

(* An entry is read as a miss when Redis fails.                             *)
CacheGet(c) ==
  LET entry == results[scopeHashFor(client[c].ask, client[c].snap)]
  IN /\ client[c].pc = "resolved"
     /\ \/ entry # <<>> /\ Answers(c, filterCached(entry, client[c].ask, client[c].snap), TRUE)
        \/ client' = [client EXCEPT ![c].pc = "search"]
     /\ UNCHANGED <<policyNow, results, writes>>

(* The hits of one run of the pipeline, in the order the reranker chose.    *)
Pipeline(ask, snap, reranked) ==
  LET hits == Truncate(applyPolicySnapshot(Apply(Dedup(reranked), resolvePrivacy(ask, snap)), snap, ask.skill))
  IN IF ask.via = "retrieve" THEN Truncate(ApplyPins(hits, Pins)) ELSE hits

(* A non-empty answer is handed to the cache, also when a backend failed.   *)
FanOut(c, up) ==
  LET ask == client[c].ask
      snap == client[c].snap
  IN /\ client[c].pc = "search" /\ Cardinality(writes) < MaxWrites
     /\ \E reranked \in SetToSeqs(Merge(fanOut(ask, up))) :
          LET hits == Pipeline(ask, snap, reranked)
          IN /\ Answers(c, hits, FALSE)
             /\ writes' = writes \cup IF ask.via = "simulator" \/ hits = <<>> THEN {}
                                      ELSE {[key |-> scopeHashFor(ask, snap), hits |-> hits]}
     /\ UNCHANGED <<policyNow, results>>

(* writeCacheOnMiss: before the answer or, in the background, after it; an  *)
(* error of Set is dropped.                                                 *)
CacheSet(w) ==
  /\ writes' = writes \ {w}
  /\ results' \in {[results EXCEPT ![w.key] = w.hits], results}
  /\ UNCHANGED <<policyNow, client>>

CacheExpires(k) ==
  /\ results[k] # <<>> /\ results' = [results EXCEPT ![k] = <<>>]
  /\ UNCHANGED <<policyNow, writes, client>>

(* A draft is promoted.                                                     *)
PolicyChanges(s) ==
  /\ policyNow' = s
  /\ UNCHANGED <<results, writes, client>>

RetrievalNext ==
  \/ \E c \in Clients :
       \/ \E a \in Asks : Resolve(c, a) \/ runOne(c, a) \/ Warm(c, a) \/ \E s \in Drafts : RetrieveWithSnapshot(c, a, s)
       \/ CacheGet(c)
       \/ \E up \in SUBSET DOMAIN Backends : FanOut(c, up)
  \/ \E w \in writes : CacheSet(w)
  \/ \E k \in Keys : CacheExpires(k)
  \/ \E s \in Snapshots : PolicyChanges(s)

-----------------------------------------------------------------------------
(* Whatever path an answer took (fresh, degraded, cached by a request that  *)
(* ran under another policy), the policy its request resolved admits every  *)
(* hit of it: the recipient rule, the chunk rules that name the hit and,    *)
(* when the vector backend described it, the source rules, the tag rules    *)
(* and the label.  A chunk pinned to the query is exempt from the rules on  *)
(* its id: a pin that no backend returned is added after the filters.       *)
ServedObeysPolicy ==
  \A c \in Clients : client[c].pc = "answered" =>
    LET snap == client[c].snap
        ask == client[c].ask
    IN \A i \in 1 .. Len(client[c].hits) :
         LET h == client[c].hits[i]
             known == Corpus[h.id]
         IN /\ \/ \E p \in Range(Pins) : p.chunk = h.id /\ h.fields = {}
               \/ /\ IsAllowed(snap.recipient, ask.skill)
                  /\ EvaluateChunk(snap.chunkACL, h.id, {})
            /\ "payload" \in h.fields =>
                 /\ Evaluate(snap.acl, [source |-> known.source, namespace |-> known.namespace, path |-> known.path])
                 /\ EvaluateChunk(snap.chunkACL, h.id, known.tags)
                 /\ idxOf(known.label) <= idxOf(resolvePrivacy(ask, snap))
=============================================================================
