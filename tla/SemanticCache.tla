---------------------------- MODULE SemanticCache ----------------------------
(***************************************************************************)
(* internal/storage/redis_cache.go: cached answers of one tenant, and the  *)
(* tag sets (one per chunk, one per source) that say which entries an      *)
(* invalidation must drop.  Every client is a sequence of Redis commands   *)
(* that interleave: Set is a pipeline, not a transaction.  Lifetimes are   *)
(* what is left of them; 0 means the key does not exist.                   *)
(***************************************************************************)
EXTENDS Naturals, FiniteSets

CONSTANTS CacheKeys,      \* canonical keys of queries
          ChunkTags,      \* members:<tenant>:<chunk> sets
          SourceTags,     \* cache-tag:source:<tenant>:<source> sets
          Handlers,       \* query handlers, which Set what they computed
          CacheRefreshers,     \* detached goroutines of GetOrRefresh
          Lifetimes,      \* what resolveTTL may answer
          MaxCacheFaults  \* commands that fail

CacheTags == ChunkTags \cup SourceTags
CacheWriters == Handlers \cup CacheRefreshers

VARIABLES
  entry,      \* key -> [tags, left]
  tagged,     \* tag -> [keys, left]
  cacheWriter,     \* locals of each Set: the key, its lifetime, the tags still to write
  sweep,      \* locals of the invalidation under way
  astray,     \* live keys that lost a tag to one of the races below
  cacheFaults

cacheVars == <<entry, tagged, cacheWriter, sweep, astray, cacheFaults>>

NoEntry == [tags |-> {}, left |-> 0]
NoTag == [keys |-> {}, left |-> 0]
NoCacheWrite == [pc |-> "idle", key |-> "none", todo |-> {}, ttl |-> 0]
NoSweep == [pc |-> "idle", todo |-> {}, tag |-> "none", keys |-> {}]

CacheInit ==
  /\ entry = [k \in CacheKeys |-> NoEntry] /\ tagged = [t \in CacheTags |-> NoTag]
  /\ cacheWriter = [w \in CacheWriters |-> NoCacheWrite] /\ sweep = NoSweep
  /\ astray = {} /\ cacheFaults = 0

(* The call's lifetime or the default, unless the tenant pins its own,      *)
(* which an administrator may change at any time.                           *)
resolveTTL == Lifetimes

CachedAnswers == {a \in SUBSET CacheTags : a \cap ChunkTags # {} /\ a \cap SourceTags # {}}

Computes(w, k) == cacheWriter' = [cacheWriter EXCEPT ![w] = [NoCacheWrite EXCEPT !.pc = "set", !.key = k]]

(* A miss: the handler computes an answer for the key and will Set it.      *)
GetEntry(w, k) ==
  /\ cacheWriter[w].pc = "idle" /\ entry[k] = NoEntry
  /\ Computes(w, k)
  /\ UNCHANGED <<entry, tagged, sweep, astray, cacheFaults>>

(* A stale hit or a miss starts the refresh, one at a time for each key: a  *)
(* later reader joins the call in flight.                                   *)
GetOrRefresh(w, k) ==
  /\ cacheWriter[w].pc = "idle" /\ \A r \in CacheRefreshers : cacheWriter[r].key # k
  /\ Computes(w, k)
  /\ UNCHANGED <<entry, tagged, sweep, astray, cacheFaults>>

(* The first command of the pipeline: the entry itself.  The tags of an     *)
(* entry it replaces keep the key.                                          *)
SetEntry(w, answer, ttl) ==
  /\ cacheWriter[w].pc = "set"
  /\ entry' = [entry EXCEPT ![cacheWriter[w].key] = [tags |-> answer, left |-> ttl]]
  /\ cacheWriter' = [cacheWriter EXCEPT ![w].pc = "tag", ![w].todo = answer, ![w].ttl = ttl]
  /\ astray' = astray \ {cacheWriter[w].key}
  /\ UNCHANGED <<tagged, sweep, cacheFaults>>

(* The pipeline writes the members of the chunks before the source tags.    *)
NextTag(w, t) ==
  /\ cacheWriter[w].pc = "tag" /\ t \in cacheWriter[w].todo
  /\ t \in SourceTags => cacheWriter[w].todo \cap ChunkTags = {}

(* Mutant: a set that exists keeps the expiry it has.                       *)
SetTagKeepsExpiry(w, t) ==
  /\ NextTag(w, t)
  /\ tagged' = [tagged EXCEPT ![t] = [keys |-> @.keys \cup {cacheWriter[w].key},
                                      left |-> IF @.left = 0 THEN cacheWriter[w].ttl ELSE @.left]]
  /\ cacheWriter' = [cacheWriter EXCEPT ![w].todo = @ \ {t}]
  /\ UNCHANGED <<entry, sweep, astray, cacheFaults>>

(* SADD and EXPIRE of one tag set.  The set's expiry is the last writer's:  *)
(* after a shorter lifetime it ends before older entries do.                *)
SetTag(w, t) ==
  LET keys == tagged[t].keys \cup {cacheWriter[w].key}
      ttl == cacheWriter[w].ttl
  IN /\ NextTag(w, t)
     /\ tagged' = [tagged EXCEPT ![t] = [keys |-> keys, left |-> ttl]]
     /\ cacheWriter' = [cacheWriter EXCEPT ![w].todo = @ \ {t}]
     /\ astray' = astray \cup {k \in keys : entry[k].left > ttl}
     /\ UNCHANGED <<entry, sweep, cacheFaults>>

SetReturns(w) ==
  /\ cacheWriter[w].pc = "tag" /\ cacheWriter[w].todo = {}
  /\ cacheWriter' = [cacheWriter EXCEPT ![w] = NoCacheWrite]
  /\ UNCHANGED <<entry, tagged, sweep, astray, cacheFaults>>

(* The pipeline breaks off: the entry may exist without its tags.           *)
SetFails(w) ==
  /\ cacheWriter[w].pc = "tag" /\ cacheWriter[w].todo # {} /\ cacheFaults < MaxCacheFaults
  /\ cacheWriter' = [cacheWriter EXCEPT ![w] = NoCacheWrite]
  /\ astray' = astray \cup {k \in {cacheWriter[w].key} : entry[k] # NoEntry}
  /\ cacheFaults' = cacheFaults + 1
  /\ UNCHANGED <<entry, tagged, sweep>>

SweepFrom(tags) ==
  /\ sweep.pc = "idle" /\ tags # {}
  /\ sweep' = [NoSweep EXCEPT !.pc = "read", !.todo = tags]
  /\ UNCHANGED <<entry, tagged, cacheWriter, astray, cacheFaults>>

Invalidate(chunks) == SweepFrom(chunks)
InvalidateBySources(sources) == SweepFrom(sources)

(* SMEMBERS of the next tag.                                                *)
ReadTag(t) ==
  /\ sweep.pc = "read" /\ t \in sweep.todo
  /\ sweep' = [sweep EXCEPT !.pc = "drop", !.tag = t, !.todo = @ \ {t}, !.keys = @ \cup tagged[t].keys]
  /\ UNCHANGED <<entry, tagged, cacheWriter, astray, cacheFaults>>

(* DEL of that tag.  A key added since the SMEMBERS goes with it.           *)
DropTag ==
  /\ sweep.pc = "drop"
  /\ tagged' = [tagged EXCEPT ![sweep.tag] = NoTag]
  /\ astray' = astray \cup {k \in tagged[sweep.tag].keys \ sweep.keys : entry[k] # NoEntry}
  /\ sweep' = [sweep EXCEPT !.pc = "read", !.tag = "none"]
  /\ UNCHANGED <<entry, cacheWriter, cacheFaults>>

(* One DEL of every entry collected.                                        *)
DropEntries ==
  /\ sweep.pc = "read" /\ sweep.todo = {}
  /\ entry' = [k \in CacheKeys |-> IF k \in sweep.keys THEN NoEntry ELSE entry[k]]
  /\ astray' = astray \ sweep.keys
  /\ sweep' = NoSweep
  /\ UNCHANGED <<tagged, cacheWriter, cacheFaults>>

(* A command of the invalidation fails: what it collected is forgotten, and *)
(* a second call finds the tags gone.                                       *)
SweepFails ==
  /\ sweep.pc # "idle" /\ cacheFaults < MaxCacheFaults
  /\ sweep' = NoSweep
  /\ astray' = astray \cup {k \in sweep.keys : entry[k] # NoEntry}
  /\ cacheFaults' = cacheFaults + 1
  /\ UNCHANGED <<entry, tagged, cacheWriter>>

(* Time passes in Redis.                                                    *)
Expire ==
  /\ entry' = [k \in CacheKeys |-> IF entry[k].left <= 1 THEN NoEntry ELSE [entry[k] EXCEPT !.left = @ - 1]]
  /\ tagged' = [t \in CacheTags |-> IF tagged[t].left <= 1 THEN NoTag ELSE [tagged[t] EXCEPT !.left = @ - 1]]
  /\ astray' = {k \in astray : entry[k].left > 1}
  /\ UNCHANGED <<cacheWriter, sweep, cacheFaults>>

CacheNext ==
  \/ \E w \in Handlers, k \in CacheKeys : GetEntry(w, k)
  \/ \E w \in CacheRefreshers, k \in CacheKeys : GetOrRefresh(w, k)
  \/ \E w \in CacheWriters :
       \/ \E a \in CachedAnswers, ttl \in resolveTTL : SetEntry(w, a, ttl)
       \/ \E t \in CacheTags : SetTag(w, t)
       \/ SetReturns(w) \/ SetFails(w)
  \/ \E ts \in SUBSET ChunkTags : Invalidate(ts)
  \/ \E ts \in SUBSET SourceTags : InvalidateBySources(ts)
  \/ \E t \in CacheTags : ReadTag(t)
  \/ DropTag \/ DropEntries \/ SweepFails \/ Expire

-----------------------------------------------------------------------------
(* A live entry can be invalidated through each of its chunks and sources:  *)
(* the tag names it and outlives it, or the Set that wrote it has the tag   *)
(* still to write, or an invalidation that holds the key is about to delete *)
(* it.  The entries of astray, which raced with an invalidation, a failed   *)
(* command or a shorter lifetime, are the only ones that Invalidate and     *)
(* InvalidateBySources can miss.                                            *)
EntryTracked ==
  \A k \in CacheKeys \ astray, t \in CacheTags : t \in entry[k].tags =>
    \/ k \in tagged[t].keys /\ tagged[t].left >= entry[k].left
    \/ \E w \in CacheWriters : cacheWriter[w].key = k /\ t \in cacheWriter[w].todo
    \/ k \in sweep.keys
=============================================================================
