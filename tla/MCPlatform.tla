----------------------------- MODULE MCPlatform -----------------------------
(***************************************************************************)
(* The machines of the platform around the pipeline.  They share no state, *)
(* so a behaviour runs one of them and the others stay as they began: the  *)
(* state spaces add up and do not multiply.                                *)
(***************************************************************************)
EXTENDS Shards, GrpcPool, PolicyPromotion, Retrieval, SemanticCache, SourceLifecycle,
        TenantForget, AuditIntegrity, Schedules, ExportJobs,
        ApiKeys, RateLimiter, AutoPause, GraphStage, StageWork, BackfillCompletion

VARIABLE machine

vars == <<machine, shardVars, poolVars, policyVars, retrievalVars, cacheVars, sourceVars,
          tenantVars, integrityVars, scheduleVars, exportVars,
          keyVars, rateVars, pauseVars, graphVars, workVars, completionVars>>

-----------------------------------------------------------------------------
(* Policies: one for the tenant and two for the channel, of which one may   *)
(* name no mode, and what the resolver may return while a search runs.      *)
Rule(s, a) == [source |-> s, namespace |-> "", glob |-> {}, action |-> a]
Skill(k, a) == [skill |-> k, action |-> a]
Snap(mode, acl, recipients, defaultAllow, denyLocal) ==
  [mode |-> mode, acl |-> acl, recipients |-> recipients, defaultAllow |-> defaultAllow, denyLocal |-> denyLocal]
MCProposals ==
  {[d1 |-> [channel |-> "", snap |-> Snap("hybrid", {Rule("s1", "deny")}, {Skill("k1", "allow")}, TRUE, FALSE)],
    d2 |-> [channel |-> "channel",
            snap |-> Snap("local-only", {Rule("s1", "allow"), Rule("s2", "deny")}, {}, FALSE, TRUE)],
    d3 |-> [channel |-> "channel", snap |-> last]] :
      last \in {Snap("remote", {}, {Skill("k1", "deny")}, TRUE, FALSE), Snap("", {Rule("s2", "deny")}, {}, FALSE, TRUE)}}

AnySkill == [installed |-> FALSE, defaultAllow |-> TRUE, rules |-> {}]
Resolved(mode, acl, chunkACL, recipient, denyLocal) ==
  [mode |-> mode, acl |-> acl, chunkACL |-> chunkACL, recipient |-> recipient, denyLocal |-> denyLocal]
MCSnapshots ==
  {Resolved("", {}, {}, AnySkill, FALSE),
   Resolved("", {Rule("s1", "deny")}, {}, AnySkill, TRUE),
   Resolved("hybrid", {Rule("s3", "deny")}, {[chunk |-> "", tags |-> {"t"}, action |-> "deny"]},
            [installed |-> TRUE, defaultAllow |-> FALSE, rules |-> {Skill("k1", "allow")}], FALSE)}
MCDrafts ==
  {Resolved("", {Rule("s1", "deny")}, {[chunk |-> "a", tags |-> {}, action |-> "deny"]}, AnySkill, FALSE),
   Resolved("", {}, {}, AnySkill, FALSE)}

(* Three chunks, and backends that return different parts of them.          *)
Chunk(s, l, t) == [source |-> s, namespace |-> "n", path |-> s, label |-> l, tags |-> t]
MCCorpus == [a |-> Chunk("s1", "internal", {"t"}), b |-> Chunk("s2", "public", {}), d |-> Chunk("s2", "secret", {"t"})]
Backend(finds, carries, filtered) == [finds |-> finds, carries |-> carries, filtered |-> filtered]
MCBackends == [vector |-> Backend({"a", "b", "d"}, {"payload", "path", "label"}, TRUE),
               bm25 |-> Backend({"a"}, {}, FALSE),
               graph |-> Backend({"d"}, {"path", "label"}, FALSE)]
Ask(v, k, sources) == [via |-> v, skill |-> k, privacy |-> "internal", sources |-> sources, tier |-> "high"]
MCAsks == {Ask(v, "", {}) : v \in {"retrieve", "batch", "warm"}} \cup {Ask("simulator", "k1", {"s2"})}
MCPins == <<[chunk |-> "a", position |-> 3], [chunk |-> "d", position |-> 1]>>

(* A calendar of two-hour days, two-day months and three-day weeks.         *)
Cron(mi, h, d, mo, w, hd, hw) ==
  [minutes |-> mi, hours |-> h, doms |-> d, months |-> mo, dows |-> w, hasDOM |-> hd, hasDOW |-> hw, every |-> 0]
MCExpressions ==
  [hourly  |-> Cron({1}, {0, 1}, {1, 2}, {1, 2}, {0, 1, 2}, FALSE, FALSE),
   monthly |-> Cron({0}, {1}, {1}, {2}, {0, 1, 2}, TRUE, FALSE),
   weekly  |-> Cron({0}, {0}, {1, 2}, {1, 2}, {1}, FALSE, TRUE),
   either  |-> Cron({1}, {1}, {2}, {1}, {0}, TRUE, TRUE),
   never   |-> Cron({0}, {0}, {3}, {1}, {0, 1, 2}, TRUE, FALSE),
   every   |-> [Cron({}, {}, {}, {}, {}, FALSE, FALSE) EXCEPT !.every = 3]]

MCSkew == [p1 |-> 0, p2 |-> 1]
MCExtractions ==
  LET answer(nodes, relations) == [nodes |-> nodes, relations |-> relations]
  IN {answer({"e2"}, {}), answer({"e1"}, {<<"e1", "e2">>}), answer({"e1", "e2"}, {<<"e1", "e2">>})}
MCSimilar == {<<1, 3>>, <<3, 4>>}

-----------------------------------------------------------------------------
Machines == {"shards", "pool", "policy", "retrieval", "cache", "source", "tenant", "integrity",
             "schedule", "export", "keys", "rate", "pause", "graph", "work", "completion"}

Init ==
  /\ machine \in Machines
  /\ IF machine = "policy" THEN PromotionInit ELSE Submitted(CHOOSE p \in Proposals : TRUE)
  /\ ShardsInit /\ PoolInit /\ RetrievalInit /\ CacheInit /\ SourceInit
  /\ IF machine = "tenant" THEN TenantInit ELSE Configured(0, 0)
  /\ IntegrityInit /\ ScheduleInit /\ ExportInit
  /\ KeysInit /\ RateLimiterInit /\ PauseInit /\ GraphInit /\ WorkInit /\ CompletionInit
  /\ machine = "work" \/ (wanted = "any" /\ serving = CHOOSE l \in LocalModels : TRUE)

Keep(m, v) == IF machine = m THEN TRUE ELSE UNCHANGED v

KeepOthers ==
  /\ Keep("shards", shardVars) /\ Keep("pool", poolVars) /\ Keep("policy", policyVars)
  /\ Keep("retrieval", retrievalVars) /\ Keep("cache", cacheVars) /\ Keep("source", sourceVars)
  /\ Keep("tenant", tenantVars) /\ Keep("integrity", integrityVars)
  /\ Keep("schedule", scheduleVars) /\ Keep("export", exportVars)
  /\ Keep("keys", keyVars) /\ Keep("rate", rateVars) /\ Keep("pause", pauseVars)
  /\ Keep("graph", graphVars) /\ Keep("work", workVars) /\ Keep("completion", completionVars)

Step(m, action) == machine = m /\ action /\ UNCHANGED machine /\ KeepOthers

Next ==
  \/ Step("shards", ShardsNext)
  \/ Step("pool", PoolNext)
  \/ Step("policy", PromotionNext)
  \/ Step("retrieval", RetrievalNext)
  \/ Step("cache", CacheNext)
  \/ Step("source", SourceNext)
  \/ Step("tenant", TenantNext)
  \/ Step("integrity", IntegrityNext)
  \/ Step("schedule", ScheduleNext)
  \/ Step("export", ExportNext)
  \/ Step("keys", KeysNext)
  \/ Step("rate", RateLimiterNext)
  \/ Step("pause", PauseNext)
  \/ Step("graph", GraphNext)
  \/ Step("work", WorkNext)
  \/ Step("completion", CompletionNext)

Spec == Init /\ [][Next]_vars
=============================================================================
