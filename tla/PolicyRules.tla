---------------------------- MODULE PolicyRules ----------------------------
(***************************************************************************)
(* The pure decisions of internal/policy: privacy modes, allow and deny    *)
(* rules, recipients, chunk tags, conflicts of a draft and the device-first *)
(* hint.  A rule's glob is the set of paths it matches and a tag prefix    *)
(* the set of tags it starts; "" is the field left empty.                  *)
(***************************************************************************)
EXTENDS Integers, FiniteSets

orderedModes == <<"no-ai", "local-only", "local-api", "hybrid", "remote">>

rankOf(m) == IF \E i \in 1 .. 5 : orderedModes[i] = m
             THEN (CHOOSE i \in 1 .. 5 : orderedModes[i] = m) - 1 ELSE -1

(* The stricter of the two, and no-ai when either is unknown.               *)
EffectiveMode(tenantMode, channelMode) ==
  IF rankOf(tenantMode) < 0 \/ rankOf(channelMode) < 0 THEN "no-ai"
  ELSE IF rankOf(tenantMode) <= rankOf(channelMode) THEN tenantMode ELSE channelMode

-----------------------------------------------------------------------------
(* Rules on sources, namespaces and paths.                                  *)

globMatch(glob, path) == glob = {} \/ path \in glob

ruleMatches(r, attrs) ==
  /\ r.source \in {"", attrs.source}
  /\ r.namespace \in {"", attrs.namespace}
  /\ globMatch(r.glob, attrs.path)

(* Deny over allow, and what no rule matches is allowed.                    *)
Evaluate(rules, attrs) == ~ \E r \in rules : ruleMatches(r, attrs) /\ r.action = "deny"

chunkRuleMatches(r, chunk, tags) == r.chunk = chunk \/ r.tags \cap tags # {}

EvaluateChunk(rules, chunk, tags) ==
  ~ \E r \in rules : chunkRuleMatches(r, chunk, tags) /\ r.action = "deny"

(* A recipient policy that is not installed allows every skill.             *)
IsAllowed(recipient, skill) ==
  LET matching == {r \in recipient.rules : r.skill \in {"", skill}}
  IN recipient.installed
       => /\ \A r \in matching : r.action # "deny"
          /\ recipient.defaultAllow \/ \E r \in matching : r.action = "allow"

-----------------------------------------------------------------------------
(* The conflicts of a draft that stop its promotion: the ones of severity   *)
(* error.                                                                   *)

identicalScope(a, b) == a.source = b.source /\ a.namespace = b.namespace /\ a.glob = b.glob

aclScopesOverlap(a, b) ==
  /\ a.source = "" \/ b.source = "" \/ a.source = b.source
  /\ a.namespace = "" \/ b.namespace = "" \/ a.namespace = b.namespace

detectACLConflicts(rules) ==
  \E a, b \in rules : aclScopesOverlap(a, b) /\ identicalScope(a, b) /\ a.action # b.action

detectRecipientConflicts(rules) ==
  /\ \E d \in rules : d.skill = "" /\ d.action = "deny"
  /\ \E a \in rules : a.skill # "" /\ a.action = "allow"

DetectConflicts(snap) == detectACLConflicts(snap.acl) \/ detectRecipientConflicts(snap.recipients)

-----------------------------------------------------------------------------
(* The device-first hint.                                                   *)

permitsLocalRetrieval(mode) == rankOf(mode) > 0

Decide(tier, allowLocal, mode, shardVersion) ==
  /\ tier \in {"mid", "high"} /\ allowLocal
  /\ permitsLocalRetrieval(mode) /\ shardVersion > 0
=============================================================================
