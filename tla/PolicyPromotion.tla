-------------------------- MODULE PolicyPromotion --------------------------
(***************************************************************************)
(* Drafts of a policy, their promotion into the live tables or rejection,  *)
(* the rollback to an earlier version, and a resolver that reads the live  *)
(* tables in separate statements (internal/policy draft.go, promotion.go,  *)
(* live_store.go, live_resolver.go, version_history.go and the rollback of *)
(* internal/admin/policy_history_handler.go), for one tenant and a channel. *)
(*                                                                         *)
(* A transaction holds the row it upserts first and the draft row it       *)
(* selects for update until it commits; what it wrote is visible to others *)
(* from the commit on.                                                     *)
(***************************************************************************)
EXTENDS PolicyRules, Sequences, SequencesExt

CONSTANTS Admins,           \* administrators acting at once
          Proposals,        \* sets of drafts, each draft id -> [channel, snap] as submitted
          Standing,         \* the draft that is live at the start
          Spare             \* the id a rollback gives its draft

VARIABLES
  drafts,        \* draft id -> [status, channel, snap]
  live,          \* the live tables
  versions,      \* policy_versions, in commit order
  tx,            \* each administrator's request
  resolve        \* the locals of one Resolve of the channel

policyVars == <<drafts, live, versions, tx, resolve>>

DraftIds == UNION {DOMAIN p : p \in Proposals} \cup {Spare}
NoTx == [pc |-> "idle", draft |-> Spare]
NoRow == [mode |-> "", recipientDefault |-> "allow", denyLocal |-> FALSE]
NoLive == [rows |-> ("" :> NoRow @@ "channel" :> NoRow), acl |-> {}, recipients |-> {}]
NoResolve == [pc |-> "idle", calm |-> TRUE, tenantMode |-> "", row |-> NoRow, acl |-> {}, recipients |-> {}]

(* The rows of the scope are replaced; a tenant-wide row has no recipient   *)
(* default and no local-retrieval switch.                                   *)
replaceRules(rows, channel, rules) ==
  {r \in rows : r.channel # channel} \cup {[channel |-> channel, rule |-> r] : r \in rules}

upsertPolicy(rows, channel, snap) ==
  [rows EXCEPT ![channel] =
     [mode |-> snap.mode,
      recipientDefault |-> IF channel = "" \/ snap.defaultAllow THEN "allow" ELSE "deny",
      denyLocal |-> channel # "" /\ snap.denyLocal]]

ApplySnapshot(l, channel, snap) ==
  [rows |-> upsertPolicy(l.rows, channel, snap),
   acl |-> replaceRules(l.acl, channel, snap.acl),
   recipients |-> replaceRules(l.recipients, channel, snap.recipients)]

Submitted(proposals) ==
  LET p == proposals[Standing]
  IN /\ drafts = [d \in DraftIds |->
                    IF d = Spare THEN [status |-> "absent", channel |-> "", snap |-> p.snap]
                    ELSE [status |-> IF d = Standing THEN "promoted" ELSE "draft",
                          channel |-> proposals[d].channel, snap |-> proposals[d].snap]]
     /\ live = ApplySnapshot(NoLive, p.channel, p.snap)
     /\ versions = <<[draft |-> Standing, action |-> "promoted", channel |-> p.channel, snap |-> p.snap]>>
     /\ tx = [a \in Admins |-> NoTx]
     /\ resolve = NoResolve

PromotionInit == \E proposals \in Proposals : Submitted(proposals)

Held(a) == tx[a].draft
At(a, pc) == tx' = [tx EXCEPT ![a].pc = pc]
Ends(a) == tx' = [tx EXCEPT ![a] = NoTx]

(* PromoteDraft before its transaction: the draft as read, and its conflicts. *)
PromoteDraft(a, d) ==
  /\ tx[a].pc = "idle"
  /\ drafts[d].status = "draft"
  /\ ~DetectConflicts(drafts[d].snap)
  /\ tx' = [tx EXCEPT ![a] = [pc |-> "apply", draft |-> d]]
  /\ UNCHANGED <<drafts, live, versions, resolve>>

(* ApplySnapshot upserts the scope's row first, and so waits for any other  *)
(* transaction on the scope.  A statement that fails rolls back.            *)
ApplyRows(a) ==
  /\ tx[a].pc = "apply"
  /\ \A b \in Admins \ {a} : tx[b].pc \in {"mark", "log"} => drafts[Held(b)].channel # drafts[Held(a)].channel
  /\ At(a, "mark") \/ Ends(a)
  /\ UNCHANGED <<drafts, live, versions, resolve>>

DraftUnlocked(a, d) == \A b \in Admins \ {a} : ~(tx[b].pc \in {"log", "reject"} /\ Held(b) = d)

\* Mutant: the transition does not read the status again under its lock.
MarkPromotedUnchecked(a) ==
  /\ tx[a].pc = "mark" /\ DraftUnlocked(a, Held(a))
  /\ At(a, "log")
  /\ UNCHANGED <<drafts, live, versions, resolve>>

(* transition: the draft row is locked and must still be a draft, or the    *)
(* transaction is rolled back.                                              *)
MarkPromoted(a) ==
  /\ tx[a].pc = "mark" /\ DraftUnlocked(a, Held(a))
  /\ IF drafts[Held(a)].status = "draft" THEN At(a, "log") ELSE Ends(a)
  /\ UNCHANGED <<drafts, live, versions, resolve>>

Record(a, action) ==
  versions' = Append(versions, [draft |-> Held(a), action |-> action, channel |-> drafts[Held(a)].channel,
                                snap |-> drafts[Held(a)].snap])

(* The audit row, the version row and the commit, or a rollback.            *)
CommitPromotion(a) ==
  /\ tx[a].pc = "log"
  /\ \/ /\ drafts' = [drafts EXCEPT ![Held(a)].status = "promoted"]
        /\ live' = ApplySnapshot(live, drafts[Held(a)].channel, drafts[Held(a)].snap)
        /\ Record(a, "promoted")
        /\ resolve' = IF resolve.pc \in {"idle", "done"} THEN NoResolve ELSE [resolve EXCEPT !.calm = FALSE]
     \/ UNCHANGED <<drafts, live, versions, resolve>>
  /\ Ends(a)

(* RejectDraft: MarkRejected under the same lock.                           *)
RejectDraft(a, d) ==
  /\ tx[a].pc = "idle" /\ DraftUnlocked(a, d)
  /\ drafts[d].status = "draft"
  /\ tx' = [tx EXCEPT ![a] = [pc |-> "reject", draft |-> d]]
  /\ UNCHANGED <<drafts, live, versions, resolve>>

CommitRejection(a) ==
  /\ tx[a].pc = "reject"
  /\ \/ /\ drafts' = [drafts EXCEPT ![Held(a)].status = "rejected"]
        /\ Record(a, "rejected")
     \/ UNCHANGED <<drafts, versions>>
  /\ Ends(a)
  /\ UNCHANGED <<live, resolve>>

(* rollback: a draft with the snapshot of any version, rejected ones        *)
(* included, promoted like every other.                                     *)
Rollback(a, i) ==
  /\ tx[a].pc = "idle" /\ drafts[Spare].status = "absent"
  /\ drafts' = [drafts EXCEPT ![Spare] = [status |-> "draft", channel |-> versions[i].channel, snap |-> versions[i].snap]]
  /\ tx' = [tx EXCEPT ![a] = IF DetectConflicts(versions[i].snap) THEN NoTx ELSE [pc |-> "apply", draft |-> Spare]]
  /\ UNCHANGED <<live, versions, resolve>>

-----------------------------------------------------------------------------
(* Resolve(tenant, channel): four reads without a transaction.  The next    *)
(* promotion discards an answer, and an answer that a promotion overtook is *)
(* discarded at once: nothing is said of it.                                *)

loadTenantMode ==
  /\ resolve.pc = "idle"
  /\ resolve' = [NoResolve EXCEPT !.pc = "tenant", !.tenantMode = live.rows[""].mode]
  /\ UNCHANGED <<drafts, live, versions, tx>>

loadChannelMode ==
  /\ resolve.pc = "tenant"
  /\ resolve' = [resolve EXCEPT !.pc = "channel", !.row = live.rows["channel"]]
  /\ UNCHANGED <<drafts, live, versions, tx>>

\* Mutant: the rules of the channel alone.
loadChannelRulesOnly ==
  /\ resolve.pc = "channel"
  /\ resolve' = [resolve EXCEPT !.pc = "acl", !.acl = {r.rule : r \in {x \in live.acl : x.channel = "channel"}}]
  /\ UNCHANGED <<drafts, live, versions, tx>>

(* The tenant-wide rules and the channel's.                                 *)
loadACLRules ==
  /\ resolve.pc = "channel"
  /\ resolve' = [resolve EXCEPT !.pc = "acl", !.acl = {r.rule : r \in live.acl}]
  /\ UNCHANGED <<drafts, live, versions, tx>>

loadRecipientRules ==
  /\ resolve.pc = "acl"
  /\ resolve' = IF resolve.calm THEN [resolve EXCEPT !.pc = "done", !.recipients = {r.rule : r \in live.recipients}]
                                ELSE NoResolve
  /\ UNCHANGED <<drafts, live, versions, tx>>

(* A row whose mode is empty does not count as a channel policy.            *)
hasChannelPolicy == resolve.row.mode # ""

resolveEffectiveMode ==
  IF resolve.tenantMode # "" /\ hasChannelPolicy THEN EffectiveMode(resolve.tenantMode, resolve.row.mode)
  ELSE IF resolve.tenantMode # "" THEN resolve.tenantMode ELSE resolve.row.mode

ResolvedRecipient ==
  LET defaultAllow == ~hasChannelPolicy \/ resolve.row.recipientDefault # "deny"
  IN [installed |-> resolve.recipients # {} \/ ~defaultAllow, rules |-> resolve.recipients,
      defaultAllow |-> defaultAllow]

PromotionNext ==
  \/ \E a \in Admins :
       \/ \E d \in DraftIds : PromoteDraft(a, d) \/ RejectDraft(a, d)
       \/ ApplyRows(a) \/ MarkPromoted(a) \/ CommitPromotion(a) \/ CommitRejection(a)
       \/ \E i \in DOMAIN versions : Rollback(a, i)
  \/ loadTenantMode \/ loadChannelMode \/ loadACLRules \/ loadRecipientRules

-----------------------------------------------------------------------------
(* Whatever promotions, rejections and rollbacks overlap or fail, a draft   *)
(* is decided once, and the live tables are what the promoted versions give *)
(* when they are applied in the order of the version history: a rejected    *)
(* draft or a half-applied one never shows.                                 *)
LiveIsHistory ==
  /\ LET Promoted == SelectSeq(versions, LAMBDA v : v.action = "promoted")
     IN live = FoldLeft(LAMBDA l, v : ApplySnapshot(l, v.channel, v.snap), NoLive, Promoted)
  /\ \A i, j \in DOMAIN versions : versions[i].draft = versions[j].draft => i = j
  /\ \A d \in DraftIds : drafts[d].status \in {"promoted", "rejected"}
                         <=> \E i \in DOMAIN versions : versions[i] = [draft |-> d, action |-> drafts[d].status,
                               channel |-> drafts[d].channel, snap |-> drafts[d].snap]

Nothing == [mode |-> "", acl |-> {}, recipients |-> {}, defaultAllow |-> TRUE, denyLocal |-> FALSE]

LastPromoted(channel) ==
  LET is == {i \in DOMAIN versions : versions[i].action = "promoted" /\ versions[i].channel = channel}
  IN IF is = {} THEN Nothing ELSE versions[CHOOSE i \in is : \A j \in is : j <= i].snap

Snaps == UNION {{p[d].snap : d \in DOMAIN p} : p \in Proposals}
Sources == {r.source : r \in UNION {s.acl : s \in Snaps}}
Skills == {r.skill : r \in UNION {s.recipients : s \in Snaps}} \cup {"other"}

(* A resolution during which nothing is promoted decides as the promoted    *)
(* drafts say: no mode more permissive than the tenant's or the channel's,  *)
(* every source either of them denies denied, and a skill allowed only when *)
(* neither denies it and, with the channel denying by default, one allows   *)
(* it.  A channel draft that names no mode, which nothing refuses, keeps    *)
(* its rules, but its recipient default and its local-retrieval switch are  *)
(* not read back.                                                           *)
ResolvedAsPromoted ==
  LET t == LastPromoted("")
      c == LastPromoted("channel")
      given == {m \in {t.mode, c.mode} : m # ""}
      defaultAllow == c.mode = "" \/ c.defaultAllow
      At0(s) == [source |-> s, namespace |-> "", path |-> ""]
      Allows(k) == IsAllowed([installed |-> TRUE, rules |-> t.recipients \cup c.recipients, defaultAllow |-> defaultAllow], k)
  IN (resolve.pc = "done" /\ resolve.calm)
       => /\ \A m \in given : rankOf(resolveEffectiveMode) <= rankOf(m)
          /\ resolveEffectiveMode \in given \cup (IF given = {} THEN {""} ELSE {})
          /\ \A s \in Sources : Evaluate(resolve.acl, At0(s)) = (Evaluate(t.acl, At0(s)) /\ Evaluate(c.acl, At0(s)))
          /\ \A k \in Skills : IsAllowed(ResolvedRecipient, k) = Allows(k)
=============================================================================
