--------------------------- MODULE SourceLifecycle ---------------------------
(***************************************************************************)
(* internal/admin: one source from the connect request to its removal.     *)
(* Three parties write its row: the admin API (status), the token refresh  *)
(* worker and the credential rotation endpoint (both read the whole config *)
(* and write it back), and the forget worker, which sweeps the stores      *)
(* under a Redis lease and then marks the row removed.                     *)
(***************************************************************************)
EXTENDS Naturals, FiniteSets

CONSTANTS Refreshers,    \* processes running TokenRefreshWorker.Tick
          Rotators,      \* rotation requests in flight
          ForgetWorkers, \* processes running ForgetWorker.Run
          Tiers,         \* number of sweepers, run in order
          MaxGrants,     \* credentials an operator hands over
          MaxRefreshes   \* refresh tokens the provider issues

ASSUME TiersAssumption == Tiers \in Nat
\* Redis holds a run's own token, or none.
ASSUME LeaseAssumption == "free" \notin ForgetWorkers

VARIABLES
  srcStatus,  \* none, active, paused, removing or removed
  srcConfig,  \* the credentials of the config column
  issued,     \* grant -> the generation of refresh token the provider accepts
  acked,      \* the last grant a request stored and was answered for, 0 without one
  writer,     \* locals of each read-modify-write of the config
  lost,       \* since the last rotation a refresh wrote over a newer config, or
              \* did not store a new token
  swept,      \* sweepers that have run
  forget,     \* locals of each ForgetWorker.Run
  srcLease    \* the token in Redis, the run's own, or "free"

sourceVars == <<srcStatus, srcConfig, issued, acked, writer, lost, swept, forget, srcLease>>

Writers == Refreshers \cup Rotators
(* credentials as the config holds them: absent, an object as the config of *)
(* the connect request brought it, or the base64 string a []byte becomes.   *)
Credential(grant, generation, form, expiring) ==
  [grant |-> grant, generation |-> generation, form |-> form, expiring |-> expiring]
NoConfig == Credential(0, 0, "absent", FALSE)
NoWrite == [pc |-> "idle", read |-> NoConfig]
NoForget == [pc |-> "idle", next |-> 1, outlived |-> FALSE]

SourceInit ==
  /\ srcStatus = "none" /\ srcConfig = NoConfig
  /\ issued = [g \in 1 .. MaxGrants |-> 0] /\ acked = 0
  /\ writer = [w \in Writers |-> NoWrite] /\ lost = FALSE
  /\ swept = {} /\ forget = [f \in ForgetWorkers |-> NoForget] /\ srcLease = "free"

Patchable == srcStatus \in {"active", "paused"}
rowVars == <<srcStatus, srcConfig, issued, acked, lost>>
sweepVars == <<swept, forget, srcLease>>

-----------------------------------------------------------------------------
(* The admin API.  A refused validation or insert leaves nothing behind.    *)
(* The row gets the config of the request, with credentials in it or not;   *)
(* those of the request's own field are validated and not stored.           *)
Connect ==
  /\ srcStatus = "none" /\ srcStatus' = "active"
  /\ \/ srcConfig' = Credential(1, 0, "object", FALSE) /\ acked' = 1
     \/ UNCHANGED <<srcConfig, acked>>
  /\ UNCHANGED <<issued, writer, lost, sweepVars>>

(* Update: the two patchable statuses, over a row that is not terminal.     *)
Patch(status) ==
  /\ Patchable /\ srcStatus' = status
  /\ UNCHANGED <<srcConfig, issued, acked, writer, lost, sweepVars>>

(* MarkRemoving; a second DELETE finds the row terminal and changes nothing.*)
DeleteSource ==
  /\ Patchable /\ srcStatus' = "removing"
  /\ UNCHANGED <<srcConfig, issued, acked, writer, lost, sweepVars>>

(* One id of a bulk request: its goroutine makes the single call.  The      *)
(* server configures neither a reindexer nor a rotator, and refuses both    *)
(* actions.                                                                 *)
applyBulk(action) ==
  \/ action = "pause" /\ Patch("paused")
  \/ action = "resume" /\ Patch("active")
  \/ action = "disconnect" /\ DeleteSource

bulk(actions) == \E action \in actions \ {"reindex", "rotate-credentials"} : applyBulk(action)

(* The access token comes within the refresh window.                        *)
TokenAges ==
  /\ srcConfig.form # "absent" /\ ~srcConfig.expiring
  /\ srcConfig' = [srcConfig EXCEPT !.expiring = TRUE]
  /\ UNCHANGED <<srcStatus, issued, acked, writer, lost, sweepVars>>

-----------------------------------------------------------------------------
(* json.Unmarshal of a base64 string fails, so that only the object form    *)
(* has a refresh token to read.                                             *)
readOAuthCredentials(cfg) == cfg.form = "object"

WriterEnds(w) == writer' = [writer EXCEPT ![w] = NoWrite]
WriterReads(w) == writer' = [writer EXCEPT ![w] = [pc |-> "read", read |-> srcConfig]]

(* ListAllActive, and the two reasons to skip a source.                     *)
ListAllActive(w) ==
  /\ w \in Refreshers /\ writer[w].pc = "idle"
  /\ srcStatus = "active" /\ readOAuthCredentials(srcConfig) /\ srcConfig.expiring
  /\ WriterReads(w)
  /\ UNCHANGED <<rowVars, sweepVars>>

(* The provider takes the refresh token it issued last, and may issue a new *)
(* one; any other, or a transport error, ends the source's turn.            *)
Refresh(w) ==
  LET held == writer[w].read IN
  /\ w \in Refreshers /\ writer[w].pc = "read"
  /\ \/ /\ held.generation = issued[held.grant]
        /\ \/ /\ issued[held.grant] < MaxRefreshes
              /\ issued' = [issued EXCEPT ![held.grant] = @ + 1]
           \/ UNCHANGED issued
        /\ writer' = [writer EXCEPT ![w].pc = "refreshed"]
     \/ WriterEnds(w) /\ UNCHANGED issued
  /\ UNCHANGED <<srcStatus, srcConfig, acked, lost, sweepVars>>

(* Mutant: the new token is not put into the config that is written.        *)
UpdateConfigKeepsToken(w) ==
  LET held == writer[w].read IN
  /\ w \in Refreshers /\ writer[w].pc = "refreshed" /\ Patchable
  /\ srcConfig' = [held EXCEPT !.expiring = FALSE]
  /\ lost' = (lost \/ held # srcConfig)
  /\ WriterEnds(w)
  /\ UNCHANGED <<srcStatus, issued, acked, sweepVars>>

(* UpdateConfig writes the whole config of the earlier read with the new    *)
(* token.  When it fails, or the process ends before it, a new token the    *)
(* provider issued is gone.                                                 *)
UpdateConfig(w) ==
  LET held == writer[w].read IN
  /\ w \in Refreshers /\ writer[w].pc = "refreshed"
  /\ \/ /\ Patchable
        /\ srcConfig' = Credential(held.grant, issued[held.grant], held.form, FALSE)
        /\ lost' = (lost \/ held # srcConfig)
     \/ lost' = (lost \/ held.generation # issued[held.grant]) /\ UNCHANGED srcConfig
  /\ WriterEnds(w)
  /\ UNCHANGED <<srcStatus, issued, acked, sweepVars>>

-----------------------------------------------------------------------------
(* Rotate: Get and the terminal test, then Validate.                        *)
RotateRead(w) ==
  /\ w \in Rotators /\ writer[w].pc = "idle" /\ Patchable
  /\ WriterReads(w)
  /\ UNCHANGED <<rowVars, sweepVars>>

(* Mutant: the update does not look at the status.                          *)
RotateUnconditional(w) ==
  /\ w \in Rotators /\ writer[w].pc = "read" /\ acked < MaxGrants
  /\ srcConfig' = Credential(acked + 1, 0, "encoded", FALSE) /\ acked' = acked + 1
  /\ WriterEnds(w)
  /\ UNCHANGED <<srcStatus, issued, lost, sweepVars>>

(* The conditional UPDATE of Rotate.  The request's []byte is stored, and   *)
(* reads back as a string.                                                  *)
RotateWrite(w) ==
  /\ w \in Rotators /\ writer[w].pc = "read"
  /\ \/ /\ Patchable /\ acked < MaxGrants
        /\ srcConfig' = Credential(acked + 1, 0, "encoded", FALSE)
        /\ acked' = acked + 1 /\ lost' = FALSE
     \/ UNCHANGED <<srcConfig, acked, lost>>
  /\ WriterEnds(w)
  /\ UNCHANGED <<srcStatus, issued, sweepVars>>

-----------------------------------------------------------------------------
Forgets(f, pc) == forget' = [forget EXCEPT ![f].pc = pc]

(* SetNX; a held lease ends the run.                                        *)
AcquireLease(f) ==
  /\ forget[f].pc = "idle" /\ srcLease = "free"
  /\ srcLease' = f /\ Forgets(f, "leased")
  /\ UNCHANGED <<rowVars, writer, swept>>

(* Get: only a source being removed is swept.                               *)
LoadSource(f) ==
  /\ forget[f].pc = "leased"
  /\ Forgets(f, IF srcStatus = "removing" THEN "sweep" ELSE "release")
  /\ UNCHANGED <<rowVars, writer, swept, srcLease>>

(* One sweeper; an error ends the run, and the source stays removing.       *)
Sweep(f) ==
  /\ forget[f].pc = "sweep" /\ forget[f].next <= Tiers
  /\ \/ /\ swept' = swept \cup {forget[f].next}
        /\ forget' = [forget EXCEPT ![f].next = @ + 1]
     \/ Forgets(f, "release") /\ UNCHANGED swept
  /\ UNCHANGED <<rowVars, writer, srcLease>>

(* MarkRemoved has no condition on the status.                              *)
MarkRemoved(f) ==
  /\ forget[f].pc = "sweep" /\ forget[f].next > Tiers
  /\ srcStatus' \in {"removed", srcStatus} /\ Forgets(f, "release")
  /\ UNCHANGED <<srcConfig, issued, acked, writer, lost, swept, srcLease>>

(* The deferred script deletes the lease only while it holds the run's own  *)
(* token.                                                                   *)
ReleaseLease(f) ==
  /\ forget[f].pc = "release"
  /\ srcLease' = IF srcLease = f THEN "free" ELSE srcLease
  /\ forget' = [forget EXCEPT ![f] = NoForget]
  /\ UNCHANGED <<rowVars, writer, swept>>

(* Redis drops the lease at its TTL, whether its run still lives or not.    *)
LeaseExpires ==
  /\ srcLease # "free" /\ srcLease' = "free"
  /\ forget' = [f \in ForgetWorkers |->
       IF srcLease = f /\ forget[f].pc # "idle" THEN [forget[f] EXCEPT !.outlived = TRUE] ELSE forget[f]]
  /\ UNCHANGED <<rowVars, writer, swept>>

ForgetCrash(f) ==
  /\ forget[f].pc # "idle" /\ forget' = [forget EXCEPT ![f] = NoForget]
  /\ UNCHANGED <<rowVars, writer, swept, srcLease>>

SourceNext ==
  \/ Connect \/ DeleteSource \/ TokenAges \/ LeaseExpires
  \/ \E status \in {"active", "paused"} : Patch(status)
  \/ bulk({"pause", "resume", "disconnect", "reindex", "rotate-credentials"})
  \/ \E w \in Writers :
       ListAllActive(w) \/ Refresh(w) \/ UpdateConfig(w) \/ RotateRead(w) \/ RotateWrite(w)
  \/ \E f \in ForgetWorkers :
       AcquireLease(f) \/ LoadSource(f) \/ Sweep(f) \/ MarkRemoved(f) \/ ReleaseLease(f) \/ ForgetCrash(f)

SourceSpec == SourceInit /\ [][SourceNext]_sourceVars

-----------------------------------------------------------------------------
(* The stored credential is the one of the last rotation that was answered, *)
(* or of the connect request's config, in the generation the provider       *)
(* accepts or about to be written in it, unless since that rotation a       *)
(* refresh wrote over a config it had not read or its new token was not     *)
(* stored (Tick writes the whole config of its earlier read).  Credentials  *)
(* in the connect request's own field are stored nowhere.                   *)
CredentialKept ==
  (Patchable /\ ~lost) =>
    /\ srcConfig.grant = acked
    /\ acked # 0 => \/ srcConfig.generation = issued[acked]
                    \/ \E w \in Refreshers : writer[w].pc = "refreshed" /\ writer[w].read.grant = acked

(* A run that has not outlived its lease holds it, so that such runs        *)
(* exclude each other: the release of a run that has cannot free the lease  *)
(* of the next.                                                             *)
LeaseKept ==
  \A f \in ForgetWorkers : (forget[f].pc # "idle" /\ ~forget[f].outlived) => srcLease = f

(* Nothing is swept before the source is removing, it is marked removed     *)
(* only once every sweeper has run, and from removing on its status moves   *)
(* only forward and its config is never written again, whatever read-modify-*)
(* write was under way.                                                     *)
RemovalIsFinal ==
  [][/\ swept' # {} => srcStatus' \in {"removing", "removed"}
     /\ srcStatus' = "removed" => swept' = 1 .. Tiers
     /\ srcStatus \in {"removing", "removed"}
          => srcStatus' \in {srcStatus, "removed"} /\ srcConfig'.grant = srcConfig.grant]_sourceVars
=============================================================================
