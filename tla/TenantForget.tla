---------------------------- MODULE TenantForget ----------------------------
(***************************************************************************)
(* The two orchestrators that erase a tenant: internal/shard/forget.go     *)
(* (under a Redis lease, state in tenant_lifecycle) and                    *)
(* internal/admin/tenant_delete.go (no lease, state in tenants).  Both     *)
(* mark the tenant, wait for the pipeline to drain, run their sweepers in  *)
(* order and mark it deleted.                                              *)
(***************************************************************************)
EXTENDS Naturals

CONSTANTS ForgetRuns,  \* calls of Forget
          DeleteRuns,  \* calls of TenantDeleter.Delete
          Stores       \* number of stores with data of the tenant

ASSUME StoresAssumption == Stores \in Nat

VARIABLES
  wired,        \* how many sweepers Forget and Delete are configured with; in
                \* both they run in the order of the stores
  lifecycle,    \* tenant_lifecycle.state, "none" without a row
  tenantStatus, \* tenants.tenant_status
  held,         \* store -> the tenant has data in it
  eraser,       \* locals of each run
  tenantLease,  \* the run whose token is in Redis, or "free"
  late          \* the pipeline wrote after a run had stopped waiting for it

tenantVars == <<wired, lifecycle, tenantStatus, held, eraser, tenantLease, late>>

Erasers == ForgetRuns \cup DeleteRuns
NotErasing == [pc |-> "idle", next |-> 1]

(* Neither constructor asks for a sweeper: cmd/api gives Delete none.       *)
Configured(forget, delete) ==
  /\ wired = [forget |-> forget, delete |-> delete]
  /\ lifecycle = "none" /\ tenantStatus = "active"
  /\ held = [s \in 1 .. Stores |-> TRUE]
  /\ eraser = [r \in Erasers |-> NotErasing]
  /\ tenantLease = "free" /\ late = FALSE

TenantInit == \E forget, delete \in 0 .. Stores : Configured(forget, delete)

Sweepers(r) == IF r \in ForgetRuns THEN wired.forget ELSE wired.delete
EraserAt(r, pc) == eraser' = [eraser EXCEPT ![r].pc = pc]
EraserReturns(r) == eraser' = [eraser EXCEPT ![r] = NotErasing]

(* FirstOrCreate with Assign, and the Save of the tenants row: neither      *)
(* looks at the state it replaces.                                          *)
MarkLifecycle(state) == lifecycle' = state /\ UNCHANGED tenantStatus
UpsertStatus(state) == tenantStatus' = state /\ UNCHANGED lifecycle
Mark(r, state) == IF r \in ForgetRuns THEN MarkLifecycle(state) ELSE UpsertStatus(state)

(* Mark pending; then the drain timer.                                      *)
MarkPending(r) ==
  /\ eraser[r].pc = "idle"
  /\ Mark(r, "pending_deletion") /\ EraserAt(r, "drain")
  /\ UNCHANGED <<wired, held, tenantLease, late>>

(* The timer fires, or the context ends first and the tenant stays pending. *)
Drain(r) ==
  /\ eraser[r].pc = "drain"
  /\ \/ EraserAt(r, IF r \in ForgetRuns THEN "lease" ELSE "sweep")
     \/ EraserReturns(r)
  /\ UNCHANGED <<wired, lifecycle, tenantStatus, held, tenantLease, late>>

(* SetNX; a held lease is ErrLeaseHeld, with the tenant already marked.     *)
AcquireTenantLease(r) ==
  /\ eraser[r].pc = "lease"
  /\ \/ tenantLease = "free" /\ tenantLease' = r /\ EraserAt(r, "sweep")
     \/ tenantLease # "free" /\ EraserReturns(r) /\ UNCHANGED tenantLease
  /\ UNCHANGED <<wired, lifecycle, tenantStatus, held, late>>

EraseFailed(r) == IF r \in ForgetRuns THEN EraserAt(r, "release") ELSE EraserReturns(r)

(* Mutant: a failed sweep does not end the run.                             *)
SweepOnPastErrors(r) ==
  /\ eraser[r].pc = "sweep" /\ eraser[r].next <= Sweepers(r)
  /\ eraser' = [eraser EXCEPT ![r].next = @ + 1]
  /\ held' \in {held, [held EXCEPT ![eraser[r].next] = FALSE]}
  /\ UNCHANGED <<wired, lifecycle, tenantStatus, tenantLease, late>>

(* One sweeper; the first error returns and leaves the tenant pending.      *)
SweepStore(r) ==
  /\ eraser[r].pc = "sweep" /\ eraser[r].next <= Sweepers(r)
  /\ \/ /\ held' = [held EXCEPT ![eraser[r].next] = FALSE]
        /\ eraser' = [eraser EXCEPT ![r].next = @ + 1]
     \/ EraseFailed(r) /\ UNCHANGED held
  /\ UNCHANGED <<wired, lifecycle, tenantStatus, tenantLease, late>>

MarkDeleted(r) ==
  /\ eraser[r].pc = "sweep" /\ eraser[r].next > Sweepers(r)
  /\ \/ Mark(r, "deleted")
     \/ UNCHANGED <<lifecycle, tenantStatus>>
  /\ EraseFailed(r)
  /\ UNCHANGED <<wired, held, tenantLease, late>>

ReleaseTenantLease(r) ==
  /\ eraser[r].pc = "release"
  /\ tenantLease' = IF tenantLease = r THEN "free" ELSE tenantLease
  /\ EraserReturns(r)
  /\ UNCHANGED <<wired, lifecycle, tenantStatus, held, late>>

TenantLeaseExpires ==
  /\ tenantLease # "free" /\ tenantLease' = "free"
  /\ UNCHANGED <<wired, lifecycle, tenantStatus, held, eraser, late>>

(* The pipeline stores a document of the tenant: nothing on that path reads *)
(* the lifecycle or the status.                                             *)
PipelineWrite(s) ==
  /\ ~held[s] /\ held' = [held EXCEPT ![s] = TRUE]
  /\ late' = TRUE
  /\ UNCHANGED <<wired, lifecycle, tenantStatus, eraser, tenantLease>>

TenantNext ==
  \/ \E r \in Erasers :
       \/ MarkPending(r) \/ Drain(r) \/ SweepStore(r) \/ MarkDeleted(r)
       \/ AcquireTenantLease(r) \/ ReleaseTenantLease(r)
  \/ TenantLeaseExpires
  \/ \E s \in 1 .. Stores : PipelineWrite(s)

TenantSpec == TenantInit /\ [][TenantNext]_tenantVars

-----------------------------------------------------------------------------
(* A tenant that Forget or Delete has marked deleted has no data in any     *)
(* store the one or the other sweeps, and a store, the keys at the end of   *)
(* the list among them, is emptied only after every store before it,        *)
(* whichever runs overlap, fail, are refused the lease or outlive it,       *)
(* unless the pipeline wrote after the drain.  With no sweeper, as cmd/api  *)
(* configures Delete, a tenant is marked deleted with all its data kept.    *)
DeletedMeansSwept ==
  ~late => /\ lifecycle = "deleted" => \A s \in 1 .. wired.forget : ~held[s]
           /\ tenantStatus = "deleted" => \A s \in 1 .. wired.delete : ~held[s]
           /\ \A s, t \in DOMAIN held : s < t /\ ~held[t] => ~held[s]
=============================================================================
