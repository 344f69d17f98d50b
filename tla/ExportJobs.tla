----------------------------- MODULE ExportJobs -----------------------------
(***************************************************************************)
(* internal/admin/data_export.go: tenants' export jobs, and workers that   *)
(* claim the oldest pending one, write an archive and settle the row.      *)
(***************************************************************************)
EXTENDS Naturals, FiniteSets

CONSTANTS ExportWorkers,
          MaxExportJobs,   \* rows created
          MaxExportFaults  \* statements or writes that fail, workers that end

ASSUME ExportAssumption == MaxExportJobs \in Nat \ {0}

VARIABLES
  jobs,     \* status of each job; jobs are numbered by created_at
  exporter, \* locals of each ProcessOne: where it is and its job
  archives, \* jobs whose archive the sink holds
  exportFaults

exportVars == <<jobs, exporter, archives, exportFaults>>

JobIds == 1 .. MaxExportJobs
NoJob == [pc |-> "idle", job |-> 0]
Pending == {j \in JobIds : jobs[j] = "pending"}

ExportInit ==
  /\ jobs = [j \in JobIds |-> "none"] /\ archives = {} /\ exportFaults = 0
  /\ exporter = [w \in ExportWorkers |-> NoJob]

ExportFault == exportFaults < MaxExportFaults /\ exportFaults' = exportFaults + 1
Proceeds(w, pc) == exporter' = [exporter EXCEPT ![w].pc = pc]
Finishes(w) == exporter' = [exporter EXCEPT ![w] = NoJob]

InsertJob(j) == jobs[j] = "none" /\ jobs' = [jobs EXCEPT ![j] = "pending"]

(* The request inserts the next row.                                        *)
CreateJob(j) ==
  /\ \A i \in JobIds : i < j => jobs[i] # "none"
  /\ InsertJob(j)
  /\ UNCHANGED <<exporter, archives, exportFaults>>

(* The first statement of the claim: the oldest pending row.                *)
ClaimRead(w) ==
  /\ exporter[w].pc = "idle"
  /\ \E j \in Pending : /\ \A i \in Pending : j <= i
                        /\ exporter' = [exporter EXCEPT ![w] = [pc |-> "claim", job |-> j]]
  /\ UNCHANGED <<jobs, archives, exportFaults>>

(* Mutant: the row is set to running whatever its status is by now.         *)
ClaimAny(w) ==
  /\ exporter[w].pc = "claim"
  /\ jobs' = [jobs EXCEPT ![exporter[w].job] = "running"] /\ Proceeds(w, "collect")
  /\ UNCHANGED <<archives, exportFaults>>

(* The second: the row becomes running if it is still pending, otherwise    *)
(* the call returns ErrRecordNotFound.                                      *)
ClaimNextPending(w) ==
  /\ exporter[w].pc = "claim"
  /\ \/ /\ exporter[w].job \in Pending
        /\ jobs' = [jobs EXCEPT ![exporter[w].job] = "running"] /\ Proceeds(w, "collect")
        /\ UNCHANGED exportFaults
     \/ exporter[w].job \notin Pending /\ Finishes(w) /\ UNCHANGED <<jobs, exportFaults>>
     \/ ExportFault /\ Finishes(w) /\ UNCHANGED jobs
  /\ UNCHANGED archives

(* ListAllForTenant, ListForExport, Marshal and Sink.Write.                 *)
ProcessOne(w) ==
  /\ exporter[w].pc = "collect"
  /\ \/ /\ archives' = archives \cup {exporter[w].job}
        /\ Proceeds(w, "written") /\ UNCHANGED exportFaults
     \/ ExportFault /\ Proceeds(w, "fail") /\ UNCHANGED archives
  /\ UNCHANGED jobs

(* Both updates name the row by id alone.                                   *)
Settle(w, status) ==
  /\ \/ jobs' = [jobs EXCEPT ![exporter[w].job] = status] /\ UNCHANGED exportFaults
     \/ ExportFault /\ UNCHANGED jobs
  /\ Finishes(w) /\ UNCHANGED archives

MarkSucceeded(w) == exporter[w].pc = "written" /\ Settle(w, "succeeded")
MarkFailed(w) == exporter[w].pc = "fail" /\ Settle(w, "failed")

(* A worker ends: its job stays running.                                    *)
ExporterCrash(w) ==
  /\ exporter[w].pc # "idle" /\ ExportFault /\ Finishes(w)
  /\ UNCHANGED <<jobs, archives>>

ExportNext ==
  \/ \E j \in JobIds : CreateJob(j)
  \/ \E w \in ExportWorkers :
       \/ ClaimRead(w) \/ ClaimNextPending(w) \/ ProcessOne(w)
       \/ MarkSucceeded(w) \/ MarkFailed(w) \/ ExporterCrash(w)

ExportSpec == ExportInit /\ [][ExportNext]_exportVars

-----------------------------------------------------------------------------
ExportRank(s) == CASE s = "none" -> 0 [] s = "pending" -> 1 [] s = "running" -> 2 [] OTHER -> 3

(* "two concurrent workers cannot pick the same job": what the tenant polls *)
(* only moves forward.  A job that has succeeded or failed keeps its        *)
(* status, a running one never becomes pending, and a succeeded one has its *)
(* archive, although both updates at the end are unconditional.             *)
JobsMoveForward ==
  [][\A j \in JobIds : jobs'[j] # jobs[j] =>
        /\ ExportRank(jobs'[j]) > ExportRank(jobs[j])
        /\ jobs'[j] = "succeeded" => j \in archives]_exportVars
=============================================================================
