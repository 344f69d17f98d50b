------------------------------- MODULE MCDLQ --------------------------------
(***************************************************************************)
(* Model-checking instance of DLQ.  Two questions need different parts of  *)
(* the state, so a behaviour has one of two scenarios: several replayers   *)
(* race on one row, or the worker alone meets more rows than it lists.     *)
(***************************************************************************)
EXTENDS DLQ

VARIABLE scenario

Within ==
  /\ scenario = "race" => rows \subseteq {1}
  /\ scenario = "backlog" => \A p \in Operators : pc[p] = "idle"

MCInit ==
  /\ Init
  /\ scenario \in {"race", "backlog"}
  /\ scenario = "race" => ingest = 1

MCStep(A) == A /\ UNCHANGED scenario /\ Within'

MCVars == <<vars, scenario>>

MCSpec ==
  /\ MCInit /\ [][MCStep(Next)]_MCVars
  /\ WF_MCVars(MCStep(Tick)) /\ WF_MCVars(MCStep(Process)) /\ WF_MCVars(MCStep(Persist))
  /\ WF_MCVars(MCStep(WorkerStep))
=============================================================================
