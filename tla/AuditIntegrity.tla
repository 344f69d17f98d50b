--------------------------- MODULE AuditIntegrity ---------------------------
(***************************************************************************)
(* internal/audit/integrity_worker.go: the newest page of a tenant's audit *)
(* log is compared with the page seen the time before, while rows commit   *)
(* in any order of their ids.                                              *)
(***************************************************************************)
EXTENDS Naturals, FiniteSets, FiniteSetsExt

CONSTANTS MaxRows,  \* rows of the tenant
          PageSize  \* maxPageSize of List

VARIABLES
  trail,       \* id -> row
  observation, \* what checkOne stored last
  check,       \* locals of checkOne
  alarm,       \* reportViolation was called
  touched      \* there was a reason to

integrityVars == <<trail, observation, check, alarm, touched>>

TrailIds == 1 .. MaxRows
Unseen == [seen |-> FALSE, head |-> {}]
NoCheck == [pc |-> "idle", prev |-> Unseen, left |-> {}, collected |-> {}]

IntegrityInit ==
  /\ trail = [i \in TrailIds |-> [state |-> "none", edited |-> FALSE]]
  /\ observation = Unseen /\ check = NoCheck /\ alarm = FALSE /\ touched = FALSE

Committed == {i \in TrailIds : trail[i].state = "committed"}

(* List: the highest ids first, at most a page.                             *)
List(S) == {i \in S : Cardinality({j \in S : j > i}) < PageSize}

(* The hash chain over id, tenant, actor, action and resource stands for    *)
(* those fields of the rows it covers.                                      *)
ComputeIntegrity(S) == {<<i, trail[i].edited>> : i \in S}

Window(obs) ==
  LET ids == {e[1] : e \in obs.head} IN IF ids = {} THEN {} ELSE Min(ids) .. Max(ids)

(* Rows of the observations a comparison may still use.                     *)
Observed == Window(observation) \cup Window(check.prev)

-----------------------------------------------------------------------------
(* An id is minted in increasing order, its row committed at any time.      *)
Mint(i) ==
  /\ trail[i].state = "none" /\ \A j \in 1 .. i - 1 : trail[j].state # "none"
  /\ trail' = [trail EXCEPT ![i].state = "open"]
  /\ UNCHANGED <<observation, check, alarm, touched>>

Commit(i) ==
  /\ trail[i].state = "open"
  /\ trail' = [trail EXCEPT ![i].state = "committed"]
  /\ touched' = (touched \/ i \in Observed)
  /\ UNCHANGED <<observation, check, alarm>>

(* A hashed field of a row is edited in place, or the row is removed, by    *)
(* the retention of the log or behind the service.                          *)
Disturb(i) ==
  /\ i \in Committed /\ ~trail[i].edited
  /\ \/ trail' = [trail EXCEPT ![i].edited = TRUE]
     \/ trail' = [trail EXCEPT ![i].state = "removed"]
  /\ touched' = (touched \/ i \in Observed)
  /\ UNCHANGED <<observation, check, alarm>>

(* The newest page, which replaces the observation.  Without an earlier one *)
(* or with the same head there is nothing to compare; an earlier one of no  *)
(* rows has no tail, and is reported.                                       *)
checkOne ==
  LET obs == [seen |-> TRUE, head |-> ComputeIntegrity(List(Committed))]
      same == ~observation.seen \/ observation.head = obs.head
      fromEmpty == ~same /\ observation.head = {}
  IN /\ check.pc = "idle"
     /\ observation' = obs
     /\ check' = IF same \/ fromEmpty THEN NoCheck
                 ELSE [pc |-> "tail", prev |-> observation, collected |-> {}, left |-> Window(observation)]
     /\ alarm' = (alarm \/ fromEmpty) /\ touched' = (touched \/ fromEmpty)
     /\ UNCHANGED trail

(* One List of tailMatches over the ids of the earlier observation; when it *)
(* fails the tail counts as a mismatch.                                     *)
TailPage ==
  LET found == check.left \cap Committed
  IN /\ check.pc = "tail" /\ check.left # {}
     /\ \/ /\ check' = [check EXCEPT
                !.collected = @ \cup ComputeIntegrity(List(found)),
                !.left = IF Cardinality(found) > PageSize THEN {i \in @ : i < Min(List(found))} ELSE {}]
           /\ UNCHANGED <<alarm, touched>>
        \/ alarm' = TRUE /\ touched' = TRUE /\ check' = NoCheck
     /\ UNCHANGED <<trail, observation>>

(* Mutant: the tail is compared with the observation as it is now.          *)
TailAgainstNewest ==
  /\ check.pc = "tail" /\ check.left = {}
  /\ alarm' = (alarm \/ check.collected # observation.head)
  /\ check' = NoCheck
  /\ UNCHANGED <<trail, observation, touched>>

(* The count and the head of the tail against the earlier observation.      *)
tailMatches ==
  /\ check.pc = "tail" /\ check.left = {}
  /\ alarm' = (alarm \/ check.collected # check.prev.head)
  /\ check' = NoCheck
  /\ UNCHANGED <<trail, observation, touched>>

IntegrityNext ==
  \/ \E i \in TrailIds : Mint(i) \/ Commit(i) \/ Disturb(i)
  \/ checkOne \/ TailPage \/ tailMatches

-----------------------------------------------------------------------------
(* A violation is reported only when a row the worker had seen was changed  *)
(* or removed, a row committed among those it had seen, the log was empty   *)
(* when first seen, or a read failed: rows that are merely added above the  *)
(* newest one never raise it, however they shift the pages under a check.   *)
AlarmJustified == alarm => touched
=============================================================================
