------------------------------- MODULE ApiKeys -------------------------------
(***************************************************************************)
(* internal/admin: rotation of one tenant's API keys (api_key_rotation.go) *)
(* and the sweeper that ends their grace period (api_key_sweeper.go).      *)
(* Rotate is one transaction at READ COMMITTED: its UPDATE works on the    *)
(* rows that were active when it began, waits for rows another rotation    *)
(* has updated, and skips those that are no longer active.                 *)
(***************************************************************************)
EXTENDS Naturals, FiniteSets

CONSTANTS KeyRotators,      \* concurrent rotate requests
          MaxApiKeys,    \* keys minted, the first one included
          GracePeriod,   \* APIKeyGracePeriod, in ticks
          MaxKeyTime,    \* bound on the clock
          MaxKeyFaults   \* transactions that fail

ASSUME KeysAssumption == MaxApiKeys \in Nat \ {0} /\ GracePeriod \in Nat

VARIABLES
  keyRow,   \* key -> [status, graceUntil]
  keysUsed, \* keys minted
  rotator,  \* locals of each Rotate: the rows seen, the rows locked, the new key
  shown,    \* keys whose rotation was answered
  keyTime, keyFaults

keyVars == <<keyRow, keysUsed, rotator, shown, keyTime, keyFaults>>

ApiKeyIds == 1 .. MaxApiKeys
NoRotation == [pc |-> "idle", seen |-> {}, moved |-> {}, key |-> 0, grace |-> 0]
Active == {k \in ApiKeyIds : keyRow[k].status = "active"}
Row(s, g) == [status |-> s, graceUntil |-> g]

KeysInit ==
  /\ keyRow = [k \in ApiKeyIds |-> IF k = 1 THEN Row("active", 0) ELSE Row("none", 0)]
  /\ keysUsed = 1 /\ shown = {1} /\ keyTime = 0 /\ keyFaults = 0
  /\ rotator = [r \in KeyRotators |-> NoRotation]

Locked(r) == UNION {rotator[o].moved : o \in KeyRotators \ {r}}

(* rotate: the deadline, the new key, and the rows its UPDATE will visit.   *)
rotate(r) ==
  /\ rotator[r].pc = "idle" /\ keysUsed < MaxApiKeys
  /\ keysUsed' = keysUsed + 1
  /\ rotator' = [rotator EXCEPT ![r] = [pc |-> "update", seen |-> Active, moved |-> {},
                                        key |-> keysUsed + 1, grace |-> keyTime + GracePeriod]]
  /\ UNCHANGED <<keyRow, shown, keyTime, keyFaults>>

(* The UPDATE ends once no other rotation holds one of those rows.          *)
RotateUpdate(r) ==
  /\ rotator[r].pc = "update" /\ rotator[r].seen \cap Locked(r) = {}
  /\ rotator' = [rotator EXCEPT ![r] = [@ EXCEPT !.pc = "insert", !.seen = {}, !.moved = rotator[r].seen \cap Active]]
  /\ UNCHANGED <<keyRow, keysUsed, shown, keyTime, keyFaults>>

(* The INSERT and the COMMIT.                                               *)
Rotate(r) ==
  /\ rotator[r].pc = "insert"
  /\ keyRow' = [k \in ApiKeyIds |->
       IF k \in rotator[r].moved THEN Row("grace", rotator[r].grace)
       ELSE IF k = rotator[r].key THEN Row("active", 0) ELSE keyRow[k]]
  /\ rotator' = [rotator EXCEPT ![r] = [@ EXCEPT !.pc = "answer", !.moved = {}]]
  /\ UNCHANGED <<keysUsed, shown, keyTime, keyFaults>>

(* The audit row, whose error is ignored, and the answer with the new key.  *)
RotateAnswers(r) ==
  /\ rotator[r].pc = "answer"
  /\ shown' = shown \cup {rotator[r].key}
  /\ rotator' = [rotator EXCEPT ![r] = NoRotation]
  /\ UNCHANGED <<keyRow, keysUsed, keyTime, keyFaults>>

(* Mutant: MoveActiveToGrace and Insert without a transaction.              *)
RotateFailsHalfway(r) ==
  /\ rotator[r].pc # "idle" /\ keyFaults < MaxKeyFaults /\ keyFaults' = keyFaults + 1
  /\ rotator' = [rotator EXCEPT ![r] = NoRotation]
  /\ keyRow' = [k \in ApiKeyIds |-> IF k \in rotator[r].moved THEN Row("grace", rotator[r].grace) ELSE keyRow[k]]
  /\ UNCHANGED <<keysUsed, shown, keyTime>>

(* The request ends early: its transaction is rolled back or, after the     *)
(* commit, the process ends or the answer is lost and nobody has the key.   *)
RotateFails(r) ==
  /\ rotator[r].pc # "idle" /\ keyFaults < MaxKeyFaults /\ keyFaults' = keyFaults + 1
  /\ rotator' = [rotator EXCEPT ![r] = NoRotation]
  /\ UNCHANGED <<keyRow, keysUsed, shown, keyTime>>

(* The keys whose deadline is past, read and updated in one transaction.    *)
ExpireGrace ==
  /\ \E k \in ApiKeyIds : keyRow[k].status = "grace" /\ keyRow[k].graceUntil < keyTime
  /\ keyRow' = [k \in ApiKeyIds |->
       IF keyRow[k].status = "grace" /\ keyRow[k].graceUntil < keyTime THEN Row("expired", keyRow[k].graceUntil)
       ELSE keyRow[k]]
  /\ UNCHANGED <<keysUsed, rotator, shown, keyTime, keyFaults>>

(* The sweeper's pass; its audit rows and gauge are left out.               *)
SweepOnce == ExpireGrace

KeyTick ==
  /\ keyTime < MaxKeyTime /\ keyTime' = keyTime + 1
  /\ UNCHANGED <<keyRow, keysUsed, rotator, shown, keyFaults>>

KeysNext ==
  \/ \E r \in KeyRotators : rotate(r) \/ RotateUpdate(r) \/ Rotate(r) \/ RotateAnswers(r) \/ RotateFails(r)
  \/ SweepOnce \/ KeyTick

KeysSpec == KeysInit /\ [][KeysNext]_keyVars

-----------------------------------------------------------------------------
(* "a tenant never observes a window with zero active keys", and every key  *)
(* that was given out is honoured until the deadline of the rotation that   *)
(* replaced it, whatever rotations overlap or fail.  (Two that overlap      *)
(* leave two active keys; the next rotation moves both.)  An active key     *)
(* need not be one that somebody has: when the answer of a rotation is lost *)
(* its key is active and unknown, and the keys it replaced run out.         *)
NeverWithoutKey ==
  /\ Active # {}
  /\ \A k \in shown : \/ keyRow[k].status \in {"active", "grace"}
                      \/ keyRow[k].status = "expired" /\ keyRow[k].graceUntil < keyTime
=============================================================================
