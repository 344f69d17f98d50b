------------------------------- MODULE Shards -------------------------------
(***************************************************************************)
(* internal/shard: generations of one scope (tenant, user, channel and     *)
(* privacy mode) that run side by side, each over several statements, and  *)
(* a device that follows the scope through the delta endpoint.             *)
(***************************************************************************)
EXTENDS Naturals, FiniteSetsExt

CONSTANTS Generators,     \* concurrent Generate calls
          Chunks,         \* chunks the scope may hold
          MaxShards,      \* manifests created
          MaxPolicyEdits, \* changes of what the policy admits
          MaxShardFaults  \* failing statements and crashes

ASSUME ShardsAssumption == MaxShards \in Nat

VARIABLES
  shards,    \* manifest id -> row; ids are handed out in increasing order
  minted,    \* ids handed out
  gen,       \* the locals of each Generate
  admitted,  \* chunks the stored chunks and the live policy admit
  device,    \* [version, chunks] the device holds
  settled,   \* every delta the device took was of a finished generation
  policyEdits, shardFaults

shardVars == <<shards, minted, gen, admitted, device, settled, policyEdits, shardFaults>>

ShardIds == 1 .. MaxShards
NoShard == [version |-> 0, status |-> "none", chunks |-> {}]
Idle == [pc |-> "idle", eligible |-> {}, id |-> 0, version |-> 0]

ShardsInit ==
  /\ shards = [i \in ShardIds |-> NoShard] /\ minted = 0
  /\ gen = [g \in Generators |-> Idle]
  /\ admitted = Chunks
  /\ device = [version |-> 0, chunks |-> {}] /\ settled = TRUE
  /\ policyEdits = 0 /\ shardFaults = 0

Rows == {i \in ShardIds : shards[i].status # "none"}

(* MAX(shard_version) over rows of every status, 0 without a row.           *)
LatestVersion == Max({0} \cup {shards[i].version : i \in Rows})

GetByVersion(v) == {i \in Rows : shards[i].version = v}

(* A statement that fails, and the bound on them.                           *)
Fault == shardFaults < MaxShardFaults /\ shardFaults' = shardFaults + 1
NoFault == UNCHANGED shardFaults

Goes(g, pc) == gen' = [gen EXCEPT ![g].pc = pc]
Returns(g) == gen' = [gen EXCEPT ![g] = Idle]
SetStatus(i, s) == shards' = [shards EXCEPT ![i].status = s]

(* Resolve, ListChunks and the three filters of the loop.                   *)
SelectChunks(g) ==
  /\ gen[g].pc = "idle" /\ minted < MaxShards
  /\ gen' = [gen EXCEPT ![g] = [@ EXCEPT !.pc = "selected", !.eligible = admitted]]
  /\ UNCHANGED <<shards, minted, admitted, device, settled, policyEdits, shardFaults>>

(* LatestVersion, and the id of the manifest.                               *)
ReadVersion(g) ==
  /\ gen[g].pc = "selected" /\ minted < MaxShards
  /\ minted' = minted + 1
  /\ \E v \in ShardIds :
       /\ v = LatestVersion + 1
       /\ gen' = [gen EXCEPT ![g] = [pc |-> "numbered", eligible |-> @.eligible, id |-> minted + 1, version |-> v]]
  /\ UNCHANGED <<shards, admitted, device, settled, policyEdits, shardFaults>>

(* Mutant: the table lets two rows of the scope have one version.           *)
CreateAnyVersion(g) ==
  /\ gen[g].pc = "numbered" /\ Goes(g, "created")
  /\ shards' = [shards EXCEPT ![gen[g].id] = [version |-> gen[g].version, status |-> "pending", chunks |-> {}]]
  /\ UNCHANGED <<minted, admitted, device, settled, policyEdits, shardFaults>>

(* Create inserts the manifest as pending.  The table holds one row of the  *)
(* scope for a version: of two generations that read the same LatestVersion *)
(* the second insert fails, and with it the call.                           *)
Create(g) ==
  /\ gen[g].pc = "numbered"
  /\ \/ GetByVersion(gen[g].version) # {} /\ Returns(g) /\ NoFault /\ UNCHANGED shards
     \/ /\ GetByVersion(gen[g].version) = {}
        /\ shards' = [shards EXCEPT ![gen[g].id] = [version |-> gen[g].version, status |-> "pending", chunks |-> {}]]
        /\ Goes(g, "created") /\ NoFault
     \/ Fault /\ Returns(g) /\ UNCHANGED shards
  /\ UNCHANGED <<minted, admitted, device, settled, policyEdits>>

(* SetChunkIDs replaces the chunk rows in one transaction; when it fails    *)
(* the manifest is marked failed.                                           *)
SetChunkIDs(g) ==
  /\ gen[g].pc = "created"
  /\ \/ /\ shards' = [shards EXCEPT ![gen[g].id].chunks = gen[g].eligible]
        /\ Goes(g, "filled") /\ NoFault
     \/ Fault /\ SetStatus(gen[g].id, "failed") /\ Returns(g)
  /\ UNCHANGED <<minted, admitted, device, settled, policyEdits>>

MarkReady(g) ==
  /\ gen[g].pc = "filled"
  /\ \/ SetStatus(gen[g].id, "ready") /\ Goes(g, "ready") /\ NoFault
     \/ Fault /\ Returns(g) /\ UNCHANGED shards
  /\ UNCHANGED <<minted, admitted, device, settled, policyEdits>>

(* Mutant: the row of the generation itself is among them.                  *)
MarkSupersededInclusive(g) ==
  /\ gen[g].pc = "ready" /\ Returns(g)
  /\ shards' = [i \in ShardIds |->
       IF shards[i].status = "ready" /\ shards[i].version <= gen[g].version
       THEN [shards[i] EXCEPT !.status = "superseded"] ELSE shards[i]]
  /\ UNCHANGED <<minted, admitted, device, settled, policyEdits, shardFaults>>

(* Only rows that are ready and of a lower version.                         *)
MarkSuperseded(g) ==
  /\ gen[g].pc = "ready"
  /\ \/ /\ shards' = [i \in ShardIds |->
             IF shards[i].status = "ready" /\ shards[i].version < gen[g].version
             THEN [shards[i] EXCEPT !.status = "superseded"] ELSE shards[i]]
        /\ NoFault
     \/ Fault /\ UNCHANGED shards
  /\ Returns(g)
  /\ UNCHANGED <<minted, admitted, device, settled, policyEdits>>

(* The process ends between two statements of Generate; a MarkFailed that   *)
(* itself fails leaves the same rows behind.                                *)
GeneratorCrash(g) ==
  /\ gen[g].pc # "idle" /\ Fault
  /\ Returns(g)
  /\ UNCHANGED <<shards, minted, admitted, device, settled, policyEdits>>

(* A chunk is stored or removed, or a policy admits or excludes it.         *)
PolicyEdit(c) ==
  /\ policyEdits < MaxPolicyEdits /\ policyEdits' = policyEdits + 1
  /\ admitted' = IF c \in admitted THEN admitted \ {c} ELSE admitted \cup {c}
  /\ UNCHANGED <<shards, minted, gen, device, settled, shardFaults>>

(* Mutant: what left the shard is not sent.                                 *)
ComputeDeltaAdds(prev, curr) == [add |-> curr \ prev, remove |-> {}]

ComputeDelta(prev, curr) == [add |-> curr \ prev, remove |-> prev \ curr]

(* What ChunkIDs returns for a version of the scope.                        *)
ChunkIDs(v) == UNION {shards[i].chunks : i \in GetByVersion(v)}

(* The operations the endpoint answers with: against the chunks of the      *)
(* device's version, or of no version when there is none.                   *)
Operations(since, latest) == ComputeDelta(IF since = 0 THEN {} ELSE ChunkIDs(since), ChunkIDs(latest))

(* The generation of version v has not written its chunks yet.              *)
Unfinished(v) == \E i \in GetByVersion(v) : shards[i].status = "pending"

(* GET delta?since=device.version, applied adds first (handler.go, with the *)
(* device of contract.go).  A full sync starts from nothing.                *)
Delta ==
  LET latest == LatestVersion
      ops == Operations(device.version, latest)
  IN /\ latest > device.version
     /\ device' = [version |-> latest, chunks |-> (device.chunks \cup ops.add) \ ops.remove]
     /\ settled' = (settled /\ ~Unfinished(latest))
     /\ UNCHANGED <<shards, minted, gen, admitted, policyEdits, shardFaults>>

ShardsNext ==
  \/ \E g \in Generators :
       \/ SelectChunks(g) \/ ReadVersion(g) \/ Create(g) \/ SetChunkIDs(g)
       \/ MarkReady(g) \/ MarkSuperseded(g) \/ GeneratorCrash(g)
  \/ \E c \in Chunks : PolicyEdit(c)
  \/ Delta

ShardsSpec == ShardsInit /\ [][ShardsNext]_shardVars

-----------------------------------------------------------------------------
(* contract.go: after a delta "the final state matches the server's at      *)
(* version delta.To", however generations race for a version, fail or       *)
(* crash, as long as the endpoint never answered with a version that was    *)
(* still pending: LatestVersion counts rows of every status.                *)
DeviceInSync ==
  (settled /\ device.version > 0)
    => GetByVersion(device.version) # {} /\ device.chunks = ChunkIDs(device.version)

(* A superseded row has a ready one of a later version, however generations *)
(* interleave, fail or crash: the scope never loses its last ready shard.   *)
SupersededBySuccessor ==
  \A i \in Rows : shards[i].status = "superseded"
    => \E j \in Rows : shards[j].version > shards[i].version /\ shards[j].status = "ready"
=============================================================================
