---------------------------- MODULE ShardsProofs ----------------------------
(***************************************************************************)
(* Machine-checked proof about the shard generations of a scope, for any   *)
(* number of them and any rows: a generation owns its row, knows its status*)
(* and version, and supersedes only what has a ready successor.            *)
(***************************************************************************)
EXTENDS Shards, TLAPS

-----------------------------------------------------------------------------
(* Shard generations of a scope.                                            *)
\* Where a Generate is once it has a manifest id.
Numbered == {"numbered", "created", "filled", "ready"}

ShardTypes ==
  /\ shards \in [ShardIds -> [version : 0 .. MaxShards, chunks : SUBSET Chunks,
                              status : {"none", "pending", "failed", "ready", "superseded"}]]
  /\ minted \in 0 .. MaxShards
  /\ gen \in [Generators -> [pc : {"idle", "selected"} \cup Numbered, eligible : SUBSET Chunks,
                             id : 0 .. MaxShards, version : 0 .. MaxShards]]
  /\ admitted \subseteq Chunks

\* A generation in progress owns its row, and knows its status and version.
OwnRow ==
  /\ \A i \in ShardIds : i > minted => shards[i].status = "none"
  /\ \A g \in Generators : gen[g].pc \in Numbered => gen[g].id \in 1 .. minted
  /\ \A g, h \in Generators : gen[g].pc \in Numbered /\ gen[h].pc \in Numbered /\ gen[g].id = gen[h].id => g = h
  /\ \A g \in Generators : gen[g].pc = "numbered" => shards[gen[g].id].status = "none"
  /\ \A g \in Generators : gen[g].pc \in {"created", "filled"} =>
       shards[gen[g].id].status = "pending" /\ shards[gen[g].id].version = gen[g].version
  /\ \A g \in Generators : gen[g].pc = "ready" =>
       shards[gen[g].id].status \in {"ready", "superseded"} /\ shards[gen[g].id].version = gen[g].version

ShardsInv == ShardTypes /\ OwnRow /\ SupersededBySuccessor

\* A scope without a shard.
LEMMA ShardsInitInv == ShardsInit => ShardsInv
  BY ShardsAssumption DEF ShardsInit, NoShard, Idle, ShardIds, Rows, ShardsInv, ShardTypes, OwnRow, Numbered, SupersededBySuccessor

\* A row that was not ready may change without costing a superseded row its successor.
LEMMA RowMoves ==
  ASSUME ShardTypes, SupersededBySuccessor, ShardTypes', NEW i \in ShardIds, shards[i].status \in {"none", "pending"},
         shards'[i].status # "superseded",
         \A j \in ShardIds \ {i} : shards'[j] = shards[j]
  PROVE  SupersededBySuccessor'
  BY ZenonT(60) DEF ShardTypes, SupersededBySuccessor, Rows

\* A Generate that returns or crashes leaves the rows as they are.
LEMMA GeneratorEnds ==
  ASSUME ShardsInv, NEW g \in Generators, Returns(g), UNCHANGED <<shards, minted, admitted>>
  PROVE  ShardsInv'
<1> USE ShardsAssumption DEF ShardsInv
<1>1. Idle \in [pc : {"idle", "selected"} \cup Numbered, eligible : SUBSET Chunks, id : 0 .. MaxShards, version : 0 .. MaxShards]
  BY DEF Idle
<1>2. ShardTypes'
  BY <1>1 DEF Returns, ShardTypes
<1>3. OwnRow'
  BY DEF Returns, Idle, ShardTypes, OwnRow, Numbered
<1>4. SupersededBySuccessor'
  BY DEF SupersededBySuccessor, Rows
<1> QED BY <1>2, <1>3, <1>4

\* A Generate that writes its own row.
LEMMA GeneratorWrites ==
  ASSUME ShardsInv, NEW g \in Generators, gen[g].pc \in {"numbered", "created", "filled"},
         NEW row \in [version : {gen[g].version}, chunks : SUBSET Chunks, status : {"pending", "failed", "ready"}],
         shards' = [shards EXCEPT ![gen[g].id] = row],
         \/ Goes(g, "created") /\ row.status = "pending"
         \/ Goes(g, "filled") /\ row.status = "pending"
         \/ Goes(g, "ready") /\ row.status = "ready"
         \/ Returns(g),
         UNCHANGED <<minted, admitted>>
  PROVE  ShardsInv'
<1> USE ShardsAssumption DEF ShardsInv
<1> DEFINE i == gen[g].id
<1>1. i \in ShardIds /\ i <= minted /\ shards[i].status \in {"none", "pending"} /\ gen[g].version \in 0 .. MaxShards
  BY DEF ShardTypes, OwnRow, Numbered, ShardIds
<1>2. row \in [version : 0 .. MaxShards, chunks : SUBSET Chunks,
              status : {"none", "pending", "failed", "ready", "superseded"}] /\ row.version = gen[g].version
  BY <1>1
<1>3. /\ gen' \in [Generators -> [pc : {"idle", "selected"} \cup Numbered, eligible : SUBSET Chunks,
                                  id : 0 .. MaxShards, version : 0 .. MaxShards]]
      /\ \A h \in Generators \ {g} : gen'[h] = gen[h]
      /\ \/ gen'[g].pc = "idle"
         \/ /\ gen'[g].id = i /\ gen'[g].version = gen[g].version
            /\ \/ gen'[g].pc \in {"created", "filled"} /\ row.status = "pending"
               \/ gen'[g].pc = "ready" /\ row.status = "ready"
  BY DEF Goes, Returns, Idle, ShardTypes, Numbered
<1>4. shards'[i] = row /\ \A j \in ShardIds \ {i} : shards'[j] = shards[j]
  BY <1>1 DEF ShardTypes
<1>5. ShardTypes'
  BY <1>1, <1>2, <1>3, SMTT(30) DEF ShardTypes
<1>6. OwnRow'
  <2>1. \A h \in Generators \ {g} : gen[h].pc \in Numbered => gen[h].id \in ShardIds \ {i}
    BY DEF ShardTypes, OwnRow, Numbered, ShardIds
  <2>2. \A j \in ShardIds : j > minted' => shards'[j].status = "none"
    BY <1>1, <1>4 DEF OwnRow, ShardTypes, ShardIds
  <2> QED BY <1>1, <1>2, <1>3, <1>4, <2>1, <2>2, SMTT(30) DEF OwnRow, Numbered
<1>7. SupersededBySuccessor'
  BY <1>1, <1>2, <1>4, <1>5, RowMoves
<1> QED BY <1>5, <1>6, <1>7

\* Create, SetChunkIDs and MarkReady.
LEMMA GenerateStep ==
  ASSUME ShardsInv, NEW g \in Generators, Create(g) \/ SetChunkIDs(g) \/ MarkReady(g)
  PROVE  ShardsInv'
<1> DEFINE i == gen[g].id
<1>1. CASE Create(g)
  BY <1>1, GeneratorWrites, GeneratorEnds DEF Create, ShardsInv, ShardTypes
<1>2. ASSUME SetChunkIDs(g) \/ MarkReady(g)
      PROVE  /\ i \in ShardIds /\ shards[i] \in [version : {gen[g].version}, chunks : SUBSET Chunks, status : {"pending"}]
             /\ gen[g].eligible \subseteq Chunks
  BY <1>2 DEF SetChunkIDs, MarkReady, ShardsInv, ShardTypes, OwnRow, ShardIds, Numbered
<1>3. CASE SetChunkIDs(g)
  <2>1. CASE shards' = [shards EXCEPT ![i].chunks = gen[g].eligible] /\ Goes(g, "filled")
    BY <1>2, <1>3, <2>1, GeneratorWrites, Zenon DEF SetChunkIDs
  <2>2. CASE SetStatus(i, "failed") /\ Returns(g)
    BY <1>2, <1>3, <2>2, GeneratorWrites, Zenon DEF SetChunkIDs, SetStatus
  <2> QED BY <1>3, <2>1, <2>2 DEF SetChunkIDs
<1>4. CASE MarkReady(g)
  <2>1. CASE SetStatus(i, "ready") /\ Goes(g, "ready")
    BY <1>2, <1>4, <2>1, GeneratorWrites, Zenon DEF MarkReady, SetStatus
  <2>2. CASE Returns(g) /\ UNCHANGED shards
    BY <1>4, <2>2, GeneratorEnds DEF MarkReady
  <2> QED BY <1>4, <2>1, <2>2 DEF MarkReady
<1> QED BY <1>1, <1>3, <1>4

\* MarkSuperseded: the row of the generation, or its successor, is the ready one.
LEMMA SupersedeStep ==
  ASSUME ShardsInv, NEW g \in Generators, MarkSuperseded(g)
  PROVE  ShardsInv'
<1> USE ShardsAssumption DEF ShardsInv
<1> DEFINE v == gen[g].version
           Older(i) == shards[i].status = "ready" /\ shards[i].version < v
<1>1. CASE UNCHANGED shards
  BY <1>1, GeneratorEnds DEF MarkSuperseded
<1>2. CASE shards' = [i \in ShardIds |-> IF Older(i) THEN [shards[i] EXCEPT !.status = "superseded"] ELSE shards[i]]
  <2>1. /\ \A i \in ShardIds : shards'[i].version = shards[i].version
        /\ \A i \in ShardIds : Older(i) => shards'[i].status = "superseded"
        /\ \A i \in ShardIds : ~Older(i) => shards'[i] = shards[i]
        /\ shards' \in [ShardIds -> [version : 0 .. MaxShards, chunks : SUBSET Chunks,
                                    status : {"none", "pending", "failed", "ready", "superseded"}]]
    BY <1>2, SMTT(30) DEF ShardTypes
  <2>2. gen[g].pc = "ready" /\ Returns(g) /\ UNCHANGED <<minted, admitted>>
    BY DEF MarkSuperseded
  <2>3. ShardTypes'
    BY <2>1, <2>2 DEF Returns, Idle, ShardTypes
  <2>4. \A h \in Generators : gen'[h].pc \in Numbered => h # g /\ gen'[h] = gen[h]
    BY <2>2 DEF Returns, Idle, ShardTypes, Numbered
  <2>5. \A h \in Generators : gen[h].pc \in Numbered => gen[h].id \in ShardIds
    BY DEF ShardTypes, OwnRow, ShardIds
  <2>6. OwnRow'
    BY <2>1, <2>2, <2>4, <2>5, SMTT(30) DEF OwnRow, Numbered
  <2>7. PICK j \in ShardIds : shards[j].status = "ready" /\ shards[j].version >= v
    <3>1. gen[g].id \in ShardIds /\ shards[gen[g].id].version = v /\ shards[gen[g].id].status \in {"ready", "superseded"}
      BY <2>2, <2>5 DEF OwnRow, Numbered
    <3> QED BY <3>1 DEF SupersededBySuccessor, Rows, ShardTypes
  <2>8. shards'[j] = shards[j]
    BY <2>1, <2>7 DEF ShardTypes
  <2>9. ASSUME NEW i \in ShardIds, shards'[i].status = "superseded"
        PROVE  \E k \in ShardIds : shards'[k].version > shards'[i].version /\ shards'[k].status = "ready"
    <3>1. CASE Older(i)
      BY <2>1, <2>7, <2>8, <3>1 DEF ShardTypes
    <3>2. CASE ~Older(i)
      <4>1. shards'[i] = shards[i]
        BY <2>1, <3>2
      <4>2. PICK k \in ShardIds : shards[k].version > shards[i].version /\ shards[k].status = "ready"
        BY <2>9, <4>1 DEF SupersededBySuccessor, Rows
      <4>3. CASE Older(k)
        BY <2>1, <2>7, <2>8, <4>1, <4>2, <4>3 DEF ShardTypes
      <4>4. CASE ~Older(k)
        BY <2>1, <4>1, <4>2, <4>4
      <4> QED BY <4>3, <4>4
    <3> QED BY <3>1, <3>2
  <2>10. SupersededBySuccessor'
    BY <2>9 DEF SupersededBySuccessor, Rows
  <2> QED BY <2>3, <2>6, <2>10
<1> QED BY <1>1, <1>2 DEF MarkSuperseded

\* Every step of the generations, the policy and the device.
LEMMA ShardsStepInv == ASSUME ShardsInv, [ShardsNext]_shardVars PROVE ShardsInv'
<1> USE ShardsAssumption DEF ShardsInv
<1> DEFINE G == [pc : {"idle", "selected"} \cup Numbered, eligible : SUBSET Chunks, id : 0 .. MaxShards, version : 0 .. MaxShards]
<1>0. ASSUME UNCHANGED <<shards, minted, gen, admitted>> PROVE ShardsInv'
  BY <1>0 DEF ShardTypes, OwnRow, SupersededBySuccessor, Rows
<1>1. ASSUME NEW g \in Generators, SelectChunks(g) PROVE ShardsInv'
  <2> DEFINE new == [gen[g] EXCEPT !.pc = "selected", !.eligible = admitted]
  <2>1. gen' = [gen EXCEPT ![g] = new] /\ UNCHANGED <<shards, minted, admitted>>
    BY <1>1 DEF SelectChunks
  <2>2. new \in G /\ new.pc \notin Numbered
    BY ZenonT(60) DEF ShardTypes, Numbered
  <2> HIDE DEF new
  <2>3. ShardTypes'
    BY <2>1, <2>2 DEF ShardTypes
  <2>4. OwnRow'
    BY <2>1, <2>2 DEF ShardTypes, OwnRow, Numbered
  <2>5. SupersededBySuccessor'
    BY <2>1 DEF SupersededBySuccessor, Rows
  <2> QED BY <2>3, <2>4, <2>5
<1>2. ASSUME NEW g \in Generators, ReadVersion(g) PROVE ShardsInv'
  <2>1. PICK v \in ShardIds :
          gen' = [gen EXCEPT ![g] = [pc |-> "numbered", eligible |-> @.eligible, id |-> minted + 1, version |-> v]]
    BY <1>2, Zenon DEF ReadVersion
  <2>2. minted + 1 \in ShardIds /\ minted' = minted + 1 /\ UNCHANGED <<shards, admitted>>
    BY <1>2 DEF ReadVersion, ShardTypes, ShardIds
  <2> DEFINE new == [pc |-> "numbered", eligible |-> gen[g].eligible, id |-> minted + 1, version |-> v]
  <2>3. new \in G /\ new.id = minted + 1 /\ new.pc = "numbered"
    <3>1. v \in 0 .. MaxShards /\ minted + 1 \in 0 .. MaxShards /\ gen[g].eligible \in SUBSET Chunks
      BY <2>2 DEF ShardTypes, ShardIds
    <3> QED BY <3>1 DEF Numbered
  <2>4. gen' = [gen EXCEPT ![g] = new]
    BY <2>1
  <2> HIDE DEF new
  <2>6. ShardTypes'
    BY <2>2, <2>3, <2>4, SMTT(30) DEF ShardTypes, ShardIds
  <2>7. OwnRow'
    <3>1. gen'[g] = new /\ \A h \in Generators \ {g} : gen'[h] = gen[h]
      BY <2>4 DEF ShardTypes
    <3>2. minted \in Nat /\ shards[minted + 1].status = "none"
      BY <2>2 DEF ShardTypes, OwnRow
    <3>3. \A i \in ShardIds : i > minted' => shards'[i].status = "none"
      BY <2>2, <3>2 DEF OwnRow, ShardIds
    <3>4. \A h \in Generators : gen'[h].pc \in Numbered => gen'[h].id \in 1 .. minted'
      BY <2>2, <2>3, <3>1, <3>2 DEF OwnRow
    <3>5. \A h \in Generators \ {g} : gen[h].pc \in Numbered => gen[h].id # minted + 1
      BY <3>2 DEF OwnRow
    <3> QED BY <2>2, <2>3, <3>1, <3>2, <3>3, <3>4, <3>5 DEF OwnRow, Numbered
  <2>5. SupersededBySuccessor'
    BY <2>2 DEF SupersededBySuccessor, Rows
  <2> QED BY <2>5, <2>6, <2>7
<1>3. ASSUME NEW g \in Generators, GeneratorCrash(g) PROVE ShardsInv'
  BY <1>3, GeneratorEnds, SMTT(30) DEF GeneratorCrash
<1>4. ASSUME NEW c \in Chunks, PolicyEdit(c) PROVE ShardsInv'
  BY <1>4 DEF PolicyEdit, ShardTypes, OwnRow, SupersededBySuccessor, Rows
<1>5. CASE Delta \/ UNCHANGED shardVars
  BY <1>0, <1>5 DEF Delta, shardVars
<1> QED BY <1>1, <1>2, <1>3, <1>4, <1>5, GenerateStep, SupersedeStep DEF ShardsNext

\* A superseded shard has a ready successor however many generations of a scope
\* interleave, fail or crash (Generate in shard/generator.go).
THEOREM ScopeKeepsReadyShard == ShardsSpec => []SupersededBySuccessor
<1>1. ShardsInv /\ [ShardsNext]_shardVars => ShardsInv'
  BY ShardsStepInv
<1>2. ShardsInv => SupersededBySuccessor
  BY DEF ShardsInv
<1> QED BY ShardsInitInv, <1>1, <1>2, PTL DEF ShardsSpec
=============================================================================
