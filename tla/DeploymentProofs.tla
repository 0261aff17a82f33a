-------------------------- MODULE DeploymentProofs --------------------------
(***************************************************************************)
(* Proofs about the deployment helpers, for every set of requests, every   *)
(* chunk size and every number of buffers.                                 *)
(***************************************************************************)
EXTENDS ProgramDeployment, FiniteSetTheorems, TLAPS

\* Time for the provers on a busy machine; most leaves need a fraction.
USE SMTT(60), ZenonT(60)

\* The buffer of the call in progress.
Buffer(r) == {[i \in 1..Len(r.bytes) |-> IF i <= offset THEN r.bytes[i] ELSE Zero]}

\* The inductive invariant: where the call is, what its buffer holds, and
\* that no address beyond the ones drawn holds a buffer.
CallInv ==
  \/ /\ pc = "idle" /\ call = {} /\ buffer = {}
  \/ /\ pc = "create" /\ buffer = {} /\ drawn < MaxBuffers
     /\ \E r \in Requests : call = {r}
  \/ /\ pc \in {"write", "deploy"}
     /\ \E r \in Requests, b \in BufferId :
          /\ call = {r} /\ buffer = {b}
          /\ pc = "write" <=> offset < Len(r.bytes)
          /\ buffers[b] = Buffer(r)

DInv ==
  /\ deployed \in [Program -> SUBSET [code : Seq(Byte), authority : SUBSET Key]]
  /\ buffers \in [BufferId -> SUBSET Seq(Byte)]
  /\ drawn \in 0..MaxBuffers /\ buffer \subseteq 1..drawn
  /\ offset \in Nat /\ failures \in Nat
  /\ reply \in {"none", "Ok", "Err", "AlreadyProcessed", "panic"}
  /\ \A b \in BufferId : buffers[b] # {} => b <= drawn
  /\ CallInv
  /\ LeftoversAreFailures

\* Writing the chunk at the offset extends the part of the buffer that is
\* equal to the file by the size of a chunk.
LEMMA WrittenExtends ==
  ASSUME NEW bytes \in Seq(Byte), NEW off \in Nat, off < Len(bytes)
  PROVE  Written([i \in 1..Len(bytes) |-> IF i <= off THEN bytes[i] ELSE Zero], off,
                 Chunk(bytes, off))
           = [i \in 1..Len(bytes) |-> IF i <= off + CHUNK_SIZE THEN bytes[i] ELSE Zero]
<1> DEFINE e == IF off + CHUNK_SIZE <= Len(bytes) THEN off + CHUNK_SIZE ELSE Len(bytes)
           c == SubSeq(bytes, off + 1, e)
           d == [i \in 1..Len(bytes) |-> IF i <= off THEN bytes[i] ELSE Zero]
<1>1. Len(bytes) \in Nat /\ e \in Nat /\ off < e /\ e <= Len(bytes)
  BY DeploymentAssumption
<1>2. /\ DOMAIN c = 1..(e - off)
      /\ \A j \in 1..(e - off) : c[j] = bytes[off + j]
  BY <1>1
<1>3. ASSUME NEW i \in 1..Len(bytes)
      PROVE  (IF i - off \in DOMAIN c THEN c[i - off] ELSE d[i])
               = (IF i <= off + CHUNK_SIZE THEN bytes[i] ELSE Zero)
  <2> HIDE DEF c
  <2>1. CASE i <= off
    BY <2>1, <1>1, <1>2, DeploymentAssumption
  <2>2. CASE off < i /\ i <= e
    <3>1. i - off \in 1..(e - off) /\ off + (i - off) = i
      BY <2>2, <1>1
    <3>2. c[i - off] = bytes[i]
      BY <3>1, <1>2
    <3>3. i <= off + CHUNK_SIZE
      BY <2>2, <1>1, DeploymentAssumption
    <3> QED BY <3>1, <3>2, <3>3, <1>2
  <2>3. CASE e < i
    <3>1. e = off + CHUNK_SIZE
      BY <2>3, <1>1
    <3> QED BY <2>3, <3>1, <1>1, <1>2
  <2> QED BY <2>1, <2>2, <2>3, <1>1
<1> QED BY <1>3, <1>1 DEF Written, Chunk

\* What the invariant says of a file whose chunks are all written.
LEMMA CompleteBuffer ==
  ASSUME NEW bytes \in Seq(Byte), NEW off \in Nat, ~(off < Len(bytes))
  PROVE  [i \in 1..Len(bytes) |-> IF i <= off THEN bytes[i] ELSE Zero] = bytes
<1>1. Len(bytes) \in Nat /\ bytes = [i \in 1..Len(bytes) |-> bytes[i]]
  OBVIOUS
<1>2. \A i \in 1..Len(bytes) : i <= off
  BY <1>1
<1> QED BY <1>1, <1>2

LEMMA EmptyBuffer ==
  ASSUME NEW bytes \in Seq(Byte)
  PROVE  [i \in 1..Len(bytes) |-> Zero]
           = [i \in 1..Len(bytes) |-> IF i <= 0 THEN bytes[i] ELSE Zero]
<1>1. Len(bytes) \in Nat
  OBVIOUS
<1> QED BY <1>1

\* A buffer with part of a file is a sequence of bytes.
LEMMA PartIsSeq ==
  ASSUME NEW bytes \in Seq(Byte), NEW off \in Int
  PROVE  [i \in 1..Len(bytes) |-> IF i <= off THEN bytes[i] ELSE Zero] \in Seq(Byte)
<1>1. Len(bytes) \in Nat
  OBVIOUS
<1>2. \A i \in 1..Len(bytes) : (IF i <= off THEN bytes[i] ELSE Zero) \in Byte
  BY DeploymentAssumption
<1>3. [i \in 1..Len(bytes) |-> IF i <= off THEN bytes[i] ELSE Zero] \in [1..Len(bytes) -> Byte]
  BY <1>2
<1> QED BY <1>1, <1>3

\* The addresses that hold a buffer which is not that of the call.
Left == {b \in BufferId : buffers[b] # {}} \ buffer

\* What a request is made of.
LEMMA RequestFacts ==
  ASSUME NEW r \in Requests
  PROVE  r.payer \in Key /\ r.program \in Program /\ r.bytes \in Seq(Byte)
BY DeploymentAssumption

\* There are finitely many buffers left over.
LEMMA LeftFinite == IsFiniteSet(Left) /\ IsFiniteSet(Left')
<1>1. IsFiniteSet(BufferId)
  BY FS_Interval, DeploymentAssumption DEF BufferId
<1>2. Left \subseteq BufferId /\ Left' \subseteq BufferId
  BY DEF Left, BufferId
<1> QED BY <1>1, <1>2, FS_Subset

\* The initial state satisfies the invariant.
LEMMA InvInit == Init => DInv
<1> SUFFICES ASSUME Init PROVE DInv
  OBVIOUS
<1>1. Left = {}
  BY DEF Init, Left
<1>2. LeftoversAreFailures
  BY <1>1, FS_EmptySet DEF LeftoversAreFailures, Left, Init
<1>3. buffers \in [BufferId -> SUBSET Seq(Byte)] /\ \A b \in BufferId : buffers[b] = {}
  BY DEF Init
<1> QED BY <1>2, <1>3, DeploymentAssumption DEF Init, DInv, CallInv

\* Entering deploy_upgradeable_program.
LEMMA InvBegin ==
  ASSUME DInv, NEW r \in Requests, DeployBegin(r)
  PROVE  DInv'
<1>1. CallInv'
  BY DEF DInv, CallInv, DeployBegin
<1>2. LeftoversAreFailures'
  BY DEF DInv, LeftoversAreFailures, DeployBegin
<1> QED BY <1>1, <1>2 DEF DInv, DeployBegin

\* The buffer account is created at an address that held none.
LEMMA InvCreate ==
  ASSUME DInv, NEW r \in Requests, CreateBuffer(r)
  PROVE  DInv'
<1> DEFINE n == drawn + 1
<1>1. /\ pc = "create" /\ buffer = {} /\ call = {r} /\ n \in BufferId
      /\ drawn \in Nat /\ n \in 1..MaxBuffers /\ ~(n <= drawn)
  BY DeploymentAssumption DEF DInv, CallInv, CreateBuffer, BufferId
<1>2. r.bytes \in Seq(Byte) /\ Len(r.bytes) \in Nat
  BY RequestFacts
<1>3. /\ buffers' \in [BufferId -> SUBSET Seq(Byte)]
      /\ buffers'[n] = {[i \in 1..Len(r.bytes) |-> Zero]}
      /\ \A b \in BufferId \ {n} : buffers'[b] = buffers[b]
  <2>1. [i \in 1..Len(r.bytes) |-> Zero] \in Seq(Byte)
    <3>1. [i \in 1..Len(r.bytes) |-> Zero] \in [1..Len(r.bytes) -> Byte]
      BY DeploymentAssumption
    <3> QED BY <1>2, <3>1
  <2>2. buffers' = [buffers EXCEPT ![n] = {[i \in 1..Len(r.bytes) |-> Zero]}]
    BY DEF CreateBuffer
  <2> HIDE DEF n
  <2> QED BY <1>1, <2>1, <2>2 DEF DInv
<1>4. CallInv'
  <2>1. buffers'[n] = Buffer(r)'
    BY <1>3, <1>2, EmptyBuffer DEF Buffer, CreateBuffer
  <2>2. /\ call' = {r} /\ buffer' = {n} /\ offset' = 0
        /\ pc' = IF 0 < Len(r.bytes) THEN "write" ELSE "deploy"
    BY <1>1 DEF CreateBuffer, After
  <2> HIDE DEF n
  <2>3. n \in BufferId'
    BY <1>1 DEF BufferId
  <2>4. pc' \in {"write", "deploy"} /\ (pc' = "write" <=> offset' < Len(r.bytes))
    BY <2>2
  <2> QED BY <2>1, <2>2, <2>3, <2>4 DEF CallInv
<1>5. Left' = Left
  <2>1. buffer' = {n} /\ buffers[n] = {}
    BY <1>1 DEF CreateBuffer, DInv
  <2> HIDE DEF n
  <2> QED BY <1>1, <1>3, <2>1 DEF Left, BufferId
<1>6. LeftoversAreFailures'
  BY ZenonT(60), <1>5 DEF DInv, LeftoversAreFailures, Left, CreateBuffer
<1>7. \A b \in BufferId : buffers'[b] # {} => b <= drawn'
  <2>1. drawn' = n /\ drawn <= n
    BY <1>1 DEF CreateBuffer
  <2>2. ASSUME NEW b \in BufferId, buffers'[b] # {} PROVE b <= n
    <3>1. CASE b = n
      BY <3>1, <1>1
    <3>2. CASE b # n
      BY <3>2, <2>2, <1>1, <1>3, DeploymentAssumption DEF DInv, BufferId
    <3> QED BY <3>1, <3>2
  <2> QED BY <2>1, <2>2
<1>8. /\ drawn' \in 0..MaxBuffers /\ buffer' \subseteq 1..drawn'
      /\ offset' \in Nat /\ failures' \in Nat /\ deployed' = deployed /\ reply' = reply
  BY <1>1 DEF DInv, CreateBuffer
<1> QED BY <1>3, <1>4, <1>6, <1>7, <1>8 DEF DInv, BufferId

\* One turn of the loop over the chunks.
LEMMA InvWrite ==
  ASSUME DInv, NEW r \in Requests, NEW b \in BufferId, WriteChunk(r, b)
  PROVE  DInv'
<1>1. /\ pc = "write" /\ call = {r} /\ buffer = {b} /\ offset \in Nat
      /\ offset < Len(r.bytes) /\ buffers[b] = Buffer(r)
  BY ZenonT(60) DEF DInv, CallInv, WriteChunk
<1>2. r.bytes \in Seq(Byte) /\ Len(r.bytes) \in Nat
  BY RequestFacts
<1>3. offset' = offset + CHUNK_SIZE /\ offset' \in Nat
  BY <1>1, DeploymentAssumption DEF WriteChunk, NextOffset
<1>4. buffers' = [buffers EXCEPT ![b] = Buffer(r)']
  <2>1. PICK data \in buffers[b] :
          buffers' = [buffers EXCEPT ![b] = {Written(data, offset, Chunk(r.bytes, offset))}]
    BY ZenonT(60) DEF WriteChunk
  <2>2. data = [i \in 1..Len(r.bytes) |-> IF i <= offset THEN r.bytes[i] ELSE Zero]
    BY <1>1 DEF Buffer
  <2>3. Written(data, offset, Chunk(r.bytes, offset))
          = [i \in 1..Len(r.bytes) |-> IF i <= offset + CHUNK_SIZE THEN r.bytes[i] ELSE Zero]
    BY <1>1, <1>2, <2>2, WrittenExtends
  <2>4. Buffer(r)'
          = {[i \in 1..Len(r.bytes) |-> IF i <= offset + CHUNK_SIZE THEN r.bytes[i] ELSE Zero]}
    BY <1>3 DEF Buffer
  <2> QED BY <2>1, <2>3, <2>4
<1>5. Buffer(r)' \in SUBSET Seq(Byte) /\ Buffer(r)' # {}
  BY <1>2, <1>3, PartIsSeq DEF Buffer
<1>6. /\ buffers' \in [BufferId -> SUBSET Seq(Byte)]
      /\ buffers'[b] = Buffer(r)'
      /\ \A c \in BufferId \ {b} : buffers'[c] = buffers[c]
  BY <1>4, <1>5 DEF DInv
<1>7. CallInv'
  <2>1. /\ call' = {r} /\ buffer' = {b}
        /\ pc' = IF offset' < Len(r.bytes) THEN "write" ELSE "deploy"
    BY <1>1 DEF WriteChunk, After
  <2>2. pc' \in {"write", "deploy"} /\ (pc' = "write" <=> offset' < Len(r.bytes))
    BY <2>1
  <2> QED BY <2>1, <2>2, <1>6 DEF CallInv, BufferId
<1>8. Left' = Left
  BY <1>1, <1>6 DEF Left, BufferId, WriteChunk
<1>9. LeftoversAreFailures'
  BY ZenonT(60), <1>8 DEF DInv, LeftoversAreFailures, Left, WriteChunk
<1>10. \A c \in BufferId : buffers'[c] # {} => c <= drawn'
  <2>1. b <= drawn
    BY <1>1, DeploymentAssumption DEF DInv, BufferId
  <2> QED BY <2>1, <1>6 DEF DInv, WriteChunk
<1> QED BY <1>3, <1>6, <1>7, <1>9, <1>10 DEF DInv, WriteChunk, BufferId

\* Deploying consumes the buffer of the call, which holds the whole file.
LEMMA InvDeploy ==
  ASSUME DInv, NEW r \in Requests, NEW b \in BufferId, Deploy(r, b)
  PROVE  /\ DInv' /\ r.bytes \in Loadable
         /\ deployed' = [deployed EXCEPT ![r.program] =
                           {[code |-> r.bytes, authority |-> {r.payer}]}]
<1>1. /\ pc = "deploy" /\ call = {r} /\ buffer = {b} /\ offset \in Nat
      /\ ~(offset < Len(r.bytes)) /\ buffers[b] = Buffer(r)
  BY ZenonT(60) DEF DInv, CallInv, Deploy
<1>2. r.bytes \in Seq(Byte) /\ r.program \in Program /\ {r.payer} \in SUBSET Key
  BY RequestFacts
<1>3. buffers[b] = {r.bytes}
  BY <1>1, <1>2, CompleteBuffer DEF Buffer
<1>4. /\ r.bytes \in Loadable
      /\ deployed' = [deployed EXCEPT ![r.program] =
                        {[code |-> r.bytes, authority |-> {r.payer}]}]
  BY ZenonT(60), <1>3 DEF Deploy
<1>5. deployed' \in [Program -> SUBSET [code : Seq(Byte), authority : SUBSET Key]]
  <2>1. [code |-> r.bytes, authority |-> {r.payer}] \in [code : Seq(Byte), authority : SUBSET Key]
    BY <1>2
  <2> QED BY <1>2, <1>4, <2>1 DEF DInv
<1>6. /\ buffers' \in [BufferId -> SUBSET Seq(Byte)]
      /\ buffers'[b] = {}
      /\ \A c \in BufferId \ {b} : buffers'[c] = buffers[c]
  BY DEF DInv, Deploy
<1>7. Left' = Left
  BY <1>1, <1>6 DEF Left, BufferId, Deploy, Return
<1>8. LeftoversAreFailures'
  BY ZenonT(60), <1>7 DEF DInv, LeftoversAreFailures, Left, Deploy
<1>9. CallInv' /\ buffer' = {} /\ offset' = 0 /\ drawn' = drawn /\ failures' = failures /\ reply' = "Ok"
  BY DEF CallInv, Deploy, Return
<1>10. \A c \in BufferId : buffers'[c] # {} => c <= drawn'
  BY <1>6, <1>9 DEF DInv
<1>11. DInv'
  BY <1>5, <1>6, <1>8, <1>9, <1>10 DEF DInv, BufferId
<1> QED BY <1>4, <1>11

\* A transaction of the call fails: its buffer, if it has one, is left over.
LEMMA InvFails ==
  ASSUME DInv, SendFails
  PROVE  DInv' /\ call # {} /\ call' = {} /\ deployed' = deployed
<1>1. /\ call' = {} /\ buffer' = {} /\ offset' = 0 /\ pc' = "idle" /\ reply' = "Err"
      /\ deployed' = deployed /\ buffers' = buffers /\ drawn' = drawn
      /\ failures' = IF buffer = {} THEN failures ELSE failures + 1
  BY DEF SendFails, Return
<1>2. call # {}
  BY DEF DInv, CallInv, SendFails
<1>3. LeftoversAreFailures'
  <2>1. CASE buffer = {}
    BY <1>1, <2>1 DEF DInv, LeftoversAreFailures, BufferId
  <2>2. CASE buffer # {}
    <3>1. PICK b \in BufferId : buffer = {b} /\ buffers[b] # {}
      BY ZenonT(60), <2>2 DEF DInv, CallInv, Buffer
    <3>2. Left' = Left \cup {b} /\ b \notin Left
      BY <1>1, <3>1 DEF Left, BufferId
    <3>3. Cardinality(Left') = Cardinality(Left) + 1
      BY <3>2, LeftFinite, FS_AddElement
    <3> QED BY ZenonT(60), <1>1, <2>2, <3>3 DEF DInv, LeftoversAreFailures, Left
  <2> QED BY <2>1, <2>2
<1>4. CallInv'
  BY <1>1 DEF CallInv
<1>5. /\ deployed' \in [Program -> SUBSET [code : Seq(Byte), authority : SUBSET Key]]
      /\ buffers' \in [BufferId -> SUBSET Seq(Byte)]
      /\ drawn' \in 0..MaxBuffers /\ buffer' \subseteq 1..drawn'
      /\ offset' \in Nat /\ failures' \in Nat
      /\ \A b \in BufferId : buffers'[b] # {} => b <= drawn'
  BY <1>1 DEF DInv
<1> QED BY <1>1, <1>2, <1>3, <1>4, <1>5 DEF DInv, BufferId

\* A change of the upgrade authority is a hand over of the abstract
\* specification, or changes no program.
LEMMA InvAuthority ==
  ASSUME DInv, NEW from \in Key, NEW current \in Key, NEW p \in Program,
         NEW new \in {{}} \cup {{k} : k \in Key},
         set_upgrade_authority(from, p, current, new)
  PROVE  /\ DInv' /\ call' = call
         /\ deployed' = deployed \/ Atomic!HandOver(p, current, new)
<1>1. /\ pc = "idle" /\ call = {}
      /\ UNCHANGED <<call, pc, buffer, offset, buffers, drawn, failures>>
  BY DEF DInv, CallInv, set_upgrade_authority
<1>2. CallInv' /\ LeftoversAreFailures'
  BY <1>1 DEF DInv, CallInv, LeftoversAreFailures, BufferId
<1>3. reply' \in {"Ok", "Err", "AlreadyProcessed", "panic"}
  BY DEF set_upgrade_authority
<1>4. CASE deployed' = deployed
  BY <1>1, <1>2, <1>3, <1>4 DEF DInv, BufferId
<1>5. CASE \E d \in deployed[p] :
             /\ d.authority = {current}
             /\ deployed' = [deployed EXCEPT ![p] = {[code |-> d.code, authority |-> new]}]
  <2>1. PICK d \in deployed[p] :
             /\ d.authority = {current}
             /\ deployed' = [deployed EXCEPT ![p] = {[code |-> d.code, authority |-> new]}]
    BY ZenonT(60), <1>5
  <2>2. Atomic!HandOver(p, current, new)
    BY ZenonT(60), <1>1, <1>5 DEF Atomic!HandOver
  <2>3. d.code \in Seq(Byte) /\ new \in SUBSET Key
    BY DEF DInv
  <2>4. [code |-> d.code, authority |-> new] \in [code : Seq(Byte), authority : SUBSET Key]
    BY <2>3
  <2>5. deployed' \in [Program -> SUBSET [code : Seq(Byte), authority : SUBSET Key]]
    BY <2>1, <2>4 DEF DInv
  <2>6. DInv'
    BY <1>1, <1>2, <1>3, <2>5 DEF DInv, BufferId
  <2> QED BY <1>1, <2>2, <2>6
<1> QED BY <1>4, <1>5 DEF set_upgrade_authority

\* Expiring the blockhash only makes repeated transactions possible.
LEMMA InvExpire ==
  ASSUME DInv, expire_blockhash \/ UNCHANGED vars
  PROVE  DInv' /\ UNCHANGED <<deployed, call>>
<1>1. UNCHANGED <<deployed, call, pc, buffer, offset, buffers, drawn, reply, failures>>
  BY DEF expire_blockhash, vars
<1>2. CallInv' /\ LeftoversAreFailures'
  BY <1>1 DEF DInv, CallInv, LeftoversAreFailures, Buffer, BufferId
<1> QED BY <1>1, <1>2 DEF DInv, BufferId

\* Every step preserves the invariant and is a step of the abstract
\* specification, or one that it does not see.
LEMMA InvStep ==
  ASSUME DInv, [Next]_vars
  PROVE  DInv' /\ [Atomic!ANext]_(Atomic!avars)
<1>1. CASE \E r \in Requests : DeployBegin(r)
  <2>1. PICK r \in Requests : DeployBegin(r)
    BY <1>1
  <2>2. Atomic!Begin(r)
    BY <2>1 DEF Atomic!Begin, DeployBegin, DInv, CallInv
  <2> QED BY <2>1, <2>2, InvBegin DEF Atomic!ANext
<1>2. CASE \E r \in Requests : CreateBuffer(r)
  <2>1. PICK r \in Requests : CreateBuffer(r)
    BY <1>2
  <2>2. UNCHANGED Atomic!avars
    BY <2>1 DEF CreateBuffer, Atomic!avars
  <2> QED BY <2>1, <2>2, InvCreate
<1>3. CASE \E r \in Requests, b \in BufferId : WriteChunk(r, b)
  <2>1. PICK r \in Requests, b \in BufferId : WriteChunk(r, b)
    BY <1>3
  <2>2. UNCHANGED Atomic!avars
    BY <2>1 DEF WriteChunk, Atomic!avars
  <2> QED BY <2>1, <2>2, InvWrite
<1>4. CASE \E r \in Requests, b \in BufferId : Deploy(r, b)
  <2>1. PICK r \in Requests, b \in BufferId : Deploy(r, b)
    BY <1>4
  <2>2. Atomic!Succeed(r)
    BY ZenonT(60), <2>1, InvDeploy DEF Atomic!Succeed, Deploy, Return
  <2> QED BY <2>1, <2>2, InvDeploy DEF Atomic!ANext
<1>5. CASE SendFails
  BY <1>5, InvFails DEF Atomic!Fail, Atomic!ANext
<1>6. CASE \E from, current \in Key, p \in Program, new \in {{}} \cup {{k} : k \in Key} :
             set_upgrade_authority(from, p, current, new)
  <2>1. PICK from \in Key, current \in Key, p \in Program, new \in {{}} \cup {{k} : k \in Key} :
             set_upgrade_authority(from, p, current, new)
    BY <1>6
  <2>2. new \in SUBSET Key
    OBVIOUS
  <2>3. CASE deployed' = deployed
    BY <2>1, <2>3, InvAuthority DEF Atomic!avars
  <2>4. CASE Atomic!HandOver(p, current, new)
    <3>1. Atomic!ANext
      BY <2>2, <2>4 DEF Atomic!ANext
    <3> QED BY <2>1, <3>1, InvAuthority
  <2> QED BY <2>1, <2>3, <2>4, InvAuthority
<1>7. CASE expire_blockhash \/ UNCHANGED vars
  BY <1>7, InvExpire DEF Atomic!avars
<1> QED BY <1>1, <1>2, <1>3, <1>4, <1>5, <1>6, <1>7 DEF Next, Step

\* The invariant gives the three state properties.
LEMMA InvImplies == DInv => TypeOK /\ BufferHoldsPrefix /\ LeftoversAreFailures
<1> SUFFICES ASSUME DInv PROVE TypeOK /\ BufferHoldsPrefix /\ LeftoversAreFailures
  OBVIOUS
<1>1. call \subseteq Requests /\ pc \in {"idle", "create", "write", "deploy"}
  BY DEF DInv, CallInv
<1>2. \A b \in BufferId : \A data \in buffers[b] : data \in Seq(Byte)
  BY DEF DInv
<1>3. TypeOK
  BY <1>1, <1>2 DEF DInv, TypeOK
<1>4. ASSUME NEW r \in call, NEW b \in buffer, NEW data \in buffers[b]
      PROVE  /\ Len(data) = Len(r.bytes)
             /\ \A i \in 1..Len(data) : data[i] = IF i <= offset THEN r.bytes[i] ELSE Zero
  <2>1. data = [i \in 1..Len(r.bytes) |-> IF i <= offset THEN r.bytes[i] ELSE Zero] /\ r \in Requests
    BY <1>4 DEF DInv, CallInv, Buffer
  <2>2. Len(r.bytes) \in Nat
    BY <2>1, RequestFacts
  <2> QED BY <2>1, <2>2
<1> QED BY <1>3, <1>4 DEF BufferHoldsPrefix, DInv

\* The variables of the helpers keep their types.
THEOREM DeploymentTypes == Spec => []TypeOK
BY InvInit, InvStep, InvImplies, PTL DEF Spec

\* Between two chunks the buffer is the file up to the offset, for every file
\* and every chunk size: load_upgradeable_buffer skips and repeats no byte.
THEOREM PrefixWritten == Spec => []BufferHoldsPrefix
BY InvInit, InvStep, InvImplies, PTL DEF Spec

\* The buffer accounts that stay behind are exactly those of the calls that
\* failed after load_upgradeable_buffer created one.
THEOREM LeftoversCounted == Spec => []LeftoversAreFailures
BY InvInit, InvStep, InvImplies, PTL DEF Spec

\* deploy_upgradeable_program and set_upgrade_authority implement the abstract
\* deployment: a program appears at once and complete or not at all.
THEOREM DeploymentIsAtomic == Spec => ImplementsAtomic
<1>1. Init => Atomic!AInit
  BY DEF Init, Atomic!AInit
<1> QED BY <1>1, InvInit, InvStep, PTL DEF Spec, ImplementsAtomic, Atomic!ASpec
=============================================================================
