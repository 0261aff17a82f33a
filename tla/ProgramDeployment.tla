-------------------------- MODULE ProgramDeployment --------------------------
(***************************************************************************)
(* The helpers of `litesvm-loader`: deploy_upgradeable_program writes the  *)
(* code into a buffer account, one transaction per chunk, and deploys from *)
(* the buffer; set_upgrade_authority is one transaction.  Any of the       *)
(* transactions may fail (the payer runs out of lamports, the loader       *)
(* refuses), which ends the call and leaves what the earlier ones wrote.   *)
(* The loader program is external.                                         *)
(***************************************************************************)
EXTENDS Integers, Sequences, FiniteSets

CONSTANTS Program, Key, Loadable, Requests,
          Byte, Zero,   \* what a buffer can hold; a new one holds Zero
          CHUNK_SIZE,
          MaxBuffers,   \* bound: how many buffers are created
          MaxSent       \* bound: changes of authority under one blockhash

ASSUME DeploymentAssumption ==
  /\ CHUNK_SIZE \in Nat \ {0}
  /\ MaxBuffers \in Nat /\ MaxSent \in Nat
  /\ Zero \in Byte
  /\ Requests \subseteq [payer : Key, program : Program, bytes : Seq(Byte)]

\* Keypair::new(): the buffers' addresses, in the order they are drawn.
BufferId == 1..MaxBuffers

VARIABLES deployed,  \* for each program {} or {[code, authority]}
          call,      \* the call of deploy_upgradeable_program, {} or {a request}
          pc,        \* what it does next
          buffer,    \* its buffer account, {} before there is one
          offset,
          buffers,   \* buffer accounts: {} or {contents} for each address
          drawn,     \* the number of keypairs drawn so far
          sent,      \* set_upgrade_authority calls under the latest blockhash
          reply,
          failures   \* history variable: calls that failed with a buffer

vars == <<deployed, call, pc, buffer, offset, buffers, drawn, sent, reply, failures>>

-----------------------------------------------------------------------------
(* deploy_upgradeable_program.                                             *)

DeployBegin(r) ==
  /\ pc = "idle" /\ reply # "panic"
  /\ drawn < MaxBuffers
  /\ call' = {r}
  /\ pc' = "create"
  /\ reply' = "none"
  /\ UNCHANGED <<deployed, buffer, offset, buffers, drawn, sent, failures>>

Return(result) ==
  /\ call' = {} /\ buffer' = {} /\ offset' = 0
  /\ pc' = "idle"
  /\ reply' = result

\* `?` on a transaction that failed.
SendFails ==
  /\ pc # "idle"
  /\ Return("Err")
  /\ failures' = IF buffer = {} THEN failures ELSE failures + 1
  /\ UNCHANGED <<deployed, buffers, drawn, sent>>

\* The loop over the chunks goes on while there are bytes left.
After(bytes, off) == IF off < Len(bytes) THEN "write" ELSE "deploy"

CreateBuffer(r) ==
  /\ pc = "create" /\ call = {r}
  /\ drawn' = drawn + 1
  /\ buffers' = [buffers EXCEPT ![drawn + 1] = {[i \in 1..Len(r.bytes) |-> Zero]}]
  /\ buffer' = {drawn + 1}
  /\ offset' = 0
  /\ pc' = After(r.bytes, 0)
  /\ UNCHANGED <<deployed, call, sent, reply, failures>>

\* The loader's write: the chunk's bytes at the offset, the others as they were.
Written(data, off, chunk) ==
  [i \in DOMAIN data |-> IF i - off \in DOMAIN chunk THEN chunk[i - off] ELSE data[i]]

Chunk(bytes, off) ==
  SubSeq(bytes, off + 1, IF off + CHUNK_SIZE <= Len(bytes) THEN off + CHUNK_SIZE ELSE Len(bytes))

\* A plausible slip: the offset counts chunks.
NextOffsetByOne(off) == off + 1

NextOffset(off) == off + CHUNK_SIZE

WriteChunk(r, b) ==
  /\ pc = "write" /\ call = {r} /\ buffer = {b}
  /\ \E data \in buffers[b] :
       buffers' = [buffers EXCEPT ![b] = {Written(data, offset, Chunk(r.bytes, offset))}]
  /\ offset' = NextOffset(offset)
  /\ pc' = After(r.bytes, offset')
  /\ UNCHANGED <<deployed, call, buffer, drawn, sent, reply, failures>>

\* A plausible slip: the buffer is not the one that is consumed.
DeployKeepingBuffer(r, b) ==
  /\ pc = "deploy" /\ call = {r} /\ buffer = {b}
  /\ deployed[r.program] = {}
  /\ \E data \in buffers[b] :
       /\ data \in Loadable
       /\ deployed' = [deployed EXCEPT ![r.program] =
                         {[code |-> data, authority |-> {r.payer}]}]
  /\ UNCHANGED buffers
  /\ Return("Ok")
  /\ UNCHANGED <<drawn, sent, failures>>

\* A plausible slip: a program that is there is replaced.
DeployOverwriting(r, b) ==
  /\ pc = "deploy" /\ call = {r} /\ buffer = {b}
  /\ \E data \in buffers[b] :
       /\ data \in Loadable
       /\ deployed' = [deployed EXCEPT ![r.program] =
                         {[code |-> data, authority |-> {r.payer}]}]
  /\ buffers' = [buffers EXCEPT ![b] = {}]
  /\ Return("Ok")
  /\ UNCHANGED <<drawn, sent, failures>>

\* The program account is created in the same transaction; the loader
\* verifies the buffer, copies it and closes it.
Deploy(r, b) ==
  /\ pc = "deploy" /\ call = {r} /\ buffer = {b}
  /\ deployed[r.program] = {}
  /\ \E data \in buffers[b] :
       /\ data \in Loadable
       /\ deployed' = [deployed EXCEPT ![r.program] =
                         {[code |-> data, authority |-> {r.payer}]}]
  /\ buffers' = [buffers EXCEPT ![b] = {}]
  /\ Return("Ok")
  /\ UNCHANGED <<drawn, sent, failures>>

-----------------------------------------------------------------------------
(* set_upgrade_authority.                                                  *)

\* The transaction is signed by the sender alone; signing panics when another
\* authority's signature is needed too.
set_upgrade_authority(from, p, current, new) ==
  LET tx == <<from, p, current, new>> IN
  /\ pc = "idle" /\ reply # "panic"
  /\ IF from # current
     THEN reply' = "panic" /\ UNCHANGED <<deployed, sent>>
     ELSE IF tx \in sent
     THEN reply' = "AlreadyProcessed" /\ UNCHANGED <<deployed, sent>>
     ELSE /\ Cardinality(sent) < MaxSent
          /\ sent' = sent \cup {tx}
          /\ \/ \E d \in deployed[p] :
                  /\ d.authority = {current}
                  /\ deployed' = [deployed EXCEPT ![p] =
                                    {[code |-> d.code, authority |-> new]}]
                  /\ reply' = "Ok"
             \/ reply' = "Err" /\ UNCHANGED deployed
  /\ UNCHANGED <<call, pc, buffer, offset, buffers, drawn, failures>>

expire_blockhash ==
  /\ pc = "idle" /\ reply # "panic"
  /\ sent # {} /\ sent' = {}
  /\ UNCHANGED <<deployed, call, pc, buffer, offset, buffers, drawn, reply, failures>>

-----------------------------------------------------------------------------

Init ==
  /\ deployed = [p \in Program |-> {}]
  /\ call = {} /\ pc = "idle" /\ buffer = {} /\ offset = 0
  /\ buffers = [b \in BufferId |-> {}]
  /\ drawn = 0 /\ sent = {}
  /\ reply = "none" /\ failures = 0

\* A step of a call in progress.
Step ==
  \/ \E r \in Requests : CreateBuffer(r) \/ \E b \in BufferId : WriteChunk(r, b) \/ Deploy(r, b)
  \/ SendFails

Next ==
  \/ \E r \in Requests : DeployBegin(r)
  \/ Step
  \/ \E from, current \in Key, p \in Program, new \in {{}} \cup {{k} : k \in Key} :
       set_upgrade_authority(from, p, current, new)
  \/ expire_blockhash

Spec == Init /\ [][Next]_vars

-----------------------------------------------------------------------------
(* Properties.                                                             *)

\* Types of the variables.
TypeOK ==
  /\ deployed \in [Program -> SUBSET [code : Seq(Byte), authority : SUBSET Key]]
  /\ call \subseteq Requests
  /\ pc \in {"idle", "create", "write", "deploy"}
  /\ drawn \in 0..MaxBuffers /\ buffer \subseteq 1..drawn
  /\ offset \in Nat /\ failures \in Nat
  /\ \A b \in BufferId : \A data \in buffers[b] : data \in Seq(Byte)
  /\ reply \in {"none", "Ok", "Err", "AlreadyProcessed", "panic"}

\* Between two chunks the buffer holds the code up to the offset and nothing
\* after it, whatever the chunk size: no byte is skipped, written twice in a
\* different place, or written beyond the end.
BufferHoldsPrefix ==
  \A r \in call, b \in buffer : \A data \in buffers[b] :
    /\ Len(data) = Len(r.bytes)
    /\ \A i \in 1..Len(data) : data[i] = IF i <= offset THEN r.bytes[i] ELSE Zero

\* A call that succeeds leaves no buffer account behind; one that fails after
\* it created its buffer leaves exactly that one.
LeftoversAreFailures ==
  Cardinality({b \in BufferId : buffers[b] # {}} \ buffer) = failures

\* The helpers implement the abstract deployment: a program appears at once,
\* complete, or not at all.
Atomic == INSTANCE AtomicDeployment WITH request <- call

ImplementsAtomic == Atomic!ASpec
=============================================================================
