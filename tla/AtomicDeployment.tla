-------------------------- MODULE AtomicDeployment --------------------------
(***************************************************************************)
(* What the helpers of `litesvm-loader` promise: a call that deploys a     *)
(* program takes effect at one moment, with exactly the bytes it was given *)
(* and the caller as the authority, or fails and changes no program; an    *)
(* authority changes only by the hand of the one before it.                *)
(***************************************************************************)
CONSTANTS Program,    \* addresses of programs
          Key,        \* addresses of payers and authorities
          Loadable,   \* the byte sequences that are programs
          Requests    \* calls of deploy_upgradeable_program

VARIABLES deployed,   \* for each program {} or {[code, authority]}
          request     \* the call in progress, {} or {a request}

avars == <<deployed, request>>

AInit ==
  /\ deployed = [p \in Program |-> {}]
  /\ request = {}

Begin(r) ==
  /\ request = {}
  /\ request' = {r}
  /\ UNCHANGED deployed

Succeed(r) ==
  /\ request = {r}
  /\ deployed[r.program] = {}
  /\ r.bytes \in Loadable
  /\ deployed' = [deployed EXCEPT ![r.program] =
                    {[code |-> r.bytes, authority |-> {r.payer}]}]
  /\ request' = {}

Fail ==
  /\ request # {}
  /\ request' = {}
  /\ UNCHANGED deployed

\* The authority `k` gives a program to somebody else, or makes it final.
HandOver(p, k, new) ==
  /\ request = {}
  /\ \E d \in deployed[p] :
       /\ d.authority = {k}
       /\ deployed' = [deployed EXCEPT ![p] = {[code |-> d.code, authority |-> new]}]
  /\ UNCHANGED request

ANext ==
  \/ \E r \in Requests : Begin(r) \/ Succeed(r)
  \/ Fail
  \/ \E p \in Program, k \in Key, new \in SUBSET Key : HandOver(p, k, new)

ASpec == AInit /\ [][ANext]_avars
=============================================================================
