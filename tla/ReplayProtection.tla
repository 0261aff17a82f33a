--------------------------- MODULE ReplayProtection ---------------------------
(***************************************************************************)
(* Replay protection, the joint work of three parts of the pipeline: the   *)
(* blockhash check, the durable nonces and the bounded history.  The       *)
(* specification is TransactionProcessing as LiteSVM::new() configures it  *)
(* (sigverify and blockhash_check on and left on), with two history        *)
(* variables that remember what was included and which nonces were used.   *)
(***************************************************************************)
EXTENDS TransactionProcessing

\* The nonces of the initial accounts were created under the first blockhash.
ASSUME ReplayAssumption ==
    \A a \in Address :
        InitialAccounts[a] # NoAccount /\ InitialAccounts[a].data.kind = "nonce"
            => InitialAccounts[a].data.nonce = DurableNonce(Blockhash(0))

VARIABLES
    since,  \* inclusions since each signature was included, saturating at
            \* MaxCapacity (also: never included, or forgotten by a smaller
            \* capacity)
    spent   \* the <<nonce account, nonce value>> pairs that committed, those
            \* of an account since another account's nonce last advanced it

replayVars == <<vars, since, spent>>

Included == reply' # NoReply /\ reply'.included

\* The reply is to a durable nonce transaction: its age was accepted because
\* of the nonce it carries.
UsesNonce(t) == t.hash # Blockhash(latest_blockhash)

NonceSpent == Included /\ reply'.result = "Ok" /\ UsesNonce(reply'.tx)

\* The nonce accounts that a durable nonce transaction advances besides its
\* own.  The environment holds the transaction's hash, so that they are set to
\* what follows the FIRST one's value, which they may have had before.
Bystanders == IF NonceSpent THEN reply'.tx.advances \ {reply'.tx.nonce} ELSE {}

Remember ==
    /\ since' = [s \in Signature |->
                    IF ~Included THEN since[s]
                    ELSE IF s = reply'.tx.signature THEN 0 ELSE Older(since[s])]
    /\ spent' = {p \in spent : p[1] \notin Bystanders}
                 \cup IF NonceSpent THEN {<<reply'.tx.nonce, reply'.tx.hash>>} ELSE {}

ReplayInit ==
    /\ Init
    /\ sigverify = TRUE
    /\ since = [s \in Signature |-> MaxCapacity]
    /\ spent = {}

Submit(t) == SendTransaction(t) /\ Remember

SubmitAirdrop(t) == Airdrop(t) /\ Remember

Expire == ExpireBlockhash /\ UNCHANGED <<since, spent>>

\* What a smaller capacity drops counts as never included.
Resize(n) ==
    /\ SetTransactionHistory(n)
    /\ since' = AgesAfterResize(history', since)
    /\ UNCHANGED spent

ReplayNext ==
    \/ \E t \in Tx : Submit(t)
    \/ \E t \in AirdropTx : SubmitAirdrop(t)
    \/ Expire
    \/ \E n \in HistoryCapacities : Resize(n)

ReplaySpec == ReplayInit /\ [][ReplayNext]_replayVars

-----------------------------------------------------------------------------
(* Properties.                                                             *)

\* A transaction is not included twice until as many others were included in
\* between as the history has room for: AlreadyProcessed protects at least
\* that long, whatever fails, expires or is rejected in between.
ReplayWindow ==
    [][Included => since[reply'.tx.signature] >= history.capacity]_replayVars

\* A durable nonce value that a committed transaction used does not come back
\* to its account, not even after the account was closed and created again,
\* so that the transaction cannot be committed a second time, also when the
\* history has long forgotten it.  One thing ends this: a durable nonce
\* transaction of ANOTHER account that advances this one as well.
NonceReturnsOnlyThroughAnother ==
    \A p \in spent :
        accounts[p[1]] # NoAccount /\ accounts[p[1]].data.kind = "nonce"
            => accounts[p[1]].data.nonce # p[2]

=============================================================================
