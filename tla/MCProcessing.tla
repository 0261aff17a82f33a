----------------------------- MODULE MCProcessing -----------------------------
(* The transaction pipeline on a small instance.                            *)
EXTENDS TransactionProcessing, TLC

CONSTANTS a1, a2, a3, s1, s2, s3

MCMinimumBalance == [n \in {0, 1} |-> n + 2]

System(l) == [lamports |-> l, data |-> PlainData]
Nonce(l, h) ==
    [lamports |-> l, data |-> [kind |-> "nonce", size |-> 1, nonce |-> h]]
Other(l, n) ==
    [lamports |-> l, data |-> [kind |-> "other", size |-> n, nonce |-> NoNonce]]

MCResult == TransactionResult

\* A plain payer, a nonce account just above its minimum, and an absent one.
MCInitialAccounts ==
    (a1 :> System(3)) @@ (a2 :> Nonce(4, DurableNonce(Blockhash(0))))
        @@ (a3 :> NoAccount)

Plain(s, h, p, f, w) ==
    [signature |-> s, faults |-> {}, hash |-> h, nonce |-> NoAddress,
     payer |-> p, fee |-> f, writable |-> w, advances |-> {}]

\* Payments by the plain account and by the nonce account, one whose fee would
\* empty the nonce account, one by whatever is at a3, a durable nonce
\* transaction, and one transaction per fault.
MCTx ==
    {Plain(s1, Blockhash(0), a1, 1, {a1, a3}),
     Plain(s2, Blockhash(1), a2, 1, {a2, a3}),
     Plain(s1, Blockhash(1), a2, 4, {a2}),
     Plain(s3, Blockhash(1), a3, 2, {a3}),
     [Plain(s3, DurableNonce(Blockhash(0)), a1, 1, {a1, a2})
         EXCEPT !.nonce = a2, !.advances = {a2}]}
    \cup {[Plain(s1, Blockhash(0), a1, 1, {a1}) EXCEPT !.faults = {f}] :
             f \in Fault}

\* The airdrop account is a1 here.
MCAirdropTx == {Plain(s2, Blockhash(0), a1, 1, {a1, a3})}

MCAccountInputs == {<<a3, Other(1, 1)>>}

\* No action reads the reply: states that differ in it alone have the same
\* successors, and the action properties look at it in the new state only.
View == <<accounts, history, latest_blockhash, sigverify, blockhash_check>>

=============================================================================
