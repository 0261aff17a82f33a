------------------------------- MODULE MCReplay -------------------------------
(* Replay protection on a small instance: one plain account, two nonce       *)
(* accounts, fees of zero (the money is the subject of MCProcessing).        *)
EXTENDS ReplayProtection, TLC

CONSTANTS a1, a2, a3, s1, s2, s3, s4

MCMinimumBalance == [n \in {0, 1} |-> n]

MCResult == TransactionResult

MCInitialAccounts ==
    (a1 :> [lamports |-> 1, data |-> PlainData]) @@
    [a \in {a2, a3} |->
        [lamports |-> 1, data |-> [kind |-> "nonce", size |-> 1,
                                   nonce |-> DurableNonce(Blockhash(0))]]]

Plain(s, h) ==
    [signature |-> s, faults |-> {}, hash |-> h, nonce |-> NoAddress,
     payer |-> a1, fee |-> 0, writable |-> {a1}, advances |-> {}]

Nonced(s, h) ==
    [Plain(s, h) EXCEPT !.nonce = a2, !.writable = {a1, a2}, !.advances = {a2}]

\* Plain transactions on each blockhash; durable nonce transactions on the
\* first nonce, on the one after it and on the nonce of the second blockhash;
\* one that may close the nonce account, and one that creates it again; and
\* one of the second nonce account that advances the first one as well.
MCTx ==
    {Plain(s1, Blockhash(0)),
     Nonced(s3, DurableNonce(Blockhash(0))),
     Nonced(s3, DurableNonce(DurableNonce(Blockhash(0)))),
     Nonced(s4, DurableNonce(Blockhash(1))),
     Nonced(s1, Blockhash(1)),
     [Plain(s4, Blockhash(2)) EXCEPT !.writable = {a1, a2}],
     [Plain(s2, Blockhash(2)) EXCEPT !.writable = {a1, a2}, !.advances = {a2}],
     [Plain(s2, DurableNonce(Blockhash(0))) EXCEPT
         !.nonce = a3, !.payer = a3, !.writable = {a2, a3}, !.advances = {a2, a3}]}

MCAirdropTx == {Plain(s4, Blockhash(1))}

\* No action reads the reply.
View == <<accounts, history, latest_blockhash, since, spent>>

=============================================================================
