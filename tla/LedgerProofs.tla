----------------------------- MODULE LedgerProofs -----------------------------
(***************************************************************************)
(* Proofs about what transactions take from the bank and about replay      *)
(* protection, for any transactions, accounts, fees, capacities and any    *)
(* number of blockhashes.                                                  *)
(*                                                                         *)
(* The fee argument follows the sum of all balances through the two paths  *)
(* of an included transaction.  Fail replaces one balance.  Commit         *)
(* replaces those of the writable accounts, which the runtime left summing *)
(* to what the charged copies held, and the others stay.                   *)
(*                                                                         *)
(* The nonce argument orders hashes by <<base, depth>>.  A nonce account's *)
(* value only ever grows in that order: it is set to the hash of the       *)
(* latest blockhash, or of its own value when that is older than the       *)
(* latest blockhash.  NonceInv says so, and that a spent value is both     *)
(* older than the latest blockhash and smaller than the account's current  *)
(* value; the second needs the first, because an account that is created   *)
(* again starts at the latest blockhash.                                   *)
(***************************************************************************)
EXTENDS ReplayProtection, ProcessingProofs

\* Time for the provers on a busy machine; most leaves need a fraction.
USE SMTT(60), ZenonT(60)

-----------------------------------------------------------------------------
(* Fees.                                                                   *)

\* The lamports of every address, an absent account counting as zero.
Balances == [a \in Address |-> Loaded(a).lamports]

BalancesOK ==
    /\ Balances \in [Address -> Nat] /\ TotalLamports = Sum(Balances)
    /\ \A a \in Address : Balances[a] = Loaded(a).lamports

\* Balances are natural numbers, and the total is their sum.
LEMMA BalancesFacts == TypeOK => BalancesOK
<1> SUFFICES ASSUME TypeOK PROVE BalancesOK
  OBVIOUS
<1>1. \A a \in Address : Loaded(a).lamports \in Nat
  BY LoadedFacts, AccountFacts
<1>. QED  BY <1>1 DEF Balances, TotalLamports, BalancesOK

\* A failed transaction takes its fee out of the bank, once.
LEMMA FailTotal ==
    ASSUME TypeOK, ShapeOK(history), TypeOK', NEW t \in AllTx, Fail(t)
    PROVE  TotalLamports' = TotalLamports - t.fee
<1> DEFINE p == t.payer
<1>1. Verdict(t) = "Ok" /\ p \in Address /\ t.fee \in Nat
  BY TxFacts DEF Fail
<1>2. /\ accounts[p] \in Account /\ Loaded(p) = accounts[p]
      /\ accounts[p].lamports >= t.fee /\ accounts[p].lamports \in Nat
  BY <1>1, Collectable, AccountFacts
<1>3. accounts' = [accounts EXCEPT ![p] = Debit(@, t.fee)]
  BY FailFacts
<1>4. accounts \in [Address -> Account \cup {NoAccount}]
  BY DEF TypeOK
<1>. HIDE DEF p
<1>5. /\ Debit(accounts[p], t.fee) \in Account
      /\ Debit(accounts[p], t.fee).lamports = accounts[p].lamports - t.fee
  <2>1. t.fee <= accounts[p].lamports
    BY <1>1, <1>2
  <2>. QED  BY <1>1, <1>2, <2>1, DebitFacts
<1>6. Loaded(p)'.lamports = Loaded(p).lamports - t.fee
  <2>1. accounts'[p] = Debit(accounts[p], t.fee)
    BY <1>1, <1>3, <1>4
  <2>2. Loaded(p)' = Debit(accounts[p], t.fee)
    BY <1>5, <2>1, ProcessingAssumption DEF Loaded
  <2>. QED  BY <1>2, <1>5, <2>2
<1>7. \A a \in Address \ {p} : Loaded(a)' = Loaded(a)
  BY <1>3, <1>4 DEF Loaded
<1>8. /\ Balances \in [Address -> Nat] /\ TotalLamports = Sum(Balances)
      /\ TotalLamports' = Sum(Balances')
      /\ \A a \in Address : Balances[a] = Loaded(a).lamports
      /\ \A a \in Address : Balances'[a] = Loaded(a)'.lamports
      /\ Balances' \in [Address -> Nat]
  <2>1. BalancesOK /\ BalancesOK'
    BY BalancesFacts, PTL
  <2>. QED  BY <2>1 DEF BalancesOK
<1> DEFINE f == Balances
           g == Balances'
           y == f[p] - t.fee
<1>9. f[p] = accounts[p].lamports /\ y \in Nat
  BY <1>1, <1>2, <1>8
<1>10. g[p] = y /\ \A a \in Address \ {p} : g[a] = f[a]
  BY <1>1, <1>6, <1>7, <1>8
<1>11. f \in [Address -> Nat] /\ g \in [Address -> Nat]
  BY <1>8
<1>. HIDE DEF f, g
<1>12. g = [f EXCEPT ![p] = y]
  BY <1>1, <1>10, <1>11
<1>. HIDE DEF y
<1>13. IsFiniteSet(Address)
  BY ProcessingAssumption
<1>14. Sum([f EXCEPT ![p] = y]) = Sum(f) - f[p] + y
  BY ZenonT(60), <1>1, <1>9, <1>11, <1>13, SumExcept
<1>15. Sum(f) \in Nat /\ f[p] \in Nat
  BY <1>1, <1>11, <1>13, SumIsCount
<1>16. Sum(g) = Sum(f) - t.fee
  BY <1>1, <1>12, <1>14, <1>15 DEF y
<1>. QED  BY <1>8, <1>16 DEF f, g

\* What the execution leaves in the writable accounts is what they held, less
\* the fee: the loaded copy of the payer was charged.
LEMMA ExecutionTotal ==
    ASSUME TypeOK, NEW t \in AllTx, Verdict(t) = "Ok",
           NEW b \in BalancesAfter(t)
    PROVE  Sum(b) = Sum([a \in t.writable |-> Balances[a]]) - t.fee
<1> DEFINE p == t.payer
           W == t.writable
           f == [a \in W |-> Balances[a]]
           y == f[p] - t.fee
<1>1. p \in W /\ W \in SUBSET Address /\ t.fee \in Nat /\ IsFiniteSet(W)
  BY TxFacts, ProcessingAssumption, FS_Subset
<1>2. f \in [W -> Nat] /\ \A a \in W : f[a] = Loaded(a).lamports
  BY <1>1, BalancesFacts DEF BalancesOK
<1>3. Loaded(p) \in Account /\ Loaded(p).lamports >= t.fee
  BY <1>1, Collectable
<1>4. y \in Nat /\ Debit(Loaded(p), t.fee).lamports = y
  <2>1. Loaded(p).lamports \in Nat /\ t.fee <= Loaded(p).lamports
    BY <1>1, <1>3, AccountFacts
  <2>2. Debit(Loaded(p), t.fee).lamports = Loaded(p).lamports - t.fee
    BY <1>1, <1>3, <2>1, DebitFacts
  <2>3. f[p] = Loaded(p).lamports
    BY ZenonT(60), <1>1, <1>2
  <2>. HIDE DEF f, p
  <2>. QED  BY <1>1, <2>1, <2>2, <2>3
<1>5. Sum(b) = Sum([a \in W |-> Charged(t)[a].lamports])
  BY DEF BalancesAfter
<1>6. \A a \in W : Charged(t)[a].lamports = IF a = p THEN y ELSE f[a]
  BY <1>2, <1>4 DEF Charged
<1>. HIDE DEF f, y, p, W
<1>7. [a \in W |-> Charged(t)[a].lamports] = [f EXCEPT ![p] = y]
  BY ZenonT(60), <1>1, <1>2, <1>6
<1>8. Sum([f EXCEPT ![p] = y]) = Sum(f) - f[p] + y
  BY ZenonT(60), <1>1, <1>2, <1>4, SumExcept
<1>9. Sum(f) \in Nat /\ f[p] \in Nat
  BY <1>1, <1>2, SumIsCount
<1>10. Sum(b) = Sum(f) - t.fee
  BY <1>1, <1>5, <1>7, <1>8, <1>9 DEF y
<1>. QED  BY <1>10 DEF f, W

\* A successful transaction takes its fee out of the bank, once: the
\* write-back replaces the writable accounts, drops those without lamports
\* and leaves the others alone.
LEMMA CommitTotal ==
    ASSUME TypeOK, TypeOK', NEW t \in AllTx, Commit(t)
    PROVE  TotalLamports' = TotalLamports - t.fee
<1> DEFINE W == t.writable
<1>1. PICK post \in Executions(t) : accounts' = SyncAccounts(post)
  BY DEF Commit
<1>2. PICK b \in BalancesAfter(t), d \in DataAfter(t) :
         post = [a \in W |-> [lamports |-> b[a], data |-> d[a]]]
  BY DEF Executions
<1>3. /\ Verdict(t) = "Ok" /\ W \in SUBSET Address /\ t.fee \in Nat
      /\ post \in [W -> Account] /\ b \in [W -> Lamports]
      /\ Lamports \subseteq Nat
  BY TxFacts, ExecutionTypes, ProcessingAssumption
     DEF Commit, BalancesAfter, Lamports
<1>4. Sum(b) = Sum([a \in W |-> Balances[a]]) - t.fee
  BY <1>3, ExecutionTotal
<1>5. /\ \A a \in Address \ W : accounts'[a] = accounts[a]
      /\ \A a \in W : accounts'[a] =
            IF post[a].lamports = 0 THEN NoAccount ELSE post[a]
  BY <1>1, <1>3, SyncFacts
<1>6. /\ Balances \in [Address -> Nat] /\ Balances' \in [Address -> Nat]
      /\ TotalLamports = Sum(Balances) /\ TotalLamports' = Sum(Balances')
      /\ \A a \in Address : Balances[a] = Loaded(a).lamports
      /\ \A a \in Address : Balances'[a] = Loaded(a)'.lamports
  <2>1. BalancesOK /\ BalancesOK'
    BY BalancesFacts, PTL
  <2>. QED  BY <2>1 DEF BalancesOK
<1>7. ASSUME NEW a \in W PROVE Balances'[a] = b[a]
  <2>1. post[a].lamports = b[a] /\ post[a] \in Account /\ a \in Address
    BY <1>2, <1>3
  <2>2. CASE b[a] = 0
    <3>1. Loaded(a)' = DefaultAccount
      BY <1>5, <2>1, <2>2 DEF Loaded
    <3>. QED  BY <1>6, <2>1, <2>2, <3>1 DEF DefaultAccount
  <2>3. CASE b[a] # 0
    <3>1. Loaded(a)' = post[a]
      BY <1>5, <2>1, <2>3, ProcessingAssumption DEF Loaded
    <3>. QED  BY <1>6, <2>1, <3>1
  <2>. QED  BY <2>2, <2>3
<1>8. ASSUME NEW a \in Address \ W PROVE Balances'[a] = Balances[a]
  <2>1. Loaded(a)' = Loaded(a)
    BY <1>5 DEF Loaded
  <2>. QED  BY <1>6, <2>1
<1> DEFINE f == Balances
           g == Balances'
<1>9. f \in [Address -> Nat] /\ g \in [Address -> Nat]
  BY <1>6
<1>10. \A a \in W : g[a] = b[a]
  BY <1>7
<1>11. \A a \in Address \ W : g[a] = f[a]
  BY <1>8
<1>12. IsFiniteSet(Address)
  BY ProcessingAssumption
<1>13. Sum(b) = Sum([a \in W |-> f[a]]) - t.fee
  BY <1>4
<1>. HIDE DEF f, g, W
<1>14. [a \in W |-> g[a]] = b
  BY <1>3, <1>10
<1>15. [a \in Address \ W |-> g[a]] = [a \in Address \ W |-> f[a]]
  BY <1>11
<1>16. /\ Sum(f) = Sum([a \in W |-> f[a]]) + Sum([a \in Address \ W |-> f[a]])
       /\ Sum(g) = Sum([a \in W |-> g[a]]) + Sum([a \in Address \ W |-> g[a]])
  <2>1. W \in SUBSET Address
    BY <1>3
  <2>2. Sum(f) = Sum([a \in W |-> f[a]]) + Sum([a \in Address \ W |-> f[a]])
    BY <1>9, <1>12, <2>1, SumSplit
  <2>3. Sum(g) = Sum([a \in W |-> g[a]]) + Sum([a \in Address \ W |-> g[a]])
    BY ZenonT(60), <1>9, <1>12, <2>1, SumSplit
  <2>. QED  BY <2>2, <2>3
<1>17. Sum([a \in W |-> f[a]]) \in Nat /\ Sum([a \in Address \ W |-> f[a]]) \in Nat
  <2>1. IsFiniteSet(W) /\ IsFiniteSet(Address \ W)
    BY <1>3, <1>12, FS_Subset
  <2>2. [a \in W |-> f[a]] \in [W -> Nat]
        /\ [a \in Address \ W |-> f[a]] \in [Address \ W -> Nat]
    BY <1>3, <1>9
  <2>. QED  BY <2>1, <2>2, SumIsCount
<1>18. Sum(g) = Sum(f) - t.fee
  BY <1>3, <1>13, <1>14, <1>15, <1>16, <1>17
<1>. QED  BY <1>6, <1>18 DEF f, g

\* What a submitted transaction does to the total.
LEMMA SendTotal ==
    ASSUME PInv, PInv', NEW t \in AllTx, SendTransaction(t)
    PROVE  TotalLamports' = TotalLamports
                            - (IF reply'.included THEN reply'.tx.fee ELSE 0)
<1>0. TypeOK /\ ShapeOK(history) /\ TypeOK'
  BY DEF PInv
<1>1. CASE Reject(t)
  <2>1. accounts' = accounts /\ ~reply'.included
    BY <1>0, <1>1, RejectFacts
  <2>2. TotalLamports' = TotalLamports
    BY <2>1 DEF TotalLamports, Loaded
  <2>3. TotalLamports \in Nat
    BY <1>0, BalancesFacts, SumIsCount, ProcessingAssumption DEF BalancesOK
  <2>. QED  BY <2>1, <2>2, <2>3
<1>2. CASE Fail(t)
  <2>1. reply'.included /\ reply'.tx = t
    BY <1>0, <1>2, FailFacts
  <2>. QED  BY <1>0, <1>2, <2>1, FailTotal
<1>3. CASE Commit(t)
  <2>1. reply'.included /\ reply'.tx = t
    BY <1>0, <1>3, CommitFacts
  <2>. QED  BY <1>0, <1>3, <2>1, CommitTotal
<1>. QED  BY <1>1, <1>2, <1>3 DEF SendTransaction

\* Lamports leave the bank exactly as the fees of included transactions, for
\* any number of accounts: each fee once, on whichever path it is taken.
THEOREM FeesAreAccounted == Spec => FeeAccounting
<1>1. PInv /\ PInv' /\ [Next]_vars =>
        [reply' # NoReply =>
            TotalLamports' = TotalLamports
                - (IF reply'.included THEN reply'.tx.fee ELSE 0)]_vars
  <2> SUFFICES ASSUME PInv, PInv', Next, reply' # NoReply
               PROVE  TotalLamports' = TotalLamports
                          - (IF reply'.included THEN reply'.tx.fee ELSE 0)
    OBVIOUS
  <2>. QED  BY ReplyStep, SendTotal
<1>. QED  BY <1>1, InitPInv, NextPInv, PTL DEF Spec, FeeAccounting

-----------------------------------------------------------------------------
(* Replay protection: the inductive invariant.                             *)

IsNonce(acc) == acc # NoAccount /\ acc.data.kind = "nonce"

Smaller(x, y) == x.base < y.base \/ (x.base = y.base /\ x.depth < y.depth)

\* A nonce is no newer than the latest blockhash, and one that is as new was
\* made from the blockhash itself.
Recent(h, latest) ==
    h.depth >= 1 /\ h.base <= latest /\ (h.base = latest => h.depth = 1)

NonceInv ==
    /\ \A a \in Address : IsNonce(accounts[a]) =>
          Recent(accounts[a].data.nonce, latest_blockhash)
    /\ spent \subseteq Address \X Hash
    /\ \A p \in spent :
          /\ p[2].base < latest_blockhash
          /\ IsNonce(accounts[p[1]]) =>
                Smaller(p[2], accounts[p[1]].data.nonce)

RInv ==
    /\ PInv
    /\ sigverify = TRUE /\ blockhash_check = TRUE
    /\ HistoryInv(history, since)
    /\ NonceInv

-----------------------------------------------------------------------------
(* Hashes and nonce data.                                                  *)

\* The fields of a hash.
LEMMA HashFacts ==
    ASSUME NEW h \in Hash
    PROVE  /\ h.base \in Nat /\ h.depth \in Nat
           /\ h = [base |-> h.base, depth |-> h.depth]
BY ProcessingAssumption DEF Hash

\* A nonce account holds a hash.
LEMMA NonceIsHash ==
    ASSUME NEW acc \in Account, acc.data.kind = "nonce"
    PROVE  acc.data.nonce \in Hash
<1>1. acc.data \in Data
  BY AccountFacts
<1>2. \A d \in Data : d.kind = "nonce" => d.nonce \in Hash
  BY DEF Data, PlainData, NonceData, OtherData
<1>. QED  BY <1>1, <1>2

\* What the age check of a durable nonce transaction establishes: the nonce is
\* older than the latest blockhash.
LEMMA NoncePath ==
    ASSUME TypeOK, NonceInv, NEW t \in AllTx, CheckTransactionAge(t),
           t.hash # Blockhash(latest_blockhash)
    PROVE  /\ t.nonce \in Address /\ t.nonce \in t.advances
           /\ IsNonce(accounts[t.nonce]) /\ accounts[t.nonce].data.nonce = t.hash
           /\ t.hash.base < latest_blockhash /\ t.hash.depth >= 1
<1>1. /\ t.hash # DurableNonce(Blockhash(latest_blockhash))
      /\ CheckMessageForNonce(t)
  BY DEF CheckTransactionAge
<1>2. t.nonce # NoAddress /\ t \in Transaction
      /\ IsNonce(accounts[t.nonce]) /\ accounts[t.nonce].data.nonce = t.hash
  BY <1>1, TxFacts DEF CheckMessageForNonce, IsNonce
<1>3. t.nonce \in Address /\ t.nonce \in t.advances /\ t.hash \in Hash
  BY <1>2, ProcessingAssumption DEF Transaction, AllTx
<1>4. Recent(t.hash, latest_blockhash)
  BY <1>2, <1>3 DEF NonceInv
<1>5. t.hash.base # latest_blockhash
  <2> SUFFICES ASSUME t.hash.base = latest_blockhash PROVE FALSE
    OBVIOUS
  <2>1. t.hash = [base |-> latest_blockhash, depth |-> 1]
    BY <1>3, <1>4, HashFacts DEF Recent
  <2>. QED  BY <1>1, <2>1 DEF DurableNonce, Blockhash
<1>6. latest_blockhash \in Nat /\ t.hash.base \in Nat
  BY <1>3, HashFacts, ProcessingAssumption DEF TypeOK
<1>. QED  BY <1>2, <1>3, <1>4, <1>5, <1>6 DEF Recent

\* What the execution of a transaction may do to a nonce.
LEMMA CommitNonce ==
    ASSUME TypeOK, NEW t \in AllTx, NEW post \in Executions(t),
           NEW a \in t.writable, post[a].data.kind = "nonce"
    PROVE  \/ a \in t.advances /\ post[a].data.nonce = DurableNonce(t.hash)
           \/ /\ a \notin t.advances /\ IsNonce(accounts[a])
              /\ post[a].data.nonce = accounts[a].data.nonce
<1>1. PICK b \in BalancesAfter(t), d \in DataAfter(t) :
          post = [x \in t.writable |-> [lamports |-> b[x], data |-> d[x]]]
  BY DEF Executions
<1>2. post[a].data = d[a]
  BY <1>1
<1>3. NonceStep(t, a, Charged(t)[a].data, d[a])
  BY DEF DataAfter
<1>4. Charged(t)[a].data = Loaded(a).data
  <2>1. a \in Address
    BY TxFacts
  <2>2. Loaded(a) \in Account
    BY <2>1, LoadedFacts
  <2>3. Loaded(a) = [lamports |-> Loaded(a).lamports, data |-> Loaded(a).data]
    BY <2>2, AccountFacts
  <2>. QED  BY <2>3 DEF Charged, Debit
<1>5. Loaded(a).data.kind = "nonce" =>
         IsNonce(accounts[a]) /\ Loaded(a) = accounts[a]
  BY DEF Loaded, DefaultAccount, PlainData, IsNonce
<1>. QED  BY <1>2, <1>3, <1>4, <1>5 DEF NonceStep

-----------------------------------------------------------------------------
(* Every step keeps it.                                                    *)

\* The initial states satisfy it.
LEMMA InitRInv == ReplayInit => RInv
<1> SUFFICES ASSUME ReplayInit PROVE RInv
  OBVIOUS
<1>1. PInv
  BY InitPInv DEF ReplayInit
<1>2. sigverify = TRUE /\ blockhash_check = TRUE
  BY DEF ReplayInit, Init
<1>3. HistoryInv(history, since)
  BY NewHistoryInv DEF ReplayInit, Init
<1>4. NonceInv
  <2>1. ASSUME NEW a \in Address, IsNonce(accounts[a])
        PROVE  Recent(accounts[a].data.nonce, latest_blockhash)
    <3>1. accounts[a].data.nonce = DurableNonce(Blockhash(0))
          /\ latest_blockhash = 0
      BY <2>1, ReplayAssumption DEF ReplayInit, Init, IsNonce
    <3>. QED  BY <3>1 DEF DurableNonce, Blockhash, Recent
  <2>. QED  BY <2>1 DEF NonceInv, ReplayInit
<1>. QED  BY <1>1, <1>2, <1>3, <1>4 DEF RInv

\* An included transaction was not in the history, and recording it keeps the
\* history's invariant with the inclusions counted in `since`.
LEMMA IncludeSince ==
    ASSUME RInv, NEW t \in AllTx, Verdict(t) = "Ok",
           NEW r \in TransactionResult, Include(t, r),
           since' = [s \in Signature |->
                        IF s = t.signature THEN 0 ELSE Older(since[s])]
    PROVE  HistoryInv(history', since')
<1>1. ~CheckTransaction(history, t.signature)
  BY VerdictOk DEF RInv
<1>2. since' = AgesAfterRecord(history, since, t.signature)
  BY <1>1 DEF AgesAfterRecord
<1>3. t.signature \in Signature /\ r \in Result /\ HistoryInv(history, since)
  BY TxFacts, ProcessingAssumption DEF RInv
<1>4. CASE IsEnabled(history)
  BY <1>2, <1>3, <1>4, RecordInv DEF Include
<1>5. CASE ~IsEnabled(history)
  <2>1. history' = history /\ history.capacity = 0
    BY <1>5 DEF Include, IsEnabled
  <2>2. since \in Ages /\ since' \in Ages
    BY <1>3, CapacityAssumption DEF HistoryInv, Ages, Older
  <2>3. history \in History /\ ShapeOK(history)
    BY <1>3 DEF HistoryInv
  <2>4. DOMAIN history.entries = {}
    BY <2>1, <2>3 DEF History, ShapeOK
  <2>5. AgeBound(history, since')
    BY <2>4 DEF AgeBound
  <2>6. Retained(history, since')
    BY <2>1, <2>2, CapacityAssumption DEF Retained, Ages
  <2>. QED  BY <2>1, <2>2, <2>3, <2>5, <2>6 DEF HistoryInv
<1>. QED  BY <1>4, <1>5

\* A successful transaction keeps the order of the nonces.
LEMMA CommitNonceInv ==
    ASSUME RInv, NEW t \in AllTx, Commit(t), Remember
    PROVE  NonceInv'
<1>0. /\ TypeOK /\ NonceInv /\ Verdict(t) = "Ok" /\ blockhash_check
      /\ latest_blockhash \in Nat /\ accounts \in [Address -> Account \cup {NoAccount}]
  BY ProcessingAssumption DEF RInv, PInv, Commit, TypeOK
<1>1. /\ reply' # NoReply /\ reply'.included /\ reply'.tx = t
      /\ reply'.result = "Ok" /\ latest_blockhash' = latest_blockhash
  <2>1. /\ reply'.included /\ reply'.tx = t /\ reply'.result = "Ok"
        /\ latest_blockhash' = latest_blockhash
    BY ZenonT(60), <1>0, CommitFacts
  <2>2. NoReply.result = "NoReply"
    BY DEF NoReply
  <2>. QED  BY <2>1, <2>2
<1>2. PICK post \in [t.writable -> Account] :
         post \in Executions(t) /\ accounts' = SyncAccounts(post)
  BY ZenonT(60), <1>0, CommitFacts
<1>3. t.writable \in SUBSET Address /\ t.hash \in Hash
  BY TxFacts
<1>4. /\ \A a \in Address \ t.writable : accounts'[a] = accounts[a]
      /\ \A a \in t.writable : accounts'[a] # NoAccount => accounts'[a] = post[a]
  BY <1>0, <1>2, <1>3, SyncFacts
<1>5. CheckTransactionAge(t)
  BY <1>0, VerdictOk
\* Where a nonce of the new state comes from.
<1>6. ASSUME NEW a \in Address, IsNonce(accounts'[a])
      PROVE  \/ /\ IsNonce(accounts[a]) /\ a \notin t.advances
                /\ accounts'[a].data.nonce = accounts[a].data.nonce
             \/ a \in t.advances /\ accounts'[a].data.nonce = DurableNonce(t.hash)
  <2>1. CASE a \notin t.writable
    <3>1. t.advances \subseteq t.writable
      BY ProcessingAssumption DEF AllTx
    <3>. QED  BY <1>4, <1>6, <2>1, <3>1
  <2>2. CASE a \in t.writable
    <3>1. accounts'[a] = post[a] /\ post[a].data.kind = "nonce"
      BY <1>4, <1>6, <2>2 DEF IsNonce
    <3>. QED  BY <1>0, <1>2, <2>2, <3>1, CommitNonce
  <2>. QED  BY <2>1, <2>2
<1>7. /\ \A a \in Address : IsNonce(accounts[a]) =>
            /\ Recent(accounts[a].data.nonce, latest_blockhash)
            /\ accounts[a].data.nonce \in Hash
      /\ spent \subseteq Address \X Hash
      /\ \A p \in spent :
            /\ p[2].base < latest_blockhash
            /\ IsNonce(accounts[p[1]]) =>
                  Smaller(p[2], accounts[p[1]].data.nonce)
  BY <1>0, NonceIsHash DEF NonceInv, IsNonce
<1>8. DurableNonce(t.hash).base = t.hash.base
      /\ DurableNonce(t.hash).depth = t.hash.depth + 1
      /\ t.hash.base \in Nat /\ t.hash.depth \in Nat
  BY <1>3, HashFacts DEF DurableNonce
<1>9. CASE t.hash = Blockhash(latest_blockhash)
  <2>1. spent' = spent
    BY <1>1, <1>9 DEF Remember, NonceSpent, Bystanders, UsesNonce
  <2>2. t.hash.base = latest_blockhash /\ t.hash.depth = 0
    BY <1>9 DEF Blockhash
  <2>3. Recent(DurableNonce(t.hash), latest_blockhash)
    BY <1>0, <1>8, <2>2 DEF Recent
  <2>4. \A p \in spent : Smaller(p[2], DurableNonce(t.hash))
    BY <1>7, <1>8, <2>2 DEF Smaller
  <2>5. \A a \in Address : IsNonce(accounts'[a]) =>
           Recent(accounts'[a].data.nonce, latest_blockhash)
    BY <1>6, <1>7, <2>3
  <2>6. \A p \in spent : IsNonce(accounts'[p[1]]) =>
           Smaller(p[2], accounts'[p[1]].data.nonce)
    <3> SUFFICES ASSUME NEW p \in spent, IsNonce(accounts'[p[1]])
                 PROVE  Smaller(p[2], accounts'[p[1]].data.nonce)
      OBVIOUS
    <3>1. p[1] \in Address
      BY <1>7
    <3>. QED  BY <1>6, <1>7, <2>4, <3>1
  <2>. QED  BY <1>1, <1>7, <2>1, <2>5, <2>6 DEF NonceInv
<1>10. CASE t.hash # Blockhash(latest_blockhash)
  <2>1. /\ t.nonce \in Address /\ t.nonce \in t.advances
        /\ IsNonce(accounts[t.nonce]) /\ accounts[t.nonce].data.nonce = t.hash
        /\ t.hash.base < latest_blockhash /\ t.hash.depth >= 1
    BY <1>0, <1>5, <1>10, NoncePath
  <2>2. spent' = {p \in spent : p[1] \notin t.advances \ {t.nonce}}
                    \cup {<<t.nonce, t.hash>>}
    BY <1>1, <1>10 DEF Remember, NonceSpent, Bystanders, UsesNonce, Included
  <2>3. Recent(DurableNonce(t.hash), latest_blockhash)
    BY <1>0, <1>8, <2>1 DEF Recent
  <2>4. Smaller(t.hash, DurableNonce(t.hash))
    BY <1>8 DEF Smaller
  <2>5. \A a \in Address : IsNonce(accounts'[a]) =>
           Recent(accounts'[a].data.nonce, latest_blockhash)
    BY <1>6, <1>7, <2>3
  <2>6. ASSUME NEW p \in spent'
        PROVE  /\ p \in Address \X Hash /\ p[2].base < latest_blockhash
               /\ IsNonce(accounts'[p[1]]) =>
                     Smaller(p[2], accounts'[p[1]].data.nonce)
    <3>1. CASE p = <<t.nonce, t.hash>>
      BY <1>3, <1>6, <2>1, <2>4, <3>1
    \* The pairs of a bystander are dropped, so that its own nonce is the
    \* only one that moves.
    <3>2. CASE p \in spent /\ p[1] \notin t.advances \ {t.nonce}
      <4>1. p \in Address \X Hash /\ p[1] \in Address /\ p[2] \in Hash
            /\ p[2].base < latest_blockhash
        BY <1>7, <3>2
      <4>2. ASSUME IsNonce(accounts'[p[1]]), p[1] \notin t.advances
            PROVE  Smaller(p[2], accounts'[p[1]].data.nonce)
        BY <1>6, <1>7, <3>2, <4>1, <4>2
      <4>3. ASSUME IsNonce(accounts'[p[1]]), p[1] \in t.advances
            PROVE  Smaller(p[2], accounts'[p[1]].data.nonce)
        <5>1. p[1] = t.nonce /\ Smaller(p[2], t.hash)
          BY <1>7, <2>1, <3>2, <4>3
        <5>2. p[2].base \in Nat /\ p[2].depth \in Nat
          BY <4>1, HashFacts
        <5>3. Smaller(p[2], DurableNonce(t.hash))
          BY <1>8, <5>1, <5>2 DEF Smaller
        <5>4. accounts'[p[1]].data.nonce = DurableNonce(t.hash)
          BY <1>6, <4>1, <4>3
        <5>. QED  BY <5>3, <5>4
      <4>. QED  BY <4>1, <4>2, <4>3
    <3>. QED  BY <2>2, <3>1, <3>2
  <2>. QED  BY <1>1, <2>5, <2>6 DEF NonceInv
<1>. QED  BY <1>9, <1>10

\* A failed transaction leaves every nonce as it was.
LEMMA FailNonceInv ==
    ASSUME RInv, NEW t \in AllTx, Fail(t), Remember
    PROVE  NonceInv'
<1>0. TypeOK /\ ShapeOK(history) /\ NonceInv /\ t.payer \in Address
      /\ accounts \in [Address -> Account \cup {NoAccount}]
  BY TxFacts DEF RInv, PInv, TypeOK
<1>1. /\ accounts' = [accounts EXCEPT ![t.payer] = Debit(@, t.fee)]
      /\ latest_blockhash' = latest_blockhash /\ reply'.result # "Ok"
  BY <1>0, FailFacts
<1>2. spent' = spent
  BY <1>1 DEF Remember, NonceSpent, Bystanders
<1>3. accounts[t.payer] # NoAccount
  <2>1. WithdrawError(t.payer, t.fee) = "Ok"
    BY <1>0, Collectable, TxFacts DEF Fail
  <2>. QED  BY <2>1 DEF WithdrawError
<1>4. ASSUME NEW a \in Address, IsNonce(accounts'[a])
      PROVE  IsNonce(accounts[a]) /\ accounts'[a].data.nonce = accounts[a].data.nonce
  <2>1. CASE a # t.payer
    BY <1>0, <1>1, <1>4, <2>1
  <2>2. CASE a = t.payer
    <3>1. accounts[a] \in Account /\ accounts'[a] = Debit(accounts[a], t.fee)
      BY <1>0, <1>1, <1>3, <2>2
    <3>2. accounts[a] = [lamports |-> accounts[a].lamports, data |-> accounts[a].data]
      BY <3>1, AccountFacts
    <3>3. accounts'[a].data = accounts[a].data
      BY <3>1, <3>2 DEF Debit
    <3>. QED  BY <1>3, <1>4, <2>2, <3>3 DEF IsNonce
  <2>. QED  BY <2>1, <2>2
<1>. QED  BY <1>0, <1>1, <1>2, <1>4 DEF NonceInv

\* Submitting a transaction keeps the invariant and respects the window.
LEMMA SubmitRInv ==
    ASSUME RInv, NEW t \in AllTx, SendTransaction(t), Remember
    PROVE  RInv' /\ (Included => since[reply'.tx.signature] >= history.capacity)
<1>0. TypeOK /\ ShapeOK(history) /\ sigverify = TRUE /\ blockhash_check = TRUE
      /\ PInv /\ HistoryInv(history, since)
  BY DEF RInv, PInv
<1>1. PInv'
  BY <1>0, SendPInv
<1>2. sigverify' = TRUE /\ blockhash_check' = TRUE
  BY ZenonT(60), <1>0 DEF SendTransaction, Reject, Fail, Commit, config
<1>3. CASE Reject(t)
  <2>1. /\ UNCHANGED <<accounts, history, latest_blockhash>>
        /\ ~reply'.included
    BY <1>3 DEF Reject, config
  <2>2. since \in [Signature -> 0..MaxCapacity]
    BY <1>0 DEF HistoryInv, Ages
  <2>3. since' = since /\ spent' = spent
    BY <2>1, <2>2 DEF Remember, NonceSpent, Bystanders, Included
  <2>4. NonceInv'
    BY <2>1, <2>3 DEF RInv, NonceInv
  <2>. QED  BY <1>0, <1>1, <1>2, <2>1, <2>3, <2>4 DEF RInv, Included
<1>4. CASE Fail(t) \/ Commit(t)
  <2>1. /\ reply' # NoReply /\ reply'.included /\ reply'.tx = t
        /\ reply'.result \in TransactionResult /\ Include(t, reply'.result)
    <3>1. /\ reply' \in Reply /\ reply'.included /\ reply'.tx = t
          /\ Include(t, reply'.result)
      BY ZenonT(60), <1>0, <1>4, FailFacts, CommitFacts
    <3>2. NoReply.result = "NoReply" /\ "NoReply" \notin TransactionResult
      BY DEF NoReply, TransactionResult, TransactionError
    <3>3. reply'.result \in TransactionResult
      BY <3>1 DEF Reply
    <3>. QED  BY <3>1, <3>2, <3>3
  <2>2. Verdict(t) = "Ok"
    BY <1>4 DEF Fail, Commit
  <2>3. since' = [s \in Signature |->
                     IF s = t.signature THEN 0 ELSE Older(since[s])]
    BY <2>1 DEF Remember, Included
  <2>4. HistoryInv(history', since')
    BY <2>1, <2>2, <2>3, IncludeSince
  <2>5. NonceInv'
    BY <1>4, FailNonceInv, CommitNonceInv
  <2>6. since[t.signature] >= history.capacity
    <3>1. ~CheckTransaction(history, t.signature) /\ t.signature \in Signature
      BY <1>0, <2>2, VerdictOk, TxFacts
    <3>2. Retained(history, since) /\ history.capacity \in Nat
          /\ since[t.signature] \in Nat
      BY <1>0, <3>1, CapacityAssumption DEF HistoryInv, History, Ages
    <3>. QED  BY <3>1, <3>2 DEF Retained, CheckTransaction
  <2>. QED  BY <1>1, <1>2, <2>1, <2>4, <2>5, <2>6 DEF RInv
<1>. QED  BY <1>3, <1>4 DEF SendTransaction

\* An expired blockhash makes every nonce older, none newer.
LEMMA ExpireRInv ==
    ASSUME RInv, Expire
    PROVE  RInv'
<1>1. PInv'
  BY ConfigurePInv DEF RInv, Expire, Configure
<1>2. /\ UNCHANGED <<accounts, history, sigverify, blockhash_check, since, spent>>
      /\ latest_blockhash' = latest_blockhash + 1 /\ latest_blockhash \in Nat
  BY ProcessingAssumption DEF Expire, ExpireBlockhash, RInv, PInv, TypeOK
<1>3. NonceInv'
  <2>1. ASSUME NEW a \in Address, IsNonce(accounts[a])
        PROVE  Recent(accounts[a].data.nonce, latest_blockhash + 1)
    <3>1. accounts[a].data.nonce \in Hash
      BY <2>1, NonceIsHash DEF RInv, PInv, TypeOK, IsNonce
    <3>2. Recent(accounts[a].data.nonce, latest_blockhash)
      BY <2>1 DEF RInv, NonceInv
    <3>. QED  BY <1>2, <3>1, <3>2, HashFacts DEF Recent
  <2>2. ASSUME NEW p \in spent
        PROVE  /\ p[2].base < latest_blockhash + 1
               /\ IsNonce(accounts[p[1]]) =>
                     Smaller(p[2], accounts[p[1]].data.nonce)
    <3>1. p[2] \in Hash /\ p[2].base < latest_blockhash
          /\ (IsNonce(accounts[p[1]]) =>
                Smaller(p[2], accounts[p[1]].data.nonce))
      BY DEF RInv, NonceInv
    <3>2. p[2].base \in Nat
      BY <3>1, HashFacts
    <3>. QED  BY <1>2, <3>1, <3>2
  <2>3. spent \subseteq Address \X Hash
    BY DEF RInv, NonceInv
  <2>. QED  BY <1>2, <2>1, <2>2, <2>3 DEF NonceInv
<1>. QED  BY <1>1, <1>2, <1>3 DEF RInv

\* So does a new capacity.
LEMMA ResizeRInv ==
    ASSUME RInv, NEW n \in HistoryCapacities, Resize(n)
    PROVE  RInv'
<1>1. PInv'
  BY ConfigurePInv DEF RInv, Resize, Configure
<1>2. /\ UNCHANGED <<accounts, latest_blockhash, sigverify, blockhash_check, spent>>
      /\ history' \in SetCapacity(history, n)
      /\ since' = AgesAfterResize(history', since)
  BY DEF Resize, SetTransactionHistory, config
<1>3. HistoryInv(history', since')
  <2>1. n \in 0..MaxCapacity /\ HistoryInv(history, since)
    BY ProcessingAssumption DEF RInv
  <2>. QED  BY <1>2, <2>1, SetCapacityInv
<1>4. NonceInv'
  BY <1>2 DEF RInv, NonceInv
<1>. QED  BY <1>1, <1>2, <1>3, <1>4 DEF RInv

\* Every step keeps the invariant, and includes no transaction too early.
LEMMA NextRInv ==
    ASSUME RInv, [ReplayNext]_replayVars
    PROVE  /\ RInv'
           /\ ~UNCHANGED replayVars =>
                 (Included => since[reply'.tx.signature] >= history.capacity)
<1>1. ASSUME NEW t \in Tx, Submit(t)
      PROVE  RInv' /\ (Included => since[reply'.tx.signature] >= history.capacity)
  BY <1>1, SubmitRInv DEF Submit, AllTx
<1>2. ASSUME NEW t \in AirdropTx, SubmitAirdrop(t)
      PROVE  RInv' /\ (Included => since[reply'.tx.signature] >= history.capacity)
  BY <1>2, SubmitRInv DEF SubmitAirdrop, Airdrop, AllTx
<1>3. CASE Expire
  BY <1>3, ExpireRInv DEF Expire, ExpireBlockhash, Included
<1>4. ASSUME NEW n \in HistoryCapacities, Resize(n)
      PROVE  RInv' /\ ~Included
  BY <1>4, ResizeRInv DEF Resize, SetTransactionHistory, Included
<1>5. CASE UNCHANGED replayVars
  BY <1>5 DEF replayVars, vars, RInv, PInv, TypeOK, DrainedAccountsArePlain, NonceInv
<1>. QED  BY <1>1, <1>2, <1>3, <1>4, <1>5 DEF ReplayNext

-----------------------------------------------------------------------------
(* The theorems.                                                           *)

\* A transaction that was included is refused until as many others were
\* included as the history holds, for any capacity and set of transactions
\* (maybe_history_check and add_new_transaction).
THEOREM ReplayWindowHolds == ReplaySpec => ReplayWindow
<1>1. ReplayInit => RInv
  BY InitRInv
<1>2. RInv /\ [ReplayNext]_replayVars => RInv'
  BY NextRInv
<1>3. RInv /\ [ReplayNext]_replayVars =>
        [Included => since[reply'.tx.signature] >= history.capacity]_replayVars
  BY NextRInv
<1>. QED  BY <1>1, <1>2, <1>3, PTL DEF ReplaySpec, ReplayWindow

\* A used durable nonce does not return to its account, for any number of
\* accounts, expirations and transactions, so that its transaction does not
\* commit again, before a transaction of another nonce account advances this
\* one (the two conditions of check_transaction_age and the hash that
\* process_transaction hands the runtime).
THEOREM NoncesReturnThroughOthers == ReplaySpec => []NonceReturnsOnlyThroughAnother
<1>1. ReplayInit => RInv
  BY InitRInv
<1>2. RInv /\ [ReplayNext]_replayVars => RInv'
  BY NextRInv
<1>3. RInv => NonceReturnsOnlyThroughAnother
  <2> SUFFICES ASSUME RInv, NEW p \in spent, IsNonce(accounts[p[1]]),
                      accounts[p[1]].data.nonce = p[2]
               PROVE  FALSE
    BY DEF NonceReturnsOnlyThroughAnother, IsNonce
  <2>1. p[2] \in Hash /\ Smaller(p[2], p[2])
    BY DEF RInv, NonceInv
  <2>. QED  BY <2>1, HashFacts DEF Smaller
<1>. QED  BY <1>1, <1>2, <1>3, PTL DEF ReplaySpec

=============================================================================
