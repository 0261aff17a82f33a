--------------------------- MODULE ProcessingProofs ---------------------------
(***************************************************************************)
(* Proofs about the transaction pipeline, for any accounts, transactions,  *)
(* fees and rent.  The inductive invariant is the type invariant, the      *)
(* shape of the history and DrainedAccountsArePlain; what a single call    *)
(* does is proved from it once, in the lemmas about Verdict, Fail and      *)
(* Commit.                                                                 *)
(***************************************************************************)
EXTENDS TransactionProcessing, OperatorProofs

\* Time for the provers on a busy machine; most leaves need a fraction.
USE SMTT(60), ZenonT(60)

PInv == TypeOK /\ ShapeOK(history) /\ DrainedAccountsArePlain

AllTx == Tx \cup AirdropTx

-----------------------------------------------------------------------------
(* Single definitions.                                                     *)

\* The fields of a submitted transaction.
LEMMA TxFacts ==
    ASSUME NEW t \in AllTx
    PROVE  /\ t.signature \in Signature /\ t.payer \in Address
           /\ t.fee \in Lamports /\ t.fee \in Nat /\ t.hash \in Hash
           /\ t.writable \subseteq Address /\ t.payer \in t.writable
           /\ t \in Transaction
<1>1. t \in Transaction /\ t.payer \in t.writable
  BY ProcessingAssumption DEF AllTx
<1>2. Lamports \subseteq Nat
  BY ProcessingAssumption DEF Lamports
<1>. QED  BY ZenonT(60), <1>1, <1>2 DEF Transaction

\* The fields of an account.
LEMMA AccountFacts ==
    ASSUME NEW acc \in Account
    PROVE  /\ acc.lamports \in Lamports /\ acc.lamports \in Nat
           /\ acc.data \in Data /\ acc.data.size \in Size
           /\ acc = [lamports |-> acc.lamports, data |-> acc.data]
<1>1. Lamports \subseteq Nat /\ NonceSize \in Size /\ 0 \in Size
  BY ProcessingAssumption, RentAssumption DEF Lamports
<1>2. \A d \in Data : d.size \in Size
  BY <1>1 DEF Data, PlainData, NonceData, OtherData
<1>. QED  BY ZenonT(60), <1>1, <1>2 DEF Account

\* A loaded account is an account, and an absent one is the default.
LEMMA LoadedFacts ==
    ASSUME TypeOK, NEW a \in Address
    PROVE  /\ Loaded(a) \in Account
           /\ Loaded(a).lamports # 0 =>
                 accounts[a] # NoAccount /\ Loaded(a) = accounts[a]
<1>1. DefaultAccount \in Account /\ DefaultAccount.lamports = 0
  BY ProcessingAssumption DEF DefaultAccount, Account, Lamports, Data
<1>2. accounts[a] \in Account \cup {NoAccount}
  BY DEF TypeOK
<1>. QED  BY <1>1, <1>2 DEF Loaded

\* Taking a fee leaves everything but the lamports.
LEMMA DebitFacts ==
    ASSUME NEW acc \in Account, NEW fee \in Nat, fee <= acc.lamports
    PROVE  /\ Debit(acc, fee) \in Account
           /\ Debit(acc, fee).lamports = acc.lamports - fee
           /\ Debit(acc, fee).data = acc.data
<1>1. /\ acc.lamports \in 0..MaxLamports /\ MaxLamports \in Nat
      /\ acc = [lamports |-> acc.lamports, data |-> acc.data]
      /\ acc.data \in Data
  BY AccountFacts, ProcessingAssumption DEF Lamports
<1>2. Debit(acc, fee) = [lamports |-> acc.lamports - fee, data |-> acc.data]
  BY <1>1 DEF Debit
<1>3. acc.lamports - fee \in Lamports
  BY <1>1 DEF Lamports
<1>. QED  BY <1>1, <1>2, <1>3 DEF Account

\* A rent state may always stay as it is.
LEMMA SameRentState ==
    ASSUME NEW acc \in Account
    PROVE  TransitionAllowed(RentStateOf(acc), RentStateOf(acc))
<1>1. acc.lamports \in Nat
  BY AccountFacts
<1>. QED  BY <1>1 DEF TransitionAllowed, RentStateOf, GetAccountRentState

\* What a payer that passed validate_fee_payer can rely on.
LEMMA ValidPayer ==
    ASSUME NEW a, NEW acc, NEW fee, ValidateFeePayer(a, acc, fee) = "Ok"
    PROVE  /\ acc.lamports # 0 /\ IsSystemAccount(acc) /\ CanPay(acc, fee)
           /\ CheckRentStateWithAccount(
                 RentStateOf(acc), RentStateOf(Debit(acc, fee)), a)
BY DEF ValidateFeePayer

\* What a transaction that reaches execution passed.
LEMMA VerdictOk ==
    ASSUME NEW t, Verdict(t) = "Ok"
    PROVE  /\ ValidateFeePayer(t.payer, Loaded(t.payer), t.fee) = "Ok"
           /\ blockhash_check => CheckTransactionAge(t)
           /\ sigverify => ~CheckTransaction(history, t.signature)
<1>1. Admission(t) = "Ok" /\ Loading(t) = "Ok"
  BY DEF Verdict
<1>2. ValidateFeePayer(t.payer, Loaded(t.payer), t.fee) = "Ok"
  BY <1>1 DEF Loading
<1>3. /\ blockhash_check => CheckTransactionAge(t)
      /\ sigverify => ~CheckTransaction(history, t.signature)
  BY <1>1 DEF Admission
<1>. QED  BY <1>2, <1>3

\* The fee of a transaction that reaches execution can be collected.
LEMMA Collectable ==
    ASSUME TypeOK, NEW t \in AllTx, Verdict(t) = "Ok"
    PROVE  /\ accounts[t.payer] \in Account
           /\ Loaded(t.payer) = accounts[t.payer]
           /\ accounts[t.payer].lamports >= t.fee
           /\ WithdrawError(t.payer, t.fee) = "Ok"
<1> DEFINE acc == accounts[t.payer]
<1>1. t.payer \in Address /\ t.fee \in Nat
  BY TxFacts
<1>2. ValidateFeePayer(t.payer, Loaded(t.payer), t.fee) = "Ok"
  BY VerdictOk
<1>3. Loaded(t.payer).lamports # 0 /\ CanPay(Loaded(t.payer), t.fee)
  BY <1>2, ValidPayer
<1>4. acc # NoAccount /\ Loaded(t.payer) = acc /\ acc \in Account
  BY <1>1, <1>3, LoadedFacts
<1>5. /\ MinBalance(acc) \in Nat /\ acc.lamports \in Nat
      /\ acc.lamports >= MinBalance(acc) + t.fee
  BY <1>3, <1>4, AccountFacts, ProcessingAssumption, RentAssumption
     DEF CanPay, MinBalance
<1>. HIDE DEF acc
<1>6. acc.lamports >= t.fee /\ ~(acc.lamports < t.fee + MinBalance(acc))
  BY <1>1, <1>5
<1>. QED  BY <1>4, <1>6 DEF WithdrawError, acc

\* What the runtime hands back are accounts.
LEMMA ExecutionTypes ==
    ASSUME NEW t, NEW post \in Executions(t)
    PROVE  post \in [t.writable -> Account]
<1>1. PICK b \in BalancesAfter(t), d \in DataAfter(t) :
          post = [a \in t.writable |-> [lamports |-> b[a], data |-> d[a]]]
  BY DEF Executions
<1>2. b \in [t.writable -> Lamports] /\ d \in [t.writable -> Data]
  BY DEF BalancesAfter, DataAfter
<1>. QED  BY <1>1, <1>2 DEF Account

\* The write-back keeps the types and leaves no account without lamports.
LEMMA SyncFacts ==
    ASSUME TypeOK, NEW W \in SUBSET Address, NEW post \in [W -> Account]
    PROVE  /\ SyncAccounts(post) \in [Address -> Account \cup {NoAccount}]
           /\ \A a \in Address \ W : SyncAccounts(post)[a] = accounts[a]
           /\ \A a \in W : SyncAccounts(post)[a] =
                 IF post[a].lamports = 0 THEN NoAccount ELSE post[a]
<1>1. accounts \in [Address -> Account \cup {NoAccount}]
  BY DEF TypeOK
<1>2. DOMAIN post = W
  OBVIOUS
<1>. QED  BY <1>1, <1>2 DEF SyncAccounts

\* Recording an included transaction keeps the history in shape.
LEMMA IncludeFacts ==
    ASSUME TypeOK, ShapeOK(history), NEW t \in AllTx,
           NEW r \in TransactionResult, Include(t, r)
    PROVE  /\ history' \in History /\ ShapeOK(history')
           /\ history'.capacity = history.capacity
           /\ IsEnabled(history) => GetTransaction(history', t.signature) = {r}
<1> DEFINE age == [s \in Signature |-> MaxCapacity]
<1>1. t.signature \in Signature /\ r \in Result /\ history \in History
  BY TxFacts, ProcessingAssumption DEF TypeOK
<1>2. CASE ~IsEnabled(history)
  BY <1>1, <1>2 DEF Include
<1>3. CASE IsEnabled(history)
  <2>1. history' = AddNewTransaction(history, t.signature, r)
    BY <1>3 DEF Include
  <2>2. HistoryInv(history, age)
    <3>1. /\ history.entries \in Seq(Entry) /\ history.capacity \in 0..MaxCapacity
          /\ Len(history.entries) <= history.capacity /\ MaxCapacity \in Nat
      BY <1>1, CapacityAssumption DEF History, ShapeOK
    <3>2. age \in Ages /\ Retained(history, age)
      BY <3>1 DEF Ages, Retained
    <3>3. AgeBound(history, age)
      <4> SUFFICES ASSUME NEW i \in DOMAIN history.entries
                   PROVE  age[history.entries[i].signature]
                            >= Len(history.entries) - i
        BY DEF AgeBound
      <4>1. i \in 1..Len(history.entries) /\ history.entries[i] \in Entry
        BY <3>1
      <4>2. age[history.entries[i].signature] = MaxCapacity
        BY <4>1 DEF Entry
      <4>. QED  BY <3>1, <4>1, <4>2
    <3>. QED  BY <1>1, <3>2, <3>3 DEF HistoryInv
  <2>. HIDE DEF age
  <2>3. /\ HistoryInv(history', AgesAfterRecord(history, age, t.signature))
        /\ history'.capacity = history.capacity
        /\ CheckTransaction(history', t.signature)
    BY <1>1, <1>3, <2>1, <2>2, RecordInv
  <2>4. GetTransaction(history', t.signature) = {r}
    BY <1>1, <1>3, <2>1, <2>3, RecordFound
  <2>. QED  BY <2>3, <2>4 DEF HistoryInv
<1>. QED  BY <1>2, <1>3

-----------------------------------------------------------------------------
(* What one submitted transaction does.                                    *)

\* The results a transaction can have are results.
LEMMA VerdictType == ASSUME NEW t PROVE Verdict(t) \in TransactionResult
<1>1. Admission(t) \in TransactionResult
  BY DEF Admission, TransactionResult, TransactionError
<1>2. ValidateFeePayer(t.payer, Loaded(t.payer), t.fee) \in TransactionResult
  BY DEF ValidateFeePayer, TransactionResult, TransactionError
<1>3. Loading(t) \in TransactionResult
  BY <1>2 DEF Loading, TransactionResult, TransactionError
<1>. QED  BY <1>1, <1>3 DEF Verdict

\* A rejected transaction changes nothing.
LEMMA RejectFacts ==
    ASSUME TypeOK, NEW t \in AllTx, Reject(t)
    PROVE  /\ UNCHANGED <<accounts, history, latest_blockhash, sigverify,
                          blockhash_check>>
           /\ reply' \in Reply /\ ~reply'.included
<1>1. t \in Transaction /\ Verdict(t) \in TransactionResult
  BY TxFacts, VerdictType
<1>. QED  BY <1>1 DEF Reject, config, Reply

\* A failed transaction pays its fee and is recorded with the error returned.
LEMMA FailFacts ==
    ASSUME TypeOK, ShapeOK(history), NEW t \in AllTx, Fail(t)
    PROVE  /\ accounts' = [accounts EXCEPT ![t.payer] = Debit(@, t.fee)]
           /\ reply' \in Reply /\ reply'.included /\ reply'.tx = t
           /\ reply'.result # "Ok"
           /\ Include(t, reply'.result)
           /\ UNCHANGED <<latest_blockhash, sigverify, blockhash_check>>
<1>1. Verdict(t) = "Ok" /\ t \in Transaction
  BY TxFacts DEF Fail
<1>2. WithdrawError(t.payer, t.fee) = "Ok"
  BY <1>1, Collectable
<1>3. PICK e \in ExecutionErrors(t) :
         /\ reply' = [tx |-> t, result |-> SendReply(t, e), included |-> TRUE]
         /\ Include(t, SendReply(t, e))
  BY ZenonT(60) DEF Fail
<1>4. e \in {"InstructionError", "InsufficientFundsForRent"}
  BY DEF ExecutionErrors
<1>5. SendReply(t, e) = e
  BY <1>1, <1>2 DEF SendReply
<1>6. reply' \in Reply /\ reply'.included /\ reply'.tx = t /\ reply'.result = e
  BY <1>1, <1>3, <1>4, <1>5 DEF Reply, TransactionResult, TransactionError
<1>7. accounts' = [accounts EXCEPT ![t.payer] = Debit(@, t.fee)]
  BY <1>2 DEF Fail, Withdraw
<1>8. UNCHANGED <<latest_blockhash, sigverify, blockhash_check>>
  BY DEF Fail, config
<1>. QED  BY <1>3, <1>4, <1>5, <1>6, <1>7, <1>8

\* A successful transaction writes back what its execution left.
LEMMA CommitFacts ==
    ASSUME TypeOK, NEW t \in AllTx, Commit(t)
    PROVE  /\ \E post \in [t.writable -> Account] :
                 /\ post \in Executions(t) /\ CheckAccountsRent(t, post)
                 /\ accounts' = SyncAccounts(post)
           /\ reply' \in Reply /\ reply'.included /\ reply'.tx = t
           /\ reply'.result = "Ok"
           /\ Include(t, reply'.result)
           /\ UNCHANGED <<latest_blockhash, sigverify, blockhash_check>>
<1>1. PICK post \in Executions(t) :
         CheckAccountsRent(t, post) /\ accounts' = SyncAccounts(post)
  BY DEF Commit
<1>2. post \in [t.writable -> Account]
  BY ExecutionTypes
<1>3. reply' = [tx |-> t, result |-> "Ok", included |-> TRUE]
      /\ Include(t, "Ok")
      /\ UNCHANGED <<latest_blockhash, sigverify, blockhash_check>>
  BY DEF Commit, config
<1>4. t \in Transaction
  BY TxFacts
<1>. QED  BY <1>1, <1>2, <1>3, <1>4 DEF Reply, TransactionResult

-----------------------------------------------------------------------------
(* The inductive invariant.                                                *)

\* The initial states satisfy it.
LEMMA InitPInv == Init => PInv
<1> SUFFICES ASSUME Init PROVE PInv
  OBVIOUS
<1>1. accounts \in [Address -> Account \cup {NoAccount}]
  BY ProcessingAssumption DEF Init
<1>2. history \in History /\ ShapeOK(history)
  BY NewHistoryInv DEF Init, HistoryInv
<1>3. latest_blockhash \in 0..MaxBlockhash
  BY ProcessingAssumption DEF Init
<1>4. sigverify \in BOOLEAN /\ blockhash_check \in BOOLEAN /\ reply = NoReply
  BY DEF Init
<1>5. DrainedAccountsArePlain
  <2> SUFFICES ASSUME NEW a \in Address, accounts[a] # NoAccount
               PROVE  accounts[a].lamports # 0
    BY DEF DrainedAccountsArePlain
  <2>1. accounts[a] \in Account /\ InitialAccounts[a].lamports > 0
        /\ accounts[a] = InitialAccounts[a]
    BY <1>1, ProcessingAssumption DEF Init
  <2>2. accounts[a].lamports \in Nat
    BY <2>1, AccountFacts
  <2>. QED  BY <2>1, <2>2
<1>. QED  BY <1>1, <1>2, <1>3, <1>4, <1>5 DEF PInv, TypeOK

\* A fee taken from the store empties only plain accounts.
LEMMA FailPInv ==
    ASSUME PInv, NEW t \in AllTx, Fail(t)
    PROVE  PInv'
<1> DEFINE acc == accounts[t.payer]
<1>0. TypeOK /\ ShapeOK(history)
  BY DEF PInv
<1>1. /\ accounts' = [accounts EXCEPT ![t.payer] = Debit(@, t.fee)]
      /\ reply' \in Reply /\ Include(t, reply'.result)
      /\ UNCHANGED <<latest_blockhash, sigverify, blockhash_check>>
  BY <1>0, FailFacts
<1>2. history' \in History /\ ShapeOK(history')
  <2>1. reply'.result \in TransactionResult
    BY <1>1 DEF Reply
  <2>. QED  BY <1>0, <1>1, <2>1, IncludeFacts
<1>3. /\ Verdict(t) = "Ok" /\ t.payer \in Address /\ t.fee \in Nat
      /\ accounts \in [Address -> Account \cup {NoAccount}]
  BY <1>0, TxFacts DEF Fail, TypeOK
<1>4. acc \in Account /\ Loaded(t.payer) = acc /\ acc.lamports >= t.fee
  BY <1>0, <1>3, Collectable
<1>5. Debit(acc, t.fee) \in Account /\ Debit(acc, t.fee).data = acc.data
      /\ Debit(acc, t.fee).lamports = acc.lamports - t.fee
  <2>1. acc.lamports \in Nat
    BY <1>4, AccountFacts
  <2>. HIDE DEF acc
  <2>2. t.fee <= acc.lamports
    BY <1>3, <1>4, <2>1
  <2>. QED  BY <1>3, <1>4, <2>2, DebitFacts
<1>6. accounts' \in [Address -> Account \cup {NoAccount}]
  BY <1>1, <1>3, <1>5
<1>7. TypeOK'
  BY <1>0, <1>1, <1>2, <1>6 DEF TypeOK
<1>8. Debit(acc, t.fee).lamports = 0 => acc.data = PlainData
  <2>1. /\ IsSystemAccount(acc) /\ CanPay(acc, t.fee)
    BY <1>3, <1>4, VerdictOk, ValidPayer
  <2>2. acc.lamports \in Nat /\ MinimumBalance[NonceSize] \in Nat \ {0}
    BY <1>4, AccountFacts, ProcessingAssumption, RentAssumption
  <2>3. acc.data \in Data
    BY <1>4, AccountFacts
  <2>4. acc.data.kind = "nonce" => acc.lamports - t.fee # 0
    BY <1>3, <2>1, <2>2 DEF CanPay, MinBalance
  <2>5. acc.data.kind # "other"
    BY <2>1 DEF IsSystemAccount
  <2>. HIDE DEF acc
  <2>6. acc.data.kind \notin {"nonce", "other"} => acc.data = PlainData
    BY <2>3 DEF Data, NonceData, OtherData
  <2>. QED  BY <1>5, <2>4, <2>5, <2>6
<1>9. DrainedAccountsArePlain'
  BY <1>1, <1>3, <1>5, <1>8 DEF DrainedAccountsArePlain, PInv
<1>. QED  BY <1>2, <1>7, <1>9 DEF PInv

\* The write-back leaves no drained account behind.
LEMMA CommitPInv ==
    ASSUME PInv, NEW t \in AllTx, Commit(t)
    PROVE  PInv'
<1>0. TypeOK /\ ShapeOK(history)
  BY DEF PInv
<1>1. PICK post \in [t.writable -> Account] : accounts' = SyncAccounts(post)
  BY <1>0, CommitFacts
<1>2. /\ reply' \in Reply /\ Include(t, reply'.result)
      /\ UNCHANGED <<latest_blockhash, sigverify, blockhash_check>>
  BY <1>0, CommitFacts
<1>3. history' \in History /\ ShapeOK(history')
  <2>1. reply'.result \in TransactionResult
    BY <1>2 DEF Reply
  <2>. QED  BY <1>0, <1>2, <2>1, IncludeFacts
<1>4. t.writable \in SUBSET Address
  BY TxFacts
<1>5. /\ accounts' \in [Address -> Account \cup {NoAccount}]
      /\ \A a \in Address \ t.writable : accounts'[a] = accounts[a]
      /\ \A a \in t.writable : accounts'[a] =
            IF post[a].lamports = 0 THEN NoAccount ELSE post[a]
  BY <1>0, <1>1, <1>4, SyncFacts
<1>6. TypeOK'
  BY <1>0, <1>2, <1>3, <1>5 DEF TypeOK
<1>7. DrainedAccountsArePlain'
  BY <1>4, <1>5 DEF DrainedAccountsArePlain, PInv
<1>. QED  BY <1>3, <1>6, <1>7 DEF PInv

\* A submitted transaction keeps the invariant.
LEMMA SendPInv ==
    ASSUME PInv, NEW t \in AllTx, SendTransaction(t)
    PROVE  PInv'
<1>1. CASE Reject(t)
  <2>1. /\ UNCHANGED <<accounts, history, latest_blockhash, sigverify,
                       blockhash_check>>
        /\ reply' \in Reply
    BY <1>1, RejectFacts DEF PInv
  <2>. QED  BY <2>1 DEF PInv, TypeOK, DrainedAccountsArePlain
<1>. QED  BY <1>1, FailPInv, CommitPInv DEF SendTransaction

\* The configuration calls keep the invariant.
LEMMA ConfigurePInv ==
    ASSUME PInv, Configure
    PROVE  PInv' /\ reply' = NoReply
<1>0. TypeOK /\ ShapeOK(history) /\ DrainedAccountsArePlain
  BY DEF PInv
<1>1. CASE ExpireBlockhash
  <2>1. latest_blockhash' \in 0..MaxBlockhash /\ reply' = NoReply
        /\ UNCHANGED <<accounts, history, sigverify, blockhash_check>>
    BY <1>0, <1>1, ProcessingAssumption DEF ExpireBlockhash, TypeOK
  <2>. QED  BY <1>0, <2>1 DEF PInv, TypeOK, DrainedAccountsArePlain
<1>2. ASSUME NEW b \in BOOLEAN, SetSigverify(b) \/ SetBlockhashCheck(b)
      PROVE  PInv' /\ reply' = NoReply
  <2>1. sigverify' \in BOOLEAN /\ blockhash_check' \in BOOLEAN
        /\ reply' = NoReply /\ UNCHANGED <<accounts, history, latest_blockhash>>
    BY <1>0, <1>2 DEF SetSigverify, SetBlockhashCheck, TypeOK
  <2>. QED  BY <1>0, <2>1 DEF PInv, TypeOK, DrainedAccountsArePlain
<1>3. ASSUME NEW n \in HistoryCapacities, SetTransactionHistory(n)
      PROVE  PInv' /\ reply' = NoReply
  <2>1. /\ history' \in SetCapacity(history, n) /\ reply' = NoReply
        /\ UNCHANGED <<accounts, latest_blockhash, sigverify, blockhash_check>>
    BY <1>3 DEF SetTransactionHistory, config
  <2>2. history' \in History /\ ShapeOK(history')
    <3>1. n \in 0..MaxCapacity /\ history \in History
      BY ZenonT(60), <1>0, ProcessingAssumption DEF TypeOK
    <3>2. Len(history.entries) <= history.capacity
      BY <1>0 DEF ShapeOK
    <3>3. /\ history' \in History /\ Len(history'.entries) <= history'.capacity
          /\ Len(history'.entries) <= Len(history.entries)
          /\ \A i \in 1..Len(history'.entries) :
                history'.entries[i] = history.entries[i]
      BY <2>1, <3>1, <3>2, SetCapacityFacts
    <3> DEFINE es == history.entries
               new == history'.entries
    <3>4. es \in Seq(Entry) /\ new \in Seq(Entry)
      BY <3>1, <3>3 DEF History
    <3>5. Len(new) <= Len(es) /\ \A i \in 1..Len(new) : new[i] = es[i]
      BY <3>3
    <3>6. \A i, j \in DOMAIN es : es[i].signature = es[j].signature => i = j
      BY <1>0 DEF ShapeOK
    <3>. HIDE DEF es, new
    <3>7. DOMAIN es = 1..Len(es) /\ DOMAIN new = 1..Len(new)
          /\ Len(es) \in Nat /\ Len(new) \in Nat
      BY <3>4
    <3>8. \A i, j \in DOMAIN new : new[i].signature = new[j].signature => i = j
      BY <3>5, <3>6, <3>7
    <3>. QED  BY <3>3, <3>8 DEF ShapeOK, new
  <2>. QED  BY <1>0, <2>1, <2>2 DEF PInv, TypeOK, DrainedAccountsArePlain
<1>4. ASSUME NEW i \in AccountInputs, SetAccount(i[1], i[2])
      PROVE  PInv' /\ reply' = NoReply
  <2> DEFINE post == [b \in {i[1]} |-> i[2]]
  <2>1. /\ accounts' = SyncAccounts(post) /\ reply' = NoReply
        /\ UNCHANGED <<history, latest_blockhash, sigverify, blockhash_check>>
    BY <1>4 DEF SetAccount, config
  <2>2. i[1] \in Address /\ i[2] \in Account
    BY ProcessingAssumption
  <2>3. post \in [{i[1]} -> Account] /\ {i[1]} \in SUBSET Address
    BY <2>2
  <2>. HIDE DEF post
  <2>4. /\ accounts' \in [Address -> Account \cup {NoAccount}]
        /\ \A a \in Address \ {i[1]} : accounts'[a] = accounts[a]
        /\ \A a \in {i[1]} : accounts'[a] =
              IF post[a].lamports = 0 THEN NoAccount ELSE post[a]
    BY <1>0, <2>1, <2>3, SyncFacts
  <2>5. DrainedAccountsArePlain'
    BY <1>0, <2>4 DEF DrainedAccountsArePlain
  <2>. QED  BY <1>0, <2>1, <2>4, <2>5 DEF PInv, TypeOK
<1>. QED  BY <1>1, <1>2, <1>3, <1>4 DEF Configure

\* Every step keeps the invariant.
LEMMA NextPInv == PInv /\ [Next]_vars => PInv'
<1> SUFFICES ASSUME PInv, [Next]_vars PROVE PInv'
  OBVIOUS
<1>1. ASSUME NEW t \in Tx, SendTransaction(t) PROVE PInv'
  BY <1>1, SendPInv DEF AllTx
<1>2. ASSUME NEW t \in AirdropTx, Airdrop(t) PROVE PInv'
  BY <1>2, SendPInv DEF AllTx, Airdrop
<1>3. CASE Configure
  BY <1>3, ConfigurePInv
<1>4. CASE UNCHANGED vars
  BY <1>4 DEF vars, PInv, TypeOK, DrainedAccountsArePlain
<1>. QED  BY <1>1, <1>2, <1>3, <1>4 DEF Next

-----------------------------------------------------------------------------
(* The action properties, step by step.                                    *)

\* No submitted transaction makes an account rent paying.
LEMMA SendRent ==
    ASSUME TypeOK, ShapeOK(history), NEW t \in AllTx, SendTransaction(t),
           NEW a \in Address \ {Incinerator}
    PROVE  TransitionAllowed(RentStateOf(Loaded(a)), RentStateOf(Loaded(a)'))
<1>0. Loaded(a) \in Account
  BY LoadedFacts
<1>1. CASE accounts'[a] = accounts[a]
  <2>1. Loaded(a)' = Loaded(a)
    BY <1>1 DEF Loaded
  <2>. QED  BY <1>0, <2>1, SameRentState
<1>2. CASE Reject(t)
  BY <1>1, <1>2, RejectFacts
<1>3. CASE Fail(t) /\ a = t.payer
  <2>1. Verdict(t) = "Ok"
    BY <1>3 DEF Fail
  <2>2. accounts[a] \in Account /\ Loaded(a) = accounts[a]
        /\ accounts[a].lamports >= t.fee /\ t.fee \in Nat
    BY <1>3, <2>1, Collectable, TxFacts
  <2>3. CheckRentStateWithAccount(
            RentStateOf(accounts[a]), RentStateOf(Debit(accounts[a], t.fee)), a)
    BY <1>3, <2>1, <2>2, VerdictOk, ValidPayer
  <2>4. accounts' = [accounts EXCEPT ![a] = Debit(@, t.fee)]
    BY <1>3, FailFacts
  <2>5. accounts'[a] = Debit(accounts[a], t.fee)
    BY <2>4 DEF TypeOK
  <2>6. Debit(accounts[a], t.fee) \in Account
    <3>1. accounts[a].lamports \in Nat
      BY <2>2, AccountFacts
    <3>2. t.fee <= accounts[a].lamports
      BY <2>2, <3>1
    <3>. QED  BY <2>2, <3>2, DebitFacts
  <2>7. Loaded(a)' = Debit(accounts[a], t.fee)
    BY <2>5, <2>6, ProcessingAssumption DEF Loaded
  <2>. QED  BY <2>2, <2>3, <2>7 DEF CheckRentStateWithAccount
<1>4. CASE Fail(t) /\ a # t.payer
  <2>1. accounts' = [accounts EXCEPT ![t.payer] = Debit(@, t.fee)]
    BY <1>4, FailFacts
  <2>. QED  BY <1>1, <1>4, <2>1 DEF TypeOK
<1>5. CASE Commit(t)
  <2>1. PICK post \in [t.writable -> Account] :
           CheckAccountsRent(t, post) /\ accounts' = SyncAccounts(post)
    BY <1>5, CommitFacts
  <2>2. t.writable \in SUBSET Address
    BY TxFacts
  <2>3. /\ a \notin t.writable => accounts'[a] = accounts[a]
        /\ a \in t.writable => accounts'[a] =
              IF post[a].lamports = 0 THEN NoAccount ELSE post[a]
    BY <2>1, <2>2, SyncFacts
  <2>4. CASE a \in t.writable
    <3>1. TransitionAllowed(RentStateOf(Loaded(a)), RentStateOf(post[a]))
      BY <2>1, <2>4 DEF CheckAccountsRent, CheckRentStateWithAccount
    <3>2. CASE post[a].lamports # 0
      <4>1. post[a] \in Account /\ accounts'[a] = post[a]
        BY <2>3, <2>4, <3>2
      <4>2. Loaded(a)' = post[a]
        BY <4>1, ProcessingAssumption DEF Loaded
      <4>. QED  BY <3>1, <4>2
    <3>3. CASE post[a].lamports = 0
      <4>1. Loaded(a)' = DefaultAccount
        BY <2>3, <2>4, <3>3 DEF Loaded
      <4>2. RentStateOf(DefaultAccount) = [state |-> "Uninitialized"]
        BY DEF RentStateOf, GetAccountRentState, DefaultAccount
      <4>. QED  BY <4>1, <4>2 DEF TransitionAllowed
    <3>. QED  BY <3>2, <3>3
  <2>. QED  BY <1>1, <2>3, <2>4
<1>. QED  BY <1>2, <1>3, <1>4, <1>5 DEF SendTransaction

\* The history agrees with the reply to a submitted transaction.
LEMMA SendHistory ==
    ASSUME TypeOK, ShapeOK(history), NEW t \in AllTx, SendTransaction(t)
    PROVE  IF reply'.included
           THEN IsEnabled(history) =>
                   GetTransaction(history', reply'.tx.signature)
                       = {reply'.result}
           ELSE history' = history
<1>1. CASE Reject(t)
  BY <1>1, RejectFacts
<1>2. CASE Fail(t) \/ Commit(t)
  <2>1. /\ reply' \in Reply /\ reply'.included /\ reply'.tx = t
        /\ Include(t, reply'.result)
    BY <1>2, FailFacts, CommitFacts
  <2>2. reply'.result \in TransactionResult
    BY <2>1 DEF Reply
  <2>. QED  BY <2>1, <2>2, IncludeFacts
<1>. QED  BY <1>1, <1>2 DEF SendTransaction

\* A step with a reply is a submitted transaction.
LEMMA ReplyStep ==
    ASSUME PInv, Next, reply' # NoReply
    PROVE  \E t \in AllTx : SendTransaction(t)
<1>1. ~Configure
  BY ConfigurePInv
<1>. QED  BY <1>1 DEF Next, AllTx, Airdrop

-----------------------------------------------------------------------------
(* The results.                                                            *)

\* Every variable of the pipeline keeps its type; no fee or write-back takes
\* a balance below zero.
THEOREM ProcessingTypes == Spec => []TypeOK
<1>1. PInv => TypeOK
  BY DEF PInv
<1>. QED  BY <1>1, InitPInv, NextPInv, PTL DEF Spec

\* The only accounts without lamports in the store are plain system accounts,
\* for any fees and any rent: no fee empties a nonce account.
THEOREM DrainedPlain == Spec => []DrainedAccountsArePlain
<1>1. PInv => DrainedAccountsArePlain
  BY DEF PInv
<1>. QED  BY <1>1, InitPInv, NextPInv, PTL DEF Spec

\* withdraw never refuses a fee that validate_fee_payer accepted, so
\* simulate_transaction predicts the result of send_transaction.
THEOREM SimulationFaithful == Spec => []SimulationPredictsSend
<1>1. PInv => SimulationPredictsSend
  <2> SUFFICES ASSUME PInv, NEW t \in AllTx,
                      NEW outcome \in {"Ok", "InstructionError",
                                       "InsufficientFundsForRent"}
               PROVE  SimulateReply(t, outcome) = SendReply(t, outcome)
    BY DEF SimulationPredictsSend, AllTx
  <2>1. Verdict(t) = "Ok" => WithdrawError(t.payer, t.fee) = "Ok"
    BY Collectable DEF PInv
  <2>. QED  BY <2>1 DEF SimulateReply, SendReply
<1>. QED  BY <1>1, InitPInv, NextPInv, PTL DEF Spec

\* No transaction leaves an account rent paying that was not so before, or
\* that was with less or another size.
THEOREM RentNeverWorsens == Spec => NoNewRentPaying
<1>1. PInv /\ [Next]_vars =>
        [reply' # NoReply =>
            \A a \in Address \ {Incinerator} :
                TransitionAllowed(RentStateOf(Loaded(a)),
                                  RentStateOf(Loaded(a)'))]_vars
  <2> SUFFICES ASSUME PInv, Next, reply' # NoReply,
                      NEW a \in Address \ {Incinerator}
               PROVE  TransitionAllowed(RentStateOf(Loaded(a)),
                                        RentStateOf(Loaded(a)'))
    OBVIOUS
  <2>. QED  BY ReplyStep, SendRent DEF PInv
<1>. QED  BY <1>1, InitPInv, NextPInv, PTL DEF Spec, NoNewRentPaying

\* get_transaction returns what send_transaction returned, and a transaction
\* that was not charged leaves no trace in the history.
THEOREM HistoryFaithful == Spec => HistoryAgreesWithReply
<1>1. PInv /\ [Next]_vars =>
        [reply' # NoReply =>
            IF reply'.included
            THEN IsEnabled(history) =>
                    GetTransaction(history', reply'.tx.signature)
                        = {reply'.result}
            ELSE history' = history]_vars
  <2> SUFFICES ASSUME PInv, Next, reply' # NoReply
               PROVE  IF reply'.included
                      THEN IsEnabled(history) =>
                              GetTransaction(history', reply'.tx.signature)
                                  = {reply'.result}
                      ELSE history' = history
    OBVIOUS
  <2>. QED  BY ReplyStep, SendHistory DEF PInv
<1>. QED  BY <1>1, InitPInv, NextPInv, PTL DEF Spec, HistoryAgreesWithReply

=============================================================================
