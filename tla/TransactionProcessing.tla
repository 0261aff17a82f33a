------------------------- MODULE TransactionProcessing -------------------------
(***************************************************************************)
(* The transaction pipeline of crates/litesvm/src/lib.rs: send_transaction *)
(* and simulate_transaction, from sanitization through the signature,      *)
(* blockhash, nonce and history checks, fee payer validation, execution,   *)
(* the rent check and the fee charged to failed transactions, to the       *)
(* history entry and the write-back of the accounts.  LiteSVM is a single  *)
(* object behind &mut self, so each call is one step; what makes the       *)
(* pipeline hard is that two copies of the state are in play (the loaded   *)
(* accounts and the store) and that every check reads a different one.     *)
(*                                                                         *)
(* What the runtime does with the instructions is external: Executions(t)  *)
(* is every outcome the runtime's own rules leave open.                    *)
(***************************************************************************)
EXTENDS TransactionHistory, Rent, FiniteSets, Sums

CONSTANTS
    Address,
    NoAddress,        \* "not a durable nonce transaction"
    NoAccount,        \* an address without an entry in the accounts store
    NonceSize,        \* the data length of a nonce account
    MaxLamports,      \* bound: the largest balance
    MaxBlockhash,     \* bound: how often the blockhash expires
    MaxDepth,         \* bound: how often a nonce is advanced from a blockhash
    InitialAccounts,  \* the accounts the test sets up
    Tx,               \* the transactions the test submits
    AirdropTx,        \* the transfers airdrop() builds, one per blockhash
    AccountInputs,    \* the arguments of set_account
    HistoryCapacities \* the arguments of with_transaction_history

-----------------------------------------------------------------------------
(* Data.                                                                   *)

Lamports == 0..MaxLamports

\* Blockhashes form a chain (each is the hash of the one before), and a
\* durable nonce is the hash of another hash: the hash functions are
\* injective, so a hash is the blockhash it starts from and the number of
\* times it was hashed into a nonce.
Hash == [base : 0..MaxBlockhash, depth : 0..MaxDepth]

Blockhash(n) == [base |-> n, depth |-> 0]

\* DurableNonce::from_blockhash.
DurableNonce(h) == [base |-> h.base, depth |-> h.depth + 1]

NoNonce == [base |-> 0, depth |-> 0]

\* The part of an account besides its lamports, as far as the pipeline looks
\* at it: get_system_account_kind tells apart a system account without data,
\* an initialized nonce account, and everything else.
PlainData == [kind |-> "system", size |-> 0, nonce |-> NoNonce]

NonceData == [kind : {"nonce"}, size : {NonceSize}, nonce : Hash]

OtherData == [kind : {"other"}, size : Size, nonce : {NoNonce}]

Data == {PlainData} \cup NonceData \cup OtherData

Account == [lamports : Lamports, data : Data]

DefaultAccount == [lamports |-> 0, data |-> PlainData]

\* What the checks on the message itself find, each reported by one error.
Fault == {"sanitize", "signature", "config", "tables", "instructions", "size",
          "program", "authority"}

Transaction ==
    [signature : Signature,
     faults    : SUBSET Fault,
     hash      : Hash,                      \* recent_blockhash
     nonce     : Address \cup {NoAddress},  \* get_durable_nonce
     payer     : Address,
     fee       : Lamports,
     writable  : SUBSET Address,
     advances  : SUBSET Address]            \* nonces advanced or initialized

TransactionError ==
    {"SanitizeFailure", "SignatureFailure", "BlockhashNotFound",
     "ConfigError", "AlreadyProcessed", "MaxLoadedAccountsDataSizeExceeded",
     "AccountNotFound", "InvalidAccountForFee", "InsufficientFundsForFee",
     "InsufficientFundsForRent", "InvalidProgramForExecution",
     "InstructionError"}

TransactionResult == TransactionError \cup {"Ok"}

\* The answer to a submitted transaction; `included` stays inside the VM.
Reply == [tx : Transaction, result : TransactionResult, included : BOOLEAN]

NoReply == [result |-> "NoReply"]

ASSUME ProcessingAssumption ==
    /\ MaxLamports \in Nat /\ MaxBlockhash \in Nat /\ MaxDepth \in Nat
    /\ NonceSize \in Size /\ MinimumBalance[NonceSize] > 0
    /\ IsFiniteSet(Address)
    /\ NoAccount \notin Account
    /\ NoAddress \notin Address
    /\ TransactionResult \subseteq Result
    /\ InitialAccounts \in [Address -> Account \cup {NoAccount}]
    /\ \A a \in Address : InitialAccounts[a] # NoAccount =>
          InitialAccounts[a].lamports > 0
    /\ Tx \subseteq Transaction /\ AirdropTx \subseteq Transaction
    /\ \A t \in Tx \cup AirdropTx :
          /\ t.payer \in t.writable /\ t.advances \subseteq t.writable
          /\ t.nonce # NoAddress => t.nonce \in t.advances
    /\ AccountInputs \subseteq Address \X Account
    /\ HistoryCapacities \subseteq 0..MaxCapacity

VARIABLES
    accounts,          \* AccountsDb.inner
    history,           \* the TransactionHistory
    latest_blockhash,  \* its position in the chain of blockhashes
    sigverify,
    blockhash_check,
    reply              \* what send_transaction returned, if it was the last call

vars == <<accounts, history, latest_blockhash, sigverify, blockhash_check,
          reply>>

config == <<latest_blockhash, sigverify, blockhash_check>>

-----------------------------------------------------------------------------
(* The checks, in the order the code makes them.                           *)

\* check_message_for_nonce: the nonce account in the store is initialized,
\* holds the transaction's hash, and its authority signed.
CheckMessageForNonce(t) ==
    /\ t.nonce # NoAddress
    /\ accounts[t.nonce] # NoAccount
    /\ accounts[t.nonce].data.kind = "nonce"
    /\ accounts[t.nonce].data.nonce = t.hash
    /\ "authority" \notin t.faults

\* A plausible slip: a nonce that advancing would not change is accepted.
CheckTransactionAge_NotAdvanceable(t) ==
    t.hash = Blockhash(latest_blockhash) \/ CheckMessageForNonce(t)

\* check_transaction_age: the hash is the latest blockhash, or it is a nonce
\* that advancing would change.
CheckTransactionAge(t) ==
    \/ t.hash = Blockhash(latest_blockhash)
    \/ /\ t.hash # DurableNonce(Blockhash(latest_blockhash))
       /\ CheckMessageForNonce(t)

\* The account as process_transaction loads it: an absent one is empty.
Loaded(a) == IF accounts[a] = NoAccount THEN DefaultAccount ELSE accounts[a]

RentStateOf(acc) == GetAccountRentState(acc.lamports, acc.data.size)

Debit(acc, lamports) == [acc EXCEPT !.lamports = @ - lamports]

\* A nonce account must keep its rent-exempt minimum when it pays a fee.
MinBalance(acc) ==
    IF acc.data.kind = "nonce" THEN MinimumBalance[NonceSize] ELSE 0

\* A plausible slip: a nonce account may be drained like any other.
CanPay_NoMinBalance(acc, fee) == acc.lamports >= fee

CanPay(acc, fee) == acc.lamports >= MinBalance(acc) + fee

\* A plausible slip: whatever account is first pays.
IsSystemAccount_Any(acc) == TRUE

\* get_system_account_kind(acc).is_some()
IsSystemAccount(acc) == acc.data.kind # "other"

\* validate_fee_payer, on the loaded account acc at address a.
ValidateFeePayer(a, acc, fee) ==
    IF acc.lamports = 0 THEN "AccountNotFound"
    ELSE IF ~IsSystemAccount(acc) THEN "InvalidAccountForFee"
    ELSE IF ~CanPay(acc, fee) THEN "InsufficientFundsForFee"
    ELSE IF ~CheckRentStateWithAccount(
                RentStateOf(acc), RentStateOf(Debit(acc, fee)), a)
         THEN "InsufficientFundsForRent"
    ELSE "Ok"

\* sanitize_transaction (with or without verify), then the checks of
\* check_and_process_transaction.
Admission(t) ==
    IF "sanitize" \in t.faults THEN "SanitizeFailure"
    ELSE IF sigverify /\ "signature" \in t.faults THEN "SignatureFailure"
    ELSE IF blockhash_check /\ ~CheckTransactionAge(t)
         THEN "BlockhashNotFound"
    ELSE IF "config" \in t.faults THEN "ConfigError"
    ELSE IF sigverify /\ CheckTransaction(history, t.signature)
         THEN "AlreadyProcessed"
    ELSE "Ok"

\* process_transaction up to the point where the transaction context exists:
\* the size of the lookup tables, the fee payer (the first account), the
\* instructions sysvar, the size of the loaded accounts, and the programs.
Loading(t) ==
    IF "tables" \in t.faults THEN "MaxLoadedAccountsDataSizeExceeded"
    ELSE IF ValidateFeePayer(t.payer, Loaded(t.payer), t.fee) # "Ok"
         THEN ValidateFeePayer(t.payer, Loaded(t.payer), t.fee)
    ELSE IF "instructions" \in t.faults THEN "SanitizeFailure"
    ELSE IF "size" \in t.faults THEN "MaxLoadedAccountsDataSizeExceeded"
    ELSE IF "program" \in t.faults THEN "InvalidProgramForExecution"
    ELSE "Ok"

\* The first error before a context exists.
Verdict(t) == IF Admission(t) # "Ok" THEN Admission(t) ELSE Loading(t)

-----------------------------------------------------------------------------
(* Execution, by the runtime (external).                                   *)

\* The writable accounts as the instructions see them: the fee is paid.
Charged(t) ==
    [a \in t.writable |->
        IF a = t.payer THEN Debit(Loaded(a), t.fee) ELSE Loaded(a)]

\* The nonce instructions use the TRANSACTION'S hash for the next nonce
\* (process_transaction puts it into the environment): an account that is
\* advanced or initialized holds its hash, any other keeps its nonce, and
\* one that this hash already advanced cannot be closed.
NonceStep(t, a, pre, post) ==
    IF a \in t.advances
    THEN /\ post.kind = "nonce" /\ post.nonce = DurableNonce(t.hash)
         /\ pre.kind = "nonce" => pre.nonce # post.nonce
    ELSE \/ pre.kind = "nonce" /\ post.kind = "nonce" /\ post.nonce = pre.nonce
         \/ /\ post.kind # "nonce"
            /\ pre.kind = "nonce" => pre.nonce # DurableNonce(t.hash)

\* No lamports appear or disappear.
BalancesAfter(t) ==
    {b \in [t.writable -> Lamports] :
        Sum(b) = Sum([a \in t.writable |-> Charged(t)[a].lamports])}

DataAfter(t) ==
    {d \in [t.writable -> Data] :
        \A a \in t.writable : NonceStep(t, a, Charged(t)[a].data, d[a])}

\* Every way the writable accounts may look afterwards.
Executions(t) ==
    {[a \in t.writable |-> [lamports |-> b[a], data |-> d[a]]] :
        b \in BalancesAfter(t), d \in DataAfter(t)}

\* A plausible slip: only the fee payer is checked.
CheckAccountsRent_PayerOnly(t, post) ==
    CheckRentStateWithAccount(
        RentStateOf(Loaded(t.payer)), RentStateOf(post[t.payer]), t.payer)

\* check_accounts_rent: the states before are those of the loaded accounts
\* BEFORE the fee was taken.
CheckAccountsRent(t, post) ==
    \A a \in t.writable :
        CheckRentStateWithAccount(
            RentStateOf(Loaded(a)), RentStateOf(post[a]), a)

-----------------------------------------------------------------------------
(* The operations.                                                         *)

\* The error AccountsDb::withdraw returns: unlike the validation it looks at
\* the account in the STORE.
WithdrawError(a, fee) ==
    IF accounts[a] = NoAccount THEN "AccountNotFound"
    ELSE IF accounts[a].lamports < fee + MinBalance(accounts[a])
         THEN "InsufficientFundsForFee"
    ELSE "Ok"

\* A plausible slip: the fee is taken twice.
Withdraw_Twice(a, fee) ==
    IF WithdrawError(a, fee) = "Ok"
    THEN [accounts EXCEPT ![a] = Debit(Debit(@, fee), fee)]
    ELSE accounts

\* A withdrawal takes the fee in place: a balance of zero stays in the store.
Withdraw(a, fee) ==
    IF WithdrawError(a, fee) = "Ok"
    THEN [accounts EXCEPT ![a] = Debit(@, fee)]
    ELSE accounts

\* What send_transaction returns when the execution ends in `outcome`: an
\* error of the withdrawal replaces the error of the execution.
SendReply(t, outcome) ==
    IF Verdict(t) # "Ok" THEN Verdict(t)
    ELSE IF outcome # "Ok" /\ WithdrawError(t.payer, t.fee) # "Ok"
         THEN WithdrawError(t.payer, t.fee)
    ELSE outcome

\* simulate_transaction runs the same checks and charges nobody.
SimulateReply(t, outcome) ==
    IF Verdict(t) # "Ok" THEN Verdict(t) ELSE outcome

\* sync_accounts, as far as balances go: add_account removes the accounts
\* that have no lamports left.
SyncAccounts(post) ==
    [a \in Address |->
        IF a \notin DOMAIN post THEN accounts[a]
        ELSE IF post[a].lamports = 0 THEN NoAccount ELSE post[a]]

\* A plausible slip: only successful transactions are recorded.
Include_OnlyOk(t, result) ==
    history' = IF IsEnabled(history) /\ result = "Ok"
               THEN AddNewTransaction(history, t.signature, result)
               ELSE history

\* The history entry of an included transaction.
Include(t, result) ==
    history' = IF IsEnabled(history)
               THEN AddNewTransaction(history, t.signature, result)
               ELSE history

Init ==
    /\ accounts = InitialAccounts
    /\ history = NewHistory
    /\ latest_blockhash = 0
    /\ sigverify \in BOOLEAN          \* FALSE: default(), TRUE: new()
    /\ blockhash_check = sigverify
    /\ reply = NoReply

\* send_transaction when no context is created: nothing is charged, nothing
\* is recorded.
Reject(t) ==
    /\ Verdict(t) # "Ok"
    /\ reply' = [tx |-> t, result |-> Verdict(t), included |-> FALSE]
    /\ UNCHANGED <<accounts, history, config>>

\* An instruction fails, or the rent check after the last one does.
ExecutionErrors(t) ==
    {"InstructionError"} \cup
        {"InsufficientFundsForRent" : post \in
            {p \in Executions(t) : ~CheckAccountsRent(t, p)}}

\* send_transaction when the execution fails: the fee is withdrawn, the
\* failure is recorded, the accounts are not written back.
Fail(t) ==
    /\ Verdict(t) = "Ok"
    /\ \E e \in ExecutionErrors(t) :
          /\ reply' = [tx |-> t, result |-> SendReply(t, e), included |-> TRUE]
          /\ Include(t, SendReply(t, e))
    /\ accounts' = Withdraw(t.payer, t.fee)
    /\ UNCHANGED config

\* send_transaction when the execution succeeds.
Commit(t) ==
    /\ Verdict(t) = "Ok"
    /\ \E post \in Executions(t) :
          /\ CheckAccountsRent(t, post)
          /\ accounts' = SyncAccounts(post)
    /\ reply' = [tx |-> t, result |-> "Ok", included |-> TRUE]
    /\ Include(t, "Ok")
    /\ UNCHANGED config

SendTransaction(t) == Reject(t) \/ Fail(t) \/ Commit(t)

\* airdrop builds a transfer on the latest blockhash and submits it.
Airdrop(t) ==
    /\ t.hash = Blockhash(latest_blockhash)
    /\ SendTransaction(t)

ExpireBlockhash ==
    /\ latest_blockhash < MaxBlockhash
    /\ latest_blockhash' = latest_blockhash + 1
    /\ UNCHANGED <<accounts, history, sigverify, blockhash_check>>
    /\ reply' = NoReply

SetSigverify(b) ==
    /\ sigverify' = b
    /\ UNCHANGED <<accounts, history, latest_blockhash, blockhash_check>>
    /\ reply' = NoReply

SetBlockhashCheck(b) ==
    /\ blockhash_check' = b
    /\ UNCHANGED <<accounts, history, latest_blockhash, sigverify>>
    /\ reply' = NoReply

SetTransactionHistory(n) ==
    /\ history' \in SetCapacity(history, n)
    /\ UNCHANGED <<accounts, config>>
    /\ reply' = NoReply

\* set_account on an account that is neither a program nor a sysvar.
SetAccount(a, acc) ==
    /\ accounts' = SyncAccounts([b \in {a} |-> acc])
    /\ UNCHANGED <<history, config>>
    /\ reply' = NoReply

Configure ==
    \/ ExpireBlockhash
    \/ \E b \in BOOLEAN : SetSigverify(b) \/ SetBlockhashCheck(b)
    \/ \E n \in HistoryCapacities : SetTransactionHistory(n)
    \/ \E i \in AccountInputs : SetAccount(i[1], i[2])

Next ==
    \/ \E t \in Tx : SendTransaction(t)
    \/ \E t \in AirdropTx : Airdrop(t)
    \/ Configure

Spec == Init /\ [][Next]_vars

-----------------------------------------------------------------------------
(* Properties.                                                             *)

\* Every variable has its type; balances stay within what was put in.
TypeOK ==
    /\ accounts \in [Address -> Account \cup {NoAccount}]
    /\ history \in History
    /\ latest_blockhash \in 0..MaxBlockhash
    /\ sigverify \in BOOLEAN /\ blockhash_check \in BOOLEAN
    /\ reply \in Reply \cup {NoReply}

\* The fee of a failed transaction can always be collected: withdraw, which
\* reads the store, never refuses what validate_fee_payer let pass on the
\* loaded copy.  So simulate_transaction, which does not withdraw, predicts
\* what send_transaction returns, whatever the execution does.
SimulationPredictsSend ==
    \A t \in Tx \cup AirdropTx :
        \A outcome \in {"Ok", "InstructionError", "InsufficientFundsForRent"} :
            SimulateReply(t, outcome) = SendReply(t, outcome)

\* A fee never empties an account that holds state: the comment in
\* validate_fee_payer, "Should we ever allow a fees charge to zero a nonce
\* account's balance. The state MUST be set to uninitialized in that case",
\* never comes to pass.  The only accounts left in the store without lamports
\* are plain system accounts drained by withdraw.
DrainedAccountsArePlain ==
    \A a \in Address :
        accounts[a] # NoAccount /\ accounts[a].lamports = 0
            => accounts[a].data = PlainData

TotalLamports == Sum([a \in Address |-> Loaded(a).lamports])

\* Lamports leave the bank exactly as fees of included transactions,
\* successful or not, and nothing else of a failed transaction sticks: the
\* fee is taken once although the success path charges the loaded copy and
\* the failure path charges the store.
FeeAccounting ==
    [][reply' # NoReply =>
          TotalLamports' = TotalLamports
                           - (IF reply'.included THEN reply'.tx.fee ELSE 0)]_vars

\* No transaction makes an account rent paying, or credits or resizes one that
\* already was, on either path: fee withdrawal and write-back included.
NoNewRentPaying ==
    [][reply' # NoReply =>
          \A a \in Address \ {Incinerator} :
              TransitionAllowed(RentStateOf(Loaded(a)),
                                RentStateOf(Loaded(a)'))]_vars

\* What get_transaction finds for an included transaction is what
\* send_transaction returned for it, and a transaction that was not charged
\* leaves no trace: it can be submitted again.
HistoryAgreesWithReply ==
    [][reply' # NoReply =>
          IF reply'.included
          THEN IsEnabled(history) =>
                  GetTransaction(history', reply'.tx.signature)
                      = {reply'.result}
          ELSE history' = history]_vars

=============================================================================
