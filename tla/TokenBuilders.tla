---------------------------- MODULE TokenBuilders ----------------------------
(***************************************************************************)
(* The builders of `litesvm-token`.  A builder collects its arguments, and *)
(* its `send` turns them into one transaction: it fills in what was left   *)
(* out, derives accounts, decides which keys sign, signs with the latest   *)
(* blockhash and sends.  The token programs are those of TokenProgram.     *)
(*                                                                         *)
(* A call is a record of the builder's fields.  A field that is an Option  *)
(* is a set with at most one element; `owner` and `signers` are what the   *)
(* setters owner(kp), as {kp} and {{kp}}, and multisig(m, kps), as {m} and *)
(* {kps}, leave behind.  Payers can always afford the fee and the rent.    *)
(***************************************************************************)
EXTENDS TokenProgram

CONSTANTS Tests,        \* what tests do: sets of builder calls
          TOKEN_ID,     \* the default token program of the build
          TokenIds,     \* the program ids the instruction constructors accept
          Legacy,       \* spl_token_interface::ID
          Token2022,    \* spl_token_2022_interface::ID
          NativeMint,   \* the native mint of each program
          Fresh,        \* a sequence: the results of Keypair::new()
          HistoryLimit, \* the capacity of the transaction history
          Pubkey,       \* the keys tests pass to builders
          Keypair,      \* those that come from a keypair
          ProgramId,    \* the program ids tests pass to builders
          MaxSigners    \* MAX_SIGNERS of the token programs

VARIABLES calls,        \* the builder calls of this test
          accounts,     \* the accounts of the token programs
          sent,         \* the transactions in the history, oldest first, all
                        \* with the latest blockhash
          drawn,        \* how many fresh keypairs were drawn
          freezers,     \* history variable: who ever was a mint's freeze authority
          reply         \* the last call, its transaction and its outcome

vars == <<calls, accounts, sent, drawn, freezers, reply>>

\* The addresses of the associated accounts of those keys.
Derived == {Ata(o, m, p) : o \in Pubkey, m \in Pubkey, p \in ProgramId}

\* The keypairs a test holds.  Those a builder draws it drops: a test gets
\* their addresses only, and nobody signs with them again.
FreshKeys == {Fresh[i] : i \in DOMAIN Fresh}
Held == Keypair \ FreshKeys

IsOption(option, S) == option \subseteq S /\ \A v, w \in option : v = w

\* What the types of the setters allow.
IsCall(c) ==
  /\ c.payer \in Held \cap Wallets /\ IsOption(c.owner, Pubkey)
  /\ IsOption(c.token_program_id, ProgramId)
  /\ \A s, t \in c.signers : s = t
  /\ \A s \in c.signers : s \subseteq Held /\ IsFiniteSet(s)
  /\ c.op \in {"Transfer", "TransferChecked", "MintTo", "MintToChecked", "Burn", "BurnChecked"}
       => c.amount \in Nat
  /\ c.op \in {"CreateAccount", "CreateAssociatedTokenAccount",
               "CreateAssociatedTokenAccountIdempotent"} => c.mint \in Pubkey
  /\ c.op = "CreateAccount" => IsOption(c.account_kp, Held)
  /\ c.op = "CreateMultisig" => c.required_signatures \in Nat /\ IsFiniteSet(c.keys)
  /\ c.op = "CloseAccount" => c.destination \in Wallets
  /\ c.op = "SetAuthority" => c.authority_type \in {"mint", "freeze", "owner", "close"}

\* Associated accounts are off the curve, so that no keypair has their address.
\* Nobody sent lamports to a key before it was drawn or to a native mint, and
\* those of a closed account go to a wallet.
ASSUME BuilderAssumption ==
  /\ \A test \in Tests : \A c \in test : IsCall(c)
  /\ TOKEN_ID \in ProgramId
  /\ Keypair \subseteq Pubkey /\ Keypair \cap Derived = {}
  /\ Fresh \in Seq(Keypair)
  /\ \A i, j \in DOMAIN Fresh : Fresh[i] = Fresh[j] => i = j
  /\ \A p \in TokenIds \cup {Legacy} : NativeMint[p] \notin Derived \cup FreshKeys
  /\ Wallets \cap (FreshKeys \cup NativeMints) = {}
  /\ HistoryLimit \in Nat /\ MaxSigners \in Nat

OrElse(option, default) == IF option = {} THEN default ELSE CHOOSE v \in option : TRUE

-----------------------------------------------------------------------------
(* What the builders share.                                                *)

Authority(c) == OrElse(c.owner, c.payer)
Signers(c) == OrElse(c.signers, {c.payer})
TokenProgramId(c) == OrElse(c.token_program_id, TOKEN_ID)

get_multisig_signers_any(authority, signing_keys) ==
  IF authority \in signing_keys \/ Cardinality(signing_keys) = 1 THEN {} ELSE signing_keys

get_multisig_signers(authority, signing_keys) ==
  IF signing_keys = {authority} THEN {} ELSE signing_keys

AssociatedAccountOfPayer(c) == Ata(c.payer, c.mint, TokenProgramId(c))

\* The account a builder falls back to.
AssociatedAccount(c) == Ata(Authority(c), c.mint, TokenProgramId(c))

\* An instruction with an authority.  Its account metas mark the authority as
\* a signer, or the multisig's signers when there are some.
Instruction(c, do, account, mint, more) ==
  Over(more,
       [do |-> do, program |-> TokenProgramId(c), account |-> account, mint |-> mint,
        decimals |-> {}, authority |-> Authority(c),
        signers |-> get_multisig_signers(Authority(c), Signers(c))])

MarkedSigners(ix) ==
  IF HasAuthority(ix) THEN IF ix.signers = {} THEN {ix.authority} ELSE ix.signers
  ELSE IF ix.do = "create" THEN {ix.account} ELSE {}

\* The program ids and the numbers of signers that the constructors accept.
ProgramsAccepted(ixs) ==
  \A i \in DOMAIN ixs : ixs[i].do \in {"create", "create_ata"} \/ ixs[i].program \in TokenIds

SignersAccepted(ixs) ==
  \A i \in DOMAIN ixs : ixs[i].do = "initialize_multisig" =>
    /\ {ixs[i].m, Cardinality(ixs[i].keys)} \subseteq 1..MaxSigners
    /\ ixs[i].m <= Cardinality(ixs[i].keys)

Constructed(ixs) == ProgramsAccepted(ixs) /\ SignersAccepted(ixs)

\* The error of a constructor, which looks at the program id first.
ConstructorError(ixs) ==
  IF ProgramsAccepted(ixs) THEN "MissingRequiredSignature" ELSE "IncorrectProgramId"

\* send_transaction, as far as a builder can tell: the signatures are checked
\* first, then the history; a transaction that fails is recorded as well.
Outcome(c, ixs, keys) ==
  LET required == {c.payer} \cup UNION {MarkedSigners(ixs[i]) : i \in DOMAIN ixs}
      tx == [payer |-> c.payer, instructions |-> ixs]
      Stop(result) == [result |-> result, tx |-> {}, accounts |-> accounts]
  IN IF ~Constructed(ixs) THEN Stop(ConstructorError(ixs))
     ELSE IF ~(keys \subseteq required) THEN Stop("panic")
     ELSE IF ~(required \subseteq keys \cup {c.payer}) THEN Stop("SignatureFailure")
     ELSE IF \E i \in DOMAIN sent : sent[i] = tx THEN Stop("AlreadyProcessed")
     ELSE LET end == Run(accounts, required, ixs)
          IN [result |-> end.result, tx |-> {tx}, accounts |-> end.accounts]

Remember(history, txs) ==
  LET longer == IF txs = {} THEN history ELSE Append(history, CHOOSE t \in txs : TRUE)
  IN IF Len(longer) > HistoryLimit THEN Tail(longer) ELSE longer

\* A key that the message does not ask for makes `partial_sign` panic, data
\* shorter than a mint makes get_spl_account panic.  Either ends the test.
Panics == {"panic", "OutOfRange"}

\* The end of every `send`: build, sign with the payer and `keys`, send.
SignAndSend(c, ixs, keys, returns) ==
  LET out == Outcome(c, ixs, keys) IN
  /\ reply.result \notin Panics
  /\ UNCHANGED calls
  /\ accounts' = out.accounts
  /\ sent' = Remember(sent, out.tx)
  /\ freezers' = freezers \cup
       UNION {{<<a, k>> : k \in accounts'[a].freeze} :
              a \in {b \in DOMAIN accounts' : accounts'[b].kind = "mint"}}
  /\ reply' = [call |-> c, tx |-> out.tx, result |-> out.result,
               returned |-> IF out.result = "Ok" THEN returns ELSE {}]

Send(c, ixs) == SignAndSend(c, ixs, Signers(c), {}) /\ UNCHANGED drawn

\* get_spl_account on the mint of a checked instruction, `?` in the builders:
\* unless the address holds a mint, nothing is sent.  Token accounts and
\* multisigs are longer than a mint and do not unpack as one; the data of a
\* wallet cannot be sliced to the length of a mint.
get_spl_account(a) ==
  IF a \in DOMAIN accounts
  THEN IF accounts[a].kind = "mint" THEN "Ok" ELSE "InvalidAccountData"
  ELSE IF a \in Wallets THEN "OutOfRange" ELSE "AccountNotFound"

Decimals(c) == {OrElse(c.decimals, accounts[c.mint].decimals)}

SendChecked(c, ixs) ==
  LET found == get_spl_account(c.mint) IN
  IF found = "Ok" THEN Send(c, ixs)
  ELSE /\ reply.result \notin Panics
       /\ reply' = [call |-> c, tx |-> {}, result |-> found, returned |-> {}]
       /\ UNCHANGED <<calls, accounts, sent, drawn, freezers>>

NoReply == [call |-> [op |-> "none"], tx |-> {}, result |-> "none", returned |-> {}]

Call(op) == {c \in calls : c.op = op}

-----------------------------------------------------------------------------
(* The builders, one action each.                                          *)

TransferInstructionFromPayer(c) ==
  Instruction(c, "transfer", OrElse(c.source, AssociatedAccountOfPayer(c)), {},
              [to |-> c.destination, amount |-> c.amount])

TransferInstruction(c) ==
  Instruction(c, "transfer", OrElse(c.source, AssociatedAccount(c)), {},
              [to |-> c.destination, amount |-> c.amount])

Transfer == \E c \in Call("Transfer") : Send(c, <<TransferInstruction(c)>>)

TransferCheckedInstruction(c) ==
  Instruction(c, "transfer", OrElse(c.source, AssociatedAccount(c)), {c.mint},
              [to |-> c.destination, amount |-> c.amount, decimals |-> Decimals(c)])

TransferChecked ==
  \E c \in Call("TransferChecked") : SendChecked(c, <<TransferCheckedInstruction(c)>>)

Approve ==
  \E c \in Call("Approve") :
    Send(c, <<Instruction(c, "approve", c.source, {},
                          [to |-> c.delegate, amount |-> c.amount])>>)

\* There is no setter for the decimals of this one.
ApproveCheckedInstruction(c) ==
  Instruction(c, "approve", OrElse(c.source, AssociatedAccount(c)), {c.mint},
              [to |-> c.delegate, amount |-> c.amount,
               decimals |-> {accounts[c.mint].decimals}])

ApproveChecked ==
  \E c \in Call("ApproveChecked") : SendChecked(c, <<ApproveCheckedInstruction(c)>>)

Revoke ==
  \E c \in Call("Revoke") :
    Send(c, <<Instruction(c, "revoke", c.source, {}, NoMore)>>)

MintTo ==
  \E c \in Call("MintTo") :
    Send(c, <<Instruction(c, "mint_to", c.destination, {c.mint}, [amount |-> c.amount])>>)

MintToCheckedInstruction(c) ==
  Instruction(c, "mint_to", c.destination, {c.mint},
              [amount |-> c.amount, decimals |-> Decimals(c)])

MintToChecked ==
  \E c \in Call("MintToChecked") : SendChecked(c, <<MintToCheckedInstruction(c)>>)

Burn ==
  \E c \in Call("Burn") :
    Send(c, <<Instruction(c, "burn", c.account, {c.mint}, [amount |-> c.amount])>>)

BurnCheckedInstruction(c) ==
  Instruction(c, "burn", c.account, {c.mint},
              [amount |-> c.amount, decimals |-> Decimals(c)])

BurnChecked ==
  \E c \in Call("BurnChecked") : SendChecked(c, <<BurnCheckedInstruction(c)>>)

CloseAccount ==
  \E c \in Call("CloseAccount") :
    Send(c, <<Instruction(c, "close", c.account, {}, [to |-> c.destination])>>)

FreezeAccountOfPayer ==
  \E c \in Call("FreezeAccount") :
    Send(c, <<Instruction(c, "freeze", AssociatedAccountOfPayer(c), {c.mint}, NoMore)>>)

\* The builder has a field for the account and no way to set it.
FreezeAccount ==
  \E c \in Call("FreezeAccount") :
    Send(c, <<Instruction(c, "freeze", AssociatedAccount(c), {c.mint}, NoMore)>>)

ThawAccount ==
  \E c \in Call("ThawAccount") :
    Send(c, <<Instruction(c, "thaw", AssociatedAccount(c), {c.mint}, NoMore)>>)

SetAuthority ==
  \E c \in Call("SetAuthority") :
    Send(c, <<Instruction(c, "set_authority", c.account, {},
                          [type |-> c.authority_type, new |-> c.new_authority])>>)

\* The builders below sign with the payer alone or with a new keypair too.
Plain(c, do, account, more) ==
  Over(more, [do |-> do, program |-> TokenProgramId(c), account |-> account,
              mint |-> {}, decimals |-> {}])

SyncNative ==
  \E c \in Call("SyncNative") :
    /\ SignAndSend(c, <<Plain(c, "sync", c.account, NoMore)>>, {c.payer}, {})
    /\ UNCHANGED drawn

CreateNativeMint2022 ==
  \E c \in Call("CreateNativeMint2022") :
    LET program == OrElse(c.token_program_id, Token2022) IN
    /\ SignAndSend(c, <<[do |-> "create_native", program |-> program,
                         account |-> NativeMint[program]]>>, {c.payer}, {})
    /\ UNCHANGED drawn

\* create_native_mint writes the account itself, over whatever is there.
create_native_mint ==
  /\ reply.result \notin Panics
  /\ Call("create_native_mint") # {}
  /\ accounts' = Put(accounts, NativeMint[Legacy],
                     [kind |-> "mint", program |-> Legacy, authority |-> {}, freeze |-> {},
                      decimals |-> 9, supply |-> 0])
  /\ reply' = NoReply
  /\ UNCHANGED <<calls, sent, drawn, freezers>>

CreateAta(c, idempotent) ==
  LET ata == Ata(Authority(c), c.mint, TokenProgramId(c)) IN
  /\ SignAndSend(c, <<Plain(c, "create_ata", ata,
                            [of |-> c.mint, owner |-> Authority(c),
                             idempotent |-> idempotent])>>,
                 {c.payer}, {AssociatedAccount(c)})
  /\ UNCHANGED drawn

CreateAssociatedTokenAccount ==
  \E c \in Call("CreateAssociatedTokenAccount") : CreateAta(c, FALSE)

CreateAssociatedTokenAccountIdempotent ==
  \E c \in Call("CreateAssociatedTokenAccountIdempotent") : CreateAta(c, TRUE)

\* An account at the given keypair or at a new one, allocated and initialized
\* in one transaction.
Create(c, given, initialize, more) ==
  LET address == OrElse(given, Fresh[drawn + 1]) IN
  /\ drawn < Len(Fresh)
  /\ drawn' = IF given = {} THEN drawn + 1 ELSE drawn
  /\ SignAndSend(c, <<Plain(c, "create", address, NoMore),
                      Plain(c, initialize, address, more)>>,
                 {c.payer, address}, {address})

CreateMint ==
  \E c \in Call("CreateMint") :
    Create(c, {}, "initialize_mint",
           [owner |-> OrElse(c.authority, c.payer), freeze |-> c.freeze_authority,
            places |-> OrElse(c.decimals, 8)])

CreateAccount ==
  \E c \in Call("CreateAccount") :
    Create(c, c.account_kp, "initialize_account",
           [of |-> c.mint, owner |-> OrElse(c.owner, c.payer)])

CreateMultisig ==
  \E c \in Call("CreateMultisig") :
    Create(c, {}, "initialize_multisig",
           [m |-> c.required_signatures, keys |-> c.keys])

-----------------------------------------------------------------------------
\* expire_blockhash: no transaction recorded so far can be built again.
expire_blockhash ==
  /\ reply.result \notin Panics
  /\ sent # <<>>
  /\ sent' = <<>>
  /\ reply' = NoReply
  /\ UNCHANGED <<calls, accounts, drawn, freezers>>

\* A lamport arrives at a wrapped account, by an airdrop or a transfer.
Fund ==
  \E a \in DOMAIN accounts :
    /\ reply.result \notin Panics
    /\ accounts[a].kind = "token" /\ accounts[a].mint \in NativeMints
    /\ accounts[a].amount + accounts[a].unsynced < MaxAmount
    /\ accounts' = [accounts EXCEPT ![a].unsynced = @ + 1]
    /\ reply' = NoReply
    /\ UNCHANGED <<calls, sent, drawn, freezers>>

Init ==
  /\ calls \in Tests
  /\ accounts = <<>>
  /\ sent = <<>>
  /\ drawn = 0
  /\ freezers = {}
  /\ reply = NoReply

Next ==
  \/ Transfer \/ TransferChecked \/ Approve \/ ApproveChecked \/ Revoke
  \/ MintTo \/ MintToChecked \/ Burn \/ BurnChecked \/ CloseAccount
  \/ FreezeAccount \/ ThawAccount \/ SetAuthority \/ SyncNative
  \/ CreateNativeMint2022 \/ create_native_mint
  \/ CreateAssociatedTokenAccount \/ CreateAssociatedTokenAccountIdempotent
  \/ CreateMint \/ CreateAccount \/ CreateMultisig
  \/ expire_blockhash \/ Fund

Spec == Init /\ [][Next]_vars

-----------------------------------------------------------------------------
(* Properties.                                                             *)

SignedAsNeeded ==
  LET c == reply'.call IN
  /\ reply'.result # "panic"
  /\ reply'.result = "SignatureFailure" => c.signers = {{}}
  /\ reply'.result = "Unauthorised" =>
       \A tx \in reply'.tx : LET ix == tx.instructions[1] IN
         \/ Authority(c) \notin Owners(accounts, ix)
         \/ IF Is(accounts, "multisig", Authority(c), ix.program)
            THEN Cardinality(Signers(c) \cap accounts[Authority(c)].signers)
                   < accounts[Authority(c)].m
            ELSE Authority(c) \notin Signers(c) \cup {c.payer}

\* The signatures a builder collects are the ones its transaction asks for.
\* No `partial_sign` panics; verification fails only for multisig(m, []); and
\* the program misses an authority's signature only if the authority is not
\* the one the account asks for, or the keypairs given to owner() or
\* multisig() together with the payer do not amount to its signature.
SignersAreTheOnesNeeded == [][SignedAsNeeded]_vars

OmittedAsExpected ==
  LET c == reply'.call IN
  reply'.result = "Ok" /\ c.op \in {"Transfer", "TransferChecked", "ApproveChecked"} /\ c.source = {}
  => \A a \in DOMAIN accounts :
       \/ accounts'[a] = accounts[a]
       \/ a = Ata(OrElse(c.owner, c.payer), c.mint, OrElse(c.token_program_id, TOKEN_ID))
       \/ c.op # "ApproveChecked" /\ a = c.destination
            /\ accounts'[a].amount >= accounts[a].amount

\* A token account that was not named in a call is changed by it only if it
\* is the associated account of the call's authority: a payer that acts for
\* somebody else pays the fee and nothing more.  Transfer and TransferChecked
\* document this (transfer.rs:17, transfer_checked.rs:19); ApproveChecked
\* documents OmittedMeansThePayers and does this.
OmittedMeansTheAuthoritys == [][OmittedAsExpected]_vars

PayersAsDocumented ==
  LET c == reply'.call IN
  /\ reply'.result = "Ok" /\ c.op \in {"ApproveChecked", "ThawAccount"}
  /\ c.op = "ApproveChecked" => c.source = {}
  => \A a \in DOMAIN accounts :
       \/ accounts'[a] = accounts[a]
       \/ a = Ata(c.payer, c.mint, OrElse(c.token_program_id, TOKEN_ID))

\* What ApproveChecked and ThawAccount document: an account that was not named
\* is the associated account of the payer (approve_checked.rs:19,
\* thaw_account.rs:15).  The code derives it from the authority.
OmittedMeansThePayers == [][PayersAsDocumented]_vars

\* The builders can freeze no account but the associated account of somebody
\* who was the mint's freeze authority: FreezeAccount has no setter for its
\* account.
FrozenOnlyAtTheFreezer ==
  \A a \in DOMAIN accounts :
    accounts[a].kind = "token" /\ accounts[a].frozen =>
      \E f \in freezers : a = Ata(f[2], f[1], accounts[a].program)

CreatedOrNot ==
  LET c == reply'.call IN
  /\ \A a \in reply'.returned :
       /\ a \in DOMAIN accounts'
       /\ c.op \in {"CreateAssociatedTokenAccount", "CreateAssociatedTokenAccountIdempotent",
                    "CreateAccount"} =>
            /\ accounts'[a].kind = "token" /\ accounts'[a].mint = c.mint
            /\ accounts'[a].owner = OrElse(c.owner, c.payer)
       /\ c.op = "CreateMint" => accounts'[a].kind = "mint"
       /\ c.op = "CreateMultisig" => accounts'[a].kind = "multisig"
  /\ \A a \in DOMAIN accounts' : accounts'[a].kind # "blank"
  /\ \/ c.op = "CreateMint"
     \/ c.op = "CreateMultisig" /\ Cardinality(c.keys) <= MaxSigners
          /\ c.required_signatures \in 1..Cardinality(c.keys)
     \/ c.op = "CreateAccount" /\ c.account_kp = {}
          /\ Is(accounts, "mint", c.mint, TokenProgramId(c))
     => reply'.result \in {"Ok", "IncorrectProgramId"}

\* Creating an account is all or nothing.  An address that a creating builder
\* returns holds the account it was asked for (the associated account, derived
\* again after the transaction, is the one in the instruction); a call that
\* fails leaves nothing allocated although initialization is an instruction
\* of its own; and creating at a new keypair can be repeated under one
\* blockhash, unlike every other call: only a program id that is not a token
\* program's, a missing mint, or numbers of signers that no multisig can have
\* make it fail.
CreationIsAllOrNothing == [][CreatedOrNot]_vars

=============================================================================
