-------------------------- MODULE MCTokenBuilders --------------------------
(* Two people, one mint (k1 when it is created first), a multisig (k2) and *)
(* the token-2022 build, in which both token programs are accepted.        *)
EXTENDS TokenBuilders, TLC

CONSTANTS alice, bob, k1, k2, k3, kp, n1, n2

MCFresh == <<k1, k2, k3>>
MCPubkey == {alice, bob, k1, k2, k3, kp, n1, n2}
MCNativeMint == [token |-> n1, token22 |-> n2]

Base(op) == [op |-> op, payer |-> alice, owner |-> {}, signers |-> {}, token_program_id |-> {}]
By(c, k) == [c EXCEPT !.owner = {k}, !.signers = {{k}}]
ByMultisig(c, keys) == [c EXCEPT !.owner = {k2}, !.signers = {keys}]
For(c, k) == [c EXCEPT !.owner = {k}]
In(c, program) == [c EXCEPT !.token_program_id = {program}]

A == Ata(alice, k1, "token22")
B == Ata(bob, k1, "token22")
M == Ata(k2, k1, "token22")
N == Ata(alice, n1, "token")

Mint1 == [mint |-> k1] @@ Base("x")
Op(c, op) == [c EXCEPT !.op = op]

TransferTo(op, to) ==
  [op |-> op, destination |-> to, amount |-> 1, source |-> {}, decimals |-> {}] @@ Mint1
ApproveOf(op) == [op |-> op, delegate |-> bob, amount |-> 1] @@ Mint1

MintTo1(to) == [op |-> "MintTo", destination |-> to, amount |-> 1] @@ Mint1
Together == {alice, bob}
NewMint == [authority |-> {}, freeze_authority |-> {}, decimals |-> {2}] @@ Base("CreateMint")
NewMultisig(m, keys) ==
  [required_signatures |-> m, keys |-> keys] @@ Base("CreateMultisig")
NewAta(k) == For(Op(Mint1, "CreateAssociatedTokenAccount"), k)

\* A multisig holds and mints.  Three of the four are refused.
MultisigTest ==
  { [NewMint EXCEPT !.authority = {k2}, !.freeze_authority = {k2}],
    NewMultisig(2, Together), NewMultisig(0, Together), NewMultisig(2, {bob}),
    NewMultisig(1, {alice, bob, kp}),
    [account_kp |-> {}, owner |-> {k2}, mint |-> k1] @@ Base("CreateAccount"),
    For(Op(Mint1, "CreateAssociatedTokenAccountIdempotent"), k2),
    ByMultisig(MintTo1(M), Together), ByMultisig(MintTo1(M), {}),
    ByMultisig(MintTo1(M), {bob}),
    [ByMultisig(TransferTo("Transfer", M), Together) EXCEPT !.payer = bob],
    ByMultisig(Op(Mint1, "FreezeAccount"), Together),
    ByMultisig(Op(Mint1, "ThawAccount"), Together) }

\* alice pays, for alice and for bob; bob may become the delegate.
OwnersTest ==
  { NewMint, Op(Mint1, "CreateAssociatedTokenAccount"), NewAta(bob), MintTo1(A),
    [op |-> "MintToChecked", destination |-> B, amount |-> 1, decimals |-> {}] @@ Mint1,
    TransferTo("Transfer", B), By(TransferTo("Transfer", B), bob),
    By(TransferTo("TransferChecked", A), bob),
    [TransferTo("TransferChecked", B) EXCEPT !.decimals = {3}],
    By(ApproveOf("ApproveChecked") @@ [source |-> {}], bob),
    ApproveOf("Approve") @@ [source |-> A],
    [op |-> "Revoke", source |-> A] @@ Base("x"),
    By([op |-> "Burn", account |-> A, amount |-> 1] @@ Mint1, bob),
    [op |-> "BurnChecked", account |-> A, amount |-> 1, decimals |-> {}] @@ Mint1 }

\* Accounts are frozen, closed, created again, and change hands.
FreezeTest ==
  { [NewMint EXCEPT !.freeze_authority = {bob}],
    Op(Mint1, "CreateAssociatedTokenAccount"), NewAta(bob),
    [account_kp |-> {kp}, mint |-> k1] @@ Base("CreateAccount"),
    [account_kp |-> {bob}, mint |-> k1] @@ Base("CreateAccount"),
    For(Op(Mint1, "CreateAssociatedTokenAccountIdempotent"), bob),
    Op(Mint1, "FreezeAccount"), By(Op(Mint1, "FreezeAccount"), bob),
    Op(Mint1, "ThawAccount"), By(Op(Mint1, "ThawAccount"), bob),
    In(Op(Mint1, "ThawAccount"), "other"),
    By([op |-> "SetAuthority", account |-> k1, authority_type |-> "freeze",
        new_authority |-> {alice}] @@ Base("x"), bob),
    [op |-> "SetAuthority", account |-> A, authority_type |-> "owner",
     new_authority |-> {bob}] @@ Base("x"),
    [op |-> "SetAuthority", account |-> B, authority_type |-> "close",
     new_authority |-> {alice}, owner |-> {bob}, signers |-> {{bob}}] @@ Base("x"),
    [op |-> "CloseAccount", account |-> A, destination |-> alice] @@ Base("x"),
    [op |-> "CloseAccount", account |-> B, destination |-> alice] @@ Base("x") }

\* Native mints of both programs and a wrapped account.
NativeTest ==
  { Base("CreateNativeMint2022"), In(Base("CreateNativeMint2022"), "token"),
    Base("create_native_mint"),
    [op |-> "MintToChecked", mint |-> alice, destination |-> N, amount |-> 1,
     decimals |-> {}] @@ Base("x"),
    [op |-> "CreateAssociatedTokenAccount", mint |-> n1,
     token_program_id |-> {"token"}] @@ Base("x"),
    [op |-> "SyncNative", account |-> N, token_program_id |-> {"token"}] @@ Base("x"),
    [op |-> "SyncNative", account |-> N] @@ Base("x"),
    [op |-> "CloseAccount", account |-> N, destination |-> alice,
     token_program_id |-> {"token"}] @@ Base("x") }

MCTests == {MultisigTest, OwnersTest, FreezeTest, NativeTest}

\* No action reads the reply, except that a panic ends the test.
View == <<calls, accounts, sent, drawn, freezers, reply.result \in Panics>>
=============================================================================
