---------------------------- MODULE TokenProgram ----------------------------
(***************************************************************************)
(* The SPL token programs and the associated token account program, as far *)
(* as the builders of `litesvm-token` depend on them.  None of this code   *)
(* is part of the repository: the builders only assemble instructions for  *)
(* it.  An instruction either fails or gives new accounts; errors are told *)
(* apart only as "Unauthorised" (the authority is not the one the program  *)
(* asks for, or did not sign) and "Refused" (everything else).             *)
(*                                                                         *)
(* `acc` maps the addresses that hold an account of a token program to     *)
(*   [kind |-> "mint", program, authority, freeze, decimals, supply]       *)
(*   [kind |-> "token", program, mint, owner, amount, delegate, frozen,    *)
(*    closer, unsynced]                                                    *)
(*   [kind |-> "multisig", program, m, signers]                            *)
(*   [kind |-> "blank", program]      allocated, not initialized.          *)
(* An optional value is a set with at most one element.  The addresses of  *)
(* Wallets hold lamports and no data.                                      *)
(***************************************************************************)
EXTENDS Naturals, Sequences, FiniteSets

CONSTANTS NativeMints,  \* the addresses of the two native mints
          Wallets,      \* the accounts with lamports and without data
          MaxAmount     \* u64::MAX

Is(acc, kind, a, program) ==
  a \in DOMAIN acc /\ acc[a].kind = kind /\ acc[a].program = program

\* The fields of `more` on top of those of `base`.
Over(more, base) ==
  [x \in DOMAIN more \cup DOMAIN base |-> IF x \in DOMAIN more THEN more[x] ELSE base[x]]
NoMore == [x \in {} |-> x]

Put(acc, a, record) == [b \in DOMAIN acc \cup {a} |-> IF b = a THEN record ELSE acc[b]]
Remove(acc, a) == [b \in DOMAIN acc \ {a} |-> acc[b]]

\* The address the associated token account program derives.
Ata(owner, mint, program) == <<owner, mint, program>>

\* A signature by `key`: of the multisig's signers that the instruction
\* lists (each of which signed) at least m, or of the key itself.
Signs(acc, signed, ix, key) ==
  IF Is(acc, "multisig", key, ix.program)
  THEN Cardinality(ix.signers \cap acc[key].signers) >= acc[key].m
  ELSE key \in signed

Delegated(acc, ix) == \E d \in acc[ix.account].delegate : d.key = ix.authority

\* The keys that may act as the authority of an instruction.
Owners(acc, ix) ==
  LET a == acc[ix.account] IN
  CASE ix.do \in {"transfer", "burn"} -> {a.owner} \cup {d.key : d \in a.delegate}
    [] ix.do \in {"approve", "revoke"} \/ (ix.do = "set_authority" /\ ix.type = "owner") ->
         {a.owner}
    [] ix.do = "close" \/ (ix.do = "set_authority" /\ ix.type = "close") ->
         IF a.closer = {} THEN {a.owner} ELSE a.closer
    [] ix.do = "mint_to" -> acc[a.mint].authority
    [] ix.do \in {"freeze", "thaw"} -> acc[a.mint].freeze
    [] ix.do = "set_authority" /\ ix.type = "mint" -> a.authority
    [] ix.do = "set_authority" /\ ix.type = "freeze" -> a.freeze

Authorised(acc, signed, ix) ==
  ix.authority \in Owners(acc, ix) /\ Signs(acc, signed, ix, ix.authority)

\* An instruction on an initialized token account: the account belongs to the
\* program, and the mint and the decimals an instruction names are its own.
OnTokenAccount(acc, ix) ==
  /\ Is(acc, "token", ix.account, ix.program)
  /\ LET m == acc[ix.account].mint IN
     /\ Is(acc, "mint", m, ix.program)
     /\ ix.mint \subseteq {m}
     /\ ix.decimals \subseteq {acc[m].decimals}

\* The instruction reaches accounts of the right kind.
WellPlaced(acc, ix) ==
  CASE ix.do = "set_authority" /\ ix.type \in {"mint", "freeze"} ->
         Is(acc, "mint", ix.account, ix.program)
    [] ix.do \in {"create", "initialize_mint", "initialize_account",
                  "initialize_multisig", "create_ata", "create_native"} -> TRUE
    [] OTHER -> OnTokenAccount(acc, ix)

HasAuthority(ix) ==
  ix.do \in {"transfer", "approve", "revoke", "burn", "mint_to", "close",
             "freeze", "thaw", "set_authority"}

NewToken(program, mint, owner) ==
  [kind |-> "token", program |-> program, mint |-> mint, owner |-> owner, amount |-> 0,
   delegate |-> {}, frozen |-> FALSE, closer |-> {}, unsynced |-> 0]

\* What is left of a delegation after its holder used `n` of it.
Spend(delegate, ix) ==
  {[d EXCEPT !.amount = IF d.key = ix.authority THEN @ - ix.amount ELSE @] : d \in delegate}
    \ [key : {ix.authority}, amount : {0}]

Possible(acc, ix) ==
  LET a == acc[ix.account]
      native == a.mint \in NativeMints
      within == /\ ix.amount <= a.amount
                /\ \A d \in a.delegate : d.key = ix.authority => ix.amount <= d.amount
  IN CASE ix.do = "transfer" ->
            /\ Is(acc, "token", ix.to, ix.program) /\ acc[ix.to].mint = a.mint
            /\ ~a.frozen /\ ~acc[ix.to].frozen /\ within
       [] ix.do = "burn" -> ~a.frozen /\ ~native /\ within
       [] ix.do = "mint_to" ->
            ~a.frozen /\ ~native /\ acc[a.mint].supply + ix.amount <= MaxAmount
       [] ix.do \in {"approve", "revoke"} -> ~a.frozen
       [] ix.do = "close" -> (native \/ a.amount = 0) /\ ix.to # ix.account
       [] ix.do = "freeze" -> ~a.frozen /\ ~native
       [] ix.do = "thaw" -> a.frozen
       [] ix.do = "sync" -> native
       [] ix.do = "set_authority" ->
            /\ ix.type \in {"owner", "close"} => ~a.frozen
            /\ ix.type = "owner" => ix.new # {}
       [] ix.do = "create" -> ix.account \notin DOMAIN acc \cup Wallets
       [] ix.do \in {"initialize_mint", "initialize_multisig"} ->
            Is(acc, "blank", ix.account, ix.program)
       [] ix.do = "initialize_account" ->
            /\ Is(acc, "blank", ix.account, ix.program)
            /\ Is(acc, "mint", ix.of, ix.program)
       [] ix.do = "create_ata" ->
            /\ Is(acc, "mint", ix.of, ix.program)
            /\ \/ ix.account \notin DOMAIN acc
               \/ ix.idempotent /\ acc[ix.account].owner = ix.owner
       [] ix.do = "create_native" -> ix.account \notin DOMAIN acc

SetAuthorityOf(a, ix) ==
  CASE ix.type = "mint" -> [a EXCEPT !.authority = ix.new]
    [] ix.type = "freeze" -> [a EXCEPT !.freeze = ix.new]
    [] ix.type = "close" -> [a EXCEPT !.closer = ix.new]
    [] ix.type = "owner" -> [a EXCEPT !.owner = CHOOSE k \in ix.new : TRUE, !.delegate = {},
                                      !.closer = IF a.mint \in NativeMints THEN {} ELSE @]

After(acc, ix) ==
  LET a == acc[ix.account]
      less == [a EXCEPT !.amount = @ - ix.amount, !.delegate = Spend(@, ix)]
  IN CASE ix.do = "transfer" ->
            IF ix.to = ix.account THEN acc
            ELSE [acc EXCEPT ![ix.account] = less, ![ix.to].amount = @ + ix.amount]
       [] ix.do = "burn" ->
            [acc EXCEPT ![ix.account] = less, ![a.mint].supply = @ - ix.amount]
       [] ix.do = "mint_to" ->
            [acc EXCEPT ![ix.account].amount = @ + ix.amount, ![a.mint].supply = @ + ix.amount]
       [] ix.do = "approve" ->
            [acc EXCEPT ![ix.account].delegate = {[key |-> ix.to, amount |-> ix.amount]}]
       [] ix.do = "revoke" -> [acc EXCEPT ![ix.account].delegate = {}]
       [] ix.do = "close" -> Remove(acc, ix.account)
       [] ix.do = "freeze" -> [acc EXCEPT ![ix.account].frozen = TRUE]
       [] ix.do = "thaw" -> [acc EXCEPT ![ix.account].frozen = FALSE]
       [] ix.do = "sync" ->
            [acc EXCEPT ![ix.account].amount = @ + a.unsynced, ![ix.account].unsynced = 0]
       [] ix.do = "set_authority" -> [acc EXCEPT ![ix.account] = SetAuthorityOf(@, ix)]
       [] ix.do = "create" ->
            Put(acc, ix.account, [kind |-> "blank", program |-> ix.program])
       [] ix.do = "initialize_mint" ->
            Put(acc, ix.account,
                [kind |-> "mint", program |-> ix.program, authority |-> {ix.owner},
                 freeze |-> ix.freeze, decimals |-> ix.places, supply |-> 0])
       [] ix.do = "initialize_multisig" ->
            Put(acc, ix.account, [kind |-> "multisig", program |-> ix.program,
                                  m |-> ix.m, signers |-> ix.keys])
       [] ix.do = "initialize_account" ->
            Put(acc, ix.account, NewToken(ix.program, ix.of, ix.owner))
       [] ix.do = "create_ata" ->
            IF ix.account \in DOMAIN acc THEN acc
            ELSE Put(acc, ix.account, NewToken(ix.program, ix.of, ix.owner))
       [] ix.do = "create_native" ->
            Put(acc, ix.account, [kind |-> "mint", program |-> ix.program, authority |-> {},
                                  freeze |-> {}, decimals |-> 9, supply |-> 0])

\* One instruction, after those before it have ended in `now`.
Execute(now, signed, ix) ==
  IF now.result # "Ok" THEN now
  ELSE IF ~WellPlaced(now.accounts, ix)
  THEN [result |-> "Refused", accounts |-> now.accounts]
  ELSE IF HasAuthority(ix) /\ ~Authorised(now.accounts, signed, ix)
  THEN [result |-> "Unauthorised", accounts |-> now.accounts]
  ELSE IF ~Possible(now.accounts, ix)
  THEN [result |-> "Refused", accounts |-> now.accounts]
  ELSE [result |-> "Ok", accounts |-> After(now.accounts, ix)]

\* The instructions of a transaction run in order, all or nothing.
Run(acc, signed, ixs) ==
  LET run[i \in 0..Len(ixs)] ==
        IF i = 0 THEN [result |-> "Ok", accounts |-> acc]
        ELSE Execute(run[i-1], signed, ixs[i])
      end == run[Len(ixs)]
  IN [result |-> end.result, accounts |-> IF end.result = "Ok" THEN end.accounts ELSE acc]
=============================================================================
