----------------------------- MODULE TokenProofs -----------------------------
(***************************************************************************)
(* Proofs about the builders of `litesvm-token`, for every set of tests,   *)
(* every set of keys and program ids and every capacity of the history.    *)
(***************************************************************************)
EXTENDS TokenBuilders, FiniteSetTheorems, TLAPS

\* Zenon first, which costs tlapm less per leaf than SMT; the times are for a
\* busy machine.
USE ZenonT(60), SMTT(60)

-----------------------------------------------------------------------------
(* Accounts of the token programs.                                         *)

IsToken(r) ==
  /\ DOMAIN r = {"kind", "program", "mint", "owner", "amount", "delegate", "frozen",
                 "closer", "unsynced"}
  /\ r.kind = "token" /\ r.amount \in Nat /\ r.unsynced \in Nat

IsMint(r) ==
  /\ DOMAIN r = {"kind", "program", "authority", "freeze", "decimals", "supply"}
  /\ r.kind = "mint"

IsMultisig(r) ==
  DOMAIN r = {"kind", "program", "m", "signers"} /\ r.kind = "multisig" /\ r.m \in Nat

IsAccount(r) == IsToken(r) \/ IsMint(r) \/ IsMultisig(r)

AreAccounts(acc) == \A a \in DOMAIN acc : IsAccount(acc[a])

\* What no instruction changes about an account, and no instruction but
\* "freeze" does to it.
Same(old, new) ==
  /\ IsAccount(new) /\ new.kind = old.kind /\ new.program = old.program
  /\ old.kind = "token" => new.mint = old.mint
Keeps(old, new) ==
  Same(old, new) /\ (old.kind = "token" /\ new.frozen => old.frozen)

Evolves(acc, new, ix) ==
  /\ DOMAIN new \subseteq DOMAIN acc
  /\ \A a \in DOMAIN new :
       Same(acc[a], new[a]) /\ ((ix.do = "freeze" /\ a = ix.account) \/ Keeps(acc[a], new[a]))

\* The kinds of account are told apart by their first field.
LEMMA Kinds ==
  ASSUME NEW r, IsAccount(r)
  PROVE  /\ r.kind = "token" => IsToken(r)
         /\ r.kind = "mint" => IsMint(r)
         /\ r.kind = "multisig" => IsMultisig(r)
BY DEF IsAccount, IsToken, IsMint, IsMultisig

\* An account that stays as it is.
LEMMA KeepsItself ==
  ASSUME NEW r, IsAccount(r) PROVE Keeps(r, r)
BY DEF Keeps, Same

\* One account is written.
LEMMA EvolvesOne ==
  ASSUME NEW acc, AreAccounts(acc), NEW ix, NEW x \in DOMAIN acc, NEW r,
         Same(acc[x], r), (ix.do = "freeze" /\ x = ix.account) \/ Keeps(acc[x], r)
  PROVE  Evolves(acc, [acc EXCEPT ![x] = r], ix)
<1> DEFINE new == [acc EXCEPT ![x] = r]
<1>1. DOMAIN new = DOMAIN acc /\ new[x] = r
  OBVIOUS
<1>2. \A a \in DOMAIN acc : a # x => new[a] = acc[a] /\ Keeps(acc[a], acc[a])
  BY KeepsItself DEF AreAccounts
<1> HIDE DEF new
<1>3. \A a \in DOMAIN new : a # x => Same(acc[a], new[a]) /\ Keeps(acc[a], new[a])
  BY <1>1, <1>2 DEF Keeps
<1>4. Evolves(acc, new, ix)
  BY <1>1, <1>3 DEF Evolves
<1> QED BY <1>4 DEF new

\* The account of the instruction is written, and not frozen.
LEMMA EvolvesAt ==
  ASSUME NEW acc, AreAccounts(acc), NEW ix, ix.account \in DOMAIN acc, NEW r, NEW new,
         new = [acc EXCEPT ![ix.account] = r], Keeps(acc[ix.account], r)
  PROVE  Evolves(acc, new, ix)
<1>1. Same(acc[ix.account], r)
  BY DEF Keeps
<1>2. Evolves(acc, [acc EXCEPT ![ix.account] = r], ix)
  BY <1>1, EvolvesOne
<1> QED BY <1>2

\* Two accounts are written.
LEMMA EvolvesTwo ==
  ASSUME NEW acc, AreAccounts(acc), NEW ix, NEW x \in DOMAIN acc, NEW y \in DOMAIN acc,
         x # y, NEW r, NEW s, Keeps(acc[x], r), Keeps(acc[y], s)
  PROVE  Evolves(acc, [acc EXCEPT ![x] = r, ![y] = s], ix)
<1> DEFINE new == [acc EXCEPT ![x] = r, ![y] = s]
<1>1. DOMAIN new = DOMAIN acc /\ new[x] = r /\ new[y] = s
  OBVIOUS
<1>2. \A a \in DOMAIN acc : a # x /\ a # y => new[a] = acc[a] /\ Keeps(acc[a], acc[a])
  BY KeepsItself DEF AreAccounts
<1> HIDE DEF new
<1>3. \A a \in DOMAIN new : Same(acc[a], new[a]) /\ Keeps(acc[a], new[a])
  BY <1>1, <1>2 DEF Keeps
<1>4. Evolves(acc, new, ix)
  BY <1>1, <1>3 DEF Evolves
<1> QED BY <1>4 DEF new

\* The fields that instructions write, one by one: none is the kind, the
\* program or the mint of an account.
LEMMA TokenWrites ==
  ASSUME NEW r, IsToken(r), NEW v
  PROVE  /\ Keeps(r, [r EXCEPT !.delegate = v])
         /\ Keeps(r, [r EXCEPT !.closer = v])
         /\ Keeps(r, [r EXCEPT !.frozen = FALSE])
         /\ Same(r, [r EXCEPT !.frozen = TRUE])
BY DEF Keeps, Same, IsAccount, IsToken

\* So do the fields with numbers, as long as they stay natural numbers.
LEMMA AmountWrites ==
  ASSUME NEW r, IsToken(r), NEW v, NEW n \in Nat
  PROVE  /\ Keeps(r, [r EXCEPT !.amount = n])
         /\ Keeps(r, [r EXCEPT !.amount = n, !.delegate = v])
         /\ Keeps(r, [r EXCEPT !.amount = n, !.unsynced = 0])
         /\ Keeps(r, [r EXCEPT !.unsynced = n])
<1>1. 0 \in Nat
  OBVIOUS
<1> QED BY <1>1 DEF Keeps, Same, IsAccount, IsToken

\* SetAuthority for an owner writes three fields at once.
LEMMA OwnerWrites ==
  ASSUME NEW r, IsToken(r), NEW v, NEW w
  PROVE  Keeps(r, [r EXCEPT !.owner = v, !.delegate = {}, !.closer = w])
BY DEF Keeps, Same, IsAccount, IsToken

\* The fields of a mint that instructions write.
LEMMA MintWrites ==
  ASSUME NEW r, IsMint(r), NEW v
  PROVE  /\ Keeps(r, [r EXCEPT !.authority = v])
         /\ Keeps(r, [r EXCEPT !.freeze = v])
         /\ Keeps(r, [r EXCEPT !.supply = v])
BY DEF Keeps, Same, IsAccount, IsMint

-----------------------------------------------------------------------------
(* Instructions.                                                           *)

\* The instructions of the builders that act on accounts that exist, with the
\* arguments their types allow.
ActsOnAccounts(ix) ==
  /\ HasAuthority(ix) \/ ix.do = "sync"
  /\ ix.do \in {"transfer", "burn", "mint_to"} => ix.amount \in Nat
  /\ ix.do = "set_authority" => ix.type \in {"mint", "freeze", "owner", "close"}

\* Where they act.
LEMMA Placed ==
  ASSUME NEW acc, AreAccounts(acc), NEW ix, ActsOnAccounts(ix), WellPlaced(acc, ix)
  PROVE  /\ ix.account \in DOMAIN acc /\ acc[ix.account].program = ix.program
         /\ ix.do = "set_authority" /\ ix.type \in {"mint", "freeze"} => IsMint(acc[ix.account])
         /\ ~(ix.do = "set_authority" /\ ix.type \in {"mint", "freeze"}) =>
              /\ IsToken(acc[ix.account]) /\ OnTokenAccount(acc, ix)
              /\ acc[ix.account].mint \in DOMAIN acc /\ IsMint(acc[acc[ix.account].mint])
              /\ acc[ix.account].mint # ix.account
<1>1. CASE ix.do = "set_authority" /\ ix.type \in {"mint", "freeze"}
  <2>1. Is(acc, "mint", ix.account, ix.program)
    BY <1>1 DEF WellPlaced
  <2> QED BY <1>1, <2>1, Kinds DEF Is, AreAccounts
<1>2. CASE ~(ix.do = "set_authority" /\ ix.type \in {"mint", "freeze"})
  <2>1. OnTokenAccount(acc, ix)
    BY <1>2 DEF WellPlaced, ActsOnAccounts, HasAuthority
  <2>2. /\ Is(acc, "token", ix.account, ix.program)
        /\ Is(acc, "mint", acc[ix.account].mint, ix.program)
    BY <2>1 DEF OnTokenAccount
  <2>3. IsToken(acc[ix.account]) /\ IsMint(acc[acc[ix.account].mint])
    BY <2>2, Kinds DEF Is, AreAccounts
  <2>4. acc[ix.account].mint # ix.account
    BY <2>2 DEF Is
  <2> QED BY <1>2, <2>1, <2>2, <2>3, <2>4 DEF Is
<1> QED BY <1>1, <1>2

\* A holder's tokens after "transfer" and "burn".
LEMMA LessKeeps ==
  ASSUME NEW r, IsToken(r), NEW n \in Nat, n <= r.amount, NEW v
  PROVE  Keeps(r, [r EXCEPT !.amount = @ - n, !.delegate = v])
<1>1. r.amount - n \in Nat
  BY SMTT(60) DEF IsToken
<1> QED BY <1>1, AmountWrites

\* A holder's tokens after they were credited.
LEMMA MoreKeeps ==
  ASSUME NEW r, IsToken(r), NEW n \in Nat
  PROVE  /\ Keeps(r, [r EXCEPT !.amount = @ + n])
         /\ Keeps(r, [r EXCEPT !.amount = @ + n, !.unsynced = 0])
<1>1. r.amount + n \in Nat
  BY SMTT(60) DEF IsToken
<1> QED BY <1>1, AmountWrites

\* "transfer" debits one token account and credits another.
LEMMA TransferEvolves ==
  ASSUME NEW acc, AreAccounts(acc), NEW ix, ix.do = "transfer", ix.amount \in Nat,
         WellPlaced(acc, ix), Possible(acc, ix)
  PROVE  Evolves(acc, After(acc, ix), ix)
<1> DEFINE a == acc[ix.account]
           less == [a EXCEPT !.amount = @ - ix.amount, !.delegate = Spend(@, ix)]
           more == [acc[ix.to] EXCEPT !.amount = @ + ix.amount]
<1>1. ix.account \in DOMAIN acc /\ IsToken(a)
  BY Placed DEF ActsOnAccounts, HasAuthority
<1>2. Is(acc, "token", ix.to, ix.program) /\ ix.amount <= a.amount
  BY DEF Possible
<1>3. ix.to \in DOMAIN acc /\ IsToken(acc[ix.to])
  BY <1>2, Kinds DEF Is, AreAccounts
<1>4. Keeps(a, less) /\ Keeps(acc[ix.to], more)
  BY <1>1, <1>2, <1>3, LessKeeps, MoreKeeps
<1>5. CASE ix.to = ix.account
  <2>1. After(acc, ix) = acc
    BY <1>5 DEF After
  <2> QED BY <2>1, KeepsItself DEF Evolves, AreAccounts, Keeps
<1>6. CASE ix.to # ix.account
  <2>1. After(acc, ix) = [acc EXCEPT ![ix.account] = less, ![ix.to].amount = @ + ix.amount]
    BY <1>6 DEF After
  <2> HIDE DEF less
  <2>2. After(acc, ix) = [acc EXCEPT ![ix.account] = less, ![ix.to] = more]
    BY <1>1, <1>3, <1>6, <2>1
  <2> HIDE DEF more
  <2>3. Evolves(acc, [acc EXCEPT ![ix.account] = less, ![ix.to] = more], ix)
    BY <1>1, <1>3, <1>4, <1>6, EvolvesTwo
  <2> QED BY <2>2, <2>3
<1> QED BY <1>5, <1>6

\* "burn" debits a token account and its mint.
LEMMA BurnEvolves ==
  ASSUME NEW acc, AreAccounts(acc), NEW ix, ix.do = "burn", ix.amount \in Nat,
         WellPlaced(acc, ix), Possible(acc, ix)
  PROVE  Evolves(acc, After(acc, ix), ix)
<1> DEFINE a == acc[ix.account]
           less == [a EXCEPT !.amount = @ - ix.amount, !.delegate = Spend(@, ix)]
           mint == [acc[a.mint] EXCEPT !.supply = @ - ix.amount]
<1>1. /\ ix.account \in DOMAIN acc /\ IsToken(a)
      /\ a.mint \in DOMAIN acc /\ IsMint(acc[a.mint]) /\ a.mint # ix.account
  BY Placed DEF ActsOnAccounts, HasAuthority
<1>2. ix.amount <= a.amount
  BY DEF Possible
<1>3. Keeps(a, less) /\ Keeps(acc[a.mint], mint)
  BY <1>1, <1>2, LessKeeps, MintWrites
<1>4. After(acc, ix) = [acc EXCEPT ![ix.account] = less, ![a.mint].supply = @ - ix.amount]
  BY DEF After
<1> HIDE DEF less
<1>5. After(acc, ix) = [acc EXCEPT ![ix.account] = less, ![a.mint] = mint]
  BY <1>1, <1>4
<1> HIDE DEF mint
<1>6. Evolves(acc, [acc EXCEPT ![ix.account] = less, ![a.mint] = mint], ix)
  BY <1>1, <1>3, EvolvesTwo
<1> QED BY <1>5, <1>6

\* "mint_to" credits a token account and its mint.
LEMMA MintToEvolves ==
  ASSUME NEW acc, AreAccounts(acc), NEW ix, ix.do = "mint_to", ix.amount \in Nat,
         WellPlaced(acc, ix)
  PROVE  Evolves(acc, After(acc, ix), ix)
<1> DEFINE a == acc[ix.account]
           more == [a EXCEPT !.amount = @ + ix.amount]
           mint == [acc[a.mint] EXCEPT !.supply = @ + ix.amount]
<1>1. /\ ix.account \in DOMAIN acc /\ IsToken(a)
      /\ a.mint \in DOMAIN acc /\ IsMint(acc[a.mint]) /\ a.mint # ix.account
  BY Placed DEF ActsOnAccounts, HasAuthority
<1>2. Keeps(a, more) /\ Keeps(acc[a.mint], mint)
  BY <1>1, MoreKeeps, MintWrites
<1>3. After(acc, ix) = [acc EXCEPT ![ix.account].amount = @ + ix.amount,
                                   ![a.mint].supply = @ + ix.amount]
  BY DEF After
<1>4. After(acc, ix) = [acc EXCEPT ![ix.account] = more, ![a.mint] = mint]
  BY <1>1, <1>3
<1> HIDE DEF mint, more
<1>5. Evolves(acc, [acc EXCEPT ![ix.account] = more, ![a.mint] = mint], ix)
  BY <1>1, <1>2, EvolvesTwo
<1> QED BY <1>4, <1>5

\* "close" removes an account and leaves the others.
LEMMA CloseEvolves ==
  ASSUME NEW acc, AreAccounts(acc), NEW ix, ix.do = "close"
  PROVE  Evolves(acc, After(acc, ix), ix)
<1>1. After(acc, ix) = [b \in DOMAIN acc \ {ix.account} |-> acc[b]]
  BY DEF After, Remove
<1> QED BY <1>1, KeepsItself DEF Evolves, AreAccounts, Keeps

\* The instructions that write one field or two of a token account.
LEMMA FieldEvolves ==
  ASSUME NEW acc, AreAccounts(acc), NEW ix, WellPlaced(acc, ix),
         ix.do \in {"approve", "revoke", "freeze", "thaw", "sync"}
  PROVE  Evolves(acc, After(acc, ix), ix)
<1> DEFINE a == acc[ix.account]
<1>1. ix.account \in DOMAIN acc /\ IsToken(a)
  BY Placed DEF ActsOnAccounts, HasAuthority
<1>2. CASE ix.do = "approve"
  <2> DEFINE r == [a EXCEPT !.delegate = {[key |-> ix.to, amount |-> ix.amount]}]
  <2>1. After(acc, ix) = [acc EXCEPT ![ix.account] = r]
    BY <1>1, <1>2 DEF After
  <2>2. Keeps(a, r)
    BY <1>1, TokenWrites
  <2> HIDE DEF r
  <2> QED BY <1>1, <2>1, <2>2, EvolvesAt
<1>3. CASE ix.do = "revoke"
  <2> DEFINE r == [a EXCEPT !.delegate = {}]
  <2>1. After(acc, ix) = [acc EXCEPT ![ix.account] = r]
    BY <1>1, <1>3 DEF After
  <2>2. Keeps(a, r)
    BY <1>1, TokenWrites
  <2> HIDE DEF r
  <2> QED BY <1>1, <2>1, <2>2, EvolvesAt
<1>4. CASE ix.do = "freeze"
  <2> DEFINE r == [a EXCEPT !.frozen = TRUE]
  <2>1. After(acc, ix) = [acc EXCEPT ![ix.account] = r]
    BY <1>1, <1>4 DEF After
  <2>2. Same(a, r)
    BY <1>1, TokenWrites
  <2> HIDE DEF r
  <2>3. Evolves(acc, [acc EXCEPT ![ix.account] = r], ix)
    BY <1>1, <1>4, <2>2, EvolvesOne
  <2> QED BY <2>1, <2>3
<1>5. CASE ix.do = "thaw"
  <2> DEFINE r == [a EXCEPT !.frozen = FALSE]
  <2>1. After(acc, ix) = [acc EXCEPT ![ix.account] = r]
    BY <1>1, <1>5 DEF After
  <2>2. Keeps(a, r)
    BY <1>1, TokenWrites
  <2> HIDE DEF r
  <2> QED BY <1>1, <2>1, <2>2, EvolvesAt
<1>6. CASE ix.do = "sync"
  <2> DEFINE r == [a EXCEPT !.amount = @ + a.unsynced, !.unsynced = 0]
  <2>1. After(acc, ix) = [acc EXCEPT ![ix.account] = r]
    BY <1>1, <1>6 DEF After
  <2>2. a.unsynced \in Nat
    BY <1>1 DEF IsToken
  <2>3. Keeps(a, r)
    BY <1>1, <2>2, MoreKeeps
  <2> HIDE DEF r
  <2> QED BY <1>1, <2>1, <2>3, EvolvesAt
<1> QED BY <1>2, <1>3, <1>4, <1>5, <1>6

\* "set_authority" writes a mint or a token account, by the type of authority.
LEMMA SetAuthorityEvolves ==
  ASSUME NEW acc, AreAccounts(acc), NEW ix, WellPlaced(acc, ix),
         ix.do = "set_authority", ix.type \in {"mint", "freeze", "owner", "close"}
  PROVE  Evolves(acc, After(acc, ix), ix)
<1> DEFINE a == acc[ix.account]
           r == SetAuthorityOf(a, ix)
<1>1. /\ ix.account \in DOMAIN acc
      /\ ix.type \in {"mint", "freeze"} => IsMint(a)
      /\ ix.type \in {"owner", "close"} => IsToken(a)
  BY Placed DEF ActsOnAccounts, HasAuthority
<1>2. After(acc, ix) = [acc EXCEPT ![ix.account] = r]
  BY DEF After
<1>4. Keeps(a, r)
  <2>1. CASE ix.type = "mint"
    <3>1. r = [a EXCEPT !.authority = ix.new]
      BY <2>1 DEF SetAuthorityOf
    <3>2. Keeps(a, [a EXCEPT !.authority = ix.new])
      BY <1>1, <2>1, MintWrites
    <3> HIDE DEF r
    <3> QED BY <3>1, <3>2
  <2>2. CASE ix.type = "freeze"
    <3>1. r = [a EXCEPT !.freeze = ix.new]
      BY <2>2 DEF SetAuthorityOf
    <3>2. Keeps(a, [a EXCEPT !.freeze = ix.new])
      BY <1>1, <2>2, MintWrites
    <3> HIDE DEF r
    <3> QED BY <3>1, <3>2
  <2>3. CASE ix.type = "close"
    <3>1. r = [a EXCEPT !.closer = ix.new]
      BY <2>3 DEF SetAuthorityOf
    <3>2. Keeps(a, [a EXCEPT !.closer = ix.new])
      BY <1>1, <2>3, TokenWrites
    <3> HIDE DEF r
    <3> QED BY <3>1, <3>2
  <2>4. CASE ix.type = "owner"
    <3>1. PICK v, w : r = [a EXCEPT !.owner = v, !.delegate = {}, !.closer = w]
      BY <2>4 DEF SetAuthorityOf
    <3>2. Keeps(a, [a EXCEPT !.owner = v, !.delegate = {}, !.closer = w])
      BY <1>1, <2>4, OwnerWrites
    <3> HIDE DEF r
    <3> QED BY <3>1, <3>2
  <2> QED BY <2>1, <2>2, <2>3, <2>4
<1> HIDE DEF r
<1> QED BY <1>1, <1>2, <1>4, EvolvesAt

\* Every instruction that acts on accounts that exist.
LEMMA AfterEvolves ==
  ASSUME NEW acc, AreAccounts(acc), NEW ix, ActsOnAccounts(ix),
         WellPlaced(acc, ix), Possible(acc, ix)
  PROVE  Evolves(acc, After(acc, ix), ix)
BY TransferEvolves, BurnEvolves, MintToEvolves, CloseEvolves, FieldEvolves,
   SetAuthorityEvolves DEF ActsOnAccounts, HasAuthority

-----------------------------------------------------------------------------
(* Transactions.                                                           *)

\* A transaction of one instruction.
LEMMA RunOne ==
  ASSUME NEW acc, NEW signed, NEW ix
  PROVE  LET r == Run(acc, signed, <<ix>>) IN
         \/ /\ r.result = "Ok" /\ r.accounts = After(acc, ix)
            /\ WellPlaced(acc, ix) /\ Possible(acc, ix)
            /\ HasAuthority(ix) => Authorised(acc, signed, ix)
         \/ /\ r.result = "Unauthorised" /\ r.accounts = acc /\ WellPlaced(acc, ix)
            /\ HasAuthority(ix) /\ ~Authorised(acc, signed, ix)
         \/ /\ r.result = "Refused" /\ r.accounts = acc
            /\ \/ ~WellPlaced(acc, ix)
               \/ ~Possible(acc, ix) /\ (HasAuthority(ix) => Authorised(acc, signed, ix))
<1> DEFINE r0 == [result |-> "Ok", accounts |-> acc]
           E(now, i) == Execute(now, signed, <<ix>>[i])
           body(g) == [i \in 0..1 |-> IF i = 0 THEN r0 ELSE E(g[i-1], i)]
           w == [i \in 0..1 |-> IF i = 0 THEN r0 ELSE E(r0, i)]
           run == CHOOSE g : g = body(g)
           end == Execute(r0, signed, ix)
<1>1. w = body(w)
  <2> HIDE DEF E, r0
  <2> QED BY SMTT(60)
<1>2. run = body(run)
  <2> HIDE DEF body
  <2> QED BY <1>1
<1>3. run[1] = end
  <2> HIDE DEF r0, run
  <2> QED BY SMTT(60), <1>2
<1>4. Len(<<ix>>) = 1
  BY SMTT(60)
<1>5. Run(acc, signed, <<ix>>)
        = [result |-> run[1].result,
           accounts |-> IF run[1].result = "Ok" THEN run[1].accounts ELSE acc]
  BY SMTT(60), <1>4 DEF Run
<1>6. Run(acc, signed, <<ix>>)
        = [result |-> end.result, accounts |-> IF end.result = "Ok" THEN end.accounts ELSE acc]
  <2> HIDE DEF run, end
  <2> QED BY <1>3, <1>5
<1>7. r0.result = "Ok" /\ r0.accounts = acc
  OBVIOUS
<1>8. \/ /\ end = [result |-> "Ok", accounts |-> After(acc, ix)]
         /\ WellPlaced(acc, ix) /\ Possible(acc, ix)
         /\ HasAuthority(ix) => Authorised(acc, signed, ix)
      \/ /\ end = [result |-> "Unauthorised", accounts |-> acc] /\ WellPlaced(acc, ix)
         /\ HasAuthority(ix) /\ ~Authorised(acc, signed, ix)
      \/ /\ end = [result |-> "Refused", accounts |-> acc]
         /\ \/ ~WellPlaced(acc, ix)
            \/ ~Possible(acc, ix) /\ (HasAuthority(ix) => Authorised(acc, signed, ix))
  <2> HIDE DEF r0
  <2> QED BY <1>7 DEF Execute
<1> HIDE DEF end
<1> QED BY SMTT(60), <1>6, <1>8

\* A transaction that allocates an account and initializes it.
Initializes(ix) ==
  ix.do \in {"initialize_mint", "initialize_account", "initialize_multisig"}

\* It ends with both instructions done or with neither.
LEMMA RunCreate ==
  ASSUME NEW acc, NEW signed, NEW new, NEW ix, new.do = "create", Initializes(ix)
  PROVE  LET r == Run(acc, signed, <<new, ix>>)
             blank == After(acc, new)
         IN \/ /\ r.result = "Ok" /\ r.accounts = After(blank, ix)
               /\ Possible(acc, new) /\ Possible(blank, ix)
            \/ /\ r.result = "Refused" /\ r.accounts = acc
               /\ ~Possible(acc, new) \/ ~Possible(blank, ix)
<1> DEFINE ixs == <<new, ix>>
           r0 == [result |-> "Ok", accounts |-> acc]
           r1 == Execute(r0, signed, new)
           r2 == Execute(r1, signed, ix)
           E(now, i) == Execute(now, signed, ixs[i])
           body(g) == [i \in 0..2 |-> IF i = 0 THEN r0 ELSE E(g[i-1], i)]
           w == [i \in 0..2 |-> IF i = 0 THEN r0 ELSE IF i = 1 THEN E(r0, 1) ELSE E(E(r0, 1), 2)]
           run == CHOOSE g : g = body(g)
<1>1. w = body(w)
  <2> HIDE DEF E, r0
  <2> QED BY SMTT(60)
<1>2. run = body(run)
  <2> HIDE DEF body
  <2> QED BY <1>1
<1>3. ixs[1] = new /\ ixs[2] = ix /\ Len(ixs) = 2
  BY SMTT(60)
<1>4. run[2] = E(E(r0, 1), 2)
  <2> HIDE DEF r0, run, E
  <2>1. run[0] = r0 /\ run[1] = E(run[0], 1) /\ run[2] = E(run[1], 2)
    BY SMTT(60), <1>2
  <2> QED BY <2>1
<1>5. run[2] = r2
  <2> HIDE DEF r0, run, ixs
  <2> QED BY <1>3, <1>4
<1>6. Run(acc, signed, ixs)
        = [result |-> run[2].result,
           accounts |-> IF run[2].result = "Ok" THEN run[2].accounts ELSE acc]
  BY SMTT(60), <1>3 DEF Run
<1>7. Run(acc, signed, ixs)
        = [result |-> r2.result, accounts |-> IF r2.result = "Ok" THEN r2.accounts ELSE acc]
  <2> HIDE DEF run, r2, ixs
  <2> QED BY <1>5, <1>6
<1>8. /\ \A now : WellPlaced(now, new) /\ WellPlaced(now, ix)
      /\ ~HasAuthority(new) /\ ~HasAuthority(ix)
  BY DEF WellPlaced, HasAuthority, Initializes
<1>9. IF Possible(acc, new) THEN r1 = [result |-> "Ok", accounts |-> After(acc, new)]
      ELSE r1 = [result |-> "Refused", accounts |-> acc]
  <2>1. r0.result = "Ok" /\ r0.accounts = acc
    OBVIOUS
  <2> HIDE DEF r0
  <2> QED BY <1>8, <2>1 DEF Execute
<1>10. CASE ~Possible(acc, new)
  <2>1. r1.result = "Refused"
    BY SMTT(60), <1>9, <1>10
  <2>2. r2 = r1
    <3> HIDE DEF r1
    <3> QED BY <2>1 DEF Execute
  <2> HIDE DEF r1, r2, ixs
  <2>3. Run(acc, signed, ixs) = [result |-> "Refused", accounts |-> acc]
    BY <1>7, <2>1, <2>2
  <2> QED BY SMTT(60), <1>10, <2>3 DEF ixs
<1>11. CASE Possible(acc, new)
  <2>1. r1.result = "Ok" /\ r1.accounts = After(acc, new)
    BY SMTT(60), <1>9, <1>11
  <2>2. IF Possible(After(acc, new), ix)
        THEN r2 = [result |-> "Ok", accounts |-> After(After(acc, new), ix)]
        ELSE r2 = [result |-> "Refused", accounts |-> After(acc, new)]
    <3> HIDE DEF r1
    <3> QED BY <1>8, <2>1 DEF Execute
  <2> HIDE DEF r1, r2, ixs
  <2>3. IF Possible(After(acc, new), ix)
        THEN Run(acc, signed, ixs) = [result |-> "Ok", accounts |-> After(After(acc, new), ix)]
        ELSE Run(acc, signed, ixs) = [result |-> "Refused", accounts |-> acc]
    BY SMTT(60), <1>7, <2>2
  <2> QED BY SMTT(60), <1>11, <2>3 DEF ixs
<1> QED BY <1>10, <1>11

\* An account is put at an address, all others stay as they were.
Adds(acc, new, a) ==
  DOMAIN new = DOMAIN acc \cup {a} /\ \A b \in DOMAIN acc : b # a => new[b] = acc[b]

\* A new token account is empty and not frozen.
LEMMA NewTokenIsToken ==
  ASSUME NEW p, NEW m, NEW o
  PROVE  /\ IsToken(NewToken(p, m, o)) /\ NewToken(p, m, o).mint = m
         /\ NewToken(p, m, o).owner = o /\ ~NewToken(p, m, o).frozen
<1>1. 0 \in Nat
  BY SMTT(60)
<1> QED BY <1>1 DEF NewToken, IsToken

\* What allocating and initializing leave behind.
LEMMA CreateAdds ==
  ASSUME NEW acc, NEW new, NEW ix, NEW a, new.do = "create", Initializes(ix),
         new.account = a, ix.account = a, a \notin DOMAIN acc,
         ix.do = "initialize_multisig" => ix.m \in Nat
  PROVE  LET after == After(After(acc, new), ix) IN
         /\ Adds(acc, after, a)
         /\ ix.do = "initialize_mint" => IsMint(after[a])
         /\ ix.do = "initialize_account" => after[a] = NewToken(ix.program, ix.of, ix.owner)
         /\ ix.do = "initialize_multisig" => IsMultisig(after[a])
<1> DEFINE blank == After(acc, new)
           after == After(blank, ix)
<1>1. blank = Put(acc, a, [kind |-> "blank", program |-> new.program])
  BY DEF After
<1>2. DOMAIN blank = DOMAIN acc \cup {a} /\ \A b \in DOMAIN acc : blank[b] = acc[b]
  <2> DEFINE r == [kind |-> "blank", program |-> new.program]
  <2>1. /\ DOMAIN Put(acc, a, r) = DOMAIN acc \cup {a}
        /\ \A b \in DOMAIN acc : b # a => Put(acc, a, r)[b] = acc[b]
    BY DEF Put
  <2> HIDE DEF blank, r
  <2> QED BY <1>1, <2>1 DEF r
<1> HIDE DEF blank
<1>3. ASSUME NEW r, after = Put(blank, a, r) PROVE Adds(acc, after, a) /\ after[a] = r
  <2> HIDE DEF after
  <2>1. /\ DOMAIN after = DOMAIN blank \cup {a} /\ after[a] = r
        /\ \A b \in DOMAIN blank : b # a => after[b] = blank[b]
    BY <1>3 DEF Put
  <2>2. DOMAIN after = DOMAIN acc \cup {a} /\ \A b \in DOMAIN acc : after[b] = acc[b]
    BY <1>2, <2>1
  <2> QED BY <2>1, <2>2 DEF Adds
<1>4. CASE ix.do = "initialize_mint"
  <2> DEFINE r == [kind |-> "mint", program |-> ix.program, authority |-> {ix.owner},
                   freeze |-> ix.freeze, decimals |-> ix.places, supply |-> 0]
  <2>1. after = Put(blank, a, r)
    BY <1>4 DEF After
  <2>2. IsMint(r)
    BY DEF IsMint
  <2> HIDE DEF r, after
  <2> QED BY <1>3, <1>4, <2>1, <2>2 DEF after, blank
<1>5. CASE ix.do = "initialize_account"
  <2>1. after = Put(blank, a, NewToken(ix.program, ix.of, ix.owner))
    BY <1>5 DEF After
  <2> HIDE DEF after
  <2> QED BY <1>3, <1>5, <2>1 DEF after, blank
<1>6. CASE ix.do = "initialize_multisig"
  <2> DEFINE r == [kind |-> "multisig", program |-> ix.program, m |-> ix.m, signers |-> ix.keys]
  <2>1. after = Put(blank, a, r)
    BY <1>6 DEF After
  <2>2. IsMultisig(r)
    BY <1>6 DEF IsMultisig
  <2> HIDE DEF r, after
  <2> QED BY <1>3, <1>6, <2>1, <2>2 DEF after, blank
<1> QED BY <1>4, <1>5, <1>6 DEF Initializes

\* Only a missing mint can refuse an account at an address that is free.
LEMMA CreatePossible ==
  ASSUME NEW acc, NEW new, NEW ix, NEW a, new.do = "create", Initializes(ix),
         new.account = a, ix.account = a, new.program = ix.program
  PROVE  /\ Possible(acc, new) <=> a \notin DOMAIN acc \cup Wallets
         /\ /\ a \notin DOMAIN acc
            /\ ix.do = "initialize_account" => Is(acc, "mint", ix.of, ix.program)
            => Possible(After(acc, new), ix)
<1> DEFINE blank == After(acc, new)
<1>1. Possible(acc, new) <=> a \notin DOMAIN acc \cup Wallets
  BY DEF Possible
<1>2. ASSUME a \notin DOMAIN acc, ix.do = "initialize_account" => Is(acc, "mint", ix.of, ix.program)
      PROVE  Possible(blank, ix)
  <2> DEFINE r == [kind |-> "blank", program |-> new.program]
  <2>1. blank = Put(acc, a, r)
    BY DEF After
  <2>2. r.kind = "blank" /\ r.program = ix.program
    OBVIOUS
  <2> HIDE DEF blank, r
  <2>3. /\ DOMAIN blank = DOMAIN acc \cup {a} /\ blank[a] = r
        /\ \A b \in DOMAIN acc : b # a => blank[b] = acc[b]
    BY <2>1 DEF Put
  <2>4. Is(blank, "blank", a, ix.program)
    BY <2>2, <2>3 DEF Is
  <2>5. ASSUME NEW m, Is(acc, "mint", m, ix.program) PROVE Is(blank, "mint", m, ix.program)
    <3>1. m \in DOMAIN acc /\ m # a
      BY <1>2, <2>5 DEF Is
    <3> QED BY <2>3, <2>5, <3>1 DEF Is
  <2>6. CASE ix.do = "initialize_account"
    BY <1>2, <2>4, <2>5, <2>6 DEF Possible
  <2>7. CASE ix.do \in {"initialize_mint", "initialize_multisig"}
    BY <2>4, <2>7 DEF Possible
  <2> QED BY <2>6, <2>7 DEF Initializes
<1> QED BY <1>1, <1>2

-----------------------------------------------------------------------------
(* The invariant.                                                          *)

\* Where accounts are.  Multisigs are at keys that a builder drew, so that
\* nobody signs with them; associated accounts are token accounts of the mint
\* they are derived from; a key that was not drawn yet has no account.
Located(acc, d) ==
  /\ \A a \in DOMAIN acc : acc[a].kind = "multisig" => a \in FreshKeys
  /\ \A a \in DOMAIN acc : \A o, m \in Pubkey : \A p \in ProgramId :
       a = Ata(o, m, p) => acc[a].kind = "token" /\ acc[a].mint = m
  /\ \A i \in DOMAIN Fresh : i > d => Fresh[i] \notin DOMAIN acc

Frozen(acc, f) ==
  \A a \in DOMAIN acc : acc[a].kind = "token" /\ acc[a].frozen =>
    \E x \in f : a = Ata(x[2], x[1], acc[a].program)

\* `freezers` has every freeze authority there is.
FreezersKnown(acc, f) ==
  \A a \in DOMAIN acc : acc[a].kind = "mint" => \A k \in acc[a].freeze : <<a, k>> \in f

\* No transaction of the history creates an account at a key that was not
\* drawn yet.
TxDrawn(tx, d) ==
  tx.instructions[1].do = "create" =>
    \A i \in DOMAIN Fresh : i > d => tx.instructions[1].account # Fresh[i]
SentDrawn(s, d) == (\E S : s \in Seq(S)) /\ \A i \in DOMAIN s : TxDrawn(s[i], d)

TInv ==
  /\ calls \in Tests /\ drawn \in 0..Len(Fresh)
  /\ AreAccounts(accounts) /\ Located(accounts, drawn)
  /\ Frozen(accounts, freezers) /\ FreezersKnown(accounts, freezers)
  /\ SentDrawn(sent, drawn)

\* Instructions on accounts that exist leave accounts where they may be.
LEMMA EvolvesGood ==
  ASSUME NEW acc, NEW new, NEW ix, NEW d, Evolves(acc, new, ix), Located(acc, d)
  PROVE  AreAccounts(new) /\ Located(new, d)
<1>1. /\ DOMAIN new \subseteq DOMAIN acc
      /\ \A a \in DOMAIN new : /\ IsAccount(new[a]) /\ new[a].kind = acc[a].kind
                               /\ acc[a].kind = "token" => new[a].mint = acc[a].mint
  BY DEF Evolves, Same
<1>2. AreAccounts(new)
  BY <1>1 DEF AreAccounts
<1>3. \A a \in DOMAIN new : new[a].kind = "multisig" => a \in FreshKeys
  BY <1>1 DEF Located
<1>4. ASSUME NEW a \in DOMAIN new, NEW o \in Pubkey, NEW m \in Pubkey, NEW p \in ProgramId,
             a = Ata(o, m, p)
      PROVE  new[a].kind = "token" /\ new[a].mint = m
  <2>1. a \in DOMAIN acc /\ acc[a].kind = "token" /\ acc[a].mint = m
    BY <1>1, <1>4 DEF Located
  <2> QED BY <1>1, <2>1
<1>5. \A i \in DOMAIN Fresh : i > d => Fresh[i] \notin DOMAIN new
  BY <1>1 DEF Located
<1> QED BY <1>2, <1>3, <1>4, <1>5 DEF Located

\* Only "freeze" can make an account a frozen one.
LEMMA EvolvesFrozen ==
  ASSUME NEW acc, NEW new, NEW ix, NEW f, NEW g, Evolves(acc, new, ix), Frozen(acc, f),
         f \subseteq g,
         ix.do = "freeze" => \E x \in g : ix.account = Ata(x[2], x[1], acc[ix.account].program)
  PROVE  Frozen(new, g)
<1> SUFFICES ASSUME NEW a \in DOMAIN new, new[a].kind = "token", new[a].frozen
             PROVE  \E x \in g : a = Ata(x[2], x[1], new[a].program)
  BY DEF Frozen
<1>1. /\ a \in DOMAIN acc /\ acc[a].kind = "token" /\ new[a].program = acc[a].program
      /\ (ix.do = "freeze" /\ a = ix.account) \/ acc[a].frozen
  BY DEF Evolves, Same, Keeps
<1>2. CASE ix.do = "freeze" /\ a = ix.account
  BY <1>1, <1>2
<1>3. CASE acc[a].frozen
  <2>1. \E x \in f : a = Ata(x[2], x[1], acc[a].program)
    BY <1>1, <1>3 DEF Frozen
  <2> QED BY <1>1, <2>1
<1> QED BY <1>1, <1>2, <1>3

\* An account that may be added.
MayAdd(r, a, e) ==
  /\ IsAccount(r) /\ (r.kind = "token" => ~r.frozen)
  /\ r.kind = "multisig" => a \in FreshKeys
  /\ \A o, m \in Pubkey : \A p \in ProgramId :
       a = Ata(o, m, p) => r.kind = "token" /\ r.mint = m
  /\ \A i \in DOMAIN Fresh : i > e => a # Fresh[i]

\* Putting such an account anywhere it may be is as good.
LEMMA AddsGood ==
  ASSUME NEW acc, NEW new, NEW a, NEW d, NEW e, NEW f, NEW g, AreAccounts(acc), Located(acc, d),
         Frozen(acc, f), f \subseteq g, Adds(acc, new, a), MayAdd(new[a], a, e),
         \A i \in DOMAIN Fresh : i > e => i > d
  PROVE  AreAccounts(new) /\ Located(new, e) /\ Frozen(new, g)
<1>1. DOMAIN new = DOMAIN acc \cup {a} /\ \A b \in DOMAIN acc : b # a => new[b] = acc[b]
  BY DEF Adds
<1>2. AreAccounts(new)
  BY <1>1 DEF AreAccounts, MayAdd
<1>3. \A b \in DOMAIN new : new[b].kind = "multisig" => b \in FreshKeys
  BY <1>1 DEF Located, MayAdd
<1>4. \A b \in DOMAIN new : \A o, m \in Pubkey : \A p \in ProgramId :
        b = Ata(o, m, p) => new[b].kind = "token" /\ new[b].mint = m
  BY SMTT(60), <1>1 DEF Located, MayAdd
<1>5. \A i \in DOMAIN Fresh : i > e => Fresh[i] \notin DOMAIN new
  BY <1>1 DEF Located, MayAdd
<1>6. Frozen(new, g)
  <2> SUFFICES ASSUME NEW b \in DOMAIN new, new[b].kind = "token", new[b].frozen
               PROVE  \E x \in g : b = Ata(x[2], x[1], new[b].program)
    BY DEF Frozen
  <2>1. b \in DOMAIN acc /\ new[b] = acc[b]
    BY <1>1 DEF MayAdd
  <2> QED BY <2>1 DEF Frozen
<1> QED BY <1>2, <1>3, <1>4, <1>5, <1>6 DEF Located

\* The history after a call.
LEMMA Remembering ==
  ASSUME NEW s, NEW txs, NEW d, NEW e, SentDrawn(s, d),
         txs = {} \/ \E tx : txs = {tx} /\ TxDrawn(tx, e),
         \A i \in DOMAIN Fresh : i > e => i > d
  PROVE  SentDrawn(Remember(s, txs), e)
<1> DEFINE longer == IF txs = {} THEN s ELSE Append(s, CHOOSE t \in txs : TRUE)
<1>1. \A i \in DOMAIN s : TxDrawn(s[i], e)
  BY DEF SentDrawn, TxDrawn
<1>2. PICK S : s \in Seq(S)
  BY DEF SentDrawn
<1>3. /\ \E T : longer \in Seq(T)
      /\ \A i \in DOMAIN longer : TxDrawn(longer[i], e)
  <2>1. CASE txs = {}
    BY <1>1, <1>2, <2>1
  <2>2. ASSUME NEW tx, txs = {tx}, TxDrawn(tx, e)
        PROVE  /\ \E T : longer \in Seq(T)
               /\ \A i \in DOMAIN longer : TxDrawn(longer[i], e)
    <3>1. longer = Append(s, tx)
      BY <2>2
    <3> HIDE DEF longer
    <3>2. s \in Seq(S \cup {tx}) /\ tx \in S \cup {tx}
      BY SMTT(60), <1>2
    <3>3. longer \in Seq(S \cup {tx})
      BY SMTT(60), <3>1, <3>2
    <3>4. \A i \in DOMAIN longer : longer[i] = tx \/ (i \in DOMAIN s /\ longer[i] = s[i])
      <4> DEFINE U == S \cup {tx}
      <4> HIDE DEF U
      <4>1. s \in Seq(U) /\ tx \in U
        BY <3>2 DEF U
      <4>2. /\ Len(longer) = Len(s) + 1 /\ longer[Len(s) + 1] = tx
            /\ \A i \in 1..Len(s) : longer[i] = s[i]
        BY SMTT(60), <3>1, <4>1
      <4>3. DOMAIN longer = 1..Len(longer) /\ DOMAIN s = 1..Len(s) /\ Len(s) \in Nat
        BY SMTT(60), <3>3, <4>1
      <4> QED BY SMTT(60), <4>2, <4>3
    <3>5. \A i \in DOMAIN longer : TxDrawn(longer[i], e)
      BY <1>1, <2>2, <3>4
    <3> QED BY <3>3, <3>5
  <2> QED BY <2>1, <2>2
<1>4. Remember(s, txs) = IF Len(longer) > HistoryLimit THEN Tail(longer) ELSE longer
  BY DEF Remember
<1> HIDE DEF longer
<1>5. CASE Len(longer) > HistoryLimit
  <2>1. PICK T : longer \in Seq(T)
    BY <1>3
  <2>2. Len(longer) > 0
    BY SMTT(60), <1>5, <2>1, BuilderAssumption
  <2>3. /\ Tail(longer) \in Seq(T)
        /\ \A i \in DOMAIN Tail(longer) :
              i + 1 \in DOMAIN longer /\ Tail(longer)[i] = longer[i + 1]
    BY SMTT(60), <2>1, <2>2
  <2>4. \A i \in DOMAIN Tail(longer) : TxDrawn(Tail(longer)[i], e)
    BY <1>3, <2>3
  <2> QED BY <1>4, <1>5, <2>3, <2>4 DEF SentDrawn
<1>6. CASE ~(Len(longer) > HistoryLimit)
  BY <1>3, <1>4, <1>6 DEF SentDrawn
<1> QED BY <1>5, <1>6

-----------------------------------------------------------------------------
(* Sending.                                                                *)

\* The keys the message of a call asks for, and its transaction.
Required(c, ixs) == {c.payer} \cup UNION {MarkedSigners(ixs[i]) : i \in DOMAIN ixs}
TxOf(c, ixs) == [payer |-> c.payer, instructions |-> ixs]

\* A call that ended before its transaction ran, and one whose transaction ran.
Stopped(c, ixs, keys) ==
  /\ accounts' = accounts /\ sent' = Remember(sent, {}) /\ reply'.tx = {}
  /\ \/ /\ reply'.result \in {"IncorrectProgramId", "MissingRequiredSignature"}
        /\ SignersAccepted(ixs) => reply'.result = "IncorrectProgramId"
     \/ reply'.result = "panic" /\ ~(keys \subseteq Required(c, ixs))
     \/ reply'.result = "SignatureFailure" /\ ~(Required(c, ixs) \subseteq keys \cup {c.payer})
     \/ reply'.result = "AlreadyProcessed" /\ \E i \in DOMAIN sent : sent[i] = TxOf(c, ixs)
Ran(c, ixs) ==
  /\ Constructed(ixs)
  /\ accounts' = Run(accounts, Required(c, ixs), ixs).accounts
  /\ reply'.result = Run(accounts, Required(c, ixs), ixs).result
  /\ sent' = Remember(sent, {TxOf(c, ixs)}) /\ reply'.tx = {TxOf(c, ixs)}

\* What the end of every `send` does.
LEMMA Sending ==
  ASSUME NEW c, NEW ixs, NEW keys, NEW returns, SignAndSend(c, ixs, keys, returns)
  PROVE  /\ calls' = calls /\ reply'.call = c
         /\ reply'.returned = IF reply'.result = "Ok" THEN returns ELSE {}
         /\ freezers \subseteq freezers' /\ FreezersKnown(accounts', freezers')
         /\ Stopped(c, ixs, keys) \/ Ran(c, ixs)
<1> DEFINE out == Outcome(c, ixs, keys)
           tx == TxOf(c, ixs)
           end == Run(accounts, Required(c, ixs), ixs)
           Stop(result) == [result |-> result, tx |-> {}, accounts |-> accounts]
<1>1. /\ calls' = calls /\ accounts' = out.accounts /\ sent' = Remember(sent, out.tx)
      /\ freezers' = freezers \cup
           UNION {{<<a, k>> : k \in accounts'[a].freeze} :
                  a \in {b \in DOMAIN accounts' : accounts'[b].kind = "mint"}}
      /\ reply' = [call |-> c, tx |-> out.tx, result |-> out.result,
                   returned |-> IF out.result = "Ok" THEN returns ELSE {}]
  BY DEF SignAndSend
<1>2. freezers \subseteq freezers' /\ FreezersKnown(accounts', freezers')
  <2>1. freezers \subseteq freezers'
    BY <1>1
  <2>2. ASSUME NEW a \in DOMAIN accounts', accounts'[a].kind = "mint", NEW k \in accounts'[a].freeze
        PROVE  <<a, k>> \in freezers'
    BY SMTT(60), <1>1, <2>2
  <2> QED BY <2>1, <2>2 DEF FreezersKnown
<1>3. out = IF ~Constructed(ixs) THEN Stop(ConstructorError(ixs))
            ELSE IF ~(keys \subseteq Required(c, ixs)) THEN Stop("panic")
            ELSE IF ~(Required(c, ixs) \subseteq keys \cup {c.payer}) THEN Stop("SignatureFailure")
            ELSE IF \E i \in DOMAIN sent : sent[i] = tx THEN Stop("AlreadyProcessed")
            ELSE [result |-> end.result, tx |-> {tx}, accounts |-> end.accounts]
  BY DEF Outcome, Required, TxOf
<1> HIDE DEF out, tx, end
<1>4. /\ reply'.call = c /\ reply'.tx = out.tx /\ reply'.result = out.result
      /\ reply'.returned = IF out.result = "Ok" THEN returns ELSE {}
  BY <1>1
<1>5. \/ out = Stop(ConstructorError(ixs)) /\ ~Constructed(ixs)
      \/ out = Stop("panic") /\ ~(keys \subseteq Required(c, ixs))
      \/ out = Stop("SignatureFailure") /\ ~(Required(c, ixs) \subseteq keys \cup {c.payer})
      \/ out = Stop("AlreadyProcessed") /\ \E i \in DOMAIN sent : sent[i] = tx
      \/ out = [result |-> end.result, tx |-> {tx}, accounts |-> end.accounts] /\ Constructed(ixs)
  BY <1>3
<1>6. Stopped(c, ixs, keys) \/ Ran(c, ixs)
  <2>1. CASE out = [result |-> end.result, tx |-> {tx}, accounts |-> end.accounts]
               /\ Constructed(ixs)
    BY <1>1, <1>4, <2>1 DEF Ran, tx, end
  <2>2. ASSUME NEW result, out = Stop(result)
        PROVE  /\ accounts' = accounts /\ sent' = Remember(sent, {}) /\ reply'.tx = {}
               /\ reply'.result = result
    BY <1>1, <1>4, <2>2
  <2>3. ~Constructed(ixs) =>
          /\ ConstructorError(ixs) \in {"IncorrectProgramId", "MissingRequiredSignature"}
          /\ SignersAccepted(ixs) => ConstructorError(ixs) = "IncorrectProgramId"
    BY DEF Constructed, ConstructorError
  <2> QED BY <1>5, <2>1, <2>2, <2>3 DEF Stopped, tx
<1> QED BY <1>1, <1>2, <1>4, <1>6

\* The keys a message asks for, instruction by instruction.
LEMMA RequiredOne ==
  ASSUME NEW c, NEW ix PROVE Required(c, <<ix>>) = {c.payer} \cup MarkedSigners(ix)
<1>1. DOMAIN <<ix>> = {1} /\ <<ix>>[1] = ix
  BY SMTT(60)
<1> HIDE DEF MarkedSigners
<1> DEFINE ixs == <<ix>>
<1> HIDE DEF ixs
<1>2. DOMAIN ixs = {1} /\ ixs[1] = ix
  BY <1>1 DEF ixs
<1>3. Required(c, ixs) = {c.payer} \cup MarkedSigners(ix)
  BY <1>2 DEF Required
<1> QED BY <1>3 DEF ixs

\* A creating builder signs with all the message asks for and no more.
LEMMA RequiredTwo ==
  ASSUME NEW c, NEW new, NEW ix, new.do = "create", Initializes(ix)
  PROVE  Required(c, <<new, ix>>) = {c.payer, new.account}
<1> DEFINE ixs == <<new, ix>>
<1>1. DOMAIN ixs = {1, 2} /\ ixs[1] = new /\ ixs[2] = ix
  BY SMTT(60)
<1>2. MarkedSigners(new) = {new.account} /\ MarkedSigners(ix) = {}
  BY DEF MarkedSigners, HasAuthority, Initializes
<1> HIDE DEF ixs
<1>3. Required(c, ixs) = {c.payer, new.account}
  BY <1>1, <1>2 DEF Required
<1> QED BY <1>3 DEF ixs

-----------------------------------------------------------------------------
(* Calls and their instructions.                                           *)

\* What the types of the setters give.
LEMMA CallFacts ==
  ASSUME calls \in Tests, NEW c \in calls
  PROVE  /\ IsCall(c) /\ c.payer \in Held /\ Authority(c) \in Pubkey
         /\ TokenProgramId(c) \in ProgramId
         /\ Signers(c) \subseteq Held /\ IsFiniteSet(Signers(c))
         /\ Signers(c) = {} => c.signers = {{}}
<1>1. IsCall(c)
  BY BuilderAssumption
<1>2. c.payer \in Held /\ c.payer \in Pubkey /\ TOKEN_ID \in ProgramId
  BY <1>1, BuilderAssumption DEF IsCall, Held
<1>3. Authority(c) \in Pubkey /\ TokenProgramId(c) \in ProgramId
  BY <1>1, <1>2 DEF IsCall, IsOption, Authority, TokenProgramId, OrElse
<1>4. CASE c.signers = {}
  <2>1. Signers(c) = {c.payer}
    BY <1>4 DEF Signers, OrElse
  <2>2. IsFiniteSet({c.payer})
    BY FS_Singleton
  <2> QED BY <1>1, <1>2, <1>3, <2>1, <2>2
<1>5. CASE c.signers # {}
  <2>1. Signers(c) \in c.signers
    BY <1>5 DEF Signers, OrElse
  <2>2. \A s \in c.signers : s \subseteq Held /\ IsFiniteSet(s)
    BY <1>1 DEF IsCall
  <2>3. \A s, t \in c.signers : s = t
    BY <1>1 DEF IsCall
  <2>4. c.signers = {Signers(c)}
    BY <2>1, <2>3
  <2> QED BY <1>1, <1>2, <1>3, <2>1, <2>2, <2>4
<1> QED BY <1>4, <1>5

\* The fields of an instruction with an authority.
LEMMA InstructionFields ==
  ASSUME NEW c, NEW do, NEW account, NEW mint, NEW more,
         DOMAIN more \subseteq {"to", "amount", "decimals", "type", "new"}
  PROVE  LET ix == Instruction(c, do, account, mint, more) IN
         /\ ix.do = do /\ ix.program = TokenProgramId(c) /\ ix.account = account
         /\ ix.mint = mint /\ ix.authority = Authority(c)
         /\ ix.signers = get_multisig_signers(Authority(c), Signers(c))
         /\ \A x \in DOMAIN more : ix[x] = more[x]
<1> DEFINE base == [do |-> do, program |-> TokenProgramId(c), account |-> account, mint |-> mint,
                    decimals |-> {}, authority |-> Authority(c),
                    signers |-> get_multisig_signers(Authority(c), Signers(c))]
           ix == Instruction(c, do, account, mint, more)
<1>1. ix = [x \in DOMAIN more \cup DOMAIN base |->
              IF x \in DOMAIN more THEN more[x] ELSE base[x]]
  BY DEF Instruction, Over
<1>2. /\ DOMAIN base = {"do", "program", "account", "mint", "decimals", "authority", "signers"}
      /\ base.do = do /\ base.program = TokenProgramId(c) /\ base.account = account
      /\ base.mint = mint /\ base.authority = Authority(c)
      /\ base.signers = get_multisig_signers(Authority(c), Signers(c))
  OBVIOUS
<1> HIDE DEF base, ix
<1>3. /\ \A x \in DOMAIN more : ix[x] = more[x]
      /\ \A x \in DOMAIN base : x \notin DOMAIN more => ix[x] = base[x]
  BY <1>1
<1>4. /\ "do" \notin DOMAIN more /\ "program" \notin DOMAIN more /\ "account" \notin DOMAIN more
      /\ "mint" \notin DOMAIN more /\ "authority" \notin DOMAIN more
      /\ "signers" \notin DOMAIN more
  OBVIOUS
<1> QED BY <1>2, <1>3, <1>4 DEF ix

-----------------------------------------------------------------------------
(* The builders with an authority.                                         *)

AuthorityOps ==
  {"Transfer", "TransferChecked", "Approve", "ApproveChecked", "Revoke", "MintTo",
   "MintToChecked", "Burn", "BurnChecked", "CloseAccount", "FreezeAccount", "ThawAccount",
   "SetAuthority"}

\* What the properties need to know of the instruction of such a builder.
Acting(c, ix) ==
  /\ c.op \in AuthorityOps /\ HasAuthority(ix) /\ ActsOnAccounts(ix)
  /\ ix.program = TokenProgramId(c) /\ ix.authority = Authority(c)
  /\ ix.signers = get_multisig_signers(Authority(c), Signers(c))
  /\ ix.do = "freeze" => ix.account = AssociatedAccount(c) /\ ix.mint = {c.mint}
  /\ c.op \in {"Transfer", "TransferChecked"} => ix.do = "transfer" /\ ix.to = c.destination
  /\ c.op = "ApproveChecked" => ix.do = "approve"
  /\ c.op \in {"Transfer", "TransferChecked", "ApproveChecked"} =>
       ix.account = OrElse(c.source, AssociatedAccount(c))

\* A checked builder that found no mint.
NotFound(c) ==
  /\ reply'.call = c /\ reply'.tx = {} /\ reply'.returned = {}
  /\ reply'.result \in {"AccountNotFound", "InvalidAccountData", "OutOfRange"}
  /\ UNCHANGED <<calls, accounts, sent, drawn, freezers>>

\* A checked builder sends only when it found the mint.
LEMMA CheckedSends ==
  ASSUME NEW c, NEW ixs, SendChecked(c, ixs)
  PROVE  NotFound(c) \/ (get_spl_account(c.mint) = "Ok" /\ Send(c, ixs))
<1>1. get_spl_account(c.mint) \in {"Ok", "AccountNotFound", "InvalidAccountData", "OutOfRange"}
  BY DEF get_spl_account
<1>2. CASE get_spl_account(c.mint) # "Ok"
  BY SMTT(60), <1>1, <1>2 DEF SendChecked, NotFound
<1> QED BY <1>2 DEF SendChecked

AuthorityBuilders ==
  \/ Transfer \/ TransferChecked \/ Approve \/ ApproveChecked \/ Revoke
  \/ MintTo \/ MintToChecked \/ Burn \/ BurnChecked \/ CloseAccount
  \/ FreezeAccount \/ ThawAccount \/ SetAuthority

\* Each of these builders sends an instruction of that form, or nothing.
LEMMA AuthoritySends ==
  ASSUME calls \in Tests, AuthorityBuilders
  PROVE  \E c \in calls : \/ c.op \in AuthorityOps /\ NotFound(c)
                          \/ \E ix : Acting(c, ix) /\ Send(c, <<ix>>)
<1>1. ASSUME NEW c \in calls, NEW do, NEW account, NEW mint, NEW more, NEW ix,
             ix = Instruction(c, do, account, mint, more),
             DOMAIN more \subseteq {"to", "amount", "decimals", "type", "new"},
             c.op \in AuthorityOps,
             do \in {"transfer", "approve", "revoke", "burn", "mint_to", "close",
                     "freeze", "thaw", "set_authority"},
             do \in {"transfer", "burn", "mint_to"} =>
               "amount" \in DOMAIN more /\ more.amount \in Nat,
             do = "set_authority" =>
               "type" \in DOMAIN more /\ more.type \in {"mint", "freeze", "owner", "close"},
             do = "freeze" => account = AssociatedAccount(c) /\ mint = {c.mint},
             c.op \in {"Transfer", "TransferChecked"} =>
               do = "transfer" /\ "to" \in DOMAIN more /\ more.to = c.destination,
             c.op = "ApproveChecked" => do = "approve",
             c.op \in {"Transfer", "TransferChecked", "ApproveChecked"} =>
               account = OrElse(c.source, AssociatedAccount(c))
      PROVE  Acting(c, ix)
  <2>1. /\ ix.do = do /\ ix.program = TokenProgramId(c) /\ ix.account = account
        /\ ix.mint = mint /\ ix.authority = Authority(c)
        /\ ix.signers = get_multisig_signers(Authority(c), Signers(c))
        /\ \A x \in DOMAIN more : ix[x] = more[x]
    BY SMTT(60), <1>1, InstructionFields
  <2>2. HasAuthority(ix)
    BY <1>1, <2>1 DEF HasAuthority
  <2>3. ActsOnAccounts(ix)
    BY <1>1, <2>1, <2>2 DEF ActsOnAccounts
  <2> QED BY <1>1, <2>1, <2>2, <2>3 DEF Acting
<1>2. CASE Transfer
  <2> DEFINE more(c) == [to |-> c.destination, amount |-> c.amount]
             ix(c) == Instruction(c, "transfer", OrElse(c.source, AssociatedAccount(c)),
                                  {}, more(c))
  <2>1. PICK c \in calls : c.op = "Transfer" /\ Send(c, <<ix(c)>>)
    BY <1>2 DEF Transfer, Call, TransferInstruction
  <2>2. DOMAIN more(c) = {"to", "amount"} /\ more(c).amount = c.amount /\ more(c).to = c.destination
    OBVIOUS
  <2>3. c.amount \in Nat
    BY <2>1, CallFacts DEF IsCall
  <2> HIDE DEF more
  <2>4. Acting(c, ix(c))
    BY <1>1, <2>1, <2>2, <2>3 DEF AuthorityOps
  <2> QED BY <2>1, <2>4
<1>3. CASE TransferChecked
  <2> DEFINE more(c) == [to |-> c.destination, amount |-> c.amount, decimals |-> Decimals(c)]
             ix(c) == Instruction(c, "transfer", OrElse(c.source, AssociatedAccount(c)),
                                  {c.mint}, more(c))
  <2>1. PICK c \in calls : c.op = "TransferChecked" /\ SendChecked(c, <<ix(c)>>)
    BY <1>3 DEF TransferChecked, Call, TransferCheckedInstruction
  <2>2. /\ DOMAIN more(c) = {"to", "amount", "decimals"}
        /\ more(c).amount = c.amount /\ more(c).to = c.destination
    OBVIOUS
  <2>3. c.amount \in Nat
    BY <2>1, CallFacts DEF IsCall
  <2> HIDE DEF more
  <2>4. Acting(c, ix(c))
    BY <1>1, <2>1, <2>2, <2>3 DEF AuthorityOps
  <2> HIDE DEF ix
  <2> QED BY <2>1, <2>4, CheckedSends DEF AuthorityOps
<1>4. CASE Approve
  <2> DEFINE more(c) == [to |-> c.delegate, amount |-> c.amount]
             ix(c) == Instruction(c, "approve", c.source, {}, more(c))
  <2>1. PICK c \in calls : c.op = "Approve" /\ Send(c, <<ix(c)>>)
    BY <1>4 DEF Approve, Call
  <2>2. DOMAIN more(c) = {"to", "amount"}
    OBVIOUS
  <2> HIDE DEF more
  <2>3. Acting(c, ix(c))
    BY SMTT(60), <1>1, <2>1, <2>2 DEF AuthorityOps
  <2> QED BY <2>1, <2>3
<1>5. CASE ApproveChecked
  <2> DEFINE more(c) == [to |-> c.delegate, amount |-> c.amount,
                      decimals |-> {accounts[c.mint].decimals}]
             ix(c) == Instruction(c, "approve", OrElse(c.source, AssociatedAccount(c)),
                                  {c.mint}, more(c))
  <2>1. PICK c \in calls : c.op = "ApproveChecked" /\ SendChecked(c, <<ix(c)>>)
    BY <1>5 DEF ApproveChecked, Call, ApproveCheckedInstruction
  <2>2. DOMAIN more(c) = {"to", "amount", "decimals"}
    OBVIOUS
  <2> HIDE DEF more
  <2>3. Acting(c, ix(c))
    BY <1>1, <2>1, <2>2 DEF AuthorityOps
  <2> HIDE DEF ix
  <2> QED BY <2>1, <2>3, CheckedSends DEF AuthorityOps
<1>6. CASE Revoke
  <2> DEFINE more(c) == NoMore
             ix(c) == Instruction(c, "revoke", c.source, {}, more(c))
  <2>1. PICK c \in calls : c.op = "Revoke" /\ Send(c, <<ix(c)>>)
    BY <1>6 DEF Revoke, Call
  <2>2. DOMAIN more(c) = {}
    BY DEF NoMore
  <2> HIDE DEF more
  <2>3. Acting(c, ix(c))
    BY SMTT(60), <1>1, <2>1, <2>2 DEF AuthorityOps
  <2> QED BY <2>1, <2>3
<1>7. CASE MintTo
  <2> DEFINE more(c) == [amount |-> c.amount]
             ix(c) == Instruction(c, "mint_to", c.destination, {c.mint}, more(c))
  <2>1. PICK c \in calls : c.op = "MintTo" /\ Send(c, <<ix(c)>>)
    BY <1>7 DEF MintTo, Call
  <2>2. DOMAIN more(c) = {"amount"} /\ more(c).amount = c.amount
    OBVIOUS
  <2>3. c.amount \in Nat
    BY <2>1, CallFacts DEF IsCall
  <2> HIDE DEF more
  <2>4. Acting(c, ix(c))
    BY SMTT(60), <1>1, <2>1, <2>2, <2>3 DEF AuthorityOps
  <2> QED BY <2>1, <2>4
<1>8. CASE MintToChecked
  <2> DEFINE more(c) == [amount |-> c.amount, decimals |-> Decimals(c)]
             ix(c) == Instruction(c, "mint_to", c.destination, {c.mint}, more(c))
  <2>1. PICK c \in calls : c.op = "MintToChecked" /\ SendChecked(c, <<ix(c)>>)
    BY <1>8 DEF MintToChecked, Call, MintToCheckedInstruction
  <2>2. DOMAIN more(c) = {"amount", "decimals"} /\ more(c).amount = c.amount
    OBVIOUS
  <2>3. c.amount \in Nat
    BY <2>1, CallFacts DEF IsCall
  <2> HIDE DEF more
  <2>4. Acting(c, ix(c))
    BY SMTT(60), <1>1, <2>1, <2>2, <2>3 DEF AuthorityOps
  <2> HIDE DEF ix
  <2> QED BY <2>1, <2>4, CheckedSends DEF AuthorityOps
<1>9. CASE Burn
  <2> DEFINE more(c) == [amount |-> c.amount]
             ix(c) == Instruction(c, "burn", c.account, {c.mint}, more(c))
  <2>1. PICK c \in calls : c.op = "Burn" /\ Send(c, <<ix(c)>>)
    BY <1>9 DEF Burn, Call
  <2>2. DOMAIN more(c) = {"amount"} /\ more(c).amount = c.amount
    OBVIOUS
  <2>3. c.amount \in Nat
    BY <2>1, CallFacts DEF IsCall
  <2> HIDE DEF more
  <2>4. Acting(c, ix(c))
    BY SMTT(60), <1>1, <2>1, <2>2, <2>3 DEF AuthorityOps
  <2> QED BY <2>1, <2>4
<1>10. CASE BurnChecked
  <2> DEFINE more(c) == [amount |-> c.amount, decimals |-> Decimals(c)]
             ix(c) == Instruction(c, "burn", c.account, {c.mint}, more(c))
  <2>1. PICK c \in calls : c.op = "BurnChecked" /\ SendChecked(c, <<ix(c)>>)
    BY <1>10 DEF BurnChecked, Call, BurnCheckedInstruction
  <2>2. DOMAIN more(c) = {"amount", "decimals"} /\ more(c).amount = c.amount
    OBVIOUS
  <2>3. c.amount \in Nat
    BY <2>1, CallFacts DEF IsCall
  <2> HIDE DEF more
  <2>4. Acting(c, ix(c))
    BY SMTT(60), <1>1, <2>1, <2>2, <2>3 DEF AuthorityOps
  <2> HIDE DEF ix
  <2> QED BY <2>1, <2>4, CheckedSends DEF AuthorityOps
<1>11. CASE CloseAccount
  <2> DEFINE more(c) == [to |-> c.destination]
             ix(c) == Instruction(c, "close", c.account, {}, more(c))
  <2>1. PICK c \in calls : c.op = "CloseAccount" /\ Send(c, <<ix(c)>>)
    BY <1>11 DEF CloseAccount, Call
  <2>2. DOMAIN more(c) = {"to"}
    OBVIOUS
  <2> HIDE DEF more
  <2>3. Acting(c, ix(c))
    BY SMTT(60), <1>1, <2>1, <2>2 DEF AuthorityOps
  <2> QED BY <2>1, <2>3
<1>12. CASE FreezeAccount
  <2> DEFINE more(c) == NoMore
             ix(c) == Instruction(c, "freeze", AssociatedAccount(c), {c.mint}, more(c))
  <2>1. PICK c \in calls : c.op = "FreezeAccount" /\ Send(c, <<ix(c)>>)
    BY <1>12 DEF FreezeAccount, Call
  <2>2. DOMAIN more(c) = {}
    BY DEF NoMore
  <2> HIDE DEF more
  <2>3. Acting(c, ix(c))
    BY <1>1, <2>1, <2>2 DEF AuthorityOps
  <2> QED BY <2>1, <2>3
<1>13. CASE ThawAccount
  <2> DEFINE more(c) == NoMore
             ix(c) == Instruction(c, "thaw", AssociatedAccount(c), {c.mint}, more(c))
  <2>1. PICK c \in calls : c.op = "ThawAccount" /\ Send(c, <<ix(c)>>)
    BY <1>13 DEF ThawAccount, Call
  <2>2. DOMAIN more(c) = {}
    BY DEF NoMore
  <2> HIDE DEF more
  <2>3. Acting(c, ix(c))
    BY <1>1, <2>1, <2>2 DEF AuthorityOps
  <2> QED BY <2>1, <2>3
<1>14. CASE SetAuthority
  <2> DEFINE more(c) == [type |-> c.authority_type, new |-> c.new_authority]
             ix(c) == Instruction(c, "set_authority", c.account, {}, more(c))
  <2>1. PICK c \in calls : c.op = "SetAuthority" /\ Send(c, <<ix(c)>>)
    BY <1>14 DEF SetAuthority, Call
  <2>2. DOMAIN more(c) = {"type", "new"} /\ more(c).type = c.authority_type
    OBVIOUS
  <2>3. c.authority_type \in {"mint", "freeze", "owner", "close"}
    BY <2>1, CallFacts DEF IsCall
  <2> HIDE DEF more
  <2>4. Acting(c, ix(c))
    BY SMTT(60), <1>1, <2>1, <2>2, <2>3 DEF AuthorityOps
  <2> QED BY <2>1, <2>4
<1> QED BY <1>2, <1>3, <1>4, <1>5, <1>6, <1>7, <1>8,
  <1>9, <1>10, <1>11, <1>12, <1>13, <1>14 DEF AuthorityBuilders

-----------------------------------------------------------------------------
(* Transactions of one instruction.                                        *)

\* What such a call does to the accounts and to the history.
LEMMA SendingOne ==
  ASSUME TInv, NEW c, NEW ix, NEW keys, NEW returns, SignAndSend(c, <<ix>>, keys, returns),
         drawn' = drawn, ix.do # "create"
  PROVE  /\ SentDrawn(sent', drawn')
         /\ \/ accounts' = accounts /\ reply'.result # "Ok"
            \/ /\ reply'.result = "Ok" /\ accounts' = After(accounts, ix)
               /\ WellPlaced(accounts, ix) /\ Possible(accounts, ix) /\ Constructed(<<ix>>)
               /\ HasAuthority(ix) => Authorised(accounts, Required(c, <<ix>>), ix)
<1> DEFINE ixs == <<ix>>
           tx == TxOf(c, ixs)
<1>1. SentDrawn(sent, drawn) /\ \A i \in DOMAIN Fresh : i > drawn' => i > drawn
  BY DEF TInv
<1>2. TxDrawn(tx, drawn')
  <2>1. ixs[1] = ix
    BY SMTT(60)
  <2> HIDE DEF ixs
  <2>2. tx.instructions = ixs
    BY DEF TxOf
  <2> HIDE DEF tx
  <2> QED BY <2>1, <2>2 DEF TxDrawn
<1> HIDE DEF ixs, tx
<1>3. Stopped(c, ixs, keys) \/ Ran(c, ixs)
  BY Sending DEF ixs
<1>4. CASE Stopped(c, ixs, keys)
  <2>1. /\ accounts' = accounts /\ sent' = Remember(sent, {})
        /\ reply'.result \in {"IncorrectProgramId", "MissingRequiredSignature", "panic",
                             "SignatureFailure", "AlreadyProcessed"}
    BY <1>4 DEF Stopped
  <2>2. SentDrawn(Remember(sent, {}), drawn')
    BY <1>1, Remembering
  <2> QED BY <2>1, <2>2
<1>5. CASE Ran(c, ixs)
  <2>1. /\ accounts' = Run(accounts, Required(c, ixs), <<ix>>).accounts
        /\ reply'.result = Run(accounts, Required(c, ixs), <<ix>>).result
        /\ sent' = Remember(sent, {tx}) /\ Constructed(ixs)
    BY <1>5 DEF Ran, ixs, tx
  <2>2. SentDrawn(Remember(sent, {tx}), drawn')
    BY <1>1, <1>2, Remembering
  <2>3. \/ accounts' = accounts /\ reply'.result # "Ok"
        \/ /\ reply'.result = "Ok" /\ accounts' = After(accounts, ix)
           /\ WellPlaced(accounts, ix) /\ Possible(accounts, ix)
           /\ HasAuthority(ix) => Authorised(accounts, Required(c, ixs), ix)
    BY SMTT(60), <2>1, RunOne
  <2> QED BY <2>1, <2>2, <2>3 DEF ixs
<1> QED BY <1>3, <1>4, <1>5

\* A call that leaves the accounts as they are keeps the invariant.
LEMMA SameAccounts ==
  ASSUME TInv, calls' = calls, accounts' = accounts, drawn' = drawn, freezers \subseteq freezers',
         SentDrawn(sent', drawn')
  PROVE  TInv'
<1>1. FreezersKnown(accounts', freezers') /\ Frozen(accounts', freezers')
  BY DEF TInv, FreezersKnown, Frozen
<1> QED BY <1>1 DEF TInv

\* A call of a builder with an authority keeps the invariant.
LEMMA ActingKeeps ==
  ASSUME TInv, NEW c \in calls, NEW ix, Acting(c, ix), Send(c, <<ix>>)
  PROVE  TInv'
<1>1. SignAndSend(c, <<ix>>, Signers(c), {}) /\ drawn' = drawn
  BY DEF Send
<1>2. ix.do # "create" /\ HasAuthority(ix) /\ ActsOnAccounts(ix)
  BY DEF Acting, HasAuthority
<1>3. calls' = calls /\ freezers \subseteq freezers' /\ FreezersKnown(accounts', freezers')
  BY <1>1, Sending
<1>4. /\ SentDrawn(sent', drawn')
      /\ \/ accounts' = accounts
         \/ /\ accounts' = After(accounts, ix)
            /\ WellPlaced(accounts, ix) /\ Possible(accounts, ix)
            /\ Authorised(accounts, Required(c, <<ix>>), ix)
  BY <1>1, <1>2, SendingOne
<1>5. CASE accounts' = accounts
  BY <1>1, <1>3, <1>4, <1>5, SameAccounts
<1>6. CASE /\ accounts' = After(accounts, ix)
           /\ WellPlaced(accounts, ix) /\ Possible(accounts, ix)
           /\ Authorised(accounts, Required(c, <<ix>>), ix)
  <2>1. AreAccounts(accounts) /\ Located(accounts, drawn) /\ Frozen(accounts, freezers)
    BY DEF TInv
  <2>2. Evolves(accounts, accounts', ix)
    BY <1>2, <1>6, <2>1, AfterEvolves
  <2>3. AreAccounts(accounts') /\ Located(accounts', drawn')
    BY <1>1, <2>1, <2>2, EvolvesGood
  <2>4. ASSUME ix.do = "freeze"
        PROVE  \E x \in freezers' : ix.account = Ata(x[2], x[1], accounts[ix.account].program)
    <3> DEFINE m == accounts[ix.account].mint
    <3>1. /\ ix.account = Ata(Authority(c), c.mint, TokenProgramId(c)) /\ ix.mint = {c.mint}
          /\ ix.program = TokenProgramId(c) /\ ix.authority = Authority(c)
      BY <2>4 DEF Acting, AssociatedAccount
    <3>2. accounts[ix.account].program = ix.program /\ OnTokenAccount(accounts, ix)
      BY <1>2, <1>6, <2>1, <2>4, Placed
    <3>3. Is(accounts, "mint", m, ix.program) /\ m = c.mint
      BY <3>1, <3>2 DEF OnTokenAccount
    <3>4. Authority(c) \in accounts[m].freeze
      BY <1>6, <2>4, <3>1 DEF Authorised, Owners
    <3>5. <<c.mint, Authority(c)>> \in freezers
      BY <3>3, <3>4 DEF TInv, FreezersKnown, Is
    <3>6. <<c.mint, Authority(c)>>[1] = c.mint /\ <<c.mint, Authority(c)>>[2] = Authority(c)
      BY SMTT(60)
    <3> QED BY <1>3, <3>1, <3>2, <3>5, <3>6
  <2>5. Frozen(accounts', freezers')
    BY <1>3, <2>1, <2>2, <2>4, EvolvesFrozen
  <2> QED BY <1>1, <1>3, <1>4, <2>3, <2>5 DEF TInv
<1> QED BY <1>4, <1>5, <1>6

\* A call of a builder with an authority collects the signatures it needs.
LEMMA ActingSigned ==
  ASSUME TInv, NEW c \in calls, NEW ix, Acting(c, ix), Send(c, <<ix>>)
  PROVE  SignedAsNeeded
<1> DEFINE ixs == <<ix>>
           key == Authority(c)
<1>1. SignAndSend(c, ixs, Signers(c), {})
  BY DEF Send
<1>2. reply'.call = c /\ (Stopped(c, ixs, Signers(c)) \/ Ran(c, ixs))
  BY <1>1, Sending
<1>3. /\ Signers(c) \subseteq Held /\ IsFiniteSet(Signers(c))
      /\ Signers(c) = {} => c.signers = {{}}
  BY CallFacts DEF TInv
<1>4. /\ HasAuthority(ix) /\ ix.program = TokenProgramId(c) /\ ix.authority = key
      /\ ix.signers = IF Signers(c) = {key} THEN {} ELSE Signers(c)
  BY DEF Acting, get_multisig_signers
<1>5. MarkedSigners(ix) = IF Signers(c) = {} THEN {key} ELSE Signers(c)
  BY <1>4 DEF MarkedSigners
<1>6. Required(c, ixs) = {c.payer} \cup (IF Signers(c) = {} THEN {key} ELSE Signers(c))
  BY <1>5, RequiredOne
<1>7. CASE Stopped(c, ixs, Signers(c))
  <2>1. \/ reply'.result \in {"IncorrectProgramId", "MissingRequiredSignature"}
        \/ reply'.result = "panic" /\ ~(Signers(c) \subseteq Required(c, ixs))
        \/ /\ reply'.result = "SignatureFailure"
           /\ ~(Required(c, ixs) \subseteq Signers(c) \cup {c.payer})
        \/ reply'.result = "AlreadyProcessed"
    BY <1>7 DEF Stopped
  <2>2. Signers(c) \subseteq Required(c, ixs)
    BY <1>6
  <2>3. Required(c, ixs) \subseteq Signers(c) \cup {c.payer} \/ Signers(c) = {}
    BY <1>6
  <2> QED BY <1>2, <1>3, <2>1, <2>2, <2>3 DEF SignedAsNeeded
<1>8. CASE Ran(c, ixs)
  <2>1. /\ reply'.result = Run(accounts, Required(c, ixs), <<ix>>).result
        /\ reply'.tx = {TxOf(c, ixs)}
    BY <1>8 DEF Ran
  <2>2. \/ reply'.result \in {"Ok", "Refused"}
        \/ reply'.result = "Unauthorised" /\ ~Authorised(accounts, Required(c, ixs), ix)
    <3> HIDE DEF ixs
    <3> QED BY SMTT(60), <2>1, RunOne
  <2>3. CASE reply'.result = "Unauthorised" /\ ~Authorised(accounts, Required(c, ixs), ix)
    <3>1. ASSUME NEW tx \in reply'.tx PROVE tx.instructions[1] = ix
      <4>1. ixs[1] = ix
        BY SMTT(60)
      <4> HIDE DEF ixs
      <4> QED BY SMTT(60), <2>1, <4>1 DEF TxOf
    <3>2. \/ key \notin Owners(accounts, ix)
          \/ IF Is(accounts, "multisig", key, ix.program)
             THEN ~(Cardinality(ix.signers \cap accounts[key].signers) >= accounts[key].m)
             ELSE key \notin Required(c, ixs)
      BY <1>4, <2>3 DEF Authorised, Signs
    <3>3. ASSUME Is(accounts, "multisig", key, ix.program),
                 ~(Cardinality(ix.signers \cap accounts[key].signers) >= accounts[key].m)
          PROVE  Cardinality(Signers(c) \cap accounts[key].signers) < accounts[key].m
      <4>1. key \in FreshKeys /\ accounts[key].m \in Nat
        BY <3>3, Kinds DEF TInv, Located, AreAccounts, Is, IsMultisig
      <4>2. Signers(c) # {key}
        BY <1>3, <4>1 DEF Held
      <4>3. ix.signers = Signers(c)
        BY <1>4, <4>2
      <4>4. IsFiniteSet(Signers(c) \cap accounts[key].signers)
        BY <1>3, FS_Subset
      <4>5. Cardinality(Signers(c) \cap accounts[key].signers) \in Nat
        BY <4>4, FS_CardinalityType
      <4> QED BY SMTT(60), <3>3, <4>1, <4>3, <4>5
    <3>4. key \notin Required(c, ixs) => key \notin Signers(c) \cup {c.payer}
      BY <1>6
    <3>5. \/ key \notin Owners(accounts, ix)
          \/ IF Is(accounts, "multisig", key, ix.program)
             THEN Cardinality(Signers(c) \cap accounts[key].signers) < accounts[key].m
             ELSE key \notin Signers(c) \cup {c.payer}
      BY <3>2, <3>3, <3>4
    <3> QED BY <1>2, <2>3, <3>1, <3>5 DEF SignedAsNeeded
  <2>4. CASE reply'.result \in {"Ok", "Refused"}
    BY <1>2, <2>4 DEF SignedAsNeeded
  <2> QED BY <2>2, <2>3, <2>4
<1> QED BY <1>2, <1>7, <1>8

\* What such a call may write when its account was left out.
LEMMA ActingOmitted ==
  ASSUME TInv, NEW c \in calls, NEW ix, Acting(c, ix), Send(c, <<ix>>)
  PROVE  OmittedAsExpected
<1>1. SignAndSend(c, <<ix>>, Signers(c), {}) /\ drawn' = drawn
  BY DEF Send
<1>2. reply'.call = c
  BY <1>1, Sending
<1> SUFFICES ASSUME reply'.result = "Ok",
                    c.op \in {"Transfer", "TransferChecked", "ApproveChecked"}, c.source = {},
                    NEW a \in DOMAIN accounts,
                    a # Ata(OrElse(c.owner, c.payer), c.mint, OrElse(c.token_program_id, TOKEN_ID))
             PROVE  \/ accounts'[a] = accounts[a]
                    \/ c.op # "ApproveChecked" /\ a = c.destination
                         /\ accounts'[a].amount >= accounts[a].amount
  BY <1>2 DEF OmittedAsExpected
<1>3. /\ ix.do # "create" /\ ActsOnAccounts(ix)
      /\ ix.account = Ata(OrElse(c.owner, c.payer), c.mint, OrElse(c.token_program_id, TOKEN_ID))
      /\ c.op = "ApproveChecked" => ix.do = "approve"
      /\ c.op # "ApproveChecked" => ix.do = "transfer" /\ ix.to = c.destination
  BY DEF Acting, HasAuthority, OrElse, AssociatedAccount, Authority, TokenProgramId
<1>4. /\ accounts' = After(accounts, ix)
      /\ WellPlaced(accounts, ix) /\ Possible(accounts, ix)
  BY <1>1, <1>3, SendingOne
<1>5. a # ix.account
  BY <1>3
<1>6. CASE c.op = "ApproveChecked"
  <2>1. accounts' = [accounts EXCEPT ![ix.account].delegate =
                                       {[key |-> ix.to, amount |-> ix.amount]}]
    BY <1>3, <1>4, <1>6 DEF After
  <2> QED BY <1>5, <2>1
<1>7. CASE c.op # "ApproveChecked"
  <2> DEFINE less == [accounts[ix.account] EXCEPT !.amount = @ - ix.amount,
                                                  !.delegate = Spend(@, ix)]
  <2>1. accounts' = IF ix.to = ix.account THEN accounts
                    ELSE [accounts EXCEPT ![ix.account] = less, ![ix.to].amount = @ + ix.amount]
    BY <1>3, <1>4, <1>7 DEF After
  <2>2. ix.amount \in Nat /\ Is(accounts, "token", ix.to, ix.program)
    BY <1>3, <1>4, <1>7 DEF Possible, ActsOnAccounts
  <2>3. IsToken(accounts[ix.to]) /\ ix.to \in DOMAIN accounts
    BY <2>2, Kinds DEF TInv, AreAccounts, Is
  <2> HIDE DEF less
  <2>4. CASE a # ix.to
    BY <1>5, <2>1, <2>4
  <2>5. CASE a = ix.to
    <3>1. accounts' = [accounts EXCEPT ![ix.account] = less, ![ix.to].amount = @ + ix.amount]
      BY <1>5, <2>1, <2>5
    <3>2. accounts'[a] = [accounts[a] EXCEPT !.amount = @ + ix.amount]
      BY <1>5, <2>3, <2>5, <3>1
    <3>3. accounts'[a].amount = accounts[a].amount + ix.amount /\ accounts[a].amount \in Nat
      BY <2>3, <2>5, <3>2 DEF IsToken
    <3>4. accounts'[a].amount >= accounts[a].amount
      BY SMTT(60), <2>2, <3>3
    <3> QED BY <1>3, <1>7, <2>5, <3>4
  <2> QED BY <2>4, <2>5
<1> QED BY <1>6, <1>7

\* A step that returns no address and is not one that creates an account.
LEMMA NotCreating ==
  ASSUME TInv', reply'.returned = {},
         reply'.call.op \notin {"CreateMint", "CreateMultisig", "CreateAccount"}
  PROVE  CreatedOrNot
<1>1. \A a \in DOMAIN accounts' : accounts'[a].kind # "blank"
  BY DEF TInv, AreAccounts, IsAccount, IsToken, IsMint, IsMultisig
<1> QED BY <1>1 DEF CreatedOrNot

\* What a step has to keep.
Good == TInv' /\ SignedAsNeeded /\ OmittedAsExpected /\ CreatedOrNot

\* The builders with an authority.
LEMMA AuthorityGood ==
  ASSUME TInv, AuthorityBuilders PROVE Good
<1>1. PICK c \in calls : \/ c.op \in AuthorityOps /\ NotFound(c)
                         \/ \E ix : Acting(c, ix) /\ Send(c, <<ix>>)
  BY AuthoritySends DEF TInv
<1>2. CASE c.op \in AuthorityOps /\ NotFound(c)
  <2>1. /\ reply'.call = c /\ reply'.returned = {}
        /\ reply'.result \in {"AccountNotFound", "InvalidAccountData", "OutOfRange"}
        /\ UNCHANGED <<calls, accounts, sent, drawn, freezers>>
    BY <1>2 DEF NotFound
  <2>2. TInv'
    BY <2>1 DEF TInv
  <2>3. SignedAsNeeded /\ OmittedAsExpected
    BY <2>1 DEF SignedAsNeeded, OmittedAsExpected
  <2>4. CreatedOrNot
    BY <1>2, <2>1, <2>2, NotCreating DEF AuthorityOps
  <2> QED BY <2>2, <2>3, <2>4 DEF Good
<1>3. CASE \E ix : Acting(c, ix) /\ Send(c, <<ix>>)
  <2>1. PICK ix : Acting(c, ix) /\ Send(c, <<ix>>)
    BY <1>3
  <2>2. TInv' /\ SignedAsNeeded /\ OmittedAsExpected
    BY <2>1, ActingKeeps, ActingSigned, ActingOmitted
  <2>3. SignAndSend(c, <<ix>>, Signers(c), {})
    BY <2>1 DEF Send
  <2>4. reply'.call = c /\ reply'.returned = {} /\ c.op \in AuthorityOps
    BY <2>1, <2>3, Sending DEF Acting
  <2>5. CreatedOrNot
    BY <2>2, <2>4, NotCreating DEF AuthorityOps
  <2> QED BY <2>2, <2>5 DEF Good
<1> QED BY <1>1, <1>2, <1>3

-----------------------------------------------------------------------------
(* The builders without an authority.                                      *)

\* They sign with what the message asks for: the payer.
LEMMA PayerSigned ==
  ASSUME NEW c, NEW ix, NEW returns, SignAndSend(c, <<ix>>, {c.payer}, returns),
         ~HasAuthority(ix), ix.do # "create"
  PROVE  SignedAsNeeded
<1> DEFINE ixs == <<ix>>
<1>1. reply'.call = c /\ (Stopped(c, ixs, {c.payer}) \/ Ran(c, ixs))
  BY Sending
<1>2. MarkedSigners(ix) = {}
  BY DEF MarkedSigners
<1>3. Required(c, ixs) = {c.payer}
  BY <1>2, RequiredOne
<1>4. CASE Stopped(c, ixs, {c.payer})
  BY <1>1, <1>3, <1>4 DEF Stopped, SignedAsNeeded
<1>5. CASE Ran(c, ixs)
  <2>1. reply'.result = Run(accounts, Required(c, ixs), <<ix>>).result
    BY <1>5 DEF Ran
  <2>2. reply'.result \in {"Ok", "Refused"}
    <3> HIDE DEF ixs
    <3> QED BY SMTT(60), <2>1, RunOne
  <2> QED BY <1>1, <2>2 DEF SignedAsNeeded
<1> QED BY <1>1, <1>4, <1>5

\* The fields of an instruction without an authority.
LEMMA PlainFields ==
  ASSUME NEW c, NEW do, NEW account, NEW more,
         DOMAIN more \subseteq {"of", "owner", "idempotent", "freeze", "places", "m", "keys"}
  PROVE  LET ix == Plain(c, do, account, more) IN
         /\ ix.do = do /\ ix.program = TokenProgramId(c) /\ ix.account = account
         /\ \A x \in DOMAIN more : ix[x] = more[x]
<1> DEFINE base == [do |-> do, program |-> TokenProgramId(c), account |-> account,
                    mint |-> {}, decimals |-> {}]
           ix == Plain(c, do, account, more)
<1>1. ix = [x \in DOMAIN more \cup DOMAIN base |->
              IF x \in DOMAIN more THEN more[x] ELSE base[x]]
  BY DEF Plain, Over
<1>2. /\ DOMAIN base = {"do", "program", "account", "mint", "decimals"}
      /\ base.do = do /\ base.program = TokenProgramId(c) /\ base.account = account
  OBVIOUS
<1> HIDE DEF base, ix
<1>3. /\ \A x \in DOMAIN more : ix[x] = more[x]
      /\ \A x \in DOMAIN base : x \notin DOMAIN more => ix[x] = base[x]
  BY <1>1
<1>4. "do" \notin DOMAIN more /\ "program" \notin DOMAIN more /\ "account" \notin DOMAIN more
  OBVIOUS
<1> QED BY <1>2, <1>3, <1>4 DEF ix

\* A call that puts an account at an address.
LEMMA AddingKeeps ==
  ASSUME TInv, NEW a, Adds(accounts, accounts', a), MayAdd(accounts'[a], a, drawn'),
         calls' = calls, drawn' \in 0..Len(Fresh), \A i \in DOMAIN Fresh : i > drawn' => i > drawn,
         freezers \subseteq freezers', FreezersKnown(accounts', freezers'), SentDrawn(sent', drawn')
  PROVE  TInv'
<1>1. AreAccounts(accounts') /\ Located(accounts', drawn') /\ Frozen(accounts', freezers')
  BY AddsGood DEF TInv
<1> QED BY <1>1 DEF TInv

\* SyncNative writes the amount of one token account.
LEMMA SyncNativeGood ==
  ASSUME TInv, SyncNative PROVE Good
<1> DEFINE ix(c) == Plain(c, "sync", c.account, NoMore)
<1>1. PICK c \in calls : /\ c.op = "SyncNative" /\ drawn' = drawn
                         /\ SignAndSend(c, <<ix(c)>>, {c.payer}, {})
  BY DEF SyncNative, Call
<1>2. ix(c).do = "sync"
  <2>1. DOMAIN NoMore = {}
    BY DEF NoMore
  <2> QED BY SMTT(60), <2>1, PlainFields
<1> HIDE DEF ix
<1>3. ~HasAuthority(ix(c)) /\ ix(c).do # "create" /\ ActsOnAccounts(ix(c))
  BY <1>2 DEF HasAuthority, ActsOnAccounts
<1>4. /\ reply'.call = c /\ reply'.returned = {} /\ calls' = calls
      /\ freezers \subseteq freezers' /\ FreezersKnown(accounts', freezers')
  BY <1>1, Sending
<1>5. /\ SentDrawn(sent', drawn')
      /\ \/ accounts' = accounts
         \/ /\ accounts' = After(accounts, ix(c))
            /\ WellPlaced(accounts, ix(c)) /\ Possible(accounts, ix(c))
  BY <1>1, <1>3, SendingOne
<1>6. TInv'
  <2>1. CASE accounts' = accounts
    BY <1>1, <1>4, <1>5, <2>1, SameAccounts
  <2>2. CASE /\ accounts' = After(accounts, ix(c))
             /\ WellPlaced(accounts, ix(c)) /\ Possible(accounts, ix(c))
    <3>1. Evolves(accounts, accounts', ix(c))
      BY <1>3, <2>2, AfterEvolves DEF TInv
    <3>2. AreAccounts(accounts') /\ Located(accounts', drawn')
      BY <1>1, <3>1, EvolvesGood DEF TInv
    <3>3. Frozen(accounts', freezers')
      BY <1>2, <1>4, <3>1, EvolvesFrozen DEF TInv
    <3> QED BY <1>1, <1>4, <1>5, <3>2, <3>3 DEF TInv
  <2> QED BY <1>5, <2>1, <2>2
<1>7. SignedAsNeeded
  BY <1>1, <1>3, PayerSigned
<1>8. OmittedAsExpected /\ CreatedOrNot
  BY <1>1, <1>4, <1>6, NotCreating DEF OmittedAsExpected
<1> QED BY <1>6, <1>7, <1>8 DEF Good

\* The native mint of Token-2022 is put where nothing was.
LEMMA CreateNativeMint2022Good ==
  ASSUME TInv, CreateNativeMint2022 PROVE Good
<1> DEFINE program(c) == OrElse(c.token_program_id, Token2022)
           ix(c) == [do |-> "create_native", program |-> program(c),
                     account |-> NativeMint[program(c)]]
<1>1. PICK c \in calls : /\ c.op = "CreateNativeMint2022" /\ drawn' = drawn
                         /\ SignAndSend(c, <<ix(c)>>, {c.payer}, {})
  BY DEF CreateNativeMint2022, Call
<1>2. /\ ix(c).do = "create_native" /\ ix(c).program = program(c)
      /\ ix(c).account = NativeMint[program(c)]
  OBVIOUS
<1> HIDE DEF ix, program
<1>3. ~HasAuthority(ix(c)) /\ ix(c).do # "create"
  BY <1>2 DEF HasAuthority
<1>4. /\ reply'.call = c /\ reply'.returned = {} /\ calls' = calls
      /\ freezers \subseteq freezers' /\ FreezersKnown(accounts', freezers')
  BY <1>1, Sending
<1>5. /\ SentDrawn(sent', drawn')
      /\ \/ accounts' = accounts
         \/ accounts' = After(accounts, ix(c)) /\ Constructed(<<ix(c)>>)
  BY <1>1, <1>3, SendingOne
<1>6. TInv'
  <2>1. CASE accounts' = accounts
    BY <1>1, <1>4, <1>5, <2>1, SameAccounts
  <2>2. CASE accounts' = After(accounts, ix(c)) /\ Constructed(<<ix(c)>>)
    <3> DEFINE a == NativeMint[program(c)]
               r == [kind |-> "mint", program |-> program(c), authority |-> {}, freeze |-> {},
                     decimals |-> 9, supply |-> 0]
    <3>1. program(c) \in TokenIds
      <4>1. DOMAIN <<ix(c)>> = {1} /\ <<ix(c)>>[1] = ix(c)
        BY SMTT(60)
      <4>2. ix(c).do \in {"create", "create_ata"} \/ ix(c).program \in TokenIds
        BY <2>2, <4>1 DEF Constructed, ProgramsAccepted
      <4> QED BY <1>2, <4>2
    <3>2. a \notin Derived /\ a \notin FreshKeys
      BY <3>1, BuilderAssumption
    <3>3. accounts' = Put(accounts, a, r)
      BY <1>2, <2>2 DEF After
    <3>4. IsMint(r)
      BY DEF IsMint
    <3> HIDE DEF r, a
    <3>5. Adds(accounts, accounts', a) /\ accounts'[a] = r
      BY <3>3 DEF Put, Adds
    <3>6. MayAdd(r, a, drawn')
      BY SMTT(60), <3>2, <3>4 DEF MayAdd, IsAccount, IsMint, Derived, FreshKeys
    <3> QED BY <1>1, <1>4, <1>5, <3>5, <3>6, AddingKeeps DEF TInv
  <2> QED BY <1>5, <2>1, <2>2
<1>7. SignedAsNeeded
  BY <1>1, <1>3, PayerSigned
<1>8. OmittedAsExpected /\ CreatedOrNot
  BY <1>1, <1>4, <1>6, NotCreating DEF OmittedAsExpected
<1> QED BY <1>6, <1>7, <1>8 DEF Good

\* An associated account is put where nothing was, or found as it should be.
LEMMA CreateAtaGood ==
  ASSUME TInv, NEW idempotent, NEW c \in calls, CreateAta(c, idempotent),
         c.op \in {"CreateAssociatedTokenAccount", "CreateAssociatedTokenAccountIdempotent"}
  PROVE  Good
<1> DEFINE a == AssociatedAccount(c)
           more == [of |-> c.mint, owner |-> Authority(c), idempotent |-> idempotent]
           ix == Plain(c, "create_ata", a, more)
           new == NewToken(TokenProgramId(c), c.mint, Authority(c))
<1>1. SignAndSend(c, <<ix>>, {c.payer}, {a}) /\ drawn' = drawn
  BY DEF CreateAta, AssociatedAccount
<1>2. /\ ix.do = "create_ata" /\ ix.program = TokenProgramId(c) /\ ix.account = a
      /\ ix.of = c.mint /\ ix.owner = Authority(c)
  <2>1. /\ DOMAIN more = {"of", "owner", "idempotent"}
        /\ more.of = c.mint /\ more.owner = Authority(c)
    OBVIOUS
  <2> HIDE DEF more, a
  <2>2. /\ ix.do = "create_ata" /\ ix.program = TokenProgramId(c) /\ ix.account = a
        /\ \A x \in DOMAIN more : ix[x] = more[x]
    BY SMTT(60), <2>1, PlainFields
  <2> QED BY <2>1, <2>2
<1> HIDE DEF ix, more
<1>3. ~HasAuthority(ix) /\ ix.do # "create"
  BY <1>2 DEF HasAuthority
<1>4. /\ reply'.call = c /\ calls' = calls
      /\ reply'.returned = IF reply'.result = "Ok" THEN {a} ELSE {}
      /\ freezers \subseteq freezers' /\ FreezersKnown(accounts', freezers')
  BY <1>1, Sending
<1>5. /\ SentDrawn(sent', drawn')
      /\ \/ accounts' = accounts /\ reply'.result # "Ok"
         \/ accounts' = After(accounts, ix) /\ Possible(accounts, ix)
  BY <1>1, <1>3, SendingOne
<1>6. Authority(c) \in Pubkey /\ c.mint \in Pubkey /\ TokenProgramId(c) \in ProgramId
  BY CallFacts DEF TInv, IsCall
<1>7. \/ accounts' = accounts /\ reply'.result # "Ok"
      \/ accounts' = accounts /\ a \in DOMAIN accounts /\ accounts[a].owner = Authority(c)
      \/ accounts' = Put(accounts, a, new)
  <2> HIDE DEF a, new
  <2>1. CASE accounts' = After(accounts, ix) /\ Possible(accounts, ix)
    <3>1. accounts' = IF a \in DOMAIN accounts THEN accounts ELSE Put(accounts, a, new)
      BY <1>2, <2>1 DEF After, new
    <3>2. a \notin DOMAIN accounts \/ accounts[a].owner = Authority(c)
      BY <1>2, <2>1 DEF Possible
    <3> QED BY <3>1, <3>2
  <2> QED BY <1>5, <2>1
<1>8. IsToken(new) /\ new.mint = c.mint /\ new.owner = Authority(c) /\ ~new.frozen
  BY SMTT(60), NewTokenIsToken
<1> HIDE DEF new
<1>9. ASSUME accounts' = accounts PROVE TInv'
  BY <1>1, <1>4, <1>5, <1>9, SameAccounts
<1>10. ASSUME accounts' = Put(accounts, a, new) PROVE TInv'
  <2>1. Adds(accounts, accounts', a) /\ accounts'[a] = new
    <3> HIDE DEF a
    <3> QED BY <1>10 DEF Put, Adds
  <2>2. a \in Derived
    BY SMTT(60), <1>6 DEF Derived, AssociatedAccount
  <2>3. \A i \in DOMAIN Fresh : Fresh[i] # a
    <3>1. \A i \in DOMAIN Fresh : Fresh[i] \in Keypair
      BY SMTT(60), BuilderAssumption
    <3> HIDE DEF a
    <3> QED BY <2>2, <3>1, BuilderAssumption
  <2>4. \A o, m \in Pubkey : \A p \in ProgramId : a = Ata(o, m, p) => m = c.mint
    BY SMTT(60) DEF AssociatedAccount, Ata
  <2> HIDE DEF a
  <2>5. new.kind = "token"
    BY <1>8 DEF IsToken
  <2>6. MayAdd(new, a, drawn')
    BY <1>8, <2>3, <2>4, <2>5 DEF MayAdd, IsAccount
  <2> QED BY <1>1, <1>4, <1>5, <2>1, <2>6, AddingKeeps DEF TInv
<1>11. /\ TInv'
       /\ reply'.result = "Ok" => /\ a \in DOMAIN accounts' /\ accounts'[a].kind = "token"
                                  /\ accounts'[a].mint = c.mint
                                  /\ accounts'[a].owner = Authority(c)
  <2>1. TInv'
    BY <1>7, <1>9, <1>10
  <2>2. CASE accounts' = Put(accounts, a, new)
    <3> HIDE DEF a
    <3>1. a \in DOMAIN accounts' /\ accounts'[a] = new
      BY <2>2 DEF Put
    <3>2. new.kind = "token"
      BY <1>8 DEF IsToken
    <3> QED BY <1>8, <2>1, <3>1, <3>2
  <2>3. CASE accounts' = accounts /\ a \in DOMAIN accounts /\ accounts[a].owner = Authority(c)
    <3>1. accounts[a].kind = "token" /\ accounts[a].mint = c.mint
      BY <1>6, <2>3 DEF TInv, Located, AssociatedAccount
    <3> QED BY <2>1, <2>3, <3>1
  <2> QED BY <1>7, <2>1, <2>2, <2>3
<1>12. \A b \in DOMAIN accounts' : accounts'[b].kind # "blank"
  BY <1>11 DEF TInv, AreAccounts, IsAccount, IsToken, IsMint, IsMultisig
<1>13. SignedAsNeeded
  BY <1>1, <1>3, PayerSigned
<1>14. OmittedAsExpected
  BY <1>4 DEF OmittedAsExpected
<1>15. CreatedOrNot
  <2> HIDE DEF a
  <2> QED BY <1>4, <1>11, <1>12 DEF CreatedOrNot, Authority
<1> QED BY <1>11, <1>13, <1>14, <1>15 DEF Good

-----------------------------------------------------------------------------
(* The steps without a transaction.                                        *)

\* A step that is no call has nothing to show but the invariant.
LEMMA NoReplyGood ==
  ASSUME TInv', reply' = NoReply PROVE Good
<1>1. reply'.call.op = "none" /\ reply'.returned = {} /\ reply'.result = "none"
  BY DEF NoReply
<1>2. CreatedOrNot
  BY <1>1, NotCreating
<1> QED BY <1>1, <1>2 DEF Good, SignedAsNeeded, OmittedAsExpected

\* The native mint of the legacy program is no associated account and at no
\* drawn key, whatever is overwritten there.
LEMMA create_native_mintGood ==
  ASSUME TInv, create_native_mint PROVE Good
<1> DEFINE a == NativeMint[Legacy]
           r == [kind |-> "mint", program |-> Legacy, authority |-> {}, freeze |-> {},
                 decimals |-> 9, supply |-> 0]
<1>1. /\ accounts' = Put(accounts, a, r) /\ reply' = NoReply
      /\ calls' = calls /\ sent' = sent /\ drawn' = drawn /\ freezers' = freezers
  BY DEF create_native_mint
<1>2. a \notin Derived /\ a \notin FreshKeys
  BY BuilderAssumption
<1>3. IsMint(r) /\ r.freeze = {}
  BY DEF IsMint
<1> HIDE DEF r, a
<1>4. Adds(accounts, accounts', a) /\ accounts'[a] = r
  BY <1>1 DEF Put, Adds
<1>5. MayAdd(r, a, drawn')
  BY SMTT(60), <1>2, <1>3 DEF MayAdd, IsAccount, IsMint, Derived, FreshKeys
<1>6. FreezersKnown(accounts', freezers')
  BY <1>1, <1>3, <1>4 DEF FreezersKnown, Adds, TInv
<1>7. TInv'
  BY <1>1, <1>4, <1>5, <1>6, AddingKeeps DEF TInv
<1> QED BY <1>1, <1>7, NoReplyGood

\* expire_blockhash empties the history.
LEMMA expire_blockhashGood ==
  ASSUME TInv, expire_blockhash PROVE Good
<1>1. /\ sent' = <<>> /\ reply' = NoReply
      /\ calls' = calls /\ accounts' = accounts /\ drawn' = drawn /\ freezers' = freezers
  BY DEF expire_blockhash
<1>2. <<>> \in Seq({}) /\ DOMAIN <<>> = {}
  BY SMTT(60)
<1>3. SentDrawn(sent', drawn')
  BY <1>1, <1>2 DEF SentDrawn
<1>4. TInv'
  BY <1>1, <1>3, SameAccounts
<1> QED BY <1>1, <1>4, NoReplyGood

\* Lamports that arrive change what a wrapped account has not synced.
LEMMA FundGood ==
  ASSUME TInv, Fund PROVE Good
<1>1. PICK a \in DOMAIN accounts :
        /\ accounts[a].kind = "token"
        /\ accounts' = [accounts EXCEPT ![a].unsynced = @ + 1] /\ reply' = NoReply
        /\ calls' = calls /\ sent' = sent /\ drawn' = drawn /\ freezers' = freezers
  BY DEF Fund
<1> DEFINE r == [accounts[a] EXCEPT !.unsynced = @ + 1]
           ix == [do |-> "none"]
<1>2. IsToken(accounts[a])
  BY <1>1, Kinds DEF TInv, AreAccounts
<1>3. accounts[a].unsynced + 1 \in Nat
  BY SMTT(60), <1>2 DEF IsToken
<1>4. Keeps(accounts[a], r)
  BY <1>2, <1>3, AmountWrites
<1>5. accounts' = [accounts EXCEPT ![a] = r] /\ ix.do = "none"
  BY <1>1
<1> HIDE DEF r, ix
<1>6. Same(accounts[a], r) /\ ix.do # "freeze"
  BY <1>4, <1>5 DEF Keeps
<1>7. Evolves(accounts, [accounts EXCEPT ![a] = r], ix)
  BY <1>4, <1>6, EvolvesOne DEF TInv
<1>8. Evolves(accounts, accounts', ix)
  BY <1>5, <1>7
<1>9. AreAccounts(accounts') /\ Located(accounts', drawn')
  BY <1>1, <1>8, EvolvesGood DEF TInv
<1>10. Frozen(accounts', freezers')
  BY <1>1, <1>6, <1>8, EvolvesFrozen DEF TInv
<1>11. FreezersKnown(accounts', freezers')
  <2>1. /\ DOMAIN accounts' = DOMAIN accounts /\ accounts'[a].kind = "token"
        /\ \A b \in DOMAIN accounts : b # a => accounts'[b] = accounts[b]
    BY <1>1, <1>5, <1>6 DEF Same
  <2> QED BY <1>1, <2>1 DEF FreezersKnown, TInv
<1>12. TInv'
  BY <1>1, <1>9, <1>10, <1>11 DEF TInv
<1> QED BY <1>1, <1>12, NoReplyGood

-----------------------------------------------------------------------------
(* The builders that create an account in two instructions.                *)

\* The address: a keypair of the test, or the next one drawn.
LEMMA CreateAddress ==
  ASSUME TInv, NEW given, IsOption(given, Held), drawn < Len(Fresh),
         drawn' = IF given = {} THEN drawn + 1 ELSE drawn
  PROVE  LET a == OrElse(given, Fresh[drawn + 1]) IN
         /\ drawn' \in 0..Len(Fresh) /\ \A i \in DOMAIN Fresh : i > drawn' => i > drawn
         /\ a \notin Derived /\ \A i \in DOMAIN Fresh : i > drawn' => a # Fresh[i]
         /\ given = {} => /\ a \in FreshKeys /\ a \notin DOMAIN accounts \cup Wallets
                          /\ drawn + 1 \in DOMAIN Fresh /\ drawn + 1 > drawn
                          /\ a = Fresh[drawn + 1]
<1> DEFINE a == OrElse(given, Fresh[drawn + 1])
<1>1. Fresh \in Seq(Keypair) /\ drawn \in 0..Len(Fresh)
  BY BuilderAssumption DEF TInv
<1>2. /\ drawn' \in 0..Len(Fresh) /\ \A i \in DOMAIN Fresh : i > drawn' => i > drawn
      /\ drawn + 1 \in DOMAIN Fresh /\ drawn + 1 > drawn /\ Fresh[drawn + 1] \in Keypair
      /\ \A i \in DOMAIN Fresh : i > drawn + 1 => i # drawn + 1
  BY SMTT(60), <1>1
<1>3. CASE given = {}
  <2>1. a = Fresh[drawn + 1] /\ drawn' = drawn + 1
    BY <1>3 DEF OrElse
  <2> HIDE DEF a
  <2>2. a \in FreshKeys /\ a \notin Derived
    BY <1>2, <2>1, BuilderAssumption DEF FreshKeys
  <2>3. a \notin DOMAIN accounts \cup Wallets
    <3>1. a \notin DOMAIN accounts
      BY <1>2, <2>1 DEF TInv, Located
    <3>2. a \notin Wallets
      BY <2>2, BuilderAssumption
    <3> QED BY <3>1, <3>2
  <2>4. \A i \in DOMAIN Fresh : i > drawn' => a # Fresh[i]
    BY <1>2, <2>1, BuilderAssumption
  <2> QED BY <1>2, <2>1, <2>2, <2>3, <2>4 DEF a
<1>4. CASE given # {}
  <2>1. a \in Held
    BY <1>4 DEF OrElse, IsOption
  <2> HIDE DEF a
  <2>2. a \notin FreshKeys /\ a \notin Derived
    BY <2>1, BuilderAssumption DEF Held
  <2>3. \A i \in DOMAIN Fresh : i > drawn' => a # Fresh[i]
    BY <2>2 DEF FreshKeys
  <2> QED BY <1>2, <1>4, <2>2, <2>3 DEF a
<1> QED BY <1>3, <1>4

\* Its two instructions.
LEMMA CreateInstructions ==
  ASSUME NEW c, NEW a, NEW initialize, NEW more,
         initialize \in {"initialize_mint", "initialize_account", "initialize_multisig"},
         DOMAIN more \subseteq {"of", "owner", "idempotent", "freeze", "places", "m", "keys"}
  PROVE  LET new == Plain(c, "create", a, NoMore)
             ix == Plain(c, initialize, a, more)
         IN /\ new.do = "create" /\ new.account = a /\ new.program = TokenProgramId(c)
            /\ Initializes(ix) /\ ix.do = initialize /\ ix.account = a
            /\ ix.program = TokenProgramId(c)
            /\ \A x \in DOMAIN more : ix[x] = more[x]
<1> DEFINE new == Plain(c, "create", a, NoMore)
           ix == Plain(c, initialize, a, more)
<1>1. DOMAIN NoMore = {}
  BY DEF NoMore
<1>2. new.do = "create" /\ new.account = a /\ new.program = TokenProgramId(c)
  BY SMTT(60), <1>1, PlainFields
<1>3. /\ ix.do = initialize /\ ix.account = a /\ ix.program = TokenProgramId(c)
      /\ \A x \in DOMAIN more : ix[x] = more[x]
  BY SMTT(60), PlainFields
<1> HIDE DEF new, ix
<1>4. Initializes(ix)
  BY <1>3 DEF Initializes
<1> QED BY <1>2, <1>3, <1>4 DEF new, ix

JustDrawn(a) ==
  /\ a \notin DOMAIN accounts \cup Wallets /\ a = Fresh[drawn + 1]
  /\ drawn + 1 \in DOMAIN Fresh /\ drawn + 1 > drawn

\* How such a call can end.  At a key that was just drawn nothing is in the
\* way, and no transaction of the history is the same.
LEMMA CreateEnds ==
  ASSUME TInv, NEW c, NEW new, NEW ix, NEW a,
         new.do = "create", new.account = a, Initializes(ix), ix.account = a,
         new.program = ix.program,
         SignAndSend(c, <<new, ix>>, {c.payer, a}, {a}),
         \A i \in DOMAIN Fresh : i > drawn' => i > drawn,
         \A i \in DOMAIN Fresh : i > drawn' => a # Fresh[i]
  PROVE  /\ SentDrawn(sent', drawn')
         /\ \/ /\ reply'.result \in {"IncorrectProgramId", "MissingRequiredSignature",
                                    "AlreadyProcessed", "Refused"}
               /\ accounts' = accounts
            \/ /\ reply'.result = "Ok" /\ a \notin DOMAIN accounts
               /\ accounts' = After(After(accounts, new), ix)
         /\ /\ JustDrawn(a) /\ SignersAccepted(<<new, ix>>)
            /\ ix.do = "initialize_account" => Is(accounts, "mint", ix.of, ix.program)
            => reply'.result \in {"Ok", "IncorrectProgramId"}
<1> DEFINE ixs == <<new, ix>>
           tx == TxOf(c, ixs)
           keys == {c.payer, a}
<1>1. ixs[1] = new
  BY SMTT(60)
<1>2. Required(c, ixs) = keys
  BY RequiredTwo
<1>3. SignAndSend(c, ixs, keys, {a})
  OBVIOUS
<1>4. SentDrawn(sent, drawn)
  BY DEF TInv
<1> HIDE DEF ixs, keys
<1>5. tx.instructions[1] = new
  BY <1>1 DEF TxOf
<1> HIDE DEF tx
<1>6. TxDrawn(tx, drawn')
  BY <1>5 DEF TxDrawn
<1>7. Stopped(c, ixs, keys) \/ Ran(c, ixs)
  BY <1>3, Sending
<1>8. CASE Stopped(c, ixs, keys)
  <2>1. /\ accounts' = accounts /\ sent' = Remember(sent, {})
        /\ \/ /\ reply'.result \in {"IncorrectProgramId", "MissingRequiredSignature"}
              /\ SignersAccepted(ixs) => reply'.result = "IncorrectProgramId"
           \/ reply'.result = "AlreadyProcessed" /\ \E i \in DOMAIN sent : sent[i] = tx
    BY <1>2, <1>8 DEF Stopped, tx
  <2>2. SentDrawn(Remember(sent, {}), drawn')
    BY <1>4, Remembering
  <2>3. ASSUME JustDrawn(a), NEW i \in DOMAIN sent, sent[i] = tx PROVE FALSE
    <3>1. TxDrawn(tx, drawn)
      BY <1>4, <2>3 DEF SentDrawn
    <3> QED BY <1>5, <2>3, <3>1 DEF TxDrawn, JustDrawn
  <2> QED BY <2>1, <2>2, <2>3 DEF ixs
<1>9. CASE Ran(c, ixs)
  <2> DEFINE blank == After(accounts, new)
  <2>1. /\ accounts' = Run(accounts, keys, <<new, ix>>).accounts
        /\ reply'.result = Run(accounts, keys, <<new, ix>>).result
        /\ sent' = Remember(sent, {tx})
    BY <1>2, <1>9 DEF Ran, ixs, tx
  <2>2. SentDrawn(Remember(sent, {tx}), drawn')
    BY <1>4, <1>6, Remembering
  <2>3. \/ /\ reply'.result = "Ok" /\ accounts' = After(blank, ix) /\ Possible(accounts, new)
        \/ /\ reply'.result = "Refused" /\ accounts' = accounts
           /\ ~Possible(accounts, new) \/ ~Possible(blank, ix)
    BY SMTT(60), <2>1, RunCreate
  <2>4. /\ Possible(accounts, new) <=> a \notin DOMAIN accounts \cup Wallets
        /\ /\ a \notin DOMAIN accounts
           /\ ix.do = "initialize_account" => Is(accounts, "mint", ix.of, ix.program)
           => Possible(blank, ix)
    BY CreatePossible
  <2>5. JustDrawn(a) => a \notin DOMAIN accounts \cup Wallets
    BY DEF JustDrawn
  <2> HIDE DEF blank
  <2> QED BY <2>1, <2>2, <2>3, <2>4, <2>5 DEF blank
<1> QED BY <1>7, <1>8, <1>9

\* Creating an account is all or nothing.
LEMMA CreateGood ==
  ASSUME TInv, NEW c \in calls, NEW given, NEW initialize, NEW more,
         Create(c, given, initialize, more), IsOption(given, Held),
         initialize \in {"initialize_mint", "initialize_account", "initialize_multisig"},
         DOMAIN more \subseteq {"of", "owner", "idempotent", "freeze", "places", "m", "keys"},
         c.op \in {"CreateMint", "CreateAccount", "CreateMultisig"},
         c.op = "CreateMint" <=> initialize = "initialize_mint",
         c.op = "CreateAccount" <=> initialize = "initialize_account",
         c.op = "CreateMultisig" <=> initialize = "initialize_multisig",
         c.op # "CreateAccount" => given = {},
         c.op = "CreateAccount" => /\ given = c.account_kp /\ {"of", "owner"} \subseteq DOMAIN more
                                   /\ more.of = c.mint /\ more.owner = OrElse(c.owner, c.payer),
         c.op = "CreateMultisig" => /\ {"m", "keys"} \subseteq DOMAIN more /\ more.m \in Nat
                                    /\ more.m = c.required_signatures /\ more.keys = c.keys
  PROVE  Good
<1>0. PICK a : a = OrElse(given, Fresh[drawn + 1])
  OBVIOUS
<1> DEFINE new == Plain(c, "create", a, NoMore)
           ix == Plain(c, initialize, a, more)
<1>1. /\ drawn < Len(Fresh) /\ drawn' = IF given = {} THEN drawn + 1 ELSE drawn
      /\ SignAndSend(c, <<new, ix>>, {c.payer, a}, {a})
  BY <1>0 DEF Create
<1>2. /\ drawn' \in 0..Len(Fresh) /\ \A i \in DOMAIN Fresh : i > drawn' => i > drawn
      /\ a \notin Derived /\ \A i \in DOMAIN Fresh : i > drawn' => a # Fresh[i]
      /\ given = {} => /\ a \in FreshKeys /\ a \notin DOMAIN accounts \cup Wallets
                       /\ drawn + 1 \in DOMAIN Fresh /\ drawn + 1 > drawn
                       /\ a = Fresh[drawn + 1]
  BY <1>0, <1>1, CreateAddress
<1>3. /\ new.do = "create" /\ new.account = a /\ new.program = TokenProgramId(c)
      /\ Initializes(ix) /\ ix.do = initialize /\ ix.account = a
      /\ ix.program = TokenProgramId(c)
      /\ \A x \in DOMAIN more : ix[x] = more[x]
  BY SMTT(60), CreateInstructions
<1> HIDE DEF new, ix
<1>4. /\ c.op = "CreateAccount" => ix.of = c.mint /\ ix.owner = OrElse(c.owner, c.payer)
      /\ c.op = "CreateMultisig" => /\ ix.m \in Nat /\ ix.m = c.required_signatures
                                    /\ ix.keys = c.keys
  BY <1>3
<1>5. /\ reply'.call = c /\ calls' = calls
      /\ reply'.returned = IF reply'.result = "Ok" THEN {a} ELSE {}
      /\ freezers \subseteq freezers' /\ FreezersKnown(accounts', freezers')
  BY <1>1, Sending
<1>6. /\ SentDrawn(sent', drawn')
      /\ \/ /\ reply'.result \in {"IncorrectProgramId", "MissingRequiredSignature",
                                    "AlreadyProcessed", "Refused"}
            /\ accounts' = accounts
         \/ /\ reply'.result = "Ok" /\ a \notin DOMAIN accounts
            /\ accounts' = After(After(accounts, new), ix)
      /\ /\ given = {} /\ SignersAccepted(<<new, ix>>)
         /\ ix.do = "initialize_account" => Is(accounts, "mint", ix.of, ix.program)
         => reply'.result \in {"Ok", "IncorrectProgramId"}
  <2>1. new.program = ix.program
    BY <1>3
  <2>2. given = {} => JustDrawn(a)
    BY <1>2 DEF JustDrawn
  <2>3. /\ SentDrawn(sent', drawn')
        /\ \/ /\ reply'.result \in {"IncorrectProgramId", "MissingRequiredSignature",
                                    "AlreadyProcessed", "Refused"}
              /\ accounts' = accounts
           \/ /\ reply'.result = "Ok" /\ a \notin DOMAIN accounts
              /\ accounts' = After(After(accounts, new), ix)
        /\ /\ JustDrawn(a) /\ SignersAccepted(<<new, ix>>)
           /\ ix.do = "initialize_account" => Is(accounts, "mint", ix.of, ix.program)
           => reply'.result \in {"Ok", "IncorrectProgramId"}
    BY <1>1, <1>2, <1>3, <2>1, CreateEnds
  <2> QED BY <2>2, <2>3
<1>7. ASSUME accounts' = accounts PROVE TInv'
  <2>1. Located(accounts', drawn')
    BY SMTT(60), <1>2, <1>7 DEF TInv, Located
  <2>2. Frozen(accounts', freezers')
    BY <1>5, <1>7 DEF TInv, Frozen
  <2> QED BY <1>2, <1>5, <1>6, <1>7, <2>1, <2>2 DEF TInv
<1>8. ASSUME a \notin DOMAIN accounts, accounts' = After(After(accounts, new), ix)
      PROVE  /\ TInv' /\ a \in DOMAIN accounts'
             /\ c.op = "CreateMint" => accounts'[a].kind = "mint"
             /\ c.op = "CreateAccount" => /\ accounts'[a].kind = "token"
                                          /\ accounts'[a].mint = c.mint
                                          /\ accounts'[a].owner = OrElse(c.owner, c.payer)
             /\ c.op = "CreateMultisig" => accounts'[a].kind = "multisig"
  <2> DEFINE r == accounts'[a]
  <2>1. /\ Adds(accounts, accounts', a)
        /\ c.op = "CreateMint" => IsMint(r)
        /\ c.op = "CreateAccount" => r = NewToken(ix.program, ix.of, ix.owner)
        /\ c.op = "CreateMultisig" => IsMultisig(r)
    BY SMTT(60), <1>3, <1>4, <1>8, CreateAdds
  <2> HIDE DEF r
  <2>2. c.op = "CreateAccount" => /\ IsToken(r) /\ r.mint = c.mint /\ ~r.frozen
                                  /\ r.owner = OrElse(c.owner, c.payer)
    BY SMTT(60), <1>4, <2>1, NewTokenIsToken
  <2>3. /\ c.op = "CreateMint" => r.kind = "mint"
        /\ c.op = "CreateAccount" => r.kind = "token"
        /\ c.op = "CreateMultisig" => r.kind = "multisig"
    BY <2>1, <2>2 DEF IsMint, IsToken, IsMultisig
  <2>4. \A o, m \in Pubkey : \A p \in ProgramId : a # Ata(o, m, p)
    BY SMTT(60), <1>2 DEF Derived
  <2>5. IsAccount(r) /\ (r.kind = "token" => ~r.frozen) /\ (r.kind = "multisig" => a \in FreshKeys)
    BY <1>2, <2>1, <2>2, <2>3 DEF IsAccount
  <2>6. MayAdd(r, a, drawn')
    BY <1>2, <2>4, <2>5 DEF MayAdd
  <2>7. TInv'
    BY <1>2, <1>5, <1>6, <2>1, <2>6, AddingKeeps DEF r
  <2>8. a \in DOMAIN accounts'
    BY <2>1 DEF Adds
  <2> QED BY <2>2, <2>3, <2>7, <2>8 DEF r
<1>9. TInv'
  BY <1>6, <1>7, <1>8
<1>10. \A b \in DOMAIN accounts' : accounts'[b].kind # "blank"
  BY <1>9 DEF TInv, AreAccounts, IsAccount, IsToken, IsMint, IsMultisig
<1>11. SignedAsNeeded /\ OmittedAsExpected
  BY <1>5, <1>6 DEF SignedAsNeeded, OmittedAsExpected
<1>12. ASSUME \/ c.op = "CreateMint"
              \/ c.op = "CreateMultisig" /\ Cardinality(c.keys) <= MaxSigners
                   /\ c.required_signatures \in 1..Cardinality(c.keys)
              \/ c.op = "CreateAccount" /\ c.account_kp = {}
                   /\ Is(accounts, "mint", c.mint, TokenProgramId(c))
       PROVE  reply'.result \in {"Ok", "IncorrectProgramId"}
  <2>1. given = {} /\ (ix.do = "initialize_account" => Is(accounts, "mint", ix.of, ix.program))
    BY <1>3, <1>4, <1>12
  <2>2. SignersAccepted(<<new, ix>>)
    <3> DEFINE ixs == <<new, ix>>
    <3>1. DOMAIN ixs = {1, 2} /\ ixs[1] = new /\ ixs[2] = ix
      BY SMTT(60)
    <3> HIDE DEF ixs
    <3>2. CASE c.op # "CreateMultisig"
      BY <1>3, <3>1, <3>2 DEF SignersAccepted
    <3>3. CASE c.op = "CreateMultisig"
      <4>1. IsFiniteSet(c.keys)
        BY <3>3, CallFacts DEF TInv, IsCall
      <4>2. Cardinality(c.keys) \in Nat
        BY <4>1, FS_CardinalityType
      <4>3. /\ ix.m \in 1..MaxSigners /\ Cardinality(ix.keys) \in 1..MaxSigners
            /\ ix.m <= Cardinality(ix.keys)
        BY SMTT(60), <1>4, <1>12, <3>3, <4>2, BuilderAssumption
      <4> QED BY <1>3, <3>1, <4>3 DEF SignersAccepted
    <3> QED BY <3>2, <3>3 DEF ixs
  <2> QED BY <1>6, <2>1, <2>2
<1>13. CreatedOrNot
  BY <1>5, <1>6, <1>8, <1>10, <1>12 DEF CreatedOrNot
<1> QED BY <1>9, <1>11, <1>13 DEF Good

\* The three builders.
LEMMA CreatingGood ==
  ASSUME TInv, CreateMint \/ CreateAccount \/ CreateMultisig PROVE Good
<1>1. IsOption({}, Held)
  BY DEF IsOption
<1>2. CASE CreateMint
  <2> DEFINE more(c) == [owner |-> OrElse(c.authority, c.payer), freeze |-> c.freeze_authority,
                         places |-> OrElse(c.decimals, 8)]
  <2>1. PICK c \in calls : c.op = "CreateMint" /\ Create(c, {}, "initialize_mint", more(c))
    BY <1>2 DEF CreateMint, Call
  <2>2. DOMAIN more(c) = {"owner", "freeze", "places"}
    OBVIOUS
  <2> HIDE DEF more
  <2> QED BY <1>1, <2>1, <2>2, CreateGood
<1>3. CASE CreateAccount
  <2> DEFINE more(c) == [of |-> c.mint, owner |-> OrElse(c.owner, c.payer)]
  <2>1. PICK c \in calls : /\ c.op = "CreateAccount"
                           /\ Create(c, c.account_kp, "initialize_account", more(c))
    BY <1>3 DEF CreateAccount, Call
  <2>2. /\ DOMAIN more(c) = {"of", "owner"}
        /\ more(c).of = c.mint /\ more(c).owner = OrElse(c.owner, c.payer)
    OBVIOUS
  <2>3. IsOption(c.account_kp, Held)
    BY <2>1, CallFacts DEF TInv, IsCall
  <2> HIDE DEF more
  <2> QED BY <2>1, <2>2, <2>3, CreateGood
<1>4. CASE CreateMultisig
  <2> DEFINE more(c) == [m |-> c.required_signatures, keys |-> c.keys]
  <2>1. PICK c \in calls : /\ c.op = "CreateMultisig"
                           /\ Create(c, {}, "initialize_multisig", more(c))
    BY <1>4 DEF CreateMultisig, Call
  <2>2. /\ DOMAIN more(c) = {"m", "keys"} /\ more(c).m = c.required_signatures
        /\ more(c).keys = c.keys
    OBVIOUS
  <2>3. c.required_signatures \in Nat
    BY <2>1, CallFacts DEF TInv, IsCall
  <2> HIDE DEF more
  <2> QED BY <1>1, <2>1, <2>2, <2>3, CreateGood
<1> QED BY <1>2, <1>3, <1>4

-----------------------------------------------------------------------------
(* The results.                                                            *)

\* The builders start from the invariant, without accounts or transactions.
LEMMA InitHolds == Init => TInv
<1> SUFFICES ASSUME Init PROVE TInv
  OBVIOUS
<1>1. DOMAIN <<>> = {} /\ <<>> \in Seq({}) /\ 0 \in 0..Len(Fresh)
  BY SMTT(60), BuilderAssumption
<1>2. DOMAIN accounts = {} /\ sent \in Seq({}) /\ DOMAIN sent = {} /\ drawn \in 0..Len(Fresh)
  BY <1>1 DEF Init
<1>3. AreAccounts(accounts) /\ Located(accounts, drawn)
  BY <1>2 DEF AreAccounts, Located
<1>4. Frozen(accounts, freezers) /\ FreezersKnown(accounts, freezers)
  BY <1>2 DEF Frozen, FreezersKnown
<1>5. SentDrawn(sent, drawn)
  BY <1>2 DEF SentDrawn
<1> QED BY <1>2, <1>3, <1>4, <1>5 DEF TInv, Init

\* Every step keeps the invariant and does what the properties say.
LEMMA NextGood == TInv /\ Next => Good
<1> SUFFICES ASSUME TInv, Next PROVE Good
  OBVIOUS
<1>1. CASE AuthorityBuilders
  BY <1>1, AuthorityGood
<1>2. CASE CreateAssociatedTokenAccount
  <2>1. PICK c \in calls : c.op = "CreateAssociatedTokenAccount" /\ CreateAta(c, FALSE)
    BY <1>2 DEF CreateAssociatedTokenAccount, Call
  <2> QED BY <2>1, CreateAtaGood
<1>3. CASE CreateAssociatedTokenAccountIdempotent
  <2>1. PICK c \in calls : c.op = "CreateAssociatedTokenAccountIdempotent" /\ CreateAta(c, TRUE)
    BY <1>3 DEF CreateAssociatedTokenAccountIdempotent, Call
  <2> QED BY <2>1, CreateAtaGood
<1>4. CASE CreateMint \/ CreateAccount \/ CreateMultisig
  BY <1>4, CreatingGood
<1> QED BY <1>1, <1>2, <1>3, <1>4, SyncNativeGood, CreateNativeMint2022Good,
           create_native_mintGood, expire_blockhashGood, FundGood
        DEF Next, AuthorityBuilders

\* The invariant: where accounts are, who froze them and what the history
\* holds.
THEOREM BuilderInvariant == Spec => []TInv
<1>1. TInv /\ [Next]_vars => TInv'
  <2>1. TInv /\ UNCHANGED vars => TInv'
    BY DEF TInv, vars
  <2> QED BY <2>1, NextGood DEF Good
<1> QED BY InitHolds, <1>1, PTL DEF Spec

\* FrozenOnlyAtTheFreezer: FreezeAccount freezes nothing but the associated
\* account of somebody who was the mint's freeze authority.
THEOREM OnlyFreezersFrozen == Spec => []FrozenOnlyAtTheFreezer
<1>1. TInv => FrozenOnlyAtTheFreezer
  BY DEF TInv, Frozen, FrozenOnlyAtTheFreezer
<1> QED BY <1>1, BuilderInvariant, PTL

\* SignersAreTheOnesNeeded: what `partial_sign` gets, what verification asks
\* for and what the program counts as a signature agree.
THEOREM SignersSuffice == Spec => SignersAreTheOnesNeeded
<1>1. TInv /\ [Next]_vars => [SignedAsNeeded]_vars
  BY NextGood DEF Good
<1> QED BY <1>1, BuilderInvariant, PTL DEF Spec, SignersAreTheOnesNeeded

\* OmittedMeansTheAuthoritys: a call without a source writes the associated
\* account of its authority, and credits its destination.
THEOREM OmittedIsTheAuthoritys == Spec => OmittedMeansTheAuthoritys
<1>1. TInv /\ [Next]_vars => [OmittedAsExpected]_vars
  BY NextGood DEF Good
<1> QED BY <1>1, BuilderInvariant, PTL DEF Spec, OmittedMeansTheAuthoritys

\* CreationIsAllOrNothing: a creating builder leaves the account it returns or
\* nothing, and at a key it drew only a program id that is not a token
\* program's, a missing mint or impossible numbers of signers can stop it.
THEOREM CreationAllOrNothing == Spec => CreationIsAllOrNothing
<1>1. TInv /\ [Next]_vars => [CreatedOrNot]_vars
  BY NextGood DEF Good
<1> QED BY <1>1, BuilderInvariant, PTL DEF Spec, CreationIsAllOrNothing

=============================================================================
