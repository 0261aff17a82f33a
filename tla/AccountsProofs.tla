--------------------------- MODULE AccountsProofs ---------------------------
(***************************************************************************)
(* Proofs about the accounts store and its caches, for every set of        *)
(* addresses, programs, sysvars and account writes.                        *)
(***************************************************************************)
EXTENDS AccountsDb, FiniteSetTheorems, WellFoundedInduction, TLAPS

\* Zenon first, which costs tlapm less per leaf than SMT; the times are for a
\* busy machine.
USE ZenonT(60), SMTT(60)

\* What the store holds: no account without lamports, sysvars that parse,
\* program accounts only where they have a programdata address.
StoreOK(store) ==
    /\ store \in [Address -> Account \cup {NoAccount}]
    /\ \A a \in Address : store[a] # NoAccount =>
          /\ store[a].lamports = 1
          /\ a \in Sysvar => store[a].kind = "sysvar"
          /\ store[a].kind = "program" => a \in UpgradeableProgram

\* The caches and the slot, as far as sysvars go.
SysvarInv ==
    /\ sysvar_cache \in [Sysvar -> Value \cup {Unset}]
    /\ slot \in Value
    /\ inner[Clock] # NoAccount => slot = inner[Clock].body
    /\ SlotFollowsClock /\ SysvarsNeverStale

CacheOK(cache) == cache \in [Address -> CacheEntry \cup {NoEntry}]

AInv ==
    /\ StoreOK(inner) /\ SysvarInv /\ CacheOK(programs_cache)
    /\ environments \in 0..MaxEnvironment
    /\ result \in Results /\ written \subseteq Address

-----------------------------------------------------------------------------
(* Accounts.                                                               *)

\* The fields of an account.
LEMMA AccountFacts ==
    ASSUME NEW acc \in Account
    PROVE  /\ acc.lamports \in {0, 1}
           /\ acc.kind \in {"plain", "program", "native", "sysvar", "loader", "programdata"}
           /\ acc.kind = "sysvar" => acc.body \in Value
           /\ acc.kind \in {"loader", "programdata"} => acc.body \in Code
           /\ acc.kind \notin {"sysvar", "loader", "programdata"} => acc.body = Unset
BY DEF Account

\* Data parses as a sysvar exactly if the account is one.
LEMMA ParseFacts ==
    ASSUME NEW acc \in Account
    PROVE  /\ Parse(acc) \in Value \cup {Unset}
           /\ Parse(acc) # Unset <=> acc.kind = "sysvar"
           /\ acc.kind = "sysvar" => Parse(acc) = acc.body /\ acc.body \in Value
BY AccountFacts, AccountsAssumption DEF Parse

\* Clock and the other sysvars are addresses.
LEMMA SysvarFacts == Clock \in Sysvar /\ Sysvar \subseteq Address /\ Rent \in Sysvar
BY AccountsAssumption DEF Sysvar

\* The special values are none of the ordinary ones.
LEMMA Constants ==
    /\ NoAccount \notin Account /\ NoEntry \notin CacheEntry
    /\ Unset \notin Value /\ Slot0 \in Value
    /\ BadElf \notin Elf /\ BadElf # "closed"
    /\ MaxEnvironment \in Nat /\ 0 \in 0..MaxEnvironment
<1>1. MaxEnvironment \in Nat
  BY AccountsAssumption
<1>2. 0 \in 0..MaxEnvironment
  BY SMTT(60), <1>1
<1> QED BY <1>1, <1>2, AccountsAssumption

\* An entry is not the absence of one.
LEMMA EntryFacts == ASSUME NEW e \in CacheEntry PROVE e # NoEntry
BY Constants

\* Where sysvars, programs, builtins and programdata accounts are.
LEMMA Addresses ==
    /\ \A s \in OtherSysvar : s \in Sysvar /\ s # Clock
    /\ \A p \in Program : p \in Address /\ p \notin Sysvar
    /\ \A b \in Builtin : b \in Address /\ b \notin Sysvar
    /\ \A p \in UpgradeableProgram :
          /\ p \in Program /\ ProgramData[p] \in Address
          /\ ProgramData[p] \notin Sysvar /\ ProgramData[p] \notin Program
          /\ ProgramData[p] \notin Builtin
          /\ \A q \in UpgradeableProgram : ProgramData[p] = ProgramData[q] => p = q
BY AccountsAssumption DEF Sysvar

\* The arguments of set_account.
LEMMA Inputs ==
    \A i \in SetAccountInputs :
        /\ i[1] \in Address /\ i[2] \in Account
        /\ i[2].kind = "program" => i[1] \in UpgradeableProgram
        /\ i[1] \in Sysvar => i[2].kind \in {"sysvar", "plain"}
BY AccountsAssumption

\* What is not stored is absent, what is stored has a lamport.
LEMMA StoredFacts ==
    ASSUME NEW acc \in Account
    PROVE  /\ Stored(acc) \in Account \cup {NoAccount}
           /\ Stored(acc) # NoAccount => Stored(acc) = acc /\ acc.lamports = 1
           /\ acc.lamports = 1 => Stored(acc) = acc
BY SMTT(60), AccountFacts, AccountsAssumption DEF Stored

\* A write of an account that fits its address keeps the store in shape.
LEMMA StoreWrite ==
    ASSUME NEW store, StoreOK(store), NEW a \in Address, NEW acc \in Account,
           a \in Sysvar => acc.kind = "sysvar",
           acc.kind = "program" => a \in UpgradeableProgram
    PROVE  StoreOK([store EXCEPT ![a] = Stored(acc)])
<1>1. Stored(acc) \in Account \cup {NoAccount}
  BY StoredFacts
<1>2. [store EXCEPT ![a] = Stored(acc)] \in [Address -> Account \cup {NoAccount}]
  BY <1>1 DEF StoreOK
<1> QED BY <1>2, StoredFacts DEF StoreOK

\* The code of a stored program, and of one that is about to be stored.
LEMMA CodeFacts ==
    ASSUME NEW a \in Address, NEW acc \in Account, NEW store, StoreOK(store),
           IsProgram(acc), acc.kind = "program" => a \in UpgradeableProgram,
           CanLoad(a, acc, store)
    PROVE  CodeOf(a, acc, store) \in Elf \cup {"closed"}
<1>1. CASE acc.kind = "loader"
  BY <1>1, AccountFacts DEF CodeOf, CanLoad, Code
<1>2. CASE acc.kind = "program"
  <2>1. ProgramData[a] \in Address
    BY <1>2, Addresses
  <2>2. store[ProgramData[a]] \in Account \cup {NoAccount}
    BY <2>1 DEF StoreOK
  <2> QED BY <1>2, <2>2, AccountFacts DEF CodeOf, CanLoad, Code
<1> QED BY <1>1, <1>2 DEF IsProgram

\* A loaded entry is a cache entry.
LEMMA LoadedFacts ==
    ASSUME AInv, NEW code \in Elf \cup {"closed", "builtin"}
    PROVE  Loaded(code) \in CacheEntry /\ Loaded(code).code = code
<1>1. CurrentSlot \in Value
  BY Constants, SysvarFacts DEF AInv, SysvarInv, CurrentSlot
<1>2. environments \in 0..MaxEnvironment
  BY DEF AInv
<1> QED BY <1>1, <1>2 DEF Loaded, CacheEntry

-----------------------------------------------------------------------------
(* The sysvar cache.                                                       *)

\* What a refill from the store gives.
LEMMA FromStoreFacts ==
    ASSUME NEW store, StoreOK(store)
    PROVE  /\ FromStore(store) \in [Sysvar -> Value \cup {Unset}]
           /\ \A s \in Sysvar :
                 /\ store[s] # NoAccount => FromStore(store)[s] = store[s].body
                                            /\ store[s].body \in Value
                 /\ store[s] = NoAccount => FromStore(store)[s] = Unset
<1>1. ASSUME NEW s \in Sysvar, store[s] # NoAccount
      PROVE  /\ store[s] \in Account /\ store[s].kind = "sysvar"
             /\ Parse(store[s]) = store[s].body /\ store[s].body \in Value
  <2>1. store[s] \in Account /\ store[s].kind = "sysvar"
    BY <1>1, SysvarFacts DEF StoreOK
  <2> QED BY <2>1, ParseFacts
<1> QED BY <1>1 DEF FromStore

\* A refill loses only what is not in the store.
LEMMA NotInStore ==
    ASSUME AInv, NEW s \in Sysvar, FromStore(inner)[s] = Unset
    PROVE  inner[s] = NoAccount
<1>1. inner[s] # NoAccount => FromStore(inner)[s] \in Value
  BY FromStoreFacts DEF AInv
<1> QED BY <1>1, Constants

\* A refill with a sysvar that parses is the cache of the new store, except
\* that the sysvar is also cached when it is not stored.
LEMMA RefillFacts ==
    ASSUME AInv, NEW s \in Sysvar, NEW acc \in Account
    PROVE  /\ Refill(s, acc) \in [Sysvar -> Value \cup {Unset}]
           /\ Refill(s, acc)[s] = Parse(acc)
           /\ \A x \in Sysvar \ {s} : Refill(s, acc)[x] = FromStore(inner)[x]
BY FromStoreFacts, ParseFacts DEF Refill, AInv

\* A call that touches neither the sysvars nor their cache keeps the invariant.
LEMMA SysvarsKept ==
    ASSUME AInv, UNCHANGED <<sysvar_cache, slot>>,
           \A s \in Sysvar : inner'[s] = inner[s]
    PROVE  SysvarInv'
BY SysvarFacts DEF AInv, SysvarInv, SlotFollowsClock, SysvarsNeverStale

-----------------------------------------------------------------------------
(* The operations.  Good is what every call establishes.                   *)

Good ==
    /\ AInv
    /\ SettingOneRepairsAll /\ LoadedCodeIsCurrent /\ RestoredProgramsAreFresh

\* Initially the caches are those of the store.
LEMMA InitGood == Init => Good
<1> SUFFICES ASSUME Init PROVE Good
  OBVIOUS
<1>1. [kind |-> "sysvar", body |-> Slot0, lamports |-> 1] \in Account
  BY Constants DEF Account
<1>2. StoreOK(inner)
  <2>1. inner \in [Address -> Account \cup {NoAccount}]
    BY <1>1 DEF Init
  <2>2. ASSUME NEW a \in Address, inner[a] # NoAccount
        PROVE  a \in Sysvar /\ inner[a] = [kind |-> "sysvar", body |-> Slot0, lamports |-> 1]
    BY <2>2 DEF Init
  <2> QED BY SMTT(60), <2>1, <2>2 DEF StoreOK
<1>3. /\ inner[Clock] # NoAccount => slot = inner[Clock].body
      /\ \A s \in Sysvar : inner[s].body = Slot0
  BY SysvarFacts DEF Init
<1>4. SysvarInv
  BY <1>3, Constants, SysvarFacts DEF Init, SysvarInv, SlotFollowsClock, SysvarsNeverStale
<1>5. AInv
  BY <1>2, <1>4, Constants DEF Init, AInv, CacheOK, Results
<1>6. SettingOneRepairsAll /\ LoadedCodeIsCurrent /\ RestoredProgramsAreFresh
  BY DEF Init, SettingOneRepairsAll, LoadedCodeIsCurrent, RestoredProgramsAreFresh
<1> QED BY <1>5, <1>6 DEF Good

\* Calls that leave the store and the program cache alone and load nothing.
LEMMA QuietGood ==
    ASSUME Good, UNCHANGED <<inner, programs_cache, sysvar_cache, slot>>,
           environments' \in 0..MaxEnvironment,
           result' \in Results \ {"SysvarSet", "Restored"}, written' = {}
    PROVE  Good'
<1>1. SysvarInv'
  BY SysvarsKept DEF Good
<1>2. AInv'
  BY <1>1 DEF Good, AInv, StoreOK, CacheOK, Results
<1>3. SettingOneRepairsAll' /\ LoadedCodeIsCurrent' /\ RestoredProgramsAreFresh'
  BY DEF SettingOneRepairsAll, LoadedCodeIsCurrent, RestoredProgramsAreFresh
<1> QED BY <1>2, <1>3 DEF Good

\* add_account on a program.
LEMMA SetProgramAccountGood ==
    ASSUME Good, NEW a \in Address, NEW acc \in Account, a \notin Sysvar,
           acc.kind = "program" => a \in UpgradeableProgram,
           SetProgramAccount(a, acc)
    PROVE  Good'
<1>1. CASE ~CanLoad(a, acc, inner)
  <2>1. /\ UNCHANGED <<inner, programs_cache, sysvar_cache, slot, environments>>
        /\ result' = "Err" /\ written' = {}
    BY <1>1 DEF SetProgramAccount
  <2> QED BY <2>1, QuietGood DEF Results, Good, AInv
<1>2. CASE CanLoad(a, acc, inner)
  <2> DEFINE code == CodeOf(a, acc, inner)
  <2>1. /\ IsProgram(acc)
        /\ programs_cache' = [programs_cache EXCEPT ![a] = Loaded(code)]
        /\ inner' = [inner EXCEPT ![a] = Stored(acc)]
        /\ result' = "Ok" /\ written' = {a}
        /\ UNCHANGED <<sysvar_cache, slot, environments>>
    BY <1>2 DEF SetProgramAccount
  <2>2. code \in Elf \cup {"closed"}
    BY <1>2, <2>1, CodeFacts DEF Good, AInv
  <2>3. Loaded(code) \in CacheEntry /\ Loaded(code).code = code /\ Loaded(code).delayed = FALSE
    BY <2>2, LoadedFacts DEF Good, Loaded
  <2>4. StoreOK(inner')
    BY <2>1, StoreWrite DEF Good, AInv
  <2>5. CacheOK(programs_cache')
    BY <2>1, <2>3 DEF Good, AInv, CacheOK
  <2>6. /\ programs_cache'[a] = Loaded(code)
        /\ inner'[a] = Stored(acc) /\ \A b \in Address \ {a} : inner'[b] = inner[b]
    BY <2>1 DEF Good, AInv, StoreOK, CacheOK
  <2>7. AInv'
    <3>1. SysvarInv'
      BY <2>1, <2>6, SysvarsKept, SysvarFacts DEF Good
    <3> QED BY <2>1, <2>4, <2>5, <3>1 DEF Good, AInv, Results
  <2>8. LoadedCodeIsCurrent'
    <3>1. inner'[a] # NoAccount => CodeOf(a, inner'[a], inner') = code
      <4>1. CASE acc.kind = "loader"
        BY <2>6, <4>1, StoredFacts DEF CodeOf
      <4>2. CASE acc.kind = "program"
        <5>1. ProgramData[a] \in Address \ {a}
          BY <4>2, Addresses
        <5> QED BY <2>6, <4>2, <5>1, StoredFacts DEF CodeOf
      <4> QED BY <2>1, <4>1, <4>2 DEF IsProgram
    <3>2. Loaded(code) # NoEntry
      BY <2>3, Constants
    <3> HIDE DEF code
    <3> QED BY <2>1, <2>3, <2>6, <3>1, <3>2 DEF LoadedCodeIsCurrent, Visible
  <2>9. SettingOneRepairsAll' /\ RestoredProgramsAreFresh'
    BY <2>1 DEF SettingOneRepairsAll, RestoredProgramsAreFresh
  <2> QED BY <2>7, <2>8, <2>9 DEF Good
<1> QED BY <1>1, <1>2

\* Writing a sysvar that parses, and refilling the cache with it: the clock's
\* slot goes with it.
LEMMA SysvarWriteGood ==
    ASSUME Good, NEW s \in Sysvar, NEW acc \in Account, acc.kind = "sysvar",
           sysvar_cache' = Refill(s, acc),
           inner' = [inner EXCEPT ![s] = Stored(acc)],
           slot' = IF s = Clock THEN acc.body ELSE slot,
           result' = "SysvarSet", written' = {},
           UNCHANGED <<programs_cache, environments>>
    PROVE  Good'
<1>1. /\ s \in Address /\ acc.body \in Value /\ Parse(acc) = acc.body
      /\ acc.kind # "program"
  BY SysvarFacts, ParseFacts
<1>2. StoreOK(inner')
  BY <1>1, StoreWrite DEF Good, AInv
<1>3. /\ inner'[s] = Stored(acc) /\ \A x \in Address \ {s} : inner'[x] = inner[x]
      /\ inner'[s] # NoAccount => inner'[s].body = acc.body
  BY <1>1, StoredFacts DEF Good, AInv, StoreOK
<1>4. /\ sysvar_cache' \in [Sysvar -> Value \cup {Unset}]
      /\ sysvar_cache'[s] = acc.body
      /\ \A x \in Sysvar \ {s} :
            /\ inner[x] # NoAccount => sysvar_cache'[x] = inner[x].body
            /\ inner[x] = NoAccount => sysvar_cache'[x] = Unset
  BY SMTT(60), <1>1, RefillFacts, FromStoreFacts DEF Good, AInv
<1>5. \A x \in Sysvar : inner'[x] # NoAccount => sysvar_cache'[x] = inner'[x].body
  BY <1>3, <1>4, SysvarFacts
<1>6. SysvarsNeverStale'
  BY <1>5 DEF SysvarsNeverStale
<1>7. slot' \in Value
  BY <1>1 DEF Good, AInv, SysvarInv
<1>8. sysvar_cache'[Clock] # Unset => slot' = sysvar_cache'[Clock]
  <2>1. CASE s = Clock
    BY <2>1, <1>4
  <2>2. CASE s # Clock
    BY <2>2, <1>4, SysvarFacts DEF Good, AInv, SysvarInv
  <2> QED BY <2>1, <2>2
<1>9. inner'[Clock] # NoAccount => slot' = inner'[Clock].body
  BY <1>3, SysvarFacts DEF Good, AInv, SysvarInv
<1>10. SysvarInv'
  BY <1>4, <1>6, <1>7, <1>8, <1>9 DEF SysvarInv, SlotFollowsClock
<1>11. AInv'
  BY <1>2, <1>10 DEF Good, AInv, Results, CacheOK
<1>12. SettingOneRepairsAll' /\ LoadedCodeIsCurrent' /\ RestoredProgramsAreFresh'
  BY <1>5 DEF SettingOneRepairsAll, LoadedCodeIsCurrent, RestoredProgramsAreFresh
<1> QED BY <1>11, <1>12 DEF Good

\* add_account on the clock.
LEMMA SetClockGood ==
    ASSUME Good, NEW acc \in Account, SetClock(acc)
    PROVE  Good'
<1>1. CASE Parse(acc) # Unset
  <2>1. acc.kind = "sysvar" /\ Parse(acc) = acc.body
    BY <1>1, ParseFacts
  <2> QED BY <1>1, <2>1, SysvarWriteGood, SysvarFacts DEF SetClock
<1>2. CASE Parse(acc) = Unset
  <2>1. /\ UNCHANGED <<inner, programs_cache, sysvar_cache, slot, environments>>
        /\ result' = "Err" /\ written' = {}
    BY <1>2 DEF SetClock
  <2> QED BY <2>1, QuietGood DEF Results, Good, AInv
<1> QED BY <1>1, <1>2

\* add_account on another sysvar, which refills the cache also when it fails.
LEMMA SetOtherSysvarGood ==
    ASSUME Good, NEW s \in OtherSysvar, NEW acc \in Account, SetOtherSysvar(s, acc)
    PROVE  Good'
<1>0. s \in Sysvar /\ s # Clock
  BY Addresses DEF Sysvar
<1>1. CASE Parse(acc) # Unset
  <2>1. acc.kind = "sysvar"
    BY <1>1, ParseFacts
  <2> QED BY <1>0, <1>1, <2>1, SysvarWriteGood DEF SetOtherSysvar
<1>2. CASE Parse(acc) = Unset
  <2>1. /\ UNCHANGED <<inner, programs_cache, slot, environments>>
        /\ sysvar_cache' = Refill(s, acc)
        /\ result' = "Err" /\ written' = {}
    BY <1>2 DEF SetOtherSysvar
  <2>2. /\ sysvar_cache' \in [Sysvar -> Value \cup {Unset}]
        /\ sysvar_cache'[s] = Unset
        /\ \A x \in Sysvar \ {s} :
              /\ inner[x] # NoAccount => sysvar_cache'[x] = inner[x].body
              /\ inner[x] = NoAccount => sysvar_cache'[x] = Unset
    BY SMTT(60), <1>0, <1>2, <2>1, RefillFacts, FromStoreFacts DEF Good, AInv
  <2>3. SysvarInv'
    BY <1>0, <2>1, <2>2, SysvarFacts
       DEF Good, AInv, SysvarInv, SlotFollowsClock, SysvarsNeverStale
  <2>4. AInv'
    BY <2>1, <2>3 DEF Good, AInv, Results, CacheOK, StoreOK
  <2>5. SettingOneRepairsAll' /\ LoadedCodeIsCurrent' /\ RestoredProgramsAreFresh'
    BY <2>1 DEF SettingOneRepairsAll, LoadedCodeIsCurrent, RestoredProgramsAreFresh
  <2> QED BY <2>4, <2>5 DEF Good
<1> QED BY <1>1, <1>2

\* add_account on an account that is neither a program nor a sysvar.
LEMMA SetPlainAccountGood ==
    ASSUME Good, NEW a \in Address, NEW acc \in Account, SetPlainAccount(a, acc)
    PROVE  Good'
<1>1. /\ a \notin Sysvar /\ acc.kind # "program"
      /\ inner' = [inner EXCEPT ![a] = Stored(acc)]
      /\ result' = "Ok" /\ written' = {}
      /\ UNCHANGED <<programs_cache, sysvar_cache, slot, environments>>
  BY DEF SetPlainAccount, IsProgram
<1>2. StoreOK(inner')
  BY <1>1, StoreWrite DEF Good, AInv
<1>3. \A s \in Sysvar : inner'[s] = inner[s]
  BY <1>1, SysvarFacts DEF Good, AInv, StoreOK
<1>4. AInv'
  BY <1>1, <1>2, <1>3, SysvarsKept DEF Good, AInv, Results, CacheOK
<1>5. SettingOneRepairsAll' /\ LoadedCodeIsCurrent' /\ RestoredProgramsAreFresh'
  BY <1>1 DEF SettingOneRepairsAll, LoadedCodeIsCurrent, RestoredProgramsAreFresh
<1> QED BY <1>4, <1>5 DEF Good

\* set_account, set_sysvar and warp_to_slot.
LEMMA SetAccountGood ==
    ASSUME Good, NEW a \in Address, NEW acc \in Account,
           acc.kind = "program" => a \in UpgradeableProgram,
           a \in Sysvar => acc.kind \in {"sysvar", "plain"},
           SetAccount(a, acc)
    PROVE  Good'
<1>1. CASE SetProgramAccount(a, acc)
  <2>1. a \notin Sysvar
    BY <1>1 DEF SetProgramAccount, IsProgram
  <2> QED BY <1>1, <2>1, SetProgramAccountGood
<1> QED BY <1>1, SetClockGood, SetOtherSysvarGood, SetPlainAccountGood DEF SetAccount

\* A sysvar account is an account.
LEMMA SysvarAccountFacts ==
    ASSUME NEW v \in Value
    PROVE  SysvarAccount(v) \in Account /\ SysvarAccount(v).kind = "sysvar"
BY DEF SysvarAccount, Account

\* The accounts of the program p with the given code.
AreAccountsOf(P, p, code) ==
    /\ DOMAIN P = IF p \in UpgradeableProgram THEN {p, ProgramData[p]} ELSE {p}
    /\ DOMAIN P \subseteq Address \ Sysvar
    /\ \A a \in DOMAIN P :
          /\ P[a] \in Account /\ P[a].lamports = 1
          /\ P[a].kind = "program" => a \in UpgradeableProgram
    /\ IsProgram(P[p])
    /\ p \in UpgradeableProgram =>
          /\ P[p].kind = "program"
          /\ P[ProgramData[p]].kind = "programdata" /\ P[ProgramData[p]].body = code
    /\ p \notin UpgradeableProgram => P[p].kind = "loader" /\ P[p].body = code

\* They are what add_program and a deployment write.
LEMMA ProgramAccountsFacts ==
    ASSUME NEW p \in Program, NEW code \in Code
    PROVE  AreAccountsOf(ProgramAccounts(p, code), p, code)
<1>1. /\ [kind |-> "program", body |-> Unset, lamports |-> 1] \in Account
      /\ [kind |-> "programdata", body |-> code, lamports |-> 1] \in Account
      /\ [kind |-> "loader", body |-> code, lamports |-> 1] \in Account
  BY DEF Account
<1>2. CASE p \in UpgradeableProgram
  <2> DEFINE d == ProgramData[p]
             P == [kind |-> "program", body |-> Unset, lamports |-> 1]
             D == [kind |-> "programdata", body |-> code, lamports |-> 1]
  <2>1. d # p /\ d \in Address \ Sysvar /\ p \in Address \ Sysvar
    BY <1>2, Addresses
  <2>2. ProgramAccounts(p, code) = [a \in {p, d} |-> IF a = p THEN P ELSE D]
    BY <1>2 DEF ProgramAccounts
  <2>3. /\ DOMAIN ProgramAccounts(p, code) = {p, d}
        /\ ProgramAccounts(p, code)[p] = P /\ ProgramAccounts(p, code)[d] = D
    BY <2>1, <2>2
  <2>4. /\ P.kind = "program" /\ P.lamports = 1 /\ P \in Account
        /\ D.kind = "programdata" /\ D.lamports = 1 /\ D \in Account /\ D.body = code
    BY <1>1
  <2> HIDE DEF P, D
  <2> QED BY <1>2, <2>1, <2>3, <2>4 DEF IsProgram, AreAccountsOf
<1>3. CASE p \notin UpgradeableProgram
  <2>1. ProgramAccounts(p, code) = [a \in {p} |-> [kind |-> "loader", body |-> code, lamports |-> 1]]
    BY <1>3 DEF ProgramAccounts
  <2>2. p \in Address \ Sysvar
    BY Addresses
  <2> QED BY SMTT(60), <1>1, <1>3, <2>1, <2>2 DEF IsProgram, AreAccountsOf
<1> QED BY <1>2, <1>3

\* The store with the accounts of a program in it.
LEMMA ProgramWritten ==
    ASSUME StoreOK(inner), NEW p \in Program, NEW code \in Code,
           NEW P, AreAccountsOf(P, p, code),
           inner' = [a \in Address |-> IF a \in DOMAIN P THEN P[a] ELSE inner[a]]
    PROVE  /\ StoreOK(inner')
           /\ \A s \in Sysvar : inner'[s] = inner[s]
           /\ \A a \in Address \ DOMAIN P : inner'[a] = inner[a]
           /\ inner'[p] = P[p] /\ inner'[p] # NoAccount
           /\ CodeOf(p, inner'[p], inner') = code
<1>1. \A a \in DOMAIN P :
         a \in Address \ Sysvar /\ inner'[a] = P[a] /\ P[a] # NoAccount
  BY Constants DEF AreAccountsOf
<1>2. \A a \in Address \ DOMAIN P : inner'[a] = inner[a]
  OBVIOUS
<1>3. inner' \in [Address -> Account \cup {NoAccount}]
  BY DEF StoreOK, AreAccountsOf
<1>4. StoreOK(inner')
  BY <1>1, <1>2, <1>3 DEF StoreOK, AreAccountsOf
<1>5. p \in DOMAIN P
  BY DEF AreAccountsOf
<1>6. CodeOf(p, inner'[p], inner') = code
  <2>1. CASE p \in UpgradeableProgram
    <3>1. ProgramData[p] \in DOMAIN P
      BY <2>1 DEF AreAccountsOf
    <3> QED BY <2>1, <3>1, <1>1, <1>5 DEF CodeOf, AreAccountsOf
  <2>2. CASE p \notin UpgradeableProgram
    BY <2>2, <1>1, <1>5 DEF CodeOf, AreAccountsOf
  <2> QED BY <2>1, <2>2
<1>7. \A s \in Sysvar : inner'[s] = inner[s]
  BY <1>1, <1>2, SysvarFacts
<1>8. inner'[p] = P[p] /\ inner'[p] # NoAccount
  BY <1>1, <1>5
<1> QED BY <1>2, <1>4, <1>6, <1>7, <1>8

\* add_program, also when the code does not load.
LEMMA AddProgramGood ==
    ASSUME Good, NEW p \in Program, NEW code \in Code, AddProgram(p, code)
    PROVE  Good'
<1>1. /\ StoreOK(inner') /\ \A s \in Sysvar : inner'[s] = inner[s]
      /\ CodeOf(p, inner'[p], inner') = code
  BY ProgramWritten, ProgramAccountsFacts DEF AddProgram, Good, AInv
<1>2. SysvarInv'
  BY <1>1, SysvarsKept DEF AddProgram, Good
<1>3. CASE code = BadElf
  <2>1. result' = "Err" /\ written' = {} /\ UNCHANGED <<programs_cache, environments>>
    BY <1>3 DEF AddProgram
  <2>2. AInv'
    BY <1>1, <1>2, <2>1 DEF Good, AInv, Results, CacheOK
  <2> QED BY <2>1, <2>2
          DEF Good, SettingOneRepairsAll, LoadedCodeIsCurrent, RestoredProgramsAreFresh
<1>4. CASE code # BadElf
  <2>1. /\ programs_cache' = [programs_cache EXCEPT ![p] = Loaded(code)]
        /\ result' = "Ok" /\ written' = {p} /\ UNCHANGED <<environments, slot>>
    BY <1>4 DEF AddProgram, DeployedEntry
  <2>2. Loaded(code) \in CacheEntry /\ Loaded(code).code = code /\ Loaded(code).delayed = FALSE
    BY <1>4, LoadedFacts DEF Good, Code, Loaded
  <2>3. p \in Address
    BY Addresses
  <2>4. CacheOK(programs_cache') /\ programs_cache'[p] = Loaded(code)
    BY <2>1, <2>2, <2>3 DEF Good, AInv, CacheOK
  <2>5. AInv'
    BY <1>1, <1>2, <2>1, <2>3, <2>4 DEF Good, AInv, Results
  <2>6. LoadedCodeIsCurrent'
    BY <1>1, <2>1, <2>2, <2>4, Constants DEF LoadedCodeIsCurrent, Visible
  <2> QED BY <2>1, <2>5, <2>6 DEF Good, SettingOneRepairsAll, RestoredProgramsAreFresh
<1> QED BY <1>3, <1>4

\* add_builtin.
LEMMA AddBuiltinGood ==
    ASSUME Good, NEW b \in Builtin, AddBuiltin(b)
    PROVE  Good'
<1> DEFINE acc == [kind |-> "native", body |-> Unset, lamports |-> 1]
<1>1. acc \in Account /\ acc.kind = "native" /\ Stored(acc) = acc
  <2>1. acc \in Account
    BY DEF Account
  <2>2. acc.kind = "native" /\ acc.lamports = 1
    OBVIOUS
  <2> HIDE DEF acc
  <2> QED BY <2>1, <2>2, StoredFacts
<1>2. b \in Address /\ b \notin Sysvar
  BY Addresses
<1>3. inner' = [inner EXCEPT ![b] = Stored(acc)]
  BY <1>1 DEF AddBuiltin
<1> HIDE DEF acc
<1>4. StoreOK(inner')
  BY <1>1, <1>2, <1>3, StoreWrite DEF Good, AInv
<1>5. \A s \in Sysvar : inner'[s] = inner[s]
  BY <1>2, <1>3, SysvarFacts DEF Good, AInv, StoreOK
<1>6. SysvarInv'
  BY <1>5, SysvarsKept DEF AddBuiltin, Good
<1>7. CacheOK(programs_cache')
  BY <1>2, LoadedFacts DEF AddBuiltin, CacheOK, Good, AInv
<1>8. AInv'
  BY <1>4, <1>6, <1>7 DEF AddBuiltin, Good, AInv, Results
<1> QED BY <1>8 DEF AddBuiltin, Good, SettingOneRepairsAll, LoadedCodeIsCurrent, RestoredProgramsAreFresh

\* Saving the VM and loading it in another process.
LEMMA RestoreGood ==
    ASSUME Good, SaveAndRestore
    PROVE  Good'
<1>1. CASE \E a \in StoredPrograms : ~CanLoad(a, inner[a], inner)
  <2>1. /\ UNCHANGED <<inner, programs_cache, sysvar_cache, slot, environments>>
        /\ result' = "Err" /\ written' = {}
    BY <1>1 DEF SaveAndRestore
  <2> QED BY <2>1, QuietGood DEF Results, Good, AInv
<1>2. CASE \A a \in StoredPrograms : CanLoad(a, inner[a], inner)
  <2>1. /\ programs_cache' = [a \in Address |->
                                 IF a \in StoredPrograms THEN RebuiltEntry(a) ELSE NoEntry]
        /\ sysvar_cache' = FromStore(inner) /\ slot' = RebuiltSlot
        /\ environments' = 0 /\ result' = "Restored" /\ written' = StoredPrograms
        /\ inner' = inner
    BY <1>2 DEF SaveAndRestore
  <2>2. /\ sysvar_cache' \in [Sysvar -> Value \cup {Unset}]
        /\ \A s \in Sysvar :
              /\ inner[s] # NoAccount => sysvar_cache'[s] = inner[s].body
              /\ inner[s] = NoAccount => sysvar_cache'[s] = Unset
    BY <2>1, FromStoreFacts DEF Good, AInv
  <2>3. /\ slot' \in Value
        /\ slot' = IF sysvar_cache'[Clock] = Unset THEN Slot0 ELSE sysvar_cache'[Clock]
    BY <2>1, <2>2, SysvarFacts, Constants DEF RebuiltSlot
  <2>4. inner[Clock] # NoAccount => sysvar_cache'[Clock] # Unset
    BY SMTT(60), FromStoreFacts, SysvarFacts, Constants, <2>1 DEF Good, AInv
  <2>5. SysvarInv'
    BY <2>1, <2>2, <2>3, <2>4, SysvarFacts DEF SysvarInv, SlotFollowsClock, SysvarsNeverStale
  <2>6. ASSUME NEW a \in StoredPrograms
        PROVE  /\ a \in Address /\ RebuiltEntry(a) \in CacheEntry
               /\ RebuiltEntry(a) = [code |-> CodeOf(a, inner[a], inner), env |-> 0,
                                     slot |-> slot', delayed |-> FALSE]
    <3>1. a \in Address /\ inner[a] \in Account /\ IsProgram(inner[a])
          /\ (inner[a].kind = "program" => a \in UpgradeableProgram)
      BY DEF StoredPrograms, Good, AInv, StoreOK
    <3>2. CodeOf(a, inner[a], inner) \in Elf \cup {"closed"}
      BY <1>2, <3>1, CodeFacts DEF Good, AInv
    <3>3. 0 \in 0..MaxEnvironment
      BY Constants
    <3> QED BY <2>1, <2>3, <3>1, <3>2, <3>3 DEF RebuiltEntry, CacheEntry
  <2>7. CacheOK(programs_cache')
    BY <2>1, <2>6 DEF CacheOK
  <2>8. AInv'
    BY <2>1, <2>5, <2>7, Constants DEF Good, AInv, Results, StoredPrograms, StoreOK
  <2>9. RestoredProgramsAreFresh'
    <3>1. ASSUME NEW a \in Address, inner'[a] # NoAccount, IsProgram(inner'[a])
          PROVE  programs_cache'[a] = [code |-> CodeOf(a, inner'[a], inner'),
                                       env |-> environments', slot |-> slot',
                                       delayed |-> FALSE]
      <4>1. a \in StoredPrograms
        BY <2>1, <3>1 DEF StoredPrograms
      <4> QED BY <2>1, <2>6, <4>1
    <3> QED BY <3>1 DEF RestoredProgramsAreFresh
  <2>10. SettingOneRepairsAll' /\ LoadedCodeIsCurrent'
    BY <2>1, <2>2 DEF SettingOneRepairsAll, LoadedCodeIsCurrent
  <2> QED BY <2>8, <2>9, <2>10 DEF Good
<1> QED BY <1>1, <1>2

-----------------------------------------------------------------------------
(* Transactions.                                                           *)

\* What the runtime hands to sync_accounts.
IsPost(post) ==
    /\ DOMAIN post \subseteq Address \ Sysvar
    /\ \A a \in DOMAIN post :
          /\ post[a] \in Account
          /\ post[a].kind = "program" => a \in UpgradeableProgram

\* An order lists every account of the transaction exactly once.
LEMMA OrderFacts ==
    ASSUME NEW post, IsPost(post), NEW o \in Orders(post)
    PROVE  /\ Len(o) \in Nat /\ o \in [1..Len(o) -> DOMAIN post]
           /\ \A i, j \in 1..Len(o) : o[i] = o[j] => i = j
           /\ \A a \in DOMAIN post : \E i \in 1..Len(o) : o[i] = a
           /\ \A i, j \in 1..Len(o) :
                 post[o[j]].kind = "programdata" /\ post[o[i]].kind # "programdata" => j < i
<1> DEFINE D == DOMAIN post
           n == Cardinality(D)
<1>1. IsFiniteSet(D) /\ n \in Nat
  BY AccountsAssumption, FS_Subset, FS_CardinalityType DEF IsPost
<1>2. /\ o \in [1..n -> D]
      /\ \A i, j \in 1..n : o[i] = o[j] => i = j
      /\ \A i, j \in 1..n :
            post[o[j]].kind = "programdata" /\ post[o[i]].kind # "programdata" => j < i
  BY DEF Orders
<1> HIDE DEF D, n
<1>3. Len(o) = n
  BY SMTT(60), <1>1, <1>2
<1>4. o \in Injection(1..n, D)
  BY <1>2 DEF Injection, IsInjective
<1>5. Cardinality(1..n) = n
  BY SMTT(60), <1>1, FS_Interval
<1>6. o \in Surjection(1..n, D)
  BY <1>1, <1>4, <1>5, FS_Injection DEF n
<1>7. \A a \in D : \E i \in 1..n : o[i] = a
  BY <1>6 DEF Surjection
<1> QED BY <1>1, <1>2, <1>3, <1>7 DEF D

\* A count of writes that is not the last one has a next one.
LEMMA AtEnd ==
    ASSUME NEW m \in Nat, NEW k \in 0..m
    PROVE  /\ k < m => k + 1 \in 1..m /\ (k + 1) - 1 = k
           /\ ~(k < m) => k = m
BY SMTT(60)

\* The writes stop at the first one that fails.
LEMMA DoneFacts ==
    ASSUME NEW post, NEW o, Len(o) \in Nat
    PROVE  /\ Done(post, o) \in 0..Len(o)
           /\ \A i \in 1..Done(post, o) : ~Fails(post, o, i)
           /\ Done(post, o) < Len(o) => Fails(post, o, Done(post, o) + 1)
<1> DEFINE T == {i \in 1..Len(o) : Fails(post, o, i)}
           P(n) == /\ \A i \in 1..n : ~Fails(post, o, i)
                   /\ n < Len(o) => Fails(post, o, n + 1)
<1>1. \E n \in 0..Len(o) : P(n)
  <2>1. CASE T = {}
    <3>1. P(Len(o))
      BY SMTT(60), <2>1
    <3> QED BY SMTT(60), <3>1
  <2>2. CASE T # {}
    <3>1. PICK x \in T : \A y \in T : ~(<<y, x>> \in OpToRel(<, Nat))
      <4>1. T \subseteq Nat
        BY SMTT(60)
      <4> QED BY <2>2, <4>1, WFMin, NatLessThanWellFounded
    <3>2. x \in 1..Len(o) /\ Fails(post, o, x)
      BY <3>1
    <3>3. \A y \in T : ~(y < x)
      <4>1. OpToRel(<, Nat) = {ss \in Nat \X Nat : ss[1] < ss[2]}
        BY Zenon DEF OpToRel
      <4>2. ASSUME NEW R, R = {ss \in Nat \X Nat : ss[1] < ss[2]},
                   \A y \in T : ~(<<y, x>> \in R)
            PROVE  \A y \in T : ~(y < x)
        <5>1. ASSUME NEW y \in T, y < x PROVE <<y, x>> \in R
          <6>1. y \in Nat /\ x \in Nat
            BY SMTT(60)
          <6> QED BY <4>2, <5>1, <6>1
        <5> QED BY <4>2, <5>1
      <4> HIDE DEF T
      <4> QED BY <3>1, <4>1, <4>2, Zenon
    <3>4. ASSUME NEW i \in 1..(x - 1) PROVE ~Fails(post, o, i)
      <4>1. i \in 1..Len(o) /\ i < x
        BY SMTT(60), <3>2
      <4> QED BY <3>3, <4>1
    <3>5. x - 1 \in 0..Len(o) /\ (x - 1) + 1 = x
      BY SMTT(60), <3>2
    <3> QED BY <3>2, <3>4, <3>5
  <2> QED BY <2>1, <2>2
<1>2. Done(post, o) = CHOOSE n \in 0..Len(o) : P(n)
  BY DEF Done
<1> HIDE DEF P
<1>3. Done(post, o) \in 0..Len(o) /\ P(Done(post, o))
  BY <1>1, <1>2
<1> QED BY <1>3 DEF P

\* After any number of writes the store is in shape.
LEMMA StoreAfterFacts ==
    ASSUME StoreOK(inner), NEW post, IsPost(post), NEW o \in Orders(post),
           NEW n \in 0..Len(o)
    PROVE  /\ StoreOK(StoreAfter(post, o, n))
           /\ \A s \in Sysvar : StoreAfter(post, o, n)[s] = inner[s]
           /\ \A i \in 1..n : StoreAfter(post, o, n)[o[i]] = Stored(post[o[i]])
           /\ \A a \in Address : (\A i \in 1..n : o[i] # a) => StoreAfter(post, o, n)[a] = inner[a]
<1> DEFINE S == StoreAfter(post, o, n)
<1>1. S = [a \in Address |-> IF \E i \in 1..n : o[i] = a THEN Stored(post[a]) ELSE inner[a]]
  BY DEF StoreAfter
<1>2. \A i \in 1..n : o[i] \in DOMAIN post /\ o[i] \in Address \ Sysvar
  <2>1. Len(o) \in Nat /\ o \in [1..Len(o) -> DOMAIN post]
    BY OrderFacts
  <2>2. \A i \in 1..n : i \in 1..Len(o)
    BY SMTT(60), <2>1
  <2> QED BY <2>1, <2>2 DEF IsPost
<1>3. ASSUME NEW a \in Address, \E i \in 1..n : o[i] = a
      PROVE  /\ S[a] \in Account \cup {NoAccount} /\ a \notin Sysvar
             /\ S[a] # NoAccount => S[a].lamports = 1
             /\ S[a] # NoAccount => (S[a].kind = "program" => a \in UpgradeableProgram)
  <2>1. S[a] = Stored(post[a]) /\ a \in DOMAIN post /\ a \notin Sysvar
    BY <1>1, <1>2, <1>3
  <2>2. post[a] \in Account /\ (post[a].kind = "program" => a \in UpgradeableProgram)
    BY <2>1 DEF IsPost
  <2> HIDE DEF S
  <2> QED BY <2>1, <2>2, StoredFacts
<1>4. \A a \in Address : (\A i \in 1..n : o[i] # a) => S[a] = inner[a]
  BY <1>1
<1>5. \A i \in 1..n : S[o[i]] = Stored(post[o[i]])
  BY <1>1, <1>2
<1>6. \A s \in Sysvar : S[s] = inner[s]
  BY <1>2, <1>4, SysvarFacts
<1>7. S \in [Address -> Account \cup {NoAccount}]
  <2>1. \A a \in Address : S[a] \in Account \cup {NoAccount}
    BY <1>3, <1>4 DEF StoreOK
  <2> QED BY <1>1, <2>1
<1> HIDE DEF S
<1>8. StoreOK(S)
  BY <1>3, <1>4, <1>7 DEF StoreOK
<1> QED BY <1>4, <1>5, <1>6, <1>8 DEF S

\* The i-th write that succeeds loads its program from the store before it.
LEMMA CacheAfterFacts ==
    ASSUME AInv, NEW post, IsPost(post), NEW o \in Orders(post),
           NEW n \in 0..Len(o), \A i \in 1..n : ~Fails(post, o, i)
    PROVE  /\ CacheOK(CacheAfter(post, o, n))
           /\ \A i \in 1..n : IsProgram(post[o[i]]) =>
                 /\ CacheAfter(post, o, n)[o[i]] =
                        Loaded(CodeOf(o[i], post[o[i]], StoreAfter(post, o, i - 1)))
                 /\ CodeOf(o[i], post[o[i]], StoreAfter(post, o, i - 1)) \in Elf \cup {"closed"}
           /\ \A a \in Address :
                 (\A i \in 1..n : o[i] = a => ~IsProgram(post[a]))
                     => CacheAfter(post, o, n)[a] = programs_cache[a]
<1> DEFINE C == CacheAfter(post, o, n)
           L(i) == CodeOf(o[i], post[o[i]], StoreAfter(post, o, i - 1))
<1>1. /\ Len(o) \in Nat /\ o \in [1..Len(o) -> DOMAIN post]
      /\ \A i, j \in 1..Len(o) : o[i] = o[j] => i = j
  BY OrderFacts
<1>2. \A i \in 1..n : i \in 1..Len(o) /\ i - 1 \in 0..Len(o)
  BY SMTT(60), <1>1
<1>3. ASSUME NEW i \in 1..n, IsProgram(post[o[i]])
      PROVE  C[o[i]] = Loaded(L(i)) /\ L(i) \in Elf \cup {"closed"} /\ o[i] \in Address
  <2>1. o[i] \in DOMAIN post /\ o[i] \in Address
    BY <1>1, <1>2 DEF IsPost
  <2>2. (CHOOSE j \in 1..n : o[j] = o[i]) = i
    BY <1>1, <1>2
  <2>3. C[o[i]] = Loaded(CodeOf(o[i], post[o[i]],
                     StoreAfter(post, o, (CHOOSE j \in 1..n : o[j] = o[i]) - 1)))
    BY <1>3, <2>1 DEF CacheAfter
  <2>4. C[o[i]] = Loaded(L(i))
    BY <2>2, <2>3
  <2>5. CanLoad(o[i], post[o[i]], StoreAfter(post, o, i - 1))
    BY <1>3 DEF Fails
  <2>6. StoreOK(StoreAfter(post, o, i - 1))
    BY <1>2, StoreAfterFacts DEF AInv
  <2>7. post[o[i]] \in Account /\ (post[o[i]].kind = "program" => o[i] \in UpgradeableProgram)
    BY <2>1 DEF IsPost
  <2>8. L(i) \in Elf \cup {"closed"}
    BY <1>3, <2>1, <2>5, <2>6, <2>7, CodeFacts
  <2> QED BY <2>1, <2>4, <2>8
<1>4. ASSUME NEW a \in Address, \A i \in 1..n : o[i] = a => ~IsProgram(post[a])
      PROVE  C[a] = programs_cache[a]
  BY <1>4 DEF CacheAfter
<1>5. C \in [Address -> CacheEntry \cup {NoEntry}]
  <2>1. ASSUME NEW a \in Address PROVE C[a] \in CacheEntry \cup {NoEntry}
    <3>1. CASE \E i \in 1..n : o[i] = a /\ IsProgram(post[a])
      <4>1. PICK i \in 1..n : o[i] = a /\ IsProgram(post[a])
        BY <3>1
      <4>2. C[a] = Loaded(L(i)) /\ L(i) \in Elf \cup {"closed"}
        BY <1>3, <4>1
      <4> HIDE DEF L, C
      <4> QED BY <4>2, LoadedFacts
    <3>2. CASE \A i \in 1..n : o[i] = a => ~IsProgram(post[a])
      <4>1. C[a] = programs_cache[a]
        BY <1>4, <3>2
      <4> HIDE DEF C
      <4> QED BY <4>1 DEF AInv, CacheOK
    <3> QED BY <3>1, <3>2
  <2> DEFINE E(a) ==
        IF \E i \in 1..n : o[i] = a /\ IsProgram(post[a])
        THEN Loaded(CodeOf(a, post[a],
                           StoreAfter(post, o, (CHOOSE i \in 1..n : o[i] = a) - 1)))
        ELSE programs_cache[a]
  <2>2. C = [a \in Address |-> E(a)]
    BY DEF CacheAfter
  <2> HIDE DEF C, E
  <2>3. \A a \in Address : E(a) \in CacheEntry \cup {NoEntry}
    BY <2>1, <2>2
  <2> QED BY <2>2, <2>3
<1> QED BY <1>3, <1>4, <1>5 DEF CacheOK

\* Whatever is synchronised, the store and the caches stay in shape.
LEMMA SyncShape ==
    ASSUME AInv, NEW post, IsPost(post), NEW o \in Orders(post),
           NEW success \in {"Ok", "Closed"}, Sync(post, o, success)
    PROVE  AInv' /\ result' \in {success, "SyncFailed"}
<1> DEFINE n == Done(post, o)
<1>1. Len(o) \in Nat
  BY OrderFacts
<1>2. n \in 0..Len(o) /\ \A i \in 1..n : ~Fails(post, o, i)
  BY <1>1, DoneFacts
<1>3. /\ inner' = StoreAfter(post, o, n) /\ programs_cache' = CacheAfter(post, o, n)
      /\ result' \in {success, "SyncFailed"} /\ written' \subseteq DOMAIN post
      /\ UNCHANGED <<sysvar_cache, slot, environments>>
  BY DEF Sync
<1> HIDE DEF n
<1>4. StoreOK(inner') /\ \A s \in Sysvar : inner'[s] = inner[s]
  BY <1>2, <1>3, StoreAfterFacts DEF AInv
<1>5. SysvarInv'
  BY <1>3, <1>4, SysvarsKept
<1>6. CacheOK(programs_cache')
  BY <1>2, <1>3, CacheAfterFacts
<1>7. DOMAIN post \subseteq Address
  BY DEF IsPost
<1> QED BY <1>3, <1>4, <1>5, <1>6, <1>7 DEF AInv, Results, Panics

\* An account that is only touched is written back as it is.
LEMMA TouchFacts ==
    ASSUME StoreOK(inner), NEW post \in Touches
    PROVE  /\ IsPost(post)
           /\ \A a \in DOMAIN post :
                 /\ Stored(post[a]) = inner[a]
                 /\ IsProgram(post[a]) => inner[a] # NoAccount /\ post[a] = inner[a]
<1>1. PICK W \in SUBSET (Address \ Sysvar) : post = [a \in W |-> Current(a)]
  BY DEF Touches
<1>2. Emptied \in Account /\ Emptied.lamports = 0 /\ Emptied.kind = "plain"
  BY DEF Emptied, Account
<1>3. ASSUME NEW a \in W
      PROVE  /\ post[a] \in Account /\ Stored(post[a]) = inner[a]
             /\ post[a].kind = "program" => a \in UpgradeableProgram
             /\ IsProgram(post[a]) => inner[a] # NoAccount /\ post[a] = inner[a]
  <2>1. post[a] = Current(a) /\ a \in Address
    BY <1>1
  <2>2. CASE inner[a] = NoAccount
    <3>1. post[a] = Emptied
      BY <2>1, <2>2 DEF Current
    <3> QED BY <3>1, <1>2, <2>2 DEF Stored, IsProgram
  <2>3. CASE inner[a] # NoAccount
    <3>1. /\ post[a] = inner[a] /\ inner[a] \in Account /\ inner[a].lamports = 1
          /\ inner[a].kind = "program" => a \in UpgradeableProgram
      BY <2>1, <2>3 DEF Current, StoreOK
    <3>2. Stored(post[a]) = inner[a]
      BY <3>1, StoredFacts
    <3> QED BY <3>1, <3>2, <2>3
  <2> QED BY <2>2, <2>3
<1>4. DOMAIN post = W
  BY <1>1
<1> QED BY <1>3, <1>4 DEF IsPost

\* A transaction that touches accounts reloads its programs from a store
\* that does not change.
LEMMA TouchSync ==
    ASSUME AInv, NEW post \in Touches, NEW o \in Orders(post), Sync(post, o, "Ok")
    PROVE  /\ inner' = inner
           /\ \A a \in Address :
                 \/ programs_cache'[a] = programs_cache[a]
                 \/ /\ inner[a] # NoAccount /\ IsProgram(inner[a])
                    /\ programs_cache'[a] = Loaded(CodeOf(a, inner[a], inner))
                    /\ CodeOf(a, inner[a], inner) \in Elf \cup {"closed"}
           /\ result' = "Ok" => \A a \in written' :
                 /\ programs_cache'[a] = Loaded(CodeOf(a, inner[a], inner))
                 /\ CodeOf(a, inner[a], inner) \in Elf \cup {"closed"}
<1> DEFINE n == Done(post, o)
<1>0. IsPost(post)
  BY TouchFacts DEF AInv
<1>1. \A a \in DOMAIN post :
         /\ Stored(post[a]) = inner[a]
         /\ IsProgram(post[a]) => inner[a] # NoAccount /\ post[a] = inner[a]
  BY TouchFacts DEF AInv
<1>2. /\ Len(o) \in Nat /\ o \in [1..Len(o) -> DOMAIN post]
      /\ \A a \in DOMAIN post : \E i \in 1..Len(o) : o[i] = a
  BY <1>0, OrderFacts
<1>3. n \in 0..Len(o) /\ \A i \in 1..n : ~Fails(post, o, i)
  BY <1>2, DoneFacts
<1>4. /\ inner' = StoreAfter(post, o, n) /\ programs_cache' = CacheAfter(post, o, n)
      /\ result' = "Ok" => n = Len(o) /\ written' = {a \in DOMAIN post : IsProgram(post[a])}
  BY DEF Sync
<1> HIDE DEF n
<1>5. ASSUME NEW k \in 0..Len(o) PROVE StoreAfter(post, o, k) = inner
  <2>1. \A i \in 1..k : o[i] \in DOMAIN post
    BY SMTT(60), <1>2
  <2>2. \A a \in Address :
           (IF \E i \in 1..k : o[i] = a THEN Stored(post[a]) ELSE inner[a]) = inner[a]
    BY <1>1, <2>1
  <2>3. inner = [a \in Address |-> inner[a]]
    BY DEF AInv, StoreOK
  <2> QED BY <2>2, <2>3 DEF StoreAfter
<1>6. ASSUME NEW i \in 1..n, IsProgram(post[o[i]])
      PROVE  /\ inner[o[i]] # NoAccount /\ IsProgram(inner[o[i]])
             /\ programs_cache'[o[i]] = Loaded(CodeOf(o[i], inner[o[i]], inner))
             /\ CodeOf(o[i], inner[o[i]], inner) \in Elf \cup {"closed"}
  <2>1. i \in 1..Len(o) /\ i - 1 \in 0..Len(o)
    BY SMTT(60), <1>2, <1>3
  <2>2. post[o[i]] = inner[o[i]] /\ inner[o[i]] # NoAccount
    BY <1>1, <1>2, <1>6, <2>1
  <2>3. StoreAfter(post, o, i - 1) = inner
    BY <1>5, <2>1
  <2>4. /\ programs_cache'[o[i]] = Loaded(CodeOf(o[i], post[o[i]], StoreAfter(post, o, i - 1)))
        /\ CodeOf(o[i], post[o[i]], StoreAfter(post, o, i - 1)) \in Elf \cup {"closed"}
    BY <1>0, <1>3, <1>4, <1>6, CacheAfterFacts
  <2> QED BY <1>6, <2>2, <2>3, <2>4
<1>7. ASSUME NEW a \in Address, \A i \in 1..n : o[i] = a => ~IsProgram(post[a])
      PROVE  programs_cache'[a] = programs_cache[a]
  <2>1. CacheAfter(post, o, n)[a] = programs_cache[a]
    BY <1>0, <1>3, <1>7, CacheAfterFacts
  <2> QED BY <1>4, <2>1
<1>8. ASSUME result' = "Ok", NEW a \in written'
      PROVE  \E i \in 1..n : o[i] = a /\ IsProgram(post[a])
  BY <1>2, <1>4, <1>8
<1>9. inner' = inner
  BY <1>3, <1>4, <1>5
<1>10. ASSUME NEW a \in Address
       PROVE  \/ programs_cache'[a] = programs_cache[a]
              \/ /\ inner[a] # NoAccount /\ IsProgram(inner[a])
                 /\ programs_cache'[a] = Loaded(CodeOf(a, inner[a], inner))
                 /\ CodeOf(a, inner[a], inner) \in Elf \cup {"closed"}
  BY <1>6, <1>7
<1>11. ASSUME result' = "Ok", NEW a \in written'
       PROVE  /\ programs_cache'[a] = Loaded(CodeOf(a, inner[a], inner))
              /\ CodeOf(a, inner[a], inner) \in Elf \cup {"closed"}
  <2>1. PICK i \in 1..n : o[i] = a /\ IsProgram(post[a])
    BY <1>8, <1>11
  <2> QED BY <1>6, <2>1
<1> QED BY <1>9, <1>10, <1>11

\* A deployment or an upgrade does to the VM what add_program does: the
\* programdata account comes first, so the program is loaded from it.
LEMMA DeploySync ==
    ASSUME AInv, NEW p \in UpgradeableProgram, NEW code \in Elf,
           NEW P, AreAccountsOf(P, p, code), NEW o \in Orders(P), Sync(P, o, "Ok")
    PROVE  /\ inner' = [a \in Address |-> IF a \in DOMAIN P THEN P[a] ELSE inner[a]]
           /\ programs_cache' = [programs_cache EXCEPT ![p] = Loaded(code)]
           /\ result' = "Ok" /\ written' = {p}
           /\ UNCHANGED <<sysvar_cache, slot, environments>>
<1> DEFINE n == Done(P, o)
           d == ProgramData[p]
<1>1. /\ p # d /\ p \in Address /\ d \in Address /\ DOMAIN P = {p, d}
      /\ P[p].kind = "program" /\ P[d].kind = "programdata" /\ P[d].body = code
      /\ code # BadElf
  BY Constants, Addresses DEF AreAccountsOf
<1>0. IsPost(P)
  BY DEF IsPost, AreAccountsOf
<1>2. ASSUME NEW a \in DOMAIN P PROVE Stored(P[a]) = P[a] /\ P[a] # NoAccount
  <2>1. P[a] \in Account /\ P[a].lamports = 1
    BY DEF AreAccountsOf
  <2> QED BY <2>1, Constants, StoredFacts
<1> HIDE DEF d
<1>3. /\ Len(o) \in Nat /\ o \in [1..Len(o) -> DOMAIN P]
      /\ \A a \in DOMAIN P : \E i \in 1..Len(o) : o[i] = a
      /\ \A i, j \in 1..Len(o) :
            P[o[j]].kind = "programdata" /\ P[o[i]].kind # "programdata" => j < i
  BY <1>0, OrderFacts
<1>4. IsProgram(P[p]) /\ ~IsProgram(P[d])
  BY <1>1 DEF IsProgram
<1>5. ASSUME NEW i \in 1..Len(o), o[i] = p
      PROVE  CodeOf(p, P[p], StoreAfter(P, o, i - 1)) = code
  <2>1. PICK j \in 1..Len(o) : o[j] = d
    BY <1>1, <1>3
  <2>2. j < i
    BY <1>1, <1>3, <1>5, <2>1
  <2>3. j \in 1..(i - 1) /\ i - 1 \in 0..Len(o)
    BY SMTT(60), <1>3, <2>2
  <2>4. StoreAfter(P, o, i - 1)[o[j]] = Stored(P[o[j]])
    BY <1>0, <2>3, StoreAfterFacts DEF AInv
  <2>5. StoreAfter(P, o, i - 1)[d] = P[d] /\ P[d] # NoAccount
    BY <1>1, <1>2, <2>1, <2>4
  <2> QED BY <1>1, <2>5 DEF CodeOf, d
<1>6. \A i \in 1..Len(o) : ~Fails(P, o, i)
  BY <1>1, <1>3, <1>4, <1>5 DEF Fails, CanLoad
<1>7. n = Len(o)
  <2>1. n \in 0..Len(o) /\ (n < Len(o) => Fails(P, o, n + 1))
    BY <1>3, DoneFacts
  <2> HIDE DEF n
  <2>2. /\ n < Len(o) => n + 1 \in 1..Len(o)
        /\ ~(n < Len(o)) => n = Len(o)
    BY <1>3, <2>1, AtEnd
  <2> QED BY <1>6, <2>1, <2>2
<1>8. /\ inner' = StoreAfter(P, o, Len(o)) /\ programs_cache' = CacheAfter(P, o, Len(o))
      /\ result' = "Ok" /\ written' = {a \in DOMAIN P : IsProgram(P[a])}
      /\ UNCHANGED <<sysvar_cache, slot, environments>>
  BY <1>7 DEF Sync
<1>9. \A a \in Address : (\E i \in 1..Len(o) : o[i] = a) <=> a \in DOMAIN P
  BY <1>3
<1>10. inner' = [a \in Address |-> IF a \in DOMAIN P THEN P[a] ELSE inner[a]]
  BY <1>2, <1>8, <1>9 DEF StoreAfter
<1>11. programs_cache' = [programs_cache EXCEPT ![p] = Loaded(code)]
  <2>1. Len(o) \in 0..Len(o)
    BY SMTT(60), <1>3
  <2>2. programs_cache'[p] = Loaded(code)
    <3>1. PICK i \in 1..Len(o) : o[i] = p
      BY <1>1, <1>3
    <3>2. programs_cache'[p] = Loaded(CodeOf(p, P[p], StoreAfter(P, o, i - 1)))
      BY <1>0, <1>4, <1>6, <1>8, <2>1, <3>1, CacheAfterFacts
    <3> QED BY <1>5, <3>1, <3>2
  <2>3. ASSUME NEW a \in Address, a # p PROVE programs_cache'[a] = programs_cache[a]
    <3>1. \A i \in 1..Len(o) : o[i] = a => ~IsProgram(P[a])
      BY <1>1, <1>3, <1>4, <2>3
    <3>2. CacheAfter(P, o, Len(o))[a] = programs_cache[a]
      BY <1>0, <1>6, <2>1, <3>1, CacheAfterFacts
    <3> QED BY <1>8, <3>2
  <2>4. CacheOK(programs_cache')
    BY <1>0, <1>6, <1>8, <2>1, CacheAfterFacts
  <2> QED BY <1>1, <2>2, <2>3, <2>4 DEF AInv, CacheOK
<1>12. written' = {p}
  BY <1>1, <1>4, <1>8
<1> QED BY <1>8, <1>10, <1>11, <1>12

\* Closing a program either loads a tombstone or the old code, or, when the
\* old code does not load and comes first, stops before anything is written.
LEMMA CloseSync ==
    ASSUME AInv, NEW post \in Closes, NEW o \in Orders(post), Sync(post, o, "Closed")
    PROVE  /\ AInv' /\ result' \in {"Closed", "SyncFailed"}
           /\ result' # "Closed" => UNCHANGED <<inner, programs_cache>>
<1>1. PICK p \in {p \in UpgradeableProgram : Owned(p)} :
         post = [a \in {p, ProgramData[p]} |-> IF a = p THEN inner[p] ELSE Emptied]
  BY DEF Closes
<1> DEFINE d == ProgramData[p]
           n == Done(post, o)
<1>2. /\ p # d /\ p \in Address \ Sysvar /\ d \in Address \ Sysvar
      /\ p \in UpgradeableProgram /\ "closed" # BadElf
  BY Constants, Addresses
<1>3. /\ DOMAIN post = {p, d} /\ post[p] = inner[p] /\ post[d] = Emptied
      /\ inner[p] \in Account /\ inner[p].kind = "program"
  BY <1>1, <1>2 DEF Owned, Present, AInv, StoreOK
<1>4. /\ Emptied \in Account /\ Emptied.kind = "plain" /\ Stored(Emptied) = NoAccount
      /\ ~IsProgram(Emptied)
  BY DEF Emptied, Account, Stored, IsProgram
<1> HIDE DEF d
<1>5. IsPost(post)
  BY <1>2, <1>3, <1>4 DEF IsPost
<1>6. /\ Len(o) \in Nat /\ o \in [1..Len(o) -> {p, d}]
      /\ \A i, j \in 1..Len(o) : o[i] = o[j] => i = j
  BY <1>3, <1>5, OrderFacts
<1>7. n \in 0..Len(o) /\ (n < Len(o) => Fails(post, o, n + 1))
  BY <1>6, DoneFacts
<1>8. /\ inner' = StoreAfter(post, o, n) /\ programs_cache' = CacheAfter(post, o, n)
      /\ result' # "Closed" => n # Len(o)
  BY DEF Sync
<1> HIDE DEF n
<1>9. ASSUME n # Len(o) PROVE n = 0
  <2>1. n + 1 \in 1..Len(o) /\ Fails(post, o, n + 1) /\ (n + 1) - 1 = n
    BY <1>6, <1>7, <1>9, AtEnd
  <2>2. o[n + 1] = p
    BY <1>3, <1>4, <1>6, <2>1 DEF Fails
  <2>3. ASSUME n # 0 PROVE FALSE
    <3>1. 1 \in 1..n /\ 1 \in 1..Len(o) /\ 1 # n + 1
      BY SMTT(60), <1>6, <1>7, <2>3
    <3>2. o[1] = d
      BY <1>6, <2>1, <2>2, <3>1
    <3>3. StoreAfter(post, o, n)[o[1]] = Stored(post[o[1]])
      <4>1. StoreOK(inner) /\ n \in 0..Len(o)
        BY <1>7 DEF AInv
      <4>2. \A i \in 1..n : StoreAfter(post, o, n)[o[i]] = Stored(post[o[i]])
        BY <1>5, <4>1, StoreAfterFacts
      <4> QED BY <3>1, <4>2
    <3>4. CodeOf(p, post[p], StoreAfter(post, o, n)) = "closed"
      BY <1>3, <1>4, <3>2, <3>3 DEF CodeOf, d
    <3> QED BY <1>2, <2>1, <2>2, <3>4 DEF Fails, CanLoad
  <2> QED BY <2>3
<1>10. ASSUME n = 0 PROVE UNCHANGED <<inner, programs_cache>>
  <2>1. ~\E i \in 1..n : TRUE
    BY SMTT(60), <1>10
  <2>2. inner = [a \in Address |-> inner[a]] /\ programs_cache = [a \in Address |-> programs_cache[a]]
    BY DEF AInv, StoreOK, CacheOK
  <2>3. StoreAfter(post, o, n) = [a \in Address |-> inner[a]]
    BY <2>1 DEF StoreAfter
  <2>4. CacheAfter(post, o, n) = [a \in Address |-> programs_cache[a]]
    BY <2>1 DEF CacheAfter
  <2> QED BY <1>8, <2>2, <2>3, <2>4
<1>11. AInv' /\ result' \in {"Closed", "SyncFailed"}
  BY <1>5, SyncShape
<1> QED BY <1>8, <1>9, <1>10, <1>11

\* The accounts a transaction deploys or upgrades.
LEMMA DeployIsAddProgram ==
    ASSUME AInv, NEW post \in Deploys \cup Upgrades, NEW o \in Orders(post),
           Sync(post, o, "Ok")
    PROVE  \E p \in Program, code \in Elf : AddProgram(p, code)
<1>1. PICK p \in UpgradeableProgram, code \in Elf : post = ProgramAccounts(p, code)
  BY SMTT(60) DEF Deploys, Upgrades
<1>2. p \in Program /\ code \in Code /\ code # BadElf
  BY Constants, Addresses DEF Code
<1>3. AreAccountsOf(post, p, code)
  BY <1>1, <1>2, ProgramAccountsFacts
<1>4. /\ inner' = [a \in Address |-> IF a \in DOMAIN post THEN post[a] ELSE inner[a]]
      /\ programs_cache' = [programs_cache EXCEPT ![p] = Loaded(code)]
      /\ result' = "Ok" /\ written' = {p}
      /\ UNCHANGED <<sysvar_cache, slot, environments>>
  BY <1>3, DeploySync
<1>5. AddProgram(p, code)
  BY <1>1, <1>2, <1>4 DEF AddProgram, DeployedEntry
<1> QED BY <1>2, <1>5

\* send_transaction.
LEMMA SendTransactionGood ==
    ASSUME Good, SendTransaction
    PROVE  Good'
<1>1. CASE sysvar_cache[Rent] = Unset
  <2>1. /\ result' = "RentMissing" /\ written' = {}
        /\ UNCHANGED <<inner, programs_cache, sysvar_cache, slot, environments>>
    BY <1>1 DEF SendTransaction
  <2> QED BY <2>1, QuietGood DEF Results, Panics, Good, AInv
<1>2. ASSUME NEW post \in Touches, NEW o \in Orders(post), Sync(post, o, "Ok")
      PROVE  Good'
  <2>1. AInv' /\ result' \in {"Ok", "SyncFailed"}
    <3>1. IsPost(post)
      BY TouchFacts DEF Good, AInv
    <3> QED BY <1>2, <3>1, SyncShape DEF Good
  <2>2. /\ inner' = inner
        /\ result' = "Ok" => \A a \in written' :
              /\ programs_cache'[a] = Loaded(CodeOf(a, inner[a], inner))
              /\ CodeOf(a, inner[a], inner) \in Elf \cup {"closed"}
    BY <1>2, TouchSync DEF Good
  <2>3. ASSUME result' = "Ok", NEW a \in written'
        PROVE  /\ programs_cache'[a] # NoEntry
               /\ programs_cache'[a].delayed = FALSE
               /\ programs_cache'[a].code = CodeOf(a, inner'[a], inner')
    <3> DEFINE code == CodeOf(a, inner[a], inner)
    <3>1. programs_cache'[a] = Loaded(code) /\ code \in Elf \cup {"closed"} /\ inner' = inner
      BY <2>2, <2>3
    <3> HIDE DEF code
    <3>2. Loaded(code) # NoEntry /\ Loaded(code).code = code /\ Loaded(code).delayed = FALSE
      BY <3>1, LoadedFacts, Constants DEF Good, Loaded
    <3> QED BY <3>1, <3>2 DEF code
  <2>4. LoadedCodeIsCurrent'
    BY <2>3 DEF LoadedCodeIsCurrent, Visible
  <2> QED BY <2>1, <2>4 DEF Good, SettingOneRepairsAll, RestoredProgramsAreFresh
<1>3. ASSUME NEW post \in Deploys \cup Upgrades, NEW o \in Orders(post), Sync(post, o, "Ok")
      PROVE  Good'
  <2>1. PICK p \in Program, code \in Elf : AddProgram(p, code)
    BY <1>3, DeployIsAddProgram DEF Good
  <2> QED BY <2>1, AddProgramGood DEF Code
<1>4. ASSUME NEW post \in Closes, NEW o \in Orders(post), Sync(post, o, "Closed")
      PROVE  Good'
  <2>1. AInv' /\ result' \in {"Closed", "SyncFailed"}
    BY <1>4, CloseSync DEF Good
  <2> QED BY <2>1 DEF Good, SettingOneRepairsAll, LoadedCodeIsCurrent, RestoredProgramsAreFresh
<1> QED BY <1>1, <1>2, <1>3, <1>4 DEF SendTransaction

\* Every step of the VM.
LEMMA NextGood == Good /\ [Next]_vars => Good'
<1> SUFFICES ASSUME Good, [Next]_vars PROVE Good'
  OBVIOUS
<1>1. ASSUME NEW i \in SetAccountInputs, SetAccount(i[1], i[2]) PROVE Good'
  <2>1. /\ i[1] \in Address /\ i[2] \in Account
        /\ i[2].kind = "program" => i[1] \in UpgradeableProgram
        /\ i[1] \in Sysvar => i[2].kind \in {"sysvar", "plain"}
    BY Inputs
  <2> QED BY <1>1, <2>1, SetAccountGood
<1>2. ASSUME NEW s \in Sysvar, NEW v \in Value, SetSysvar(s, v) PROVE Good'
  BY <1>2, SetAccountGood, SysvarAccountFacts, SysvarFacts DEF SetSysvar
<1>3. ASSUME ReplaceEnvironments PROVE Good'
  <2>1. environments' \in 0..MaxEnvironment
    BY SMTT(60), <1>3, Constants DEF ReplaceEnvironments, Good, AInv
  <2> QED BY <1>3, <2>1, QuietGood DEF ReplaceEnvironments, Results
<1>4. ASSUME NEW p \in Program \cup Builtin, Invoke(p) PROVE Good'
  <2>1. /\ UNCHANGED <<inner, programs_cache, sysvar_cache, slot, environments>>
        /\ result' \in {"ProgramMissing", "Ok", "Err"} /\ written' = {}
    BY <1>4 DEF Invoke
  <2> QED BY <2>1, QuietGood DEF Results, Panics, Good, AInv
<1>5. CASE UNCHANGED vars
  BY <1>5 DEF vars, Good, AInv, StoreOK, CacheOK, SysvarInv, SlotFollowsClock,
              SysvarsNeverStale, SettingOneRepairsAll, LoadedCodeIsCurrent,
              RestoredProgramsAreFresh, Visible
<1>6. CASE Next
  BY <1>1, <1>2, <1>3, <1>4, <1>6, AddProgramGood, AddBuiltinGood, SendTransactionGood,
     RestoreGood, SysvarFacts DEF Next, WarpToSlot, Sysvar
<1> QED BY <1>5, <1>6

\* Good is an invariant.
THEOREM AlwaysGood == Spec => []Good
BY InitGood, NextGood, PTL DEF Spec

-----------------------------------------------------------------------------
(* The theorems.                                                           *)

\* The variables keep their types.
THEOREM AccountsTypes == Spec => []TypeOK
<1>1. Good => TypeOK
  BY DEF Good, AInv, StoreOK, SysvarInv, CacheOK, TypeOK
<1> QED BY <1>1, AlwaysGood, PTL

\* For every choice of sysvars and account writes: what is cached for a
\* stored sysvar is what the store holds, also after calls that fail halfway.
THEOREM SysvarsFresh == Spec => []SysvarsNeverStale
<1>1. Good => SysvarsNeverStale
  BY DEF Good, AInv, SysvarInv
<1> QED BY <1>1, AlwaysGood, PTL

\* The program cache is in the slot of the cached clock.
THEOREM SlotIsClock == Spec => []SlotFollowsClock
<1>1. Good => SlotFollowsClock
  BY DEF Good, AInv, SysvarInv
<1> QED BY <1>1, AlwaysGood, PTL

\* Setting any sysvar brings all the others back.
THEOREM OneRepairsAll == Spec => []SettingOneRepairsAll
<1>1. Good => SettingOneRepairsAll
  BY DEF Good
<1> QED BY <1>1, AlwaysGood, PTL

\* A program just written runs the code the store holds for it, for every
\* order in which a transaction can list its accounts.
THEOREM CodeIsCurrent == Spec => []LoadedCodeIsCurrent
<1>1. Good => LoadedCodeIsCurrent
  BY DEF Good
<1> QED BY <1>1, AlwaysGood, PTL

\* The programs of a restored VM are loaded in its environment and slot.
THEOREM RestoredFresh == Spec => []RestoredProgramsAreFresh
<1>1. Good => RestoredProgramsAreFresh
  BY DEF Good
<1> QED BY <1>1, AlwaysGood, PTL

-----------------------------------------------------------------------------
(* What a step may never do.                                               *)

\* How a cached sysvar can be lost by add_account.
LEMMA SysvarLost ==
    ASSUME Good, NEW a \in Address, NEW acc \in Account, SetAccount(a, acc),
           NEW s \in Sysvar, sysvar_cache[s] # Unset, sysvar_cache'[s] = Unset
    PROVE  \/ inner[s] = NoAccount
           \/ a = s /\ s # Clock /\ Parse(acc) = Unset /\ result' = "Err"
<1>1. CASE a = Clock /\ SetClock(acc)
  <2>1. Parse(acc) # Unset /\ sysvar_cache' = Refill(Clock, acc)
    BY <1>1 DEF SetClock
  <2>2. /\ Refill(Clock, acc)[Clock] = Parse(acc)
        /\ \A x \in Sysvar \ {Clock} : Refill(Clock, acc)[x] = FromStore(inner)[x]
    BY RefillFacts, SysvarFacts DEF Good
  <2>3. FromStore(inner)[s] = Unset
    BY <2>1, <2>2
  <2> QED BY <2>3, NotInStore DEF Good
<1>2. CASE a \in OtherSysvar /\ SetOtherSysvar(a, acc)
  <2>1. sysvar_cache' = Refill(a, acc) /\ a \in Sysvar /\ a # Clock
    BY <1>2, Addresses DEF SetOtherSysvar, Sysvar
  <2>2. CASE s = a
    BY <1>2, <2>1, <2>2, RefillFacts DEF Good, SetOtherSysvar
  <2>3. CASE s # a
    <3>1. FromStore(inner)[s] = Unset
      BY <2>1, <2>3, RefillFacts DEF Good
    <3> QED BY <3>1, NotInStore DEF Good
  <2> QED BY <2>2, <2>3
<1>3. CASE SetProgramAccount(a, acc) \/ SetPlainAccount(a, acc)
  BY <1>3 DEF SetProgramAccount, SetPlainAccount
<1> QED BY <1>1, <1>2, <1>3 DEF SetAccount

\* A transaction leaves the sysvar cache alone.
LEMMA SendKeepsSysvars == SendTransaction => UNCHANGED sysvar_cache
BY DEF SendTransaction, Sync

\* A cached sysvar is only lost by a set_account on it that fails, or because
\* its account is not in the store.
THEOREM SysvarsLost == Spec => SysvarsLostOnlyByFailure
<1> DEFINE Lost(s) ==
       \/ inner[s] = NoAccount
       \/ /\ s # Clock /\ result' = "Err"
          /\ \E i \in SetAccountInputs : i[1] = s /\ SetAccount(i[1], i[2])
<1>1. ASSUME Good, Next, NEW s \in Sysvar, sysvar_cache[s] # Unset, sysvar_cache'[s] = Unset
      PROVE  Lost(s)
  <2>1. ASSUME NEW i \in SetAccountInputs, SetAccount(i[1], i[2]) PROVE Lost(s)
    <3>1. i[1] \in Address /\ i[2] \in Account
      BY Inputs
    <3>2. \/ inner[s] = NoAccount
          \/ i[1] = s /\ s # Clock /\ result' = "Err"
      BY <1>1, <2>1, <3>1, SysvarLost
    <3> QED BY <2>1, <3>2
  <2>2. ASSUME NEW x \in Sysvar, NEW v \in Value, SetSysvar(x, v) PROVE Lost(s)
    <3>1. Parse(SysvarAccount(v)) # Unset
      BY ParseFacts, SysvarAccountFacts
    <3>2. inner[s] = NoAccount
      BY <1>1, <2>2, <3>1, SysvarLost, SysvarAccountFacts, SysvarFacts DEF SetSysvar
    <3> QED BY <3>2
  <2>3. ASSUME SaveAndRestore PROVE Lost(s)
    <3>1. sysvar_cache' = FromStore(inner)
      BY <1>1, <2>3 DEF SaveAndRestore
    <3>2. inner[s] = NoAccount
      BY <1>1, <3>1, NotInStore DEF Good
    <3> QED BY <3>2
  <2>4. ~UNCHANGED sysvar_cache
    BY <1>1
  <2>5. \A p, code : ~AddProgram(p, code) /\ ~AddBuiltin(p) /\ ~Invoke(p)
    BY <2>4 DEF AddProgram, AddBuiltin, Invoke
  <2>6. ~ReplaceEnvironments /\ ~SendTransaction
    BY <2>4, SendKeepsSysvars DEF ReplaceEnvironments
  <2> HIDE DEF Lost
  <2> QED BY <1>1, <2>1, <2>2, <2>3, <2>5, <2>6, SysvarFacts DEF Next, WarpToSlot, Sysvar
<1>2. Good /\ [Next]_vars =>
        [\A s \in Sysvar : sysvar_cache[s] # Unset /\ sysvar_cache'[s] = Unset => Lost(s)]_vars
  <2> HIDE DEF Lost
  <2> QED BY <1>1
<1> QED BY <1>2, AlwaysGood, PTL DEF Spec, SysvarsLostOnlyByFailure

\* A program stays in step when neither its entry nor its accounts change.
LEMMA StaysInStep ==
    ASSUME StoreOK(inner), NEW p \in Program, InStep(p), inner'[p] = inner[p],
           programs_cache'[p] = programs_cache[p],
           p \in UpgradeableProgram => inner'[ProgramData[p]] = inner[ProgramData[p]]
    PROVE  InStep(p)'
<1>1. CASE inner[p] = NoAccount \/ ~IsProgram(inner[p])
  BY <1>1 DEF InStep
<1>2. CASE inner[p] # NoAccount /\ IsProgram(inner[p])
  <2>1. inner[p].kind = "program" => p \in UpgradeableProgram
    BY <1>2, Addresses DEF StoreOK
  <2>2. CodeOf(p, inner[p], inner') = CodeOf(p, inner[p], inner)
    BY <1>2, <2>1 DEF CodeOf, IsProgram
  <2> QED BY <1>2, <2>2 DEF InStep
<1> QED BY <1>1, <1>2

\* add_account leaves a program behind only through its own two accounts.
LEMMA SetAccountInStep ==
    ASSUME Good, NEW a \in Address, NEW acc \in Account, SetAccount(a, acc),
           acc.kind = "program" => a \in UpgradeableProgram,
           NEW p \in Program, InStep(p), ~InStep(p)'
    PROVE  \/ p \in UpgradeableProgram /\ a = ProgramData[p]
           \/ a = p /\ acc.lamports = 0
<1>1. p \in Address \ Sysvar /\ (p \in UpgradeableProgram => ProgramData[p] \in Address)
  BY Addresses
<1>2. \A b \in Address \ {a} : inner'[b] = inner[b] /\ programs_cache'[b] = programs_cache[b]
  <2>1. /\ inner \in [Address -> Account \cup {NoAccount}]
        /\ programs_cache \in [Address -> CacheEntry \cup {NoEntry}]
    BY DEF Good, AInv, StoreOK, CacheOK
  <2>2. CASE SetProgramAccount(a, acc)
    BY <2>1, <2>2 DEF SetProgramAccount
  <2>3. CASE a = Clock /\ SetClock(acc)
    BY <2>1, <2>3 DEF SetClock
  <2>4. CASE SetOtherSysvar(a, acc)
    BY <2>1, <2>4 DEF SetOtherSysvar
  <2>5. CASE SetPlainAccount(a, acc)
    BY <2>1, <2>5 DEF SetPlainAccount
  <2> QED BY <2>2, <2>3, <2>4, <2>5 DEF SetAccount
<1>3. ASSUME a # p, p \in UpgradeableProgram => a # ProgramData[p] PROVE FALSE
  BY <1>1, <1>2, <1>3, StaysInStep DEF Good, AInv
<1>4. ASSUME a = p, acc.lamports = 1 PROVE FALSE
  <2>1. Stored(acc) = acc /\ acc # NoAccount
    BY <1>4, StoredFacts, Constants
  <2>2. SetProgramAccount(a, acc) \/ SetPlainAccount(a, acc)
    BY <1>1, <1>4, SysvarFacts DEF SetAccount, Sysvar
  <2>3. CASE SetPlainAccount(a, acc)
    <3>1. inner'[p] = acc /\ ~IsProgram(acc)
      BY <1>1, <1>4, <2>1, <2>3 DEF SetPlainAccount, Good, AInv, StoreOK
    <3> QED BY <2>1, <3>1 DEF InStep
  <2>4. CASE SetProgramAccount(a, acc) /\ ~CanLoad(a, acc, inner)
    <3>1. UNCHANGED <<inner, programs_cache>>
      BY <2>4 DEF SetProgramAccount
    <3> QED BY <3>1, StaysInStep DEF Good, AInv
  <2>5. CASE SetProgramAccount(a, acc) /\ CanLoad(a, acc, inner)
    <3>1. Good'
      BY <1>1, <1>4, <2>5, SetProgramAccountGood
    <3>2. inner'[p] = acc /\ result' = "Ok" /\ written' = {p}
      BY <1>1, <1>4, <2>1, <2>5 DEF SetProgramAccount, Good, AInv, StoreOK
    <3> QED BY <2>1, <3>1, <3>2 DEF Good, LoadedCodeIsCurrent, InStep
  <2> QED BY <2>2, <2>3, <2>4, <2>5
<1>5. acc.lamports \in {0, 1}
  BY AccountFacts
<1> QED BY <1>3, <1>4, <1>5

\* add_program leaves only its own program behind, and only when it fails.
LEMMA AddProgramInStep ==
    ASSUME Good, NEW q \in Program, NEW code \in Code, AddProgram(q, code),
           NEW p \in Program, InStep(p), ~InStep(p)'
    PROVE  p = q /\ code = BadElf
<1> DEFINE P == ProgramAccounts(q, code)
<1>1. AreAccountsOf(P, q, code)
  BY ProgramAccountsFacts
<1>2. inner' = [a \in Address |-> IF a \in DOMAIN P THEN P[a] ELSE inner[a]]
  BY DEF AddProgram
<1> HIDE DEF P
<1>3. /\ \A a \in Address \ DOMAIN P : inner'[a] = inner[a]
      /\ inner'[q] # NoAccount
  BY <1>1, <1>2, ProgramWritten DEF Good, AInv
<1>4. DOMAIN P = IF q \in UpgradeableProgram THEN {q, ProgramData[q]} ELSE {q}
  BY <1>1 DEF AreAccountsOf
<1>5. ASSUME p # q PROVE FALSE
  <2>0. p \in Address /\ (q \in UpgradeableProgram => ProgramData[q] # p)
    BY Addresses
  <2>1. p \in Address \ DOMAIN P
    BY SMTT(60), <1>4, <1>5, <2>0
  <2>2. p \in UpgradeableProgram => ProgramData[p] \in Address \ DOMAIN P
    <3>1. ASSUME p \in UpgradeableProgram
          PROVE  /\ ProgramData[p] \in Address /\ ProgramData[p] # q
                 /\ q \in UpgradeableProgram => ProgramData[p] # ProgramData[q]
      BY <1>5, <3>1, Addresses
    <3> QED BY <1>4, <3>1
  <2>3. programs_cache'[p] = programs_cache[p]
    BY <1>5, <2>1 DEF AddProgram, Good, AInv, CacheOK
  <2> QED BY <1>3, <2>1, <2>2, <2>3, StaysInStep DEF Good, AInv
<1>6. ASSUME p = q, code # BadElf PROVE FALSE
  <2>1. Good' /\ result' = "Ok" /\ written' = {p}
    BY <1>6, AddProgramGood DEF AddProgram
  <2> QED BY <1>3, <1>6, <2>1 DEF Good, LoadedCodeIsCurrent, InStep
<1> QED BY <1>5, <1>6

\* A transaction leaves a program behind only when it closes one.
LEMMA SendInStep ==
    ASSUME Good, SendTransaction, NEW p \in Program, InStep(p), ~InStep(p)'
    PROVE  result' = "Closed"
<1>1. ASSUME UNCHANGED <<inner, programs_cache>> PROVE FALSE
  BY <1>1, StaysInStep DEF Good, AInv
<1>2. ASSUME NEW post \in Touches, NEW o \in Orders(post), Sync(post, o, "Ok")
      PROVE  FALSE
  <2>1. p \in Address
    BY Addresses
  <2>2. /\ inner' = inner
        /\ \/ programs_cache'[p] = programs_cache[p]
           \/ /\ inner[p] # NoAccount
              /\ programs_cache'[p] = Loaded(CodeOf(p, inner[p], inner))
              /\ CodeOf(p, inner[p], inner) \in Elf \cup {"closed"}
    BY <1>2, <2>1, TouchSync DEF Good
  <2>3. CASE programs_cache'[p] = programs_cache[p]
    BY <2>2, <2>3, StaysInStep DEF Good, AInv
  <2>4. CASE /\ inner[p] # NoAccount
             /\ programs_cache'[p] = Loaded(CodeOf(p, inner[p], inner))
             /\ CodeOf(p, inner[p], inner) \in Elf \cup {"closed"}
    <3> DEFINE code == CodeOf(p, inner[p], inner)
    <3>1. Loaded(code) # NoEntry /\ Loaded(code).code = code
      BY <2>4, LoadedFacts, Constants DEF Good
    <3> QED BY <2>2, <2>4, <3>1 DEF InStep
  <2> QED BY <2>2, <2>3, <2>4
<1>3. ASSUME NEW post \in Deploys \cup Upgrades, NEW o \in Orders(post), Sync(post, o, "Ok")
      PROVE  FALSE
  <2>1. PICK q \in Program, code \in Elf : AddProgram(q, code)
    BY <1>3, DeployIsAddProgram DEF Good
  <2>2. code \in Code /\ code # BadElf
    BY Constants DEF Code
  <2> QED BY <2>1, <2>2, AddProgramInStep
<1>4. ASSUME NEW post \in Closes, NEW o \in Orders(post), Sync(post, o, "Closed")
      PROVE  result' = "Closed"
  BY <1>1, <1>4, CloseSync DEF Good
<1>5. CASE sysvar_cache[Rent] = Unset
  BY <1>1, <1>5 DEF SendTransaction
<1> QED BY <1>2, <1>3, <1>4, <1>5 DEF SendTransaction

\* The other calls keep every program in step.
LEMMA OthersInStep ==
    ASSUME Good, NEW p \in Program, InStep(p),
           \/ ReplaceEnvironments
           \/ \E b \in Builtin : AddBuiltin(b)
           \/ \E q \in Program \cup Builtin : Invoke(q)
           \/ SaveAndRestore
    PROVE  InStep(p)'
<1>0. p \in Address
  BY Addresses
<1>1. ASSUME UNCHANGED <<inner, programs_cache>> PROVE InStep(p)'
  BY <1>1, StaysInStep DEF Good, AInv
<1>2. ASSUME NEW b \in Builtin, AddBuiltin(b) PROVE InStep(p)'
  <2> DEFINE acc == [kind |-> "native", body |-> Unset, lamports |-> 1]
  <2>1. acc \in Account /\ acc.kind = "native"
    BY DEF Account
  <2>2. inner' = [inner EXCEPT ![b] = acc] /\ b \in Address
    BY <1>2, Constants, Addresses DEF AddBuiltin
  <2> HIDE DEF acc
  <2>3. CASE b = p
    <3>1. inner'[p] = acc /\ acc # NoAccount /\ ~IsProgram(acc)
      BY <2>1, <2>2, <2>3, Constants DEF IsProgram, Good, AInv, StoreOK
    <3> QED BY <3>1 DEF InStep
  <2>4. CASE b # p
    <3>1. inner'[p] = inner[p] /\ programs_cache'[p] = programs_cache[p]
      BY <1>0, <1>2, <2>2, <2>4 DEF AddBuiltin, Good, AInv, StoreOK, CacheOK
    <3>2. p \in UpgradeableProgram => inner'[ProgramData[p]] = inner[ProgramData[p]]
      BY <2>2, Addresses DEF Good, AInv, StoreOK
    <3> QED BY <3>1, <3>2, StaysInStep DEF Good, AInv
  <2> QED BY <2>3, <2>4
<1>3. ASSUME SaveAndRestore PROVE InStep(p)'
  <2>1. CASE \E a \in StoredPrograms : ~CanLoad(a, inner[a], inner)
    BY <1>1, <1>3, <2>1 DEF SaveAndRestore
  <2>2. CASE \A a \in StoredPrograms : CanLoad(a, inner[a], inner)
    <3>1. /\ inner' = inner
          /\ programs_cache'[p] = IF p \in StoredPrograms THEN RebuiltEntry(p) ELSE NoEntry
      BY <1>0, <1>3, <2>2 DEF SaveAndRestore
    <3>2. CASE p \in StoredPrograms
      <4>1. programs_cache'[p] = RebuiltEntry(p) /\ inner[p] # NoAccount
        BY <3>1, <3>2 DEF StoredPrograms
      <4>2. RebuiltEntry(p) # NoEntry
        <5>1. /\ inner[p] \in Account /\ IsProgram(inner[p])
              /\ inner[p].kind = "program" => p \in UpgradeableProgram
          BY <1>0, <3>2 DEF StoredPrograms, Good, AInv, StoreOK
        <5>2. CodeOf(p, inner[p], inner) \in Elf \cup {"closed"}
          BY <1>0, <2>2, <3>2, <5>1, CodeFacts DEF Good, AInv
        <5>3. RebuiltSlot \in Value /\ 0 \in 0..MaxEnvironment
          <6>1. FromStore(inner)[Clock] \in Value \cup {Unset}
            BY FromStoreFacts, SysvarFacts DEF Good, AInv
          <6> QED BY <6>1, Constants DEF RebuiltSlot
        <5>4. RebuiltEntry(p) \in CacheEntry
          BY <5>2, <5>3 DEF RebuiltEntry, CacheEntry
        <5> QED BY <5>4, EntryFacts
      <4>3. programs_cache'[p].code = CodeOf(p, inner[p], inner)
        BY SMTT(60), <4>1 DEF RebuiltEntry
      <4>4. /\ CodeOf(p, inner'[p], inner') = CodeOf(p, inner[p], inner)
            /\ inner'[p] = inner[p]
        BY <3>1
      <4> QED BY <3>1, <4>1, <4>2, <4>3, <4>4 DEF InStep
    <3>3. CASE p \notin StoredPrograms
      BY <1>0, <3>1, <3>3 DEF InStep, StoredPrograms
    <3> QED BY <3>2, <3>3
  <2> QED BY <2>1, <2>2
<1> QED BY <1>1, <1>2, <1>3 DEF ReplaceEnvironments, Invoke

\* For every order in which transactions list their accounts: an entry falls
\* behind the store only through the four calls that are named.
THEOREM CacheFallsBehind == Spec => CacheFallsBehindOnlyHere
<1> DEFINE Behind(p) ==
       \/ /\ p \in UpgradeableProgram
          /\ \E i \in SetAccountInputs : i[1] = ProgramData[p] /\ SetAccount(i[1], i[2])
       \/ \E i \in SetAccountInputs : i[1] = p /\ i[2].lamports = 0 /\ SetAccount(i[1], i[2])
       \/ AddProgram(p, BadElf)
       \/ result' = "Closed"
<1>1. ASSUME Good, Next, NEW p \in Program, InStep(p), ~InStep(p)'
      PROVE  Behind(p)
  <2>1. ASSUME NEW i \in SetAccountInputs, SetAccount(i[1], i[2]) PROVE Behind(p)
    <3>1. /\ i[1] \in Address /\ i[2] \in Account
          /\ i[2].kind = "program" => i[1] \in UpgradeableProgram
      BY Inputs
    <3>2. \/ p \in UpgradeableProgram /\ i[1] = ProgramData[p]
          \/ i[1] = p /\ i[2].lamports = 0
      BY <1>1, <2>1, <3>1, SetAccountInStep
    <3> QED BY <2>1, <3>2
  <2>2. ASSUME NEW s \in Sysvar, NEW v \in Value PROVE ~SetSysvar(s, v)
    <3>1. SUFFICES ASSUME SetSysvar(s, v) PROVE FALSE
      OBVIOUS
    <3>2. /\ SysvarAccount(v) \in Account /\ SysvarAccount(v).kind # "program"
          /\ s \in Address
      BY SysvarAccountFacts, SysvarFacts
    <3>3. (p \in UpgradeableProgram /\ s = ProgramData[p]) \/ s = p
      BY <1>1, <3>1, <3>2, SetAccountInStep DEF SetSysvar
    <3> QED BY <3>3, Addresses
  <2>3. ASSUME NEW q \in Program, NEW code \in Code, AddProgram(q, code) PROVE Behind(p)
    <3>1. p = q /\ code = BadElf
      BY <1>1, <2>3, AddProgramInStep
    <3> QED BY <2>3, <3>1
  <2>4. SendTransaction => Behind(p)
    BY <1>1, SendInStep
  <2>5. /\ ~ReplaceEnvironments /\ ~SaveAndRestore
        /\ \A b \in Builtin : ~AddBuiltin(b)
        /\ \A q \in Program \cup Builtin : ~Invoke(q)
    BY <1>1, OthersInStep
  <2> HIDE DEF Behind
  <2> QED BY <1>1, <2>1, <2>2, <2>3, <2>4, <2>5, SysvarFacts DEF Next, WarpToSlot, Sysvar
<1>2. Good /\ [Next]_vars =>
        [\A p \in Program : InStep(p) /\ ~InStep(p)' => Behind(p)]_vars
  <2> HIDE DEF Behind
  <2> QED BY <1>1
<1> QED BY <1>2, AlwaysGood, PTL DEF Spec, CacheFallsBehindOnlyHere

=============================================================================
