------------------------------ MODULE AccountsDb ------------------------------
(***************************************************************************)
(* The accounts store and the two caches derived from it                   *)
(* (crates/litesvm/src/accounts_db.rs, and the operations of lib.rs that   *)
(* use it): the sysvar cache every transaction reads its clock and rent    *)
(* from, and the program cache that holds the loaded code of every         *)
(* program.  Nothing recomputes them on a read, so each write must keep    *)
(* them in step, across calls that fail halfway and in whatever order a    *)
(* transaction lists its accounts.                                         *)
(***************************************************************************)
EXTENDS Integers, Sequences, FiniteSets

CONSTANTS
    Address,
    Clock,          \* the address of the clock sysvar
    OtherSysvar,    \* the addresses of the other cached sysvars, the rent's too
    Rent,
    Value,          \* contents of sysvars; of the clock: slots
    Slot0,          \* the slot of a VM without a clock
    Elf,            \* code the loader accepts
    BadElf,         \* code it refuses
    ProgramData,    \* the programdata address of each upgradeable program
    Program,        \* the addresses programs are added at
    Builtin,        \* the addresses of builtins added by add_builtin
    NoAccount, NoEntry, Unset,
    SetAccountInputs,  \* the arguments of set_account
    MaxTouched,        \* bound: how many accounts a transaction leaves as they are
    MaxEnvironment     \* bound: how often the environment is replaced

Sysvar == {Clock} \cup OtherSysvar

UpgradeableProgram == DOMAIN ProgramData

Code == Elf \cup {BadElf}

\* The kinds of accounts the store tells apart.  "loader": executable, owned
\* by a loader that keeps the code in the account itself (v1, v2, v4);
\* "program" and "programdata": the two accounts of an upgradeable program;
\* "native": a builtin; "sysvar": data that parses; anything else is plain.
Account ==
    [kind : {"plain", "program", "native"}, body : {Unset}, lamports : {0, 1}]
        \cup [kind : {"sysvar"}, body : Value, lamports : {0, 1}]
        \cup [kind : {"loader", "programdata"}, body : Code, lamports : {0, 1}]

\* A program cache entry: loaded code or a tombstone, with the runtime
\* environment and the slot it was loaded under; an entry that is delayed is
\* not visible in its own slot.
CacheEntry ==
    [code : Elf \cup {"closed", "builtin"}, env : 0..MaxEnvironment,
     slot : Value, delayed : BOOLEAN]

ASSUME AccountsAssumption ==
    /\ IsFiniteSet(Address)
    /\ Clock \in Address /\ OtherSysvar \subseteq Address
    /\ Clock \notin OtherSysvar /\ Rent \in OtherSysvar
    /\ Slot0 \in Value /\ BadElf \notin Elf \cup {"closed"}
    /\ Unset \notin Value
    /\ ProgramData \in [UpgradeableProgram -> Address]
    /\ UpgradeableProgram \subseteq Program /\ Program \subseteq Address \ Sysvar
    /\ \A p \in UpgradeableProgram :      \* an address derived from p
          /\ ProgramData[p] \notin Sysvar \cup Program \cup Builtin
          /\ \A q \in UpgradeableProgram : ProgramData[p] = ProgramData[q] => p = q
    /\ Builtin \subseteq Address \ Sysvar
    /\ SetAccountInputs \subseteq Address \X Account
    /\ \A i \in SetAccountInputs :
          /\ i[2].kind = "program" => i[1] \in UpgradeableProgram
          /\ i[1] \in Sysvar => i[2].kind \in {"sysvar", "plain"}
    /\ NoAccount \notin Account /\ NoEntry \notin CacheEntry
    /\ MaxTouched \in Nat /\ MaxEnvironment \in Nat

VARIABLES
    inner,           \* the accounts
    programs_cache,  \* what find() returns for each address
    sysvar_cache,
    slot,            \* the slot of the program cache
    environments,    \* the number of the current runtime environment
    result,          \* what the last call returned, or why it panicked
    written          \* the programs it loaded into the cache

vars == <<inner, programs_cache, sysvar_cache, slot, environments, result,
          written>>

-----------------------------------------------------------------------------
(* Loading programs.                                                       *)

Executable(acc) == acc.kind \in {"loader", "program", "native"}

\* The accounts that add_account loads into the program cache.
IsProgram(acc) == acc.kind \in {"loader", "program"}

CurrentSlot ==
    IF sysvar_cache[Clock] = Unset THEN Slot0 ELSE sysvar_cache[Clock]

Loaded(code) ==
    [code |-> code, env |-> environments, slot |-> CurrentSlot,
     delayed |-> FALSE]

\* The code load_program finds for the account acc at address a while the
\* store is `store`.
CodeOf(a, acc, store) ==
    IF acc.kind = "loader" THEN acc.body
    ELSE IF store[ProgramData[a]] = NoAccount THEN "closed"
    ELSE IF store[ProgramData[a]].kind = "programdata"
         THEN store[ProgramData[a]].body
    ELSE BadElf

CanLoad(a, acc, store) == CodeOf(a, acc, store) # BadElf

-----------------------------------------------------------------------------
(* The sysvar cache.                                                       *)

Parse(acc) == IF acc.kind = "sysvar" THEN acc.body ELSE Unset

FromStore(store) ==
    [s \in Sysvar |-> IF store[s] = NoAccount THEN Unset ELSE Parse(store[s])]

\* A plausible slip: only the sysvar that is set is written to the cache.
Refill_OnlyThis(s, acc) == [sysvar_cache EXCEPT ![s] = Parse(acc)]

\* reset and fill_missing_entries with acc at s and the store elsewhere.
Refill(s, acc) == [FromStore(inner) EXCEPT ![s] = Parse(acc)]

-----------------------------------------------------------------------------
(* The operations.                                                         *)

Panics == {"RentMissing", "ProgramMissing", "SyncFailed"}

Results == {"Ok", "SysvarSet", "Closed", "Restored", "Err"} \cup Panics

Stored(acc) == IF acc.lamports = 0 THEN NoAccount ELSE acc

Init ==
    /\ inner = [a \in Address |->
                   IF a \in Sysvar
                   THEN [kind |-> "sysvar", body |-> Slot0, lamports |-> 1]
                   ELSE NoAccount]
    /\ programs_cache = [a \in Address |-> NoEntry]
    /\ sysvar_cache = [s \in Sysvar |-> Slot0]
    /\ slot = Slot0
    /\ environments = 0
    /\ result = "Ok" /\ written = {}

\* A plausible slip: the account is stored before its program is loaded.
SetProgramAccount_StoreFirst(a, acc) ==
    /\ IsProgram(acc)
    /\ inner' = [inner EXCEPT ![a] = Stored(acc)]
    /\ IF CanLoad(a, acc, inner)
       THEN /\ programs_cache' =
                   [programs_cache EXCEPT ![a] = Loaded(CodeOf(a, acc, inner))]
            /\ result' = "Ok" /\ written' = {a}
       ELSE /\ result' = "Err" /\ written' = {}
            /\ UNCHANGED programs_cache
    /\ UNCHANGED <<sysvar_cache, slot, environments>>

\* add_account on a program: nothing changes when it does not load.
SetProgramAccount(a, acc) ==
    /\ IsProgram(acc)
    /\ IF CanLoad(a, acc, inner)
       THEN /\ programs_cache' =
                   [programs_cache EXCEPT ![a] = Loaded(CodeOf(a, acc, inner))]
            /\ inner' = [inner EXCEPT ![a] = Stored(acc)]
            /\ result' = "Ok" /\ written' = {a}
       ELSE /\ result' = "Err" /\ written' = {}
            /\ UNCHANGED <<inner, programs_cache>>
    /\ UNCHANGED <<sysvar_cache, slot, environments>>

\* A plausible slip: the slot of the program cache is forgotten.
SetClock_NoSlot(acc) ==
    /\ IF Parse(acc) # Unset
       THEN /\ sysvar_cache' = Refill(Clock, acc)
            /\ inner' = [inner EXCEPT ![Clock] = Stored(acc)]
            /\ result' = "SysvarSet"
       ELSE result' = "Err" /\ UNCHANGED <<inner, sysvar_cache>>
    /\ written' = {}
    /\ UNCHANGED <<programs_cache, slot, environments>>

\* A plausible slip: the cache is refilled before the data is parsed, as for
\* the other sysvars.
SetClock_RefillFirst(acc) ==
    /\ sysvar_cache' = Refill(Clock, acc)
    /\ IF Parse(acc) # Unset
       THEN /\ slot' = Parse(acc)
            /\ inner' = [inner EXCEPT ![Clock] = Stored(acc)]
            /\ result' = "SysvarSet"
       ELSE result' = "Err" /\ UNCHANGED <<inner, slot>>
    /\ written' = {}
    /\ UNCHANGED <<programs_cache, environments>>

\* add_account on the clock: the data is parsed before anything changes.
SetClock(acc) ==
    /\ IF Parse(acc) # Unset
       THEN /\ slot' = Parse(acc)
            /\ sysvar_cache' = Refill(Clock, acc)
            /\ inner' = [inner EXCEPT ![Clock] = Stored(acc)]
            /\ result' = "SysvarSet"
       ELSE result' = "Err" /\ UNCHANGED <<inner, sysvar_cache, slot>>
    /\ written' = {}
    /\ UNCHANGED <<programs_cache, environments>>

\* A plausible slip: fill_missing_entries without the reset before it, which
\* keeps what is cached.
SetOtherSysvar_NoReset(s, acc) ==
    /\ sysvar_cache' = [x \in Sysvar |->
                           IF sysvar_cache[x] # Unset THEN sysvar_cache[x]
                           ELSE Refill(s, acc)[x]]
    /\ IF Parse(acc) # Unset
       THEN inner' = [inner EXCEPT ![s] = Stored(acc)] /\ result' = "SysvarSet"
       ELSE result' = "Err" /\ UNCHANGED inner
    /\ written' = {}
    /\ UNCHANGED <<programs_cache, slot, environments>>

\* add_account on another sysvar (handle_sysvar): the cache is refilled
\* first, with nothing for data that does not parse.
SetOtherSysvar(s, acc) ==
    /\ sysvar_cache' = Refill(s, acc)
    /\ IF Parse(acc) # Unset
       THEN inner' = [inner EXCEPT ![s] = Stored(acc)] /\ result' = "SysvarSet"
       ELSE result' = "Err" /\ UNCHANGED inner
    /\ written' = {}
    /\ UNCHANGED <<programs_cache, slot, environments>>

SetPlainAccount(a, acc) ==
    /\ ~IsProgram(acc) /\ a \notin Sysvar
    /\ inner' = [inner EXCEPT ![a] = Stored(acc)]
    /\ result' = "Ok" /\ written' = {}
    /\ UNCHANGED <<programs_cache, sysvar_cache, slot, environments>>

SetAccount(a, acc) ==
    \/ SetProgramAccount(a, acc)
    \/ a = Clock /\ SetClock(acc)
    \/ a \in OtherSysvar /\ SetOtherSysvar(a, acc)
    \/ SetPlainAccount(a, acc)

SysvarAccount(v) == [kind |-> "sysvar", body |-> v, lamports |-> 1]

\* set_sysvar serializes a value that parses again.
SetSysvar(s, v) == SetAccount(s, SysvarAccount(v))

\* warp_to_slot reads the clock from the store, not from the cache.
WarpToSlot(v) == inner[Clock] # NoAccount /\ SetSysvar(Clock, v)

ProgramAccounts(p, code) ==
    IF p \in UpgradeableProgram
    THEN [a \in {p, ProgramData[p]} |->
             IF a = p
             THEN [kind |-> "program", body |-> Unset, lamports |-> 1]
             ELSE [kind |-> "programdata", body |-> code, lamports |-> 1]]
    ELSE [a \in {p} |-> [kind |-> "loader", body |-> code, lamports |-> 1]]

\* A plausible slip: the entry keeps the effective slot of a deployment.
DeployedEntry_Delayed(code) == [Loaded(code) EXCEPT !.delayed = TRUE]

\* The entry takes effect in the slot of the deployment.
DeployedEntry(code) == Loaded(code)

\* add_program: the accounts are written before the code is loaded, and stay
\* when it does not load.
AddProgram(p, code) ==
    /\ inner' = [a \in Address |->
                    IF a \in DOMAIN ProgramAccounts(p, code)
                    THEN ProgramAccounts(p, code)[a] ELSE inner[a]]
    /\ IF code # BadElf
       THEN /\ programs_cache' = [programs_cache EXCEPT ![p] = DeployedEntry(code)]
            /\ result' = "Ok" /\ written' = {p}
       ELSE result' = "Err" /\ written' = {} /\ UNCHANGED programs_cache
    /\ UNCHANGED <<sysvar_cache, slot, environments>>

AddBuiltin(b) ==
    /\ programs_cache' = [programs_cache EXCEPT ![b] = Loaded("builtin")]
    /\ inner' = [inner EXCEPT ![b] =
                    [kind |-> "native", body |-> Unset, lamports |-> 1]]
    /\ result' = "Ok" /\ written' = {}
    /\ UNCHANGED <<sysvar_cache, slot, environments>>

\* with_builtins and with_custom_syscall replace the runtime environments;
\* the entries keep the one they were loaded under.
ReplaceEnvironments ==
    /\ environments < MaxEnvironment
    /\ environments' = environments + 1
    /\ result' = "Ok" /\ written' = {}
    /\ UNCHANGED <<inner, programs_cache, sysvar_cache, slot>>

-----------------------------------------------------------------------------
(* Transactions.  What the runtime may do to programs (external): a        *)
(* transaction maps its writable accounts, never sysvars, to their new     *)
(* contents.  The slot and the upgrade authority in a programdata account, *)
(* which set_account can rewrite at will, are left out: the loader accepts *)
(* any upgrade and any close.                                              *)

Present(a, kind) == inner[a] # NoAccount /\ inner[a].kind = kind

Emptied == [kind |-> "plain", body |-> Unset, lamports |-> 0]

\* An absent account is loaded as an empty one.
Current(a) == IF inner[a] = NoAccount THEN Emptied ELSE inner[a]

\* Accounts that are writable but keep their contents.
Touches == {[a \in W |-> Current(a)] : W \in {W \in SUBSET (Address \ Sysvar) :
                                               Cardinality(W) <= MaxTouched}}

\* The loader deploys and upgrades with code it has verified.
Deploys ==
    {ProgramAccounts(p, code) :
        p \in {p \in UpgradeableProgram :
                  /\ inner[p] = NoAccount /\ inner[ProgramData[p]] = NoAccount},
        code \in Elf}

Owned(p) == Present(p, "program") /\ Present(ProgramData[p], "programdata")

Upgrades ==
    {ProgramAccounts(p, code) : p \in {p \in UpgradeableProgram : Owned(p)},
                                code \in Elf}

\* Closing a program empties its programdata account; the program account
\* stays and is writable.
Closes ==
    {[a \in {p, ProgramData[p]} |-> IF a = p THEN inner[p] ELSE Emptied] :
        p \in {p \in UpgradeableProgram : Owned(p)}}

\* A plausible slip: the accounts are written in the order they come.
Orders_Unsorted(post) ==
    {o \in [1..Cardinality(DOMAIN post) -> DOMAIN post] :
        \A i, j \in DOMAIN o : o[i] = o[j] => i = j}

\* The orders sync_accounts may write in: addresses come in any order, and
\* partition moves the accounts that are programdata to the front.
Orders(post) ==
    {o \in [1..Cardinality(DOMAIN post) -> DOMAIN post] :
        \A i, j \in DOMAIN o :
            /\ o[i] = o[j] => i = j
            /\ post[o[j]].kind = "programdata" /\ post[o[i]].kind # "programdata"
                   => j < i}

\* The store after the first n writes.
StoreAfter(post, o, n) ==
    [a \in Address |->
        IF \E i \in 1..n : o[i] = a THEN Stored(post[a]) ELSE inner[a]]

\* The i-th write fails when its program does not load from that store.
Fails(post, o, i) ==
    /\ IsProgram(post[o[i]])
    /\ ~CanLoad(o[i], post[o[i]], StoreAfter(post, o, i - 1))

\* The number of writes before the first one that fails.
Done(post, o) ==
    CHOOSE n \in 0..Len(o) :
        /\ \A i \in 1..n : ~Fails(post, o, i)
        /\ n < Len(o) => Fails(post, o, n + 1)

\* The cache after the first n writes: each program is loaded from the store
\* as it is when its turn comes.
CacheAfter(post, o, n) ==
    [a \in Address |->
        IF \E i \in 1..n : o[i] = a /\ IsProgram(post[a])
        THEN Loaded(CodeOf(a, post[a],
                           StoreAfter(post, o, (CHOOSE i \in 1..n : o[i] = a) - 1)))
        ELSE programs_cache[a]]

\* sync_accounts, and send_transaction's expect() on its result.
Sync(post, o, success) ==
    LET n == Done(post, o)
    IN  /\ inner' = StoreAfter(post, o, n)
        /\ programs_cache' = CacheAfter(post, o, n)
        /\ IF n = Len(o)
           THEN /\ result' = success
                /\ written' = {a \in DOMAIN post : IsProgram(post[a])}
           ELSE result' = "SyncFailed" /\ written' = {}
        /\ UNCHANGED <<sysvar_cache, slot, environments>>

\* A transaction that fails writes nothing here.  process_transaction takes
\* the rent from the cache before anything else, and unwraps it.
SendTransaction ==
    IF sysvar_cache[Rent] = Unset
    THEN /\ result' = "RentMissing" /\ written' = {}
         /\ UNCHANGED <<inner, programs_cache, sysvar_cache, slot, environments>>
    ELSE \/ \E post \in Touches \cup Deploys \cup Upgrades :
               \E o \in Orders(post) : Sync(post, o, "Ok")
         \/ \E post \in Closes : \E o \in Orders(post) : Sync(post, o, "Closed")

\* What find() makes of an entry: it is hidden in its own slot when delayed.
Visible(a) == ~(programs_cache[a].delayed /\ programs_cache[a].slot = slot)

\* The runtime runs what the cache holds (external).
Runs(p) ==
    programs_cache[p] # NoEntry /\ programs_cache[p].code # "closed" /\ Visible(p)

\* The account of a program that is only invoked is expected to be in the
\* store whenever the program is in the cache.
Invoke(p) ==
    /\ sysvar_cache[Rent] # Unset
    /\ result' = IF programs_cache[p] # NoEntry /\ inner[p] = NoAccount
                 THEN "ProgramMissing"
                 ELSE IF inner[p] # NoAccount /\ Executable(inner[p]) /\ Runs(p)
                      THEN "Ok" ELSE "Err"
    /\ written' = {}
    /\ UNCHANGED <<inner, programs_cache, sysvar_cache, slot, environments>>

-----------------------------------------------------------------------------
(* Saving and restoring: a new VM gets the accounts, then rebuild_caches   *)
(* derives the caches from them.                                           *)

StoredPrograms ==
    {a \in Address : inner[a] # NoAccount /\ IsProgram(inner[a])}

\* rebuild_sysvar_cache: the new VM's slot is only set from a clock.
RebuiltSlot ==
    IF FromStore(inner)[Clock] = Unset THEN Slot0 ELSE FromStore(inner)[Clock]

\* A plausible slip: the programs are loaded before the sysvars.
RebuiltEntry_BeforeSysvars(a) ==
    [code |-> CodeOf(a, inner[a], inner), env |-> 0, slot |-> Slot0,
     delayed |-> FALSE]

\* load_all_existing_programs.
RebuiltEntry(a) ==
    [code |-> CodeOf(a, inner[a], inner), env |-> 0, slot |-> RebuiltSlot,
     delayed |-> FALSE]

\* The VM is replaced by the restored one, or stays when a program of the
\* snapshot does not load.  Neither custom syscalls nor added builtins are
\* part of a snapshot.
SaveAndRestore ==
    /\ IF \A a \in StoredPrograms : CanLoad(a, inner[a], inner)
       THEN /\ programs_cache' =
                   [a \in Address |->
                       IF a \in StoredPrograms THEN RebuiltEntry(a) ELSE NoEntry]
            /\ sysvar_cache' = FromStore(inner)
            /\ slot' = RebuiltSlot
            /\ environments' = 0
            /\ result' = "Restored" /\ written' = StoredPrograms
       ELSE /\ result' = "Err" /\ written' = {}
            /\ UNCHANGED <<programs_cache, sysvar_cache, slot, environments>>
    /\ UNCHANGED inner

Next ==
    /\ result \notin Panics
    /\ \/ \E i \in SetAccountInputs : SetAccount(i[1], i[2])
       \/ \E s \in OtherSysvar, v \in Value : SetSysvar(s, v)
       \/ \E v \in Value : WarpToSlot(v)
       \/ \E p \in Program, code \in Code : AddProgram(p, code)
       \/ \E b \in Builtin : AddBuiltin(b)
       \/ ReplaceEnvironments
       \/ SendTransaction
       \/ \E p \in Program \cup Builtin : Invoke(p)
       \/ SaveAndRestore

Spec == Init /\ [][Next]_vars

-----------------------------------------------------------------------------
(* Properties.                                                             *)

\* The variables have their types.
TypeOK ==
    /\ inner \in [Address -> Account \cup {NoAccount}]
    /\ programs_cache \in [Address -> CacheEntry \cup {NoEntry}]
    /\ sysvar_cache \in [Sysvar -> Value \cup {Unset}]
    /\ slot \in Value
    /\ environments \in 0..MaxEnvironment
    /\ result \in Results
    /\ written \subseteq Address

\* The program cache lives in the slot of the clock that transactions see:
\* no path that sets, loses or restores the clock separates the two.
SlotFollowsClock == sysvar_cache[Clock] # Unset => slot = sysvar_cache[Clock]

\* Transactions never read a stale sysvar: what is cached for a sysvar in the
\* store is what the store holds.  A set_account that fails may lose a cached
\* value (handle_sysvar resets before it parses) but never falsifies one.
SysvarsNeverStale ==
    \A s \in Sysvar :
        sysvar_cache[s] # Unset /\ inner[s] # NoAccount
            => sysvar_cache[s] = inner[s].body

\* Any sysvar that is set brings back whatever earlier failures lost: every
\* sysvar of the store is in the cache again.
SettingOneRepairsAll ==
    result \in {"SysvarSet", "Restored"} =>
        \A s \in Sysvar :
            inner[s] # NoAccount => sysvar_cache[s] = inner[s].body

\* A program that was added, set, deployed, upgraded or touched by a
\* transaction runs the code that the store holds for it, in whatever order
\* the transaction lists the program and its programdata, and at once.
LoadedCodeIsCurrent ==
    result = "Ok" =>
        \A a \in written :
            inner[a] # NoAccount =>
                /\ programs_cache[a] # NoEntry /\ Visible(a)
                /\ programs_cache[a].code = CodeOf(a, inner[a], inner)

\* "Order matters: environments first, then sysvars, then BPF programs"
\* (rebuild_caches): every program of a restored VM runs the stored code, in
\* the VM's environment and from the VM's slot.
RestoredProgramsAreFresh ==
    result = "Restored" =>
        \A a \in Address :
            inner[a] # NoAccount /\ IsProgram(inner[a]) =>
                programs_cache[a] = [code |-> CodeOf(a, inner[a], inner),
                                     env |-> environments, slot |-> slot,
                                     delayed |-> FALSE]

\* A sysvar that transactions can read stays readable, except in two ways: a
\* set_account on it, other than on the clock, that fails (handle_sysvar has
\* refilled the cache by then), or a refill after its account was stored
\* without lamports, that is not stored.  Until then process_transaction,
\* which unwraps the rent, finds it.
SysvarsLostOnlyByFailure ==
    [][\A s \in Sysvar : sysvar_cache[s] # Unset /\ sysvar_cache'[s] = Unset =>
          \/ inner[s] = NoAccount
          \/ /\ s # Clock /\ result' = "Err"
             /\ \E i \in SetAccountInputs : i[1] = s /\ SetAccount(i[1], i[2])]_vars

\* What is cached for p is what the store holds: no entry without an account,
\* no program account without its code.
InStep(p) ==
    IF inner[p] = NoAccount THEN programs_cache[p] = NoEntry
    ELSE IsProgram(inner[p]) =>
            /\ programs_cache[p] # NoEntry
            /\ programs_cache[p].code = CodeOf(p, inner[p], inner)

\* The only calls after which a program's entry is no longer what the store
\* holds are set_account on its programdata account alone, set_account with a
\* program account without lamports, an add_program that fails, and a
\* transaction that closes it.  No other call and no other transaction, in
\* whatever order it lists its accounts, leaves a program behind.
CacheFallsBehindOnlyHere ==
    [][\A p \in Program : InStep(p) /\ ~InStep(p)' =>
          \/ /\ p \in UpgradeableProgram
             /\ \E i \in SetAccountInputs :
                   i[1] = ProgramData[p] /\ SetAccount(i[1], i[2])
          \/ \E i \in SetAccountInputs :
                i[1] = p /\ i[2].lamports = 0 /\ SetAccount(i[1], i[2])
          \/ AddProgram(p, BadElf)
          \/ result' = "Closed"]_vars

\* "need to add programdata accounts first if there are any" (sync_accounts):
\* the program account is loaded after its programdata account was written,
\* also when the transaction closes the program.
ProgramdataFirst ==
    result = "Closed" =>
        \A a \in written :
            programs_cache[a].code = CodeOf(a, inner[a], inner)

\* "It shouldn't be possible to write invalid sysvars in send_transaction":
\* sync_accounts never fails after a successful transaction.
SyncNeverFails == result # "SyncFailed"

=============================================================================
