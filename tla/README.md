# A TLA+ model of LiteSVM

LiteSVM is an in-process Solana VM for tests: one `LiteSVM` object holds the
accounts, the caches derived from them, a bounded history of transactions and a
few switches, and a test drives it through method calls. There are no threads.
What is hard to get right, and what these modules are about, is that every call
works on several copies of the same facts:

- the accounts in the store and the copies loaded for a transaction, each with
  its own fee check;
- the store and the two caches that nothing refreshes on a read (sysvars,
  loaded programs), written by calls that may fail halfway;
- a history whose *allocated* capacity is also its configured limit, and which
  together with blockhashes and durable nonces is the replay protection;
- a running total kept beside the stakes it sums;
- a snapshot from which all of this is rebuilt in another process, through a
  file that is written in several steps;
- two records of one execution, the log lines and the instruction trace, and a
  tree that is read back from the lines, some of which may be lost;
- helpers that turn one call into several transactions, or that fill in what
  the token program will later ask for.

Every definition is translated from the Rust code under `src/crates/`;
`PROJECT.json` maps each one to its lines. What lives in Solana's own crates
(the runtime that executes instructions, the loader and token programs,
`IndexMap`, the program cache's entry type) is modelled from how LiteSVM uses it
and marked external.

## Inventory of the system

| part | code | state | module |
|---|---|---|---|
| transaction history | `litesvm/src/history.rs` | insertion ordered map, capacity | `TransactionHistory`, `HistoryMachine` |
| rent states | `litesvm/src/utils/rent.rs` | none (pure) | `Rent` |
| transaction pipeline | `litesvm/src/lib.rs` | accounts, history, blockhash, switches | `TransactionProcessing` |
| replay protection | `lib.rs` with `history.rs` | the same | `ReplayProtection` |
| accounts store, sysvar and program caches | `litesvm/src/accounts_db.rs`, `lib.rs` | accounts, two caches, slot, environments | `AccountsDb` |
| epoch stakes | `lib.rs` | stakes, total | `EpochStake` |
| persistence | `persistence/src` | a file | `Snapshot`; restored history and caches in `HistoryMachine`, `AccountsDb` |
| CPI tree | `cpi-tree/src` | none (pure) | `CpiTree`, `CallTrace` |
| inner instructions, message processor | `utils/inner_instructions.rs`, `message_processor.rs` | the instruction trace | `CpiTree`, `CallTrace` |
| deployment helpers | `loader/src/lib.rs` | buffer accounts | `ProgramDeployment`, `AtomicDeployment` |
| token builders | `token/src` | none (one transaction each) | `TokenBuilders`, `TokenProgram` |
| register tracing and its filter | `register_tracing.rs`, `register_tracing_filter.rs` | trace files | `RegisterTracing`, `TraceFilter` |
| debugger, log formatting | `debugger.rs`, `format_logs.rs` | text | not modelled |
| features, precompiles, default programs | `features.rs`, `precompiles.rs`, `programs` | constants | not modelled: tables |
| Node bindings | `node-litesvm/src` | a `LiteSVM` | not modelled: conversions |

## The modules

**`TransactionHistory`** holds the operations of `history.rs` as operators on a
record `[capacity, entries]`. `IndexMap` enters through what the code relies on:
`reserve` may allocate more than it was asked for (`CapacitiesAfterReserve` is
the set of outcomes), `shrink_to_fit` makes the capacity the number of entries,
`insert` of a present key keeps its place.

**`HistoryMachine`** is any sequence of recordings, capacity changes and
restores. Two history variables say what the map should contain: `age` (how many
recordings ago an entry was created) and `lastResult`.

**`Rent`**: the rent state of an account and the transitions between states. The
rent sysvar is a function from data sizes to minimum balances.

**`TransactionProcessing`** is the pipeline. One call is one step (`&mut self`).
`Verdict(t)` is the order of the checks: sanitization, blockhash or nonce,
configuration, history, loading and the fee payer. Then `Reject` changes
nothing, `Fail` charges the fee to the *store* and records the failure,
`Commit` writes the loaded accounts back. What the execution does is external:
`Executions(t)` is every result that keeps the lamports in balance and respects
the nonce instructions. Also actions: airdrops, `expire_blockhash`, the switches
for signature and blockhash checks, the history's capacity, `set_account`. A
transaction is a record of what the checks read; its faults (a bad signature, a
configuration that does not parse, ...) are a set. A hash is `[base, depth]`:
blockhash number `base`, hashed `depth` times, so that distinct values of the
real hashes stay distinct.

**`ReplayProtection`** restricts the pipeline to the checks that
`LiteSVM::new()` switches on, and remembers how long ago each signature was
included and which nonce values were used. A transaction may advance several nonce
accounts; all of them are set from the blockhash of its own message
(`lib.rs:1293`), as in the code.

**`AccountsDb`** models what the store is derived into. An account is a kind, a
body and whether it has lamports; a cache entry is code, environment, slot and
visibility. `SetAccount` is `add_account` with its four paths and their failure
behaviour; `Sync` is `sync_accounts` over every order in which a transaction can
list its accounts; `SaveAndRestore` is `rebuild_caches` in a new VM. A panic is
a result after which the VM takes no step.

**`EpochStake`**: `set_epoch_stake` and `set_epoch_stakes`, with u64 arithmetic
that stops at `MaxStake`. A list given to `set_epoch_stakes` may name a vote account
twice; the history variable `replaced` is what the total then counts beyond the map.
**`Sums`** has the sum of a function's values, which it
shares with the pipeline's total of all balances.

**`Snapshot`** extends it with the file of the persistence crate. A save is a
sequence of steps (create, which truncates; serialize; write unit by unit), each
of which may fail or be the last one before the process dies. A file is a
sequence of units: version byte, state, and from version 3 on the stakes. Loading
checks the version, migrates the two older ones, restores and rebuilds. Of the
VM's fields only the stakes and the compute budget are told apart; the others are
one value that is carried over. Files that this version did not write are inputs:
`ForeignFile` says that one with a version this crate knows holds the fields of that
version, or the beginning of them.

**`CpiTree`** has the lexer's classification of a log line, the pushdown
automaton that builds the tree and recovers from lost or foreign lines, the
totals, the box drawing, and the grouping of the instruction trace into inner
instructions. **`CallTrace`** composes it with an execution: `process_message`
starts the top level instructions, programs call, report and return, the
collector may lose a line or everything after its limit. `frames` is what really
happened.

**`ProgramDeployment`** has `deploy_upgradeable_program` with every transaction
as a step that may fail (`?` returns and leaves what the earlier ones wrote) and
`set_upgrade_authority`, which panics when the sender is not the authority.
**`AtomicDeployment`** is what they promise: a program appears at one moment,
with exactly the bytes given, or not at all. `ImplementsAtomic` is the refinement,
with `request <- call`.

**`TokenBuilders`** has every builder of `litesvm-token` as an operator from the
record of its fields to a transaction: what it fills in, the accounts it derives,
who signs, where it returns early. **`TokenProgram`** is what the token programs
do with these instructions, external, and only as far as the builders depend on
it (`Execute` is what a token program leaves in the accounts, and its error). A call
that is repeated under one blockhash is answered from the history. A builder can
also fail before it sends: in an instruction constructor (a program id that is not a
token program's, or numbers of signers outside 1 to `MaxSigners`, or fewer keys than
required signatures), or in `get_spl_account`, which returns an error for an absent
account and panics for one with less data than a mint. `Wallets` are the addresses
with lamports and without data; payers are among them. The addresses,
keypairs and token programs are constants, the calls of a test a constant set of
records; `BuilderAssumption` types the fields the setters take.

**`TraceFilter`** is the recursive descent parser and the evaluation of
`SBF_TRACE_FILTER`, and beside it a reference that has no parser: a filter is cut
at its outermost `||`, then at its outermost `&&`. **`RegisterTracing`** is the
callback around a transaction. The filter is asked twice: about all programs the
transaction might invoke, to attach the debugger, and about each invocation, to
write its trace.

`MC*` modules and the `.cfg` files are the instances for TLC; the `*Proofs`
modules hold theorems.

## What the runs check

| run | checks | instance |
|---|---|---|
| `persistence` | of a snapshot: the total exceeds the sum by replaced entries only, overflow is exact, bytes round trip, an acknowledged save is what is loaded, a load never mixes two snapshots, old versions load; of the history: retention window, lookups, a disabled history stays empty, a restore keeps entries, order and at least the capacity | 2 votes, `MaxStake` 2, every list of up to 2 entries, a state that does not load, files of every version and cut-off files; 4 signatures, capacities to 4: a full history, one signature to evict for, an over-allocation |
| `processing` | simulation predicts sending, drained accounts are plain, fees taken exactly once, no account becomes rent paying, history agrees with replies | 3 accounts (plain, nonce, absent), 14 transactions with every fault, 2 blockhashes |
| `replay` | replay window, a spent nonce returns only through a transaction of another nonce account | 4 signatures, 2 nonce accounts that start at one value, 3 blockhashes, capacities 1 to 3 |
| `accounts` | sysvars never stale, the slot follows the clock, setting one sysvar repairs all, loaded code is current, restored programs are fresh; sysvars are lost, and the program cache falls behind, in the listed ways only | an upgradeable and a plain program, the latter also replaced by a builtin, clock and rent, 12 account writes |
| `observers` | the tree is the execution where only the end of the log is lost, and what the lines say otherwise; it agrees with inner instructions and compute units; the drawing can be read back. The filter's parser accepts and evaluates as the outermost operators say; a trace is only written of a transaction the debugger was attached to | batches of 1 and of 4 instructions, the latter a precompile, a native and two metered ones, with 3 calls, depth 3, one line lost in the middle (batch of 1) or any number at the end; every foreign log of 5 lines. 1764 filters, well formed or not; 2 invocations |
| `tokens` | only a freezer's account is frozen, a transaction carries the signatures its program asks for, creation is all or nothing, an omitted account is the authority's | four tests: multisig, delegation, freezing and closing, native mints; history of 2 |
| `deployment` | the buffer holds a prefix of the code, leftover buffers are failed calls, the refinement | chunks of 2, files of every length around a multiple, 2 buffers, 2 programs, 2 keys |

Two runs put side by side what touches no common state, as alternatives of the initial
predicate: `MCPersistence` the snapshot file and the restored history (`exercised` says
which), `MCObservers` the call trace and the register traces (`recorded`). Each part
has the steps of its own specification and leaves the other's variables alone.

Five runs refute something the repository says of itself. Each is a finding in
`PROJECT.json`, with the line it quotes and the code's behaviour:

| run | what is said | what happens |
|---|---|---|
| `history_zero` | capacity 0 disables the history | shrinking an empty history to any capacity disables it too |
| `accounts_close` | programdata accounts are added first | a closed programdata account is no longer recognised; if the program's address comes first the program stays loaded |
| `accounts_sync` | synchronising cannot fail in `send_transaction` | it panics on a writable program that does not load, which a failed `add_program` leaves behind |
| `stake_total` | `epoch_total_stake` is the sum of the configured stakes | a list of `set_epoch_stakes` that names a vote account twice adds both entries to the total, and the map keeps the later one |
| `token_payer` | the default account of `ApproveChecked` and `ThawAccount` is the payer's | it is the authority's, which differs after `owner()` or `multisig()` |

Things worth knowing that contradict nothing written down:

- `process_transaction` unwraps the rent, which a failed `set_account` on that
  sysvar has removed from the cache (`RentMissing`; setting any sysvar repairs
  it), and the account of a program that is cached but was removed with
  `set_account` (`ProgramMissing`);
- a restored VM has neither the programs of `add_builtin` nor custom syscalls;
- a durable nonce transaction that advances a second nonce account sets it from the
  hash of its own message. If both accounts have held one value, the second can get
  back a value it spent before, and the transaction that spent it passes the nonce
  check again once its signature is evicted. `NonceReturnsOnlyThroughAnother` says that
  nothing else brings a spent value back;
- a checked builder given a wallet's address as its mint panics (`OutOfRange`)
  instead of returning an error;
- a trace filter with `!=` can write traces of a transaction the debugger was not
  attached to (`TracedIsDebugged` leaves these filters out), and a contradiction
  of two conditions under `&&` is only seen between conditions that stand side by
  side, so parentheses can change what a filter matches;
- compute units of top level native programs are in the metadata and not in the tree;
  `UnitsDifferByTheNativeOnes` says the difference is exactly theirs.

**Bounds.** `MaxCapacity`, `MaxBlockhash`, `MaxDepth`, `MaxLamports`, `MaxStake`,
`MaxEnvironment`, `MaxTouched`, `MaxBuffers`, `MaxSent`, `MaxCalls`, `MaxHeight`,
`MaxChatter`, `MaxSkipped`, `MaxForeign` and `MaxInvocations` cap what is unbounded
in the code or too large; `CHUNK_SIZE`, `Budget`, `U8Max`, `HistoryLimit`,
`MaxSigners` and `MaxAmount` are the code's own limits, made small.

- Pipeline and replay: enough for one eviction after a capacity change, a nonce
  that is advanced, closed and created again, and a fee that would empty each
  kind of account.
- `MaxTouched` is how many accounts a transaction lists without changing them.
  `MaxEnvironment = 1` gives an old and a new environment.
- `MaxCalls = 3` and `MaxHeight = 3` give siblings and a return by two levels, and
  with two top level programs that can call, calls under either, nested ones under
  the first followed by others under the second; `U8Max = 2` is passed. A line is lost
  in the middle (`MaxSkipped`) in the batch of one instruction only. `MaxForeign = 5`
  is a complete frame, an unclosed one and a line that fits neither.
- `CHUNK_SIZE = 2` with files of length 0, 2, 3, 4 and 5 has no chunk, whole chunks
  only, and a part of one at the end. `MaxBuffers = 2` is a failed call and its retry.
- `MaxSigners = 2` with multisigs of 2 of 2, 0 of 2, 2 of 1 and 1 of 3: one that is
  accepted and one for each reason to refuse.
- `MaxInvocations = 2` is two invocations with the same trace, or one of each kind.

`MCProcessing`, `MCReplay` and `MCTokenBuilders` use views; no action reads what
they leave out.

**Deadlock** is checked except in the `accounts` runs (a panic ends the VM),
`observers` (a transaction ends), and the `tokens` runs and `deployment` (a panic ends
the test).

**Fairness and liveness.** A method of the VM is one step, nothing is queued or
retried, and nothing obliges a test to make another call. The only loop over several
transactions, in `deploy_upgradeable_program`, runs over the chunks of a slice. No
liveness property is stated, and no fairness is assumed.

## What is proved

TLAPS proves these for every value of the constants that the modules' `ASSUME`s
allow (`CapacityAssumption`, `RentAssumption`, `ProcessingAssumption`,
`ReplayAssumption`, `AccountsAssumption`, `DeploymentAssumption`,
`StakeAssumption`, `SnapshotAssumption`, `BuilderAssumption`); TLC evaluates the
assumptions on each instance.

| theorem | module | property |
|---|---|---|
| `HistoryWellFormed`, `HistoryRetention`, `HistoryLookup`, `HistoryDisabled`, `HistoryRoundTrip` | `HistoryProofs` | what `persistence` checks of the history, and the map's shape |
| `ProcessingTypes`, `DrainedPlain`, `SimulationFaithful`, `RentNeverWorsens`, `HistoryFaithful` | `ProcessingProofs` | all of `processing` except `FeeAccounting` |
| `FeesAreAccounted` | `LedgerProofs` | `FeeAccounting` of `processing` |
| `ReplayWindowHolds`, `NoncesReturnThroughOthers` | `LedgerProofs` | both properties of `replay` |
| `AccountsTypes`, `SysvarsFresh`, `SlotIsClock`, `OneRepairsAll`, `CodeIsCurrent`, `RestoredFresh`, `SysvarsLost`, `CacheFallsBehind` | `AccountsProofs` | everything the `accounts` run checks |
| `TotalNeverDrifts`, `OverflowOnlyWhenTooMuch`, `SnapshotsRoundTrip`, `AcknowledgedSavesLoad`, `SavesAreNeverMixed`, `OldFilesLoad` | `SnapshotProofs` | what `persistence` checks of stakes and snapshots |
| `DeploymentTypes`, `PrefixWritten`, `LeftoversCounted`, `DeploymentIsAtomic` | `DeploymentProofs` | everything the `deployment` run checks |
| `BuilderInvariant`, `OnlyFreezersFrozen`, `SignersSuffice`, `OmittedIsTheAuthoritys`, `CreationAllOrNothing` | `TokenProofs` | everything the `tokens` run checks |

`OperatorProofs` has the lemmas that several of them rest on, about sums and about
the history's operators. Every proof module begins with `USE SMTT(60), ZenonT(60)`,
the two largest, `AccountsProofs` and `TokenProofs`, with Zenon first: a leaf takes
well under a second on its own, but tlapm keeps its provers waiting.

*Sums.* `Sum` is a fold, defined by recursion over a set, and the prover has no
induction rule it can instantiate. `SubsetInduction` replaces it: a set of subsets
that contains a finite set whenever it contains all of it but one element contains
everything, because strict inclusion is well founded on the subsets of a finite set.
With it a sum of natural numbers is the size of a set (`SumIsCount`: one pair per
unit of each term), and what sums do is what cardinalities do: change one term
(`SumExcept`), split the domain (`SumSplit`), rename the terms and leave out zeros
(`SumRename`).

*History.* The retention window is not inductive: that the entries of a history
are ordered by age has to be known before an eviction can be shown to hit the
oldest. `HistoryInv` says that entries are distinct, at most as many as the
capacity, and that the age of an entry is at least its distance from the end.

*Pipeline.* `PInv` adds the history's shape to `DrainedAccountsArePlain`. The
core is the lemma `Collectable`: the payer whose loaded copy passed
`validate_fee_payer` passes `withdraw` in the store, because both see the same
account and the same minimum balance. The rent theorem needs the two transitions
(fee, then execution) to compose: execution starts from the rent state recorded
before the fee, not from the one after it.

*Fees.* No invariant beyond `PInv` is needed, but two different sums: `Fail` changes
one balance; `Commit` replaces the balances of the writable accounts, which the
runtime's balance check ties to the charged copies, drops accounts without lamports
and leaves the others alone. Both take exactly the fee.

*Replay.* `RInv` orders the values a nonce account takes, by blockhash and then by
depth. A nonce is never newer than the latest blockhash; a spent value is smaller
than what the account holds, also after it was closed and created again, because
a value can only be spent while it differs from the next durable nonce. The order
breaks for an account that another account's transaction advances, because its new
value is made from the other's; there the record of its spent values ends
(`Bystanders`). `ReplayAssumption` only says that initial nonces are those of the first
blockhash.

*Accounts.* That the caches are fresh is not inductive, because a write that fails
halfway leaves a store from which a later call rebuilds. `AInv` says what that
store still satisfies: every stored sysvar parses, no account is stored without
lamports, and the slot is that of the stored clock. `Good` adds the three
properties of the program cache. `sync_accounts` is a loop over the accounts in an
arbitrary order that stops at the first write that fails, and TLAPS has no
induction over it. Its result is therefore stated by position: the first failing
position exists because the natural numbers are well founded, the accounts before
it are written and the others are not, and an order lists every account because an
injection between finite sets of one size is onto. A deployment by transaction is
reduced to `add_program` (`DeployIsAddProgram`), so that each cache argument is
made once. The step theorems `SysvarsLost` and `CacheFallsBehind` have one lemma
per operation.

*Stakes and snapshots.* The total follows the map because one update changes one term
of the sum; the checked subtraction never fails because a term is at most the sum. A
list sums to its last entries, which make the map (`LastEntries`), and to the entries
they replace (`ListFacts`). The list of a snapshot replaces nothing, as it lists the
VM's map (`ExtractFacts`; that a finite set of addresses can be listed in order is
`EnumerationExists`), and a file whose list names a vote twice is refused. `SInv` says
in addition what the file holds: some version's content or its beginning; while a
save is under way, exactly the units written so far of the VM being saved, which is
borrowed for as long; after an acknowledged save, that snapshot. A load that succeeds
then sees a complete file, since every proper prefix is refused.

*Deployment.* `DInv` says what the helper's local variables mean between two
transactions: the buffer is the code up to the offset and zeros after it, `pc` is
`write` exactly while the offset is inside the code, and addresses that were not
drawn hold nothing. At `deploy` the buffer is thus the whole code, which makes the
last transaction the abstract `Succeed`; every other step is `Begin`, `Fail` or a
stutter.

*Token builders.* That only freezers are frozen is inductive only with an account of
where things can be. `TInv` says it: multisigs exist at drawn keys only, an associated
account is a token account of its mint, nothing is at a key that was not drawn, and no
transaction in the history creates at such a key. The last one is what makes a fresh
key fresh: without it a creation could be answered from the history and leave nothing.
`CreationAllOrNothing` needs it, and from `BuilderAssumption` that keys drawn are
distinct, not held by the test and not associated addresses, which are off the curve.
The three action properties are proved builder by builder: from the fields to the
instruction (its writable accounts, its signers), and from the instruction to what
`Execute` leaves. A creation that draws its key fails only in a constructor or on a
missing mint, and of the constructors only `initialize_multisig2` looks at more than
the program id.

**Only model-checked**: everything about `CpiTree`, `CallTrace` and `TraceFilter`,
which are recursive operators, out of the prover's reach, and about `RegisterTracing`,
which uses them. Induction over data, liveness and `ENABLED` are beyond the prover.

## What is not modelled

- In the pipeline: how address lookup tables are resolved and the loaded data size
  is counted (their failures are faults of a transaction), precompile
  verification, return data.
- In the store: the slot and the authority in programdata (`set_account` can
  rewrite both), feature accounts, the elf lookup for traces.
- In persistence: the wire mirrors of single types. They are copies field by
  field, and the fields are one carried value.
- In the token builders: Token-2022 extensions, which no setter fills.
- In register tracing: the contents of the files beside the program id, and the
  map from programs to hashes.
- The debugger (a client for a stub over TCP that the VM never calls), log
  formatting, tables of features, precompiles and default programs, and the Node
  bindings: nothing in them changes the state of a VM other than through the
  modelled calls.
- Concurrency, because there is none.

## Plan

1. An abstract ledger (balances, included transactions, fees) and the pipeline
   shown to implement it.
2. The loaded data size counter and address lookup tables as parts of `Verdict`.
