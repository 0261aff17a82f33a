------------------------------- MODULE Snapshot -------------------------------
(***************************************************************************)
(* Saving a LiteSVM to a file and loading it in another process            *)
(* (crates/persistence).  save_to_file creates the file, which truncates   *)
(* it, serializes, and writes; each step may fail, and the process may die *)
(* between them.  A file is a sequence of units: the version byte, the     *)
(* state, and from version 3 on the epoch stakes.                          *)
(*                                                                         *)
(* Of the VM's fields three are told apart: the stakes of EpochStake, the  *)
(* compute budget (a version 1 budget has two fields that are gone), and   *)
(* what no property can tell apart from its copy, `carried': accounts,     *)
(* airdrop keypair, features, blockhash, history and its capacity, the two *)
(* checks, the fee structure, the log limit.                               *)
(***************************************************************************)
EXTENDS EpochStake

CONSTANTS
    Carried,      \* values of the fields that are carried over unchanged
    Unloadable,   \* those with a program account that rebuild_caches refuses
    Limit,        \* compute unit limits
    ForeignFiles  \* files that this version of the crate did not write

V1_STATE_VERSION == 1
V2_STATE_VERSION == 2
STATE_VERSION == 3

Option(S) == {{}} \cup {{x} : x \in S}

\* The fields of a snapshot besides the stakes; those of a version 1 budget
\* that are gone are one field here.
LiteSvmSnapshotV1 ==
    [carried : Carried,
     compute_budget : Option([limit : Limit, modexp : Limit])]
LiteSvmSnapshotV2 ==
    [carried : Carried, compute_budget : Option([limit : Limit])]

\* A file that this version did not write is empty, holds what its version
\* byte says or the beginning of it, or is of a version nobody knows here.
ForeignFile(f) ==
    f # <<>> =>
    /\ f[1] \in 0..255
    /\ \/ f[1] \notin {V1_STATE_VERSION, V2_STATE_VERSION, STATE_VERSION}
       \/ f = <<f[1]>>
       \/ /\ f = <<f[1], f[2]>>
          /\ f[2] \in IF f[1] = V1_STATE_VERSION THEN LiteSvmSnapshotV1
                                                ELSE LiteSvmSnapshotV2
       \/ /\ f = <<f[1], f[2], f[3]>> /\ f[1] = STATE_VERSION
          /\ f[2] \in LiteSvmSnapshotV2 /\ f[3] \in Seq(Vote \X Stake)

ASSUME SnapshotAssumption ==
    /\ Unloadable \subseteq Carried /\ Vote \subseteq Nat
    /\ \A f \in ForeignFiles : ForeignFile(f)

VARIABLES
    carried, compute_budget,   \* the rest of the VM
    file,       \* {} (no file) or the set of its content
    saving,     \* {} or the set of the units still to write
    outcome,    \* what the last save or load returned
    good        \* history variable: the snapshots a load may find (see below)

vars == <<epoch_vote_stakes, epoch_total_stake, result, asked, replaced,
          askedReplaced, carried, compute_budget, file, saving, outcome, good>>

vm == <<carried, compute_budget, epoch_vote_stakes, epoch_total_stake>>

(***************************************************************************)
(* Taking a snapshot and restoring one.                                    *)
(***************************************************************************)
extract_snapshot_v2 == [carried |-> carried, compute_budget |-> compute_budget]

\* The entries of the map, ordered by vote account.
extract_stakes ==
    LET staked == {v \in Vote : epoch_vote_stakes[v] # 0}
        order == CHOOSE s \in [1..Cardinality(staked) -> staked] :
                    \A i, j \in DOMAIN s : i < j => s[i] < s[j]
    IN  [i \in DOMAIN order |-> <<order[i], epoch_vote_stakes[order[i]]>>]

to_bytes == <<STATE_VERSION, extract_snapshot_v2, extract_stakes>>

migrate_budget_raw(budget) == budget

\* From<ComputeBudgetV1>: the two modular exponentiation fields are dropped.
migrate_budget(budget) == {[limit |-> b.limit] : b \in budget}

Ok(state, stakes) == [is |-> "Ok", state |-> state, stakes |-> stakes]
Err(e) == [is |-> e]

\* The conversions between versions: 1 to 2, and 2 to 3, which had no stakes.
LiteSvmSnapshotV2_from(v1) == [v1 EXCEPT !.compute_budget = migrate_budget(@)]
LiteSvmSnapshotV3_from(v2) == Ok(v2, <<>>)

deserialize_snapshot(bytes) ==
    CASE bytes[1] = V1_STATE_VERSION ->
            IF Len(bytes) < 2 THEN Err("Read")
            ELSE LiteSvmSnapshotV3_from(LiteSvmSnapshotV2_from(bytes[2]))
      [] bytes[1] = V2_STATE_VERSION ->
            IF Len(bytes) < 2 THEN Err("Read")
            ELSE LiteSvmSnapshotV3_from(bytes[2])
      [] bytes[1] = STATE_VERSION ->
            IF Len(bytes) < 3 THEN Err("Read") ELSE Ok(bytes[2], bytes[3])
      [] OTHER -> Err("UnsupportedVersion")

Duplicates(stakes) ==
    \E i, j \in DOMAIN stakes : i # j /\ stakes[i][1] = stakes[j][1]

restore_from_snapshot_strict(s) ==
    IF s.is # "Ok" THEN s
    ELSE IF Duplicates(s.stakes) THEN Err("DuplicateEpochStake")
    ELSE IF ListTotal(s.stakes) >= MaxStake THEN Err("InvalidEpochStakes")
    ELSE IF s.state.carried \in Unloadable THEN Err("CacheRebuild")
    ELSE s

\* The order of the checks: stakes named twice, stakes that overflow, and at
\* the end the programs that rebuild_caches loads.
restore_from_snapshot(s) ==
    IF s.is # "Ok" THEN s
    ELSE IF Duplicates(s.stakes) THEN Err("DuplicateEpochStake")
    ELSE IF ListTotal(s.stakes) > MaxStake THEN Err("InvalidEpochStakes")
    ELSE IF s.state.carried \in Unloadable THEN Err("CacheRebuild")
    ELSE s

from_bytes(bytes) ==
    IF bytes = <<>> THEN Err("EmptyInput")
    ELSE restore_from_snapshot(deserialize_snapshot(bytes))

\* What load_from_file returns now.
load_from_file ==
    IF file = {} THEN Err("Io")
    ELSE from_bytes(CHOOSE bytes \in file : TRUE)

-----------------------------------------------------------------------------
FreshVM ==
    /\ carried' \in Carried \ Unloadable
    /\ compute_budget' = {}
    /\ epoch_vote_stakes' = [v \in Vote |-> 0] /\ epoch_total_stake' = 0

\* `good' holds, for the file's content, the pair of a state and stakes that
\* one snapshot had; none for a file that was never written completely.
Init ==
    /\ StakesInit
    /\ carried \in Carried \ Unloadable /\ compute_budget = {}
    /\ file \in {{}} \cup {{f} : f \in ForeignFiles}
    /\ saving = {} /\ outcome = "Ok"
    /\ good = {}

NoFile == UNCHANGED <<file, saving, good>>
StakesKept == result' = "Ok" /\ Asks(epoch_vote_stakes, replaced)
NoVM == UNCHANGED vm /\ StakesKept

\* The methods of the VM; it is borrowed while it is being saved.
Change ==
    /\ saving = {} /\ NoFile /\ outcome' = "Ok"
    /\ \/ SetStakes /\ UNCHANGED <<carried, compute_budget>>
       \/ /\ \/ carried' \in Carried /\ UNCHANGED compute_budget
             \/ /\ \E l \in Limit : compute_budget' = {[limit |-> l]}
                /\ UNCHANGED carried
          /\ UNCHANGED <<epoch_vote_stakes, epoch_total_stake>> /\ StakesKept

\* File::create without truncation.
CreateInPlace ==
    /\ file' = IF file = {} THEN {<<>>} ELSE file
    /\ saving' = {to_bytes}
    /\ good' = {}

Create ==
    /\ file' = {<<>>}
    /\ saving' = {to_bytes}
    /\ good' = {}

\* save_to_file up to File::create, which may fail and leave the file alone.
SaveBegin ==
    /\ saving = {} /\ NoVM
    /\ \/ Create /\ outcome' = "saving"
       \/ NoFile /\ outcome' = "Io"

\* Units go to the file in order.  (BufWriter decides when; the file shows a
\* prefix of what was handed to it.)
SaveWrite ==
    \E rest \in saving, bytes \in file :
        /\ rest # <<>>
        /\ LET n == Len(to_bytes) - Len(rest) + 1   \* the unit's place
           IN  file' = {[i \in 1..(IF n > Len(bytes) THEN n ELSE Len(bytes)) |->
                            IF i = n THEN Head(rest) ELSE bytes[i]]}
        /\ saving' = {Tail(rest)}
        /\ NoVM /\ UNCHANGED <<outcome, good>>

\* Serialization fails before the first write, a write or the flush later.
SaveFail ==
    /\ saving # {}
    /\ saving' = {}
    /\ outcome' \in IF saving = {to_bytes} THEN {"Write", "Io"} ELSE {"Io"}
    /\ NoVM /\ UNCHANGED <<file, good>>

SaveEndEarly ==
    \E rest \in saving :
        /\ Len(rest) <= 1 /\ saving' = {} /\ outcome' = "Ok"
        /\ good' = {<<extract_snapshot_v2, epoch_vote_stakes>>}
        /\ NoVM /\ UNCHANGED file

SaveEnd ==
    /\ saving = {<<>>}
    /\ saving' = {} /\ outcome' = "Ok"
    /\ good' = {<<extract_snapshot_v2, epoch_vote_stakes>>}
    /\ NoVM /\ UNCHANGED file

\* The process dies, while saving or not; another one starts.
Crash ==
    /\ FreshVM /\ saving' = {} /\ outcome' = "Ok"
    /\ result' = "Ok" /\ Asks([v \in Vote |-> 0], 0)
    /\ UNCHANGED <<file, good>>

Restore(s) ==
    /\ carried' = s.state.carried
    /\ compute_budget' = s.state.compute_budget
    /\ SetEpochStakes(s.stakes)

Load ==
    /\ saving = {} /\ NoFile
    /\ outcome' = load_from_file.is
    /\ IF load_from_file.is = "Ok"
       THEN /\ Restore(load_from_file)
            /\ Asks(ListStakes(load_from_file.stakes), Replaced(load_from_file.stakes))
       ELSE NoVM

Next == Change \/ SaveBegin \/ SaveWrite \/ SaveFail \/ SaveEnd \/ Crash \/ Load

Spec == Init /\ [][Next]_vars

-----------------------------------------------------------------------------
(***************************************************************************)
(* from_bytes(to_bytes(vm)) is the VM: every snapshot that can be taken    *)
(* restores to the same state and stakes, and its stakes are never refused *)
(* as duplicate or overflowing.  The total is computed anew, so it loses   *)
(* what it counted beyond the map.  Only a program that does not load      *)
(* makes a snapshot useless.                                               *)
(***************************************************************************)
BytesRoundTrip ==
    LET s == from_bytes(to_bytes)
    IN  IF carried \in Unloadable THEN s.is = "CacheRebuild"
        ELSE /\ s.is = "Ok" /\ s.state = extract_snapshot_v2
             /\ ListStakes(s.stakes) = epoch_vote_stakes
             /\ ListTotal(s.stakes) = epoch_total_stake - replaced

(***************************************************************************)
(* A save that returned Ok is what a later process loads, after any number *)
(* of crashes, failed loads and changes of the VM, until the next save     *)
(* creates the file.                                                       *)
(***************************************************************************)
AcknowledgedSaveLoads ==
    \A g \in good :
        IF g[1].carried \in Unloadable THEN load_from_file.is = "CacheRebuild"
        ELSE /\ load_from_file.is = "Ok" /\ load_from_file.state = g[1]
             /\ ListStakes(load_from_file.stakes) = g[2]

(***************************************************************************)
(* While a snapshot is written, by another process for whoever reads the   *)
(* file, a load finds either all of it or an error: never a VM made of     *)
(* this snapshot and the one before, at whatever step the save stands.     *)
(***************************************************************************)
NoMixtureWhileSaving ==
    saving # {} /\ load_from_file.is = "Ok" =>
        /\ load_from_file.state = extract_snapshot_v2
        /\ ListStakes(load_from_file.stakes) = epoch_vote_stakes

(***************************************************************************)
(* Files of the older versions load into a VM of today: the state is the   *)
(* one saved, a budget keeps its limit and has only today's fields, there  *)
(* are no stakes.                                                          *)
(***************************************************************************)
OldVersionsLoad ==
    \A bytes \in file :
        /\ Len(bytes) = 2
        /\ bytes[1] \in {V1_STATE_VERSION, V2_STATE_VERSION}
        => \/ load_from_file.is = "CacheRebuild"
           \/ /\ load_from_file.is = "Ok" /\ load_from_file.stakes = <<>>
              /\ load_from_file.state.carried = bytes[2].carried
              /\ load_from_file.state.compute_budget
                    \in {{}} \cup {{[limit |-> l]} : l \in Limit}
              /\ {b.limit : b \in load_from_file.state.compute_budget}
                    = {b.limit : b \in bytes[2].compute_budget}

=============================================================================
