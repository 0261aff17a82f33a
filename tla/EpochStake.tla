------------------------------ MODULE EpochStake ------------------------------
(***************************************************************************)
(* The epoch stakes a test configures (crates/litesvm/src/lib.rs:          *)
(* set_epoch_stake, set_epoch_stakes, epoch_stake, epoch_total_stake).     *)
(* The total is kept beside the map and updated incrementally, with        *)
(* checked u64 arithmetic.  Snapshot adds what a snapshot does to them.    *)
(***************************************************************************)
EXTENDS Integers, Sequences, FiniteSets, Sums

CONSTANTS
    Vote,        \* the vote accounts
    MaxStake,    \* u64::MAX
    StakeLists   \* the arguments of set_epoch_stakes

Stake == 0..MaxStake

ASSUME StakeAssumption ==
    /\ MaxStake \in Nat /\ IsFiniteSet(Vote)
    /\ StakeLists \subseteq Seq(Vote \X Stake)

VARIABLES
    epoch_vote_stakes,  \* 0: no entry, entries of zero are never stored
    epoch_total_stake,
    result,             \* what the last call returned
    asked,              \* history variable: the stakes it asked for
    replaced,           \* history variables: what the total counts beyond the
    askedReplaced       \* map, and would have after the last call

StakesInit ==
    /\ epoch_vote_stakes = [v \in Vote |-> 0]
    /\ epoch_total_stake = 0
    /\ result = "Ok"
    /\ asked = epoch_vote_stakes
    /\ replaced = 0 /\ askedReplaced = 0

\* The call returns EpochStakeOverflow and changes nothing.
Overflow ==
    /\ result' = "EpochStakeOverflow"
    /\ UNCHANGED <<epoch_vote_stakes, epoch_total_stake>>

Store(stakes, total) ==
    /\ epoch_vote_stakes' = stakes
    /\ epoch_total_stake' = total
    /\ result' = "Ok"

\* A plausible slip: the new stake is added before the previous one is taken
\* off the total.
SetEpochStake_AddFirst(v, stake) ==
    LET total == epoch_total_stake + stake - epoch_vote_stakes[v]
    IN  IF epoch_total_stake + stake > MaxStake
        THEN Overflow
        ELSE Store([epoch_vote_stakes EXCEPT ![v] = stake], total)

\* A plausible slip: an overwritten stake stays in the total.
SetEpochStake_KeepPrevious(v, stake) ==
    LET total == epoch_total_stake + stake
    IN  IF total > MaxStake
        THEN Overflow
        ELSE Store([epoch_vote_stakes EXCEPT ![v] = stake], total)

\* The checked subtraction comes first; it and the checked addition are the
\* only ways to fail.  A vacant entry has nothing to subtract.
SetEpochStake(v, stake) ==
    LET total == epoch_total_stake - epoch_vote_stakes[v] + stake
    IN  IF epoch_vote_stakes[v] > epoch_total_stake \/ total > MaxStake
        THEN Overflow
        ELSE Store([epoch_vote_stakes EXCEPT ![v] = stake], total)

ListTotal(list) == Sum([i \in DOMAIN list |-> list[i][2]])

\* The positions of the entries for v that are not dropped.
Positions(list, v) == {i \in DOMAIN list : list[i][1] = v /\ list[i][2] # 0}

\* Later entries for a vote account replace earlier ones in the map.
ListStakes(list) ==
    [v \in Vote |->
        IF Positions(list, v) = {} THEN 0
        ELSE list[CHOOSE i \in Positions(list, v) :
                     \A j \in Positions(list, v) : j <= i][2]]

\* The new map and the new total are built aside and replace the old ones
\* when the whole list is read; the total counts every entry of the list.
SetEpochStakes(list) ==
    IF ListTotal(list) > MaxStake
    THEN Overflow
    ELSE Store(ListStakes(list), ListTotal(list))

\* What the entries of a list sum to that a later one replaces.
Replaced(list) ==
    LET old == {i \in DOMAIN list : \E j \in Positions(list, list[i][1]) : j > i}
    IN  Sum([i \in old |-> list[i][2]])

\* The history variables for a call that asks for these stakes.
Asks(stakes, surplus) ==
    /\ asked' = stakes
    /\ askedReplaced' = surplus
    /\ replaced' = IF result' = "Ok" THEN surplus ELSE replaced

SetStakes ==
    \/ \E v \in Vote, stake \in Stake :
          /\ SetEpochStake(v, stake)
          /\ Asks([epoch_vote_stakes EXCEPT ![v] = stake], replaced)
    \/ \E list \in StakeLists :
          /\ SetEpochStakes(list)
          /\ Asks(ListStakes(list), Replaced(list))

-----------------------------------------------------------------------------
(* Properties.                                                             *)

\* epoch_total_stake: "Returns the total epoch stake (sum of all configured
\* vote stakes)".  It is not, after set_epoch_stakes was given a list that
\* names a vote account twice.
TotalIsSum == epoch_total_stake = Sum(epoch_vote_stakes)

\* The incrementally updated total never drifts from the map: it exceeds the
\* sum by what the last list given to set_epoch_stakes held in entries that a
\* later entry replaced, through every later set_epoch_stake, and a list that
\* names each vote account once makes it the sum again.
TotalCountsReplaced ==
    epoch_total_stake = Sum(epoch_vote_stakes) + replaced

\* A call fails exactly when the stakes it asks for, with those that a list
\* counts twice, sum to more than u64::MAX: replacing a stake near the limit
\* by a smaller or equal one never fails.
OverflowIsExact ==
    result = "EpochStakeOverflow" <=> Sum(asked) + askedReplaced > MaxStake

=============================================================================
