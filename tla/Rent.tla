--------------------------------- MODULE Rent ---------------------------------
(***************************************************************************)
(* The rent rules of crates/litesvm/src/utils/rent.rs: the rent state of   *)
(* an account and the transitions a transaction may make between them.     *)
(* The Rent sysvar enters as MinimumBalance, the rent-exempt minimum for   *)
(* each data size: lamports_per_byte and the threshold are only used       *)
(* through it.                                                             *)
(***************************************************************************)
EXTENDS Integers

CONSTANTS
    Size,            \* the data lengths accounts can have
    MinimumBalance,  \* Rent::minimum_balance, for each size
    Incinerator      \* the address whose balance is exempt from the rules

ASSUME RentAssumption ==
    /\ Size \subseteq Nat
    /\ 0 \in Size
    /\ MinimumBalance \in [Size -> Nat]

RentState ==
    [state : {"Uninitialized", "RentExempt"}]
        \cup [state : {"RentPaying"}, lamports : Nat, data_size : Size]

\* Rent::is_exempt.
IsExempt(lamports, size) == lamports >= MinimumBalance[size]

GetAccountRentState(lamports, size) ==
    CASE lamports = 0 -> [state |-> "Uninitialized"]
      [] lamports # 0 /\ IsExempt(lamports, size) -> [state |-> "RentExempt"]
      [] OTHER -> [state |-> "RentPaying",
                   lamports |-> lamports, data_size |-> size]

\* A rent-paying account can only have been rent paying before, with the same
\* size and no smaller a balance.
TransitionAllowed(pre, post) ==
    post.state = "RentPaying" =>
        /\ pre.state = "RentPaying"
        /\ post.data_size = pre.data_size
        /\ post.lamports <= pre.lamports

CheckRentStateWithAccount(pre, post, address) ==
    address = Incinerator \/ TransitionAllowed(pre, post)

=============================================================================
