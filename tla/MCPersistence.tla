---------------------------- MODULE MCPersistence ----------------------------
(* What a process leaves to the next one: snapshots, and the transaction   *)
(* history as it is saved and restored.  The two share no variable, so     *)
(* that interleaving them would add states and no behaviour of either: a   *)
(* behaviour exercises one of them, and the other stays as it began.       *)
EXTENDS MCSnapshot, MCHistory

VARIABLE exercised

PersistenceInit ==
    /\ exercised \in {"snapshot", "history"}
    /\ Init /\ HistoryInit
    /\ exercised = "history" => file = {}
    /\ exercised = "snapshot" =>
           lastResult = [s \in Signature |-> CHOOSE r \in Result : TRUE]

PersistenceNext ==
    /\ UNCHANGED exercised
    /\ \/ exercised = "snapshot" /\ Next /\ UNCHANGED historyVars
       \/ exercised = "history" /\ HistoryNext /\ UNCHANGED vars

PersistenceSpec ==
    PersistenceInit /\ [][PersistenceNext]_<<exercised, vars, historyVars>>
=============================================================================
