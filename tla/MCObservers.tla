----------------------------- MODULE MCObservers -----------------------------
(* What is recorded of an execution, for two readers: the instruction trace *)
(* and the log lines, and the register traces.  The two records share no    *)
(* variable, so that interleaving them would add states and no behaviour of *)
(* either: a behaviour makes one of them, and the other stays as it began.  *)
EXTENDS MCCallTrace, MCRegisterTracing

VARIABLE recorded

ObserversInit ==
    /\ recorded \in {"calls", "registers"}
    /\ Init /\ TracingInit
    /\ recorded = "calls" => filter = <<>>
    /\ recorded = "registers" => message = <<>>

ObserversNext ==
    /\ UNCHANGED recorded
    /\ \/ recorded = "calls" /\ Next /\ UNCHANGED tracingVars
       \/ recorded = "registers" /\ TracingNext /\ UNCHANGED vars

ObserversSpec ==
    ObserversInit /\ [][ObserversNext]_<<recorded, vars, tracingVars>>
=============================================================================
