----------------------------- MODULE MCSnapshot -----------------------------
EXTENDS Snapshot

\* Every list of at most two entries, the same vote account twice included.
MCStakeLists == UNION {[1..n -> Vote \X Stake] : n \in 0..2}

MCCarried == {"plain", "broken program"}
MCUnloadable == {"broken program"}

State(c, budget) == [carried |-> c, compute_budget |-> budget]

\* Older versions, a version from the future, stakes that no VM can have.
MCForeignFiles ==
    {<<1, State("plain", {[limit |-> 1, modexp |-> 1]})>>,
     <<1, State("broken program", {})>>,
     <<2, State("plain", {[limit |-> 1]})>>, <<2>>,
     <<4, State("plain", {}), <<>>>>,
     <<3, State("plain", {}), <<<<1, 1>>, <<1, 2>>>>>>,
     <<3, State("plain", {}), <<<<1, 2>>, <<2, 1>>>>>>}
=============================================================================
