----------------------------- MODULE MCCallTrace -----------------------------
EXTENDS CallTrace

\* A BPF program, a native one, a precompile.
MCBpf == {"app"}
MCNative == {"system"}
MCPrecompile == {"ed25519"}
MCAddress == MCBpf \cup MCNative \cup MCPrecompile

\* Lines from elsewhere; one program, with lines lost in between; and two BPF
\* instructions after a precompile and a native one, each of which calls.
MCBatches == {<<>>, <<"app">>, <<"ed25519", "system", "app", "app">>}
MCMaxSkipped == [m \in MCBatches |-> IF m = <<"app">> THEN 1 ELSE 0]

MCChatter == {Line("log", "hello", {})}

MCForeignLines ==
    {Line("invoke", "app", {1}), Line("invoke", "app", {}),
     Line("invoke", "nobody", {1}),
     Line("success", "app", {}), Line("failed", "lib", {}),
     Line("consumed", "app", {[consumed |-> 1, available_at_start |-> 2]}),
     Line("instruction", "Swap", {}), Line("data", "event", {})}
=============================================================================
