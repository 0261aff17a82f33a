-------------------------- MODULE MCRegisterTracing --------------------------
(* A caller, a program it invokes, and the system program.                 *)
EXTENDS RegisterTracing

CONSTANTS A, B, System, S, T, D

MCExecutable == {A, B, System}
MCNoCpi == {System}
MCDigest == {D}

Sent(sig, ixs) == [signatures |-> {sig}, instructions |-> ixs]
Ix(p, accounts) == [program |-> p, accounts |-> accounts]

\* A calls B; A alone; B beside the system program; B handed to the system
\* program only, which never invokes it.
MCTransactions ==
    {Sent(S, <<Ix(A, {B})>>), Sent(T, <<Ix(A, {})>>),
     Sent(S, <<Ix(System, {A}), Ix(B, {})>>), Sent(T, <<Ix(System, {B})>>)}

Conds == {Condition("program_id", "==", A), Condition("program_id", "==", B),
          Condition("program_id", "!=", A), Condition("txsig", "==", S)}

Operators == {Symbol("&&"), Symbol("||")}
Open == Symbol("(")
Close == Symbol(")")

Tokens == Conds \cup Operators \cup {Open, Close, Symbol("other")}

\* Every filter of up to three tokens, and three conditions with every
\* operator and the parentheses in every place, also where they do not match.
MCFilters ==
    UNION {[1..n -> Tokens] : n \in 0..3}
    \cup {<<a, o, b, p, c>> : a, b, c \in Conds, o, p \in Operators}
    \cup {<<Open, a, o, b, Close, p, c>> : a, b, c \in Conds, o, p \in Operators}
    \cup {<<a, o, Open, b, p, c, Close>> : a, b, c \in Conds, o, p \in Operators}
    \cup {<<a, o, Open, b, Close>> : a, b \in Conds, o \in Operators}
    \cup {<<Open, a, Close, o, b, p>> : a, b \in Conds, o, p \in Operators \cup {Close}}

=============================================================================
