---------------------------- MODULE MCAccountsDb -----------------------------
(* The accounts store and its caches on a small instance: one upgradeable    *)
(* program, and one whose account holds its code, whose address is also      *)
(* given to add_builtin.                                                     *)
EXTENDS AccountsDb, TLC

CONSTANTS clock, rent, p3, d3, p2, v0, v1, e1, e2

MCProgramData == p3 :> d3

Acc(k, x, l) == [kind |-> k, body |-> x, lamports |-> l]

\* Sysvars with and without lamports and with data that does not parse;
\* program accounts set directly, emptied or holding code that does not load;
\* programdata replaced or destroyed behind the program's back.
MCSetAccountInputs ==
    {<<clock, Acc("plain", Unset, 1)>>, <<rent, Acc("plain", Unset, 1)>>,
     <<clock, Acc("sysvar", v1, 0)>>, <<rent, Acc("sysvar", v1, 0)>>,
     <<p3, Acc("program", Unset, 1)>>, <<p2, Acc("plain", Unset, 0)>>,
     <<p2, Acc("loader", BadElf, 1)>>, <<d3, Acc("plain", Unset, 1)>>}
        \cup {<<p2, Acc("loader", e, 0)>> : e \in Elf}
        \cup {<<d3, Acc("programdata", e, 1)>> : e \in Elf}

Symmetry == Permutations({e1, e2})

=============================================================================
