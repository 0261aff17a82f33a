------------------------ MODULE MCProgramDeployment ------------------------
EXTENDS ProgramDeployment

\* Lengths around multiples of the chunk size, with and without repetition;
\* the empty file and <<2, 2>> are no programs.
MCBinaries == {<<>>, <<2, 2>>, <<1, 2, 1>>, <<1, 2, 1, 2>>, <<2, 1, 1, 2, 1>>}
MCLoadable == {<<1, 2, 1>>, <<1, 2, 1, 2>>, <<2, 1, 1, 2, 1>>}
MCRequests ==
  {[payer |-> "alice", program |-> "p", bytes |-> b] : b \in MCBinaries}
    \cup {[payer |-> "bob", program |-> "q", bytes |-> <<1, 2, 1>>]}
=============================================================================
