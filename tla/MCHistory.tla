------------------------------- MODULE MCHistory -------------------------------
(* The transaction history on a small instance.                              *)
EXTENDS HistoryMachine, TLC

\* Signatures are interchangeable; results stay distinct.
Symmetry == Permutations(Signature)

=============================================================================
