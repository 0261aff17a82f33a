---------------------------- MODULE HistoryMachine ----------------------------
(***************************************************************************)
(* The transaction history as a state machine: any sequence of             *)
(* add_new_transaction, set_capacity and save/restore (entries(),          *)
(* capacity() and from_entries, used by the persistence crate).            *)
(* Signatures may be recorded again: with signature verification off the   *)
(* pipeline does not consult the history before it records.                *)
(***************************************************************************)
EXTENDS TransactionHistory

VARIABLES
    history,     \* the TransactionHistory value
    requested,   \* the capacity last asked for
    age,         \* history variable: recordings since the entry was created,
                 \* saturating at MaxCapacity (also: no entry was created)
    lastResult   \* history variable: the result last recorded per signature

historyVars == <<history, requested, age, lastResult>>

HistoryInit ==
    /\ history = NewHistory
    /\ requested = DefaultCapacity
    /\ age = [s \in Signature |-> MaxCapacity]
    /\ lastResult \in [Signature -> Result]

Record(s, r) ==
    /\ history' = AddNewTransaction(history, s, r)
    /\ age' = AgesAfterRecord(history, age, s)
    /\ lastResult' = [lastResult EXCEPT ![s] = r]
    /\ UNCHANGED requested

SetTransactionHistory(n) ==
    /\ history' \in SetCapacity(history, n)
    /\ requested' = n
    /\ age' = AgesAfterResize(history', age)
    /\ UNCHANGED lastResult

\* A snapshot of the history is taken and restored.
SaveAndRestore ==
    /\ history' \in FromEntries(history.entries, history.capacity)
    /\ age' = AgesAfterResize(history', age)
    /\ UNCHANGED <<requested, lastResult>>

HistoryNext ==
    \/ \E s \in Signature, r \in Result : IsEnabled(history) /\ Record(s, r)
    \/ \E n \in 0..MaxCapacity : SetTransactionHistory(n)
    \/ SaveAndRestore

HistorySpec == HistoryInit /\ [][HistoryNext]_historyVars

-----------------------------------------------------------------------------
(* Properties.                                                             *)

\* Every variable has its type.
HistoryTypeOK ==
    /\ history \in History
    /\ requested \in 0..MaxCapacity
    /\ age \in Ages
    /\ lastResult \in [Signature -> Result]

\* A history never exceeds its capacity and has one entry per signature, the
\* shape add_new_transaction relies on.
WellFormed == ShapeOK(history)

\* Retention: an entry survives until at least `capacity` further recordings
\* were made (or set_capacity truncated it away).  This is what makes the
\* AlreadyProcessed check meaningful between two blockhash expiries.
RetentionWindow == Retained(history, age)

\* get_transaction never returns a stale result: a signature recorded twice
\* (possible with signature verification off) has its later result.
LookupReturnsLatest ==
    \A s \in Signature : GetTransaction(history, s) \subseteq {lastResult[s]}

\* Disabling: "Setting the transaction history to 0 at any time should disable
\* transaction history" (tests/tx_history.rs): after set_capacity(0) nothing
\* is found and nothing is recorded until a capacity is set again.
DisabledStaysEmpty ==
    requested = 0 => ~IsEnabled(history) /\ history.entries = <<>>

\* A save/restore round trip keeps the entries, their order and results, and
\* never shortens the retention window.
RestoreKeepsHistory ==
    [][SaveAndRestore => /\ history'.entries = history.entries
                         /\ history'.capacity >= history.capacity]_historyVars

\* with_transaction_history: "Set this to 0 to disable transaction history"
\* (lib.rs), so any other capacity leaves the history enabled.
OnlyZeroDisables == requested # 0 => IsEnabled(history)

=============================================================================
