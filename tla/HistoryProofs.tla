----------------------------- MODULE HistoryProofs -----------------------------
(***************************************************************************)
(* Proofs about the transaction history, for any sets of signatures and    *)
(* results and any capacities.  The shape of the history (WellFormed) and  *)
(* the retention window are proved together: the window is inductive only  *)
(* with AgeBound, which says that the entry at position i has seen at      *)
(* least as many recordings as there are entries behind it.                *)
(***************************************************************************)
EXTENDS HistoryMachine, OperatorProofs

\* Time for the provers on a busy machine; most leaves need a fraction.
USE SMTT(60), ZenonT(60)

\* Every entry of the history holds the result last recorded for it.
EntriesAreLatest ==
    \A i \in DOMAIN history.entries :
        history.entries[i].result = lastResult[history.entries[i].signature]

\* The inductive invariant.
IInv ==
    /\ HistoryInv(history, age)
    /\ requested \in 0..MaxCapacity
    /\ lastResult \in [Signature -> Result]
    /\ EntriesAreLatest
    /\ DisabledStaysEmpty

\* The inductive invariant implies what the runs check.
LEMMA IInvImplies ==
    IInv => HistoryTypeOK /\ WellFormed /\ RetentionWindow /\ LookupReturnsLatest
<1>1. IInv => HistoryTypeOK /\ WellFormed /\ RetentionWindow
  BY DEF IInv, HistoryInv, HistoryTypeOK, WellFormed, RetentionWindow
<1>2. IInv => LookupReturnsLatest
  BY DEF IInv, EntriesAreLatest, LookupReturnsLatest, GetTransaction
<1>. QED  BY <1>1, <1>2

\* A new history satisfies the invariant.
LEMMA InitIInv == HistoryInit => IInv
<1> SUFFICES ASSUME HistoryInit PROVE IInv
  OBVIOUS
<1>1. HistoryInv(history, age)
  BY NewHistoryInv DEF HistoryInit
<1>2. requested \in 0..MaxCapacity /\ lastResult \in [Signature -> Result]
  BY CapacityAssumption DEF HistoryInit
<1>3. history.entries = <<>> /\ history.capacity = requested
  BY DEF HistoryInit, NewHistory
<1>4. EntriesAreLatest /\ DisabledStaysEmpty
  BY <1>3 DEF EntriesAreLatest, DisabledStaysEmpty, IsEnabled
<1>. QED  BY <1>1, <1>2, <1>4 DEF IInv

\* Recording a transaction keeps the invariant.
LEMMA RecordIInv ==
    ASSUME IInv, NEW s \in Signature, NEW r \in Result,
           IsEnabled(history), Record(s, r)
    PROVE  IInv'
<1>1. /\ history' = AddNewTransaction(history, s, r)
      /\ age' = AgesAfterRecord(history, age, s)
      /\ lastResult' = [lastResult EXCEPT ![s] = r] /\ requested' = requested
  BY DEF Record
<1>2. HistoryInv(history, age) /\ lastResult \in [Signature -> Result]
  BY DEF IInv
<1>3. HistoryInv(history', age') /\ history'.capacity = history.capacity
  BY <1>1, <1>2, RecordInv
<1>4. requested' \in 0..MaxCapacity /\ lastResult' \in [Signature -> Result]
  BY <1>1 DEF IInv
<1>5. EntriesAreLatest'
  <2> SUFFICES ASSUME NEW i \in DOMAIN history'.entries
               PROVE  history'.entries[i].result
                        = lastResult'[history'.entries[i].signature]
    BY DEF EntriesAreLatest
  <2>1. history \in History /\ ShapeOK(history)
    BY <1>2 DEF HistoryInv
  <2>2. \/ history'.entries[i] = [signature |-> s, result |-> r]
        \/ /\ history'.entries[i].signature # s
           /\ \E j \in DOMAIN history.entries :
                 history'.entries[i] = history.entries[j]
    BY <1>1, <2>1, RecordEntries
  <2>3. CASE history'.entries[i] = [signature |-> s, result |-> r]
    BY <1>1, <1>2, <2>3
  <2>4. ASSUME NEW j \in DOMAIN history.entries,
               history'.entries[i] = history.entries[j],
               history'.entries[i].signature # s
        PROVE  history'.entries[i].result
                 = lastResult'[history'.entries[i].signature]
    <3>1. history.entries[j].result = lastResult[history.entries[j].signature]
      BY DEF IInv, EntriesAreLatest
    <3>2. history.entries[j].signature \in Signature
      <4>1. history.entries \in Seq(Entry)
        BY <2>1 DEF History
      <4>2. history.entries[j] \in Entry
        BY <4>1
      <4>. QED  BY <4>2 DEF Entry
    <3>. QED  BY <1>1, <1>2, <2>4, <3>1, <3>2
  <2>. QED  BY <2>2, <2>3, <2>4
<1>6. DisabledStaysEmpty'
  BY <1>1 DEF IInv, DisabledStaysEmpty
<1>. QED  BY <1>3, <1>4, <1>5, <1>6 DEF IInv

\* with_transaction_history keeps the invariant; a capacity of zero empties
\* the history.
LEMMA SetTransactionHistoryIInv ==
    ASSUME IInv, NEW n \in 0..MaxCapacity, SetTransactionHistory(n)
    PROVE  IInv'
<1>1. /\ history' \in SetCapacity(history, n) /\ requested' = n
      /\ age' = AgesAfterResize(history', age) /\ lastResult' = lastResult
  BY DEF SetTransactionHistory
<1>2. /\ HistoryInv(history, age)
      /\ history \in History /\ Len(history.entries) <= history.capacity
  BY DEF IInv, HistoryInv, ShapeOK
<1>3. HistoryInv(history', age')
  BY <1>1, <1>2, SetCapacityInv
<1>4. history' \in History /\ Len(history'.entries) <= Len(history.entries)
      /\ \A i \in 1..Len(history'.entries) :
            history'.entries[i] = history.entries[i]
  BY <1>1, <1>2, SetCapacityFacts
<1>5. EntriesAreLatest'
  <2> DEFINE es == history.entries
             new == history'.entries
  <2>1. es \in Seq(Entry) /\ new \in Seq(Entry)
    BY <1>2, <1>4 DEF History
  <2>2. Len(new) <= Len(es) /\ \A i \in 1..Len(new) : new[i] = es[i]
    BY <1>4
  <2>3. \A i \in DOMAIN es : es[i].result = lastResult[es[i].signature]
    BY DEF IInv, EntriesAreLatest
  <2>. HIDE DEF es, new
  <2>4. DOMAIN es = 1..Len(es) /\ DOMAIN new = 1..Len(new)
        /\ Len(es) \in Nat /\ Len(new) \in Nat
    BY <2>1
  <2>5. \A i \in DOMAIN new : new[i].result = lastResult[new[i].signature]
    BY <2>2, <2>3, <2>4
  <2>. QED  BY <1>1, <2>5 DEF EntriesAreLatest, new
<1>6. DisabledStaysEmpty'
  <2> SUFFICES ASSUME n = 0
               PROVE  history'.capacity = 0 /\ history'.entries = <<>>
    BY <1>1 DEF DisabledStaysEmpty, IsEnabled
  <2>1. history.entries \in Seq(Entry) /\ history.capacity \in Nat
    BY <1>2, CapacityAssumption DEF History
  <2>2. Truncate(history.entries, 0) = <<>>
    BY <2>1 DEF Truncate
  <2>3. history' = [capacity |-> Len(Truncate(history.entries, 0)),
                    entries |-> Truncate(history.entries, 0)]
    BY <1>1, <2>1 DEF SetCapacity
  <2>. QED  BY <2>2, <2>3
<1>. QED  BY <1>1, <1>3, <1>5, <1>6 DEF IInv

\* What from_entries gives back.
LEMMA RestoreFacts ==
    ASSUME IInv, SaveAndRestore
    PROVE  /\ history' \in History
           /\ Len(history'.entries) <= history'.capacity
           /\ history'.entries = history.entries
           /\ history'.capacity >= history.capacity
<1> DEFINE es == history.entries
           h0 == [capacity |-> Len(es), entries |-> es]
           n == history.capacity
<1>1. /\ es \in Seq(Entry) /\ n \in 0..MaxCapacity /\ Len(es) <= n
      /\ MaxCapacity \in Nat
  BY CapacityAssumption DEF IInv, HistoryInv, ShapeOK, History
<1>2. h0 \in History /\ h0.capacity = Len(es) /\ h0.entries = es
  BY <1>1 DEF History
<1>3. history' \in SetCapacity(h0, n)
  BY DEF SaveAndRestore, FromEntries
<1>4. /\ history' \in History
      /\ Len(history'.entries) <= history'.capacity
      /\ history'.entries = es
  BY <1>1, <1>2, <1>3, SetCapacityFacts
<1>5. history'.capacity >= n
  <2>1. CASE n <= Len(es)
    BY <1>1, <1>4, <2>1 DEF History
  <2>2. CASE n > Len(es)
    <3>1. PICK c \in CapacitiesAfterReserve(h0, n - h0.capacity) :
              history' = [h0 EXCEPT !.capacity = c]
      BY <1>1, <1>2, <1>3, <2>2 DEF SetCapacity
    <3>2. c >= n
      BY <1>1, <1>2, <2>2 DEF CapacitiesAfterReserve
    <3>. QED  BY <1>2, <3>1, <3>2
  <2>. QED  BY <1>1, <2>1, <2>2
<1>. QED  BY <1>4, <1>5

\* A save/restore round trip keeps the invariant.
LEMMA SaveAndRestoreIInv ==
    ASSUME IInv, SaveAndRestore
    PROVE  IInv'
<1>1. /\ history' \in History
      /\ Len(history'.entries) <= history'.capacity
      /\ history'.entries = history.entries
  BY RestoreFacts
<1>2. /\ age' = AgesAfterResize(history', age) /\ requested' = requested
      /\ lastResult' = lastResult
  BY DEF SaveAndRestore
<1>3. Len(history'.entries) <= Len(history.entries)
  BY <1>1 DEF History
<1>4. HistoryInv(history', age')
  BY <1>1, <1>2, <1>3, PrefixInv DEF IInv
<1>5. EntriesAreLatest'
  BY <1>1, <1>2 DEF IInv, EntriesAreLatest
<1>6. DisabledStaysEmpty'
  <2> SUFFICES ASSUME requested = 0
               PROVE  history'.capacity = 0 /\ history'.entries = <<>>
    BY <1>2 DEF DisabledStaysEmpty, IsEnabled
  <2>1. history.entries = <<>> /\ history.capacity = 0
    BY DEF IInv, DisabledStaysEmpty, IsEnabled
  <2>2. FromEntries(<<>>, 0) = SetCapacity([capacity |-> 0, entries |-> <<>>], 0)
    BY DEF FromEntries
  <2>3. SetCapacity([capacity |-> 0, entries |-> <<>>], 0)
          = {[capacity |-> 0, entries |-> <<>>]}
    BY DEF SetCapacity, Truncate
  <2>4. history' = [capacity |-> 0, entries |-> <<>>]
    BY <2>1, <2>2, <2>3 DEF SaveAndRestore
  <2>. QED  BY <2>4
<1>. QED  BY <1>2, <1>4, <1>5, <1>6 DEF IInv

\* Every step keeps the invariant.
LEMMA NextIInv == IInv /\ [HistoryNext]_historyVars => IInv'
<1> SUFFICES ASSUME IInv, [HistoryNext]_historyVars PROVE IInv'
  OBVIOUS
<1>1. ASSUME NEW s \in Signature, NEW r \in Result,
             IsEnabled(history), Record(s, r)
      PROVE  IInv'
  BY <1>1, RecordIInv
<1>2. ASSUME NEW n \in 0..MaxCapacity, SetTransactionHistory(n)
      PROVE  IInv'
  BY <1>2, SetTransactionHistoryIInv
<1>3. CASE SaveAndRestore
  BY <1>3, SaveAndRestoreIInv
<1>4. CASE UNCHANGED historyVars
  <2>1. history' = history /\ age' = age /\ requested' = requested
        /\ lastResult' = lastResult
    BY <1>4 DEF historyVars
  <2>. QED  BY <2>1 DEF IInv, EntriesAreLatest, DisabledStaysEmpty
<1>. QED  BY <1>1, <1>2, <1>3, <1>4 DEF HistoryNext

-----------------------------------------------------------------------------
(* The results.                                                            *)

\* The history always has its types, its capacity and its unique keys:
\* history.rs never lets the map exceed the capacity it compares against.
THEOREM HistoryWellFormed == HistorySpec => [](HistoryTypeOK /\ WellFormed)
<1>. QED  BY IInvImplies, InitIInv, NextIInv, PTL DEF HistorySpec

\* add_new_transaction drops no entry before `capacity` further recordings,
\* for any interleaving with set_capacity and save/restore.
THEOREM HistoryRetention == HistorySpec => []RetentionWindow
<1>. QED  BY IInvImplies, InitIInv, NextIInv, PTL DEF HistorySpec

\* get_transaction returns the result recorded last for a signature.
THEOREM HistoryLookup == HistorySpec => []LookupReturnsLatest
<1>. QED  BY IInvImplies, InitIInv, NextIInv, PTL DEF HistorySpec

\* After set_capacity(0) the history stays empty until a capacity is set.
THEOREM HistoryDisabled == HistorySpec => []DisabledStaysEmpty
<1>1. IInv => DisabledStaysEmpty
  BY DEF IInv
<1>. QED  BY <1>1, InitIInv, NextIInv, PTL DEF HistorySpec

\* from_entries gives back every entry and at least the saved capacity.
THEOREM HistoryRoundTrip == HistorySpec => RestoreKeepsHistory
<1>1. IInv /\ [HistoryNext]_historyVars =>
        [SaveAndRestore => /\ history'.entries = history.entries
                           /\ history'.capacity >= history.capacity]_historyVars
  BY RestoreFacts
<1>. QED  BY <1>1, InitIInv, NextIInv, PTL DEF HistorySpec, RestoreKeepsHistory

=============================================================================
