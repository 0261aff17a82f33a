------------------------- MODULE TransactionHistory -------------------------
(***************************************************************************)
(* The transaction history of crates/litesvm/src/history.rs: an insertion  *)
(* ordered map from signatures to results (an IndexMap) whose ALLOCATED    *)
(* capacity doubles as the configured limit.  The module holds the         *)
(* operations as operators on a record                                     *)
(*                                                                         *)
(*    [capacity |-> the map's capacity(),                                  *)
(*     entries  |-> the sequence of <<signature, result>> records, oldest  *)
(*                  first]                                                 *)
(*                                                                         *)
(* so that both the state machine of the history alone (HistoryMachine)    *)
(* and the transaction pipeline (TransactionProcessing) use the same ones. *)
(***************************************************************************)
EXTENDS Integers, Sequences

CONSTANTS
    Signature,        \* the signatures a transaction can carry
    Result,           \* the results send_transaction can return
    DefaultCapacity,  \* the capacity of a new history (32 in the code)
    MaxCapacity       \* bound: the largest capacity the allocator gives

ASSUME CapacityAssumption ==
    /\ DefaultCapacity \in Nat
    /\ MaxCapacity \in Nat
    /\ DefaultCapacity <= MaxCapacity

Entry == [signature : Signature, result : Result]

History == [capacity : 0..MaxCapacity, entries : Seq(Entry)]

-----------------------------------------------------------------------------
(* IndexMap, the library type behind the history, as history.rs uses it.   *)

\* Position of a key, and membership of a key.
HasKey(entries, s) == \E i \in DOMAIN entries : entries[i].signature = s

\* IndexMap::insert: the value of a present key is replaced in place, a new
\* key goes to the end.
Insert(entries, s, r) ==
    LET e == [signature |-> s, result |-> r]
    IN  IF HasKey(entries, s)
        THEN [i \in DOMAIN entries |->
                 IF entries[i].signature = s THEN e ELSE entries[i]]
        ELSE Append(entries, e)

\* IndexMap::truncate keeps the first n entries, that is the oldest ones.
Truncate(entries, n) ==
    IF n < Len(entries) THEN SubSeq(entries, 1, n) ELSE entries

\* IndexMap::reserve(additional) does nothing while the spare capacity is
\* large enough, and otherwise allocates room for AT LEAST that many more
\* entries: how many is up to the hash table and the allocator.
CapacitiesAfterReserve(h, additional) ==
    IF additional <= h.capacity - Len(h.entries)
    THEN {h.capacity}
    ELSE {c \in 0..MaxCapacity : c >= Len(h.entries) + additional}

-----------------------------------------------------------------------------
(* The operations of history.rs.                                           *)

NewHistory == [capacity |-> DefaultCapacity, entries |-> <<>>]

IsEnabled(h) == h.capacity # 0

CheckTransaction(h, s) == HasKey(h.entries, s)

\* The results get_transaction(s) can return: at most one.
GetTransaction(h, s) ==
    {h.entries[i].result :
        i \in {j \in DOMAIN h.entries : h.entries[j].signature = s}}

\* A plausible slip: swap_remove_index(0) instead of shift_remove_index(0).
SwapRemoveFirst(entries) ==
    IF Len(entries) = 1
    THEN <<>>
    ELSE <<entries[Len(entries)]>> \o SubSeq(entries, 2, Len(entries) - 1)

AddNewTransaction_SwapRemove(h, s, r) ==
    IF h.capacity = 0
    THEN h
    ELSE [h EXCEPT !.entries =
             Insert(IF Len(h.entries) = h.capacity
                    THEN SwapRemoveFirst(h.entries) ELSE h.entries, s, r)]

\* A plausible slip: keep the first result of a signature
\* (entry(signature).or_insert(result)).
AddNewTransaction_OrInsert(h, s, r) ==
    IF h.capacity = 0 \/ HasKey(h.entries, s)
    THEN h
    ELSE [h EXCEPT !.entries =
             Append(IF Len(h.entries) = h.capacity
                    THEN Tail(h.entries) ELSE h.entries,
                    [signature |-> s, result |-> r])]

\* A full history drops its oldest entry before the insertion, whether or
\* not the signature is already present.
AddNewTransaction(h, s, r) ==
    IF h.capacity = 0
    THEN h
    ELSE [h EXCEPT !.entries =
             Insert(IF Len(h.entries) = h.capacity
                    THEN Tail(h.entries) ELSE h.entries, s, r)]

\* A plausible slip: truncate without shrink_to_fit.
SetCapacity_NoShrink(h, n) ==
    IF n <= h.capacity
    THEN {[h EXCEPT !.entries = Truncate(h.entries, n)]}
    ELSE {[h EXCEPT !.capacity = c] :
             c \in CapacitiesAfterReserve(h, n - h.capacity)}

\* The histories set_capacity(n) can leave.  Asking for no more than the
\* current capacity truncates and then shrinks the allocation to the number
\* of entries left, which may be less than n.
SetCapacity(h, n) ==
    IF n <= h.capacity
    THEN LET kept == Truncate(h.entries, n)
         IN  {[capacity |-> Len(kept), entries |-> kept]}
    ELSE {[h EXCEPT !.capacity = c] :
             c \in CapacitiesAfterReserve(h, n - h.capacity)}

\* A plausible slip: restore the entries and forget the saved capacity.
FromEntries_NoCapacity(entries, n) ==
    {[capacity |-> Len(entries), entries |-> entries]}

\* from_entries: the restored entries are collected into a map with exactly
\* their number as capacity, then the saved capacity is set.
FromEntries(entries, n) ==
    SetCapacity([capacity |-> Len(entries), entries |-> entries], n)

-----------------------------------------------------------------------------
(* The promises of the operations, stated for any history h.               *)

\* The shape add_new_transaction relies on: its test len() == capacity is an
\* equality, so a history that once exceeded its capacity would never evict
\* again, and one signature never has two entries.
ShapeOK(h) ==
    /\ Len(h.entries) <= h.capacity
    /\ \A i, j \in DOMAIN h.entries :
          h.entries[i].signature = h.entries[j].signature => i = j

\* Ages count the recordings made since an entry was created.  They saturate
\* at MaxCapacity, which also stands for "no entry".
Ages == [Signature -> 0..MaxCapacity]

Older(n) == IF n < MaxCapacity THEN n + 1 ELSE MaxCapacity

AgesAfterRecord(h, age, s) ==
    [t \in Signature |-> IF t = s /\ ~CheckTransaction(h, s)
                         THEN 0 ELSE Older(age[t])]

\* When the capacity changes to leave the history h, signatures without an
\* entry count as never recorded: room gained later does not bring them back.
AgesAfterResize(h, age) ==
    [t \in Signature |-> IF CheckTransaction(h, t) THEN age[t] ELSE MaxCapacity]

\* An entry survives until `capacity` further recordings were made.
Retained(h, age) ==
    \A s \in Signature : age[s] < h.capacity => CheckTransaction(h, s)

=============================================================================
