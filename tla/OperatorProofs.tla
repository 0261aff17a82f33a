--------------------------- MODULE OperatorProofs ---------------------------
(***************************************************************************)
(* Lemmas about operators that the proofs about several components cite:   *)
(* sums (LedgerProofs, SnapshotProofs) and the transaction history         *)
(* (HistoryProofs, ProcessingProofs, LedgerProofs).                        *)
(***************************************************************************)
EXTENDS TransactionHistory, Sums, FiniteSetTheorems, TLAPS

\* Time for the provers on a busy machine; most leaves need a fraction.
USE SMTT(60), ZenonT(60)

-----------------------------------------------------------------------------
(* Sums.  A sum of natural numbers is the number of units it counts; that  *)
(* fact is proved once from the definition of the fold, and everything     *)
(* else from the theorems about cardinalities.  There is no induction rule *)
(* to cite (the library's take an operator as parameter): induction is     *)
(* over a SET of finite sets, by a smallest one that is missing from it.   *)

\* A set of sets that holds the empty set, and T whenever it holds T without
\* any one of its elements, holds all subsets of a finite set.
LEMMA SubsetInduction ==
    ASSUME NEW S, IsFiniteSet(S), NEW P, {} \in P,
           \A T \in SUBSET S : T # {} /\ (\A x \in T : T \ {x} \in P) => T \in P
    PROVE  \A T \in SUBSET S : T \in P
<1> DEFINE bad == (SUBSET S) \ P
<1> SUFFICES ASSUME bad # {} PROVE FALSE
  OBVIOUS
<1>1. IsWellFoundedOn(StrictSubsetOrdering(S), FiniteSubsetsOf(S))
  BY FS_StrictSubsetOrderingWellFounded
<1>2. bad \subseteq FiniteSubsetsOf(S)
  BY FS_FiniteSubsetsOfFinite
<1> HIDE DEF bad
<1>3. PICK T \in bad : \A U \in bad : ~(<<U, T>> \in StrictSubsetOrdering(S))
  BY <1>1, <1>2, WFMin
<1>4. T \in SUBSET S /\ T # {} /\ T \notin P
  BY ZenonT(60), <1>3 DEF bad
<1>5. ASSUME NEW x \in T PROVE T \ {x} \in P
  <2>1. <<T \ {x}, T>> \in StrictSubsetOrdering(S)
    BY <1>4 DEF StrictSubsetOrdering
  <2>2. T \ {x} \notin bad
    BY <1>3, <2>1
  <2> QED BY <1>4, <2>2 DEF bad
<1> QED BY <1>4, <1>5

-----------------------------------------------------------------------------
(* Units.                                                                  *)

\* One element for each unit of f on T.
Units(f, T) == {p \in T \X Nat : 1 <= p[2] /\ p[2] <= f[p[1]]}

\* The units of one element.
LEMMA UnitsOfOne ==
    ASSUME NEW x, NEW n \in Nat
    PROVE  IsFiniteSet({x} \X (1..n)) /\ Cardinality({x} \X (1..n)) = n
<1>1. IsFiniteSet({x}) /\ Cardinality({x}) = 1
  BY FS_Singleton
<1>2. IsFiniteSet(1..n) /\ Cardinality(1..n) = n
  BY FS_Interval
<1>3. /\ IsFiniteSet({x} \X (1..n))
      /\ Cardinality({x} \X (1..n)) = Cardinality({x}) * Cardinality(1..n)
  BY ZenonT(60), <1>1, <1>2, FS_Product
<1> QED BY <1>1, <1>2, <1>3

\* Taking an element out of T takes its units out.
LEMMA UnitsRemove ==
    ASSUME NEW S, NEW f \in [S -> Nat], NEW T \in SUBSET S, NEW x \in T
    PROVE  /\ Units(f, T) = Units(f, T \ {x}) \cup ({x} \X (1..f[x]))
           /\ Units(f, T \ {x}) \cap ({x} \X (1..f[x])) = {}
<1>1. Units(f, T \ {x}) \cap ({x} \X (1..f[x])) = {}
  BY DEF Units
<1>2. ASSUME NEW p \in Units(f, T) PROVE p \in Units(f, T \ {x}) \cup ({x} \X (1..f[x]))
  BY <1>2 DEF Units
<1>3. ASSUME NEW p \in Units(f, T \ {x}) PROVE p \in Units(f, T)
  BY <1>3 DEF Units
<1>4. ASSUME NEW p \in {x} \X (1..f[x]) PROVE p \in Units(f, T)
  BY <1>4 DEF Units
<1> QED BY <1>1, <1>2, <1>3, <1>4

\* The units of f are finitely many.
LEMMA UnitsFinite ==
    ASSUME NEW S, IsFiniteSet(S), NEW f \in [S -> Nat]
    PROVE  \A T \in SUBSET S : IsFiniteSet(Units(f, T))
<1> DEFINE P == {T \in SUBSET S : IsFiniteSet(Units(f, T))}
<1>1. {} \in P
  <2>1. Units(f, {}) = {}
    BY DEF Units
  <2> QED BY <2>1, FS_EmptySet
<1>2. ASSUME NEW T \in SUBSET S, T # {}, \A x \in T : T \ {x} \in P PROVE T \in P
  <2>1. PICK x \in T : T \ {x} \in P
    BY <1>2
  <2>2. IsFiniteSet(Units(f, T \ {x})) /\ IsFiniteSet({x} \X (1..f[x])) /\ f[x] \in Nat
    BY ZenonT(60), <2>1, UnitsOfOne
  <2>3. Units(f, T) = Units(f, T \ {x}) \cup ({x} \X (1..f[x]))
    BY UnitsRemove
  <2>4. IsFiniteSet(Units(f, T \ {x}) \cup ({x} \X (1..f[x])))
    BY ZenonT(60), <2>2, FS_Union
  <2> QED BY <2>3, <2>4
<1> HIDE DEF P
<1>3. \A T \in SUBSET S : T \in P
  BY ZenonT(60), <1>1, <1>2, SubsetInduction
<1> QED BY <1>3 DEF P

\* How many units an element adds.
LEMMA UnitsCount ==
    ASSUME NEW S, IsFiniteSet(S), NEW f \in [S -> Nat], NEW T \in SUBSET S, NEW x \in T
    PROVE  Cardinality(Units(f, T)) = f[x] + Cardinality(Units(f, T \ {x}))
<1>1. f[x] \in Nat /\ T \ {x} \in SUBSET S
  OBVIOUS
<1>2. IsFiniteSet(Units(f, T \ {x})) /\ IsFiniteSet(Units(f, T))
  BY <1>1, UnitsFinite
<1>3. IsFiniteSet({x} \X (1..f[x])) /\ Cardinality({x} \X (1..f[x])) = f[x]
  BY ZenonT(60), <1>1, UnitsOfOne
<1>4. Cardinality(Units(f, T \ {x}) \cup ({x} \X (1..f[x])))
        = Cardinality(Units(f, T \ {x})) + Cardinality({x} \X (1..f[x]))
          - Cardinality(Units(f, T \ {x}) \cap ({x} \X (1..f[x])))
  BY ZenonT(60), <1>2, <1>3, FS_Union
<1>5. Cardinality(Units(f, T \ {x}) \cap ({x} \X (1..f[x]))) = 0
  BY UnitsRemove, FS_EmptySet
<1>6. Cardinality(Units(f, T \ {x})) \in Nat
  BY <1>2, FS_CardinalityType
<1>7. Units(f, T) = Units(f, T \ {x}) \cup ({x} \X (1..f[x]))
  BY UnitsRemove
<1>8. Cardinality(Units(f, T)) = Cardinality(Units(f, T \ {x})) + f[x] - 0
  BY <1>3, <1>4, <1>5, <1>7
<1> QED BY <1>1, <1>6, <1>8

-----------------------------------------------------------------------------
(* Sums.                                                                   *)

\* The function that the fold behind Sum iterates.
Iter(f) ==
    CHOOSE iter : iter = [s \in SUBSET DOMAIN f |->
        IF s = {} THEN 0
        ELSE f[CHOOSE x \in s : TRUE] + iter[s \ {CHOOSE x \in s : TRUE}]]

\* A sum is the number of its units.
THEOREM SumIsCount ==
    ASSUME NEW S, IsFiniteSet(S), NEW f \in [S -> Nat]
    PROVE  /\ IsFiniteSet(Units(f, S))
           /\ Sum(f) = Cardinality(Units(f, S))
           /\ Sum(f) \in Nat
<1> DEFINE First(s) == CHOOSE x \in s : TRUE
           Eq(iter) == iter = [s \in SUBSET S |->
                                 IF s = {} THEN 0 ELSE f[First(s)] + iter[s \ {First(s)}]]
           count == [s \in SUBSET S |-> Cardinality(Units(f, s))]
<1>1. DOMAIN f = S
  OBVIOUS
<1>2. Sum(f) = Iter(f)[S]
  BY <1>1 DEF Sum, FoldFunction, FoldFunctionOnSet, MapThenFoldSet, Iter
<1>3. Iter(f) = CHOOSE iter : Eq(iter)
  BY <1>1 DEF Iter
<1>4. \A s \in SUBSET S : s # {} => First(s) \in s
  OBVIOUS
<1>5. Units(f, {}) = {}
  BY DEF Units
<1> HIDE DEF First
<1>6. Eq(count)
  <2> SUFFICES ASSUME NEW s \in SUBSET S
               PROVE  count[s] = IF s = {} THEN 0 ELSE f[First(s)] + count[s \ {First(s)}]
    BY Zenon
  <2>1. CASE s = {}
    BY <1>5, <2>1, FS_EmptySet
  <2>2. CASE s # {}
    <3>1. First(s) \in s /\ s \ {First(s)} \in SUBSET S
      BY <1>4, <2>2
    <3>2. Cardinality(Units(f, s)) = f[First(s)] + Cardinality(Units(f, s \ {First(s)}))
      BY <3>1, UnitsCount
    <3> QED BY <2>2, <3>1, <3>2
  <2> QED BY <2>1, <2>2
<1>7. Eq(Iter(f))
  BY ZenonT(60), <1>3, <1>6
<1> DEFINE P == {s \in SUBSET S : Iter(f)[s] = Cardinality(Units(f, s))}
<1>8. {} \in P
  BY ZenonT(60), <1>5, <1>7, FS_EmptySet
<1>9. ASSUME NEW s \in SUBSET S, s # {}, \A x \in s : s \ {x} \in P PROVE s \in P
  <2>1. First(s) \in s /\ s \ {First(s)} \in P
    BY <1>4, <1>9
  <2>2. Iter(f)[s] = f[First(s)] + Iter(f)[s \ {First(s)}]
    BY ZenonT(60), <1>7, <1>9
  <2>3. Cardinality(Units(f, s)) = f[First(s)] + Cardinality(Units(f, s \ {First(s)}))
    BY <2>1, UnitsCount
  <2> QED BY <2>1, <2>2, <2>3
<1> HIDE DEF P
<1>10. S \in P
  BY ZenonT(60), <1>8, <1>9, SubsetInduction
<1> QED BY <1>2, <1>10, UnitsFinite, FS_CardinalityType DEF P

\* A sum is no smaller than any of its terms, and follows a change of one.
LEMMA SumExcept ==
    ASSUME NEW S, IsFiniteSet(S), NEW f \in [S -> Nat], NEW x \in S, NEW y \in Nat
    PROVE  /\ f[x] <= Sum(f)
           /\ Sum([f EXCEPT ![x] = y]) = Sum(f) - f[x] + y
<1> DEFINE g == [f EXCEPT ![x] = y]
<1>1. g \in [S -> Nat] /\ g[x] = y /\ f[x] \in Nat
  OBVIOUS
<1>2. Units(g, S \ {x}) = Units(f, S \ {x})
  BY DEF Units
<1> HIDE DEF g
<1>3. /\ Sum(f) = f[x] + Cardinality(Units(f, S \ {x}))
      /\ Sum(g) = g[x] + Cardinality(Units(g, S \ {x}))
  BY <1>1, UnitsCount, SumIsCount
<1>4. Cardinality(Units(f, S \ {x})) \in Nat
  BY UnitsFinite, FS_CardinalityType
<1>5. f[x] <= Sum(f) /\ Sum(g) = Sum(f) - f[x] + y
  BY <1>1, <1>2, <1>3, <1>4
<1> QED BY <1>5 DEF g

\* Sums of zeros.
LEMMA SumZero ==
    ASSUME NEW S, IsFiniteSet(S)
    PROVE  Sum([x \in S |-> 0]) = 0
<1> DEFINE f == [x \in S |-> 0]
<1>1. f \in [S -> Nat] /\ Units(f, S) = {}
  BY DEF Units
<1> HIDE DEF f
<1>2. Sum(f) = 0
  BY <1>1, SumIsCount, FS_EmptySet
<1> QED BY <1>2 DEF f

\* A sum over a set is one over a part of it and one over the rest.
LEMMA SumSplit ==
    ASSUME NEW S, IsFiniteSet(S), NEW f \in [S -> Nat], NEW T \in SUBSET S
    PROVE  Sum(f) = Sum([x \in T |-> f[x]]) + Sum([x \in S \ T |-> f[x]])
<1> DEFINE g == [x \in T |-> f[x]]
           h == [x \in S \ T |-> f[x]]
<1>1. g \in [T -> Nat] /\ h \in [S \ T -> Nat]
  OBVIOUS
<1>2. IsFiniteSet(T) /\ IsFiniteSet(S \ T)
  BY FS_Subset, FS_Difference
<1>3. /\ Units(f, S) = Units(g, T) \cup Units(h, S \ T)
      /\ Units(g, T) \cap Units(h, S \ T) = {}
  BY DEF Units
<1> HIDE DEF g, h
<1>4. /\ Sum(g) = Cardinality(Units(g, T)) /\ Sum(g) \in Nat
      /\ Sum(h) = Cardinality(Units(h, S \ T)) /\ Sum(h) \in Nat
      /\ IsFiniteSet(Units(g, T)) /\ IsFiniteSet(Units(h, S \ T))
  BY <1>1, <1>2, SumIsCount
<1>5. Cardinality(Units(g, T) \cup Units(h, S \ T))
        = Sum(g) + Sum(h) - Cardinality(Units(g, T) \cap Units(h, S \ T))
  BY ZenonT(60), <1>4, FS_Union
<1>6. Cardinality(Units(g, T) \cap Units(h, S \ T)) = 0
  BY <1>3, FS_EmptySet
<1>7. Sum(f) = Cardinality(Units(g, T) \cup Units(h, S \ T))
  BY <1>3, SumIsCount
<1>8. Sum(f) = Sum(g) + Sum(h)
  BY <1>4, <1>5, <1>6, <1>7
<1> QED BY <1>8 DEF g, h

\* h takes the terms of f, one to one, to equal terms of g, and misses none
\* that counts.
Renames(h, f, S, g, T) ==
    /\ f \in [S -> Nat] /\ g \in [T -> Nat] /\ h \in [S -> T]
    /\ \A x, y \in S : h[x] = h[y] => x = y
    /\ \A x \in S : f[x] = g[h[x]]
    /\ \A t \in T : g[t] # 0 => \E x \in S : t = h[x]

\* Terms may be renamed one to one, and terms that are zero left out.
LEMMA SumRename ==
    ASSUME NEW S, IsFiniteSet(S), NEW T, IsFiniteSet(T),
           NEW f, NEW g, NEW h, Renames(h, f, S, g, T)
    PROVE  Sum(f) = Sum(g)
<1>0. /\ f \in [S -> Nat] /\ g \in [T -> Nat] /\ h \in [S -> T]
      /\ \A x, y \in S : h[x] = h[y] => x = y
      /\ \A x \in S : f[x] = g[h[x]]
      /\ \A t \in T : g[t] # 0 => \E x \in S : t = h[x]
  BY DEF Renames
<1> DEFINE b == [p \in Units(f, S) |-> <<h[p[1]], p[2]>>]
<1>1. b \in [Units(f, S) -> Units(g, T)]
  <2> SUFFICES ASSUME NEW p \in Units(f, S) PROVE <<h[p[1]], p[2]>> \in Units(g, T)
    OBVIOUS
  <2>1. p[1] \in S /\ p[2] \in Nat /\ 1 <= p[2] /\ p[2] <= f[p[1]]
    BY <1>0 DEF Units
  <2>2. h[p[1]] \in T /\ f[p[1]] = g[h[p[1]]]
    BY <1>0, <2>1
  <2> QED BY <2>1, <2>2 DEF Units
<1>2. ASSUME NEW p \in Units(f, S), NEW q \in Units(f, S), b[p] = b[q] PROVE p = q
  <2>1. p \in S \X Nat /\ q \in S \X Nat
    BY DEF Units
  <2>2. h[p[1]] = h[q[1]] /\ p[2] = q[2]
    BY <1>2
  <2>3. p[1] = q[1]
    BY <1>0, <2>1, <2>2
  <2> QED BY <2>1, <2>2, <2>3
<1>3. ASSUME NEW q \in Units(g, T) PROVE \E p \in Units(f, S) : b[p] = q
  <2>1. q \in T \X Nat /\ 1 <= q[2] /\ q[2] <= g[q[1]] /\ g[q[1]] \in Nat
    BY <1>0, <1>3 DEF Units
  <2>2. PICK x \in S : q[1] = h[x]
    BY <1>0, <2>1
  <2>3. <<x, q[2]>> \in Units(f, S)
    BY <1>0, <2>1, <2>2 DEF Units
  <2>4. b[<<x, q[2]>>] = q
    BY <2>1, <2>2, <2>3
  <2> QED BY <2>3, <2>4
<1> HIDE DEF b
<1>4. b \in Bijection(Units(f, S), Units(g, T))
  BY <1>1, <1>2, <1>3 DEF Bijection, Injection, Surjection, IsInjective
<1>5. ExistsBijection(Units(f, S), Units(g, T))
  BY <1>4 DEF ExistsBijection
<1>6. Cardinality(Units(g, T)) = Cardinality(Units(f, S))
  BY <1>0, <1>5, SumIsCount, FS_Bijection
<1> QED BY <1>0, <1>6, SumIsCount

-----------------------------------------------------------------------------
(* The transaction history: what its operations return and preserve, for   *)
(* any sets of signatures and results and any capacities.                  *)

\* The strengthening of Retained: as many recordings happened since an entry
\* was created as there are younger entries.
AgeBound(h, age) ==
    \A i \in DOMAIN h.entries :
        age[h.entries[i].signature] >= Len(h.entries) - i

\* What every operation on a history preserves.
HistoryInv(h, age) ==
    /\ h \in History /\ age \in Ages
    /\ ShapeOK(h) /\ AgeBound(h, age) /\ Retained(h, age)

-----------------------------------------------------------------------------
(* What the operations return.                                             *)

\* Signatures of a sequence of entries are pairwise distinct.
DistinctKeys(es) ==
    \A i, j \in DOMAIN es : es[i].signature = es[j].signature => i = j

\* Dropping the oldest entry keeps the others, one position earlier.
LEMMA TailFacts ==
    ASSUME NEW es \in Seq(Entry), Len(es) > 0, DistinctKeys(es)
    PROVE  /\ Tail(es) \in Seq(Entry)
           /\ Len(Tail(es)) = Len(es) - 1
           /\ \A i \in 1..(Len(es) - 1) : Tail(es)[i] = es[i + 1]
           /\ DistinctKeys(Tail(es))
<1>1. /\ Tail(es) \in Seq(Entry)
      /\ Len(Tail(es)) = Len(es) - 1
      /\ \A i \in 1..(Len(es) - 1) : Tail(es)[i] = es[i + 1]
  OBVIOUS
<1>2. DistinctKeys(Tail(es))
  BY <1>1 DEF DistinctKeys
<1>. QED  BY <1>1, <1>2

\* Inserting a present key keeps length, keys and positions.
LEMMA InsertPresent ==
    ASSUME NEW es \in Seq(Entry), NEW s \in Signature, NEW r \in Result,
           HasKey(es, s), DistinctKeys(es)
    PROVE  /\ Insert(es, s, r) \in Seq(Entry)
           /\ Len(Insert(es, s, r)) = Len(es)
           /\ \A i \in 1..Len(es) :
                 Insert(es, s, r)[i].signature = es[i].signature
           /\ DistinctKeys(Insert(es, s, r))
<1> DEFINE e == [signature |-> s, result |-> r]
           new == [i \in DOMAIN es |-> IF es[i].signature = s THEN e ELSE es[i]]
<1>1. Insert(es, s, r) = new
  BY DEF Insert
<1>2. e \in Entry
  BY DEF Entry
<1>3. DOMAIN es = 1..Len(es) /\ \A i \in 1..Len(es) : es[i] \in Entry
  OBVIOUS
<1>4. new \in [1..Len(es) -> Entry]
  BY <1>2, <1>3
<1>5. new \in Seq(Entry) /\ Len(new) = Len(es)
  BY <1>4
<1>6. \A i \in 1..Len(es) : new[i].signature = es[i].signature
  BY <1>3
<1>7. DistinctKeys(new)
  BY <1>3, <1>5, <1>6 DEF DistinctKeys
<1>. QED  BY <1>1, <1>5, <1>6, <1>7

\* Inserting a new key appends it.
LEMMA InsertNew ==
    ASSUME NEW es \in Seq(Entry), NEW s \in Signature, NEW r \in Result,
           ~HasKey(es, s), DistinctKeys(es)
    PROVE  /\ Insert(es, s, r) \in Seq(Entry)
           /\ Len(Insert(es, s, r)) = Len(es) + 1
           /\ \A i \in 1..Len(es) : Insert(es, s, r)[i] = es[i]
           /\ Insert(es, s, r)[Len(es) + 1].signature = s
           /\ DistinctKeys(Insert(es, s, r))
<1> DEFINE e == [signature |-> s, result |-> r]
<1>1. Insert(es, s, r) = Append(es, e)
  BY DEF Insert
<1>2. e \in Entry /\ e.signature = s
  BY DEF Entry
<1>3. /\ Append(es, e) \in Seq(Entry)
      /\ Len(Append(es, e)) = Len(es) + 1
      /\ \A i \in 1..Len(es) : Append(es, e)[i] = es[i]
      /\ Append(es, e)[Len(es) + 1] = e
  BY <1>2
<1>4. \A i \in 1..Len(es) : es[i].signature # s
  BY DEF HasKey
<1>5. DistinctKeys(Append(es, e))
  BY <1>2, <1>3, <1>4 DEF DistinctKeys
<1>. QED  BY <1>1, <1>2, <1>3, <1>5

\* Setting a capacity keeps a prefix of the entries within the new capacity.
LEMMA SetCapacityFacts ==
    ASSUME NEW h \in History, Len(h.entries) <= h.capacity,
           NEW n \in 0..MaxCapacity, NEW h2 \in SetCapacity(h, n)
    PROVE  /\ h2 \in History
           /\ Len(h2.entries) <= h2.capacity
           /\ Len(h2.entries) <= Len(h.entries)
           /\ \A i \in 1..Len(h2.entries) : h2.entries[i] = h.entries[i]
           /\ n >= Len(h.entries) => h2.entries = h.entries
<1>0. /\ h.capacity \in 0..MaxCapacity /\ h.entries \in Seq(Entry)
      /\ MaxCapacity \in Nat /\ Len(h.entries) \in Nat
  BY CapacityAssumption DEF History
<1>1. CASE n <= h.capacity
  <2> DEFINE kept == Truncate(h.entries, n)
  <2>1. /\ kept \in Seq(Entry)
        /\ Len(kept) <= n /\ Len(kept) <= Len(h.entries)
        /\ \A i \in 1..Len(kept) : kept[i] = h.entries[i]
        /\ n >= Len(h.entries) => kept = h.entries
    BY <1>0, <1>1 DEF Truncate
  <2>2. h2 = [capacity |-> Len(kept), entries |-> kept]
    BY <1>1 DEF SetCapacity
  <2>3. Len(kept) \in 0..MaxCapacity
    BY <1>0, <1>1, <2>1
  <2>. HIDE DEF kept
  <2>4. h2.capacity = Len(kept) /\ h2.entries = kept
    BY <2>2
  <2>5. h2 \in History
    BY <2>1, <2>2, <2>3 DEF History
  <2>6. Len(kept) \in Nat
    BY <2>1
  <2>. QED  BY <2>1, <2>4, <2>5, <2>6
<1>2. CASE ~(n <= h.capacity)
  <2>1. PICK c \in CapacitiesAfterReserve(h, n - h.capacity) :
            h2 = [h EXCEPT !.capacity = c]
    BY <1>2 DEF SetCapacity
  <2>2. c \in 0..MaxCapacity /\ c >= Len(h.entries)
    BY <1>0, <1>2 DEF CapacitiesAfterReserve
  <2>3. h2.capacity = c /\ h2.entries = h.entries /\ h2 \in History
    BY <1>0, <2>1, <2>2 DEF History
  <2>. QED  BY <1>0, <2>2, <2>3
<1>. QED  BY <1>1, <1>2

-----------------------------------------------------------------------------
(* The operations preserve HistoryInv.                                     *)

\* A new history satisfies it, with ages that say "no entry".
LEMMA NewHistoryInv ==
    HistoryInv(NewHistory, [s \in Signature |-> MaxCapacity])
<1>1. /\ NewHistory \in History /\ Len(NewHistory.entries) = 0
      /\ DOMAIN NewHistory.entries = {}
      /\ NewHistory.capacity = DefaultCapacity
  BY CapacityAssumption DEF NewHistory, History
<1>2. [s \in Signature |-> MaxCapacity] \in Ages
  BY CapacityAssumption DEF Ages
<1>3. ShapeOK(NewHistory)
      /\ AgeBound(NewHistory, [s \in Signature |-> MaxCapacity])
  BY <1>1, CapacityAssumption DEF ShapeOK, AgeBound
<1>4. Retained(NewHistory, [s \in Signature |-> MaxCapacity])
  BY <1>1, CapacityAssumption DEF Retained
<1>. QED  BY <1>1, <1>2, <1>3, <1>4 DEF HistoryInv

\* Recording a transaction keeps the invariant, and the transaction is found
\* afterwards.
LEMMA RecordInv ==
    ASSUME NEW h, NEW age, HistoryInv(h, age), IsEnabled(h),
           NEW s \in Signature, NEW r \in Result
    PROVE  /\ HistoryInv(AddNewTransaction(h, s, r), AgesAfterRecord(h, age, s))
           /\ AddNewTransaction(h, s, r).capacity = h.capacity
           /\ CheckTransaction(AddNewTransaction(h, s, r), s)
<1> DEFINE h2 == AddNewTransaction(h, s, r)
           age2 == AgesAfterRecord(h, age, s)
           es == h.entries
           cap == h.capacity
           kept == IF Len(es) = cap THEN Tail(es) ELSE es
           d == IF Len(es) = cap THEN 1 ELSE 0
           new == Insert(kept, s, r)
<1>1. /\ cap \in 1..MaxCapacity /\ es \in Seq(Entry) /\ MaxCapacity \in Nat
      /\ Len(es) <= cap /\ DistinctKeys(es) /\ Len(es) \in Nat
      /\ age \in [Signature -> 0..MaxCapacity]
      /\ \A i \in 1..Len(es) : es[i] \in Entry /\ es[i].signature \in Signature
  <2>1. /\ cap \in 0..MaxCapacity /\ es \in Seq(Entry) /\ MaxCapacity \in Nat
        /\ age \in [Signature -> 0..MaxCapacity]
    BY CapacityAssumption DEF HistoryInv, History, Ages
  <2>2. cap # 0
    BY DEF IsEnabled
  <2>3. Len(es) <= cap /\ DistinctKeys(es)
    BY DEF HistoryInv, ShapeOK, DistinctKeys
  <2>. HIDE DEF es, cap
  <2>4. \A i \in 1..Len(es) : es[i] \in Entry
    BY <2>1
  <2>5. \A i \in 1..Len(es) : es[i].signature \in Signature
    BY <2>4 DEF Entry
  <2>. QED  BY <2>1, <2>2, <2>3, <2>4, <2>5
<1>age. /\ \A i \in 1..Len(es) : age[es[i].signature] >= Len(es) - i
        /\ \A t \in Signature : age[t] < cap =>
              \E j \in 1..Len(es) : es[j].signature = t
  <2>1. DOMAIN es = 1..Len(es)
    BY <1>1
  <2>2. \A i \in DOMAIN es : age[es[i].signature] >= Len(es) - i
    BY DEF HistoryInv, AgeBound
  <2>3. \A t \in Signature : age[t] < cap =>
           \E j \in DOMAIN es : es[j].signature = t
    BY DEF HistoryInv, Retained, CheckTransaction, HasKey
  <2>. QED  BY <2>1, <2>2, <2>3
<1>2. /\ d \in {0, 1} /\ (Len(es) = cap <=> d = 1)
      /\ kept \in Seq(Entry) /\ DistinctKeys(kept)
      /\ Len(kept) = Len(es) - d /\ Len(kept) < cap /\ Len(kept) \in Nat
      /\ \A i \in 1..Len(kept) : kept[i] = es[i + d]
  BY <1>1, TailFacts
<1>3. h2 = [h EXCEPT !.entries = new]
  BY <1>1 DEF AddNewTransaction
<1>6. age2 = [t \in Signature |->
                 IF t = s /\ ~HasKey(es, s) THEN 0 ELSE Older(age[t])]
  BY DEF AgesAfterRecord, CheckTransaction
<1>. HIDE DEF h2, age2
<1>4. /\ new \in Seq(Entry) /\ DistinctKeys(new) /\ HasKey(new, s)
      /\ Len(new) = IF HasKey(kept, s) THEN Len(kept) ELSE Len(kept) + 1
      /\ \A i \in 1..Len(kept) : new[i].signature = kept[i].signature
      /\ ~HasKey(kept, s) => new[Len(kept) + 1].signature = s
  <2>1. CASE HasKey(kept, s)
    <3>1. /\ new \in Seq(Entry) /\ Len(new) = Len(kept) /\ DistinctKeys(new)
          /\ \A i \in 1..Len(kept) : new[i].signature = kept[i].signature
      BY ZenonT(60), <1>2, <2>1, InsertPresent
    <3>. HIDE DEF new, kept
    <3>2. PICK i \in DOMAIN kept : kept[i].signature = s
      BY <2>1 DEF HasKey
    <3>3. DOMAIN kept = 1..Len(kept) /\ DOMAIN new = 1..Len(kept)
      <4>1. kept \in Seq(Entry)
        BY <1>2
      <4>2. DOMAIN kept = 1..Len(kept)
        BY <4>1
      <4>3. DOMAIN new = 1..Len(new)
        BY <3>1
      <4>. QED  BY <4>2, <4>3, <3>1
    <3>4. HasKey(new, s)
      BY <3>1, <3>2, <3>3 DEF HasKey
    <3>. QED  BY <2>1, <3>1, <3>4
  <2>2. CASE ~HasKey(kept, s)
    <3>. HIDE DEF kept
    <3>1. /\ new \in Seq(Entry) /\ Len(new) = Len(kept) + 1 /\ DistinctKeys(new)
          /\ \A i \in 1..Len(kept) : new[i] = kept[i]
          /\ new[Len(kept) + 1].signature = s
      <4>1. kept \in Seq(Entry) /\ DistinctKeys(kept)
        BY <1>2
      <4>. QED  BY <4>1, <2>2, InsertNew
    <3>. HIDE DEF new, kept
    <3>2. DOMAIN new = 1..Len(new)
      BY <3>1
    <3>3. Len(kept) \in Nat /\ Len(new) = Len(kept) + 1
      BY <1>2, <3>1
    <3>4. Len(kept) + 1 \in DOMAIN new
      BY <3>2, <3>3
    <3>5. HasKey(new, s)
      BY <3>1, <3>4 DEF HasKey
    <3>. QED  BY <2>2, <3>1, <3>5
  <2>. QED  BY <2>1, <2>2
<1>5. h2.entries = new /\ h2.capacity = cap /\ Len(new) <= cap
  BY <1>1, <1>2, <1>3, <1>4 DEF HistoryInv, History, Ages
<1>7. h2 \in History /\ age2 \in Ages
  <2>1. h2 \in History
    BY <1>3, <1>4 DEF HistoryInv, History
  <2>2. age2 \in Ages
    BY <1>1, <1>6 DEF Older, Ages
  <2>. QED  BY <2>1, <2>2
<1>8. ShapeOK(h2) /\ CheckTransaction(h2, s)
  BY <1>4, <1>5 DEF ShapeOK, DistinctKeys, CheckTransaction
<1>. HIDE DEF new, kept, es, cap, d
\* An entry that is kept ages, and so does the number of entries behind it.
<1>9. AgeBound(h2, age2)
  <2>0. DOMAIN new = 1..Len(new)
    BY <1>4
  <2> SUFFICES ASSUME NEW i \in 1..Len(new)
               PROVE  age2[new[i].signature] >= Len(new) - i
    BY <2>0, <1>5 DEF AgeBound
  <2>1. CASE i <= Len(kept)
    <3> DEFINE t == es[i + d].signature
    <3>0. i \in 1..Len(kept) /\ i + d \in 1..Len(es)
      BY <1>1, <1>2, <2>1
    <3>1. i + d \in 1..Len(es) /\ new[i].signature = t /\ t \in Signature
      BY <1>1, <1>2, <1>4, <3>0
    <3>2. age[t] >= Len(es) - (i + d) /\ age[t] \in 0..MaxCapacity
      BY <1>1, <1>age, <3>1
    <3>3. ~(t = s /\ ~HasKey(es, s))
      BY <1>1, <3>1 DEF HasKey
    <3>4. age2[t] = Older(age[t])
      BY <1>6, <3>1, <3>3
    <3>. HIDE DEF t
    <3>5. Len(new) <= Len(kept) + 1 /\ Len(new) \in Nat /\ Len(kept) = Len(es) - d
      BY <1>2, <1>4
    <3>6. Older(age[t]) >= Len(new) - i
      <4> DEFINE x == age[t]
                 l == Len(es)
                 m == Len(new)
      <4>1. /\ x \in Nat /\ x <= MaxCapacity /\ MaxCapacity \in Nat
            /\ l \in Nat /\ m \in Nat /\ d \in Nat /\ i \in Nat /\ i >= 1
            /\ x >= l - (i + d)
        BY <1>1, <1>2, <3>2, <3>5
      <4>2. m <= l - d + 1 /\ m <= MaxCapacity
        BY <1>1, <1>5, <3>5
      <4>. HIDE DEF x, l, m
      <4>3. Older(x) >= m - i
        BY <4>1, <4>2 DEF Older
      <4>. QED  BY <4>3 DEF x, m
    <3>. QED  BY <3>1, <3>4, <3>6
  <2>2. CASE ~(i <= Len(kept))
    <3>1. i = Len(new) /\ new[i].signature = s
      BY <1>2, <1>4, <2>2
    <3>2. age2[s] >= 0
      BY <1>1, <1>6 DEF Older
    <3>. QED  BY <1>4, <3>1, <3>2
  <2>. QED  BY <2>1, <2>2
\* The evicted entry is older than the capacity.
<1>10. Retained(h2, age2)
  <2> SUFFICES ASSUME NEW t \in Signature, age2[t] < cap, t # s
               PROVE  HasKey(new, t)
    BY <1>4, <1>5 DEF Retained, CheckTransaction
  <2>1. age[t] < cap - 1 /\ age[t] \in Nat
    BY <1>1, <1>6 DEF Older
  <2>2. PICK j \in 1..Len(es) : es[j].signature = t
    BY <1>age, <2>1, <1>1
  <2>3. age[t] >= Len(es) - j
    BY <1>age, <2>2
  <2>4. j - d \in 1..Len(kept)
    BY <1>1, <1>2, <2>1, <2>2, <2>3
  <2>5. new[j - d].signature = t
    <3>1. new[j - d].signature = kept[j - d].signature
      BY <1>4, <2>4
    <3>2. kept[j - d] = es[(j - d) + d]
      BY <1>2, <2>4
    <3>3. (j - d) + d = j
      BY <1>1, <1>2, <2>2
    <3>. QED  BY <2>2, <3>1, <3>2, <3>3
  <2>6. j - d \in 1..Len(new)
    BY <1>2, <1>4, <2>4
  <2>. QED  BY <1>4, <2>5, <2>6 DEF HasKey
<1>11. HistoryInv(h2, age2) /\ h2.capacity = h.capacity
  BY <1>5, <1>7, <1>8, <1>9, <1>10 DEF HistoryInv, cap
<1>. QED  BY <1>8, <1>11 DEF h2, age2

\* After a recording every entry is the new one or an old one of another
\* signature.
LEMMA RecordEntries ==
    ASSUME NEW h \in History, ShapeOK(h), IsEnabled(h),
           NEW s \in Signature, NEW r \in Result
    PROVE  LET h2 == AddNewTransaction(h, s, r) IN
           \A i \in DOMAIN h2.entries :
              \/ h2.entries[i] = [signature |-> s, result |-> r]
              \/ /\ h2.entries[i].signature # s
                 /\ \E j \in DOMAIN h.entries : h2.entries[i] = h.entries[j]
<1> DEFINE es == h.entries
           e == [signature |-> s, result |-> r]
           kept == IF Len(es) = h.capacity THEN Tail(es) ELSE es
           new == Insert(kept, s, r)
<1>1. es \in Seq(Entry) /\ Len(es) <= h.capacity /\ h.capacity \in Nat
      /\ DistinctKeys(es) /\ h.capacity # 0
  BY CapacityAssumption DEF History, ShapeOK, IsEnabled, DistinctKeys
<1>2. AddNewTransaction(h, s, r).entries = new
  BY <1>1 DEF AddNewTransaction, History
<1>3. kept \in Seq(Entry)
      /\ \A i \in DOMAIN kept : \E j \in DOMAIN es : kept[i] = es[j]
  <2>. HIDE DEF es
  <2>1. DOMAIN es = 1..Len(es) /\ Len(es) \in Nat
    BY <1>1
  <2>2. CASE Len(es) = h.capacity
    <3>1. /\ Tail(es) \in Seq(Entry) /\ Len(Tail(es)) = Len(es) - 1
          /\ \A i \in 1..(Len(es) - 1) : Tail(es)[i] = es[i + 1]
      BY <1>1, <2>2, TailFacts
    <3>2. DOMAIN Tail(es) = 1..(Len(es) - 1)
      BY <3>1
    <3>3. \A i \in 1..(Len(es) - 1) : i + 1 \in 1..Len(es)
      BY <2>1
    <3>4. kept = Tail(es)
      BY <2>2
    <3>. QED  BY ZenonT(60), <2>1, <3>1, <3>2, <3>3, <3>4
  <2>3. CASE Len(es) # h.capacity
    BY <1>1, <2>3
  <2>. QED  BY <2>2, <2>3
<1>. HIDE DEF es, kept
<1>4. \A i \in DOMAIN new :
         \/ new[i] = e
         \/ new[i].signature # s /\ \E j \in DOMAIN kept : new[i] = kept[j]
  <2>1. CASE HasKey(kept, s)
    BY <2>1 DEF Insert
  <2>2. CASE ~HasKey(kept, s)
    <3>1. new = Append(kept, e)
      BY <2>2 DEF Insert
    <3>2. e \in Entry
      BY DEF Entry
    <3>. HIDE DEF e
    <3>3. /\ DOMAIN Append(kept, e) = 1..(Len(kept) + 1)
          /\ \A i \in 1..Len(kept) : Append(kept, e)[i] = kept[i]
          /\ Append(kept, e)[Len(kept) + 1] = e
          /\ DOMAIN kept = 1..Len(kept) /\ Len(kept) \in Nat
      BY <1>3, <3>2
    <3>4. \A j \in DOMAIN kept : kept[j].signature # s
      BY <2>2 DEF HasKey
    <3>. QED  BY <3>1, <3>3, <3>4
  <2>. QED  BY <2>1, <2>2
<1>. QED  BY <1>2, <1>3, <1>4 DEF es

\* get_transaction finds what was recorded last.
LEMMA RecordFound ==
    ASSUME NEW h \in History, ShapeOK(h), IsEnabled(h),
           NEW s \in Signature, NEW r \in Result,
           CheckTransaction(AddNewTransaction(h, s, r), s)
    PROVE  GetTransaction(AddNewTransaction(h, s, r), s) = {r}
<1> DEFINE h2 == AddNewTransaction(h, s, r)
<1>1. \A i \in DOMAIN h2.entries : h2.entries[i].signature = s =>
         h2.entries[i] = [signature |-> s, result |-> r]
  BY RecordEntries
<1>2. \E i \in DOMAIN h2.entries : h2.entries[i].signature = s
  BY DEF CheckTransaction, HasKey
<1>. HIDE DEF h2
<1>. QED  BY <1>1, <1>2 DEF GetTransaction, h2

\* A capacity change or a restore leaves a prefix of the entries, and the
\* signatures without an entry count as never recorded.
LEMMA PrefixInv ==
    ASSUME NEW h, NEW age, HistoryInv(h, age), NEW h2 \in History,
           Len(h2.entries) <= h2.capacity,
           Len(h2.entries) <= Len(h.entries),
           \A i \in 1..Len(h2.entries) : h2.entries[i] = h.entries[i]
    PROVE  HistoryInv(h2, AgesAfterResize(h2, age))
<1> DEFINE age2 == AgesAfterResize(h2, age)
           es == h.entries
           new == h2.entries
<1>1. /\ es \in Seq(Entry) /\ new \in Seq(Entry)
      /\ age \in [Signature -> 0..MaxCapacity] /\ MaxCapacity \in Nat
      /\ h2.capacity \in 0..MaxCapacity
  BY CapacityAssumption DEF HistoryInv, History, Ages
<1>2. age2 = [t \in Signature |-> IF HasKey(new, t) THEN age[t] ELSE MaxCapacity]
  BY DEF AgesAfterResize, CheckTransaction
<1>3. age2 \in Ages
  BY <1>1, <1>2 DEF Ages
<1>4. ShapeOK(h2)
  <2>1. \A i, j \in DOMAIN es : es[i].signature = es[j].signature => i = j
    BY DEF HistoryInv, ShapeOK
  <2>2. DOMAIN new = 1..Len(new) /\ DOMAIN es = 1..Len(es)
    BY <1>1
  <2>3. \A i \in 1..Len(new) : new[i] = es[i] /\ i \in 1..Len(es)
    <3>1. Len(new) <= Len(es) /\ Len(new) \in Nat /\ Len(es) \in Nat
      BY <1>1
    <3>2. \A i \in 1..Len(new) : new[i] = es[i]
      OBVIOUS
    <3>. HIDE DEF new, es
    <3>. QED  BY <3>1, <3>2
  <2>4. \A i, j \in DOMAIN new : new[i].signature = new[j].signature => i = j
    BY <2>1, <2>2, <2>3
  <2>. QED  BY <2>4 DEF ShapeOK
<1>5. AgeBound(h2, age2)
  <2>0. DOMAIN new = 1..Len(new) /\ DOMAIN es = 1..Len(es)
    BY <1>1
  <2> SUFFICES ASSUME NEW i \in 1..Len(new)
               PROVE  age2[new[i].signature] >= Len(new) - i
    BY <2>0 DEF AgeBound
  <2>1. i \in 1..Len(es) /\ new[i] = es[i] /\ DOMAIN new = 1..Len(new)
    <3>1. Len(new) <= Len(es) /\ Len(new) \in Nat /\ Len(es) \in Nat
      BY <1>1
    <3>2. new[i] = es[i] /\ DOMAIN new = 1..Len(new)
      BY <1>1
    <3>. HIDE DEF new, es
    <3>. QED  BY <3>1, <3>2
  <2>2. age[es[i].signature] >= Len(es) - i
    BY <2>0, <2>1 DEF HistoryInv, AgeBound
  <2>3. HasKey(new, new[i].signature)
    BY <2>1 DEF HasKey
  <2>4. new[i].signature \in Signature
    <3>1. new[i] \in Entry
      BY <1>1
    <3>. QED  BY <3>1 DEF Entry
  <2>5. age2[new[i].signature] = age[es[i].signature]
    BY <1>2, <2>1, <2>3, <2>4
  <2>6. age[es[i].signature] \in 0..MaxCapacity
    BY <1>1, <2>1, <2>4
  <2>7. Len(new) <= Len(es) /\ Len(new) \in Nat /\ Len(es) \in Nat
    BY <1>1
  <2>. HIDE DEF new, es
  <2>. QED  BY <1>1, <2>2, <2>5, <2>6, <2>7
<1>6. Retained(h2, age2)
  BY <1>1, <1>2 DEF Retained, CheckTransaction
<1>. QED  BY <1>3, <1>4, <1>5, <1>6 DEF HistoryInv

\* set_capacity keeps the invariant, for each capacity it may end up with.
LEMMA SetCapacityInv ==
    ASSUME NEW h, NEW age, HistoryInv(h, age),
           NEW n \in 0..MaxCapacity, NEW h2 \in SetCapacity(h, n)
    PROVE  HistoryInv(h2, AgesAfterResize(h2, age))
<1>1. h \in History /\ Len(h.entries) <= h.capacity
  BY DEF HistoryInv, ShapeOK
<1>. QED  BY <1>1, SetCapacityFacts, PrefixInv
=============================================================================
