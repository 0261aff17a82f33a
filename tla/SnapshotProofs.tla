---------------------------- MODULE SnapshotProofs ----------------------------
(***************************************************************************)
(* Proofs about epoch stakes and snapshots, for any vote accounts, stakes, *)
(* limits and foreign files.  The total of a list of stakes is the sum of  *)
(* the map it makes, and of the entries that later ones replace            *)
(* (ListCount); the list a snapshot holds has none of those, and makes the *)
(* map it was taken from (ExtractFacts).  The inductive invariant SInv     *)
(* says how far the file has come while a save is under way, and which     *)
(* snapshot it holds once one was acknowledged.                            *)
(***************************************************************************)
EXTENDS Snapshot, OperatorProofs

\* Time for the provers on a busy machine; most leaves need a fraction.
USE SMTT(60), ZenonT(60)

NamesOnce(list) ==
    \A i, j \in DOMAIN list : list[i][1] = list[j][1] => i = j

-----------------------------------------------------------------------------
(* Lists of stakes.                                                        *)

\* The constants have the types the code gives them.
LEMMA StakeConstants ==
    /\ MaxStake \in Nat /\ IsFiniteSet(Vote) /\ Vote \subseteq Nat
    /\ Stake \subseteq Nat /\ 0 \in Stake
    /\ \A n \in Stake : n <= MaxStake
BY StakeAssumption, SnapshotAssumption DEF Stake

\* A set of numbers that is bounded and not empty has a largest element.
LEMMA LargestExists ==
    ASSUME NEW n \in Nat, NEW P \in SUBSET (1..n), P # {}
    PROVE  \E k \in P : \A j \in P : j <= k
<1> DEFINE Up == {m \in Nat : \A j \in P : j <= m}
<1>1. n \in Up
  OBVIOUS
<1>2. PICK m \in Up : \A l \in Up : ~(<<l, m>> \in OpToRel(<, Nat))
  <2>1. IsWellFoundedOn(OpToRel(<, Nat), Nat)
    BY ZenonT(60), NatLessThanWellFounded
  <2>2. Up \subseteq Nat /\ Up # {}
    BY <1>1
  <2> HIDE DEF Up
  <2> QED BY ZenonT(60), <2>1, <2>2, WFMin
<1>3. \A l \in Up : ~(l < m)
  <2>1. Up \subseteq Nat
    OBVIOUS
  <2> HIDE DEF Up
  <2> QED BY Zenon, <1>2, <2>1 DEF OpToRel
<1>4. m \in Nat /\ \A j \in P : j <= m
  OBVIOUS
<1>5. SUFFICES ASSUME m \notin P PROVE FALSE
  BY <1>4
<1>6. PICK j \in P : TRUE
  BY ZenonT(60)
<1>7. m - 1 \in Nat /\ \A k \in P : k <= m - 1
  BY <1>4, <1>5
<1> QED BY <1>3, <1>4, <1>7

\* The entry of a list that decides the stake of a vote account.
LEMMA ListEntry ==
    ASSUME NEW list \in Seq(Vote \X Stake), NamesOnce(list), NEW i \in DOMAIN list
    PROVE  /\ list[i][1] \in Vote /\ list[i][2] \in Stake
           /\ ListStakes(list)[list[i][1]] = list[i][2]
<1> DEFINE v == list[i][1]
           P == Positions(list, v)
<1>1. list[i] \in Vote \X Stake /\ v \in Vote /\ list[i][2] \in Stake
  OBVIOUS
<1>2. \A j \in P : j = i
  BY DEF Positions, NamesOnce
<1>3. CASE list[i][2] = 0
  <2>1. P = {}
    BY <1>2, <1>3 DEF Positions
  <2> HIDE DEF P
  <2> QED BY <1>1, <1>3, <2>1 DEF ListStakes, P
<1>4. CASE list[i][2] # 0
  <2>1. i \in P
    BY <1>4 DEF Positions
  <2>2. i \in Int
    OBVIOUS
  <2> HIDE DEF P
  <2>3. (CHOOSE k \in P : \A j \in P : j <= k) = i
    BY <1>2, <2>1, <2>2
  <2>4. P # {}
    BY <2>1
  <2> QED BY ZenonT(60), <1>1, <2>3, <2>4 DEF ListStakes, P
<1> QED BY <1>1, <1>3, <1>4

\* The stakes of a list are stakes, and a vote account that has one is named.
LEMMA ListTypes ==
    ASSUME NEW list \in Seq(Vote \X Stake)
    PROVE  /\ ListStakes(list) \in [Vote -> Stake]
           /\ \A v \in Vote : ListStakes(list)[v] # 0 =>
                 \E i \in DOMAIN list : list[i][1] = v
<1>1. ASSUME NEW v \in Vote
      PROVE  /\ ListStakes(list)[v] \in Stake
             /\ ListStakes(list)[v] # 0 => \E i \in DOMAIN list : list[i][1] = v
  <2> DEFINE P == Positions(list, v)
  <2>1. ListStakes(list)[v] =
          IF P = {} THEN 0 ELSE list[CHOOSE k \in P : \A j \in P : j <= k][2]
    BY DEF ListStakes
  <2>2. CASE P = {}
    BY <2>1, <2>2, StakeConstants
  <2>3. CASE P # {}
    <3>1. P \subseteq 1..Len(list) /\ Len(list) \in Nat
      BY DEF Positions
    <3>2. \E k \in P : \A j \in P : j <= k
      BY ZenonT(60), <2>3, <3>1, LargestExists
    <3>3. (CHOOSE k \in P : \A j \in P : j <= k) \in P
      BY <3>2
    <3>4. \A k \in P : k \in DOMAIN list /\ list[k] \in Vote \X Stake /\ list[k][1] = v
      BY DEF Positions
    <3> HIDE DEF P
    <3> QED BY <2>1, <2>3, <3>3, <3>4
  <2> QED BY <2>2, <2>3
<1> QED BY ZenonT(60), <1>1 DEF ListStakes

\* Where the map takes its stakes from: the last entry of a vote account that
\* is not dropped.
LastOf(list) ==
    {i \in DOMAIN list : /\ list[i][2] # 0
                         /\ \A j \in Positions(list, list[i][1]) : j <= i}

\* The entries that a later one replaces.
Outdated(list) == {i \in DOMAIN list : \E j \in Positions(list, list[i][1]) : j > i}

\* The last entries are the stakes of the map, one for each vote account that
\* has one.
LEMMA LastEntries ==
    ASSUME NEW list \in Seq(Vote \X Stake)
    PROVE  /\ \A i \in LastOf(list) : ListStakes(list)[list[i][1]] = list[i][2]
           /\ \A i, j \in LastOf(list) : list[i][1] = list[j][1] => i = j
           /\ \A v \in Vote : ListStakes(list)[v] # 0 =>
                 \E i \in LastOf(list) : v = list[i][1]
<1> DEFINE Decides(P) == CHOOSE k \in P : \A j \in P : j <= k
<1>1. DOMAIN list = 1..Len(list) /\ Len(list) \in Nat
  OBVIOUS
<1>2. \A i \in DOMAIN list : list[i][1] \in Vote /\ list[i][2] \in Stake
  OBVIOUS
<1>3. \A v \in Vote : ListStakes(list)[v] =
         IF Positions(list, v) = {} THEN 0 ELSE list[Decides(Positions(list, v))][2]
  BY DEF ListStakes
<1>4. \A i, j \in LastOf(list) : list[i][1] = list[j][1] => i = j
  <2> SUFFICES ASSUME NEW i \in LastOf(list), NEW j \in LastOf(list), list[i][1] = list[j][1]
               PROVE  i = j
    OBVIOUS
  <2>1. i \in Positions(list, list[j][1]) /\ j \in Positions(list, list[i][1])
    BY DEF LastOf, Positions
  <2>2. i <= j /\ j <= i /\ i \in Nat /\ j \in Nat
    BY <1>1, <2>1 DEF LastOf
  <2> QED BY <2>2
<1>5. ASSUME NEW i \in LastOf(list) PROVE ListStakes(list)[list[i][1]] = list[i][2]
  <2> DEFINE P == Positions(list, list[i][1])
  <2>1. i \in P /\ P \subseteq DOMAIN list /\ \A j \in P : j <= i
    BY DEF LastOf, Positions
  <2>2. \A j \in P : j \in Int
    BY <1>1, <2>1
  <2>3. i \in DOMAIN list
    BY <2>1
  <2> HIDE DEF P
  <2>4. Decides(P) = i
    BY <2>1, <2>2
  <2>5. P # {}
    BY <2>1
  <2> HIDE DEF Decides
  <2> QED BY <1>2, <1>3, <2>3, <2>4, <2>5 DEF P
<1>6. ASSUME NEW v \in Vote, ListStakes(list)[v] # 0
      PROVE  \E i \in LastOf(list) : v = list[i][1]
  <2> DEFINE P == Positions(list, v)
  <2>1. P # {}
    BY <1>3, <1>6
  <2>2. P \subseteq 1..Len(list)
    BY <1>1 DEF Positions
  <2>3. PICK k \in P : \A j \in P : j <= k
    BY ZenonT(60), <1>1, <2>1, <2>2, LargestExists
  <2>4. k \in LastOf(list) /\ list[k][1] = v
    BY <2>3 DEF Positions, LastOf
  <2> QED BY <2>4
<1> QED BY <1>4, <1>5, <1>6

\* The total of a list is the sum of the map it makes, and what it holds in
\* entries that a later one replaces.
LEMMA ListCount ==
    ASSUME NEW list \in Seq(Vote \X Stake)
    PROVE  /\ ListTotal(list) = Sum(ListStakes(list)) + Replaced(list)
           /\ Sum(ListStakes(list)) \in Nat /\ Replaced(list) \in Nat
<1> DEFINE S == DOMAIN list
           K == LastOf(list)
           O == Outdated(list)
           f == [i \in S |-> list[i][2]]
           last == [i \in K |-> f[i]]
           rest == [i \in S \ K |-> f[i]]
           old == [i \in O |-> list[i][2]]
           g == ListStakes(list)
           h == [i \in K |-> list[i][1]]
           id == [i \in O |-> i]
<1>1. IsFiniteSet(S) /\ S = 1..Len(list) /\ Len(list) \in Nat
  <2>1. S = 1..Len(list) /\ Len(list) \in Nat
    OBVIOUS
  <2> QED BY <2>1, FS_Interval
<1>2. K \in SUBSET S /\ O \in SUBSET S
  BY DEF LastOf, Outdated
<1>3. IsFiniteSet(K) /\ IsFiniteSet(O) /\ IsFiniteSet(S \ K) /\ IsFiniteSet(Vote)
  <2> HIDE DEF S, K, O
  <2> QED BY ZenonT(60), <1>1, <1>2, FS_Subset, FS_Difference, StakeConstants
<1>4. \A i \in S : list[i][1] \in Vote /\ list[i][2] \in Nat
  <2>1. \A i \in S : list[i][1] \in Vote /\ list[i][2] \in Stake
    OBVIOUS
  <2>2. Stake \subseteq Nat
    BY StakeConstants
  <2> QED BY ZenonT(60), <2>1, <2>2
<1>5. f \in [S -> Nat] /\ last \in [K -> Nat] /\ rest \in [S \ K -> Nat] /\ old \in [O -> Nat]
  <2> HIDE DEF S, K, O
  <2> QED BY <1>2, <1>4
<1>6. g \in [Vote -> Nat]
  BY ZenonT(60), ListTypes, StakeConstants
<1>7. \A i \in S \ K : list[i][2] # 0 => i \in O
  <2> SUFFICES ASSUME NEW i \in S, i \notin K, list[i][2] # 0 PROVE i \in O
    OBVIOUS
  <2>1. PICK j \in Positions(list, list[i][1]) : ~(j <= i)
    BY DEF LastOf
  <2>2. j \in Nat /\ i \in Nat
    BY <1>1 DEF Positions
  <2> QED BY <2>1, <2>2 DEF Outdated
<1>8. \A i \in O : i \notin K
  <2> SUFFICES ASSUME NEW i \in O, i \in K PROVE FALSE
    OBVIOUS
  <2>1. PICK j \in Positions(list, list[i][1]) : j > i
    BY DEF Outdated
  <2>2. j <= i /\ j \in Nat /\ i \in Nat
    BY <1>1, <1>2, <2>1 DEF LastOf, Positions
  <2> QED BY <2>1, <2>2
<1>9. Sum(f) = Sum(last) + Sum(rest)
  <2> HIDE DEF S, K, f
  <2>1. IsFiniteSet(S) /\ f \in [S -> Nat] /\ K \in SUBSET S
    BY <1>1, <1>2, <1>5
  <2>2. Sum(f) = Sum([i \in K |-> f[i]]) + Sum([i \in S \ K |-> f[i]])
    BY <2>1, SumSplit
  <2> QED BY ZenonT(60), <2>2
<1>10. Sum(last) = Sum(g)
  <2>1. h \in [K -> Vote] /\ \A i \in K : h[i] = list[i][1] /\ last[i] = list[i][2]
    <3> HIDE DEF S, K
    <3> QED BY <1>2, <1>4
  <2>2. /\ \A i \in K : g[list[i][1]] = list[i][2]
        /\ \A i, j \in K : list[i][1] = list[j][1] => i = j
        /\ \A v \in Vote : g[v] # 0 => \E i \in K : v = list[i][1]
    BY LastEntries
  <2> HIDE DEF S, K, g, h, last
  <2>3. \A i \in K : last[i] = g[h[i]]
    BY <2>1, <2>2
  <2>4. \A i, j \in K : h[i] = h[j] => i = j
    BY <2>1, <2>2
  <2>5. \A v \in Vote : g[v] # 0 => \E i \in K : v = h[i]
    BY <2>1, <2>2
  <2>6. Renames(h, last, K, g, Vote)
    BY ZenonT(60), <1>5, <1>6, <2>1, <2>3, <2>4, <2>5 DEF Renames
  <2> QED BY <1>3, <2>6, SumRename
<1>11. Sum(old) = Sum(rest)
  <2>1. id \in [O -> S \ K] /\ \A i \in O : id[i] = i
    <3> HIDE DEF S, K, O
    <3> QED BY <1>2, <1>8
  <2>2. \A i \in O : old[i] = list[i][2]
    OBVIOUS
  <2>3. \A i \in S \ K : rest[i] = list[i][2]
    OBVIOUS
  <2> HIDE DEF S, K, O, old, rest, id
  <2>4. Renames(id, old, O, rest, S \ K)
    BY <1>2, <1>5, <1>7, <1>8, <2>1, <2>2, <2>3 DEF Renames
  <2> QED BY <1>3, <2>4, SumRename
<1>12. ListTotal(list) = Sum(f) /\ Replaced(list) = Sum(old)
  BY DEF ListTotal, Replaced, Outdated
<1>13. Sum(g) \in Nat /\ Sum(old) \in Nat
  <2> HIDE DEF g, old, O
  <2> QED BY <1>3, <1>5, <1>6, SumIsCount
<1> HIDE DEF S, K, O, f, last, rest, old
<1> QED BY <1>9, <1>10, <1>11, <1>12, <1>13 DEF g

\* A list that names each vote account once has nothing to replace.
LEMMA ListFacts ==
    ASSUME NEW list \in Seq(Vote \X Stake), NamesOnce(list)
    PROVE  /\ Replaced(list) = 0
           /\ ListTotal(list) = Sum(ListStakes(list)) /\ ListTotal(list) \in Nat
<1>1. Outdated(list) = {}
  <2> SUFFICES ASSUME NEW i \in Outdated(list) PROVE FALSE
    OBVIOUS
  <2>1. PICK j \in Positions(list, list[i][1]) : j > i
    BY DEF Outdated
  <2>2. i = j /\ i \in Int
    BY <2>1 DEF Positions, Outdated, NamesOnce
  <2> QED BY <2>1, <2>2
<1>2. Replaced(list) = Sum([i \in {} |-> 0])
  <2>1. [i \in Outdated(list) |-> list[i][2]] = [i \in {} |-> 0]
    BY <1>1
  <2>2. Replaced(list) = Sum([i \in Outdated(list) |-> list[i][2]])
    BY DEF Replaced, Outdated
  <2> QED BY ZenonT(60), <2>1, <2>2
<1>3. Replaced(list) = 0
  BY ZenonT(60), <1>2, FS_EmptySet, SumZero
<1> QED BY <1>3, ListCount

-----------------------------------------------------------------------------
(* The stakes of a snapshot.                                               *)

Ascending(s) == \A i, j \in DOMAIN s : i < j => s[i] < s[j]

\* A finite set of numbers has an ascending enumeration: the element at place
\* i is the one with i elements up to it.
LEMMA EnumerationExists ==
    ASSUME NEW S \in SUBSET Nat, IsFiniteSet(S)
    PROVE  \E s \in [1..Cardinality(S) -> S] : Ascending(s)
<1> DEFINE n == Cardinality(S)
           UpTo(v) == {w \in S : w <= v}
           rank == [v \in S |-> Cardinality(UpTo(v))]
<1>1. n \in Nat /\ IsFiniteSet(1..n) /\ Cardinality(1..n) = n
  <2>1. n \in Nat
    BY FS_CardinalityType
  <2> HIDE DEF n
  <2> QED BY <2>1, FS_Interval
<1>2. ASSUME NEW v \in S PROVE IsFiniteSet(UpTo(v)) /\ rank[v] \in 1..n
  <2>1. UpTo(v) \in SUBSET S
    OBVIOUS
  <2>2. IsFiniteSet(UpTo(v)) /\ Cardinality(UpTo(v)) <= n
    BY <2>1, FS_Subset
  <2>3. Cardinality(UpTo(v)) \in Nat
    BY <2>2, FS_CardinalityType
  <2>4. v \in UpTo(v)
    OBVIOUS
  <2>5. Cardinality(UpTo(v)) # 0
    BY <2>2, <2>4, FS_EmptySet
  <2>6. rank[v] = Cardinality(UpTo(v))
    OBVIOUS
  <2> HIDE DEF n, UpTo, rank
  <2> QED BY <1>1, <2>2, <2>3, <2>5, <2>6
<1>3. ASSUME NEW v \in S, NEW w \in S, v < w PROVE rank[v] < rank[w]
  <2>1. UpTo(v) \in SUBSET UpTo(w) /\ w \in UpTo(w) /\ w \notin UpTo(v)
    <3>1. \A u \in S : u \in Nat
      OBVIOUS
    <3>2. \A u \in S : u <= v => u <= w
      BY <1>3, <3>1
    <3>3. w <= w /\ ~(w <= v)
      BY <1>3, <3>1
    <3> QED BY ZenonT(60), <3>2, <3>3
  <2>2. IsFiniteSet(UpTo(w)) /\ IsFiniteSet(UpTo(v))
    BY <1>2
  <2>3. rank[v] = Cardinality(UpTo(v)) /\ rank[w] = Cardinality(UpTo(w))
    OBVIOUS
  <2> HIDE DEF UpTo, rank
  <2>4. Cardinality(UpTo(v)) <= Cardinality(UpTo(w))
        /\ Cardinality(UpTo(w)) # Cardinality(UpTo(v))
    BY <2>1, <2>2, FS_Subset
  <2>5. Cardinality(UpTo(v)) \in Nat /\ Cardinality(UpTo(w)) \in Nat
    BY <2>2, FS_CardinalityType
  <2> QED BY <2>3, <2>4, <2>5
<1>4. rank \in Injection(S, 1..n)
  <2>1. rank \in [S -> 1..n]
    BY <1>2
  <2>2. \A v, w \in S : rank[v] = rank[w] => v = w
    <3> SUFFICES ASSUME NEW v \in S, NEW w \in S, rank[v] = rank[w], v # w PROVE FALSE
      OBVIOUS
    <3>1. v < w \/ w < v
      OBVIOUS
    <3>2. rank[v] \in Nat /\ rank[w] \in Nat
      BY <1>1, <1>2
    <3> HIDE DEF rank
    <3> QED BY <1>3, <3>1, <3>2
  <2> HIDE DEF rank
  <2> QED BY <2>1, <2>2 DEF Injection, IsInjective
<1> HIDE DEF rank, n
<1>5. rank \in Surjection(S, 1..n)
  BY <1>1, <1>4, FS_Injection DEF n
<1> DEFINE s == [i \in 1..n |-> CHOOSE v \in S : rank[v] = i]
<1>6. \A i \in 1..n : s[i] \in S /\ rank[s[i]] = i
  BY <1>5 DEF Surjection
<1>7. s \in [1..n -> S]
  BY <1>6
<1>8. ASSUME NEW i \in 1..n, NEW j \in 1..n, i < j PROVE s[i] < s[j]
  <2>1. s[i] \in S /\ s[j] \in S /\ rank[s[i]] = i /\ rank[s[j]] = j
    BY <1>6
  <2> HIDE DEF s
  <2>2. s[i] \in Nat /\ s[j] \in Nat /\ i \in Nat /\ j \in Nat
    <3>1. \A v \in S : v \in Nat
      OBVIOUS
    <3>2. i \in Nat /\ j \in Nat
      BY <1>1
    <3> QED BY ZenonT(60), <2>1, <3>1, <3>2
  <2>3. s[j] < s[i] => j < i
    BY ZenonT(60), <1>3, <2>1
  <2>4. s[i] # s[j]
    BY <1>8, <2>1, <2>2
  <2> QED BY <1>8, <2>2, <2>3, <2>4
<1> HIDE DEF s
<1>9. DOMAIN s = 1..n
  BY <1>7
<1>10. Ascending(s)
  BY <1>8, <1>9 DEF Ascending
<1> QED BY <1>7, <1>10 DEF n

\* The list extract_snapshot makes of a map of stakes.
Staked(stakes) == {v \in Vote : stakes[v] # 0}
Order(stakes) ==
    CHOOSE s \in [1..Cardinality(Staked(stakes)) -> Staked(stakes)] : Ascending(s)
ListOf(stakes) ==
    [i \in DOMAIN Order(stakes) |-> <<Order(stakes)[i], stakes[Order(stakes)[i]]>>]

\* extract_stakes is that list of the VM's map.
LEMMA ExtractIsListOf == extract_stakes = ListOf(epoch_vote_stakes)
BY DEF extract_stakes, ListOf, Order, Staked, Ascending

\* The enumeration has every vote account with a stake exactly once.
LEMMA OrderFacts ==
    ASSUME NEW stakes \in [Vote -> Stake]
    PROVE  /\ Cardinality(Staked(stakes)) \in Nat
           /\ Order(stakes) \in [1..Cardinality(Staked(stakes)) -> Staked(stakes)]
           /\ \A i, j \in DOMAIN Order(stakes) :
                 Order(stakes)[i] = Order(stakes)[j] => i = j
           /\ \A v \in Staked(stakes) : \E i \in DOMAIN Order(stakes) : Order(stakes)[i] = v
<1> DEFINE S == Staked(stakes)
           n == Cardinality(S)
           s == Order(stakes)
<1>1. S \in SUBSET Nat /\ IsFiniteSet(S)
  <2>1. S \in SUBSET Vote
    BY DEF Staked
  <2> QED BY ZenonT(60), <2>1, StakeConstants, FS_Subset
<1>2. n \in Nat
  BY <1>1, FS_CardinalityType
<1>3. s \in [1..n -> S] /\ Ascending(s)
  <2>1. \E q \in [1..n -> S] : Ascending(q)
    BY <1>1, EnumerationExists
  <2> QED BY <2>1 DEF Order
<1>4. IsFiniteSet(1..n) /\ Cardinality(1..n) = n
  <2> HIDE DEF n
  <2> QED BY <1>2, FS_Interval
<1> HIDE DEF S, s
<1>5. \A i, j \in DOMAIN s : s[i] = s[j] => i = j
  <2> SUFFICES ASSUME NEW i \in 1..n, NEW j \in 1..n, s[i] = s[j], i < j PROVE FALSE
    BY <1>2, <1>3
  <2>1. s[i] < s[j] /\ s[i] \in Nat
    BY ZenonT(60), <1>1, <1>3 DEF Ascending
  <2> QED BY <2>1
<1>6. s \in Injection(1..n, S)
  BY <1>3, <1>5 DEF Injection, IsInjective
<1>7. s \in Surjection(1..n, S)
  BY <1>1, <1>4, <1>6, FS_Injection
<1>8. \A v \in S : \E i \in DOMAIN s : s[i] = v
  BY <1>3, <1>7 DEF Surjection
<1> QED BY <1>2, <1>3, <1>5, <1>8 DEF S, s

\* The list of a map names each vote account once, makes the same map again,
\* and its total is the map's sum.
LEMMA ExtractFacts ==
    ASSUME NEW stakes \in [Vote -> Stake]
    PROVE  /\ ListOf(stakes) \in Seq(Vote \X Stake)
           /\ NamesOnce(ListOf(stakes))
           /\ ListStakes(ListOf(stakes)) = stakes
           /\ ListTotal(ListOf(stakes)) = Sum(stakes)
<1> DEFINE s == Order(stakes)
           n == Cardinality(Staked(stakes))
           list == ListOf(stakes)
<1>1. /\ n \in Nat /\ s \in [1..n -> Staked(stakes)]
      /\ \A i, j \in 1..n : s[i] = s[j] => i = j
      /\ \A v \in Staked(stakes) : \E i \in 1..n : s[i] = v
  BY OrderFacts
<1>2. list = [i \in 1..n |-> <<s[i], stakes[s[i]]>>]
  BY <1>1 DEF ListOf
<1>3. Staked(stakes) \subseteq Vote /\ \A v \in Vote : stakes[v] # 0 => v \in Staked(stakes)
  BY DEF Staked
<1> HIDE DEF s, n, list
<1>4. \A i \in 1..n : <<s[i], stakes[s[i]]>> \in Vote \X Stake
  BY <1>1, <1>3
<1>5. list \in Seq(Vote \X Stake) /\ DOMAIN list = 1..n
  BY <1>1, <1>2, <1>4
<1>6. \A i \in 1..n : list[i][1] = s[i] /\ list[i][2] = stakes[s[i]]
  BY <1>2
<1>7. NamesOnce(list)
  BY <1>1, <1>5, <1>6 DEF NamesOnce
<1>8. ASSUME NEW v \in Vote PROVE ListStakes(list)[v] = stakes[v]
  <2>1. CASE stakes[v] # 0
    <3>1. PICK i \in 1..n : s[i] = v
      BY <1>1, <1>3, <2>1
    <3>2. list[i][1] = v /\ list[i][2] = stakes[v]
      BY <1>6, <3>1
    <3> QED BY ZenonT(60), <1>5, <1>7, <3>2, ListEntry
  <2>2. CASE stakes[v] = 0
    <3> SUFFICES ASSUME ListStakes(list)[v] # 0 PROVE FALSE
      BY <2>2
    <3>1. PICK i \in DOMAIN list : list[i][1] = v
      BY ZenonT(60), <1>5, ListTypes
    <3>2. ListStakes(list)[v] = list[i][2] /\ list[i][2] = stakes[v]
      BY ZenonT(60), <1>5, <1>6, <1>7, <3>1, ListEntry
    <3> QED BY <2>2, <3>2
  <2> QED BY <2>1, <2>2
<1>9. ListStakes(list) = stakes
  <2>1. ListStakes(list) \in [Vote -> Stake]
    BY <1>5, ListTypes
  <2> QED BY <1>8, <2>1
<1>10. ListTotal(list) = Sum(stakes)
  BY <1>5, <1>7, <1>9, ListFacts
<1> QED BY <1>5, <1>7, <1>9, <1>10 DEF list

-----------------------------------------------------------------------------
(* What a file loads into.                                                 *)

\* A version 1 state becomes one of today's: the budget keeps its limit.
LEMMA MigrationTypes ==
    ASSUME NEW st \in LiteSvmSnapshotV1
    PROVE  /\ LiteSvmSnapshotV2_from(st) \in LiteSvmSnapshotV2
           /\ LiteSvmSnapshotV2_from(st).carried = st.carried
           /\ {x.limit : x \in LiteSvmSnapshotV2_from(st).compute_budget}
                 = {x.limit : x \in st.compute_budget}
<1> DEFINE m == migrate_budget(st.compute_budget)
<1>1. /\ st.carried \in Carried /\ st.compute_budget \in Option([limit : Limit, modexp : Limit])
      /\ LiteSvmSnapshotV2_from(st) = [carried |-> st.carried, compute_budget |-> m]
  BY DEF LiteSvmSnapshotV1, LiteSvmSnapshotV2_from
<1>2. m \in Option([limit : Limit]) /\ {x.limit : x \in m} = {x.limit : x \in st.compute_budget}
  <2>1. CASE st.compute_budget = {}
    BY <2>1 DEF migrate_budget, Option
  <2>2. CASE st.compute_budget # {}
    <3>1. PICK x \in [limit : Limit, modexp : Limit] : st.compute_budget = {x}
      BY <1>1, <2>2 DEF Option
    <3>2. m = {[limit |-> x.limit]} /\ [limit |-> x.limit] \in [limit : Limit]
      BY <3>1 DEF migrate_budget
    <3> HIDE DEF m
    <3>3. {y.limit : y \in m} = {x.limit} /\ {y.limit : y \in st.compute_budget} = {x.limit}
      BY <3>1, <3>2
    <3>4. m \in Option([limit : Limit])
      BY <3>2 DEF Option
    <3> QED BY <3>3, <3>4
  <2> QED BY ZenonT(60), <2>1, <2>2
<1> HIDE DEF m
<1>3. /\ LiteSvmSnapshotV2_from(st).carried = st.carried
      /\ LiteSvmSnapshotV2_from(st).compute_budget = m
  BY <1>1
<1>4. LiteSvmSnapshotV2_from(st) \in LiteSvmSnapshotV2
  BY <1>1, <1>2 DEF LiteSvmSnapshotV2
<1> QED BY ZenonT(60), <1>2, <1>3, <1>4

\* What deserialize_snapshot makes of a file: the fields of today's version,
\* or an error.
LEMMA DeserializeTypes ==
    ASSUME NEW b, b # <<>>, ForeignFile(b), deserialize_snapshot(b).is = "Ok"
    PROVE  /\ deserialize_snapshot(b).state \in LiteSvmSnapshotV2
           /\ deserialize_snapshot(b).stakes \in Seq(Vote \X Stake)
           /\ deserialize_snapshot(b) = Ok(deserialize_snapshot(b).state,
                                           deserialize_snapshot(b).stakes)
<1> DEFINE d == deserialize_snapshot(b)
           Outcome(st, l) == st \in LiteSvmSnapshotV2 /\ l \in Seq(Vote \X Stake) /\ d = Ok(st, l)
<1>1. Err("Read").is # "Ok" /\ Err("UnsupportedVersion").is # "Ok"
  BY DEF Err
<1>2. <<>> \in Seq(Vote \X Stake)
  OBVIOUS
<1>3. CASE b[1] = V1_STATE_VERSION
  <2>1. d = IF Len(b) < 2 THEN Err("Read")
            ELSE LiteSvmSnapshotV3_from(LiteSvmSnapshotV2_from(b[2]))
    BY <1>3 DEF deserialize_snapshot, V1_STATE_VERSION, V2_STATE_VERSION, STATE_VERSION
  <2>2. ~(Len(b) < 2)
    BY <1>1, <2>1
  <2>3. b[2] \in LiteSvmSnapshotV1
    BY <1>3, <2>2 DEF ForeignFile, V1_STATE_VERSION, V2_STATE_VERSION, STATE_VERSION
  <2>4. d = Ok(LiteSvmSnapshotV2_from(b[2]), <<>>)
    BY Zenon, <2>1, <2>2 DEF LiteSvmSnapshotV3_from
  <2>5. Outcome(LiteSvmSnapshotV2_from(b[2]), <<>>)
    BY <1>2, <2>3, <2>4, MigrationTypes
  <2> QED BY <2>5 DEF Ok
<1>4. CASE b[1] = V2_STATE_VERSION
  <2>1. d = IF Len(b) < 2 THEN Err("Read") ELSE LiteSvmSnapshotV3_from(b[2])
    BY <1>4 DEF deserialize_snapshot, V1_STATE_VERSION, V2_STATE_VERSION, STATE_VERSION
  <2>2. ~(Len(b) < 2)
    BY <1>1, <2>1
  <2>3. b[2] \in LiteSvmSnapshotV2
    BY <1>4, <2>2 DEF ForeignFile, V1_STATE_VERSION, V2_STATE_VERSION, STATE_VERSION
  <2>4. d = Ok(b[2], <<>>)
    BY Zenon, <2>1, <2>2 DEF LiteSvmSnapshotV3_from
  <2>5. Outcome(b[2], <<>>)
    BY <1>2, <2>3, <2>4
  <2> QED BY <2>5 DEF Ok
<1>5. CASE b[1] = STATE_VERSION
  <2>1. d = IF Len(b) < 3 THEN Err("Read") ELSE Ok(b[2], b[3])
    BY <1>5 DEF deserialize_snapshot, V1_STATE_VERSION, V2_STATE_VERSION, STATE_VERSION
  <2>2. ~(Len(b) < 3)
    BY <1>1, <2>1
  <2>3. b[2] \in LiteSvmSnapshotV2 /\ b[3] \in Seq(Vote \X Stake)
    BY <1>5, <2>2 DEF ForeignFile, V1_STATE_VERSION, V2_STATE_VERSION, STATE_VERSION
  <2>4. Outcome(b[2], b[3])
    BY <2>1, <2>2, <2>3
  <2> QED BY <2>4 DEF Ok
<1>6. CASE b[1] \notin {V1_STATE_VERSION, V2_STATE_VERSION, STATE_VERSION}
  BY <1>1, <1>6 DEF deserialize_snapshot
<1> QED BY <1>3, <1>4, <1>5, <1>6

\* A file that loads holds a state and stakes that a VM can have.
LEMMA LoadedTypes ==
    ASSUME NEW b, ForeignFile(b), from_bytes(b).is = "Ok"
    PROVE  /\ from_bytes(b).state \in LiteSvmSnapshotV2
           /\ from_bytes(b).state.carried \notin Unloadable
           /\ from_bytes(b).stakes \in Seq(Vote \X Stake)
           /\ NamesOnce(from_bytes(b).stakes)
           /\ ListTotal(from_bytes(b).stakes) <= MaxStake
<1> DEFINE d == deserialize_snapshot(b)
<1>1. b # <<>>
  BY DEF from_bytes, Err
<1>2. from_bytes(b) = restore_from_snapshot(d)
  BY <1>1 DEF from_bytes
<1>3. Err("DuplicateEpochStake").is # "Ok" /\ Err("InvalidEpochStakes").is # "Ok"
      /\ Err("CacheRebuild").is # "Ok"
  BY DEF Err
<1> HIDE DEF d
<1>4. /\ from_bytes(b) = d /\ d.is = "Ok" /\ ~Duplicates(d.stakes)
      /\ ~(ListTotal(d.stakes) > MaxStake) /\ d.state.carried \notin Unloadable
  BY <1>2, <1>3 DEF restore_from_snapshot
<1>5. d.state \in LiteSvmSnapshotV2 /\ d.stakes \in Seq(Vote \X Stake)
  BY <1>1, <1>4, DeserializeTypes DEF d
<1>6. NamesOnce(d.stakes)
  BY <1>4 DEF Duplicates, NamesOnce
<1>7. ListTotal(d.stakes) \in Nat /\ MaxStake \in Nat
  BY <1>5, <1>6, ListFacts, StakeConstants
<1> QED BY <1>4, <1>5, <1>6, <1>7

\* What a complete snapshot loads into: itself, unless a program of it does
\* not load.
LEMMA CompleteLoads ==
    ASSUME NEW st \in LiteSvmSnapshotV2, NEW stakes \in [Vote -> Stake],
           Sum(stakes) <= MaxStake
    PROVE  from_bytes(<<STATE_VERSION, st, ListOf(stakes)>>) =
              IF st.carried \in Unloadable THEN Err("CacheRebuild")
              ELSE Ok(st, ListOf(stakes))
<1> DEFINE l == ListOf(stakes)
           b == <<STATE_VERSION, st, l>>
<1>1. b # <<>> /\ b[1] = STATE_VERSION /\ b[2] = st /\ b[3] = l /\ Len(b) = 3
  OBVIOUS
<1> HIDE DEF b
<1>2. deserialize_snapshot(b) = Ok(st, l)
  BY <1>1 DEF deserialize_snapshot, V1_STATE_VERSION, V2_STATE_VERSION, STATE_VERSION
<1>3. ~Duplicates(l) /\ ~(ListTotal(l) > MaxStake)
  <2>1. NamesOnce(l) /\ ListTotal(l) = Sum(stakes)
    BY ExtractFacts
  <2>2. Sum(stakes) \in Nat /\ MaxStake \in Nat
    <3>1. stakes \in [Vote -> Nat] /\ IsFiniteSet(Vote)
      BY ZenonT(60), StakeConstants
    <3> QED BY ZenonT(60), <3>1, SumIsCount, StakeConstants
  <2> HIDE DEF l
  <2> QED BY <2>1, <2>2 DEF NamesOnce, Duplicates
<1> HIDE DEF l
<1>4. from_bytes(b) = restore_from_snapshot(Ok(st, l))
  BY <1>1, <1>2 DEF from_bytes
<1>5. restore_from_snapshot(Ok(st, l)) =
        IF st.carried \in Unloadable THEN Err("CacheRebuild") ELSE Ok(st, l)
  BY <1>3 DEF restore_from_snapshot, Ok
<1> QED BY <1>4, <1>5 DEF b, l

\* load_from_file looks at the only content the file has.
LEMMA LoadIs ==
    ASSUME NEW b, file = {b}
    PROVE  load_from_file = from_bytes(b)
<1>1. file # {} /\ (CHOOSE bytes \in file : TRUE) = b
  OBVIOUS
<1> QED BY <1>1 DEF load_from_file
-----------------------------------------------------------------------------
(* The inductive invariant.                                                *)

\* The stakes are ones that fit, and the last call failed exactly when what it
\* asked for does not.
StakesInv ==
    /\ epoch_vote_stakes \in [Vote -> Stake] /\ asked \in [Vote -> Stake]
    /\ replaced \in Nat /\ askedReplaced \in Nat
    /\ TotalCountsReplaced /\ epoch_total_stake <= MaxStake
    /\ OverflowIsExact

StateInv == extract_snapshot_v2 \in LiteSvmSnapshotV2

\* At most one content, which is what some version wrote or its beginning.
FileInv ==
    /\ \A b, c \in file : b = c
    /\ \A b \in file : ForeignFile(b)

\* The file holds what was written so far of the VM that is being saved.
SaveInv ==
    \/ saving = {}
    \/ saving = {to_bytes} /\ file = {<<>>}
    \/ saving = {<<extract_snapshot_v2, extract_stakes>>} /\ file = {<<STATE_VERSION>>}
    \/ saving = {<<extract_stakes>>} /\ file = {<<STATE_VERSION, extract_snapshot_v2>>}
    \/ saving = {<<>>} /\ file = {to_bytes}

\* An acknowledged snapshot is the file's content.
GoodInv ==
    \A g \in good :
        /\ saving = {} /\ g = <<g[1], g[2]>>
        /\ g[1] \in LiteSvmSnapshotV2 /\ g[2] \in [Vote -> Stake]
        /\ Sum(g[2]) <= MaxStake
        /\ file = {<<STATE_VERSION, g[1], ListOf(g[2])>>}

SInv == StakesInv /\ StateInv /\ FileInv /\ SaveInv /\ GoodInv
\* A sum of stakes is a number, and one stake is at most the sum.
LEMMA StakeSums ==
    ASSUME NEW stakes \in [Vote -> Stake]
    PROVE  /\ Sum(stakes) \in Nat
           /\ \A v \in Vote, n \in Stake :
                 /\ stakes[v] <= Sum(stakes)
                 /\ [stakes EXCEPT ![v] = n] \in [Vote -> Stake]
                 /\ Sum([stakes EXCEPT ![v] = n]) = Sum(stakes) - stakes[v] + n
<1>1. stakes \in [Vote -> Nat] /\ IsFiniteSet(Vote) /\ Stake \subseteq Nat
  BY ZenonT(60), StakeConstants
<1>2. Sum(stakes) \in Nat
  BY <1>1, SumIsCount
<1>3. ASSUME NEW v \in Vote, NEW n \in Stake
      PROVE  /\ stakes[v] <= Sum(stakes)
             /\ Sum([stakes EXCEPT ![v] = n]) = Sum(stakes) - stakes[v] + n
  <2>1. n \in Nat
    BY <1>1
  <2> QED BY ZenonT(60), <1>1, <2>1, SumExcept
<1> QED BY <1>2, <1>3

\* A VM without stakes.
LEMMA NoStakes ==
    /\ [v \in Vote |-> 0] \in [Vote -> Stake]
    /\ Sum([v \in Vote |-> 0]) = 0
<1>1. Sum([v \in Vote |-> 0]) = 0
  BY ZenonT(60), StakeConstants, SumZero
<1> QED BY <1>1, StakeConstants

\* A step that leaves the stakes alone and returns Ok, or says what it asked for.
LEMMA QuietStakes ==
    ASSUME StakesInv, UNCHANGED <<epoch_vote_stakes, epoch_total_stake>>,
           StakesKept
    PROVE  StakesInv'
<1>1. Sum(epoch_vote_stakes) \in Nat /\ MaxStake \in Nat
  BY StakeSums, StakeConstants DEF StakesInv
<1>2. /\ result' = "Ok" /\ asked' = epoch_vote_stakes
      /\ askedReplaced' = replaced /\ replaced' = replaced
  BY DEF StakesKept, Asks
<1>3. OverflowIsExact'
  BY <1>1, <1>2 DEF StakesInv, TotalCountsReplaced, OverflowIsExact
<1> QED BY <1>2, <1>3 DEF StakesInv, TotalCountsReplaced

\* A list, stored or refused.
LEMMA ListStored ==
    ASSUME StakesInv, NEW list \in Seq(Vote \X Stake),
           SetEpochStakes(list), Asks(ListStakes(list), Replaced(list))
    PROVE  StakesInv'
<1>1. /\ ListTotal(list) = Sum(ListStakes(list)) + Replaced(list)
      /\ Sum(ListStakes(list)) \in Nat /\ Replaced(list) \in Nat
      /\ ListStakes(list) \in [Vote -> Stake] /\ MaxStake \in Nat
  BY ListCount, ListTypes, StakeConstants
<1>4. asked' = ListStakes(list) /\ askedReplaced' = Replaced(list)
  BY DEF Asks
<1>2. CASE ListTotal(list) > MaxStake
  <2>1. Overflow /\ replaced' = replaced
    BY <1>2 DEF SetEpochStakes, Overflow, Asks
  <2>2. OverflowIsExact'
    BY <1>4, <1>1, <1>2, <2>1 DEF Overflow, OverflowIsExact
  <2> QED BY <1>4, <1>1, <2>1, <2>2 DEF Overflow, StakesInv, TotalCountsReplaced
<1>3. CASE ~(ListTotal(list) > MaxStake)
  <2>1. Store(ListStakes(list), ListTotal(list)) /\ replaced' = Replaced(list)
    BY <1>3 DEF SetEpochStakes, Store, Asks
  <2>2. OverflowIsExact'
    BY <1>4, <1>1, <1>3, <2>1 DEF Store, OverflowIsExact
  <2> QED BY <1>4, <1>1, <1>3, <2>1, <2>2 DEF Store, StakesInv, TotalCountsReplaced
<1> QED BY <1>2, <1>3

\* One stake, stored or refused: the checked subtraction never fails, and the
\* total follows the map.
LEMMA OneStored ==
    ASSUME StakesInv, NEW v \in Vote, NEW stake \in Stake,
           SetEpochStake(v, stake),
           Asks([epoch_vote_stakes EXCEPT ![v] = stake], replaced)
    PROVE  StakesInv'
<1> DEFINE total == epoch_total_stake - epoch_vote_stakes[v] + stake
           new == [epoch_vote_stakes EXCEPT ![v] = stake]
<1>1. /\ new \in [Vote -> Stake] /\ Sum(new) + replaced = total /\ replaced \in Nat
      /\ ~(epoch_vote_stakes[v] > epoch_total_stake)
      /\ total \in Nat /\ MaxStake \in Nat
  <2>1. /\ new \in [Vote -> Stake]
        /\ Sum(new) = Sum(epoch_vote_stakes) - epoch_vote_stakes[v] + stake
        /\ epoch_vote_stakes[v] <= Sum(epoch_vote_stakes)
        /\ Sum(epoch_vote_stakes) \in Nat
    <3>1. epoch_vote_stakes \in [Vote -> Stake]
      BY DEF StakesInv
    <3> DEFINE f == epoch_vote_stakes
    <3>2. /\ Sum(f) \in Nat
          /\ \A w \in Vote, n \in Stake :
                /\ f[w] <= Sum(f)
                /\ [f EXCEPT ![w] = n] \in [Vote -> Stake]
                /\ Sum([f EXCEPT ![w] = n]) = Sum(f) - f[w] + n
      BY <3>1, StakeSums
    <3> QED BY ZenonT(60), <3>1, <3>2
  <2>2. epoch_vote_stakes[v] \in Nat /\ stake \in Nat /\ MaxStake \in Nat
    BY ZenonT(60), StakeConstants DEF StakesInv
  <2>3. epoch_total_stake = Sum(epoch_vote_stakes) + replaced /\ replaced \in Nat
    BY DEF StakesInv, TotalCountsReplaced
  <2> QED BY <2>1, <2>2, <2>3
<1>2. IF total > MaxStake THEN Overflow ELSE Store(new, total)
  BY <1>1 DEF SetEpochStake
<1> HIDE DEF total, new
<1>3. /\ asked' = new /\ askedReplaced' = replaced /\ replaced' = replaced
  BY DEF new, Asks
<1>4. CASE total > MaxStake
  <2>1. Overflow
    BY <1>2, <1>4
  <2>2. OverflowIsExact'
    BY ZenonT(60), <1>1, <1>3, <1>4, <2>1 DEF Overflow, OverflowIsExact
  <2> QED BY <1>1, <1>3, <2>1, <2>2 DEF Overflow, StakesInv, TotalCountsReplaced
<1>5. CASE ~(total > MaxStake)
  <2>1. Store(new, total)
    BY <1>2, <1>5
  <2>2. OverflowIsExact'
    BY ZenonT(60), <1>1, <1>3, <1>5, <2>1 DEF Store, OverflowIsExact
  <2>3. epoch_vote_stakes' = new /\ epoch_total_stake' = total /\ total <= MaxStake
    BY <1>1, <1>5, <2>1 DEF Store
  <2> QED BY ZenonT(60), <1>1, <1>3, <2>2, <2>3 DEF StakesInv, TotalCountsReplaced
<1> QED BY <1>4, <1>5
\* A load that succeeds returns a state and stakes that a VM can have.
LEMMA LoadOk ==
    ASSUME FileInv, load_from_file.is = "Ok"
    PROVE  \E b \in file :
              /\ ForeignFile(b) /\ load_from_file = from_bytes(b)
              /\ load_from_file.state \in LiteSvmSnapshotV2
              /\ load_from_file.stakes \in Seq(Vote \X Stake)
              /\ NamesOnce(load_from_file.stakes)
<1>1. file # {}
  BY DEF load_from_file, Err
<1>2. PICK b \in file : file = {b} /\ ForeignFile(b)
  BY <1>1 DEF FileInv
<1>3. load_from_file = from_bytes(b)
  BY <1>2, LoadIs
<1>4. from_bytes(b).is = "Ok"
  BY <1>3
<1>5. /\ from_bytes(b).state \in LiteSvmSnapshotV2
      /\ from_bytes(b).stakes \in Seq(Vote \X Stake)
      /\ NamesOnce(from_bytes(b).stakes)
  BY <1>2, <1>4, LoadedTypes
<1> QED BY <1>2, <1>3, <1>5

\* Every step keeps the stakes and their total together.
LEMMA StakesStep == SInv /\ [Next]_vars => StakesInv'
<1> SUFFICES ASSUME SInv, [Next]_vars PROVE StakesInv'
  OBVIOUS
<1>1. StakesInv /\ FileInv
  BY DEF SInv
<1>2. CASE Change
  <2>1. CASE SetStakes
    <3>1. ASSUME NEW v \in Vote, NEW stake \in Stake, SetEpochStake(v, stake),
                 Asks([epoch_vote_stakes EXCEPT ![v] = stake], replaced)
          PROVE  StakesInv'
      BY ZenonT(60), <1>1, <3>1, OneStored
    <3>2. ASSUME NEW list \in StakeLists, SetEpochStakes(list),
                 Asks(ListStakes(list), Replaced(list))
          PROVE  StakesInv'
      <4>1. list \in Seq(Vote \X Stake)
        BY StakeAssumption
      <4> QED BY <1>1, <3>2, <4>1, ListStored
    <3> QED BY <2>1, <3>1, <3>2 DEF SetStakes
  <2>2. CASE ~SetStakes
    BY <1>1, <1>2, <2>2, QuietStakes DEF Change
  <2> QED BY <2>1, <2>2
<1>3. CASE SaveBegin \/ SaveWrite \/ SaveFail \/ SaveEnd
  <2>1. NoVM
    BY <1>3 DEF SaveBegin, SaveWrite, SaveFail, SaveEnd
  <2> QED BY <1>1, <2>1, QuietStakes DEF NoVM, vm
<1>4. CASE Crash
  <2>1. /\ epoch_vote_stakes' = [v \in Vote |-> 0] /\ epoch_total_stake' = 0
        /\ asked' = [v \in Vote |-> 0] /\ result' = "Ok"
        /\ replaced' = 0 /\ askedReplaced' = 0
    BY <1>4 DEF Crash, FreshVM, Asks
  <2>2. 0 <= MaxStake /\ ~(0 > MaxStake)
    BY StakeConstants
  <2> QED BY <2>1, <2>2, NoStakes DEF StakesInv, TotalCountsReplaced, OverflowIsExact
<1>5. CASE Load
  <2>1. CASE load_from_file.is = "Ok"
    <3>1. load_from_file.stakes \in Seq(Vote \X Stake)
      BY <1>1, <2>1, LoadOk
    <3>2. /\ SetEpochStakes(load_from_file.stakes)
          /\ Asks(ListStakes(load_from_file.stakes), Replaced(load_from_file.stakes))
      BY <1>5, <2>1 DEF Load, Restore
    <3> QED BY <1>1, <3>1, <3>2, ListStored
  <2>2. CASE load_from_file.is # "Ok"
    <3>1. NoVM
      BY <1>5, <2>2 DEF Load
    <3> QED BY <1>1, <3>1, QuietStakes DEF NoVM, vm
  <2> QED BY <2>1, <2>2
<1>6. CASE UNCHANGED vars
  BY <1>1, <1>6 DEF vars, StakesInv, TotalCountsReplaced, OverflowIsExact
<1> QED BY <1>2, <1>3, <1>4, <1>5, <1>6 DEF Next

\* The state of a snapshot, for the state the next step leaves.
LEMMA StateIs ==
    ASSUME NEW c \in Carried, NEW budget \in Option([limit : Limit])
    PROVE  [carried |-> c, compute_budget |-> budget] \in LiteSvmSnapshotV2
BY DEF LiteSvmSnapshotV2

\* Every step leaves a VM that a snapshot can hold.
LEMMA StateStep == SInv /\ [Next]_vars => StateInv'
<1> SUFFICES ASSUME SInv, [Next]_vars PROVE StateInv'
  OBVIOUS
<1>1. carried \in Carried /\ compute_budget \in Option([limit : Limit]) /\ FileInv
  BY DEF SInv, StateInv, extract_snapshot_v2, LiteSvmSnapshotV2
<1>2. SUFFICES carried' \in Carried /\ compute_budget' \in Option([limit : Limit])
  BY ZenonT(60), <1>2, StateIs DEF StateInv, extract_snapshot_v2
<1>3. CASE Change
  <2>1. CASE UNCHANGED compute_budget
    BY <1>1, <1>3, <2>1 DEF Change
  <2>2. ASSUME NEW l \in Limit, compute_budget' = {[limit |-> l]}, UNCHANGED carried
        PROVE  carried' \in Carried /\ compute_budget' \in Option([limit : Limit])
    BY <1>1, <2>2 DEF Option
  <2> QED BY ZenonT(60), <1>3, <2>1, <2>2 DEF Change
<1>4. CASE SaveBegin \/ SaveWrite \/ SaveFail \/ SaveEnd
  BY <1>1, <1>4 DEF SaveBegin, SaveWrite, SaveFail, SaveEnd, NoVM, vm
<1>5. CASE Crash
  BY <1>5 DEF Crash, FreshVM, Option
<1>6. CASE Load
  <2>1. CASE load_from_file.is = "Ok"
    <3>1. load_from_file.state \in LiteSvmSnapshotV2
      BY <1>1, <2>1, LoadOk
    <3>2. /\ carried' = load_from_file.state.carried
          /\ compute_budget' = load_from_file.state.compute_budget
      BY <1>6, <2>1 DEF Load, Restore
    <3> QED BY <3>1, <3>2 DEF LiteSvmSnapshotV2
  <2>2. CASE load_from_file.is # "Ok"
    BY <1>1, <1>6, <2>2 DEF Load, NoVM, vm
  <2> QED BY <2>1, <2>2
<1>7. CASE UNCHANGED vars
  BY <1>1, <1>7 DEF vars
<1> QED BY <1>3, <1>4, <1>5, <1>6, <1>7 DEF Next
\* A snapshot has three units.
LEMMA ToBytesFacts ==
    /\ Len(to_bytes) = 3 /\ to_bytes # <<>>
    /\ Head(to_bytes) = STATE_VERSION
    /\ Tail(to_bytes) = <<extract_snapshot_v2, extract_stakes>>
BY DEF to_bytes

\* What it is made of depends on the VM only.
LEMMA SameVM ==
    ASSUME UNCHANGED vm
    PROVE  /\ extract_snapshot_v2' = extract_snapshot_v2
           /\ extract_stakes' = extract_stakes
           /\ to_bytes' = to_bytes
<1>1. UNCHANGED <<carried, compute_budget, epoch_vote_stakes>>
  BY DEF vm
<1>2. extract_snapshot_v2' = extract_snapshot_v2
  BY <1>1 DEF extract_snapshot_v2
<1>3. extract_stakes' = extract_stakes
  BY <1>1 DEF extract_stakes
<1> QED BY <1>2, <1>3 DEF to_bytes

\* The stakes of a snapshot of the VM are a list of stakes.
LEMMA ExtractTypes ==
    ASSUME StakesInv
    PROVE  extract_stakes \in Seq(Vote \X Stake)
BY ExtractIsListOf, ExtractFacts DEF StakesInv

\* A write adds the next unit to the file.
LEMMA WriteStep ==
    ASSUME SaveInv, SaveWrite
    PROVE  \/ /\ saving' = {<<extract_snapshot_v2, extract_stakes>>}
              /\ file' = {<<STATE_VERSION>>}
           \/ /\ saving' = {<<extract_stakes>>}
              /\ file' = {<<STATE_VERSION, extract_snapshot_v2>>}
           \/ saving' = {<<>>} /\ file' = {to_bytes}
<1>1. PICK rest \in saving, bytes \in file :
        /\ rest # <<>>
        /\ LET n == Len(to_bytes) - Len(rest) + 1
           IN  file' = {[i \in 1..(IF n > Len(bytes) THEN n ELSE Len(bytes)) |->
                            IF i = n THEN Head(rest) ELSE bytes[i]]}
        /\ saving' = {Tail(rest)}
  BY DEF SaveWrite
<1>2. CASE saving = {to_bytes} /\ file = {<<>>}
  <2>1. rest = to_bytes /\ bytes = <<>>
    BY <1>1, <1>2
  <2>2. file' = {[i \in 1..1 |-> IF i = 1 THEN STATE_VERSION ELSE bytes[i]]}
    BY <1>1, <2>1, ToBytesFacts
  <2>3. [i \in 1..1 |-> IF i = 1 THEN STATE_VERSION ELSE bytes[i]] = <<STATE_VERSION>>
    OBVIOUS
  <2> QED BY ZenonT(60), <1>1, <2>1, <2>2, <2>3, ToBytesFacts
<1>3. CASE /\ saving = {<<extract_snapshot_v2, extract_stakes>>}
           /\ file = {<<STATE_VERSION>>}
  <2>1. rest = <<extract_snapshot_v2, extract_stakes>> /\ bytes = <<STATE_VERSION>>
    BY <1>1, <1>3
  <2>2. /\ Len(rest) = 2 /\ Head(rest) = extract_snapshot_v2
        /\ Tail(rest) = <<extract_stakes>> /\ Len(bytes) = 1 /\ bytes[1] = STATE_VERSION
    BY <2>1
  <2>3. file' = {[i \in 1..2 |-> IF i = 2 THEN extract_snapshot_v2 ELSE bytes[i]]}
    BY <1>1, <2>2, ToBytesFacts
  <2>4. [i \in 1..2 |-> IF i = 2 THEN extract_snapshot_v2 ELSE bytes[i]]
          = <<STATE_VERSION, extract_snapshot_v2>>
    BY <2>2
  <2> QED BY ZenonT(60), <1>1, <2>2, <2>3, <2>4
<1>4. CASE /\ saving = {<<extract_stakes>>}
           /\ file = {<<STATE_VERSION, extract_snapshot_v2>>}
  <2>1. rest = <<extract_stakes>> /\ bytes = <<STATE_VERSION, extract_snapshot_v2>>
    BY <1>1, <1>4
  <2>2. /\ Len(rest) = 1 /\ Head(rest) = extract_stakes /\ Tail(rest) = <<>>
        /\ Len(bytes) = 2 /\ bytes[1] = STATE_VERSION /\ bytes[2] = extract_snapshot_v2
    BY <2>1
  <2>3. file' = {[i \in 1..3 |-> IF i = 3 THEN extract_stakes ELSE bytes[i]]}
    BY <1>1, <2>2, ToBytesFacts
  <2>4. [i \in 1..3 |-> IF i = 3 THEN extract_stakes ELSE bytes[i]] = to_bytes
    BY <2>2 DEF to_bytes
  <2> QED BY ZenonT(60), <1>1, <2>2, <2>3, <2>4
<1>5. saving # {} /\ saving # {<<>>}
  BY <1>1
<1> QED BY <1>2, <1>3, <1>4, <1>5 DEF SaveInv

\* Every prefix of a snapshot is the beginning of what this version writes.
LEMMA PrefixesAreFiles ==
    ASSUME StakesInv, StateInv
    PROVE  /\ ForeignFile(<<>>) /\ ForeignFile(<<STATE_VERSION>>)
           /\ ForeignFile(<<STATE_VERSION, extract_snapshot_v2>>)
           /\ ForeignFile(to_bytes)
<1>1. extract_snapshot_v2 \in LiteSvmSnapshotV2 /\ extract_stakes \in Seq(Vote \X Stake)
  BY ExtractTypes DEF StateInv
<1>2. ForeignFile(<<>>) /\ ForeignFile(<<STATE_VERSION>>)
  BY DEF ForeignFile, STATE_VERSION
<1>3. ForeignFile(<<STATE_VERSION, extract_snapshot_v2>>)
  BY <1>1 DEF ForeignFile, V1_STATE_VERSION, V2_STATE_VERSION, STATE_VERSION
<1>4. ForeignFile(to_bytes)
  BY <1>1 DEF ForeignFile, STATE_VERSION, to_bytes
<1> QED BY <1>2, <1>3, <1>4
\* Every step leaves at most one content, a file of some version or its
\* beginning.
LEMMA FileStep == SInv /\ [Next]_vars => FileInv'
<1> SUFFICES ASSUME SInv, [Next]_vars PROVE FileInv'
  OBVIOUS
<1>1. FileInv /\ SaveInv
  BY DEF SInv
<1>2. /\ ForeignFile(<<>>) /\ ForeignFile(<<STATE_VERSION>>)
      /\ ForeignFile(<<STATE_VERSION, extract_snapshot_v2>>)
      /\ ForeignFile(to_bytes)
  BY PrefixesAreFiles DEF SInv
<1>3. ASSUME NEW b, ForeignFile(b), file' = {b} PROVE FileInv'
  BY <1>3 DEF FileInv
<1>4. CASE UNCHANGED file
  BY <1>1, <1>4 DEF FileInv
<1>5. CASE SaveBegin
  BY <1>2, <1>3, <1>4, <1>5 DEF SaveBegin, Create, NoFile
<1>6. CASE SaveWrite
  BY <1>1, <1>2, <1>3, <1>6, WriteStep
<1>7. CASE Change \/ SaveFail \/ SaveEnd \/ Crash \/ Load \/ UNCHANGED vars
  BY <1>4, <1>7 DEF Change, SaveFail, SaveEnd, Crash, Load, NoFile, vars
<1> QED BY <1>5, <1>6, <1>7 DEF Next

\* Every step leaves in the file what was written of the VM being saved, which
\* is borrowed for as long.
LEMMA SaveStep == SInv /\ [Next]_vars => SaveInv'
<1> SUFFICES ASSUME SInv, [Next]_vars PROVE SaveInv'
  OBVIOUS
<1>1. SaveInv
  BY DEF SInv
<1>2. CASE saving' = {}
  BY <1>2 DEF SaveInv
<1>3. CASE UNCHANGED vm /\ UNCHANGED <<saving, file>>
  BY <1>1, <1>3, SameVM DEF SaveInv
<1>4. CASE SaveBegin
  <2>1. CASE Create
    <3>1. saving' = {to_bytes} /\ file' = {<<>>} /\ UNCHANGED vm
      BY <1>4, <2>1 DEF SaveBegin, Create, NoVM
    <3> QED BY <3>1, SameVM DEF SaveInv
  <2>2. CASE ~Create
    BY <1>2, <1>4, <2>2 DEF SaveBegin, NoFile
  <2> QED BY <2>1, <2>2
<1>5. CASE SaveWrite
  <2>1. UNCHANGED vm
    BY <1>5 DEF SaveWrite, NoVM
  <2> QED BY <1>1, <1>5, <2>1, WriteStep, SameVM DEF SaveInv
<1>6. CASE Change \/ SaveFail \/ SaveEnd \/ Crash \/ Load
  BY <1>2, <1>6 DEF Change, SaveFail, SaveEnd, Crash, Load, NoFile
<1>7. CASE UNCHANGED vars
  BY <1>3, <1>7 DEF vars, vm
<1> QED BY <1>4, <1>5, <1>6, <1>7 DEF Next

\* A snapshot is acknowledged when all of it is in the file, and stays there
\* until the next save creates the file.
LEMMA GoodStep == SInv /\ [Next]_vars => GoodInv'
<1> SUFFICES ASSUME SInv, [Next]_vars PROVE GoodInv'
  OBVIOUS
<1>1. StakesInv /\ StateInv /\ SaveInv /\ GoodInv
  BY DEF SInv
<1>2. saving # {} => good = {}
  BY <1>1 DEF GoodInv
<1>3. CASE good' = {}
  BY <1>3 DEF GoodInv
<1>4. CASE UNCHANGED <<good, file>> /\ saving' = {}
  BY <1>1, <1>4 DEF GoodInv
<1>5. CASE SaveBegin
  BY <1>3, <1>4, <1>5 DEF SaveBegin, Create, NoFile
<1>6. CASE SaveWrite
  BY <1>2, <1>3, <1>6 DEF SaveWrite
<1>7. CASE SaveEnd
  <2>1. /\ saving = {<<>>} /\ saving' = {} /\ UNCHANGED file
        /\ good' = {<<extract_snapshot_v2, epoch_vote_stakes>>}
    BY <1>7 DEF SaveEnd
  <2>2. file = {to_bytes}
    <3>1. /\ <<>> # to_bytes /\ <<>> # <<extract_stakes>>
          /\ <<>> # <<extract_snapshot_v2, extract_stakes>>
      BY ToBytesFacts
    <3>2. ASSUME NEW s, s # <<>> PROVE saving # {s}
      BY <2>1, <3>2
    <3> QED BY <1>1, <2>1, <3>1, <3>2 DEF SaveInv
  <2>3. file' = {<<STATE_VERSION, extract_snapshot_v2, ListOf(epoch_vote_stakes)>>}
    BY <2>1, <2>2, ExtractIsListOf DEF to_bytes
  <2>4. /\ extract_snapshot_v2 \in LiteSvmSnapshotV2 /\ epoch_vote_stakes \in [Vote -> Stake]
        /\ Sum(epoch_vote_stakes) <= MaxStake
    <3>1. /\ epoch_total_stake = Sum(epoch_vote_stakes) + replaced /\ replaced \in Nat
          /\ epoch_total_stake <= MaxStake /\ epoch_vote_stakes \in [Vote -> Stake]
      BY <1>1 DEF StakesInv, TotalCountsReplaced
    <3>2. Sum(epoch_vote_stakes) \in Nat /\ MaxStake \in Nat
      BY <3>1, StakeSums, StakeConstants
    <3> QED BY <1>1, <3>1, <3>2 DEF StateInv
  <2>5. ASSUME NEW g \in good'
        PROVE  g[1] = extract_snapshot_v2 /\ g[2] = epoch_vote_stakes /\ g = <<g[1], g[2]>>
    <3>1. g = <<extract_snapshot_v2, epoch_vote_stakes>>
      BY <2>1
    <3> QED BY <3>1
  <2> QED BY <2>1, <2>3, <2>4, <2>5 DEF GoodInv
<1>8. CASE Change \/ SaveFail \/ Crash \/ Load
  BY <1>4, <1>8 DEF Change, SaveFail, Crash, Load, NoFile
<1>9. CASE UNCHANGED vars
  BY <1>2, <1>3, <1>4, <1>9 DEF vars
<1> QED BY <1>5, <1>6, <1>7, <1>8, <1>9 DEF Next

\* SInv holds before the first step.
LEMMA SInvInit == Init => SInv
<1> SUFFICES ASSUME Init PROVE SInv
  OBVIOUS
<1>1. StakesInv
  <2>1. 0 <= MaxStake /\ ~(0 > MaxStake)
    BY StakeConstants
  <2> QED BY <2>1, NoStakes DEF Init, StakesInit, StakesInv, TotalCountsReplaced,
                                OverflowIsExact
<1>2. StateInv
  <2>1. carried \in Carried /\ compute_budget \in Option([limit : Limit])
    BY DEF Init, Option
  <2> QED BY ZenonT(60), <2>1, StateIs DEF StateInv, extract_snapshot_v2
<1>3. FileInv
  BY SnapshotAssumption DEF Init, FileInv
<1>4. SaveInv /\ GoodInv
  BY DEF Init, SaveInv, GoodInv
<1> QED BY <1>1, <1>2, <1>3, <1>4 DEF SInv

\* SInv holds in every state.
THEOREM SnapshotInvariant == Spec => []SInv
<1>1. SInv /\ [Next]_vars => SInv'
  BY StakesStep, StateStep, FileStep, SaveStep, GoodStep DEF SInv
<1> QED BY <1>1, SInvInit, PTL DEF Spec
-----------------------------------------------------------------------------
(* What follows.                                                           *)

\* A snapshot of the VM restores to the VM.
LEMMA RoundTripState == SInv => BytesRoundTrip
<1> SUFFICES ASSUME SInv PROVE BytesRoundTrip
  OBVIOUS
<1> DEFINE st == extract_snapshot_v2
           l == ListOf(epoch_vote_stakes)
<1>1. /\ st \in LiteSvmSnapshotV2 /\ epoch_vote_stakes \in [Vote -> Stake]
      /\ Sum(epoch_vote_stakes) = epoch_total_stake - replaced
      /\ Sum(epoch_vote_stakes) <= MaxStake
  <2>1. /\ epoch_total_stake = Sum(epoch_vote_stakes) + replaced /\ replaced \in Nat
        /\ epoch_total_stake <= MaxStake /\ epoch_vote_stakes \in [Vote -> Stake]
    BY DEF SInv, StakesInv, TotalCountsReplaced
  <2>2. Sum(epoch_vote_stakes) \in Nat /\ MaxStake \in Nat
    BY <2>1, StakeSums, StakeConstants
  <2> QED BY <2>1, <2>2 DEF SInv, StateInv
<1>2. to_bytes = <<STATE_VERSION, st, l>> /\ st.carried = carried
  BY ExtractIsListOf DEF to_bytes, extract_snapshot_v2
<1>3. ListStakes(l) = epoch_vote_stakes /\ ListTotal(l) = epoch_total_stake - replaced
  BY <1>1, ExtractFacts
<1>4. from_bytes(to_bytes) =
        IF carried \in Unloadable THEN Err("CacheRebuild") ELSE Ok(st, l)
  BY <1>1, <1>2, CompleteLoads
<1> HIDE DEF st, l
<1>5. /\ Err("CacheRebuild").is = "CacheRebuild"
      /\ Ok(st, l).is = "Ok" /\ Ok(st, l).state = st /\ Ok(st, l).stakes = l
  BY DEF Err, Ok
<1> QED BY <1>3, <1>4, <1>5 DEF BytesRoundTrip, st

\* An acknowledged snapshot loads.
LEMMA AcknowledgedState == SInv => AcknowledgedSaveLoads
<1> SUFFICES ASSUME SInv, NEW g \in good
             PROVE  IF g[1].carried \in Unloadable THEN load_from_file.is = "CacheRebuild"
                    ELSE /\ load_from_file.is = "Ok" /\ load_from_file.state = g[1]
                         /\ ListStakes(load_from_file.stakes) = g[2]
  BY DEF AcknowledgedSaveLoads
<1> DEFINE st == g[1]
           l == ListOf(g[2])
<1>1. /\ st \in LiteSvmSnapshotV2 /\ g[2] \in [Vote -> Stake] /\ Sum(g[2]) <= MaxStake
      /\ file = {<<STATE_VERSION, st, l>>}
  BY DEF SInv, GoodInv
<1>2. load_from_file = from_bytes(<<STATE_VERSION, st, l>>)
  BY <1>1, LoadIs
<1>3. load_from_file = IF st.carried \in Unloadable THEN Err("CacheRebuild") ELSE Ok(st, l)
  BY <1>1, <1>2, CompleteLoads
<1>4. ListStakes(l) = g[2]
  BY <1>1, ExtractFacts
<1> HIDE DEF l
<1>5. /\ Err("CacheRebuild").is = "CacheRebuild"
      /\ Ok(st, l).is = "Ok" /\ Ok(st, l).state = st /\ Ok(st, l).stakes = l
  BY DEF Err, Ok
<1> QED BY <1>3, <1>4, <1>5

\* The beginning of a snapshot does not load.
LEMMA PrefixesDoNotLoad ==
    ASSUME NEW st
    PROVE  /\ from_bytes(<<>>).is # "Ok"
           /\ from_bytes(<<STATE_VERSION>>).is # "Ok"
           /\ from_bytes(<<STATE_VERSION, st>>).is # "Ok"
<1>1. from_bytes(<<>>).is # "Ok"
  BY DEF from_bytes, Err
<1>2. ASSUME NEW b, b # <<>>, b[1] = STATE_VERSION, Len(b) < 3
      PROVE  from_bytes(b).is # "Ok"
  <2>1. deserialize_snapshot(b) = Err("Read")
    BY <1>2 DEF deserialize_snapshot, V1_STATE_VERSION, V2_STATE_VERSION, STATE_VERSION
  <2>2. Err("Read").is # "Ok"
    BY DEF Err
  <2> QED BY <1>2, <2>1, <2>2 DEF from_bytes, restore_from_snapshot
<1>3. from_bytes(<<STATE_VERSION>>).is # "Ok"
  <2> DEFINE b == <<STATE_VERSION>>
  <2>1. b # <<>> /\ b[1] = STATE_VERSION /\ Len(b) < 3
    OBVIOUS
  <2> HIDE DEF b
  <2>2. from_bytes(b).is # "Ok"
    BY <1>2, <2>1
  <2> QED BY <2>2 DEF b
<1>4. from_bytes(<<STATE_VERSION, st>>).is # "Ok"
  <2> DEFINE b == <<STATE_VERSION, st>>
  <2>1. b # <<>> /\ b[1] = STATE_VERSION /\ Len(b) < 3
    OBVIOUS
  <2> HIDE DEF b
  <2>2. from_bytes(b).is # "Ok"
    BY <1>2, <2>1
  <2> QED BY <2>2 DEF b
<1> QED BY <1>1, <1>3, <1>4

\* While a snapshot is written, all of it loads or nothing.
LEMMA NoMixtureState == SInv => NoMixtureWhileSaving
<1> SUFFICES ASSUME SInv, saving # {}, load_from_file.is = "Ok"
             PROVE  /\ load_from_file.state = extract_snapshot_v2
                    /\ ListStakes(load_from_file.stakes) = epoch_vote_stakes
  BY DEF NoMixtureWhileSaving
<1>1. \A b : file = {b} => load_from_file = from_bytes(b)
  BY LoadIs
<1>2. /\ file # {<<>>} /\ file # {<<STATE_VERSION>>}
      /\ file # {<<STATE_VERSION, extract_snapshot_v2>>}
  <2>1. /\ from_bytes(<<>>).is # "Ok" /\ from_bytes(<<STATE_VERSION>>).is # "Ok"
        /\ from_bytes(<<STATE_VERSION, extract_snapshot_v2>>).is # "Ok"
    BY PrefixesDoNotLoad
  <2> QED BY Zenon, <1>1, <2>1
<1>3. file = {to_bytes}
  BY <1>2 DEF SInv, SaveInv
<1>4. BytesRoundTrip /\ load_from_file = from_bytes(to_bytes)
  BY <1>1, <1>3, RoundTripState
<1> QED BY <1>4 DEF BytesRoundTrip

\* What a complete file of an older version loads into.
LEMMA OldLoads ==
    ASSUME NEW b, b # <<>>, NEW st, deserialize_snapshot(b) = Ok(st, <<>>)
    PROVE  from_bytes(b) = IF st.carried \in Unloadable THEN Err("CacheRebuild")
                           ELSE Ok(st, <<>>)
<1>1. ListTotal(<<>>) = 0
  <2>1. [i \in DOMAIN <<>> |-> <<>>[i][2]] = [i \in {} |-> 0]
    OBVIOUS
  <2>2. Sum([i \in {} |-> 0]) = 0
    BY ZenonT(60), FS_EmptySet, SumZero
  <2> QED BY <2>1, <2>2 DEF ListTotal
<1>2. ~Duplicates(<<>>) /\ ~(ListTotal(<<>>) > MaxStake)
  BY <1>1, StakeConstants DEF Duplicates
<1>3. Ok(st, <<>>).is = "Ok" /\ Ok(st, <<>>).state = st /\ Ok(st, <<>>).stakes = <<>>
  BY DEF Ok
<1>4. from_bytes(b) = restore_from_snapshot(Ok(st, <<>>))
  BY DEF from_bytes
<1> QED BY <1>2, <1>3, <1>4 DEF restore_from_snapshot

\* Files of the older versions load.
LEMMA OldVersionsState == SInv => OldVersionsLoad
<1> SUFFICES ASSUME SInv, NEW b \in file, Len(b) = 2,
                    b[1] \in {V1_STATE_VERSION, V2_STATE_VERSION}
             PROVE  \/ load_from_file.is = "CacheRebuild"
                    \/ /\ load_from_file.is = "Ok" /\ load_from_file.stakes = <<>>
                       /\ load_from_file.state.carried = b[2].carried
                       /\ load_from_file.state.compute_budget \in Option([limit : Limit])
                       /\ {x.limit : x \in load_from_file.state.compute_budget}
                             = {x.limit : x \in b[2].compute_budget}
  <2>1. Option([limit : Limit]) = {{}} \cup {{[limit |-> l]} : l \in Limit}
    BY DEF Option
  <2> QED BY ZenonT(60), <2>1 DEF OldVersionsLoad
<1>1. b # <<>> /\ file = {b} /\ ForeignFile(b)
  BY DEF SInv, FileInv
<1>2. PICK st \in LiteSvmSnapshotV2 :
        /\ deserialize_snapshot(b) = Ok(st, <<>>)
        /\ st.carried = b[2].carried
        /\ {x.limit : x \in st.compute_budget} = {x.limit : x \in b[2].compute_budget}
  <2>1. CASE b[1] = V1_STATE_VERSION
    <3>1. b[2] \in LiteSvmSnapshotV1
      BY <1>1, <2>1 DEF ForeignFile, V1_STATE_VERSION, V2_STATE_VERSION, STATE_VERSION
    <3>2. deserialize_snapshot(b) = LiteSvmSnapshotV3_from(LiteSvmSnapshotV2_from(b[2]))
      BY <2>1 DEF deserialize_snapshot, V1_STATE_VERSION, V2_STATE_VERSION, STATE_VERSION
    <3> QED BY ZenonT(60), <3>1, <3>2, MigrationTypes DEF LiteSvmSnapshotV3_from
  <2>2. CASE b[1] = V2_STATE_VERSION
    <3>1. b[2] \in LiteSvmSnapshotV2
      BY <1>1, <2>2 DEF ForeignFile, V1_STATE_VERSION, V2_STATE_VERSION, STATE_VERSION
    <3>2. deserialize_snapshot(b) = LiteSvmSnapshotV3_from(b[2])
      BY <2>2 DEF deserialize_snapshot, V1_STATE_VERSION, V2_STATE_VERSION, STATE_VERSION
    <3> QED BY <3>1, <3>2 DEF LiteSvmSnapshotV3_from
  <2> QED BY ZenonT(60), <2>1, <2>2
<1>3. load_from_file = IF st.carried \in Unloadable THEN Err("CacheRebuild")
                       ELSE Ok(st, <<>>)
  BY <1>1, <1>2, LoadIs, OldLoads
<1>4. /\ Err("CacheRebuild").is = "CacheRebuild"
      /\ Ok(st, <<>>).is = "Ok" /\ Ok(st, <<>>).state = st /\ Ok(st, <<>>).stakes = <<>>
  BY DEF Err, Ok
<1>5. st.compute_budget \in Option([limit : Limit])
  BY DEF LiteSvmSnapshotV2
<1> QED BY ZenonT(60), <1>2, <1>3, <1>4, <1>5

\* epoch_total_stake is the sum of the configured stakes and of what the last
\* list counted twice, whatever was set, refused, saved and loaded before.
THEOREM TotalNeverDrifts == Spec => []TotalCountsReplaced
<1>1. SInv => TotalCountsReplaced
  BY DEF SInv, StakesInv
<1> QED BY <1>1, SnapshotInvariant, PTL

\* A call that sets stakes fails exactly when they, and those that its list
\* counts twice, sum to more than u64::MAX.
THEOREM OverflowOnlyWhenTooMuch == Spec => []OverflowIsExact
<1>1. SInv => OverflowIsExact
  BY DEF SInv, StakesInv
<1> QED BY <1>1, SnapshotInvariant, PTL

\* to_bytes and from_bytes are inverse, up to programs that do not load.
THEOREM SnapshotsRoundTrip == Spec => []BytesRoundTrip
BY RoundTripState, SnapshotInvariant, PTL

\* A save that returned Ok is what a later process loads.
THEOREM AcknowledgedSavesLoad == Spec => []AcknowledgedSaveLoads
BY AcknowledgedState, SnapshotInvariant, PTL

\* No load while a snapshot is written finds a part of it.
THEOREM SavesAreNeverMixed == Spec => []NoMixtureWhileSaving
BY NoMixtureState, SnapshotInvariant, PTL

\* Files of versions 1 and 2 load into a VM of today.
THEOREM OldFilesLoad == Spec => []OldVersionsLoad
BY OldVersionsState, SnapshotInvariant, PTL
=============================================================================
