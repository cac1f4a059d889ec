---------------------------- MODULE AuthoringScene_proofs ----------------------------
(***************************************************************************)
(* Theorems about AuthoringScene, for any documents, edits and any number  *)
(* of objects and spawn points.                                            *)
(***************************************************************************)
EXTENDS AuthoringScene, FiniteSetTheorems, SequenceTheorems, TLAPS

-----------------------------------------------------------------------------
(* Sorting.                                                                *)

StrictTotal(P, R) ==
    /\ \A p \in P : <<p, p>> \notin R
    /\ \A p, q, r \in P : <<p, q>> \in R /\ <<q, r>> \in R => <<p, r>> \in R
    /\ \A p, q \in P : p # q => <<p, q>> \in R \/ <<q, p>> \in R

Numbers(P, R, o) ==
    /\ o \in [1..Cardinality(P) -> P] /\ Items(o) = P
    /\ \A i, j \in DOMAIN o : i < j => <<o[i], o[j]>> \in R

\* The elements of a finite set can be numbered in any order that is strict and total.
LEMMA Numbered ==
    ASSUME NEW P, IsFiniteSet(P), NEW R, StrictTotal(P, R)
    PROVE  \E o : Numbers(P, R, o)
<1> DEFINE N == Cardinality(P)
           Below(p) == {q \in P : <<q, p>> \in R}
           rank == [p \in P |-> Cardinality(Below(p)) + 1]
<1>0. /\ \A p \in P : <<p, p>> \notin R
      /\ \A p, q, r \in P : <<p, q>> \in R /\ <<q, r>> \in R => <<p, r>> \in R
      /\ \A p, q \in P : p # q => <<p, q>> \in R \/ <<q, p>> \in R
  BY DEF StrictTotal
<1>1. N \in Nat
  BY FS_CardinalityType
<1>2. \A p \in P : IsFiniteSet(Below(p)) /\ Cardinality(Below(p)) \in Nat
  BY FS_Subset, FS_CardinalityType
<1>3. ASSUME NEW p \in P PROVE rank[p] \in 1..N
  <2>1. IsFiniteSet(P \ {p}) /\ Cardinality(P \ {p}) = N - 1
    BY FS_RemoveElement
  <2>2. Below(p) \in SUBSET (P \ {p})
    BY <1>0
  <2>3. Cardinality(Below(p)) <= N - 1
    <3> DEFINE Others == P \ {p}
               mine == Below(p)
    <3>1. IsFiniteSet(Others) /\ mine \in SUBSET Others /\ Cardinality(Others) = N - 1
      BY <2>1, <2>2
    <3> HIDE DEF Others, mine
    <3>2. Cardinality(mine) <= Cardinality(Others)
      BY <3>1, FS_Subset
    <3> QED BY <3>1, <3>2 DEF mine
  <2> HIDE DEF Below, N
  <2> QED BY <1>1, <1>2, <2>3
<1>4. ASSUME NEW p \in P, NEW q \in P, <<p, q>> \in R PROVE rank[p] < rank[q]
  <2>1. Below(p) \cup {p} \in SUBSET Below(q) /\ p \notin Below(p)
    BY <1>0, <1>4
  <2>2. Cardinality(Below(p) \cup {p}) = Cardinality(Below(p)) + 1
    BY <1>2, <2>1, FS_AddElement
  <2>3. Cardinality(Below(p) \cup {p}) <= Cardinality(Below(q))
    BY <1>2, <2>1, FS_Subset
  <2> HIDE DEF Below
  <2> QED BY <1>2, <2>2, <2>3
<1>5. \A p \in P : rank[p] \in Int
  BY <1>1, <1>3
<1>6. \A p, q \in P : rank[p] = rank[q] => p = q
  <2> SUFFICES ASSUME NEW p \in P, NEW q \in P, rank[p] = rank[q], p # q PROVE FALSE
    OBVIOUS
  <2>1. rank[p] < rank[q] \/ rank[q] < rank[p]
    BY <1>0, <1>4
  <2> HIDE DEF rank
  <2> QED BY <1>5, <2>1
<1>7. rank \in Surjection(P, 1..N)
  <2>1. rank \in Injection(P, 1..N)
    BY <1>3, <1>6 DEF Injection, IsInjective
  <2>2. IsFiniteSet(1..N) /\ Cardinality(1..N) = N
    BY <1>1, FS_Interval
  <2> HIDE DEF rank, N
  <2>3. Cardinality(P) = Cardinality(1..N) <=> rank \in Surjection(P, 1..N)
    BY <2>1, <2>2, FS_Injection
  <2> QED BY <2>2, <2>3 DEF N
<1> DEFINE o == [i \in 1..N |-> CHOOSE p \in P : rank[p] = i]
<1>8. \A i \in 1..N : o[i] \in P /\ rank[o[i]] = i
  <2> HIDE DEF rank
  <2>1. \A i \in 1..N : \E p \in P : rank[p] = i
    BY <1>7 DEF Surjection
  <2> QED BY <2>1
<1> HIDE DEF rank
<1>9. \A p \in P : rank[p] \in 1..N /\ o[rank[p]] = p
  BY <1>3, <1>6, <1>8
<1>10. o \in [1..N -> P] /\ DOMAIN o = 1..N
  BY <1>8
<1> HIDE DEF o
<1>11. Items(o) = P
  BY <1>8, <1>9, <1>10 DEF Items
<1>12. ASSUME NEW i \in 1..N, NEW j \in 1..N, i < j PROVE <<o[i], o[j]>> \in R
  <2>1. o[i] # o[j]
    BY <1>1, <1>8, <1>12
  <2>2. ~ (<<o[j], o[i]>> \in R)
    <3>1. <<o[j], o[i]>> \in R => rank[o[j]] < rank[o[i]]
      BY <1>4, <1>8
    <3>2. rank[o[j]] = j /\ rank[o[i]] = i /\ ~ (j < i)
      BY <1>1, <1>8, <1>12
    <3> QED BY <3>1, <3>2
  <2> QED BY <1>0, <1>8, <2>1, <2>2
<1>13. Numbers(P, R, o)
  BY <1>10, <1>11, <1>12 DEF Numbers
<1> QED BY <1>13

\* The ways to put n items in another order.
Shuffles(n) ==
    {p \in [1..n -> 1..n] : /\ \A i \in 1..n : \E j \in 1..n : p[j] = i
                            /\ \A i, j \in 1..n : p[i] = p[j] => i = j}

InOrder(n, keys, o) == \A i, j \in 1..n : i < j => keys[o[i]] <= keys[o[j]]

\* An order of n keys is a shuffle that puts them in order.
LEMMA OrdersShuffle ==
    ASSUME NEW n \in Nat, NEW keys \in [1..n -> Nat], NEW o
    PROVE  o \in Orders(keys) <=> o \in Shuffles(n) /\ InOrder(n, keys, o)
<1>0. DOMAIN keys = 1..n
  OBVIOUS
<1>1. ASSUME o \in Orders(keys) PROVE o \in Shuffles(n) /\ InOrder(n, keys, o)
  <2>1. o \in [1..n -> 1..n] /\ Items(o) = 1..n
    BY <1>0, <1>1 DEF Orders
  <2>2. \A i \in 1..n : \E j \in 1..n : o[j] = i
    BY <2>1 DEF Items
  <2>3. o \in Surjection(1..n, 1..n)
    BY <2>1, <2>2 DEF Surjection
  <2>4. IsFiniteSet(1..n)
    BY FS_Interval
  <2>5. o \in Injection(1..n, 1..n)
    BY <2>3, <2>4, FS_SurjSameCardinalityImpliesInj
  <2>6. \A i, j \in 1..n : o[i] = o[j] => i = j
    BY <2>5 DEF Injection, IsInjective
  <2>7. InOrder(n, keys, o)
    BY <1>0, <1>1 DEF Orders, InOrder
  <2> QED BY <2>1, <2>2, <2>6, <2>7 DEF Shuffles
<1>2. ASSUME o \in Shuffles(n), InOrder(n, keys, o) PROVE o \in Orders(keys)
  <2>1. o \in [1..n -> 1..n] /\ \A i \in 1..n : \E j \in 1..n : o[j] = i
    BY <1>2 DEF Shuffles
  <2>2. Items(o) = 1..n
    BY <2>1 DEF Items
  <2> QED BY <1>0, <1>2, <2>1, <2>2 DEF Orders, InOrder
<1> QED BY <1>1, <1>2

\* Any list can be sorted.
LEMMA OrdersExist ==
    ASSUME NEW n \in Nat, NEW keys \in [1..n -> Nat]
    PROVE  Orders(keys) # {}
<1> DEFINE R == {pair \in (1..n) \X (1..n) :
                   \/ keys[pair[1]] < keys[pair[2]]
                   \/ keys[pair[1]] = keys[pair[2]] /\ pair[1] < pair[2]}
<1>0. \A p, q \in 1..n : <<p, q>> \in R <=> \/ keys[p] < keys[q]
                                            \/ keys[p] = keys[q] /\ p < q
  OBVIOUS
<1>1. IsFiniteSet(1..n) /\ Cardinality(1..n) = n
  BY FS_Interval
<1>2. \A p \in 1..n : keys[p] \in Nat
  OBVIOUS
<1> HIDE DEF R
<1>3. \A p \in 1..n : <<p, p>> \notin R
  BY <1>0, <1>2
<1>4. \A p, q, r \in 1..n : <<p, q>> \in R /\ <<q, r>> \in R => <<p, r>> \in R
  BY <1>0, <1>2
<1>5. \A p, q \in 1..n : p # q => <<p, q>> \in R \/ <<q, p>> \in R
  BY <1>0, <1>2
<1>6. PICK o \in [1..n -> 1..n] :
         /\ Items(o) = 1..n
         /\ \A i, j \in DOMAIN o : i < j => <<o[i], o[j]>> \in R
  <2>1. StrictTotal(1..n, R)
    BY <1>3, <1>4, <1>5 DEF StrictTotal
  <2>2. PICK o : Numbers(1..n, R, o)
    BY <1>1, <2>1, Numbered
  <2> QED BY <1>1, <2>2 DEF Numbers
<1>7. \A i, j \in 1..n : i < j => keys[o[i]] <= keys[o[j]]
  <2> SUFFICES ASSUME NEW i \in 1..n, NEW j \in 1..n, i < j PROVE keys[o[i]] <= keys[o[j]]
    OBVIOUS
  <2>1. o[i] \in 1..n /\ o[j] \in 1..n /\ <<o[i], o[j]>> \in R
    BY <1>6
  <2>2. keys[o[i]] < keys[o[j]] \/ keys[o[i]] = keys[o[j]]
    BY <1>0, <2>1
  <2>3. keys[o[i]] \in Nat /\ keys[o[j]] \in Nat
    BY <1>2, <2>1
  <2> QED BY <2>2, <2>3
<1>8. o \in Orders(keys)
  BY <1>6, <1>7 DEF Orders
<1> QED BY <1>8
\* Shuffles can be composed and undone.
LEMMA ShuffledTwice ==
    ASSUME NEW n \in Nat, NEW p \in Shuffles(n), NEW o \in Shuffles(n)
    PROVE  [i \in 1..n |-> p[o[i]]] \in Shuffles(n)
<1> DEFINE q == [i \in 1..n |-> p[o[i]]]
<1>1. /\ o \in [1..n -> 1..n] /\ p \in [1..n -> 1..n]
      /\ \A i \in 1..n : \E j \in 1..n : o[j] = i
      /\ \A i \in 1..n : \E j \in 1..n : p[j] = i
      /\ \A i, j \in 1..n : o[i] = o[j] => i = j
      /\ \A i, j \in 1..n : p[i] = p[j] => i = j
  BY DEF Shuffles
<1>2. \A i \in 1..n : q[i] = p[o[i]] /\ o[i] \in 1..n /\ q[i] \in 1..n
  BY <1>1
<1>3. q \in [1..n -> 1..n]
  BY <1>2
<1> HIDE DEF q
<1>4. \A i \in 1..n : \E j \in 1..n : q[j] = i
  <2> SUFFICES ASSUME NEW i \in 1..n PROVE \E j \in 1..n : q[j] = i
    OBVIOUS
  <2>1. PICK k \in 1..n : p[k] = i
    BY <1>1
  <2>2. PICK j \in 1..n : o[j] = k
    BY <1>1
  <2> QED BY <1>2, <2>1, <2>2
<1>5. ASSUME NEW i \in 1..n, NEW j \in 1..n, q[i] = q[j] PROVE i = j
  <2>1. p[o[i]] = p[o[j]] /\ o[i] \in 1..n /\ o[j] \in 1..n
    BY <1>2, <1>5
  <2>2. o[i] = o[j]
    BY <1>1, <2>1
  <2> QED BY <1>1, <2>2
<1>6. q \in Shuffles(n)
  BY <1>3, <1>4, <1>5 DEF Shuffles
<1> QED BY <1>6 DEF q

LEMMA ShuffledBack ==
    ASSUME NEW n \in Nat, NEW p \in Shuffles(n)
    PROVE  \E q \in Shuffles(n) : \A i \in 1..n : p[q[i]] = i /\ q[p[i]] = i
<1> DEFINE q == [i \in 1..n |-> CHOOSE j \in 1..n : p[j] = i]
<1>1. /\ p \in [1..n -> 1..n]
      /\ \A i \in 1..n : \E j \in 1..n : p[j] = i
      /\ \A i, j \in 1..n : p[i] = p[j] => i = j
  BY DEF Shuffles
<1>2. \A i \in 1..n : q[i] \in 1..n /\ p[q[i]] = i
  BY <1>1
<1>3. q \in [1..n -> 1..n]
  BY <1>2
<1> HIDE DEF q
<1>4. \A i \in 1..n : q[p[i]] = i
  BY <1>1, <1>2
<1>5. \A i, j \in 1..n : q[i] = q[j] => i = j
  BY <1>2
<1>6. \A i \in 1..n : \E j \in 1..n : q[j] = i
  BY <1>1, <1>4
<1>7. q \in Shuffles(n)
  BY <1>3, <1>5, <1>6 DEF Shuffles
<1> QED BY <1>2, <1>4, <1>7

\* list2 has the items of list in another order.
Shuffled(n, p, list2, list) ==
    /\ DOMAIN list = 1..n /\ DOMAIN list2 = 1..n
    /\ \A i \in 1..n : list2[i] = list[p[i]]

LEMMA ShuffledIsMutual ==
    ASSUME NEW n \in Nat, NEW p \in Shuffles(n), NEW q \in Shuffles(n),
           \A i \in 1..n : p[q[i]] = i,
           NEW list, NEW list2, Shuffled(n, p, list2, list)
    PROVE  Shuffled(n, q, list, list2)
<1>1. \A i \in 1..n : q[i] \in 1..n
  BY DEF Shuffles
<1>2. ASSUME NEW i \in 1..n PROVE list[i] = list2[q[i]]
  <2>1. q[i] \in 1..n /\ p[q[i]] = i
    BY <1>1
  <2> QED BY <2>1, Zenon DEF Shuffled
<1> QED BY <1>2 DEF Shuffled

\* An order of shuffled keys is, by way of the shuffle, one of the keys.
LEMMA OrderCarried ==
    ASSUME NEW n \in Nat, NEW p \in Shuffles(n),
           NEW keys \in [1..n -> Nat], NEW keys2 \in [1..n -> Nat], Shuffled(n, p, keys2, keys),
           NEW o \in Orders(keys2)
    PROVE  \E q \in Orders(keys) : \A i \in 1..n : o[i] \in 1..n /\ q[i] = p[o[i]]
<1>1. o \in Shuffles(n) /\ InOrder(n, keys2, o)
  BY OrdersShuffle
<1>2. \A i \in 1..n : o[i] \in 1..n
  BY <1>1 DEF Shuffles
<1>3. PICK q \in Shuffles(n) : q = [i \in 1..n |-> p[o[i]]]
  BY <1>1, ShuffledTwice
<1>4. \A i \in 1..n : o[i] \in 1..n /\ q[i] = p[o[i]]
  BY <1>2, <1>3
<1>5. \A i \in 1..n : keys2[o[i]] = keys[q[i]]
  BY <1>4 DEF Shuffled
<1>6. InOrder(n, keys, q)
  BY <1>1, <1>5 DEF InOrder
<1>7. q \in Orders(keys)
  BY <1>6, OrdersShuffle
<1> QED BY <1>4, <1>7

\* A list whose items were put in another order is sorted to the same lists.
LEMMA ArrangedWithin ==
    ASSUME NEW n \in Nat, NEW p \in Shuffles(n),
           NEW keys \in [1..n -> Nat], NEW keys2 \in [1..n -> Nat], Shuffled(n, p, keys2, keys),
           NEW list, NEW list2, Shuffled(n, p, list2, list)
    PROVE  Arranged(list2, keys2) \subseteq Arranged(list, keys)
<1> SUFFICES ASSUME NEW x \in Arranged(list2, keys2) PROVE x \in Arranged(list, keys)
  OBVIOUS
<1>1. DOMAIN list2 = 1..n /\ DOMAIN list = 1..n /\ \A i \in 1..n : list2[i] = list[p[i]]
  BY DEF Shuffled
<1>2. PICK o \in Orders(keys2) : x = [i \in 1..n |-> list2[o[i]]]
  BY <1>1 DEF Arranged
<1>3. PICK q \in Orders(keys) : \A i \in 1..n : o[i] \in 1..n /\ q[i] = p[o[i]]
  BY OrderCarried
<1>4. ASSUME NEW i \in 1..n PROVE list2[o[i]] = list[q[i]]
  <2>1. o[i] \in 1..n /\ q[i] = p[o[i]]
    BY <1>3
  <2> QED BY <1>1, <2>1, Zenon
<1>5. x = [i \in 1..n |-> list[q[i]]]
  BY <1>2, <1>4
<1> QED BY <1>1, <1>5 DEF Arranged

LEMMA ArrangedAgain ==
    ASSUME NEW n \in Nat, NEW p \in Shuffles(n),
           NEW keys \in [1..n -> Nat], NEW keys2 \in [1..n -> Nat], Shuffled(n, p, keys2, keys),
           NEW list, NEW list2, Shuffled(n, p, list2, list)
    PROVE  Arranged(list2, keys2) = Arranged(list, keys)
<1>1. Arranged(list2, keys2) \subseteq Arranged(list, keys)
  BY ArrangedWithin
<1>2. PICK q \in Shuffles(n) : \A i \in 1..n : p[q[i]] = i /\ q[p[i]] = i
  BY ShuffledBack
<1>3. Shuffled(n, q, keys, keys2) /\ Shuffled(n, q, list, list2)
  BY <1>2, ShuffledIsMutual
<1>4. Arranged(list, keys) \subseteq Arranged(list2, keys2)
  BY <1>3, ArrangedWithin
<1> QED BY <1>1, <1>4

\* Sorting what is sorted changes nothing.
LEMMA SortedTwice ==
    ASSUME NEW strings \in Seq(Nat)
    PROVE  /\ SortedStrings(strings) \in Seq(Nat)
           /\ SortedStrings(SortedStrings(strings)) = SortedStrings(strings)
<1> DEFINE n == Len(strings)
           sorted == SortedStrings(strings)
<1>1. n \in Nat /\ strings \in [1..n -> Nat] /\ DOMAIN strings = 1..n
  OBVIOUS
<1>2. PICK o \in Orders(strings) : sorted = [i \in 1..n |-> strings[o[i]]]
  <2>1. Arranged(strings, strings) # {}
    BY <1>1, OrdersExist DEF Arranged
  <2>2. sorted \in Arranged(strings, strings)
    BY <2>1 DEF SortedStrings
  <2> QED BY <1>1, <2>2 DEF Arranged
<1> HIDE DEF n, sorted
<1>3. o \in Shuffles(n)
  BY <1>1, OrdersShuffle
<1>4. o \in [1..n -> 1..n]
  BY <1>3 DEF Shuffles
<1>5. /\ sorted \in [1..n -> Nat] /\ DOMAIN sorted = 1..n
      /\ \A i \in 1..n : sorted[i] = strings[o[i]]
  BY <1>1, <1>2, <1>4
<1>6. Arranged(sorted, sorted) = Arranged(strings, strings)
  <2>1. Shuffled(n, o, sorted, strings)
    BY <1>1, <1>5 DEF Shuffled
  <2> QED BY <1>1, <1>3, <1>5, <2>1, ArrangedAgain
<1>7. SortedStrings(sorted) = sorted
  BY <1>6 DEF SortedStrings, sorted
<1>8. sorted \in Seq(Nat)
  BY <1>1, <1>5, SeqDef
<1> QED BY <1>7, <1>8 DEF sorted

\* The places whose key is not greater than the one at a place.
Upto(n, keys, place) == {p \in 1..n : keys[p] <= keys[place]}

\* Where no key occurs twice, a place in the order says which keys are not greater.
LEMMA PlaceCounts ==
    ASSUME NEW n \in Nat, NEW keys \in [1..n -> Nat],
           \A i, j \in 1..n : keys[i] = keys[j] => i = j,
           NEW o \in Orders(keys), NEW i \in 1..n
    PROVE  IsFiniteSet(Upto(n, keys, o[i])) /\ Cardinality(Upto(n, keys, o[i])) = i
<1> DEFINE upto == Upto(n, keys, o[i])
           f == [j \in 1..i |-> o[j]]
<1>0. o \in Shuffles(n) /\ InOrder(n, keys, o)
  BY OrdersShuffle
<1>1. /\ o \in [1..n -> 1..n]
      /\ \A k \in 1..n : \E j \in 1..n : o[j] = k
      /\ \A k, j \in 1..n : o[k] = o[j] => k = j
      /\ \A k, j \in 1..n : k < j => keys[o[k]] <= keys[o[j]]
  BY <1>0 DEF Shuffles, InOrder
<1>2. \A k \in 1..n : o[k] \in 1..n /\ keys[o[k]] \in Nat
  BY <1>1
<1>3. \A j \in 1..n : keys[o[j]] <= keys[o[i]] <=> j <= i
  <2> SUFFICES ASSUME NEW j \in 1..n PROVE keys[o[j]] <= keys[o[i]] <=> j <= i
    OBVIOUS
  <2>0. keys[o[i]] \in Nat /\ keys[o[j]] \in Nat /\ o[i] \in 1..n /\ o[j] \in 1..n
    BY <1>2
  <2>1. CASE j = i
    BY <2>0, <2>1
  <2>2. CASE j < i
    <3>1. keys[o[j]] <= keys[o[i]]
      BY <1>1, <2>2
    <3> QED BY <2>2, <3>1
  <2>3. CASE i < j
    <3>1. keys[o[i]] <= keys[o[j]]
      BY <1>1, <2>3
    <3>2. o[i] # o[j]
      BY <1>1, <2>3
    <3>3. keys[o[i]] # keys[o[j]]
      BY <2>0, <3>2
    <3> QED BY <2>0, <2>3, <3>1, <3>3
  <2> QED BY <2>1, <2>2, <2>3
<1>4. \A j \in 1..i : j \in 1..n /\ j <= i
  OBVIOUS
<1>5. \A j \in 1..i : o[j] \in upto
  BY <1>2, <1>3, <1>4 DEF Upto
<1>6. \A p \in upto : \E j \in 1..i : o[j] = p
  <2> SUFFICES ASSUME NEW p \in upto PROVE \E j \in 1..i : o[j] = p
    OBVIOUS
  <2>1. p \in 1..n /\ keys[p] <= keys[o[i]]
    BY DEF Upto
  <2> HIDE DEF upto
  <2>2. PICK j \in 1..n : o[j] = p
    BY <1>1, <2>1
  <2>3. j <= i
    BY <1>3, <2>1, <2>2
  <2>4. j \in 1..i
    BY <2>3
  <2> QED BY <2>2, <2>4
<1> HIDE DEF upto
<1>7. f \in Bijection(1..i, upto)
  <2>1. f \in [1..i -> upto] /\ \A j \in 1..i : f[j] = o[j]
    BY <1>5
  <2> HIDE DEF f
  <2>2. \A j, k \in 1..i : f[j] = f[k] => j = k
    BY <1>1, <1>4, <2>1
  <2>3. \A p \in upto : \E j \in 1..i : f[j] = p
    BY <1>6, <2>1
  <2> QED BY <2>1, <2>2, <2>3 DEF Bijection, Injection, Surjection, IsInjective
<1>8. ExistsBijection(1..i, upto)
  BY <1>7 DEF ExistsBijection
<1>9. i \in Nat
  OBVIOUS
<1>10. IsFiniteSet(upto) /\ Cardinality(upto) = i
  BY <1>8, <1>9, FS_CountingElements, FS_NatBijection
<1> QED BY <1>10 DEF upto

\* Then there is one order only.
LEMMA OrdersAreOne ==
    ASSUME NEW n \in Nat, NEW keys \in [1..n -> Nat],
           \A i, j \in 1..n : keys[i] = keys[j] => i = j,
           NEW o \in Orders(keys), NEW q \in Orders(keys)
    PROVE  o = q
<1>1. o \in Shuffles(n) /\ q \in Shuffles(n)
  BY OrdersShuffle
<1>2. /\ o \in [1..n -> 1..n] /\ q \in [1..n -> 1..n]
      /\ \A i \in 1..n : \E j \in 1..n : q[j] = i
  BY <1>1 DEF Shuffles
<1>3. ASSUME NEW i \in 1..n PROVE o[i] = q[i]
  <2>1. PICK j \in 1..n : q[j] = o[i]
    BY <1>2
  <2>2. Cardinality(Upto(n, keys, o[i])) = i
    BY PlaceCounts
  <2>3. Cardinality(Upto(n, keys, q[j])) = j
    BY PlaceCounts
  <2> QED BY <2>1, <2>2, <2>3
<1> QED BY <1>2, <1>3

-----------------------------------------------------------------------------
(* What is read of what was written.                                       *)

\* Two objects that differ at most in the order of their masks.
SameObject(a, b) ==
    /\ a.id = b.id /\ a.parent = b.parent
    /\ a.transform = b.transform /\ a.primitive = b.primitive /\ a.material = b.material
    /\ a.collider = None <=> b.collider = None
    /\ a.collider # None => /\ a.collider.quality = b.collider.quality
                            /\ SortedStrings(a.collider.mask) = SortedStrings(b.collider.mask)
    /\ DumpedObject(a) = DumpedObject(b)

\* Two spawn points that differ at most in the order of their tags.
SameSpawn(a, b) ==
    /\ a.id = b.id /\ a.enabled = b.enabled /\ a.place = b.place
    /\ DumpedSpawn(a) = DumpedSpawn(b)

ObjectsAlike(list2, list) ==
    \E n \in Nat : \E p \in Shuffles(n) :
        /\ DOMAIN list = 1..n /\ DOMAIN list2 = 1..n
        /\ \A i \in 1..n : SameObject(list2[i], list[p[i]])

SpawnsAlike(list2, list) ==
    \E n \in Nat : \E p \in Shuffles(n) :
        /\ DOMAIN list = 1..n /\ DOMAIN list2 = 1..n
        /\ \A i \in 1..n : SameSpawn(list2[i], list[p[i]])

\* Two scenes that differ at most in the order of things.
Alike(t, s) ==
    /\ t.header = s.header
    /\ ObjectsAlike(t.objects, s.objects) /\ SpawnsAlike(t.spawnPoints, s.spawnPoints)

LEMMA QualityReadBack ==
    ASSUME NEW quality \in Qualities, Dumped(quality) # "null", NEW default
    PROVE  Dumped(quality) = quality /\ Read(Dumped(quality), default) = quality
<1>1. Dumped(quality) = quality
  BY DEF Dumped
<1>2. quality # None
  BY NoneAssumption
<1> QED BY <1>1, <1>2 DEF Read

\* What DumpedObject, ReadObject, DumpedSpawn and ReadSpawn do, field by field.
LEMMA DumpedObjectIs ==
    ASSUME NEW a, NEW b, NEW c, NEW d, NEW e, NEW f
    PROVE  DumpedObject([id |-> a, parent |-> b, transform |-> c, primitive |-> d,
                         material |-> e, collider |-> f])
             = [id |-> a, parent |-> b, transform |-> Dumped(c), primitive |-> Dumped(d),
                material |-> Dumped(e), collider |-> DumpedCollider(f)]
<1> DEFINE x == [id |-> a, parent |-> b, transform |-> c, primitive |-> d, material |-> e,
                 collider |-> f]
           C == Dumped(c)
           D == Dumped(d)
           E == Dumped(e)
           F == DumpedCollider(f)
<1>1. DumpedObject(x) = [x EXCEPT !.transform = C, !.primitive = D, !.material = E,
                                  !.collider = F]
  BY DEF DumpedObject
<1> HIDE DEF C, D, E, F
<1>2. DumpedObject(x) = [id |-> a, parent |-> b, transform |-> C, primitive |-> D,
                         material |-> E, collider |-> F]
  BY <1>1
<1> QED BY <1>2 DEF C, D, E, F

LEMMA ReadObjectIs ==
    ASSUME NEW a, NEW b, NEW c, NEW d, NEW e, NEW f
    PROVE  ReadObject([id |-> a, parent |-> b, transform |-> c, primitive |-> d,
                       material |-> e, collider |-> f])
             = [id |-> Read(a, Default.id), parent |-> b,
                transform |-> Read(c, Default.transform),
                primitive |-> Read(d, Default.primitive),
                material |-> Read(e, Default.material), collider |-> ReadCollider(f)]
<1> DEFINE x == [id |-> a, parent |-> b, transform |-> c, primitive |-> d, material |-> e,
                 collider |-> f]
           A == Read(a, Default.id)
           C == Read(c, Default.transform)
           D == Read(d, Default.primitive)
           E == Read(e, Default.material)
           F == ReadCollider(f)
<1>1. ReadObject(x) = [x EXCEPT !.id = A, !.transform = C, !.primitive = D, !.material = E,
                                !.collider = F]
  BY DEF ReadObject
<1> HIDE DEF A, C, D, E, F
<1>2. ReadObject(x) = [id |-> A, parent |-> b, transform |-> C, primitive |-> D,
                       material |-> E, collider |-> F]
  BY <1>1
<1> QED BY <1>2 DEF A, C, D, E, F

LEMMA DumpedSpawnIs ==
    ASSUME NEW a, NEW b, NEW c, NEW d
    PROVE  DumpedSpawn([id |-> a, enabled |-> b, place |-> c, tags |-> d])
             = [id |-> a, enabled |-> b, place |-> Dumped(c), tags |-> SortedStrings(d)]
<1> DEFINE x == [id |-> a, enabled |-> b, place |-> c, tags |-> d]
           C == Dumped(c)
           D == SortedStrings(d)
<1>1. DumpedSpawn(x) = [x EXCEPT !.place = C, !.tags = D]
  BY DEF DumpedSpawn
<1> HIDE DEF C, D
<1>2. DumpedSpawn(x) = [id |-> a, enabled |-> b, place |-> C, tags |-> D]
  BY <1>1
<1> QED BY <1>2 DEF C, D

LEMMA ReadSpawnIs ==
    ASSUME NEW a, NEW b, NEW c, NEW d
    PROVE  ReadSpawn([id |-> a, enabled |-> b, place |-> c, tags |-> d])
             = [id |-> Read(a, Default.id), enabled |-> Read(b, Default.enabled),
                place |-> Read(c, Default.place), tags |-> d]
<1> DEFINE x == [id |-> a, enabled |-> b, place |-> c, tags |-> d]
           A == Read(a, Default.id)
           B == Read(b, Default.enabled)
           C == Read(c, Default.place)
<1>1. ReadSpawn(x) = [x EXCEPT !.id = A, !.enabled = B, !.place = C]
  BY DEF ReadSpawn
<1> HIDE DEF A, B, C
<1>2. ReadSpawn(x) = [id |-> A, enabled |-> B, place |-> C, tags |-> d]
  BY <1>1
<1> QED BY <1>2 DEF A, B, C

Colliding == [quality : Qualities, mask : Seq(Nat)]

LEMMA ColliderReadBack ==
    ASSUME NEW c \in Colliding, Dumped(c.quality) # "null"
    PROVE  /\ ReadCollider(DumpedCollider(c)) \in Colliding
           /\ c # None /\ DumpedCollider(c) # None /\ ReadCollider(DumpedCollider(c)) # None
           /\ ReadCollider(DumpedCollider(c)).quality = c.quality
           /\ ReadCollider(DumpedCollider(c)).mask = SortedStrings(c.mask)
<1> DEFINE d == DumpedCollider(c)
           r == ReadCollider(d)
           Q == Read(Dumped(c.quality), Default.collider)
           M == SortedStrings(c.mask)
<1>0. \A x \in Colliding : x # None
  BY NoneAssumption DEF Colliding
<1>1. c.quality \in Qualities /\ c.mask \in Seq(Nat)
  BY DEF Colliding
<1>2. Dumped(c.quality) = c.quality /\ Q = c.quality
  BY <1>1, QualityReadBack
<1>3. M \in Seq(Nat)
  BY <1>1, SortedTwice
<1>4. d = [quality |-> c.quality, mask |-> M]
  BY <1>0, <1>2 DEF DumpedCollider
<1>5. d \in Colliding /\ d # None
  BY <1>0, <1>1, <1>3, <1>4 DEF Colliding
<1>6. r = [d EXCEPT !.quality = Q]
  BY <1>2, <1>4, <1>5 DEF ReadCollider
<1> HIDE DEF d, r, Q, M
<1>7. r = [quality |-> c.quality, mask |-> M]
  BY <1>2, <1>4, <1>6
<1>8. r \in Colliding /\ r.quality = c.quality /\ r.mask = M
  BY <1>1, <1>3, <1>7 DEF Colliding
<1> QED BY <1>0, <1>5, <1>8 DEF d, r, M

LEMMA ObjectReadBack ==
    ASSUME NEW x \in Objects,
           "null" \notin {Dumped(x.transform), Dumped(x.primitive), Dumped(x.material)},
           x.collider # None => Dumped(x.collider.quality) # "null"
    PROVE  /\ ReadObject(DumpedObject(x)) \in Objects
           /\ SameObject(ReadObject(DumpedObject(x)), x)
<1> DEFINE d == DumpedObject(x)
           r == ReadObject(d)
           c == DumpedCollider(x.collider)
           k == ReadCollider(c)
<1>1. /\ x.id \in Nat /\ x.parent \in Nat \cup {None} /\ x.transform \in Qualities
      /\ x.primitive \in Qualities /\ x.material \in Qualities
      /\ x.collider \in Colliding \cup {None}
  BY DEF Objects, Colliding
<1>2. x = [id |-> x.id, parent |-> x.parent, transform |-> x.transform,
           primitive |-> x.primitive, material |-> x.material, collider |-> x.collider]
  BY DEF Objects
<1>3. /\ Dumped(x.transform) = x.transform /\ Read(x.transform, Default.transform) = x.transform
      /\ Dumped(x.primitive) = x.primitive /\ Read(x.primitive, Default.primitive) = x.primitive
      /\ Dumped(x.material) = x.material /\ Read(x.material, Default.material) = x.material
  BY <1>1, QualityReadBack
<1>4. Read(x.id, Default.id) = x.id
  BY <1>1, NoneAssumption DEF Read
<1>5. d = [id |-> x.id, parent |-> x.parent, transform |-> x.transform,
           primitive |-> x.primitive, material |-> x.material, collider |-> c]
  <2> DEFINE y == [id |-> x.id, parent |-> x.parent, transform |-> x.transform,
                   primitive |-> x.primitive, material |-> x.material,
                   collider |-> x.collider]
  <2>1. DumpedObject(y) = [id |-> x.id, parent |-> x.parent,
                           transform |-> Dumped(x.transform),
                           primitive |-> Dumped(x.primitive),
                           material |-> Dumped(x.material), collider |-> c]
    BY DumpedObjectIs
  <2>2. x = y
    BY <1>2
  <2> HIDE DEF y
  <2> QED BY <1>3, <2>1, <2>2
<1> HIDE DEF d, c
<1>6. r = [id |-> x.id, parent |-> x.parent, transform |-> x.transform,
           primitive |-> x.primitive, material |-> x.material, collider |-> k]
  BY <1>3, <1>4, <1>5, ReadObjectIs
<1> HIDE DEF r, k
<1>7. k \in Colliding \cup {None} /\ (k = None <=> x.collider = None)
  BY <1>1, ColliderReadBack DEF k, c, ReadCollider, DumpedCollider
<1>8. x.collider # None => /\ k.quality = x.collider.quality
                           /\ SortedStrings(k.mask) = SortedStrings(x.collider.mask)
  <2> SUFFICES ASSUME x.collider # None
               PROVE  /\ k.quality = x.collider.quality
                      /\ SortedStrings(k.mask) = SortedStrings(x.collider.mask)
    OBVIOUS
  <2>1. x.collider \in Colliding /\ x.collider.mask \in Seq(Nat)
    BY <1>1 DEF Colliding
  <2>2. k.quality = x.collider.quality /\ k.mask = SortedStrings(x.collider.mask)
    BY <2>1, ColliderReadBack DEF k, c
  <2> QED BY <2>1, <2>2, SortedTwice
<1>9. r \in Objects
  BY <1>1, <1>6, <1>7 DEF Objects, Colliding
<1>10. DumpedCollider(k) = c
  <2>1. CASE x.collider = None
    BY <1>7, <2>1 DEF DumpedCollider, c
  <2>2. CASE x.collider # None
    BY <1>7, <1>8, <2>2 DEF DumpedCollider, c
  <2> QED BY <2>1, <2>2
<1>11. DumpedObject(r) = [id |-> x.id, parent |-> x.parent, transform |-> x.transform,
                          primitive |-> x.primitive, material |-> x.material,
                          collider |-> c]
  BY <1>3, <1>6, <1>10, DumpedObjectIs
<1>12. /\ r.id = x.id /\ r.parent = x.parent /\ r.transform = x.transform
       /\ r.primitive = x.primitive /\ r.material = x.material /\ r.collider = k
  BY <1>6
<1>13. SameObject(r, x)
  BY <1>5, <1>7, <1>8, <1>11, <1>12 DEF SameObject, d
<1> QED BY <1>9, <1>13 DEF r, d

LEMMA SpawnReadBack ==
    ASSUME NEW x \in SpawnPoints, Dumped(x.place) # "null"
    PROVE  /\ ReadSpawn(DumpedSpawn(x)) \in SpawnPoints
           /\ SameSpawn(ReadSpawn(DumpedSpawn(x)), x)
<1> DEFINE d == DumpedSpawn(x)
           r == ReadSpawn(d)
           t == SortedStrings(x.tags)
<1>1. x.id \in Nat /\ x.enabled \in BOOLEAN /\ x.place \in Qualities /\ x.tags \in Seq(Nat)
  BY DEF SpawnPoints
<1>2. x = [id |-> x.id, enabled |-> x.enabled, place |-> x.place, tags |-> x.tags]
  BY DEF SpawnPoints
<1>3. t \in Seq(Nat) /\ SortedStrings(t) = t
  BY <1>1, SortedTwice
<1>4. Read(x.id, Default.id) = x.id /\ Read(x.enabled, Default.enabled) = x.enabled
  BY <1>1, NoneAssumption DEF Read
<1>5. Dumped(x.place) = x.place /\ Read(x.place, Default.place) = x.place
  BY <1>1, QualityReadBack
<1>6. d = [id |-> x.id, enabled |-> x.enabled, place |-> x.place, tags |-> t]
  <2> DEFINE y == [id |-> x.id, enabled |-> x.enabled, place |-> x.place, tags |-> x.tags]
  <2>1. DumpedSpawn(y) = [id |-> x.id, enabled |-> x.enabled, place |-> Dumped(x.place),
                          tags |-> t]
    BY DumpedSpawnIs
  <2>2. x = y
    BY <1>2
  <2> HIDE DEF y
  <2> QED BY <1>5, <2>1, <2>2
<1> HIDE DEF d, t
<1>7. r = [id |-> x.id, enabled |-> x.enabled, place |-> x.place, tags |-> t]
  BY <1>4, <1>5, <1>6, ReadSpawnIs
<1> HIDE DEF r
<1>8. r \in SpawnPoints
  BY <1>1, <1>3, <1>7 DEF SpawnPoints
<1>9. DumpedSpawn(r) = d
  BY <1>3, <1>5, <1>6, <1>7, DumpedSpawnIs
<1>10. SameSpawn(r, x)
  BY <1>7, <1>9 DEF SameSpawn, d
<1> QED BY <1>8, <1>10 DEF r, d

\* The fields of a dumped object that HasNull asks for.
LEMMA DumpedFields ==
    ASSUME NEW x \in Objects
    PROVE  /\ DumpedObject(x).id = x.id
           /\ DumpedObject(x).transform = Dumped(x.transform)
           /\ DumpedObject(x).primitive = Dumped(x.primitive)
           /\ DumpedObject(x).material = Dumped(x.material)
           /\ x.collider # None => /\ DumpedObject(x).collider # None
                                   /\ DumpedObject(x).collider.quality = Dumped(x.collider.quality)
<1> DEFINE y == [id |-> x.id, parent |-> x.parent, transform |-> x.transform,
                 primitive |-> x.primitive, material |-> x.material,
                 collider |-> x.collider]
           c == DumpedCollider(x.collider)
<1>1. DumpedObject(y) = [id |-> x.id, parent |-> x.parent, transform |-> Dumped(x.transform),
                         primitive |-> Dumped(x.primitive), material |-> Dumped(x.material),
                         collider |-> c]
  BY DumpedObjectIs
<1>2. x = y
  BY DEF Objects
<1>3. ASSUME x.collider # None
      PROVE  c # None /\ c.quality = Dumped(x.collider.quality)
  <2>1. c = [quality |-> Dumped(x.collider.quality), mask |-> SortedStrings(x.collider.mask)]
    BY <1>3 DEF DumpedCollider
  <2>2. x.collider \in Colliding /\ x.collider.quality \in Qualities /\ x.collider.mask \in Seq(Nat)
    BY <1>3 DEF Objects, Colliding
  <2>3. Dumped(x.collider.quality) \in Written \cup Qualities \cup {None}
    BY <2>2 DEF Dumped, Written, Qualities
  <2>4. SortedStrings(x.collider.mask) \in Seq(Nat)
    BY <2>2, SortedTwice
  <2>5. c \in [quality : Written \cup Qualities \cup {None}, mask : Seq(Nat)]
    BY <2>1, <2>3, <2>4
  <2> QED BY <2>1, <2>5, NoneAssumption
<1> HIDE DEF y, c
<1> QED BY <1>1, <1>2, <1>3

LEMMA DumpedPlace ==
    ASSUME NEW x \in SpawnPoints
    PROVE  DumpedSpawn(x).id = x.id /\ DumpedSpawn(x).place = Dumped(x.place)
<1> DEFINE y == [id |-> x.id, enabled |-> x.enabled, place |-> x.place, tags |-> x.tags]
<1>1. DumpedSpawn(y) = [id |-> x.id, enabled |-> x.enabled, place |-> Dumped(x.place),
                        tags |-> SortedStrings(x.tags)]
  BY DumpedSpawnIs
<1>2. x = y
  BY DEF SpawnPoints
<1> HIDE DEF y
<1> QED BY <1>1, <1>2

Ids(list) == [i \in DOMAIN list |-> list[i].id]

Along(n, list, o) == [i \in 1..n |-> list[o[i]]]

\* A sorting is the list along an order of its ids, and there is one.
LEMMA SortingsOrder ==
    ASSUME NEW n \in Nat, NEW list, DOMAIN list = 1..n, \A i \in 1..n : list[i].id \in Nat
    PROVE  /\ Ids(list) \in [1..n -> Nat]
           /\ \A o \in Orders(Ids(list)) : o \in Shuffles(n) /\ o \in [1..n -> 1..n]
           /\ \A sorted : sorted \in Sortings(list) <=>
                             \E o \in Orders(Ids(list)) : sorted = Along(n, list, o)
           /\ Sortings(list) # {}
<1>1. Ids(list) \in [1..n -> Nat]
  BY DEF Ids
<1>2. \A o \in Orders(Ids(list)) : o \in Shuffles(n)
  BY <1>1, OrdersShuffle
<1>3. \A o \in Orders(Ids(list)) : o \in [1..n -> 1..n]
  BY <1>2 DEF Shuffles
<1>4. Sortings(list) = {Along(n, list, o) : o \in Orders(Ids(list))}
  BY DEF Sortings, Arranged, Ids, Along
<1>5. Orders(Ids(list)) # {}
  BY <1>1, OrdersExist
<1> HIDE DEF Sortings
<1> QED BY <1>1, <1>2, <1>3, <1>4, <1>5

LEMMA ObjectsReadBack ==
    ASSUME NEW list \in Seq(Objects), NEW sorted \in Sortings(list), NEW dumped,
           dumped = [i \in DOMAIN sorted |-> DumpedObject(sorted[i])],
           \A i \in DOMAIN dumped :
              /\ "null" \notin {dumped[i].transform, dumped[i].primitive, dumped[i].material}
              /\ dumped[i].collider # None => dumped[i].collider.quality # "null"
    PROVE  /\ [i \in DOMAIN dumped |-> ReadObject(dumped[i])] \in Seq(Objects)
           /\ ObjectsAlike([i \in DOMAIN dumped |-> ReadObject(dumped[i])], list)
<1> DEFINE n == Len(list)
           list2 == [i \in DOMAIN dumped |-> ReadObject(dumped[i])]
<1>1. n \in Nat /\ DOMAIN list = 1..n /\ \A i \in 1..n : list[i] \in Objects
  OBVIOUS
<1>2. \A i \in 1..n : list[i].id \in Nat
  BY <1>1 DEF Objects
<1> HIDE DEF n
<1>3. PICK o \in Orders(Ids(list)) : sorted = Along(n, list, o)
  BY <1>1, <1>2, SortingsOrder
<1>4. o \in Shuffles(n) /\ o \in [1..n -> 1..n]
  BY <1>1, <1>2, SortingsOrder
<1>5. DOMAIN dumped = 1..n /\ \A i \in 1..n : dumped[i] = DumpedObject(list[o[i]])
  BY <1>3 DEF Along
<1>6. ASSUME NEW i \in 1..n
      PROVE  list2[i] \in Objects /\ SameObject(list2[i], list[o[i]])
  <2> DEFINE x == list[o[i]]
  <2>1. x \in Objects /\ dumped[i] = DumpedObject(x)
    BY <1>1, <1>4, <1>5
  <2>2. list2[i] = ReadObject(DumpedObject(x))
    BY <1>5, <2>1
  <2> HIDE DEF x, list2
  <2>3. /\ "null" \notin {dumped[i].transform, dumped[i].primitive, dumped[i].material}
        /\ dumped[i].collider # None => dumped[i].collider.quality # "null"
    BY <1>5
  <2>4. /\ "null" \notin {Dumped(x.transform), Dumped(x.primitive), Dumped(x.material)}
        /\ x.collider # None => Dumped(x.collider.quality) # "null"
    BY <2>1, <2>3, DumpedFields
  <2> QED BY <2>1, <2>2, <2>4, ObjectReadBack DEF x
<1>7. DOMAIN list2 = 1..n /\ list2 \in [1..n -> Objects]
  BY <1>5, <1>6
<1> HIDE DEF list2
<1>8. list2 \in Seq(Objects)
  BY <1>1, <1>7, SeqDef
<1>9. ObjectsAlike(list2, list)
  BY <1>1, <1>4, <1>6, <1>7 DEF ObjectsAlike
<1> QED BY <1>8, <1>9 DEF list2

LEMMA SpawnsReadBack ==
    ASSUME NEW list \in Seq(SpawnPoints), NEW sorted \in Sortings(list), NEW dumped,
           dumped = [i \in DOMAIN sorted |-> DumpedSpawn(sorted[i])],
           \A i \in DOMAIN dumped : dumped[i].place # "null"
    PROVE  /\ [i \in DOMAIN dumped |-> ReadSpawn(dumped[i])] \in Seq(SpawnPoints)
           /\ SpawnsAlike([i \in DOMAIN dumped |-> ReadSpawn(dumped[i])], list)
<1> DEFINE n == Len(list)
           list2 == [i \in DOMAIN dumped |-> ReadSpawn(dumped[i])]
<1>1. n \in Nat /\ DOMAIN list = 1..n /\ \A i \in 1..n : list[i] \in SpawnPoints
  OBVIOUS
<1>2. \A i \in 1..n : list[i].id \in Nat
  BY <1>1 DEF SpawnPoints
<1> HIDE DEF n
<1>3. PICK o \in Orders(Ids(list)) : sorted = Along(n, list, o)
  BY <1>1, <1>2, SortingsOrder
<1>4. o \in Shuffles(n) /\ o \in [1..n -> 1..n]
  BY <1>1, <1>2, SortingsOrder
<1>5. DOMAIN dumped = 1..n /\ \A i \in 1..n : dumped[i] = DumpedSpawn(list[o[i]])
  BY <1>3 DEF Along
<1>6. ASSUME NEW i \in 1..n
      PROVE  list2[i] \in SpawnPoints /\ SameSpawn(list2[i], list[o[i]])
  <2> DEFINE x == list[o[i]]
  <2>1. x \in SpawnPoints /\ dumped[i] = DumpedSpawn(x)
    BY <1>1, <1>4, <1>5
  <2>2. list2[i] = ReadSpawn(DumpedSpawn(x))
    BY <1>5, <2>1
  <2> HIDE DEF x, list2
  <2>3. Dumped(x.place) # "null"
    BY <1>5, <2>1, DumpedPlace
  <2> QED BY <2>1, <2>2, <2>3, SpawnReadBack DEF x
<1>7. DOMAIN list2 = 1..n /\ list2 \in [1..n -> SpawnPoints]
  BY <1>5, <1>6
<1> HIDE DEF list2
<1>8. list2 \in Seq(SpawnPoints)
  BY <1>1, <1>7, SeqDef
<1>9. SpawnsAlike(list2, list)
  BY <1>1, <1>4, <1>6, <1>7 DEF SpawnsAlike
<1> QED BY <1>8, <1>9 DEF list2

\* What is read of what a scene was written as is a scene, and differs from it at most in
\* the order of things.
LEMMA SceneReadBack ==
    ASSUME NEW s \in Scenes, NEW doc \in CanonicalJson(s), ~HasNull(doc)
    PROVE  AuthoringSceneFromJson(doc) \in Scenes /\ Alike(AuthoringSceneFromJson(doc), s)
<1> DEFINE t == AuthoringSceneFromJson(doc)
<1>1. /\ s.header \in [HeaderFields -> Qualities]
      /\ s.objects \in Seq(Objects) /\ s.spawnPoints \in Seq(SpawnPoints)
  BY DEF Scenes
<1>2. PICK objects \in Sortings(s.objects), spawns \in Sortings(s.spawnPoints) :
         doc = [header |-> [f \in HeaderFields |-> Dumped(s.header[f])],
                objects |-> [i \in DOMAIN objects |-> DumpedObject(objects[i])],
                spawnPoints |-> [i \in DOMAIN spawns |-> DumpedSpawn(spawns[i])]]
  BY DEF CanonicalJson
<1>3. /\ doc.header = [f \in HeaderFields |-> Dumped(s.header[f])]
      /\ doc.objects = [i \in DOMAIN objects |-> DumpedObject(objects[i])]
      /\ doc.spawnPoints = [i \in DOMAIN spawns |-> DumpedSpawn(spawns[i])]
  BY <1>2
<1>4. \A f \in HeaderFields : doc.header[f] # "null"
  BY DEF HasNull
<1>5. \A i \in DOMAIN doc.objects :
         /\ "null" \notin {doc.objects[i].transform, doc.objects[i].primitive,
                           doc.objects[i].material}
         /\ doc.objects[i].collider # None => doc.objects[i].collider.quality # "null"
  BY DEF HasNull, Items
<1>6. \A i \in DOMAIN doc.spawnPoints : doc.spawnPoints[i].place # "null"
  BY DEF HasNull, Items
<1>7. /\ t.header = [f \in HeaderFields |-> Read(doc.header[f], Default[f])]
      /\ t.objects = [i \in DOMAIN doc.objects |-> ReadObject(doc.objects[i])]
      /\ t.spawnPoints = [i \in DOMAIN doc.spawnPoints |-> ReadSpawn(doc.spawnPoints[i])]
      /\ t = [header |-> t.header, objects |-> t.objects, spawnPoints |-> t.spawnPoints]
  BY DEF AuthoringSceneFromJson
<1> HIDE DEF t
<1>8. t.header = s.header
  <2>1. \A f \in HeaderFields : Read(doc.header[f], Default[f]) = s.header[f]
    <3> SUFFICES ASSUME NEW f \in HeaderFields
                 PROVE  Read(doc.header[f], Default[f]) = s.header[f]
      OBVIOUS
    <3>1. doc.header[f] = Dumped(s.header[f]) /\ doc.header[f] # "null"
      BY <1>3, <1>4
    <3>2. s.header[f] \in Qualities
      BY <1>1
    <3> QED BY <3>1, <3>2, QualityReadBack
  <2> QED BY <1>1, <1>7, <2>1
<1>9. t.objects \in Seq(Objects) /\ ObjectsAlike(t.objects, s.objects)
  <2> DEFINE dumped == doc.objects
  <2>1. /\ dumped = [i \in DOMAIN objects |-> DumpedObject(objects[i])]
        /\ s.objects \in Seq(Objects) /\ objects \in Sortings(s.objects)
    BY <1>1, <1>3
  <2>2. \A i \in DOMAIN dumped :
           /\ "null" \notin {dumped[i].transform, dumped[i].primitive, dumped[i].material}
           /\ dumped[i].collider # None => dumped[i].collider.quality # "null"
    BY <1>5
  <2>3. t.objects = [i \in DOMAIN dumped |-> ReadObject(dumped[i])]
    BY <1>7
  <2> HIDE DEF dumped
  <2>4. /\ [i \in DOMAIN dumped |-> ReadObject(dumped[i])] \in Seq(Objects)
        /\ ObjectsAlike([i \in DOMAIN dumped |-> ReadObject(dumped[i])], s.objects)
    BY <2>1, <2>2, ObjectsReadBack
  <2> QED BY <2>3, <2>4
<1>10. t.spawnPoints \in Seq(SpawnPoints) /\ SpawnsAlike(t.spawnPoints, s.spawnPoints)
  <2> DEFINE dumped == doc.spawnPoints
  <2>1. /\ dumped = [i \in DOMAIN spawns |-> DumpedSpawn(spawns[i])]
        /\ s.spawnPoints \in Seq(SpawnPoints) /\ spawns \in Sortings(s.spawnPoints)
    BY <1>1, <1>3
  <2>2. \A i \in DOMAIN dumped : dumped[i].place # "null"
    BY <1>6
  <2>3. t.spawnPoints = [i \in DOMAIN dumped |-> ReadSpawn(dumped[i])]
    BY <1>7
  <2> HIDE DEF dumped
  <2>4. /\ [i \in DOMAIN dumped |-> ReadSpawn(dumped[i])] \in Seq(SpawnPoints)
        /\ SpawnsAlike([i \in DOMAIN dumped |-> ReadSpawn(dumped[i])], s.spawnPoints)
    BY <2>1, <2>2, SpawnsReadBack
  <2> QED BY <2>3, <2>4
<1>11. t \in Scenes
  BY <1>1, <1>7, <1>8, <1>9, <1>10 DEF Scenes
<1>12. Alike(t, s)
  BY <1>8, <1>9, <1>10 DEF Alike
<1> QED BY <1>11, <1>12 DEF t

LEMMA WrittenIsRead ==
    ASSUME NEW value \in Written \cup {None}, value # "null", NEW default \in Qualities
    PROVE  Read(value, default) \in Qualities
BY DEF Read, Written, Qualities

LEMMA WrittenObjectRead ==
    ASSUME NEW x \in WrittenObjects,
           "null" \notin {x.transform, x.primitive, x.material},
           x.collider # None => x.collider.quality # "null"
    PROVE  ReadObject(x) \in Objects
<1> DEFINE y == [id |-> x.id, parent |-> x.parent, transform |-> x.transform,
                 primitive |-> x.primitive, material |-> x.material,
                 collider |-> x.collider]
           Collider == [quality : Written \cup {None}, mask : Seq(Nat)]
           k == ReadCollider(x.collider)
<1>1. /\ x.id \in Nat \cup {None} /\ x.parent \in Nat \cup {None}
      /\ x.transform \in Written \cup {None} /\ x.primitive \in Written \cup {None}
      /\ x.material \in Written \cup {None} /\ x.collider \in Collider \cup {None}
  BY DEF WrittenObjects
<1>2. x = y
  BY DEF WrittenObjects
<1>3. ReadObject(y) = [id |-> Read(x.id, Default.id), parent |-> x.parent,
                       transform |-> Read(x.transform, Default.transform),
                       primitive |-> Read(x.primitive, Default.primitive),
                       material |-> Read(x.material, Default.material), collider |-> k]
  BY ReadObjectIs
<1>4. /\ Default.transform \in Qualities /\ Default.primitive \in Qualities
      /\ Default.material \in Qualities /\ Default.collider \in Qualities
      /\ Default.id \in Nat
  BY DEF Default, Qualities
<1>5. /\ Read(x.transform, Default.transform) \in Qualities
      /\ Read(x.primitive, Default.primitive) \in Qualities
      /\ Read(x.material, Default.material) \in Qualities
  BY <1>1, <1>4, WrittenIsRead
<1>6. Read(x.id, Default.id) \in Nat
  BY <1>1, <1>4 DEF Read
<1>7. k \in Colliding \cup {None}
  <2>1. CASE x.collider = None
    BY <2>1 DEF ReadCollider
  <2>2. CASE x.collider # None
    <3> DEFINE Q == Read(x.collider.quality, Default.collider)
    <3>1. x.collider \in Collider /\ x.collider.quality \in Written \cup {None}
      BY <1>1, <2>2
    <3>2. Q \in Qualities
      BY <1>4, <2>2, <3>1, WrittenIsRead
    <3>3. k = [x.collider EXCEPT !.quality = Q]
      BY <2>2 DEF ReadCollider
    <3> HIDE DEF Q, k
    <3>4. k \in Colliding
      BY <3>1, <3>2, <3>3 DEF Colliding
    <3> QED BY <3>4
  <2> QED BY <2>1, <2>2
<1> HIDE DEF y, k
<1> QED BY <1>1, <1>2, <1>3, <1>5, <1>6, <1>7 DEF Objects, Colliding

LEMMA WrittenSpawnRead ==
    ASSUME NEW x \in WrittenSpawns, x.place # "null"
    PROVE  ReadSpawn(x) \in SpawnPoints
<1> DEFINE y == [id |-> x.id, enabled |-> x.enabled, place |-> x.place, tags |-> x.tags]
<1>1. /\ x.id \in Nat \cup {None} /\ x.enabled \in BOOLEAN \cup {None}
      /\ x.place \in Written \cup {None} /\ x.tags \in Seq(Nat)
  BY DEF WrittenSpawns
<1>2. x = y
  BY DEF WrittenSpawns
<1>3. ReadSpawn(y) = [id |-> Read(x.id, Default.id),
                      enabled |-> Read(x.enabled, Default.enabled),
                      place |-> Read(x.place, Default.place), tags |-> x.tags]
  BY ReadSpawnIs
<1>4. Default.place \in Qualities /\ Default.id \in Nat /\ Default.enabled \in BOOLEAN
  BY DEF Default, Qualities
<1>5. Read(x.place, Default.place) \in Qualities
  BY <1>1, <1>4, WrittenIsRead
<1>6. Read(x.id, Default.id) \in Nat
  BY <1>1, <1>4 DEF Read
<1>7. Read(x.enabled, Default.enabled) \in BOOLEAN
  BY <1>1, <1>4 DEF Read
<1> HIDE DEF y
<1> QED BY <1>1, <1>2, <1>3, <1>5, <1>6, <1>7 DEF SpawnPoints

\* What is read of a document that was written by hand is a scene too.
LEMMA DocumentIsRead ==
    ASSUME NEW doc \in Documents, ~HasNull(doc)
    PROVE  AuthoringSceneFromJson(doc) \in Scenes
<1> DEFINE t == AuthoringSceneFromJson(doc)
<1>1. /\ doc.header \in [HeaderFields -> Written \cup {None}]
      /\ doc.objects \in Seq(WrittenObjects) /\ doc.spawnPoints \in Seq(WrittenSpawns)
  BY DocumentsAssumption
<1>2. \A f \in HeaderFields : doc.header[f] # "null"
  BY DEF HasNull
<1>3. \A i \in DOMAIN doc.objects :
         /\ "null" \notin {doc.objects[i].transform, doc.objects[i].primitive,
                           doc.objects[i].material}
         /\ doc.objects[i].collider # None => doc.objects[i].collider.quality # "null"
  BY DEF HasNull, Items
<1>4. \A i \in DOMAIN doc.spawnPoints : doc.spawnPoints[i].place # "null"
  BY DEF HasNull, Items
<1>5. \A f \in HeaderFields : Read(doc.header[f], Default[f]) \in Qualities
  <2> SUFFICES ASSUME NEW f \in HeaderFields
               PROVE  Read(doc.header[f], Default[f]) \in Qualities
    OBVIOUS
  <2>1. Default[f] \in Qualities
    BY DEF Default, HeaderFields, Qualities
  <2>2. doc.header[f] \in Written \cup {None} /\ doc.header[f] # "null"
    BY <1>1, <1>2
  <2> QED BY <2>1, <2>2, WrittenIsRead
<1>6. ASSUME NEW list \in Seq(WrittenObjects),
             \A i \in DOMAIN list : ReadObject(list[i]) \in Objects
      PROVE  [i \in DOMAIN list |-> ReadObject(list[i])] \in Seq(Objects)
  <2>1. Len(list) \in Nat /\ DOMAIN list = 1..Len(list)
    OBVIOUS
  <2>2. [i \in 1..Len(list) |-> ReadObject(list[i])] \in [1..Len(list) -> Objects]
    BY <1>6, <2>1
  <2> QED BY <2>1, <2>2, SeqDef
<1>7. ASSUME NEW list \in Seq(WrittenSpawns),
             \A i \in DOMAIN list : ReadSpawn(list[i]) \in SpawnPoints
      PROVE  [i \in DOMAIN list |-> ReadSpawn(list[i])] \in Seq(SpawnPoints)
  <2>1. Len(list) \in Nat /\ DOMAIN list = 1..Len(list)
    OBVIOUS
  <2>2. [i \in 1..Len(list) |-> ReadSpawn(list[i])] \in [1..Len(list) -> SpawnPoints]
    BY <1>7, <2>1
  <2> QED BY <2>1, <2>2, SeqDef
<1>8. \A i \in DOMAIN doc.objects : ReadObject(doc.objects[i]) \in Objects
  <2> SUFFICES ASSUME NEW i \in DOMAIN doc.objects PROVE ReadObject(doc.objects[i]) \in Objects
    OBVIOUS
  <2>1. doc.objects[i] \in WrittenObjects
    BY <1>1
  <2> QED BY <1>3, <2>1, WrittenObjectRead
<1>9. \A i \in DOMAIN doc.spawnPoints : ReadSpawn(doc.spawnPoints[i]) \in SpawnPoints
  <2> SUFFICES ASSUME NEW i \in DOMAIN doc.spawnPoints
               PROVE  ReadSpawn(doc.spawnPoints[i]) \in SpawnPoints
    OBVIOUS
  <2>1. doc.spawnPoints[i] \in WrittenSpawns
    BY <1>1
  <2> QED BY <1>4, <2>1, WrittenSpawnRead
<1>10. [i \in DOMAIN doc.objects |-> ReadObject(doc.objects[i])] \in Seq(Objects)
  BY <1>1, <1>6, <1>8
<1>11. [i \in DOMAIN doc.spawnPoints |-> ReadSpawn(doc.spawnPoints[i])] \in Seq(SpawnPoints)
  BY <1>1, <1>7, <1>9
<1>12. [f \in HeaderFields |-> Read(doc.header[f], Default[f])] \in [HeaderFields -> Qualities]
  BY <1>5
<1> QED BY <1>10, <1>11, <1>12 DEF Scenes, AuthoringSceneFromJson

-----------------------------------------------------------------------------
(* Scenes that are alike have the same errors and the same documents.      *)

LEMMA AlikeIsMutual ==
    ASSUME NEW t, NEW s, Alike(t, s)
    PROVE  Alike(s, t)
<1>1. ASSUME NEW list2, NEW list, ObjectsAlike(list2, list) PROVE ObjectsAlike(list, list2)
  <2>1. PICK n \in Nat : \E p \in Shuffles(n) :
           /\ DOMAIN list = 1..n /\ DOMAIN list2 = 1..n
           /\ \A i \in 1..n : SameObject(list2[i], list[p[i]])
    BY <1>1 DEF ObjectsAlike
  <2>2. PICK p \in Shuffles(n) :
           /\ DOMAIN list = 1..n /\ DOMAIN list2 = 1..n
           /\ \A i \in 1..n : SameObject(list2[i], list[p[i]])
    BY <2>1
  <2>3. PICK q \in Shuffles(n) : \A i \in 1..n : p[q[i]] = i /\ q[p[i]] = i
    BY ShuffledBack
  <2>4. ASSUME NEW i \in 1..n PROVE SameObject(list[i], list2[q[i]])
    <3>1. q[i] \in 1..n /\ p[q[i]] = i
      BY <2>3 DEF Shuffles
    <3>2. SameObject(list2[q[i]], list[p[q[i]]])
      BY <2>2, <3>1
    <3>3. SameObject(list2[q[i]], list[i])
      BY <3>1, <3>2
    <3> QED BY <3>3 DEF SameObject
  <2> QED BY <2>2, <2>4 DEF ObjectsAlike
<1>2. ASSUME NEW list2, NEW list, SpawnsAlike(list2, list) PROVE SpawnsAlike(list, list2)
  <2>1. PICK n \in Nat : \E p \in Shuffles(n) :
           /\ DOMAIN list = 1..n /\ DOMAIN list2 = 1..n
           /\ \A i \in 1..n : SameSpawn(list2[i], list[p[i]])
    BY <1>2 DEF SpawnsAlike
  <2>2. PICK p \in Shuffles(n) :
           /\ DOMAIN list = 1..n /\ DOMAIN list2 = 1..n
           /\ \A i \in 1..n : SameSpawn(list2[i], list[p[i]])
    BY <2>1
  <2>3. PICK q \in Shuffles(n) : \A i \in 1..n : p[q[i]] = i /\ q[p[i]] = i
    BY ShuffledBack
  <2>4. ASSUME NEW i \in 1..n PROVE SameSpawn(list[i], list2[q[i]])
    <3>1. q[i] \in 1..n /\ p[q[i]] = i
      BY <2>3 DEF Shuffles
    <3>2. SameSpawn(list2[q[i]], list[p[q[i]]])
      BY <2>2, <3>1
    <3>3. SameSpawn(list2[q[i]], list[i])
      BY <3>1, <3>2
    <3> QED BY <3>3 DEF SameSpawn
  <2> QED BY <2>2, <2>4 DEF SpawnsAlike
<1> QED BY <1>1, <1>2 DEF Alike

\* Lists whose items have the same ids along a shuffle.
LEMMA RepeatedAgain ==
    ASSUME NEW n \in Nat, NEW p \in Shuffles(n), NEW list, NEW list2,
           DOMAIN list = 1..n, DOMAIN list2 = 1..n,
           \A i \in 1..n : list2[i].id = list[p[i]].id
    PROVE  Repeated(list2) \subseteq Repeated(list)
<1> SUFFICES ASSUME NEW id \in Repeated(list2) PROVE id \in Repeated(list)
  OBVIOUS
<1>1. /\ \A i \in 1..n : p[i] \in 1..n
      /\ \A i, j \in 1..n : p[i] = p[j] => i = j
  BY DEF Shuffles
<1>2. PICK i \in 1..n, k \in 1..n : k < i /\ list2[i].id = id /\ list2[k].id = id
  <2>1. PICK i \in 1..n : \E k \in 1..(i - 1) : list2[i].id = id /\ list2[k].id = id
    BY DEF Repeated
  <2>2. PICK k \in 1..(i - 1) : list2[i].id = id /\ list2[k].id = id
    BY <2>1
  <2>3. k \in 1..n /\ k < i
    OBVIOUS
  <2> QED BY <2>2, <2>3
<1>3. k \in 1..n /\ k # i
  BY <1>2
<1>4. p[i] \in 1..n /\ p[k] \in 1..n /\ p[i] # p[k]
  BY <1>1, <1>3
<1>5. list[p[i]].id = id /\ list[p[k]].id = id
  BY <1>2, <1>3
<1>6. CASE p[k] < p[i]
  <2>1. p[k] \in 1..(p[i] - 1)
    BY <1>4, <1>6
  <2> QED BY <1>4, <1>5, <2>1 DEF Repeated
<1>7. CASE p[i] < p[k]
  <2>1. p[i] \in 1..(p[k] - 1)
    BY <1>4, <1>7
  <2> QED BY <1>4, <1>5, <2>1 DEF Repeated
<1> QED BY <1>4, <1>6, <1>7

LEMMA IdsWithin ==
    ASSUME NEW t, NEW s, Alike(t, s)
    PROVE  ObjectIds(t) \subseteq ObjectIds(s)
<1>1. PICK n \in Nat : \E p \in Shuffles(n) :
         /\ DOMAIN s.objects = 1..n /\ DOMAIN t.objects = 1..n
         /\ \A i \in 1..n : SameObject(t.objects[i], s.objects[p[i]])
  BY DEF Alike, ObjectsAlike
<1>2. PICK p \in Shuffles(n) :
         /\ DOMAIN s.objects = 1..n /\ DOMAIN t.objects = 1..n
         /\ \A i \in 1..n : SameObject(t.objects[i], s.objects[p[i]])
  BY <1>1
<1>3. \A i \in 1..n : p[i] \in 1..n /\ t.objects[i].id = s.objects[p[i]].id
  BY <1>2 DEF Shuffles, SameObject
<1> QED BY <1>2, <1>3 DEF ObjectIds, Items

LEMMA SameFaults ==
    ASSUME NEW t, NEW s, ObjectIds(t) = ObjectIds(s), NEW a, NEW b, SameObject(a, b)
    PROVE  Faults(t, a) = Faults(s, b)
<1> DEFINE Codes == {"missing_parent", "invalid_transform", "invalid_primitive",
                     "invalid_material", "invalid_collider"}
           Fault(u, object, code) ==
              CASE code = "missing_parent" -> object.parent \notin ObjectIds(u) \cup {None}
                [] code = "invalid_transform" -> ~Valid(object.transform)
                [] code = "invalid_primitive" -> ~Valid(object.primitive)
                [] code = "invalid_material" -> ~Valid(object.material)
                [] code = "invalid_collider" -> object.collider # None
                                                  /\ ~Valid(object.collider.quality)
<1>1. /\ Faults(t, a) = {code \in Codes : Fault(t, a, code)}
      /\ Faults(s, b) = {code \in Codes : Fault(s, b, code)}
  BY DEF Faults
<1>2. ASSUME NEW code \in Codes PROVE Fault(t, a, code) <=> Fault(s, b, code)
  <2>1. CASE code = "missing_parent"
    BY <2>1 DEF SameObject
  <2>2. CASE code = "invalid_transform"
    BY <2>2 DEF SameObject
  <2>3. CASE code = "invalid_primitive"
    BY <2>3 DEF SameObject
  <2>4. CASE code = "invalid_material"
    BY <2>4 DEF SameObject
  <2>5. CASE code = "invalid_collider"
    BY <2>5 DEF SameObject
  <2> QED BY <2>1, <2>2, <2>3, <2>4, <2>5
<1> HIDE DEF Fault, Codes
<1> QED BY <1>1, <1>2

LEMMA ObjectErrorsWithin ==
    ASSUME NEW t, NEW s, Alike(t, s)
    PROVE  ObjectErrors(t) \subseteq ObjectErrors(s)
<1>0. ObjectIds(t) = ObjectIds(s)
  BY IdsWithin, AlikeIsMutual
<1>1. PICK n \in Nat : \E p \in Shuffles(n) :
         /\ DOMAIN s.objects = 1..n /\ DOMAIN t.objects = 1..n
         /\ \A i \in 1..n : SameObject(t.objects[i], s.objects[p[i]])
  BY DEF Alike, ObjectsAlike
<1>2. PICK p \in Shuffles(n) :
         /\ DOMAIN s.objects = 1..n /\ DOMAIN t.objects = 1..n
         /\ \A i \in 1..n : SameObject(t.objects[i], s.objects[p[i]])
  BY <1>1
<1>3. \A i \in 1..n : p[i] \in 1..n /\ t.objects[i].id = s.objects[p[i]].id
  BY <1>2 DEF Shuffles, SameObject
<1>4. \A a \in Items(t.objects) : \E b \in Items(s.objects) : SameObject(a, b)
  BY <1>2, <1>3 DEF Items
<1>5. Repeated(t.objects) \subseteq Repeated(s.objects)
  BY <1>2, <1>3, RepeatedAgain
<1>6. \A a \in Items(t.objects) : a.id = 0 => \E b \in Items(s.objects) : b.id = 0
  BY <1>4 DEF SameObject
<1>7. \A a \in Items(t.objects) : \E b \in Items(s.objects) :
         Faults(t, a) = Faults(s, b) /\ a.id = b.id
  <2> SUFFICES ASSUME NEW a \in Items(t.objects)
               PROVE  \E b \in Items(s.objects) : Faults(t, a) = Faults(s, b) /\ a.id = b.id
    OBVIOUS
  <2>1. PICK b \in Items(s.objects) : SameObject(a, b)
    BY <1>4
  <2>2. Faults(t, a) = Faults(s, b)
    BY <1>0, <2>1, SameFaults
  <2>3. a.id = b.id
    BY <2>1 DEF SameObject
  <2> QED BY <2>2, <2>3
<1>8. (UNION {Faults(t, object) \X {object.id} : object \in Items(t.objects)})
        \subseteq (UNION {Faults(s, object) \X {object.id} : object \in Items(s.objects)})
  BY <1>7
<1>9. {<<"missing_object_id", 0>> : object \in {o \in Items(t.objects) : o.id = 0}}
        \subseteq {<<"missing_object_id", 0>> : object \in {o \in Items(s.objects) : o.id = 0}}
  BY <1>6
<1>10. {<<"duplicate_object_id", id>> : id \in Repeated(t.objects) \ {0}}
         \subseteq {<<"duplicate_object_id", id>> : id \in Repeated(s.objects) \ {0}}
  BY <1>5
<1> QED BY <1>8, <1>9, <1>10 DEF ObjectErrors

LEMMA SpawnErrorsWithin ==
    ASSUME NEW t, NEW s, Alike(t, s)
    PROVE  SpawnErrors(t) \subseteq SpawnErrors(s)
<1> DEFINE Missing(u) == {<<"missing_spawn_id", 0>> :
                             spawn \in {q \in Items(u.spawnPoints) : q.id = 0}}
           Invalid(u) == {<<"invalid_spawn_point", spawn.id>> :
                             spawn \in {q \in Items(u.spawnPoints) : q.id # 0 /\ ~Valid(q.place)}}
           Duplicate(u) == {<<"duplicate_spawn_id", id>> : id \in Repeated(u.spawnPoints) \ {0}}
           Nowhere(u) == IF \E spawn \in Items(u.spawnPoints) : spawn.enabled THEN {}
                         ELSE {<<"missing_spawn_points", 0>>}
<1>1. PICK n \in Nat : \E p \in Shuffles(n) :
         /\ DOMAIN s.spawnPoints = 1..n /\ DOMAIN t.spawnPoints = 1..n
         /\ \A i \in 1..n : SameSpawn(t.spawnPoints[i], s.spawnPoints[p[i]])
  BY DEF Alike, SpawnsAlike
<1>2. PICK p \in Shuffles(n) :
         /\ DOMAIN s.spawnPoints = 1..n /\ DOMAIN t.spawnPoints = 1..n
         /\ \A i \in 1..n : SameSpawn(t.spawnPoints[i], s.spawnPoints[p[i]])
  BY <1>1
<1>3. \A i \in 1..n : p[i] \in 1..n /\ t.spawnPoints[i].id = s.spawnPoints[p[i]].id
  BY <1>2 DEF Shuffles, SameSpawn
<1>4. \A a \in Items(t.spawnPoints) : \E b \in Items(s.spawnPoints) :
         a.id = b.id /\ a.enabled = b.enabled /\ a.place = b.place
  BY <1>2, <1>3 DEF Items, SameSpawn
<1>5. Repeated(t.spawnPoints) \subseteq Repeated(s.spawnPoints)
  BY <1>2, <1>3, RepeatedAgain
<1>6. \A b \in Items(s.spawnPoints) : \E a \in Items(t.spawnPoints) : a.enabled = b.enabled
  <2> SUFFICES ASSUME NEW b \in Items(s.spawnPoints)
               PROVE  \E a \in Items(t.spawnPoints) : a.enabled = b.enabled
    OBVIOUS
  <2>1. PICK j \in 1..n : b = s.spawnPoints[j]
    BY <1>2 DEF Items
  <2>2. PICK i \in 1..n : p[i] = j
    BY DEF Shuffles
  <2>3. t.spawnPoints[i].enabled = b.enabled
    BY <1>2, <2>1, <2>2 DEF SameSpawn
  <2> QED BY <1>2, <2>3 DEF Items
<1>7. Missing(t) \subseteq Missing(s)
  BY <1>4
<1>8. Duplicate(t) \subseteq Duplicate(s)
  BY <1>5
<1>9. Invalid(t) \subseteq Invalid(s)
  BY <1>4
<1>10. Nowhere(t) \subseteq Nowhere(s)
  BY <1>6
<1>11. \A u : SpawnErrors(u) = Missing(u) \cup Duplicate(u) \cup Invalid(u) \cup Nowhere(u)
  BY DEF SpawnErrors
<1> HIDE DEF Missing, Duplicate, Invalid, Nowhere
<1> QED BY <1>7, <1>8, <1>9, <1>10, <1>11

LEMMA SameErrors ==
    ASSUME NEW t, NEW s, Alike(t, s)
    PROVE  ValidateAuthoringScene(t) = ValidateAuthoringScene(s)
<1>1. Alike(s, t)
  BY AlikeIsMutual
<1>2. HeaderErrors(t) = HeaderErrors(s)
  BY DEF Alike, HeaderErrors
<1>3. ObjectErrors(t) = ObjectErrors(s)
  <2>1. ObjectErrors(t) \subseteq ObjectErrors(s)
    BY ObjectErrorsWithin
  <2>2. ObjectErrors(s) \subseteq ObjectErrors(t)
    BY <1>1, ObjectErrorsWithin
  <2> QED BY <2>1, <2>2
<1>4. SpawnErrors(t) = SpawnErrors(s)
  <2>1. SpawnErrors(t) \subseteq SpawnErrors(s)
    BY SpawnErrorsWithin
  <2>2. SpawnErrors(s) \subseteq SpawnErrors(t)
    BY <1>1, SpawnErrorsWithin
  <2> QED BY <2>1, <2>2
<1> QED BY <1>2, <1>3, <1>4 DEF ValidateAuthoringScene

LEMMA DocumentsWithin ==
    ASSUME NEW t \in Scenes, NEW s \in Scenes, Alike(t, s)
    PROVE  CanonicalJson(t) \subseteq CanonicalJson(s)
<1> SUFFICES ASSUME NEW doc \in CanonicalJson(t) PROVE doc \in CanonicalJson(s)
  OBVIOUS
<1>1. PICK objects \in Sortings(t.objects), spawns \in Sortings(t.spawnPoints) :
         doc = [header |-> [f \in HeaderFields |-> Dumped(t.header[f])],
                objects |-> [i \in DOMAIN objects |-> DumpedObject(objects[i])],
                spawnPoints |-> [i \in DOMAIN spawns |-> DumpedSpawn(spawns[i])]]
  BY DEF CanonicalJson
<1>2. \E x \in Sortings(s.objects) :
         [i \in DOMAIN x |-> DumpedObject(x[i])]
           = [i \in DOMAIN objects |-> DumpedObject(objects[i])]
  <2> DEFINE list2 == t.objects
             list == s.objects
  <2>0. list2 \in Seq(Objects) /\ list \in Seq(Objects) /\ ObjectsAlike(list2, list)
    BY DEF Scenes, Alike
  <2> HIDE DEF list2, list
  <2>1. PICK n \in Nat : \E p \in Shuffles(n) :
           /\ DOMAIN list = 1..n /\ DOMAIN list2 = 1..n
           /\ \A i \in 1..n : SameObject(list2[i], list[p[i]])
    BY <2>0 DEF ObjectsAlike
  <2>2. PICK p \in Shuffles(n) :
           /\ DOMAIN list = 1..n /\ DOMAIN list2 = 1..n
           /\ \A i \in 1..n : SameObject(list2[i], list[p[i]])
    BY <2>1
  <2>3. \A i \in 1..n : p[i] \in 1..n
    BY DEF Shuffles
  <2>4. (\A i \in 1..n : list2[i].id \in Nat) /\ \A i \in 1..n : list[i].id \in Nat
    <3>1. \A i \in 1..n : list2[i] \in Objects /\ list[i] \in Objects
      BY <2>0, <2>2
    <3> QED BY <3>1 DEF Objects
  <2>5. Ids(list) \in [1..n -> Nat] /\ Ids(list2) \in [1..n -> Nat]
    BY <2>2, <2>4, SortingsOrder
  <2>6. Shuffled(n, p, Ids(list2), Ids(list))
    BY <2>2, <2>3 DEF Shuffled, Ids, SameObject
  <2>7. PICK o \in Orders(Ids(list2)) : objects = Along(n, list2, o)
    BY <2>2, <2>4, SortingsOrder DEF list2
  <2>8. PICK q \in Orders(Ids(list)) : \A i \in 1..n : o[i] \in 1..n /\ q[i] = p[o[i]]
    BY <2>5, <2>6, OrderCarried
  <2>9. Along(n, list, q) \in Sortings(list)
    BY <2>2, <2>4, SortingsOrder
  <2>10. \A i \in 1..n : DumpedObject(list[q[i]]) = DumpedObject(list2[o[i]])
    BY <2>2, <2>8 DEF SameObject
  <2>11. [i \in 1..n |-> DumpedObject(Along(n, list, q)[i])]
           = [i \in 1..n |-> DumpedObject(objects[i])]
    BY <2>7, <2>10 DEF Along
  <2>12. DOMAIN Along(n, list, q) = 1..n /\ DOMAIN objects = 1..n
    BY <2>7 DEF Along
  <2> QED BY <2>9, <2>11, <2>12 DEF list
<1>3. \E x \in Sortings(s.spawnPoints) :
         [i \in DOMAIN x |-> DumpedSpawn(x[i])]
           = [i \in DOMAIN spawns |-> DumpedSpawn(spawns[i])]
  <2> DEFINE list2 == t.spawnPoints
             list == s.spawnPoints
  <2>0. list2 \in Seq(SpawnPoints) /\ list \in Seq(SpawnPoints) /\ SpawnsAlike(list2, list)
    BY DEF Scenes, Alike
  <2> HIDE DEF list2, list
  <2>1. PICK n \in Nat : \E p \in Shuffles(n) :
           /\ DOMAIN list = 1..n /\ DOMAIN list2 = 1..n
           /\ \A i \in 1..n : SameSpawn(list2[i], list[p[i]])
    BY <2>0 DEF SpawnsAlike
  <2>2. PICK p \in Shuffles(n) :
           /\ DOMAIN list = 1..n /\ DOMAIN list2 = 1..n
           /\ \A i \in 1..n : SameSpawn(list2[i], list[p[i]])
    BY <2>1
  <2>3. \A i \in 1..n : p[i] \in 1..n
    BY DEF Shuffles
  <2>4. (\A i \in 1..n : list2[i].id \in Nat) /\ \A i \in 1..n : list[i].id \in Nat
    <3>1. \A i \in 1..n : list2[i] \in SpawnPoints /\ list[i] \in SpawnPoints
      BY <2>0, <2>2
    <3> QED BY <3>1 DEF SpawnPoints
  <2>5. Ids(list) \in [1..n -> Nat] /\ Ids(list2) \in [1..n -> Nat]
    BY <2>2, <2>4, SortingsOrder
  <2>6. Shuffled(n, p, Ids(list2), Ids(list))
    BY <2>2, <2>3 DEF Shuffled, Ids, SameSpawn
  <2>7. PICK o \in Orders(Ids(list2)) : spawns = Along(n, list2, o)
    BY <2>2, <2>4, SortingsOrder DEF list2
  <2>8. PICK q \in Orders(Ids(list)) : \A i \in 1..n : o[i] \in 1..n /\ q[i] = p[o[i]]
    BY <2>5, <2>6, OrderCarried
  <2>9. Along(n, list, q) \in Sortings(list)
    BY <2>2, <2>4, SortingsOrder
  <2>10. \A i \in 1..n : DumpedSpawn(list[q[i]]) = DumpedSpawn(list2[o[i]])
    BY <2>2, <2>8 DEF SameSpawn
  <2>11. [i \in 1..n |-> DumpedSpawn(Along(n, list, q)[i])]
           = [i \in 1..n |-> DumpedSpawn(spawns[i])]
    BY <2>7, <2>10 DEF Along
  <2>12. DOMAIN Along(n, list, q) = 1..n /\ DOMAIN spawns = 1..n
    BY <2>7 DEF Along
  <2> QED BY <2>9, <2>11, <2>12 DEF list
<1>4. t.header = s.header
  BY DEF Alike
<1>5. PICK x \in Sortings(s.objects) :
         [i \in DOMAIN x |-> DumpedObject(x[i])]
           = [i \in DOMAIN objects |-> DumpedObject(objects[i])]
  BY <1>2
<1>6. PICK y \in Sortings(s.spawnPoints) :
         [i \in DOMAIN y |-> DumpedSpawn(y[i])]
           = [i \in DOMAIN spawns |-> DumpedSpawn(spawns[i])]
  BY <1>3
<1>7. doc = [header |-> [f \in HeaderFields |-> Dumped(s.header[f])],
             objects |-> [i \in DOMAIN x |-> DumpedObject(x[i])],
             spawnPoints |-> [i \in DOMAIN y |-> DumpedSpawn(y[i])]]
  BY <1>1, <1>4, <1>5, <1>6
<1> DEFINE Doc(a, b) == [header |-> [f \in HeaderFields |-> Dumped(s.header[f])],
                         objects |-> [i \in DOMAIN a |-> DumpedObject(a[i])],
                         spawnPoints |-> [i \in DOMAIN b |-> DumpedSpawn(b[i])]]
<1>8. CanonicalJson(s) = {Doc(a, b) : a \in Sortings(s.objects), b \in Sortings(s.spawnPoints)}
  BY DEF CanonicalJson
<1>9. doc = Doc(x, y)
  BY <1>7
<1> HIDE DEF Doc
<1> QED BY <1>8, <1>9

LEMMA SameDocuments ==
    ASSUME NEW t \in Scenes, NEW s \in Scenes, Alike(t, s)
    PROVE  CanonicalJson(t) = CanonicalJson(s)
BY DocumentsWithin, AlikeIsMutual

-----------------------------------------------------------------------------
(* The world a scene is compiled to.                                       *)

LEMMA ValidIds ==
    ASSUME NEW s \in Scenes, ValidateAuthoringScene(s) = {}
    PROVE  /\ \A i, j \in DOMAIN s.objects : s.objects[i].id = s.objects[j].id => i = j
           /\ \A i, j \in DOMAIN s.spawnPoints :
                 s.spawnPoints[i].id = s.spawnPoints[j].id => i = j
<1>1. ASSUME NEW list, NEW n \in Nat, DOMAIN list = 1..n,
             \A i \in 1..n : list[i].id # 0, Repeated(list) \ {0} = {}
      PROVE  \A i, j \in 1..n : list[i].id = list[j].id => i = j
  <2>1. ASSUME NEW i \in 1..n, NEW j \in 1..n, i < j PROVE list[i].id # list[j].id
    <3>1. SUFFICES ASSUME list[i].id = list[j].id PROVE FALSE
      OBVIOUS
    <3>2. i \in 1..(j - 1)
      BY <2>1
    <3>3. list[j].id \in Repeated(list)
      BY <1>1, <3>1, <3>2 DEF Repeated
    <3> QED BY <1>1, <3>3
  <2> SUFFICES ASSUME NEW i \in 1..n, NEW j \in 1..n, list[i].id = list[j].id PROVE i = j
    OBVIOUS
  <2>2. ~ (i < j) /\ ~ (j < i)
    BY <2>1
  <2> QED BY <2>2
<1>2. s.objects \in Seq(Objects) /\ s.spawnPoints \in Seq(SpawnPoints)
  BY DEF Scenes
<1>3. ObjectErrors(s) = {} /\ SpawnErrors(s) = {}
  BY DEF ValidateAuthoringScene
<1>4. Len(s.objects) \in Nat /\ DOMAIN s.objects = 1..Len(s.objects)
  BY <1>2
<1>5. Len(s.spawnPoints) \in Nat /\ DOMAIN s.spawnPoints = 1..Len(s.spawnPoints)
  BY <1>2
<1>6. /\ \A i \in DOMAIN s.objects : s.objects[i].id # 0
      /\ Repeated(s.objects) \ {0} = {}
  <2>1. {<<"missing_object_id", 0>> : object \in {o \in Items(s.objects) : o.id = 0}} = {}
    BY <1>3 DEF ObjectErrors
  <2>2. {<<"duplicate_object_id", id>> : id \in Repeated(s.objects) \ {0}} = {}
    BY <1>3 DEF ObjectErrors
  <2>3. \A o \in Items(s.objects) : o.id # 0
    BY <2>1
  <2>4. Repeated(s.objects) \ {0} = {}
    BY <2>2
  <2> QED BY <2>3, <2>4 DEF Items
<1>7. /\ \A i \in DOMAIN s.spawnPoints : s.spawnPoints[i].id # 0
      /\ Repeated(s.spawnPoints) \ {0} = {}
  <2>1. {<<"missing_spawn_id", 0>> : spawn \in {p \in Items(s.spawnPoints) : p.id = 0}} = {}
    BY <1>3 DEF SpawnErrors
  <2>2. {<<"duplicate_spawn_id", id>> : id \in Repeated(s.spawnPoints) \ {0}} = {}
    BY <1>3 DEF SpawnErrors
  <2>3. \A p \in Items(s.spawnPoints) : p.id # 0
    BY <2>1
  <2>4. Repeated(s.spawnPoints) \ {0} = {}
    BY <2>2
  <2> QED BY <2>3, <2>4 DEF Items
<1> QED BY <1>1, <1>4, <1>5, <1>6, <1>7

\* Where no id occurs twice, there is one sorting, and the ids in it rise.
LEMMA SortingIsOne ==
    ASSUME NEW n \in Nat, NEW list, DOMAIN list = 1..n, \A i \in 1..n : list[i].id \in Nat,
           \A i, j \in 1..n : list[i].id = list[j].id => i = j,
           NEW o \in Orders(Ids(list))
    PROVE  /\ (CHOOSE sorted \in Sortings(list) : TRUE) = Along(n, list, o)
           /\ \A i, j \in 1..n : i < j => list[o[i]].id < list[o[j]].id
<1>1. Ids(list) \in [1..n -> Nat] /\ Sortings(list) # {}
  BY SortingsOrder
<1>2. \A i \in 1..n : Ids(list)[i] = list[i].id
  BY DEF Ids
<1>3. \A i, j \in 1..n : Ids(list)[i] = Ids(list)[j] => i = j
  BY <1>2
<1>4. ASSUME NEW sorted \in Sortings(list) PROVE sorted = Along(n, list, o)
  <2>1. PICK q \in Orders(Ids(list)) : sorted = Along(n, list, q)
    BY SortingsOrder
  <2>2. q = o
    BY <1>1, <1>3, OrdersAreOne
  <2> QED BY <2>1, <2>2
<1>5. o \in Shuffles(n) /\ InOrder(n, Ids(list), o)
  BY <1>1, OrdersShuffle
<1>6. ASSUME NEW i \in 1..n, NEW j \in 1..n, i < j PROVE list[o[i]].id < list[o[j]].id
  <2>1. o[i] \in 1..n /\ o[j] \in 1..n /\ o[i] # o[j]
    BY <1>5, <1>6 DEF Shuffles
  <2>2. Ids(list)[o[i]] <= Ids(list)[o[j]]
    BY <1>5, <1>6 DEF InOrder
  <2>3. list[o[i]].id <= list[o[j]].id /\ list[o[i]].id # list[o[j]].id
    BY <1>2, <2>1, <2>2
  <2>4. list[o[i]].id \in Nat /\ list[o[j]].id \in Nat
    BY <2>1
  <2> QED BY <2>3, <2>4
<1> QED BY <1>1, <1>4, <1>6

LEMMA ItemsAlong ==
    ASSUME NEW n \in Nat, NEW list, DOMAIN list = 1..n, NEW o \in Shuffles(n)
    PROVE  Items(Along(n, list, o)) = Items(list)
<1> DEFINE along == Along(n, list, o)
<1>1. /\ \A i \in 1..n : o[i] \in 1..n
      /\ \A i \in 1..n : \E j \in 1..n : o[j] = i
  BY DEF Shuffles
<1>2. DOMAIN along = 1..n /\ \A i \in 1..n : along[i] = list[o[i]]
  BY DEF Along
<1> HIDE DEF along
<1>3. ASSUME NEW x \in Items(list) PROVE x \in Items(along)
  <2>1. PICK i \in 1..n : x = list[i]
    BY DEF Items
  <2>2. PICK j \in 1..n : o[j] = i
    BY <1>1
  <2>3. along[j] = x
    BY <1>2, <2>1, <2>2
  <2> QED BY <1>2, <2>3 DEF Items
<1>4. ASSUME NEW x \in Items(along) PROVE x \in Items(list)
  <2>1. PICK j \in 1..n : x = along[j]
    BY <1>2 DEF Items
  <2>2. x = list[o[j]] /\ o[j] \in 1..n
    BY <1>1, <1>2, <2>1
  <2> QED BY <2>2 DEF Items
<1> QED BY <1>3, <1>4 DEF along

\* The ids of a list of items rise.
Rising(n, list) ==
    /\ DOMAIN list = 1..n
    /\ \A i \in 1..n : list[i].id \in Nat
    /\ \A i, j \in 1..n : i < j => list[i].id < list[j].id

LEMMA RisingIsOneToOne ==
    ASSUME NEW n \in Nat, NEW list, Rising(n, list), NEW i \in 1..n, NEW j \in 1..n
    PROVE  list[i].id <= list[j].id <=> i <= j
<1>1. list[i].id \in Nat /\ list[j].id \in Nat
  BY DEF Rising
<1>2. i < j => list[i].id < list[j].id
  BY DEF Rising
<1>3. j < i => list[j].id < list[i].id
  BY DEF Rising
<1> QED BY <1>1, <1>2, <1>3

\* The entities of a valid scene are its objects by their ids.
LEMMA EntitiesRise ==
    ASSUME NEW s \in Scenes, ValidateAuthoringScene(s) = {}, NEW n \in Nat,
           DOMAIN s.objects = 1..n
    PROVE  /\ Rising(n, Entities(s))
           /\ Items(Entities(s)) = Items(s.objects)
           /\ \A i \in 1..n : Entities(s)[i] \in Objects
<1> DEFINE list == s.objects
<1>1. DOMAIN list = 1..n /\ \A i \in 1..n : list[i] \in Objects
  BY DEF Scenes
<1>2. \A i, j \in 1..n : list[i].id = list[j].id => i = j
  BY <1>1, ValidIds
<1> HIDE DEF list
<1>3. \A i \in 1..n : list[i].id \in Nat
  BY <1>1 DEF Objects
<1>4. PICK o \in Orders(Ids(list)) : TRUE
  BY <1>1, <1>3, SortingsOrder, OrdersExist
<1>5. /\ (CHOOSE sorted \in Sortings(list) : TRUE) = Along(n, list, o)
      /\ \A i, j \in 1..n : i < j => list[o[i]].id < list[o[j]].id
  BY <1>1, <1>2, <1>3, SortingIsOne
<1>6. Entities(s) = Along(n, list, o)
  BY <1>5 DEF Entities, list
<1>7. o \in Shuffles(n)
  BY <1>1, <1>3, SortingsOrder
<1>8. /\ DOMAIN Entities(s) = 1..n
      /\ \A i \in 1..n : o[i] \in 1..n /\ Entities(s)[i] = list[o[i]]
  BY <1>6, <1>7 DEF Along, Shuffles
<1>9. Rising(n, Entities(s)) /\ \A i \in 1..n : Entities(s)[i] \in Objects
  BY <1>1, <1>3, <1>5, <1>8 DEF Rising
<1>10. Items(Entities(s)) = Items(list)
  BY <1>1, <1>6, <1>7, ItemsAlong
<1> QED BY <1>9, <1>10 DEF list

SortedSpawns(s) == CHOOSE spawns \in Sortings(s.spawnPoints) : TRUE

LEMMA SpawnsRise ==
    ASSUME NEW s \in Scenes, ValidateAuthoringScene(s) = {}, NEW n \in Nat,
           DOMAIN s.spawnPoints = 1..n
    PROVE  /\ Rising(n, SortedSpawns(s))
           /\ Items(SortedSpawns(s)) = Items(s.spawnPoints)
<1> DEFINE list == s.spawnPoints
<1>1. DOMAIN list = 1..n /\ \A i \in 1..n : list[i] \in SpawnPoints
  BY DEF Scenes
<1>2. \A i, j \in 1..n : list[i].id = list[j].id => i = j
  BY <1>1, ValidIds
<1> HIDE DEF list
<1>3. \A i \in 1..n : list[i].id \in Nat
  BY <1>1 DEF SpawnPoints
<1>4. PICK o \in Orders(Ids(list)) : TRUE
  BY <1>1, <1>3, SortingsOrder, OrdersExist
<1>5. /\ (CHOOSE sorted \in Sortings(list) : TRUE) = Along(n, list, o)
      /\ \A i, j \in 1..n : i < j => list[o[i]].id < list[o[j]].id
  BY <1>1, <1>2, <1>3, SortingIsOne
<1>6. SortedSpawns(s) = Along(n, list, o)
  BY <1>5 DEF SortedSpawns, list
<1>7. o \in Shuffles(n)
  BY <1>1, <1>3, SortingsOrder
<1>8. /\ DOMAIN SortedSpawns(s) = 1..n
      /\ \A i \in 1..n : o[i] \in 1..n /\ SortedSpawns(s)[i] = list[o[i]]
  BY <1>6, <1>7 DEF Along, Shuffles
<1>9. Rising(n, SortedSpawns(s))
  BY <1>1, <1>3, <1>5, <1>8 DEF Rising
<1>10. Items(SortedSpawns(s)) = Items(list)
  BY <1>1, <1>6, <1>7, ItemsAlong
<1> QED BY <1>9, <1>10 DEF list

\* A collider names the entity it was made of.
LEMMA CollidersName ==
    ASSUME NEW s, NEW n \in Nat, Rising(n, Entities(s))
    PROVE  Colliders(s) = {[entityId |-> i, collider |-> Entities(s)[i].collider] :
                              i \in {j \in 1..n : Entities(s)[j].collider # None}}
<1> DEFINE entities == Entities(s)
           RuntimeId(object) == CHOOSE i \in DOMAIN entities : entities[i].id = object.id
           colliding == {j \in 1..n : entities[j].collider # None}
<1>1. DOMAIN entities = 1..n
  BY DEF Rising
<1>2. Colliders(s) = {[entityId |-> RuntimeId(entities[i]), collider |-> entities[i].collider] :
                         i \in colliding}
  BY <1>1 DEF Colliders
<1>3. ASSUME NEW i \in 1..n PROVE RuntimeId(entities[i]) = i
  <2>1. \A j \in 1..n : entities[j].id = entities[i].id => j = i
    <3> SUFFICES ASSUME NEW j \in 1..n, entities[j].id = entities[i].id PROVE j = i
      OBVIOUS
    <3>1. entities[i].id <= entities[j].id /\ entities[j].id <= entities[i].id
      BY DEF Rising
    <3>2. i <= j /\ j <= i
      BY <3>1, RisingIsOneToOne
    <3> QED BY <3>2
  <2> QED BY <1>1, <2>1
<1> HIDE DEF RuntimeId
<1>4. \A i \in colliding : RuntimeId(entities[i]) = i
  BY <1>3
<1> QED BY <1>2, <1>4

\* The subsequence of a list has the items at the places, in the order of the places.
LEMMA SubsequenceIs ==
    ASSUME NEW n \in Nat, NEW places, places \subseteq 1..n
    PROVE  /\ Cardinality(places) \in Nat
           /\ \E o \in [1..Cardinality(places) -> places] :
                /\ Items(o) = places
                /\ \A i, j \in DOMAIN o : i < j => o[i] < o[j]
                /\ \A list : Subsequence(list, places)
                               = Along(Cardinality(places), list, o)
<1> DEFINE N == Cardinality(places)
           R == {pair \in places \X places : pair[1] < pair[2]}
           Is(o) == /\ Items(o) = places
                    /\ \A i, j \in DOMAIN o : i < j => o[i] < o[j]
<1>1. IsFiniteSet(places)
  <2>1. IsFiniteSet(1..n)
    BY FS_Interval
  <2> QED BY <2>1, FS_Subset
<1>2. N \in Nat
  BY <1>1, FS_CardinalityType
<1>3. \A p \in places : p \in Int
  OBVIOUS
<1>4. \A p, q \in places : <<p, q>> \in R <=> p < q
  OBVIOUS
<1> HIDE DEF R
<1>5. StrictTotal(places, R)
  BY <1>3, <1>4 DEF StrictTotal
<1>6. PICK q : Numbers(places, R, q)
  BY <1>1, <1>5, Numbered
<1>7. q \in [1..N -> places] /\ Is(q)
  BY <1>4, <1>6 DEF Numbers
<1> DEFINE o == CHOOSE x \in [1..N -> places] : Is(x)
<1>8. o \in [1..N -> places] /\ Is(o)
  BY <1>7
<1>9. \A list : Subsequence(list, places) = Along(N, list, o)
  BY DEF Subsequence, Along
<1> HIDE DEF o
<1> QED BY <1>2, <1>8, <1>9

LEMMA EntitiesAlike ==
    ASSUME NEW t \in Scenes, NEW s \in Scenes, Alike(t, s), ValidateAuthoringScene(t) = {}
    PROVE  \E n \in Nat :
              /\ DOMAIN t.objects = 1..n /\ DOMAIN s.objects = 1..n
              /\ Rising(n, Entities(t)) /\ Rising(n, Entities(s))
              /\ \A i \in 1..n : SameObject(Entities(t)[i], Entities(s)[i])
<1> DEFINE list2 == t.objects
           list == s.objects
<1>1. list2 \in Seq(Objects) /\ list \in Seq(Objects) /\ ObjectsAlike(list2, list)
  BY DEF Scenes, Alike
<1>2. ValidateAuthoringScene(s) = {}
  BY SameErrors
<1>3. /\ \A i, j \in DOMAIN list2 : list2[i].id = list2[j].id => i = j
      /\ \A i, j \in DOMAIN list : list[i].id = list[j].id => i = j
  BY <1>2, ValidIds
<1> HIDE DEF list2, list
<1>4. PICK n \in Nat : \E p \in Shuffles(n) :
         /\ DOMAIN list = 1..n /\ DOMAIN list2 = 1..n
         /\ \A i \in 1..n : SameObject(list2[i], list[p[i]])
  BY <1>1 DEF ObjectsAlike
<1>5. PICK p \in Shuffles(n) :
         /\ DOMAIN list = 1..n /\ DOMAIN list2 = 1..n
         /\ \A i \in 1..n : SameObject(list2[i], list[p[i]])
  BY <1>4
<1>6. (\A i \in 1..n : list2[i].id \in Nat) /\ \A i \in 1..n : list[i].id \in Nat
  <2>1. \A i \in 1..n : list2[i] \in Objects /\ list[i] \in Objects
    BY <1>1, <1>5
  <2> QED BY <2>1 DEF Objects
<1>7. Ids(list) \in [1..n -> Nat] /\ Ids(list2) \in [1..n -> Nat]
  BY <1>5, <1>6, SortingsOrder
<1>8. Shuffled(n, p, Ids(list2), Ids(list))
  <2>1. \A i \in 1..n : p[i] \in 1..n
    BY DEF Shuffles
  <2> QED BY <1>5, <2>1 DEF Shuffled, Ids, SameObject
<1>9. PICK o \in Orders(Ids(list2)) : TRUE
  BY <1>7, OrdersExist
<1>10. PICK q \in Orders(Ids(list)) : \A i \in 1..n : o[i] \in 1..n /\ q[i] = p[o[i]]
  BY <1>7, <1>8, OrderCarried
<1>11. (CHOOSE sorted \in Sortings(list2) : TRUE) = Along(n, list2, o)
  BY <1>3, <1>5, <1>6, SortingIsOne
<1>12. (CHOOSE sorted \in Sortings(list) : TRUE) = Along(n, list, q)
  BY <1>3, <1>5, <1>6, SortingIsOne
<1>13. Entities(t) = Along(n, list2, o) /\ Entities(s) = Along(n, list, q)
  BY <1>11, <1>12 DEF Entities, list2, list
<1>14. \A i \in 1..n : SameObject(list2[o[i]], list[q[i]])
  BY <1>5, <1>10
<1>15. \A i \in 1..n : SameObject(Entities(t)[i], Entities(s)[i])
  BY <1>13, <1>14 DEF Along
<1>16. Rising(n, Entities(t)) /\ Rising(n, Entities(s))
  BY <1>2, <1>5, EntitiesRise DEF list2, list
<1> QED BY <1>5, <1>15, <1>16 DEF list2, list

LEMMA SpawnsSortAlike ==
    ASSUME NEW t \in Scenes, NEW s \in Scenes, Alike(t, s), ValidateAuthoringScene(t) = {}
    PROVE  \E n \in Nat :
              /\ Rising(n, SortedSpawns(t)) /\ Rising(n, SortedSpawns(s))
              /\ \A i \in 1..n : SameSpawn(SortedSpawns(t)[i], SortedSpawns(s)[i])
<1> DEFINE list2 == t.spawnPoints
           list == s.spawnPoints
<1>1. list2 \in Seq(SpawnPoints) /\ list \in Seq(SpawnPoints) /\ SpawnsAlike(list2, list)
  BY DEF Scenes, Alike
<1>2. ValidateAuthoringScene(s) = {}
  BY SameErrors
<1>3. /\ \A i, j \in DOMAIN list2 : list2[i].id = list2[j].id => i = j
      /\ \A i, j \in DOMAIN list : list[i].id = list[j].id => i = j
  BY <1>2, ValidIds
<1> HIDE DEF list2, list
<1>4. PICK n \in Nat : \E p \in Shuffles(n) :
         /\ DOMAIN list = 1..n /\ DOMAIN list2 = 1..n
         /\ \A i \in 1..n : SameSpawn(list2[i], list[p[i]])
  BY <1>1 DEF SpawnsAlike
<1>5. PICK p \in Shuffles(n) :
         /\ DOMAIN list = 1..n /\ DOMAIN list2 = 1..n
         /\ \A i \in 1..n : SameSpawn(list2[i], list[p[i]])
  BY <1>4
<1>6. (\A i \in 1..n : list2[i].id \in Nat) /\ \A i \in 1..n : list[i].id \in Nat
  <2>1. \A i \in 1..n : list2[i] \in SpawnPoints /\ list[i] \in SpawnPoints
    BY <1>1, <1>5
  <2> QED BY <2>1 DEF SpawnPoints
<1>7. Ids(list) \in [1..n -> Nat] /\ Ids(list2) \in [1..n -> Nat]
  BY <1>5, <1>6, SortingsOrder
<1>8. Shuffled(n, p, Ids(list2), Ids(list))
  <2>1. \A i \in 1..n : p[i] \in 1..n
    BY DEF Shuffles
  <2> QED BY <1>5, <2>1 DEF Shuffled, Ids, SameSpawn
<1>9. PICK o \in Orders(Ids(list2)) : TRUE
  BY <1>7, OrdersExist
<1>10. PICK q \in Orders(Ids(list)) : \A i \in 1..n : o[i] \in 1..n /\ q[i] = p[o[i]]
  BY <1>7, <1>8, OrderCarried
<1>11. (CHOOSE sorted \in Sortings(list2) : TRUE) = Along(n, list2, o)
  BY <1>3, <1>5, <1>6, SortingIsOne
<1>12. (CHOOSE sorted \in Sortings(list) : TRUE) = Along(n, list, q)
  BY <1>3, <1>5, <1>6, SortingIsOne
<1>13. SortedSpawns(t) = Along(n, list2, o) /\ SortedSpawns(s) = Along(n, list, q)
  BY <1>11, <1>12 DEF SortedSpawns, list2, list
<1>14. \A i \in 1..n : SameSpawn(list2[o[i]], list[q[i]])
  BY <1>5, <1>10
<1>15. \A i \in 1..n : SameSpawn(SortedSpawns(t)[i], SortedSpawns(s)[i])
  BY <1>13, <1>14 DEF Along
<1>16. Rising(n, SortedSpawns(t)) /\ Rising(n, SortedSpawns(s))
  BY <1>2, <1>5, SpawnsRise DEF list2, list
<1> QED BY <1>15, <1>16

\* Scenes that are alike compile to worlds that mean the same.
LEMMA SameMeaning ==
    ASSUME NEW t \in Scenes, NEW s \in Scenes, Alike(t, s)
    PROVE  Meaning(CompileRuntimeWorld(t)) = Meaning(CompileRuntimeWorld(s))
<1>1. ValidateAuthoringScene(t) = ValidateAuthoringScene(s)
  BY SameErrors
<1>2. CASE ValidateAuthoringScene(t) # {}
  BY <1>1, <1>2 DEF CompileRuntimeWorld
<1>3. CASE ValidateAuthoringScene(t) = {}
  <2> DEFINE Named(c) == <<c.entityId, c.collider.quality, SortedStrings(c.collider.mask)>>
             Made(u) == [i \in DOMAIN u.objects |-> Entities(u)[i].id]
             Spawned(u) == [i \in DOMAIN EnabledSpawns(u) |-> DumpedSpawn(EnabledSpawns(u)[i])]
  <2>1. PICK n \in Nat :
           /\ DOMAIN t.objects = 1..n /\ DOMAIN s.objects = 1..n
           /\ Rising(n, Entities(t)) /\ Rising(n, Entities(s))
           /\ \A i \in 1..n : SameObject(Entities(t)[i], Entities(s)[i])
    BY <1>3, EntitiesAlike
  <2>2. Made(t) = Made(s)
    BY <2>1 DEF SameObject
  <2>3. {Named(c) : c \in Colliders(t)} = {Named(c) : c \in Colliders(s)}
    <3> DEFINE a == Entities(t)
               b == Entities(s)
               Triple(list, i) == <<i, list[i].collider.quality,
                                    SortedStrings(list[i].collider.mask)>>
               Those(list) == {j \in 1..n : list[j].collider # None}
               Record(list, i) == [entityId |-> i, collider |-> list[i].collider]
    <3>1. /\ Colliders(t) = {Record(a, i) : i \in Those(a)}
          /\ Colliders(s) = {Record(b, i) : i \in Those(b)}
      BY <2>1, CollidersName
    <3>2. \A list, i : Named(Record(list, i)) = Triple(list, i)
      OBVIOUS
    <3>3. \A i \in 1..n : a[i].collider # None <=> b[i].collider # None
      BY <2>1 DEF SameObject
    <3>4. \A i \in 1..n : a[i].collider # None => Triple(a, i) = Triple(b, i)
      BY <2>1 DEF SameObject
    <3> HIDE DEF a, b, Record, Named, Triple
    <3>5. Those(a) = Those(b) /\ \A i \in Those(a) : Triple(a, i) = Triple(b, i)
      BY <3>3, <3>4
    <3> HIDE DEF Those
    <3> QED BY <3>1, <3>2, <3>5
  <2>4. Spawned(t) = Spawned(s)
    <3> DEFINE a == SortedSpawns(t)
               b == SortedSpawns(s)
               Those(list) == {i \in DOMAIN list : list[i].enabled}
    <3>1. PICK m \in Nat :
             /\ Rising(m, a) /\ Rising(m, b)
             /\ \A i \in 1..m : SameSpawn(a[i], b[i])
      BY <1>3, SpawnsSortAlike
    <3>2. /\ EnabledSpawns(t) = Subsequence(a, Those(a))
          /\ EnabledSpawns(s) = Subsequence(b, Those(b))
      BY DEF EnabledSpawns, SortedSpawns
    <3> HIDE DEF a, b
    <3>3. Those(a) = Those(b) /\ Those(a) \subseteq 1..m
      BY <3>1 DEF Rising, SameSpawn
    <3> DEFINE places == Those(a)
               N == Cardinality(places)
    <3> HIDE DEF Those
    <3>4. PICK o \in [1..N -> places] : \A list : Subsequence(list, places) = Along(N, list, o)
      <4> HIDE DEF places
      <4>1. places \subseteq 1..m
        BY <3>3 DEF places
      <4> QED BY <4>1, SubsequenceIs
    <3>5. EnabledSpawns(t) = Along(N, a, o) /\ EnabledSpawns(s) = Along(N, b, o)
      BY <3>2, <3>3, <3>4
    <3>6. \A i \in 1..N : o[i] \in 1..m
      BY <3>3, <3>4
    <3> HIDE DEF N, places
    <3>7. \A i \in 1..N : DumpedSpawn(a[o[i]]) = DumpedSpawn(b[o[i]])
      BY <3>1, <3>6 DEF SameSpawn
    <3> QED BY <3>5, <3>7 DEF Along
  <2> DEFINE World(u) == [entities |-> Made(u), colliders |-> Colliders(u),
                          spawnPoints |-> EnabledSpawns(u)]
  <2>5. CompileRuntimeWorld(t) = World(t) /\ CompileRuntimeWorld(s) = World(s)
    BY <1>1, <1>3 DEF CompileRuntimeWorld
  <2>6. \A u : Meaning(World(u)) = [entities |-> Made(u),
                                    colliders |-> {Named(c) : c \in Colliders(u)},
                                    spawnPoints |-> Spawned(u)]
    BY DEF Meaning
  <2> HIDE DEF Made, Named, Spawned, World
  <2> QED BY <2>2, <2>3, <2>4, <2>5, <2>6
<1> QED BY <1>2, <1>3

\* Where ids rise, a place says how many items have no greater id.
LEMMA RisingCounts ==
    ASSUME NEW n \in Nat, NEW list, Rising(n, list), NEW k \in 1..n
    PROVE  Cardinality({x \in Items(list) : x.id <= list[k].id}) = k
<1> DEFINE before == {x \in Items(list) : x.id <= list[k].id}
           f == [j \in 1..k |-> list[j]]
<1>1. DOMAIN list = 1..n
  BY DEF Rising
<1>2. \A i, j \in 1..n : list[i].id <= list[j].id <=> i <= j
  BY RisingIsOneToOne
<1>3. \A j \in 1..k : j \in 1..n /\ j <= k
  OBVIOUS
<1>4. \A j \in 1..k : list[j] \in before
  BY <1>1, <1>2, <1>3 DEF Items
<1>5. \A x \in before : \E j \in 1..k : list[j] = x
  <2> SUFFICES ASSUME NEW x \in before PROVE \E j \in 1..k : list[j] = x
    OBVIOUS
  <2>1. PICK j \in 1..n : x = list[j]
    BY <1>1 DEF Items
  <2>2. x.id <= list[k].id
    OBVIOUS
  <2> HIDE DEF before
  <2>3. j <= k
    BY <1>2, <2>1, <2>2
  <2>4. j \in 1..k
    BY <2>3
  <2> QED BY <2>1, <2>4
<1>6. \A i, j \in 1..k : list[i] = list[j] => i = j
  <2> SUFFICES ASSUME NEW i \in 1..k, NEW j \in 1..k, list[i] = list[j] PROVE i = j
    OBVIOUS
  <2>1. i \in 1..n /\ j \in 1..n /\ list[i].id \in Nat
    BY <1>3 DEF Rising
  <2>2. list[i].id <= list[j].id /\ list[j].id <= list[i].id
    BY <2>1
  <2>3. i <= j /\ j <= i
    BY <1>2, <2>1, <2>2
  <2> QED BY <2>3
<1> HIDE DEF before
<1>7. f \in Bijection(1..k, before)
  <2>1. f \in [1..k -> before] /\ \A j \in 1..k : f[j] = list[j]
    BY <1>4
  <2> HIDE DEF f
  <2>2. \A i, j \in 1..k : f[i] = f[j] => i = j
    BY <1>6, <2>1
  <2>3. \A x \in before : \E j \in 1..k : f[j] = x
    BY <1>5, <2>1
  <2> QED BY <2>1, <2>2, <2>3 DEF Bijection, Injection, Surjection, IsInjective
<1>8. ExistsBijection(1..k, before)
  BY <1>7 DEF ExistsBijection
<1>9. Cardinality(before) = k
  BY <1>8, FS_CountingElements
<1> QED BY <1>9 DEF before

\* The world of a scene says what the scene says.
Resolves(s, world) ==
    /\ \A object \in Items(s.objects) :
          LET before == {o \in Items(s.objects) : o.id <= object.id}
          IN  /\ world.entities[Cardinality(before)] = object.id
              /\ {c.collider : c \in {d \in world.colliders :
                                         d.entityId = Cardinality(before)}}
                   = {object.collider} \ {None}
    /\ Items(world.spawnPoints) = {p \in Items(s.spawnPoints) : p.enabled}
    /\ \A i, j \in DOMAIN world.spawnPoints :
          i < j => world.spawnPoints[i].id < world.spawnPoints[j].id

LEMMA WorldResolves ==
    ASSUME NEW s \in Scenes, CompileRuntimeWorld(s) # NoWorld
    PROVE  Resolves(s, CompileRuntimeWorld(s))
<1> DEFINE world == CompileRuntimeWorld(s)
           e == Entities(s)
           n == Len(s.objects)
           m == Len(s.spawnPoints)
           a == SortedSpawns(s)
<1>1. ValidateAuthoringScene(s) = {}
  BY DEF CompileRuntimeWorld
<1>2. /\ world.entities = [i \in DOMAIN s.objects |-> e[i].id]
      /\ world.colliders = Colliders(s)
      /\ world.spawnPoints = EnabledSpawns(s)
  BY <1>1 DEF CompileRuntimeWorld
<1>3. s.objects \in Seq(Objects) /\ s.spawnPoints \in Seq(SpawnPoints)
  BY DEF Scenes
<1>4. n \in Nat /\ DOMAIN s.objects = 1..n /\ m \in Nat /\ DOMAIN s.spawnPoints = 1..m
  BY <1>3
<1> HIDE DEF world, n, m
<1>5. Rising(n, e) /\ Items(e) = Items(s.objects)
  BY <1>1, <1>4, EntitiesRise
<1>6. Rising(m, a) /\ Items(a) = Items(s.spawnPoints)
  BY <1>1, <1>4, SpawnsRise
<1>7. Colliders(s) = {[entityId |-> i, collider |-> e[i].collider] :
                        i \in {j \in 1..n : e[j].collider # None}}
  BY <1>4, <1>5, CollidersName
<1> HIDE DEF e
<1>8. ASSUME NEW object \in Items(s.objects)
      PROVE  LET before == {o \in Items(s.objects) : o.id <= object.id}
             IN  /\ world.entities[Cardinality(before)] = object.id
                 /\ {c.collider : c \in {d \in world.colliders :
                                            d.entityId = Cardinality(before)}}
                      = {object.collider} \ {None}
  <2>1. PICK k \in 1..n : object = e[k]
    BY <1>5 DEF Items, Rising
  <2>2. Cardinality({o \in Items(s.objects) : o.id <= object.id}) = k
    BY <1>4, <1>5, <2>1, RisingCounts
  <2>3. world.entities[k] = object.id
    BY <1>2, <1>4, <2>1
  <2>4. {c.collider : c \in {d \in world.colliders : d.entityId = k}} = {object.collider} \ {None}
    <3> DEFINE those == {d \in world.colliders : d.entityId = k}
               own == [entityId |-> k, collider |-> e[k].collider]
    <3>1. those = IF e[k].collider # None THEN {own} ELSE {}
      BY <1>2, <1>7
    <3> HIDE DEF those
    <3>2. {c.collider : c \in those} = {object.collider} \ {None}
      <4>1. CASE e[k].collider # None
        <5>1. those = {own} /\ own.collider = object.collider
          BY <2>1, <3>1, <4>1
        <5> HIDE DEF own
        <5> QED BY <2>1, <4>1, <5>1
      <4>2. CASE e[k].collider = None
        <5>1. those = {} /\ object.collider = None
          BY <2>1, <3>1, <4>2
        <5> QED BY <5>1
      <4> QED BY <4>1, <4>2
    <3> QED BY <3>2 DEF those
  <2> QED BY <2>2, <2>3, <2>4
<1> DEFINE places == {i \in DOMAIN a : a[i].enabled}
           N == Cardinality(places)
<1>9. DOMAIN a = 1..m /\ places \subseteq 1..m
  BY <1>6 DEF Rising
<1>10. world.spawnPoints = Subsequence(a, places)
  BY <1>2 DEF EnabledSpawns, SortedSpawns
<1>11. PICK o \in [1..N -> places] :
          /\ Items(o) = places
          /\ \A i, j \in DOMAIN o : i < j => o[i] < o[j]
          /\ \A list : Subsequence(list, places) = Along(N, list, o)
  <2> HIDE DEF places
  <2> QED BY <1>4, <1>9, SubsequenceIs
<1>12. \A i \in 1..N : o[i] \in places
  OBVIOUS
<1>13. DOMAIN world.spawnPoints = 1..N /\ \A i \in 1..N : world.spawnPoints[i] = a[o[i]]
  <2>1. world.spawnPoints = Along(N, a, o)
    BY <1>10, <1>11
  <2> HIDE DEF N
  <2> QED BY <2>1 DEF Along
<1>14. Items(world.spawnPoints) = {a[i] : i \in places}
  <2> HIDE DEF places, N, a
  <2>1. Items(world.spawnPoints) = {a[o[i]] : i \in 1..N}
    BY <1>13 DEF Items
  <2>2. places = {o[i] : i \in 1..N}
    BY <1>11 DEF Items
  <2> QED BY <2>1, <2>2
<1>15. {a[i] : i \in places} = {p \in Items(a) : p.enabled}
  BY <1>9 DEF Items
<1>16. \A i, j \in DOMAIN world.spawnPoints :
          i < j => world.spawnPoints[i].id < world.spawnPoints[j].id
  <2> SUFFICES ASSUME NEW i \in 1..N, NEW j \in 1..N, i < j
               PROVE  world.spawnPoints[i].id < world.spawnPoints[j].id
    BY <1>13
  <2>1. o[i] \in 1..m /\ o[j] \in 1..m /\ o[i] < o[j]
    BY <1>9, <1>11, <1>12
  <2>2. a[o[i]].id < a[o[j]].id
    BY <1>6, <2>1 DEF Rising
  <2> QED BY <1>13, <2>2
<1>17. Items(world.spawnPoints) = {p \in Items(s.spawnPoints) : p.enabled}
  BY <1>6, <1>14, <1>15
<1> HIDE DEF places, N, a
<1> QED BY <1>8, <1>16, <1>17 DEF Resolves, world

-----------------------------------------------------------------------------
(* The file.                                                               *)

\* What ties the scene in memory, the document that is being written, the file and the
\* scene that was last written whole.
ContentInv ==
    /\ scene \in Scenes \cup {None}
    /\ document # None => /\ scene \in Scenes /\ document \in CanonicalJson(scene)
                          /\ ~file.whole
    /\ file.whole => \/ file.doc \in Documents /\ saved = AuthoringSceneFromJson(file.doc)
                     \/ saved \in Scenes /\ file.doc \in CanonicalJson(saved)
    /\ loaded => /\ scene \in Scenes
                 /\ scene = saved \/ (saved \in Scenes /\ Alike(scene, saved))

LEMMA ContentInvInit == ContentInit => ContentInv
<1> SUFFICES ASSUME ContentInit PROVE ContentInv
  OBVIOUS
<1>1. file \in [doc : Documents, whole : {TRUE}] /\ saved = AuthoringSceneFromJson(file.doc)
  BY DEF ContentInit
<1>2. file.doc \in Documents
  BY <1>1
<1>3. scene = None /\ document = None /\ loaded = FALSE
  BY DEF ContentInit
<1> QED BY <1>1, <1>2, <1>3 DEF ContentInv

LEMMA ContentInvNext == ContentInv /\ [ContentNext]_contentVars => ContentInv'
<1> USE DEF ContentInv
<1> SUFFICES ASSUME ContentInv, [ContentNext]_contentVars PROVE ContentInv'
  OBVIOUS
<1>0. None \notin Scenes
  BY NoneAssumption
<1>1. ASSUME NEW s \in Edits, Edit(s) PROVE ContentInv'
  BY <1>1, EditsAssumption DEF Edit
<1>2. CASE OpenForWrite
  <2>1. /\ scene \in Scenes /\ document' \in CanonicalJson(scene) /\ scene' = scene
        /\ file'.whole = FALSE /\ saved' = saved /\ loaded' = loaded
    BY <1>2 DEF OpenForWrite
  <2> QED BY <2>1
<1>3. CASE WritePart
  <2>1. /\ document # None /\ scene' = scene /\ document' = document
        /\ file'.whole = FALSE /\ saved' = saved /\ loaded' = loaded
    BY <1>3 DEF WritePart
  <2> QED BY <2>1
<1>4. CASE WriteRest
  <2>1. /\ document # None /\ scene' = scene /\ document' = None
        /\ file'.whole = TRUE /\ file'.doc = document /\ saved' = scene /\ loaded' = loaded
    BY <1>4 DEF WriteRest
  <2>2. scene \in Scenes /\ document \in CanonicalJson(scene)
    BY <2>1
  <2> QED BY <2>1, <2>2
<1>5. CASE WriteFallsShort
  BY <1>5 DEF WriteFallsShort
<1>6. CASE Restart
  BY <1>6 DEF Restart
<1>7. CASE Load
  <2>1. /\ document = None /\ file.whole /\ ~HasNull(file.doc)
        /\ scene' = AuthoringSceneFromJson(file.doc)
        /\ document' = document /\ file' = file /\ saved' = saved
    BY <1>7 DEF Load, Parses
  <2>2. CASE file.doc \in Documents /\ saved = AuthoringSceneFromJson(file.doc)
    <3>1. scene' \in Scenes /\ scene' = saved'
      BY <2>1, <2>2, DocumentIsRead
    <3> QED BY <2>1, <3>1
  <2>3. CASE saved \in Scenes /\ file.doc \in CanonicalJson(saved)
    <3>1. scene' \in Scenes /\ Alike(scene', saved')
      BY <2>1, <2>3, SceneReadBack
    <3> QED BY <2>1, <2>3, <3>1
  <2> QED BY <2>1, <2>2, <2>3
<1>8. CASE UNCHANGED contentVars
  BY <1>8 DEF contentVars
<1> QED BY <1>1, <1>2, <1>3, <1>4, <1>5, <1>6, <1>7, <1>8 DEF ContentNext

\* A document on its way to the file is the one of the scene in memory, a whole file is of
\* the scene last written whole or written by hand, and what is loaded from it is alike
\* (saveAuthoringScene, loadAuthoringScene): for any documents and edits.
THEOREM ContentInvHolds == ContentSpec => []ContentInv
BY ContentInvInit, ContentInvNext, PTL DEF ContentSpec

\* Whatever ends a save, a scene that can be loaded has the errors of the one whose save
\* was the last to be written whole, compiles to what that one compiles to and is saved as
\* the same document (saveAuthoringScene, loadAuthoringScene): for any documents and
\* edits, and any number of objects and spawn points.
THEOREM SavedSceneIsLoaded == ContentSpec => []LoadsWhatWasSaved
<1>1. ContentInv => LoadsWhatWasSaved
  <2> SUFFICES ASSUME ContentInv, loaded
               PROVE  /\ ValidateAuthoringScene(scene) = ValidateAuthoringScene(saved)
                      /\ Meaning(CompileRuntimeWorld(scene)) = Meaning(CompileRuntimeWorld(saved))
                      /\ CanonicalJson(scene) = CanonicalJson(saved)
    BY DEF LoadsWhatWasSaved
  <2>1. scene \in Scenes /\ (scene = saved \/ (saved \in Scenes /\ Alike(scene, saved)))
    BY DEF ContentInv
  <2>2. CASE scene = saved
    BY <2>2
  <2>3. CASE saved \in Scenes /\ Alike(scene, saved)
    BY <2>1, <2>3, SameErrors, SameMeaning, SameDocuments
  <2> QED BY <2>1, <2>2, <2>3
<1> QED BY <1>1, ContentInvHolds, PTL

\* The world a valid scene is compiled to says what the scene says, in whatever order the
\* document has it (compileRuntimeWorld), for any scene.
THEOREM WorldsResolve == ContentSpec => []CompiledWorldResolves
<1>1. ContentInv => CompiledWorldResolves
  <2> SUFFICES ASSUME ContentInv, scene # None, CompileRuntimeWorld(scene) # NoWorld
               PROVE  CompiledWorldResolves
    BY DEF CompiledWorldResolves
  <2>1. Resolves(scene, CompileRuntimeWorld(scene))
    BY WorldResolves DEF ContentInv
  <2> QED BY <2>1 DEF CompiledWorldResolves, Resolves
<1> QED BY <1>1, ContentInvHolds, PTL
=============================================================================
