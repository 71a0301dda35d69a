-------------------------- MODULE Selection_proofs --------------------------
(***************************************************************************)
(* Counting puts the numbers of a finite set in ascending order, so that   *)
(* what is picked from a list is in the order of the list, each place once.*)
(***************************************************************************)
EXTENDS Selection, FiniteSetTheorems, SequenceTheorems, TLAPS

\* The numbers up to one of them.
UpTo(S, x) == {y \in S : y <= x}

\* Ranks count from 1, and a greater number has a greater rank.
LEMMA RanksAscend ==
    ASSUME NEW S \in SUBSET Int, IsFiniteSet(S)
    PROVE  /\ Cardinality(S) \in Nat
           /\ \A x \in S : Rank(S, x) \in 1..Cardinality(S)
           /\ \A x, y \in S : x < y => Rank(S, x) < Rank(S, y)
<1>1. Cardinality(S) \in Nat
  BY FS_CardinalityType
<1>2. ASSUME NEW x \in S
      PROVE  /\ IsFiniteSet(UpTo(S, x)) /\ Rank(S, x) = Cardinality(UpTo(S, x))
             /\ Rank(S, x) \in 1..Cardinality(S)
  <2>1. UpTo(S, x) \in SUBSET S /\ x \in UpTo(S, x)
    BY DEF UpTo
  <2>2. /\ IsFiniteSet(UpTo(S, x))
        /\ Cardinality(UpTo(S, x)) <= Cardinality(S)
    BY <2>1, FS_Subset
  <2>3. Cardinality(UpTo(S, x)) \in Nat /\ Cardinality(UpTo(S, x)) # 0
    BY <2>1, <2>2, FS_CardinalityType, FS_EmptySet
  <2>4. Rank(S, x) = Cardinality(UpTo(S, x))
    BY DEF Rank, UpTo
  <2> QED
    BY <1>1, <2>2, <2>3, <2>4
<1>3. ASSUME NEW x \in S, NEW y \in S, x < y  PROVE Rank(S, x) < Rank(S, y)
  <2>0. x \in Int /\ y \in Int /\ \A z \in S : z \in Int
    OBVIOUS
  <2>1. UpTo(S, x) \in SUBSET UpTo(S, y) /\ y \in UpTo(S, y) /\ y \notin UpTo(S, x)
    <3>1. \A z \in S : z <= x => z <= y
      BY <1>3, <2>0
    <3>2. y <= y /\ ~(y <= x)
      BY <1>3, <2>0
    <3> QED
      BY <3>1, <3>2 DEF UpTo
  <2>2. UpTo(S, x) # UpTo(S, y)
    BY <2>1
  <2>3. IsFiniteSet(UpTo(S, y))
    BY <1>2
  <2>4. /\ Cardinality(UpTo(S, x)) <= Cardinality(UpTo(S, y))
        /\ Cardinality(UpTo(S, y)) = Cardinality(UpTo(S, x))
              => UpTo(S, y) = UpTo(S, x)
    BY <2>1, <2>3, FS_Subset
  <2>5. Rank(S, x) # Rank(S, y)
    BY <1>2, <2>2, <2>4
  <2> QED
    BY <1>1, <1>2, <2>4, <2>5
<1> QED
  BY <1>1, <1>2, <1>3

\* Every place from 1 on is taken, by the number of that rank.
LEMMA NthIsInverse ==
    ASSUME NEW S \in SUBSET Int, IsFiniteSet(S)
    PROVE  /\ \A k \in 1..Cardinality(S) : Nth(S, k) \in S /\ Rank(S, Nth(S, k)) = k
           /\ \A x \in S : Nth(S, Rank(S, x)) = x
           /\ \A k, l \in 1..Cardinality(S) : k < l => Nth(S, k) < Nth(S, l)
<1> DEFINE n == Cardinality(S)
           f == [x \in S |-> Rank(S, x)]
<1>1. /\ n \in Nat /\ \A x \in S : Rank(S, x) \in 1..n
      /\ \A x, y \in S : x < y => Rank(S, x) < Rank(S, y)
  BY RanksAscend
<1>2. \A x, y \in S : Rank(S, x) = Rank(S, y) => x = y
  <2> SUFFICES ASSUME NEW x \in S, NEW y \in S, x # y PROVE Rank(S, x) # Rank(S, y)
    OBVIOUS
  <2>1. x < y \/ y < x
    OBVIOUS
  <2>2. Rank(S, x) \in Int /\ Rank(S, y) \in Int
    BY <1>1
  <2> QED
    BY <1>1, <2>1, <2>2
<1>3. f \in Injection(S, 1..n)
  BY <1>1, <1>2 DEF Injection, IsInjective
<1>4. IsFiniteSet(1..n) /\ Cardinality(1..n) = n
  BY <1>1, FS_Interval
<1>5. f \in Surjection(S, 1..n)
  BY <1>3, <1>4, FS_Injection
<1>6. ASSUME NEW k \in 1..n  PROVE Nth(S, k) \in S /\ Rank(S, Nth(S, k)) = k
  <2>1. \E x \in S : Rank(S, x) = k
    BY <1>5 DEF Surjection
  <2> QED
    BY <2>1 DEF Nth
<1>7. \A x \in S : Nth(S, Rank(S, x)) = x
  BY <1>1, <1>2, <1>6
<1>8. ASSUME NEW k \in 1..n, NEW l \in 1..n, k < l  PROVE Nth(S, k) < Nth(S, l)
  <2> DEFINE x == Nth(S, k)
             y == Nth(S, l)
  <2>1. x \in S /\ y \in S /\ Rank(S, x) = k /\ Rank(S, y) = l
    BY <1>6
  <2>2. ~(y < x) /\ x # y
    <3> HIDE DEF x, y
    <3> QED
      BY <1>1, <1>8, <2>1
  <2>3. x \in Int /\ y \in Int
    BY <2>1
  <2> QED
    BY <2>2, <2>3
<1> QED
  BY <1>6, <1>7, <1>8

\* Standing k-th is having k for a rank.
LEMMA NthHasRank ==
    ASSUME NEW S \in SUBSET Int, IsFiniteSet(S), NEW x \in S, NEW k, Rank(S, x) = k
    PROVE  Nth(S, k) = x
BY NthIsInverse

\* The first n numbers are in order.
LEMMA NthOfAll ==
    ASSUME NEW n \in Nat
    PROVE  /\ IsFiniteSet(1..n) /\ Cardinality(1..n) = n
           /\ \A k \in 1..n : Nth(1..n, k) = k
<1>1. IsFiniteSet(1..n) /\ Cardinality(1..n) = n /\ 1..n \in SUBSET Int
  BY FS_Interval
<1>2. ASSUME NEW k \in 1..n  PROVE Rank(1..n, k) = k
  <2>1. {y \in 1..n : y <= k} = 1..k
    OBVIOUS
  <2>2. Cardinality(1..k) = k
    BY FS_Interval
  <2> QED
    BY <2>1, <2>2 DEF Rank
<1> QED
  BY <1>1, <1>2, NthHasRank

\* Where all of A come before all of B, they are counted one after the other.
LEMMA NthOfParts ==
    ASSUME NEW A \in SUBSET Int, IsFiniteSet(A), NEW B \in SUBSET Int, IsFiniteSet(B),
           \A a \in A, b \in B : a < b
    PROVE  /\ IsFiniteSet(A \cup B)
           /\ Cardinality(A \cup B) = Cardinality(A) + Cardinality(B)
           /\ \A k \in 1..Cardinality(A) : Nth(A \cup B, k) = Nth(A, k)
           /\ \A k \in 1..Cardinality(B) :
                 Nth(A \cup B, Cardinality(A) + k) = Nth(B, k)
<1>1. /\ \A a \in A : a \in Int
      /\ \A b \in B : b \in Int
  OBVIOUS
<1>2. ASSUME NEW C \in SUBSET B
      PROVE  /\ IsFiniteSet(A \cup C)
             /\ Cardinality(A \cup C) = Cardinality(A) + Cardinality(C)
  <2>1. IsFiniteSet(C)
    BY FS_Subset
  <2>2. A \cap C = {}
    BY <1>1
  <2>3. /\ IsFiniteSet(A \cup C)
        /\ Cardinality(A \cup C) = Cardinality(A) + Cardinality(C) - Cardinality(A \cap C)
    BY <2>1, FS_Union
  <2>4. Cardinality(A) \in Nat /\ Cardinality(C) \in Nat
    BY <2>1, FS_CardinalityType
  <2>5. Cardinality(A \cap C) = 0
    BY <2>2, FS_EmptySet
  <2> QED
    BY <2>3, <2>4, <2>5
<1>3. A \cup B \in SUBSET Int /\ IsFiniteSet(A \cup B)
  BY <1>2
<1>4. ASSUME NEW k \in 1..Cardinality(A)  PROVE Nth(A \cup B, k) = Nth(A, k)
  <2> DEFINE x == Nth(A, k)
  <2>1. x \in A /\ Rank(A, x) = k
    BY NthIsInverse
  <2> HIDE DEF x
  <2>2. \A b \in B : ~(b <= x)
    <3> SUFFICES ASSUME NEW b \in B  PROVE ~(b <= x)
      OBVIOUS
    <3>1. x < b /\ x \in Int /\ b \in Int
      BY <1>1, <2>1
    <3> QED
      BY <3>1
  <2>3. {y \in A \cup B : y <= x} = {y \in A : y <= x}
    BY <2>2
  <2>4. Rank(A \cup B, x) = k
    BY <2>1, <2>3 DEF Rank
  <2>5. Nth(A \cup B, k) = x
    BY <1>3, <2>1, <2>4, NthHasRank
  <2> QED
    BY <2>5 DEF x
<1>5. ASSUME NEW k \in 1..Cardinality(B)
      PROVE  Nth(A \cup B, Cardinality(A) + k) = Nth(B, k)
  <2> DEFINE x == Nth(B, k)
             C == {y \in B : y <= x}
  <2>1. x \in B /\ Rank(B, x) = k
    BY NthIsInverse
  <2>2. Cardinality(C) = k
    BY <2>1 DEF Rank
  <2>3. Cardinality(A \cup C) = Cardinality(A) + Cardinality(C)
    BY <1>2
  <2> HIDE DEF x
  <2>4. \A a \in A : a <= x
    BY <1>1, <2>1
  <2>5. {y \in A \cup B : y <= x} = A \cup C
    BY <2>4
  <2>6. Rank(A \cup B, x) = Cardinality(A) + k
    BY <2>2, <2>3, <2>5 DEF Rank
  <2>7. Nth(A \cup B, Cardinality(A) + k) = x
    BY <1>3, <2>1, <2>6, NthHasRank
  <2> QED
    BY <2>7 DEF x
<1> QED
  BY <1>2, <1>4, <1>5

\* A bijection that keeps the order keeps the places in it.
LEMMA NthOfImage ==
    ASSUME NEW S \in SUBSET Int, IsFiniteSet(S), NEW T \in SUBSET Int,
           NEW f \in Surjection(S, T), \A x, y \in S : x < y => f[x] < f[y]
    PROVE  /\ IsFiniteSet(T) /\ Cardinality(T) = Cardinality(S)
           /\ \A k \in 1..Cardinality(S) : Nth(T, k) = f[Nth(S, k)]
<1>1. /\ \A x \in S : x \in Int /\ f[x] \in T /\ f[x] \in Int
      /\ \A z \in T : \E x \in S : f[x] = z
      /\ f = [x \in S |-> f[x]]
  BY DEF Surjection
<1>2. \A x, y \in S : x <= y <=> f[x] <= f[y]
  <2> SUFFICES ASSUME NEW x \in S, NEW y \in S  PROVE x <= y <=> f[x] <= f[y]
    OBVIOUS
  <2>1. x < y \/ x = y \/ y < x
    BY <1>1
  <2>2. /\ x < y => f[x] < f[y]
        /\ y < x => f[y] < f[x]
    BY Zenon
  <2>3. x \in Int /\ y \in Int /\ f[x] \in Int /\ f[y] \in Int
    BY <1>1
  <2> QED
    BY <2>1, <2>2, <2>3
<1>3. \A x, y \in S : f[x] = f[y] => x = y
  <2> SUFFICES ASSUME NEW x \in S, NEW y \in S, f[x] = f[y]  PROVE x = y
    OBVIOUS
  <2>1. x \in Int /\ y \in Int /\ f[x] \in Int
    BY <1>1
  <2>2. f[x] <= f[y] /\ f[y] <= f[x]
    BY <2>1
  <2>3. x <= y /\ y <= x
    BY <1>2, <2>2
  <2> QED
    BY <2>1, <2>3
<1>4. IsFiniteSet(T) /\ Cardinality(T) = Cardinality(S)
  <2>1. f \in Injection(S, T)
    BY <1>1, <1>3 DEF Injection, IsInjective
  <2>2. ExistsBijection(S, T)
    BY <2>1 DEF ExistsBijection, Bijection
  <2> QED
    BY <2>2, FS_Bijection
<1>5. ASSUME NEW x \in S  PROVE Rank(T, f[x]) = Rank(S, x)
  <2> DEFINE U == UpTo(S, x)
             V == UpTo(T, f[x])
             g == [y \in U |-> f[y]]
  <2>1. \A y \in U : y \in S /\ y <= x /\ f[y] \in V
    BY <1>1, <1>2 DEF UpTo
  <2>2. \A z \in V : \E y \in U : f[y] = z
    BY <1>1, <1>2 DEF UpTo
  <2>3. g \in Injection(U, V) /\ g \in Surjection(U, V)
    <3> HIDE DEF U, V
    <3> QED
      BY <1>3, <2>1, <2>2 DEF Injection, IsInjective, Surjection
  <2>4. ExistsBijection(U, V)
    BY <2>3 DEF ExistsBijection, Bijection
  <2>5. IsFiniteSet(U)
    <3>1. U \in SUBSET S
      BY DEF UpTo
    <3> QED
      BY <3>1, FS_Subset
  <2>6. Cardinality(V) = Cardinality(U)
    BY <2>4, <2>5, FS_Bijection
  <2> QED
    BY <2>6 DEF Rank, UpTo
<1>6. ASSUME NEW k \in 1..Cardinality(S)  PROVE Nth(T, k) = f[Nth(S, k)]
  <2> DEFINE x == Nth(S, k)
  <2>1. x \in S /\ Rank(S, x) = k
    BY NthIsInverse
  <2> HIDE DEF x
  <2>2. f[x] \in T /\ Rank(T, f[x]) = k
    BY <1>1, <1>5, <2>1
  <2>3. Nth(T, k) = f[x]
    BY <1>4, <2>2, NthHasRank
  <2> QED
    BY <2>3 DEF x
<1> QED
  BY <1>4, <1>6

\* The places of a list are numbers, and finitely many.
LEMMA PlacesAreFinite ==
    ASSUME NEW n \in Nat, NEW S \in SUBSET (1..n)
    PROVE  S \in SUBSET Int /\ IsFiniteSet(S) /\ Cardinality(S) \in Nat /\ Cardinality(S) <= n
<1>1. IsFiniteSet(1..n) /\ Cardinality(1..n) = n
  BY FS_Interval
<1>2. IsFiniteSet(S) /\ Cardinality(S) <= n
  BY <1>1, FS_Subset
<1> QED
  BY <1>2, FS_CardinalityType

\* What is picked is what stands at the places, and all of it.
LEMMA PickedEntries ==
    ASSUME NEW list, NEW n \in Nat, NEW S \in SUBSET (1..n)
    PROVE  /\ DOMAIN Picked(list, S) = 1..Cardinality(S)
           /\ \A k \in 1..Cardinality(S) :
                 Nth(S, k) \in S /\ Picked(list, S)[k] = list[Nth(S, k)]
           /\ \A i \in S : \E k \in 1..Cardinality(S) :
                 Nth(S, k) = i /\ Picked(list, S)[k] = list[i]
           /\ \A k, l \in 1..Cardinality(S) : k < l => Nth(S, k) < Nth(S, l)
<1>1. S \in SUBSET Int /\ IsFiniteSet(S)
  BY PlacesAreFinite
<1>2. /\ \A k \in 1..Cardinality(S) : Nth(S, k) \in S
      /\ \A i \in S : Nth(S, Rank(S, i)) = i
      /\ \A k, l \in 1..Cardinality(S) : k < l => Nth(S, k) < Nth(S, l)
  BY <1>1, NthIsInverse
<1>3. \A i \in S : Rank(S, i) \in 1..Cardinality(S)
  BY <1>1, RanksAscend
<1> QED
  BY <1>2, <1>3 DEF Picked

\* Part of a list is a list of the same things.
LEMMA PickedIsList ==
    ASSUME NEW T, NEW list \in Seq(T), NEW S \in SUBSET DOMAIN list
    PROVE  Picked(list, S) \in Seq(T) /\ Len(Picked(list, S)) = Cardinality(S)
<1>1. Len(list) \in Nat /\ DOMAIN list = 1..Len(list) /\ \A i \in DOMAIN list : list[i] \in T
  OBVIOUS
<1>2. Cardinality(S) \in Nat
  BY <1>1, PlacesAreFinite
<1>3. \A k \in 1..Cardinality(S) : list[Nth(S, k)] \in T
  BY <1>1, PickedEntries
<1> QED
  BY <1>2, <1>3 DEF Picked

\* A list with nothing left out is the list.
LEMMA PickedAll ==
    ASSUME NEW T, NEW list \in Seq(T)
    PROVE  Picked(list, DOMAIN list) = list
<1>1. Len(list) \in Nat /\ DOMAIN list = 1..Len(list)
  OBVIOUS
<1>2. /\ Cardinality(1..Len(list)) = Len(list)
      /\ \A k \in 1..Len(list) : Nth(1..Len(list), k) = k
  BY <1>1, NthOfAll
<1>3. Picked(list, DOMAIN list) = [k \in 1..Len(list) |-> list[k]]
  BY <1>1, <1>2 DEF Picked
<1>4. list = [k \in 1..Len(list) |-> list[k]]
  OBVIOUS
<1> QED
  BY <1>3, <1>4

\* The same without the places' ranks: what is picked, and in which order.
InOrder(list, S, p) ==
    /\ \A k \in DOMAIN p : \E i \in S : p[k] = list[i]
    /\ \A i \in S : \E k \in DOMAIN p : p[k] = list[i]
    /\ \A k, l \in DOMAIN p : k < l =>
          \E i, j \in S : i < j /\ p[k] = list[i] /\ p[l] = list[j]

LEMMA PickedInOrder ==
    ASSUME NEW list, NEW n \in Nat, NEW S \in SUBSET (1..n), NEW p, p = Picked(list, S)
    PROVE  InOrder(list, S, p)
<1> DEFINE m == Cardinality(S)
<1>1. /\ DOMAIN p = 1..m
      /\ \A k \in 1..m : Nth(S, k) \in S /\ p[k] = list[Nth(S, k)]
      /\ \A i \in S : \E k \in 1..m : Nth(S, k) = i /\ p[k] = list[i]
      /\ \A k, l \in 1..m : k < l => Nth(S, k) < Nth(S, l)
  BY PickedEntries
<1> HIDE DEF m
<1>2. \A k \in DOMAIN p : \E i \in S : p[k] = list[i]
  BY <1>1
<1>3. \A i \in S : \E k \in DOMAIN p : p[k] = list[i]
  BY <1>1
<1>4. ASSUME NEW k \in DOMAIN p, NEW l \in DOMAIN p, k < l
      PROVE  \E i, j \in S : i < j /\ p[k] = list[i] /\ p[l] = list[j]
  <2> DEFINE i == Nth(S, k)
             j == Nth(S, l)
  <2>1. i \in S /\ j \in S /\ p[k] = list[i] /\ p[l] = list[j]
    BY <1>1
  <2>2. i < j
    BY <1>1, <1>4, Zenon
  <2> QED
    BY <2>1, <2>2
<1> QED
  BY <1>2, <1>3, <1>4 DEF InOrder

\* A set of places that is not empty has a first one.
LEMMA FirstPlace ==
    ASSUME NEW n \in Nat, NEW S \in SUBSET (1..n), S # {}
    PROVE  \E i \in S : \A j \in S : i <= j
<1>1. S \in SUBSET Int /\ IsFiniteSet(S)
  BY PlacesAreFinite
<1>2. PICK x \in S : TRUE
  OBVIOUS
<1>3. \A y \in S : Rank(S, y) \in 1..Cardinality(S)
  BY <1>1, RanksAscend
<1>4. Cardinality(S) \in Nat /\ 1 \in 1..Cardinality(S)
  BY <1>1, <1>2, <1>3, RanksAscend
<1>5. /\ \A k \in 1..Cardinality(S) : Nth(S, k) \in S
      /\ \A y \in S : Nth(S, Rank(S, y)) = y
      /\ \A k, l \in 1..Cardinality(S) : k < l => Nth(S, k) < Nth(S, l)
  BY <1>1, NthIsInverse
<1>6. ASSUME NEW y \in S  PROVE Nth(S, 1) <= y
  <2>1. Rank(S, y) = 1 \/ 1 < Rank(S, y)
    BY <1>3, <1>4
  <2>2. Nth(S, 1) \in Int /\ y \in Int
    BY <1>1, <1>4, <1>5
  <2>3. Nth(S, 1) = y \/ Nth(S, 1) < y
    BY <1>3, <1>4, <1>5, <2>1
  <2> QED
    BY <2>2, <2>3
<1> QED
  BY <1>4, <1>5, <1>6

\* And a last one: the first of its mirror image.
LEMMA LastPlace ==
    ASSUME NEW n \in Nat, NEW S \in SUBSET (1..n), S # {}
    PROVE  \E i \in S : \A j \in S : j <= i
<1> DEFINE M == {n + 1 - i : i \in S}
<1>1. M \in SUBSET (1..n) /\ M # {}
  OBVIOUS
<1>2. PICK m \in M : \A k \in M : m <= k
  <2> HIDE DEF M
  <2> QED
    BY <1>1, FirstPlace
<1>3. PICK i \in S : m = n + 1 - i
  OBVIOUS
<1>4. ASSUME NEW j \in S  PROVE j <= i
  <2>1. n + 1 - j \in M
    OBVIOUS
  <2>2. n + 1 - i <= n + 1 - j
    BY <1>2, <1>3, <2>1
  <2>3. i \in Nat /\ j \in Nat
    OBVIOUS
  <2> QED
    BY <2>2, <2>3
<1> QED
  BY <1>4

\* A list of different things is as long as they are many.
LEMMA DistinctLength ==
    ASSUME NEW T, NEW list \in Seq(T),
           \A i, j \in DOMAIN list : i < j => list[i] # list[j]
    PROVE  Len(list) = Cardinality({list[i] : i \in DOMAIN list})
<1> DEFINE n == Len(list)
           f == [i \in 1..n |-> list[i]]
           things == {list[i] : i \in DOMAIN list}
<1>1. n \in Nat /\ DOMAIN list = 1..n
  OBVIOUS
<1>2. f \in Bijection(1..n, things)
  <2>1. f \in [1..n -> things]
    BY <1>1
  <2>2. ASSUME NEW i \in 1..n, NEW j \in 1..n, f[i] = f[j]  PROVE i = j
    <3>1. ~(i < j) /\ ~(j < i)
      BY <1>1, <2>2
    <3> QED
      BY <3>1
  <2>3. \A y \in things : \E i \in 1..n : f[i] = y
    BY <1>1
  <2> HIDE DEF f, things
  <2> QED
    BY <2>1, <2>2, <2>3 DEF Bijection, Injection, Surjection, IsInjective
<1>3. IsFiniteSet(1..n) /\ Cardinality(1..n) = n
  BY <1>1, NthOfAll
<1> HIDE DEF n, f, things
<1>4. Cardinality(things) = Cardinality(1..n)
  BY <1>2, <1>3, FS_Bijection DEF ExistsBijection
<1> QED
  BY <1>3, <1>4 DEF n, things
=============================================================================
