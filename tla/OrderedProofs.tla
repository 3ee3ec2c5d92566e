----------------------------- MODULE OrderedProofs -----------------------------
(***************************************************************************)
(* What the other proofs need to know of minima and maxima of sets of      *)
(* numbers, of sets put in order, and of sequences without repetition.     *)
(***************************************************************************)
EXTENDS Ordered, Sequences, FiniteSetsExt, Functions, FiniteSetTheorems,
        FunctionTheorems, NaturalsInduction, WellFoundedInduction, TLAPS

\* A set of numbers that is not empty has a least element, and Min finds it.
LEMMA MinProperties ==
    ASSUME NEW S \in SUBSET Nat, S # {}
    PROVE  Min(S) \in S /\ \A y \in S : Min(S) <= y
<1>1. PICK m \in S : \A y \in S : ~(<<y, m>> \in OpToRel(<, Nat))
  BY NatLessThanWellFounded, WFMin
<1>2. \A y \in S : m <= y
  <2> TAKE y \in S
  <2>1. y < m => <<y, m>> \in OpToRel(<, Nat)
    BY DEF OpToRel
  <2>2. ~(y < m)
    BY <1>1, <2>1, Zenon
  <2> QED BY <2>2
<1>3. \E x \in S : \A y \in S : x =< y
  BY <1>2
<1> QED BY <1>3, Zenon DEF Min

\* A bounded set of numbers that is not empty has a greatest element, and Max
\* finds it.
LEMMA MaxProperties ==
    ASSUME NEW S \in SUBSET Nat, S # {}, NEW n \in Nat, \A y \in S : y <= n
    PROVE  Max(S) \in S /\ \A y \in S : y <= Max(S)
<1> DEFINE B == {b \in Nat : \A y \in S : y <= b}
<1>1. B \in SUBSET Nat /\ n \in B
  OBVIOUS
<1>2. Min(B) \in B /\ \A b \in B : Min(B) <= b
  <2> HIDE DEF B
  <2> QED BY <1>1, MinProperties
<1>3. Min(B) \in Nat /\ \A y \in S : y <= Min(B)
  BY <1>2
<1>4. Min(B) \in S
  <2> SUFFICES ASSUME Min(B) \notin S PROVE FALSE
    OBVIOUS
  <2>1. PICK x \in S : TRUE
    OBVIOUS
  <2>2. \A y \in S : y <= Min(B) /\ y # Min(B)
    BY <1>3
  <2>3. Min(B) - 1 \in Nat /\ \A y \in S : y <= Min(B) - 1
    BY <1>3, <2>1, <2>2
  <2>4. Min(B) - 1 \in B
    BY <2>3
  <2> QED BY <1>2, <1>3, <2>4
<1>5. \E x \in S : \A y \in S : x >= y
  BY <1>3, <1>4
<1>6. Max(S) \in S /\ \A y \in S : Max(S) >= y
  BY <1>5, Zenon DEF Max
<1> QED BY <1>6

\* The rank of an element is a number between 1 and the size of the set, and
\* elements with larger keys have larger ranks.
LEMMA RankProperties ==
    ASSUME NEW S, IsFiniteSet(S), NEW key \in [S -> Nat], NEW x \in S
    PROVE  /\ Cardinality({y \in S : key[y] <= key[x]}) \in 1..Cardinality(S)
           /\ \A z \in S : key[x] < key[z] =>
                 Cardinality({y \in S : key[y] <= key[x]})
                    < Cardinality({y \in S : key[y] <= key[z]})
<1> DEFINE Below(z) == {y \in S : key[y] <= key[z]}
<1>1. \A z \in S : Below(z) \in SUBSET S /\ z \in Below(z)
  OBVIOUS
<1>2. \A z \in S : /\ IsFiniteSet(Below(z)) /\ Cardinality(Below(z)) \in Nat
                   /\ Cardinality(Below(z)) <= Cardinality(S)
  <2> TAKE z \in S
  <2> HIDE DEF Below
  <2> QED BY <1>1, FS_Subset, FS_CardinalityType
<1>3. Cardinality(S) \in Nat
  BY FS_CardinalityType
<1>4. Cardinality(Below(x)) # 0
  <2> HIDE DEF Below
  <2> QED BY <1>1, <1>2, FS_EmptySet
<1>5. ASSUME NEW z \in S, key[x] < key[z]
      PROVE  Cardinality(Below(x)) < Cardinality(Below(z))
  <2>1. Below(x) \in SUBSET Below(z) /\ z \notin Below(x)
    BY <1>5
  <2>2. z \in Below(z)
    BY <1>1
  <2> HIDE DEF Below
  <2>3. /\ Cardinality(Below(x)) <= Cardinality(Below(z))
        /\ Cardinality(Below(x)) # Cardinality(Below(z))
    BY <1>2, <2>1, <2>2, FS_Subset
  <2> QED BY <1>2, <2>3
<1>6. Cardinality(Below(x)) \in 1..Cardinality(S)
  <2> HIDE DEF Below
  <2> QED BY <1>2, <1>3, <1>4
<1> QED BY <1>5, <1>6

\* A set sorted by keys that tell its elements apart is listed completely, once
\* each, and by growing keys.
LEMMA SortedByProperties ==
    ASSUME NEW S, IsFiniteSet(S), NEW key \in [S -> Nat],
           \A x, y \in S : key[x] = key[y] => x = y
    PROVE  /\ Cardinality(S) \in Nat
           /\ SortedBy(S, key) \in [1..Cardinality(S) -> S]
           /\ \A x \in S : \E i \in 1..Cardinality(S) : SortedBy(S, key)[i] = x
           /\ \A i, j \in 1..Cardinality(S) :
                 i < j => key[SortedBy(S, key)[i]] < key[SortedBy(S, key)[j]]
<1> DEFINE n == Cardinality(S)
           rank == [x \in S |-> Cardinality({y \in S : key[y] <= key[x]})]
           s == SortedBy(S, key)
<1>0. n \in Nat
  BY FS_CardinalityType
<1>1. rank \in [S -> 1..n]
  BY RankProperties
<1>2. \A x, z \in S : key[x] < key[z] => rank[x] < rank[z]
  BY RankProperties
<1>3. \A x, z \in S : rank[x] = rank[z] => x = z
  <2> SUFFICES ASSUME NEW x \in S, NEW z \in S, rank[x] = rank[z], x # z PROVE FALSE
    OBVIOUS
  <2> HIDE DEF rank
  <2>1. rank[x] \in Nat /\ key[x] \in Nat /\ key[z] \in Nat /\ key[x] # key[z]
    BY <1>0, <1>1
  <2> QED BY <1>2, <2>1
<1>4. \A i \in 1..n : \E x \in S : rank[x] = i
  <2> HIDE DEF rank
  <2>1. rank \in Injection(S, 1..n)
    BY <1>1, <1>3, Fun_IsInj
  <2>2. IsFiniteSet(1..n) /\ Cardinality(1..n) = n
    BY <1>0, FS_Interval
  <2>3. rank \in Surjection(S, 1..n)
    BY <2>1, <2>2, FS_Injection
  <2> QED BY <2>3, Fun_SurjectionProperties
<1>5. \A i \in 1..n : s[i] \in S /\ rank[s[i]] = i
  <2> TAKE i \in 1..n
  <2>1. s[i] = CHOOSE x \in S : Cardinality({y \in S : key[y] <= key[x]}) = i
    BY Zenon DEF SortedBy
  <2>2. \E x \in S : Cardinality({y \in S : key[y] <= key[x]}) = i
    BY <1>4
  <2>3. s[i] \in S /\ Cardinality({y \in S : key[y] <= key[s[i]]}) = i
    <3> DEFINE P(x) == Cardinality({y \in S : key[y] <= key[x]}) = i
    <3>1. s[i] = CHOOSE x \in S : P(x)
      BY <2>1, Zenon
    <3>2. \E x \in S : P(x)
      BY <2>2, Zenon
    <3>3. s[i] \in S /\ P(s[i])
      <4> HIDE DEF P, s
      <4> QED BY <3>1, <3>2, Zenon
    <3> QED BY <3>3, Zenon
  <2>4. rank[s[i]] = Cardinality({y \in S : key[y] <= key[s[i]]})
    BY <2>3, Zenon
  <2> QED BY <2>3, <2>4, Zenon
<1>6. s \in [1..n -> S]
  <2> DEFINE F(i) == CHOOSE x \in S : Cardinality({y \in S : key[y] <= key[x]}) = i
  <2>1. s = [i \in 1..n |-> F(i)]
    BY Zenon DEF SortedBy
  <2>2. \A i \in 1..n : F(i) \in S
    BY <1>5, <2>1, Zenon
  <2> HIDE DEF F, s
  <2> QED BY <2>1, <2>2
<1> HIDE DEF s, rank
<1>7. \A x \in S : \E i \in 1..n : s[i] = x
  <2> TAKE x \in S
  <2>1. rank[x] \in 1..n /\ s[rank[x]] \in S /\ rank[s[rank[x]]] = rank[x]
    BY <1>1, <1>5
  <2> QED BY <1>3, <2>1
<1>8. ASSUME NEW i \in 1..n, NEW j \in 1..n, i < j PROVE key[s[i]] < key[s[j]]
  <2>1. s[i] \in S /\ s[j] \in S /\ rank[s[i]] = i /\ rank[s[j]] = j
    BY <1>5
  <2>2. key[s[i]] \in Nat /\ key[s[j]] \in Nat
    BY <2>1
  <2>3. key[s[i]] # key[s[j]]
    BY <1>0, <1>8, <2>1
  <2>4. ~(key[s[j]] < key[s[i]])
    BY <1>0, <1>2, <1>8, <2>1
  <2> QED BY <2>2, <2>3, <2>4
<1> QED BY <1>0, <1>6, <1>7, <1>8 DEF s

\* A finite set of numbers in order.
LEMMA InOrderProperties ==
    ASSUME NEW S \in SUBSET Nat, IsFiniteSet(S)
    PROVE  /\ Cardinality(S) \in Nat
           /\ InOrder(S) \in [1..Cardinality(S) -> S]
           /\ \A x \in S : \E i \in 1..Cardinality(S) : InOrder(S)[i] = x
           /\ \A i, j \in 1..Cardinality(S) : i < j => InOrder(S)[i] < InOrder(S)[j]
<1> DEFINE key == [x \in S |-> x]
<1>1. key \in [S -> Nat] /\ \A x \in S : key[x] = x
  OBVIOUS
<1>2. InOrder(S) = SortedBy(S, key)
  BY Zenon DEF InOrder
<1> HIDE DEF key
<1>3. \A x, y \in S : key[x] = key[y] => x = y
  BY <1>1
<1>4. /\ Cardinality(S) \in Nat
      /\ InOrder(S) \in [1..Cardinality(S) -> S]
      /\ \A x \in S : \E i \in 1..Cardinality(S) : InOrder(S)[i] = x
      /\ \A i, j \in 1..Cardinality(S) :
            i < j => key[InOrder(S)[i]] < key[InOrder(S)[j]]
  <2>1. /\ Cardinality(S) \in Nat
        /\ SortedBy(S, key) \in [1..Cardinality(S) -> S]
        /\ \A x \in S : \E i \in 1..Cardinality(S) : SortedBy(S, key)[i] = x
        /\ \A i, j \in 1..Cardinality(S) :
              i < j => key[SortedBy(S, key)[i]] < key[SortedBy(S, key)[j]]
    BY <1>1, <1>3, SortedByProperties
  <2> QED BY <1>2, <2>1, Zenon
<1>5. ASSUME NEW i \in 1..Cardinality(S), NEW j \in 1..Cardinality(S), i < j
      PROVE  InOrder(S)[i] < InOrder(S)[j]
  <2>1. InOrder(S)[i] \in S /\ InOrder(S)[j] \in S
    BY <1>4
  <2>2. key[InOrder(S)[i]] < key[InOrder(S)[j]]
    BY <1>4, <1>5, Zenon
  <2> QED BY <1>1, <2>1, <2>2
<1> QED BY <1>4, <1>5

\* The greatest element of a finite set of numbers.
LEMMA FiniteMaxProperties ==
    ASSUME NEW S \in SUBSET Nat, IsFiniteSet(S), S # {}
    PROVE  Max(S) \in S /\ \A y \in S : y <= Max(S)
<1> DEFINE n == Cardinality(S)
           s == InOrder(S)
<1>1. /\ n \in Nat /\ s \in [1..n -> S]
      /\ \A x \in S : \E i \in 1..n : s[i] = x
      /\ \A i, j \in 1..n : i < j => s[i] < s[j]
  BY InOrderProperties
<1> HIDE DEF n, s
<1>2. n \in 1..n
  <2>1. PICK x \in S : TRUE
    OBVIOUS
  <2>2. PICK i \in 1..n : s[i] = x
    BY <1>1, <2>1
  <2> QED BY <1>1, <2>2
<1>3. s[n] \in Nat
  BY <1>1, <1>2
<1>4. ASSUME NEW y \in S PROVE y <= s[n]
  <2>1. PICK i \in 1..n : s[i] = y
    BY <1>1
  <2>2. i < n \/ i = n
    BY <1>1, <2>1
  <2>3. i < n => s[i] < s[n]
    BY <1>1, <1>2
  <2> QED BY <1>3, <2>1, <2>2, <2>3
<1> QED BY <1>3, <1>4, MaxProperties

-----------------------------------------------------------------------------
(* Sequences without repetition. *)

\* An element at the end.
LEMMA AppendDistinct ==
    ASSUME NEW S, NEW s \in Seq(S), NEW x \in S
    PROVE  /\ Append(s, x) \in Seq(S)
           /\ Range(Append(s, x)) = Range(s) \cup {x}
           /\ IsInjective(s) /\ x \notin Range(s) => IsInjective(Append(s, x))
<1> DEFINE t == Append(s, x)
<1>1. /\ t \in Seq(S) /\ Len(s) \in Nat /\ DOMAIN s = 1..Len(s)
      /\ DOMAIN t = 1..(Len(s) + 1)
      /\ \A i \in DOMAIN s : i \in DOMAIN t /\ t[i] = s[i]
      /\ t[Len(s) + 1] = x /\ Len(s) + 1 \in DOMAIN t
  OBVIOUS
<1>2. \A i \in DOMAIN t : i \in DOMAIN s \/ i = Len(s) + 1
  BY <1>1
<1> HIDE DEF t
<1>3. Range(t) = Range(s) \cup {x}
  BY <1>1, <1>2 DEF Range
<1>4. ASSUME IsInjective(s), x \notin Range(s), NEW a \in DOMAIN t, NEW b \in DOMAIN t,
             t[a] = t[b]
      PROVE  a = b
  BY <1>1, <1>2, <1>4 DEF Range, IsInjective
<1>5. IsInjective(s) /\ x \notin Range(s) => IsInjective(t)
  BY <1>4 DEF IsInjective
<1> QED BY <1>1, <1>3, <1>5 DEF t

\* The first element, and the others.
LEMMA TailDistinct ==
    ASSUME NEW S, NEW s \in Seq(S), s # <<>>
    PROVE  /\ Head(s) \in Range(s) /\ Head(s) \in S
           /\ Tail(s) \in Seq(S)
           /\ Range(s) = Range(Tail(s)) \cup {Head(s)}
           /\ IsInjective(s) => IsInjective(Tail(s)) /\ Head(s) \notin Range(Tail(s))
<1> DEFINE t == Tail(s)
<1>1. /\ t \in Seq(S) /\ Head(s) = s[1] /\ 1 \in DOMAIN s /\ s[1] \in S
      /\ \A i \in DOMAIN t : i + 1 \in DOMAIN s /\ t[i] = s[i + 1] /\ i + 1 # 1
      /\ \A i \in DOMAIN s : i # 1 => i - 1 \in DOMAIN t /\ t[i - 1] = s[i]
      /\ \A i \in DOMAIN t : i \in Nat
  OBVIOUS
<1> HIDE DEF t
<1>2. Range(s) = Range(t) \cup {Head(s)}
  <2>1. Range(t) \subseteq Range(s) /\ Head(s) \in Range(s)
    BY <1>1 DEF Range
  <2>2. ASSUME NEW i \in DOMAIN s PROVE s[i] \in Range(t) \cup {Head(s)}
    <3>1. CASE i = 1
      BY <1>1, <3>1
    <3>2. CASE i # 1
      BY <1>1, <3>2 DEF Range
    <3> QED BY <3>1, <3>2
  <2>3. Range(s) \subseteq Range(t) \cup {Head(s)}
    BY <2>2 DEF Range
  <2> QED BY <2>1, <2>3
<1>3. IsInjective(s) => Head(s) \notin Range(t)
  BY <1>1 DEF IsInjective, Range
<1>4. ASSUME IsInjective(s), NEW a \in DOMAIN t, NEW b \in DOMAIN t, t[a] = t[b]
      PROVE  a = b
  <2>1. a + 1 = b + 1
    BY <1>1, <1>4 DEF IsInjective
  <2> QED BY <1>1, <2>1
<1>5. IsInjective(s) => IsInjective(t)
  BY <1>4 DEF IsInjective
<1> QED BY <1>1, <1>2, <1>3, <1>5 DEF t

\* Two sequences, one after the other.
LEMMA ConcatDistinct ==
    ASSUME NEW S, NEW s \in Seq(S), NEW t \in Seq(S)
    PROVE  /\ s \o t \in Seq(S)
           /\ Range(s \o t) = Range(s) \cup Range(t)
           /\ IsInjective(s) /\ IsInjective(t) /\ Range(s) \cap Range(t) = {}
                 => IsInjective(s \o t)
<1> DEFINE u == s \o t
<1>1. /\ u \in Seq(S) /\ Len(s) \in Nat /\ Len(t) \in Nat
      /\ DOMAIN s = 1..Len(s) /\ DOMAIN t = 1..Len(t)
      /\ DOMAIN u = 1..(Len(s) + Len(t))
      /\ \A i \in DOMAIN s : i \in DOMAIN u /\ u[i] = s[i]
  OBVIOUS
<1>2. \A i \in DOMAIN t : i + Len(s) \in DOMAIN u /\ u[i + Len(s)] = t[i]
  BY <1>1
<1>3. \A i \in DOMAIN u : \/ i \in DOMAIN s /\ u[i] = s[i]
                          \/ i - Len(s) \in DOMAIN t /\ u[i] = t[i - Len(s)]
  BY <1>1
<1>4. \A i \in DOMAIN u : i \in Int
  BY <1>1
<1> HIDE DEF u
<1>5. Range(u) = Range(s) \cup Range(t)
  <2>1. Range(s) \subseteq Range(u)
    BY <1>1 DEF Range
  <2>2. Range(t) \subseteq Range(u)
    BY <1>2 DEF Range
  <2>3. Range(u) \subseteq Range(s) \cup Range(t)
    BY <1>3 DEF Range
  <2> QED BY <2>1, <2>2, <2>3
<1>6. ASSUME IsInjective(s), IsInjective(t), Range(s) \cap Range(t) = {},
             NEW a \in DOMAIN u, NEW b \in DOMAIN u, u[a] = u[b]
      PROVE  a = b
  <2>1. \A i \in DOMAIN s : s[i] \in Range(s)
    BY DEF Range
  <2>2. \A i \in DOMAIN t : t[i] \in Range(t)
    BY DEF Range
  <2>3. CASE a \in DOMAIN s /\ u[a] = s[a]
    <3>1. b \in DOMAIN s /\ u[b] = s[b]
      BY <1>3, <1>6, <2>1, <2>2, <2>3
    <3> QED BY <1>6, <2>3, <3>1 DEF IsInjective
  <2>4. CASE a - Len(s) \in DOMAIN t /\ u[a] = t[a - Len(s)]
    <3>1. b - Len(s) \in DOMAIN t /\ u[b] = t[b - Len(s)]
      BY <1>3, <1>6, <2>1, <2>2, <2>4
    <3>2. a - Len(s) = b - Len(s)
      BY <1>6, <2>4, <3>1 DEF IsInjective
    <3> QED BY <1>1, <1>4, <3>2
  <2> QED BY <1>3, <2>3, <2>4
<1>7. IsInjective(s) /\ IsInjective(t) /\ Range(s) \cap Range(t) = {} => IsInjective(u)
  BY <1>6 DEF IsInjective
<1> QED BY <1>1, <1>5, <1>7 DEF u

\* A set put in order is a sequence of its elements without repetition.
LEMMA SortedByDistinct ==
    ASSUME NEW S, IsFiniteSet(S), NEW key \in [S -> Nat],
           \A x, y \in S : key[x] = key[y] => x = y
    PROVE  /\ SortedBy(S, key) \in Seq(S)
           /\ Range(SortedBy(S, key)) = S
           /\ IsInjective(SortedBy(S, key))
<1> DEFINE n == Cardinality(S)
           s == SortedBy(S, key)
<1>1. /\ n \in Nat /\ s \in [1..n -> S]
      /\ \A x \in S : \E i \in 1..n : s[i] = x
      /\ \A i, j \in 1..n : i < j => key[s[i]] < key[s[j]]
  BY SortedByProperties
<1> HIDE DEF n, s
<1>2. s \in Seq(S)
  BY <1>1
<1>3. Range(s) = S
  BY <1>1 DEF Range
<1>4. ASSUME NEW a \in 1..n, NEW b \in 1..n, s[a] = s[b] PROVE a = b
  <2>1. key[s[a]] \in Nat /\ key[s[a]] = key[s[b]]
    BY <1>1, <1>4
  <2>2. ~(a < b) /\ ~(b < a)
    BY <1>1, <2>1
  <2> QED BY <1>1, <2>2
<1>5. IsInjective(s)
  BY <1>1, <1>4 DEF IsInjective
<1> QED BY <1>2, <1>3, <1>5 DEF s

\* The same for a set of numbers.
LEMMA InOrderDistinct ==
    ASSUME NEW S \in SUBSET Nat, IsFiniteSet(S)
    PROVE  InOrder(S) \in Seq(S) /\ Range(InOrder(S)) = S /\ IsInjective(InOrder(S))
<1> DEFINE key == [x \in S |-> x]
<1>1. key \in [S -> Nat] /\ \A x \in S : key[x] = x
  OBVIOUS
<1>2. InOrder(S) = SortedBy(S, key)
  BY Zenon DEF InOrder
<1> HIDE DEF key
<1>3. \A x, y \in S : key[x] = key[y] => x = y
  BY <1>1
<1>4. /\ SortedBy(S, key) \in Seq(S)
      /\ Range(SortedBy(S, key)) = S
      /\ IsInjective(SortedBy(S, key))
  BY <1>1, <1>3, SortedByDistinct
<1> QED BY <1>2, <1>4, Zenon

\* A sequence without repetition is as long as the set of its elements is large.
LEMMA DistinctLength ==
    ASSUME NEW S, NEW s \in Seq(S), IsInjective(s), Range(s) = S
    PROVE  IsFiniteSet(S) /\ Cardinality(S) = Len(s)
<1>1. Len(s) \in Nat /\ DOMAIN s = 1..Len(s) /\ s \in [1..Len(s) -> S]
  OBVIOUS
<1>2. \A x \in S : \E i \in 1..Len(s) : s[i] = x
  BY <1>1 DEF Range
<1>3. s \in Bijection(1..Len(s), S)
  BY <1>1, <1>2 DEF Bijection, Injection, Surjection
<1>4. ExistsBijection(1..Len(s), S)
  BY <1>3 DEF ExistsBijection
<1> QED BY <1>1, <1>4, FS_CountingElements, FS_NatBijection

\* A number larger than all comes last.
LEMMA InOrderAppend ==
    ASSUME NEW S \in SUBSET Nat, IsFiniteSet(S), NEW n \in Nat, \A x \in S : x < n
    PROVE  InOrder(S \cup {n}) = Append(InOrder(S), n)
<1> DEFINE T == S \cup {n}
           N == Cardinality(S)
           s == InOrder(S)
           t == InOrder(T)
<1>1. /\ N \in Nat /\ s \in [1..N -> S]
      /\ \A x \in S : \E i \in 1..N : s[i] = x
      /\ \A i, j \in 1..N : i < j => s[i] < s[j]
  BY InOrderProperties
<1>2. T \in SUBSET Nat /\ IsFiniteSet(T) /\ Cardinality(T) = N + 1
  <2>1. n \notin S
    OBVIOUS
  <2>2. IsFiniteSet(T) /\ Cardinality(T) = N + 1
    BY <2>1, FS_AddElement
  <2> QED BY <2>2
<1>3. /\ t \in [1..(N + 1) -> T]
      /\ \A x \in T : \E i \in 1..(N + 1) : t[i] = x
      /\ \A i, j \in 1..(N + 1) : i < j => t[i] < t[j]
  <2>1. /\ t \in [1..Cardinality(T) -> T]
        /\ \A x \in T : \E i \in 1..Cardinality(T) : t[i] = x
        /\ \A i, j \in 1..Cardinality(T) : i < j => t[i] < t[j]
    <3> HIDE DEF T
    <3> QED BY <1>2, InOrderProperties
  <2> HIDE DEF t, T, N
  <2> QED BY <1>2, <2>1
<1> HIDE DEF s, t, N
<1>4. t[N + 1] = n
  <2>1. N + 1 \in 1..(N + 1)
    BY <1>1
  <2>2. PICK i \in 1..(N + 1) : t[i] = n
    BY <1>3
  <2>3. t[N + 1] \in Nat /\ t[N + 1] <= n
    <3>1. t[N + 1] \in T
      <4> HIDE DEF T
      <4> QED BY <1>3, <2>1
    <3>2. \A z \in T : z \in Nat /\ z <= n
      OBVIOUS
    <3> HIDE DEF T
    <3> QED BY <3>1, <3>2
  <2> QED BY <1>1, <1>3, <2>1, <2>2, <2>3
<1>5. \A i \in 1..N : t[i] \in S
  <2> TAKE i \in 1..N
  <2>1. i \in 1..(N + 1) /\ N + 1 \in 1..(N + 1) /\ i < N + 1
    BY <1>1
  <2>2. t[i] < n /\ t[i] \in T
    <3> HIDE DEF T
    <3> QED BY <1>3, <1>4, <2>1
  <2> QED BY <2>2
<1> HIDE DEF T
<1> DEFINE Bad == {i \in 1..N : t[i] # s[i]}
<1>6. Bad = {}
  <2> SUFFICES ASSUME Bad # {} PROVE FALSE
    OBVIOUS
  <2> DEFINE k == Min(Bad)
  <2>1. k \in Bad /\ \A y \in Bad : k <= y
    <3>1. Bad \in SUBSET Nat
      BY <1>1
    <3> HIDE DEF Bad
    <3> QED BY <3>1, MinProperties
  <2>2. k \in 1..N /\ t[k] # s[k] /\ \A j \in 1..N : j < k => t[j] = s[j]
    <3>1. k \in 1..N /\ t[k] # s[k]
      BY <2>1
    <3>2. \A j \in 1..N : j \notin Bad => t[j] = s[j]
      OBVIOUS
    <3> HIDE DEF Bad, k
    <3> QED BY <1>1, <2>1, <3>1, <3>2
  <2> HIDE DEF k
  <2>3. s[k] \in S /\ t[k] \in S /\ s[k] \in Nat /\ t[k] \in Nat
    BY <1>1, <1>5, <2>2
  <2>4. ~(s[k] < t[k])
    <3> SUFFICES ASSUME s[k] < t[k] PROVE FALSE
      OBVIOUS
    <3>1. s[k] \in T
      BY <2>3 DEF T
    <3>2. PICK j \in 1..(N + 1) : t[j] = s[k]
      BY <1>3, <3>1
    <3>3. k \in 1..(N + 1) /\ k \in Nat /\ j \in Nat
      BY <1>1, <2>2
    <3>4. j < k
      <4>1. ~(k < j)
        BY <1>3, <2>3, <3>2, <3>3
      <4>2. j # k
        BY <2>3, <3>2
      <4> QED BY <3>3, <4>1, <4>2
    <3>5. j \in 1..N
      BY <1>1, <2>2, <3>3, <3>4
    <3> QED BY <1>1, <2>2, <2>3, <3>2, <3>4, <3>5
  <2>5. ~(t[k] < s[k])
    <3> SUFFICES ASSUME t[k] < s[k] PROVE FALSE
      OBVIOUS
    <3>1. PICK j \in 1..N : s[j] = t[k]
      BY <1>1, <2>3
    <3>2. k \in Nat /\ j \in Nat /\ j \in 1..(N + 1) /\ k \in 1..(N + 1)
      BY <1>1, <2>2
    <3>3. j < k
      <4>1. ~(k < j)
        BY <1>1, <2>2, <2>3, <3>1
      <4>2. j # k
        BY <2>3, <3>1
      <4> QED BY <3>2, <4>1, <4>2
    <3>4. t[j] = t[k] /\ t[j] < t[k]
      BY <1>3, <2>2, <3>1, <3>2, <3>3
    <3> QED BY <2>3, <3>4
  <2> QED BY <2>2, <2>3, <2>4, <2>5
<1>7. \A i \in 1..N : t[i] = s[i]
  BY <1>6
<1> DEFINE w == Append(s, n)
<1>8. w \in [1..(N + 1) -> Nat] /\ \A i \in 1..(N + 1) : w[i] = IF i = N + 1 THEN n ELSE s[i]
  <2>1. s \in Seq(S) /\ Len(s) = N
    BY <1>1
  <2>2. s \in Seq(Nat)
    <3>1. \A i \in 1..N : s[i] \in Nat
      BY <1>1
    <3>2. s \in [1..N -> Nat]
      BY <1>1, <3>1
    <3> QED BY <1>1, <3>2
  <2>3. w \in Seq(Nat) /\ Len(w) = N + 1 /\ w[N + 1] = n /\ \A i \in 1..N : w[i] = s[i]
    BY <1>1, <2>1, <2>2
  <2> HIDE DEF w
  <2>4. w \in [1..(N + 1) -> Nat]
    BY <1>1, <2>3
  <2> QED BY <1>1, <2>3, <2>4
<1>9. \A i \in 1..(N + 1) : t[i] = w[i]
  <2> HIDE DEF w
  <2> QED BY <1>1, <1>4, <1>7, <1>8
<1>10. t \in [1..(N + 1) -> Nat]
  <2>1. \A i \in 1..(N + 1) : t[i] \in Nat
    BY <1>2, <1>3
  <2> QED BY <1>3, <2>1
<1> HIDE DEF w
<1>11. t = w
  <2> HIDE DEF Bad
  <2>1. t = [i \in 1..(N + 1) |-> t[i]] /\ w = [i \in 1..(N + 1) |-> w[i]]
    BY <1>8, <1>10
  <2>2. [i \in 1..(N + 1) |-> t[i]] = [i \in 1..(N + 1) |-> w[i]]
    BY <1>9
  <2> QED BY <2>1, <2>2
<1> QED BY <1>11 DEF s, t, T, w
===============================================================================
