------------------------------ MODULE DataLemmas ------------------------------
(***************************************************************************)
(* Lemmas about the data that more than one component has: the least of a  *)
(* set of numbers, what is left of a list when entries are taken out, and  *)
(* sums of sizes, which MapThenSumSet takes element by element.            *)
(***************************************************************************)
EXTENDS Sublists, SequencesExt, SequenceTheorems, FiniteSetTheorems,
        WellFoundedInduction, TLAPS

\* The least and the greatest number of a set.
LEMMA LeastOf ==
  ASSUME NEW S \in SUBSET Nat, S # {}
  PROVE  \E n \in S : \A k \in S : n <= k
<1>1. \E n \in S : \A k \in S : ~ (<<k, n>> \in OpToRel(<, Nat))
  BY NatLessThanWellFounded, WFMin, Zenon
<1>2. PICK n \in S : \A k \in S : ~ (<<k, n>> \in OpToRel(<, Nat))
  BY <1>1
<1>3. \A k \in S : ~ (k < n)
  BY <1>2 DEF OpToRel
<1> QED  BY <1>3

LEMMA MinOf ==
  ASSUME NEW S \in SUBSET Nat, S # {}
  PROVE  Min(S) \in S /\ \A k \in S : Min(S) <= k
BY LeastOf DEF Min

\* The numbers are known when the others are on one side.
LEMMA MinIs ==
  ASSUME NEW S \in SUBSET Nat, NEW lo \in S, \A x \in S : lo <= x
  PROVE  Min(S) = lo
<1>1. Min(S) \in S /\ \A x \in S : Min(S) <= x
  BY DEF Min
<1>2. Min(S) <= lo /\ lo <= Min(S)
  BY <1>1
<1>3. Min(S) \in Nat /\ lo \in Nat
  BY <1>1
<1> QED  BY <1>2, <1>3

LEMMA MaxIs ==
  ASSUME NEW S \in SUBSET Nat, NEW hi \in S, \A x \in S : x <= hi
  PROVE  Max(S) = hi
<1>1. Max(S) \in S /\ \A x \in S : Max(S) >= x
  BY DEF Max
<1>2. Max(S) <= hi /\ hi <= Max(S)
  BY <1>1
<1>3. Max(S) \in Nat /\ hi \in Nat
  BY <1>1
<1> QED  BY <1>2, <1>3

-----------------------------------------------------------------------------
(* What is left of a list, and in which order.                             *)

\* The list new holds the entries of old that stand at the positions I.
Rearranged(new, old, I) ==
  \E g \in [DOMAIN new -> I] :
    /\ \A m, n \in DOMAIN new : g[m] = g[n] => m = n
    /\ \A i \in I : \E m \in DOMAIN new : g[m] = i
    /\ \A m \in DOMAIN new : new[m] = old[g[m]]

\* The rank of a position among those that are kept.
LEMMA Ranks ==
  ASSUME NEW n \in Nat, NEW I \in SUBSET (1 .. n)
  PROVE  /\ Cardinality(I) \in Nat
         /\ \A m \in 1 .. Cardinality(I) : Nth(I, m) \in I
         /\ \A m, l \in 1 .. Cardinality(I) : Nth(I, m) = Nth(I, l) => m = l
         /\ \A i \in I : \E m \in 1 .. Cardinality(I) : Nth(I, m) = i
         /\ \A m, l \in 1 .. Cardinality(I) : m < l => Nth(I, m) < Nth(I, l)
<1> DEFINE c == Cardinality(I)
           Upto(i) == {j \in I : j <= i}
           r == [i \in I |-> Cardinality(Upto(i))]
<1>1. IsFiniteSet(I) /\ c \in Nat /\ \A i \in I : i \in Int
  <2>1. IsFiniteSet(1 .. n) /\ \A i \in I : i \in Int
    BY FS_Interval
  <2> QED  BY <2>1, FS_Subset, FS_CardinalityType
<1>2. ASSUME NEW i \in I PROVE IsFiniteSet(Upto(i)) /\ r[i] \in 1 .. c
  <2>1. Upto(i) \in SUBSET I /\ i \in Upto(i)
    OBVIOUS
  <2>2. IsFiniteSet(Upto(i)) /\ Cardinality(Upto(i)) <= c
    BY <1>1, <2>1, FS_Subset
  <2>3. Cardinality(Upto(i)) \in Nat /\ Cardinality(Upto(i)) # 0
    BY <2>1, <2>2, FS_CardinalityType, FS_EmptySet
  <2> QED  BY <1>1, <2>2, <2>3
<1>3. ASSUME NEW i \in I, NEW j \in I, i < j PROVE r[i] # r[j]
  <2>1. Upto(i) \in SUBSET Upto(j) /\ j \in Upto(j) /\ j \notin Upto(i)
    <3>1. i \in Int /\ j \in Int /\ j <= j /\ ~ (j <= i)
      BY <1>1, <1>3
    <3>2. ASSUME NEW x \in I, x <= i PROVE x <= j
      BY <1>1, <1>3, <3>1, <3>2
    <3> QED  BY <3>1, <3>2
  <2>2. Cardinality(Upto(i)) = Cardinality(Upto(j)) => Upto(i) = Upto(j)
    BY <1>2, <2>1, FS_Subset
  <2> QED  BY <2>1, <2>2
<1>4. r \in Injection(I, 1 .. c)
  <2>1. \A i, j \in I : r[i] = r[j] => i = j
    BY <1>3
  <2>2. r \in [I -> 1 .. c]
    BY <1>2
  <2> HIDE DEF r
  <2> QED  BY <2>1, <2>2 DEF Injection, IsInjective
<1>5. IsFiniteSet(1 .. c) /\ Cardinality(1 .. c) = c
  BY <1>1, FS_Interval
<1>6. r \in Surjection(I, 1 .. c)
  <2> HIDE DEF r
  <2> QED  BY <1>4, <1>5, FS_Injection
<1>7. \A m \in 1 .. c : \E i \in I : r[i] = m
  <2> HIDE DEF r
  <2> QED  BY <1>6 DEF Surjection
<1>8. ASSUME NEW m \in 1 .. c PROVE Nth(I, m) \in I /\ r[Nth(I, m)] = m
  <2>1. \E i \in I : Cardinality({j \in I : j <= i}) = m
    BY <1>7
  <2>2. Nth(I, m) \in I /\ Cardinality({j \in I : j <= Nth(I, m)}) = m
    BY <2>1 DEF Nth
  <2> QED  BY <2>2
<1>9. ASSUME NEW i \in I PROVE \E m \in 1 .. c : Nth(I, m) = i
  <2>1. r[i] \in 1 .. c
    BY <1>2
  <2>2. Nth(I, r[i]) \in I /\ r[Nth(I, r[i])] = r[i]
    BY <1>8, <2>1
  <2> HIDE DEF r
  <2>3. Nth(I, r[i]) = i
    BY <1>4, <2>2 DEF Injection, IsInjective
  <2> QED  BY <2>1, <2>3
<1>10. \A m, l \in 1 .. c : Nth(I, m) = Nth(I, l) => m = l
  BY <1>8
<1>11. ASSUME NEW m \in 1 .. c, NEW l \in 1 .. c, m < l PROVE Nth(I, m) < Nth(I, l)
  <2> DEFINE x == Nth(I, m)
             y == Nth(I, l)
  <2>1. x \in I /\ y \in I /\ r[x] = m /\ r[y] = l /\ x \in Int /\ y \in Int
    BY <1>1, <1>8
  <2>2. SUFFICES ASSUME y <= x PROVE FALSE
    BY <2>1
  <2>3. Upto(y) \in SUBSET Upto(x) /\ IsFiniteSet(Upto(x))
    <3>1. ASSUME NEW j \in I, j <= y PROVE j <= x
      BY <1>1, <2>1, <2>2, <3>1
    <3> QED  BY <1>2, <2>1, <3>1
  <2>4. Cardinality(Upto(y)) <= Cardinality(Upto(x))
    BY <2>3, FS_Subset
  <2>5. r[x] = Cardinality(Upto(x)) /\ r[y] = Cardinality(Upto(y))
    BY <2>1
  <2>6. m \in Int /\ l \in Int
    BY <1>1
  <2> QED  BY <1>11, <2>1, <2>4, <2>5, <2>6
<1> QED  BY <1>1, <1>8, <1>9, <1>10, <1>11

LEMMA KeptFacts ==
  ASSUME NEW S, NEW s \in Seq(S), NEW I \in SUBSET DOMAIN s
  PROVE  Kept(s, I) \in Seq(S) /\ Rearranged(Kept(s, I), s, I)
<1> DEFINE c == Cardinality(I)
           t == Kept(s, I)
           g == [m \in 1 .. c |-> Nth(I, m)]
<1>1. Len(s) \in Nat /\ I \in SUBSET (1 .. Len(s)) /\ \A i \in I : s[i] \in S
  BY LenProperties, ElementOfSeq
<1>2. /\ c \in Nat
      /\ \A m \in 1 .. c : Nth(I, m) \in I
      /\ \A m, l \in 1 .. c : Nth(I, m) = Nth(I, l) => m = l
      /\ \A i \in I : \E m \in 1 .. c : Nth(I, m) = i
  BY <1>1, Ranks
<1> HIDE DEF c
<1>3. t = [m \in 1 .. c |-> s[Nth(I, m)]]
  BY DEF Kept, c
<1>4. t \in Seq(S) /\ DOMAIN t = 1 .. c
  <2>1. \A m \in 1 .. c : s[Nth(I, m)] \in S
    BY <1>1, <1>2
  <2> QED  BY <1>2, <1>3, <2>1, IsASeq
<1>5. \A m \in 1 .. c : t[m] = s[g[m]]
  BY <1>3
<1>6. g \in [DOMAIN t -> I]
  BY <1>2, <1>4
<1>7. \A m \in 1 .. c : g[m] = Nth(I, m)
  OBVIOUS
<1> HIDE DEF t, g
<1>8. Rearranged(t, s, I)
  <2>1. \A m, l \in DOMAIN t : g[m] = g[l] => m = l
    BY <1>2, <1>4, <1>7
  <2>2. \A i \in I : \E m \in DOMAIN t : g[m] = i
    <3>1. \A i \in I : \E m \in 1 .. c : g[m] = i
      BY <1>2, <1>7
    <3> QED  BY <1>4, <3>1, Zenon
  <2>3. \A m \in DOMAIN t : t[m] = s[g[m]]
    BY <1>4, <1>5, Zenon
  <2> QED  BY <1>6, <2>1, <2>2, <2>3, Zenon DEF Rearranged
<1> QED  BY <1>4, <1>8 DEF t

\* The list new is a part of old, in the same order.
Sublist(new, old) ==
  \E g \in [DOMAIN new -> DOMAIN old] :
    /\ \A m, n \in DOMAIN new : m < n => g[m] < g[n]
    /\ \A m \in DOMAIN new : new[m] = old[g[m]]

LEMMA WithoutFacts ==
  ASSUME NEW S, NEW s \in Seq(S), NEW A
  PROVE  /\ Without(s, A) \in Seq(S) /\ ToSet(Without(s, A)) = ToSet(s) \ A
         /\ Sublist(Without(s, A), s)
<1> DEFINE I == {i \in DOMAIN s : s[i] \notin A}
           c == Cardinality(I)
           t == Kept(s, I)
           g == [m \in 1 .. c |-> Nth(I, m)]
<1>1. Len(s) \in Nat /\ DOMAIN s = 1 .. Len(s) /\ I \in SUBSET (1 .. Len(s))
  BY LenProperties
<1>2. /\ c \in Nat
      /\ \A m \in 1 .. c : Nth(I, m) \in I
      /\ \A i \in I : \E m \in 1 .. c : Nth(I, m) = i
      /\ \A m, l \in 1 .. c : m < l => Nth(I, m) < Nth(I, l)
  <2> HIDE DEF I
  <2> QED  BY <1>1, Ranks
<1>3. t \in Seq(S)
  <2>1. I \in SUBSET DOMAIN s
    OBVIOUS
  <2> HIDE DEF I
  <2> QED  BY <2>1, KeptFacts
<1>4. DOMAIN t = 1 .. c /\ \A m \in 1 .. c : t[m] = s[Nth(I, m)]
  BY DEF Kept
<1>5. \A i \in I : i \in DOMAIN s /\ s[i] \notin A
  OBVIOUS
<1>6. \A i \in DOMAIN s : s[i] \in A \/ i \in I
  OBVIOUS
<1> HIDE DEF I, c, t
<1>7. ToSet(t) = {t[m] : m \in 1 .. c} /\ ToSet(s) = {s[i] : i \in DOMAIN s}
  BY <1>1, <1>4 DEF ToSet
<1>8. ToSet(t) = ToSet(s) \ A
  <2>1. ASSUME NEW x \in ToSet(t) PROVE x \in ToSet(s) \ A
    <3>1. PICK m \in 1 .. c : x = s[Nth(I, m)]
      BY <1>4, <1>7
    <3> QED  BY <1>2, <1>5, <1>7, <3>1
  <2>2. ASSUME NEW x \in ToSet(s) \ A PROVE x \in ToSet(t)
    <3>1. PICK i \in DOMAIN s : x = s[i]
      BY <1>7
    <3>2. PICK m \in 1 .. c : Nth(I, m) = i
      BY <1>2, <1>6, <3>1
    <3> QED  BY <1>4, <1>7, <3>1, <3>2
  <2> QED  BY <2>1, <2>2
<1>9. Sublist(t, s)
  <2>1. /\ g \in [DOMAIN t -> DOMAIN s]
        /\ \A m \in 1 .. c : g[m] = Nth(I, m)
    BY <1>2, <1>4, <1>5
  <2> HIDE DEF g
  <2>2. \A m, n \in DOMAIN t : m < n => g[m] < g[n]
    BY <1>2, <1>4, <2>1
  <2>3. \A m \in DOMAIN t : t[m] = s[g[m]]
    BY <1>4, <2>1
  <2> QED  BY <2>1, <2>2, <2>3 DEF Sublist
<1>10. Without(s, A) = t
  BY DEF Without, t, I
<1> QED  BY <1>3, <1>8, <1>9, <1>10

-----------------------------------------------------------------------------
(* An entry put into a list.                                               *)

\* The entry a stands at position k of the list new, among those of old.
PutAt(new, old, k, a) ==
  /\ k \in 1 .. Len(old) + 1 /\ Len(new) = Len(old) + 1
  /\ \A i \in 1 .. Len(new) : new[i] = IF i < k THEN old[i] ELSE IF i = k THEN a ELSE old[i - 1]

\* Before another entry.
LEMMA Insertion ==
  ASSUME NEW S, NEW s \in Seq(S), NEW a \in S, NEW k \in 1 .. Len(s)
  PROVE  InsertAt(s, k, a) \in Seq(S) /\ PutAt(InsertAt(s, k, a), s, k, a)
<1> DEFINE p == SubSeq(s, 1, k - 1)
           q == SubSeq(s, k, Len(s))
<1>1. /\ p \in Seq(S) /\ Len(p) = k - 1 /\ \A i \in 1 .. k - 1 : p[i] = s[i]
      /\ Len(s) \in Nat
  BY SubSeqProperties
<1>2. /\ q \in Seq(S) /\ Len(q) = Len(s) - k + 1 /\ \A i \in 1 .. Len(s) - k + 1 : q[i] = s[k + i - 1]
  BY SubSeqProperties
<1> HIDE DEF p, q
<1>3. /\ p \o <<a>> \in Seq(S) /\ Len(p \o <<a>>) = k
      /\ \A i \in 1 .. k : (p \o <<a>>)[i] = IF i < k THEN s[i] ELSE a
  BY <1>1
<1> DEFINE r == p \o <<a>>
<1> HIDE DEF r
<1>4. r \in Seq(S) /\ Len(r) = k /\ \A i \in 1 .. k : r[i] = IF i < k THEN s[i] ELSE a
  BY <1>3 DEF r
<1>5. /\ r \o q \in Seq(S) /\ Len(r \o q) = Len(s) + 1
      /\ \A i \in 1 .. Len(s) + 1 : (r \o q)[i] = IF i <= k THEN r[i] ELSE q[i - k]
  <2>1. /\ r \o q \in Seq(S) /\ Len(r \o q) = Len(r) + Len(q)
        /\ \A i \in 1 .. Len(r) + Len(q) :
             (r \o q)[i] = IF i <= Len(r) THEN r[i] ELSE q[i - Len(r)]
    BY <1>2, <1>4, ConcatProperties
  <2>2. Len(r) = k /\ Len(r) + Len(q) = Len(s) + 1
    BY <1>1, <1>2, <1>4
  <2> QED
    BY <2>1, <2>2
<1>6. \A i \in 1 .. Len(s) + 1 : (r \o q)[i] = IF i < k THEN s[i] ELSE IF i = k THEN a ELSE s[i - 1]
  BY <1>1, <1>2, <1>4, <1>5
<1>7. InsertAt(s, k, a) = r \o q
  BY DEF InsertAt, p, q, r
<1>8. PutAt(r \o q, s, k, a)
  <2>1. Len(r \o q) = Len(s) + 1 /\ k \in 1 .. Len(s) + 1
    BY <1>1, <1>5
  <2> QED
    BY <1>6, <2>1 DEF PutAt
<1> QED
  BY <1>5, <1>7, <1>8

\* At the end.
LEMMA Appending ==
  ASSUME NEW S, NEW s \in Seq(S), NEW a \in S
  PROVE  Append(s, a) \in Seq(S) /\ PutAt(Append(s, a), s, Len(s) + 1, a)
BY DEF PutAt

\* The list gets no other entry.
LEMMA PutMembers ==
  ASSUME NEW S, NEW s \in Seq(S), NEW t \in Seq(S), NEW k, NEW a, PutAt(t, s, k, a)
  PROVE  ToSet(t) = ToSet(s) \cup {a}
<1>1. Len(s) \in Nat /\ DOMAIN s = 1 .. Len(s) /\ DOMAIN t = 1 .. Len(s) + 1
  BY LenProperties DEF PutAt
<1>2. k \in Nat /\ k \in 1 .. Len(s) + 1 
  BY <1>1 DEF PutAt
<1>3. ASSUME NEW x \in ToSet(t) PROVE x \in ToSet(s) \cup {a}
  <2>1. PICK i \in 1 .. Len(s) + 1 : x = t[i]
    BY <1>1 DEF ToSet
  <2>0. t[i] = IF i < k THEN s[i] ELSE IF i = k THEN a ELSE s[i - 1]
    BY <1>1 DEF PutAt
  <2>2. x = a \/ (x = s[i] /\ i \in 1 .. Len(s)) \/ (x = s[i - 1] /\ i - 1 \in 1 .. Len(s))
    BY <1>1, <1>2, <2>0, <2>1
  <2> QED
    BY <1>1, <2>2 DEF ToSet
<1>4. a \in ToSet(t)
  BY <1>1, <1>2 DEF ToSet, PutAt
<1>5. ASSUME NEW x \in ToSet(s) PROVE x \in ToSet(t)
  <2>1. PICK i \in 1 .. Len(s) : x = s[i]
    BY <1>1 DEF ToSet
  <2>2. CASE i < k
    <3>1. i \in 1 .. Len(s) + 1 /\ t[i] = x
      BY <1>1, <1>2, <2>1, <2>2 DEF PutAt
    <3> QED
      BY <1>1, <3>1 DEF ToSet
  <2>3. CASE ~ (i < k)
    <3>1. i + 1 \in 1 .. Len(s) + 1 /\ t[i + 1] = s[(i + 1) - 1] /\ (i + 1) - 1 = i
      BY <1>1, <1>2, <2>1, <2>3 DEF PutAt
    <3> QED
      BY <1>1, <2>1, <3>1 DEF ToSet
  <2> QED
    BY <2>2, <2>3
<1> QED
  BY <1>3, <1>4, <1>5

-----------------------------------------------------------------------------
(* Sums.                                                                   *)

\* The sizes of the members of A, as m tells them, summed.
SizeSum(m, A) == MapThenSumSet(LAMBDA a : m[a].size, A)

\* Some set of a collection of finite sets is a smallest.
LEMMA SmallestSet ==
  ASSUME NEW C, C # {}, \A s \in C : IsFiniteSet(s)
  PROVE  \E s \in C : \A t \in C : Cardinality(s) <= Cardinality(t)
<1> DEFINE N == {Cardinality(s) : s \in C}
<1>1. N \in SUBSET Nat /\ N # {}
  BY FS_CardinalityType
<1>2. PICK n \in N : \A k \in N : n <= k
  BY <1>1, LeastOf
<1> QED  BY <1>2

\* The element the sum takes next, and the others.
Taken(s) == CHOOSE x \in s : TRUE
Others(s) == s \ {Taken(s)}

LEMMA OthersFewer ==
  ASSUME NEW s, IsFiniteSet(s), s # {}
  PROVE  /\ Taken(s) \in s /\ IsFiniteSet(Others(s))
         /\ Cardinality(Others(s)) = Cardinality(s) - 1 /\ Cardinality(s) \in Nat
<1>1. Taken(s) \in s
  BY DEF Taken
<1> QED  BY <1>1, FS_RemoveElement, FS_CardinalityType DEF Others

\* f sums the sizes of each of the sets in D.
Sums(f, m, D) ==
  f = [s \in D |-> IF s = {} THEN 0 ELSE m[Taken(s)].size + f[Others(s)]]

LEMMA SumsValue ==
  ASSUME NEW f, NEW m, NEW D, Sums(f, m, D), NEW s \in D
  PROVE  f[s] = IF s = {} THEN 0 ELSE m[Taken(s)].size + f[Others(s)]
<1> DEFINE g == [t \in D |-> IF t = {} THEN 0 ELSE m[Taken(t)].size + f[Others(t)]]
<1>1. f = g
  BY DEF Sums
<1>2. g[s] = IF s = {} THEN 0 ELSE m[Taken(s)].size + f[Others(s)]
  OBVIOUS
<1> QED  BY <1>1, <1>2

SumsAll(f, m, S) == Sums(f, m, SUBSET S)

\* There is such a function for all the subsets of a finite set.
LEMMA SumsExist ==
  ASSUME NEW m, NEW S, IsFiniteSet(S)
  PROVE  \E f : SumsAll(f, m, S)
<1> DEFINE D(n) == {s \in SUBSET S : Cardinality(s) <= n}
           Bad == {n \in Nat : ~ \E f : Sums(f, m, D(n))}
<1>0. \A s \in SUBSET S : IsFiniteSet(s) /\ Cardinality(s) \in Nat /\ Cardinality(s) <= Cardinality(S)
  BY FS_Subset, FS_CardinalityType
<1>1. Bad = {}
  <2>1. SUFFICES ASSUME Bad # {} PROVE FALSE
    OBVIOUS
  <2>2. PICK n \in Bad : \A k \in Bad : n <= k
    BY <2>1, LeastOf
  <2>3. CASE n = 0
    <3> DEFINE f == [s \in D(n) |-> 0]
    <3>1. \A s \in D(n) : s = {}
      BY <1>0, <2>3, FS_EmptySet
    <3>2. f = [s \in D(n) |-> IF s = {} THEN 0 ELSE m[Taken(s)].size + f[Others(s)]]
      BY <3>1
    <3>3. Sums(f, m, D(n))
      BY <3>2 DEF Sums
    <3> QED  BY <2>2, <3>3
  <2>4. CASE n # 0
    <3>0. n \in Nat
      BY <2>2
    <3>1. n - 1 \in Nat /\ n - 1 \notin Bad
      <4>1. n - 1 \in Nat /\ ~ (n <= n - 1)
        BY <2>4, <3>0
      <4> HIDE DEF Bad
      <4> QED  BY <2>2, <4>1
    <3>2. PICK f : Sums(f, m, D(n - 1))
      BY <3>1
    <3> DEFINE g == [s \in D(n) |-> IF s = {} THEN 0 ELSE m[Taken(s)].size + f[Others(s)]]
    <3>3. ASSUME NEW s \in D(n), s # {}
          PROVE  g[Others(s)] = f[Others(s)]
      <4>1. Others(s) \in D(n - 1)
        <5>1. IsFiniteSet(s) /\ Cardinality(s) <= n
          BY <1>0
        <5>2. Others(s) \in SUBSET S
          BY DEF Others
        <5> QED  BY <2>2, <3>3, <5>1, <5>2, OthersFewer
      <4>2. Others(s) \in D(n)
        BY <1>0, <2>2, <4>1
      <4>3. g[Others(s)] = IF Others(s) = {} THEN 0
                           ELSE m[Taken(Others(s))].size + f[Others(Others(s))]
        BY <4>2
      <4> QED  BY <3>2, <4>1, <4>3, SumsValue
    <3>4. g = [s \in D(n) |-> IF s = {} THEN 0 ELSE m[Taken(s)].size + g[Others(s)]]
      <4> DEFINE e(s) == IF s = {} THEN 0 ELSE m[Taken(s)].size + f[Others(s)]
                 d(s) == IF s = {} THEN 0 ELSE m[Taken(s)].size + g[Others(s)]
      <4>1. \A s \in D(n) : e(s) = d(s)
        BY <3>3
      <4>2. [s \in D(n) |-> e(s)] = [s \in D(n) |-> d(s)]
        BY <4>1
      <4> QED  BY <4>2
    <3>5. Sums(g, m, D(n))
      BY <3>4, Zenon DEF Sums
    <3> QED  BY <2>2, <3>5, Zenon
  <2> QED  BY <2>3, <2>4
<1>2. D(Cardinality(S)) = SUBSET S
  BY <1>0
<1>3. Cardinality(S) \in Nat
  BY FS_CardinalityType
<1>4. \E f : Sums(f, m, D(Cardinality(S)))
  BY <1>1, <1>3
<1> QED  BY <1>2, <1>4 DEF SumsAll

\* The members of A have the same sizes for m and for n.
SameSizes(m, n, A) == \A a \in A : m[a].size = n[a].size

\* Two of them agree on the sets whose members have the same sizes for both.
LEMMA SumsAgree ==
  ASSUME NEW m, NEW n, NEW S, NEW T, IsFiniteSet(S), IsFiniteSet(T),
         NEW f, SumsAll(f, m, S), NEW g, SumsAll(g, n, T),
         NEW A \in SUBSET S, A \in SUBSET T, SameSizes(m, n, A)
  PROVE  f[A] = g[A]
<1> DEFINE Bad == {s \in SUBSET A : f[s] # g[s]}
<1>1. SUFFICES ASSUME Bad # {} PROVE FALSE
  OBVIOUS
<1>2. \A s \in SUBSET A : IsFiniteSet(s)
  BY FS_Subset
<1>3. PICK s \in Bad : \A t \in Bad : Cardinality(s) <= Cardinality(t)
  BY <1>1, <1>2, SmallestSet
<1>4. /\ f[s] = IF s = {} THEN 0 ELSE m[Taken(s)].size + f[Others(s)]
      /\ g[s] = IF s = {} THEN 0 ELSE n[Taken(s)].size + g[Others(s)]
  <2>1. s \in SUBSET S /\ s \in SUBSET T
    OBVIOUS
  <2> QED  BY <2>1, SumsValue DEF SumsAll
<1>5. s # {}
  BY <1>3, <1>4
<1>6. /\ Taken(s) \in A /\ Cardinality(Others(s)) = Cardinality(s) - 1
      /\ Cardinality(s) \in Nat /\ Others(s) \in SUBSET A
  <2>1. IsFiniteSet(s)
    BY <1>2
  <2> QED  BY <1>5, <2>1, OthersFewer DEF Others
<1>7. f[Others(s)] = g[Others(s)]
  BY <1>3, <1>6
<1> QED  BY <1>3, <1>4, <1>6, <1>7 DEF SameSizes

LEMMA SizeSumIs ==
  ASSUME NEW m, NEW S, IsFiniteSet(S)
  PROVE  \E f : SumsAll(f, m, S) /\ SizeSum(m, S) = f[S]
<1> DEFINE F == CHOOSE f : SumsAll(f, m, S)
<1>1. SumsAll(F, m, S)
  BY SumsExist
<1>2. SizeSum(m, S) = F[S]
  BY DEF SizeSum, MapThenSumSet, MapThenFoldSet, SumsAll, Sums, Taken, Others
<1> QED  BY <1>1, <1>2

-----------------------------------------------------------------------------
(* The laws of sums.                                                       *)

\* Only the sizes of the members matter.
LEMMA SumSame ==
  ASSUME NEW m, NEW n, NEW A, IsFiniteSet(A), SameSizes(m, n, A)
  PROVE  SizeSum(m, A) = SizeSum(n, A)
<1>1. PICK f : SumsAll(f, m, A) /\ SizeSum(m, A) = f[A]
  BY SizeSumIs
<1>2. PICK g : SumsAll(g, n, A) /\ SizeSum(n, A) = g[A]
  BY SizeSumIs
<1>3. A \in SUBSET A /\ IsFiniteSet(A) /\ SumsAll(f, m, A) /\ SumsAll(g, n, A)
  BY <1>1, <1>2
<1>4. f[A] = g[A]
  BY <1>3, SumsAgree
<1> QED  BY <1>1, <1>2, <1>4

LEMMA SumEmpty ==
  ASSUME NEW m
  PROVE  SizeSum(m, {}) = 0
<1>1. IsFiniteSet({})
  BY FS_EmptySet
<1>2. PICK f : SumsAll(f, m, {}) /\ SizeSum(m, {}) = f[{}]
  BY <1>1, SizeSumIs
<1> QED  BY <1>2, SumsValue DEF SumsAll

LEMMA SumTakes ==
  ASSUME NEW m, NEW A, IsFiniteSet(A), A # {}
  PROVE  SizeSum(m, A) = m[Taken(A)].size + SizeSum(m, Others(A))
<1>1. PICK f : SumsAll(f, m, A) /\ SizeSum(m, A) = f[A]
  BY SizeSumIs
<1>2. IsFiniteSet(Others(A)) /\ Others(A) \in SUBSET A
  BY OthersFewer DEF Others
<1>3. PICK g : SumsAll(g, m, Others(A)) /\ SizeSum(m, Others(A)) = g[Others(A)]
  BY <1>2, SizeSumIs
<1>4. f[A] = m[Taken(A)].size + f[Others(A)]
  BY <1>1, SumsValue DEF SumsAll
<1>5. Others(A) \in SUBSET Others(A) /\ SameSizes(m, m, Others(A))
  BY DEF SameSizes
<1>6. f[Others(A)] = g[Others(A)]
  BY <1>1, <1>2, <1>3, <1>5, SumsAgree
<1> QED  BY <1>1, <1>3, <1>4, <1>6

\* Sizes are numbers, and so are their sums.
LEMMA SumType ==
  ASSUME NEW m, NEW A, IsFiniteSet(A), \A a \in A : m[a].size \in Nat
  PROVE  SizeSum(m, A) \in Nat
<1> DEFINE Bad == {s \in SUBSET A : SizeSum(m, s) \notin Nat}
<1>1. SUFFICES ASSUME Bad # {} PROVE FALSE
  OBVIOUS
<1>2. \A s \in SUBSET A : IsFiniteSet(s)
  BY FS_Subset
<1>3. PICK s \in Bad : \A t \in Bad : Cardinality(s) <= Cardinality(t)
  BY <1>1, <1>2, SmallestSet
<1>4. s # {}
  BY <1>3, SumEmpty
<1>5. /\ Taken(s) \in A /\ Others(s) \in SUBSET A
      /\ Cardinality(Others(s)) = Cardinality(s) - 1 /\ Cardinality(s) \in Nat
  <2>1. IsFiniteSet(s)
    BY <1>2
  <2> QED  BY <1>4, <2>1, OthersFewer DEF Others
<1>6. SizeSum(m, Others(s)) \in Nat
  BY <1>3, <1>5
<1>7. SizeSum(m, s) = m[Taken(s)].size + SizeSum(m, Others(s))
  BY <1>2, <1>4, SumTakes
<1> QED  BY <1>3, <1>5, <1>6, <1>7

\* Any member may be taken first.
LEMMA SumSplit ==
  ASSUME NEW m, NEW A, IsFiniteSet(A), \A a \in A : m[a].size \in Nat, NEW x \in A
  PROVE  SizeSum(m, A) = m[x].size + SizeSum(m, A \ {x})
<1> DEFINE Takes(s, y) == SizeSum(m, s) = m[y].size + SizeSum(m, s \ {y})
           Bad == {s \in SUBSET A : \E y \in s : ~ Takes(s, y)}
<1>1. SUFFICES ASSUME Bad # {} PROVE FALSE
  OBVIOUS
<1>2. \A s \in SUBSET A : IsFiniteSet(s) /\ SizeSum(m, s) \in Nat
  <2>1. \A s \in SUBSET A : IsFiniteSet(s)
    BY FS_Subset
  <2> QED  BY <2>1, SumType
<1>3. PICK s \in Bad : \A t \in Bad : Cardinality(s) <= Cardinality(t)
  <2> HIDE DEF Bad
  <2>1. \A t \in Bad : IsFiniteSet(t)
    BY <1>2 DEF Bad
  <2> QED  BY <1>1, <2>1, SmallestSet
<1>4. PICK y \in s : ~ Takes(s, y)
  BY <1>3
<1> DEFINE c == Taken(s)
<1>5. /\ c \in s /\ Others(s) = s \ {c} /\ Cardinality(s) \in Nat
      /\ Cardinality(s \ {c}) = Cardinality(s) - 1
      /\ Cardinality(s \ {y}) = Cardinality(s) - 1
  <2>1. IsFiniteSet(s) /\ s # {}
    BY <1>2
  <2> QED  BY <2>1, OthersFewer, FS_RemoveElement DEF Others
<1>6. Takes(s, c)
  BY <1>2, <1>5, SumTakes
<1>7. c # y
  BY <1>4, <1>6
<1> HIDE DEF c
<1>8. s \ {c} \notin Bad /\ s \ {y} \notin Bad /\ s \in SUBSET A
  BY <1>3, <1>5
<1>9. Takes(s \ {c}, y)
  BY <1>7, <1>8
<1>10. Takes(s \ {y}, c)
  BY <1>5, <1>7, <1>8
<1>11. (s \ {y}) \ {c} = (s \ {c}) \ {y}
  OBVIOUS
<1>12. m[c].size \in Nat /\ m[y].size \in Nat /\ SizeSum(m, (s \ {c}) \ {y}) \in Nat
  <2>1. (s \ {c}) \ {y} \in SUBSET A
    BY <1>8
  <2> QED  BY <1>2, <1>5, <1>8, <2>1
<1>13. /\ SizeSum(m, s) = m[c].size + SizeSum(m, s \ {c})
       /\ SizeSum(m, s \ {c}) = m[y].size + SizeSum(m, (s \ {c}) \ {y})
       /\ SizeSum(m, s \ {y}) = m[c].size + SizeSum(m, (s \ {c}) \ {y})
  BY <1>6, <1>9, <1>10, <1>11
<1>14. SizeSum(m, s) = m[y].size + SizeSum(m, s \ {y})
  BY <1>12, <1>13
<1> QED  BY <1>4, <1>14

\* A sum is that of a part and that of the rest.
LEMMA SumParts ==
  ASSUME NEW m, NEW A, IsFiniteSet(A), \A a \in A : m[a].size \in Nat, NEW P \in SUBSET A
  PROVE  SizeSum(m, A) = SizeSum(m, P) + SizeSum(m, A \ P)
<1> DEFINE Adds(s) == SizeSum(m, A) = SizeSum(m, s) + SizeSum(m, A \ s)
           Bad == {s \in SUBSET A : ~ Adds(s)}
<1>1. SUFFICES ASSUME Bad # {} PROVE FALSE
  OBVIOUS
<1>2. \A s \in SUBSET A : IsFiniteSet(s) /\ SizeSum(m, s) \in Nat
  <2>1. \A s \in SUBSET A : IsFiniteSet(s)
    BY FS_Subset
  <2> QED  BY <2>1, SumType
<1>3. PICK s \in Bad : \A t \in Bad : Cardinality(s) <= Cardinality(t)
  <2> HIDE DEF Bad
  <2>1. \A t \in Bad : IsFiniteSet(t)
    BY <1>2 DEF Bad
  <2> QED  BY <1>1, <2>1, SmallestSet
<1>4. s # {}
  <2>1. SUFFICES ASSUME s = {} PROVE Adds(s)
    BY <1>3
  <2>2. A \ s = A /\ SizeSum(m, s) = 0
    BY <2>1, SumEmpty
  <2>3. SizeSum(m, A) \in Nat
    BY <1>2
  <2>4. SizeSum(m, A) = 0 + SizeSum(m, A)
    BY <2>3
  <2>5. SizeSum(m, A \ s) = SizeSum(m, A)
    BY <2>2
  <2> HIDE DEF Bad
  <2> QED  BY <2>2, <2>4, <2>5
<1>5. PICK x \in s : TRUE
  BY <1>4
<1> DEFINE r == s \ {x}
<1>6. Adds(r)
  <2>1. IsFiniteSet(s) /\ r \in SUBSET A
    BY <1>2, <1>3
  <2>2. Cardinality(r) = Cardinality(s) - 1 /\ Cardinality(s) \in Nat
    BY <1>5, <2>1, FS_RemoveElement, FS_CardinalityType
  <2> QED  BY <1>3, <2>1, <2>2
<1>7. SizeSum(m, s) = m[x].size + SizeSum(m, r)
  BY <1>2, <1>3, <1>5, SumSplit
<1>8. SizeSum(m, A \ r) = m[x].size + SizeSum(m, A \ s)
  <2>1. A \ r \in SUBSET A /\ x \in A \ r /\ (A \ r) \ {x} = A \ s
    BY <1>3, <1>5
  <2>2. IsFiniteSet(A \ r) /\ \A a \in A \ r : m[a].size \in Nat
    BY <1>2
  <2>3. SizeSum(m, A \ r) = m[x].size + SizeSum(m, (A \ r) \ {x})
    BY <2>1, <2>2, SumSplit
  <2> QED  BY <2>1, <2>3
<1>9. m[x].size \in Nat /\ SizeSum(m, r) \in Nat /\ SizeSum(m, A \ s) \in Nat
  BY <1>2, <1>3, <1>5
<1>10. Adds(s)
  <2> HIDE DEF r
  <2> QED  BY <1>6, <1>7, <1>8, <1>9
<1> QED  BY <1>3, <1>10

\* The sum of one size.
LEMMA SumOne ==
  ASSUME NEW m, NEW x, m[x].size \in Nat
  PROVE  SizeSum(m, {x}) = m[x].size
<1>1. IsFiniteSet({x}) /\ {x} \ {x} = {}
  BY FS_Singleton
<1>2. SizeSum(m, {x}) = m[x].size + SizeSum(m, {x} \ {x})
  BY <1>1, SumSplit
<1>3. SizeSum(m, {x} \ {x}) = 0
  BY <1>1, SumEmpty
<1> QED  BY <1>2, <1>3

\* The members in P give way to those in N.
Exchanged(m, m2, A, P, N, B) ==
  /\ IsFiniteSet(A) /\ IsFiniteSet(N) /\ P \subseteq A /\ N \cap (A \ P) = {} /\ B = (A \ P) \cup N
  /\ \A a \in A : m[a].size \in Nat
  /\ \A a \in N : m2[a].size \in Nat
  /\ SameSizes(m, m2, A \ P)

LEMMA Exchange ==
  ASSUME NEW m, NEW m2, NEW A, NEW P, NEW N, NEW B, Exchanged(m, m2, A, P, N, B)
  PROVE  /\ IsFiniteSet(B) /\ Cardinality(B) \in Nat /\ SizeSum(m2, B) \in Nat
         /\ Cardinality(A) \in Nat /\ SizeSum(m, A) \in Nat
         /\ Cardinality(P) \in Nat /\ SizeSum(m, P) \in Nat
         /\ Cardinality(N) \in Nat /\ SizeSum(m2, N) \in Nat
         /\ Cardinality(B) = Cardinality(A) - Cardinality(P) + Cardinality(N)
         /\ SizeSum(m2, B) = SizeSum(m, A) - SizeSum(m, P) + SizeSum(m2, N)
<1> USE DEF Exchanged
<1>1. IsFiniteSet(P) /\ IsFiniteSet(A \ P) /\ IsFiniteSet(B)
  <2>1. P \in SUBSET A /\ A \ P \in SUBSET A
    OBVIOUS
  <2>2. IsFiniteSet(P) /\ IsFiniteSet(A \ P)
    BY <2>1, FS_Subset
  <2> QED
    BY <2>2, FS_Union
<1>2. /\ Cardinality(A) \in Nat /\ Cardinality(P) \in Nat /\ Cardinality(A \ P) \in Nat
      /\ Cardinality(N) \in Nat /\ Cardinality(B) \in Nat
  BY <1>1, FS_CardinalityType
<1>3. Cardinality(A) = Cardinality(P) + Cardinality(A \ P)
  <2>1. A = P \cup (A \ P) /\ P \cap (A \ P) = {}
    OBVIOUS
  <2>2. Cardinality(P \cup (A \ P)) =
          Cardinality(P) + Cardinality(A \ P) - Cardinality(P \cap (A \ P))
    BY <1>1, FS_Union
  <2>3. Cardinality(P \cap (A \ P)) = 0
    BY <2>1, FS_EmptySet
  <2>4. Cardinality(P \cup (A \ P)) = Cardinality(A)
    BY <2>1
  <2> HIDE DEF Exchanged
  <2> QED
    BY <1>2, <2>2, <2>3, <2>4
<1>4. Cardinality(B) = Cardinality(A \ P) + Cardinality(N)
  <2>1. (A \ P) \cap N = {}
    OBVIOUS
  <2>2. Cardinality((A \ P) \cup N) =
          Cardinality(A \ P) + Cardinality(N) - Cardinality((A \ P) \cap N)
    BY <1>1, FS_Union
  <2>3. Cardinality((A \ P) \cap N) = 0
    BY <2>1, FS_EmptySet
  <2>4. Cardinality((A \ P) \cup N) = Cardinality(B)
    OBVIOUS
  <2> HIDE DEF Exchanged
  <2> QED
    BY <1>2, <2>2, <2>3, <2>4
<1>5. \A b \in B : m2[b].size \in Nat
  BY DEF SameSizes
<1>6. SizeSum(m, A) = SizeSum(m, P) + SizeSum(m, A \ P)
  BY SumParts
<1>7. SizeSum(m2, B) = SizeSum(m2, A \ P) + SizeSum(m2, N)
  <2>1. A \ P \in SUBSET B /\ B \ (A \ P) = N
    OBVIOUS
  <2>2. SizeSum(m2, B) = SizeSum(m2, A \ P) + SizeSum(m2, B \ (A \ P))
    BY <1>1, <1>5, <2>1, SumParts
  <2> QED
    BY <2>1, <2>2
<1>8. SizeSum(m, A \ P) = SizeSum(m2, A \ P)
  BY <1>1, SumSame
<1>9. /\ SizeSum(m, A) \in Nat /\ SizeSum(m, P) \in Nat /\ SizeSum(m, A \ P) \in Nat
      /\ SizeSum(m2, N) \in Nat /\ SizeSum(m2, B) \in Nat
  <2>1. /\ \A a \in P : m[a].size \in Nat
        /\ \A a \in A \ P : m[a].size \in Nat
    OBVIOUS
  <2> QED
    BY <1>1, <1>5, <2>1, SumType
<1>10. Cardinality(B) = Cardinality(A) - Cardinality(P) + Cardinality(N)
  BY <1>2, <1>3, <1>4
<1>11. SizeSum(m2, B) = SizeSum(m, A) - SizeSum(m, P) + SizeSum(m2, N)
  BY <1>6, <1>7, <1>8, <1>9
<1> QED
  BY <1>1, <1>2, <1>9, <1>10, <1>11

\* Two different members.
LEMMA PairCount ==
  ASSUME NEW a, NEW b, a # b
  PROVE  IsFiniteSet({a, b}) /\ Cardinality({a, b}) = 2
<1> DEFINE S == {a}
<1>1. IsFiniteSet(S) /\ Cardinality(S) = 1 /\ b \notin S /\ {a, b} = S \cup {b}
  BY FS_Singleton
<1> HIDE DEF S
<1>2. IsFiniteSet(S \cup {b}) /\ Cardinality(S \cup {b}) = Cardinality(S) + 1
  BY <1>1, FS_AddElement
<1>3. Cardinality(S \cup {b}) = 2
  BY <1>1, <1>2
<1> QED
  BY <1>1, <1>2, <1>3

-----------------------------------------------------------------------------
(* Remainders.                                                             *)

\* A number whose remainder is 0 is a multiple, and the other way round.
LEMMA Multiple ==
  ASSUME NEW w \in Nat, w > 0, NEW d \in Int, d % w = 0
  PROVE  \E k \in Int : d = k * w
<1> DEFINE q == d \div w
<1>1. q \in Int /\ d = w * q + (d % w)
  OBVIOUS
<1> HIDE DEF q
<1>2. d = q * w
  BY <1>1
<1> QED
  BY <1>1, <1>2

LEMMA MultipleOf ==
  ASSUME NEW w \in Nat, w > 0, NEW k \in Int
  PROVE  (k * w) % w = 0
OBVIOUS

LEMMA AddMultiples ==
  ASSUME NEW w \in Nat, w > 0, NEW d \in Int, NEW e \in Int, d % w = 0, e % w = 0
  PROVE  (d + e) % w = 0
<1>1. PICK k \in Int : d = k * w
  BY Multiple
<1>2. PICK j \in Int : e = j * w
  BY Multiple
<1>3. d + e = (k + j) * w /\ k + j \in Int
  BY <1>1, <1>2
<1>4. ((k + j) * w) % w = 0
  BY <1>3, MultipleOf
<1> QED
  BY <1>3, <1>4

LEMMA SubtractMultiples ==
  ASSUME NEW w \in Nat, w > 0, NEW d \in Int, NEW e \in Int, d % w = 0, e % w = 0
  PROVE  (d - e) % w = 0
<1>1. PICK k \in Int : d = k * w
  BY Multiple
<1>2. PICK j \in Int : e = j * w
  BY Multiple
<1>3. d - e = (k - j) * w /\ k - j \in Int
  BY <1>1, <1>2
<1>4. ((k - j) * w) % w = 0
  BY <1>3, MultipleOf
<1> QED
  BY <1>3, <1>4

\* The next multiple is w away.
LEMMA NextMultiple ==
  ASSUME NEW w \in Nat, w > 0, NEW d \in Int, NEW e \in Int, d % w = 0, e % w = 0, d < e
  PROVE  d + w <= e
<1>1. PICK k \in Int : d = k * w
  BY Multiple
<1>2. PICK j \in Int : e = j * w
  BY Multiple
<1>3. ~ j <= k
  <2>1. SUFFICES ASSUME j <= k PROVE FALSE
    OBVIOUS
  <2>2. k - j \in Nat
    BY <2>1
  <2>3. (k - j) * w >= 0
    BY <2>2
  <2>4. (k - j) * w = d - e
    BY <1>1, <1>2
  <2> QED
    BY <2>3, <2>4
<1>4. j - k - 1 \in Nat
  BY <1>3
<1>5. (j - k - 1) * w >= 0
  BY <1>4
<1>6. (j - k - 1) * w = e - d - w
  BY <1>1, <1>2
<1> QED
  BY <1>5, <1>6

\* A number rounded up.
LEMMA RoundUp ==
  ASSUME NEW w \in Nat, w > 0, NEW d \in Int
  PROVE  /\ (d + (w - (d % w))) % w = 0
         /\ d % w \in Nat /\ d % w < w
<1> DEFINE q == d \div w
           r == d % w
<1>1. q \in Int /\ r \in 0 .. w - 1 /\ d = w * q + r
  OBVIOUS
<1>2. d + (w - r) = (q + 1) * w
  <2> HIDE DEF q, r
  <2> QED
    BY <1>1
<1>3. ((q + 1) * w) % w = 0
  <2> HIDE DEF q, r
  <2>1. q + 1 \in Int
    BY <1>1
  <2> QED
    BY <2>1, MultipleOf
<1> QED
  BY <1>1, <1>2, <1>3

\* A number that is below w, and one that wraps.
LEMMA Wrapped ==
  ASSUME NEW w \in Nat, w > 0, NEW d \in Int, -w <= d, d < w
  PROVE  d % w = IF d < 0 THEN d + w ELSE d
<1>1. CASE d < 0
  BY <1>1
<1>2. CASE ~ d < 0
  BY <1>2
<1> QED
  BY <1>1, <1>2
=============================================================================
