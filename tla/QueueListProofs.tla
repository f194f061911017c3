--------------------------- MODULE QueueListProofs ---------------------------
(***************************************************************************)
(* The linked lists of queue.c are sound and do what the sequences of      *)
(* ConnQueues do, for any set of queues, any descriptors and any finite    *)
(* set of addresses.  The invariant exhibits, for each queue, the sequence *)
(* of its nodes; following the links from the head finds just these.       *)
(***************************************************************************)
EXTENDS QueueList, SequenceTheorems, FiniteSetTheorems, WellFoundedInduction, TLAPS

-----------------------------------------------------------------------------
(* Following the links.                                                    *)

\* The nodes of a list from address a on: c is a sequence of allocated addresses,
\* each linked to the next and the last to nothing.
Linked(a, c) ==
  /\ c \in Seq(Allocated)
  /\ a = IF c = <<>> THEN NULL ELSE c[1]
  /\ \A i \in 1 .. Len(c) : node[c[i]].next = IF i < Len(c) THEN c[i + 1] ELSE NULL

\* The least number of a set.
LEMMA LeastOf ==
  ASSUME NEW S \in SUBSET Nat, S # {}
  PROVE  \E n \in S : \A k \in S : n <= k
<1>1. \E n \in S : \A k \in S : ~ (<<k, n>> \in OpToRel(<, Nat))
  BY NatLessThanWellFounded, WFMin, Zenon
<1>2. PICK n \in S : \A k \in S : ~ (<<k, n>> \in OpToRel(<, Nat))
  BY <1>1
<1>3. \A k \in S : ~ (k < n)
  BY <1>2 DEF OpToRel
<1> QED  BY <1>3

\* The recursion of Follow, as an equation for f.
Steps(f, a, n) ==
  f = [k \in 0 .. n |-> IF k = 0 THEN a
                        ELSE IF f[k - 1] \in Allocated THEN node[f[k - 1]].next ELSE NULL]

LEMMA FollowByEquation ==
  ASSUME NEW a, NEW n
  PROVE  Follow(a, n) = (CHOOSE f : Steps(f, a, n))[n]
BY Zenon DEF Follow, Steps

LEMMA FollowReaches ==
  ASSUME NEW a, NEW c, Linked(a, c), NEW n \in 0 .. Len(c)
  PROVE  Follow(a, n) = IF n < Len(c) THEN c[n + 1] ELSE NULL
<1> DEFINE g == [k \in 0 .. n |-> IF k < Len(c) THEN c[k + 1] ELSE NULL]
           f == CHOOSE h : Steps(h, a, n)
<1>1. Len(c) \in Nat /\ DOMAIN c = 1 .. Len(c) /\ \A i \in 1 .. Len(c) : c[i] \in Allocated
  BY DEF Linked
<1>2. ASSUME NEW k \in 0 .. n
      PROVE  g[k] = IF k = 0 THEN a
                    ELSE IF g[k - 1] \in Allocated THEN node[g[k - 1]].next ELSE NULL
  <2>1. CASE k = 0
    <3>1. g[0] = IF 0 < Len(c) THEN c[1] ELSE NULL
      BY <1>2, <2>1
    <3>2. c = <<>> <=> Len(c) = 0
      BY DEF Linked
    <3> QED  BY <1>1, <2>1, <3>1, <3>2 DEF Linked
  <2>2. CASE k # 0
    <3>1. k \in 1 .. Len(c) /\ k - 1 \in 0 .. n /\ k - 1 < Len(c)
      BY <1>1, <2>2
    <3>2. g[k - 1] = c[k]
      BY <3>1
    <3>3. node[c[k]].next = IF k < Len(c) THEN c[k + 1] ELSE NULL
      BY <3>1 DEF Linked
    <3>4. g[k] = IF k < Len(c) THEN c[k + 1] ELSE NULL
      OBVIOUS
    <3> QED  BY <1>1, <2>2, <3>1, <3>2, <3>3, <3>4
  <2> QED  BY <2>1, <2>2
<1>3. Steps(g, a, n)
  <2>1. g = [k \in 0 .. n |-> g[k]]
    OBVIOUS
  <2> HIDE DEF g
  <2> QED  BY <1>2, <2>1 DEF Steps
<1>4. Steps(f, a, n)
  BY <1>3
<1> HIDE DEF f
<1>5. \A k \in 0 .. n :
        f[k] = IF k = 0 THEN a ELSE IF f[k - 1] \in Allocated THEN node[f[k - 1]].next ELSE NULL
  BY <1>4 DEF Steps
<1> DEFINE B == {k \in 0 .. n : f[k] # g[k]}
<1>6. B = {}
  <2>1. SUFFICES ASSUME B # {} PROVE FALSE
    OBVIOUS
  <2>2. B \in SUBSET Nat
    BY <1>1
  <2>3. PICK m \in B : \A k \in B : m <= k
    BY <2>1, <2>2, LeastOf
  <2>4. m \in 0 .. n /\ f[m] # g[m]
    OBVIOUS
  <2> HIDE DEF g
  <2>5. m # 0
    BY <1>2, <1>5, <2>4
  <2>6. m - 1 \in 0 .. n /\ m - 1 \notin B
    BY <2>3, <2>4, <2>5
  <2>7. f[m - 1] = g[m - 1]
    BY <2>6
  <2> QED  BY <1>2, <1>5, <2>4, <2>7
<1>7. f[n] = g[n]
  <2>1. n \in 0 .. n
    BY <1>1
  <2> HIDE DEF g
  <2> QED  BY <1>6, <2>1
<1> QED  BY <1>1, <1>7, FollowByEquation DEF f

-----------------------------------------------------------------------------
(* The inductive invariant: the nodes of each queue, in their order.       *)

\* The addresses c are the nodes of queue q.
Holds(q, c) ==
  /\ Linked(queue[q].head, c)
  /\ queue[q].size = Len(c)
  /\ queue[q].tail = IF c = <<>> THEN NULL ELSE c[Len(c)]

Positions(ch) == {p \in Queues \X Nat : p[2] \in 1 .. Len(ch[p[1]])}
Place(ch, p) == ch[p[1]][p[2]]

\* ch gives the nodes of every queue: each allocated address has one place in one.
Chained(ch) ==
  /\ ch \in [Queues -> Seq(Address)]
  /\ \A q \in Queues : Holds(q, ch[q])
  /\ \A p, r \in Positions(ch) : Place(ch, p) = Place(ch, r) => p = r
  /\ \A a \in Allocated : \E p \in Positions(ch) : Place(ch, p) = a

Struct == [head : Address \cup {NULL}, tail : Address \cup {NULL}, size : Nat]
Node == [data : Data, next : Address \cup {NULL}]
Types ==
  /\ queue \in [Queues -> Struct]
  /\ Allocated \subseteq Address
  /\ node \in [Allocated -> Node]

ListInv == Types /\ \E ch : Chained(ch)

LEMMA ChainFacts ==
  ASSUME NEW ch, Chained(ch), NEW q \in Queues
  PROVE  /\ Chain(q) = ch[q]
         /\ Follow(queue[q].head, queue[q].size) = NULL
         /\ queue[q].tail = IF queue[q].size = 0 THEN NULL
                            ELSE Follow(queue[q].head, queue[q].size - 1)
         /\ \A i \in 1 .. queue[q].size : Chain(q)[i] \in Allocated
<1> DEFINE c == ch[q]
           h == queue[q].head
           n == queue[q].size
<1>1. /\ Linked(h, c) /\ n = Len(c) /\ queue[q].tail = IF c = <<>> THEN NULL ELSE c[Len(c)]
      /\ c \in Seq(Address)
  BY DEF Chained, Holds
<1> HIDE DEF c, h, n
<1>2. n \in Nat /\ DOMAIN c = 1 .. n /\ c = [i \in 1 .. n |-> c[i]] /\ (c = <<>> <=> n = 0)
  BY <1>1
<1>3. \A i \in 1 .. n : c[i] \in Allocated
  BY <1>1, <1>2 DEF Linked
<1>4. \A k \in 0 .. n : Follow(h, k) = IF k < n THEN c[k + 1] ELSE NULL
  BY <1>1, FollowReaches
<1>5. \A i \in 1 .. n : Follow(h, i - 1) = c[i]
  <2>1. SUFFICES ASSUME NEW i \in 1 .. n PROVE Follow(h, i - 1) = c[i]
    OBVIOUS
  <2>2. i - 1 \in 0 .. n /\ i - 1 < n /\ (i - 1) + 1 = i
    BY <1>2
  <2>3. Follow(h, i - 1) = c[(i - 1) + 1]
    BY <1>4, <2>2
  <2> QED  BY <2>2, <2>3
<1>6. Chain(q) = c
  <2>1. Chain(q) = [i \in 1 .. n |-> Follow(h, i - 1)]
    BY DEF Chain, h, n
  <2> QED  BY <1>2, <1>5, <2>1
<1>7. Follow(h, n) = NULL
  <2>1. n \in 0 .. n /\ ~ (n < n)
    BY <1>2
  <2> QED  BY <1>4, <2>1
<1>8. queue[q].tail = IF n = 0 THEN NULL ELSE Follow(h, n - 1)
  <2>1. n # 0 => n \in 1 .. n
    BY <1>2
  <2> QED  BY <1>1, <1>2, <1>5, <2>1
<1> QED  BY <1>3, <1>6, <1>7, <1>8 DEF c, h, n

LEMMA InitChained == Init => ListInv
<1> SUFFICES ASSUME Init PROVE ListInv
  OBVIOUS
<1> DEFINE ch == [q \in Queues |-> <<>>]
<1>1. /\ queue = [q \in Queues |-> [head |-> NULL, tail |-> NULL, size |-> 0]]
      /\ Allocated = {} /\ DOMAIN node = {} /\ node = << >>
  BY DEF Init, Allocated
<1>2. Types
  <2>1. node \in [Allocated -> Node]
    <3>1. node = [a \in {} |-> a]
      BY <1>1
    <3> QED  BY <1>1, <3>1
  <2> QED  BY <1>1, <2>1 DEF Types, Struct
<1>3. ch \in [Queues -> Seq(Address)] /\ \A q \in Queues : ch[q] = <<>> /\ Len(ch[q]) = 0
  OBVIOUS
<1> HIDE DEF ch
<1>4. \A q \in Queues : Holds(q, ch[q])
  BY <1>1, <1>3 DEF Holds, Linked
<1>5. Positions(ch) = {}
  BY <1>3 DEF Positions
<1>6. Chained(ch)
  BY <1>1, <1>3, <1>4, <1>5 DEF Chained
<1> QED  BY <1>2, <1>6 DEF ListInv

\* A list has no more nodes than there are addresses.
LEMMA ChainIsShort ==
  ASSUME NEW ch, Chained(ch), NEW q \in Queues
  PROVE  Len(ch[q]) \in Nat /\ Cardinality(Address) \in Nat /\ Len(ch[q]) <= Cardinality(Address)
<1> DEFINE n == Len(ch[q])
           I == 1 .. n
<1>1. ch[q] \in Seq(Address) /\ n \in Nat
  BY DEF Chained
<1>2. ch[q] \in [I -> Address]
  BY <1>1
<1>3. \A i, j \in I : ch[q][i] = ch[q][j] => i = j
  <2>1. SUFFICES ASSUME NEW i \in I, NEW j \in I, ch[q][i] = ch[q][j] PROVE i = j
    OBVIOUS
  <2>2. <<q, i>> \in Positions(ch) /\ <<q, j>> \in Positions(ch)
    BY <1>1 DEF Positions
  <2>3. Place(ch, <<q, i>>) = Place(ch, <<q, j>>)
    BY <2>1 DEF Place
  <2>4. <<q, i>> = <<q, j>>
    BY <2>2, <2>3 DEF Chained
  <2> QED  BY <2>4
<1>4. ch[q] \in Injection(I, Address)
  <2> HIDE DEF I
  <2> QED  BY <1>2, <1>3 DEF Injection, IsInjective
<1>5. Cardinality(I) <= Cardinality(Address)
  <2> HIDE DEF I
  <2> QED  BY <1>4, FS_Injection, QueueListAssumption
<1>6. Cardinality(I) = n
  <2>1. n \in Int /\ 1 \in Int
    BY <1>1
  <2> HIDE DEF n
  <2>2. Cardinality(1 .. n) = IF 1 > n THEN 0 ELSE n - 1 + 1
    BY <2>1, FS_Interval
  <2> QED  BY <1>1, <2>2
<1>7. Cardinality(Address) \in Nat
  BY FS_CardinalityType, QueueListAssumption
<1> QED  BY <1>1, <1>5, <1>6, <1>7

LEMMA ChainedIsSound == ListInv => ListsSound
<1> SUFFICES ASSUME ListInv PROVE ListsSound
  OBVIOUS
<1>1. PICK ch : Chained(ch)
  BY DEF ListInv
<1>2. WellLinked
  BY <1>1, ChainFacts DEF WellLinked
<1>3. EachNodeOnce
  <2>1. SUFFICES ASSUME NEW a \in Allocated
                 PROVE  Cardinality({p \in Queues \X (1 .. Cardinality(Address)) :
                                       p[2] <= queue[p[1]].size /\ Chain(p[1])[p[2]] = a}) = 1
    BY DEF EachNodeOnce
  <2> DEFINE S == {p \in Queues \X (1 .. Cardinality(Address)) :
                     p[2] <= queue[p[1]].size /\ Chain(p[1])[p[2]] = a}
  <2>2. PICK r \in Positions(ch) : Place(ch, r) = a
    BY <1>1 DEF Chained
  <2>3. r \in Queues \X Nat /\ r[1] \in Queues /\ r[2] \in 1 .. Len(ch[r[1]])
    BY DEF Positions
  <2>4. \A q \in Queues : /\ Chain(q) = ch[q] /\ queue[q].size = Len(ch[q])
                          /\ Len(ch[q]) \in Nat /\ Len(ch[q]) <= Cardinality(Address)
    BY <1>1, ChainFacts, ChainIsShort DEF Chained, Holds
  <2>5. Cardinality(Address) \in Nat
    BY FS_CardinalityType, QueueListAssumption
  <2>6. r \in S
    <3>1. r[2] \in 1 .. Cardinality(Address)
      BY <2>3, <2>4, <2>5
    <3>2. r[2] <= queue[r[1]].size /\ Chain(r[1])[r[2]] = a
      BY <2>2, <2>3, <2>4 DEF Place
    <3>3. r \in Queues \X (1 .. Cardinality(Address))
      BY <2>3, <3>1
    <3> QED  BY <3>2, <3>3
  <2>7. ASSUME NEW p \in S PROVE p = r
    <3>1. /\ p \in Queues \X (1 .. Cardinality(Address)) /\ p[1] \in Queues
          /\ p[2] \in 1 .. Cardinality(Address)
          /\ p[2] <= queue[p[1]].size /\ Chain(p[1])[p[2]] = a
      OBVIOUS
    <3>2. p \in Queues \X Nat /\ p[2] \in 1 .. Len(ch[p[1]]) /\ ch[p[1]][p[2]] = a
      BY <2>4, <2>5, <3>1
    <3>3. p \in Positions(ch) /\ Place(ch, p) = a
      BY <3>2 DEF Positions, Place
    <3> QED  BY <1>1, <2>2, <3>3 DEF Chained
  <2>8. S = {r}
    <3> HIDE DEF S
    <3> QED  BY <2>6, <2>7
  <2>9. Cardinality(S) = 1
    BY <2>8, FS_Singleton
  <2> QED  BY <2>9
<1> QED  BY <1>2, <1>3 DEF ListsSound

-----------------------------------------------------------------------------
(* The calls.                                                              *)

LEMMA NullFact == ASSUME Types PROVE \A a \in Allocated : a \in Address /\ a # NULL
BY QueueListAssumption DEF Types

LEMMA EmptyFacts ==
  ASSUME Types, NEW ch, Chained(ch), NEW q \in Queues
  PROVE  /\ ch[q] \in Seq(Allocated) /\ ch[q] \in Seq(Address) /\ Len(ch[q]) \in Nat
         /\ DOMAIN ch[q] = 1 .. Len(ch[q])
         /\ \A i \in 1 .. Len(ch[q]) : ch[q][i] \in Allocated /\ ch[q][i] # NULL
         /\ QueueEmpty(q) <=> ch[q] = <<>>
         /\ ch[q] = <<>> <=> Len(ch[q]) = 0
         /\ queue[q].size = Len(ch[q])
         /\ \A i \in 1 .. Len(ch[q]) : <<q, i>> \in Positions(ch)
<1>1. /\ ch[q] \in Seq(Allocated) /\ ch[q] \in Seq(Address) /\ queue[q].size = Len(ch[q])
      /\ queue[q].head = IF ch[q] = <<>> THEN NULL ELSE ch[q][1]
  BY DEF Chained, Holds, Linked
<1>2. Len(ch[q]) \in Nat /\ DOMAIN ch[q] = 1 .. Len(ch[q]) /\ (ch[q] = <<>> <=> Len(ch[q]) = 0)
  BY <1>1
<1>3. \A i \in 1 .. Len(ch[q]) : ch[q][i] \in Allocated
  BY <1>1, <1>2
<1>4. \A i \in 1 .. Len(ch[q]) : ch[q][i] # NULL
  BY <1>3, NullFact
<1>5. QueueEmpty(q) <=> ch[q] = <<>>
  <2>1. Len(ch[q]) # 0 => 1 \in 1 .. Len(ch[q])
    BY <1>2
  <2> QED  BY <1>1, <1>2, <1>4, <2>1 DEF QueueEmpty
<1>6. \A i \in 1 .. Len(ch[q]) : <<q, i>> \in Positions(ch)
  BY <1>2 DEF Positions
<1> QED  BY <1>1, <1>2, <1>3, <1>4, <1>5, <1>6

\* The queues a call leaves alone.
LEMMA OthersHold ==
  ASSUME NEW ch, Chained(ch), NEW r \in Queues, queue'[r] = queue[r],
         \A i \in 1 .. Len(ch[r]) :
           ch[r][i] \in Allocated' /\ node'[ch[r][i]].next = node[ch[r][i]].next
  PROVE  Holds(r, ch[r])'
<1>1. Holds(r, ch[r]) /\ Len(ch[r]) \in Nat /\ DOMAIN ch[r] = 1 .. Len(ch[r])
  BY DEF Chained
<1>2. ch[r] \in Seq(Allocated')
  <2>1. ch[r] = [i \in 1 .. Len(ch[r]) |-> ch[r][i]]
    BY DEF Chained
  <2>2. [i \in 1 .. Len(ch[r]) |-> ch[r][i]] \in Seq(Allocated')
    BY <1>1, IsASeq
  <2> QED  BY <2>1, <2>2
<1> QED  BY <1>1, <1>2 DEF Holds, Linked

\* What queuePush does to the nodes when malloc returns the address a.
Pushed(q, d, a) ==
  /\ Types' /\ Allocated' = Allocated \cup {a}
  /\ node'[a].data = d /\ node'[a].next = NULL
  /\ \A b \in Allocated :
       /\ node'[b].data = node[b].data
       /\ node'[b].next = IF b = queue[q].tail /\ ~QueueEmpty(q) THEN a ELSE node[b].next
  /\ \A r \in Queues : r # q => queue'[r] = queue[r]
  /\ queue'[q].head = IF QueueEmpty(q) THEN a ELSE queue[q].head
  /\ queue'[q].tail = a
  /\ queue'[q].size = queue[q].size + 1

LEMMA PushPushes ==
  ASSUME Types, NEW ch, Chained(ch), NEW q \in Queues, NEW d \in Data, NEW a \in Address \ Allocated,
         PushAt(q, d, a)
  PROVE  Pushed(q, d, a)
<1> DEFINE n == [data |-> d, next |-> NULL]
           new == WithNode(node, a, n)
           old == queue[q].tail
<1>1. /\ queue' = [queue EXCEPT ![q].tail = a,
                                ![q].head = IF QueueEmpty(q) THEN a ELSE @,
                                ![q].size = @ + 1]
      /\ node' = IF QueueEmpty(q) THEN new ELSE [new EXCEPT ![old].next = a]
  BY DEF PushAt
<1>2. queue[q] \in Struct /\ queue \in [Queues -> Struct] /\ node \in [Allocated -> Node]
      /\ Allocated \subseteq Address
  BY DEF Types
<1>3. /\ \A r \in Queues : r # q => queue'[r] = queue[r]
      /\ queue'[q].head = IF QueueEmpty(q) THEN a ELSE queue[q].head
      /\ queue'[q].tail = a
      /\ queue'[q].size = queue[q].size + 1
      /\ queue' \in [Queues -> Struct]
  BY <1>1, <1>2 DEF Struct
<1>4. n \in Node /\ n.data = d /\ n.next = NULL
  BY DEF Node
<1> HIDE DEF n
<1>5. /\ new \in [Allocated \cup {a} -> Node] /\ new[a] = n
      /\ \A b \in Allocated : new[b] = node[b]
  BY <1>2, <1>4 DEF WithNode, Allocated
<1> HIDE DEF new
<1>6. CASE QueueEmpty(q)
  <2>1. node' = new
    BY <1>1, <1>6
  <2>2. Allocated' = Allocated \cup {a}
    BY <1>5, <2>1 DEF Allocated
  <2>3. Types'
    BY <1>2, <1>3, <1>5, <2>1, <2>2 DEF Types
  <2> QED  BY <1>3, <1>4, <1>5, <1>6, <2>1, <2>2, <2>3 DEF Pushed
<1>7. CASE ~QueueEmpty(q)
  <2>1. node' = [new EXCEPT ![old].next = a]
    BY <1>1, <1>7
  <2>2. old \in Allocated
    <3>1. ch[q] # <<>> /\ Len(ch[q]) \in 1 .. Len(ch[q])
      BY <1>7, EmptyFacts
    <3>2. old = ch[q][Len(ch[q])]
      BY <3>1 DEF Chained, Holds
    <3> QED  BY <3>1, <3>2, EmptyFacts
  <2> DEFINE m == [new[old] EXCEPT !.next = a]
  <2>3. new[old] \in Node
    BY <1>5, <2>2
  <2>4. m \in Node /\ m.data = new[old].data /\ m.next = a
    BY <2>3 DEF Node
  <2>5. node' = [new EXCEPT ![old] = m]
    BY <2>1
  <2> HIDE DEF m
  <2>6. /\ node' \in [Allocated \cup {a} -> Node]
        /\ node'[old] = m
        /\ \A b \in Allocated \cup {a} : b # old => node'[b] = new[b]
    BY <1>5, <2>2, <2>4, <2>5
  <2>7. Allocated' = Allocated \cup {a}
    BY <2>6 DEF Allocated
  <2>8. Types'
    BY <1>2, <1>3, <2>6, <2>7 DEF Types
  <2>9. node'[a].data = d /\ node'[a].next = NULL
    BY <1>4, <1>5, <2>2, <2>6
  <2>10. \A b \in Allocated :
           /\ node'[b].data = node[b].data
           /\ node'[b].next = IF b = old /\ ~QueueEmpty(q) THEN a ELSE node[b].next
    BY <1>5, <1>7, <2>4, <2>6
  <2> QED  BY <1>3, <2>7, <2>8, <2>9, <2>10 DEF Pushed
<1> QED  BY <1>6, <1>7

Extended(ch, q, a) == [r \in Queues |-> IF r = q THEN Append(ch[q], a) ELSE ch[r]]

\* The data a list holds, first to last.
Values(c) == [i \in 1 .. Len(c) |-> node[c[i]].data]

LEMMA PushedKeeps ==
  ASSUME Types, NEW ch, Chained(ch), NEW q \in Queues, NEW d \in Data, NEW a \in Address \ Allocated,
         Pushed(q, d, a)
  PROVE  /\ Chained(Extended(ch, q, a))'
         /\ \A r \in Queues :
              Values(Extended(ch, q, a)[r])' = IF r = q THEN Append(Values(ch[q]), d) ELSE Values(ch[r])
<1> DEFINE c == ch[q]
           n == Len(c)
           e == Append(c, a)
           x == Extended(ch, q, a)
<1>1. /\ c \in Seq(Allocated) /\ c \in Seq(Address) /\ n \in Nat
      /\ \A i \in 1 .. n : c[i] \in Allocated
      /\ (QueueEmpty(q) <=> c = <<>>) /\ (c = <<>> <=> n = 0)
      /\ queue[q].size = n /\ queue[q].head = IF c = <<>> THEN NULL ELSE c[1]
      /\ queue[q].tail = IF c = <<>> THEN NULL ELSE c[n]
      /\ \A i \in 1 .. n : node[c[i]].next = IF i < n THEN c[i + 1] ELSE NULL
      /\ \A i \in 1 .. n : <<q, i>> \in Positions(ch)
  BY EmptyFacts DEF Chained, Holds, Linked
<1>2. /\ e \in Seq(Address) /\ Len(e) = n + 1 /\ e[n + 1] = a
      /\ \A i \in 1 .. n : e[i] = c[i]
      /\ e # <<>> /\ \A i \in 1 .. n + 1 : i \in 1 .. n \/ i = n + 1
  <2> HIDE DEF c
  <2>1. a \in Address
    OBVIOUS
  <2>2. /\ e \in Seq(Address) /\ Len(e) = n + 1 /\ e[n + 1] = a
        /\ \A i \in 1 .. n : e[i] = c[i]
        /\ e # <<>>
    BY <1>1, <2>1, AppendProperties
  <2>3. \A i \in 1 .. n + 1 : i \in 1 .. n \/ i = n + 1
    BY <1>1
  <2> QED  BY <2>2, <2>3
<1>3. x[q] = e /\ \A r \in Queues : r # q => x[r] = ch[r]
  BY DEF Extended
<1>4. x \in [Queues -> Seq(Address)]
  BY <1>2 DEF Extended, Chained
<1> HIDE DEF c, e, x
<1>5. ASSUME NEW i \in 1 .. n, NEW j \in 1 .. n, c[i] = c[j] PROVE i = j
  <2>1. Place(ch, <<q, i>>) = Place(ch, <<q, j>>)
    BY <1>5 DEF Place, c
  <2>2. <<q, i>> = <<q, j>>
    BY <1>1, <2>1 DEF Chained
  <2> QED  BY <2>2
<1>6. Holds(q, e)'
  <2>1. e \in Seq(Allocated')
    <3>1. \A i \in 1 .. n + 1 : e[i] \in Allocated'
      BY <1>1, <1>2 DEF Pushed
    <3>2. e = [i \in 1 .. n + 1 |-> e[i]] /\ n + 1 \in Nat
      BY <1>1, <1>2
    <3>3. [i \in 1 .. n + 1 |-> e[i]] \in Seq(Allocated')
      BY <3>1, <3>2, IsASeq
    <3> QED  BY <3>2, <3>3
  <2>2. queue'[q].head = e[1]
    <3>1. CASE n = 0
      BY <1>1, <1>2, <3>1 DEF Pushed
    <3>2. CASE n # 0
      <4>1. 1 \in 1 .. n
        BY <1>1, <3>2
      <4> QED  BY <1>1, <1>2, <3>2, <4>1 DEF Pushed
    <3> QED  BY <3>1, <3>2
  <2>3. ASSUME NEW i \in 1 .. n + 1
        PROVE  node'[e[i]].next = IF i < n + 1 THEN e[i + 1] ELSE NULL
    <3>1. CASE i = n + 1
      BY <1>1, <1>2, <3>1 DEF Pushed
    <3>2. CASE i \in 1 .. n - 1
      <4>1. i \in 1 .. n /\ i + 1 \in 1 .. n /\ i < n /\ i # n /\ n \in 1 .. n
        BY <1>1, <3>2
      <4>2. c[i] # c[n] /\ c[i] \in Allocated
        BY <1>1, <1>5, <4>1
      <4>3. queue[q].tail = c[n]
        BY <1>1, <4>1
      <4>4. node'[c[i]].next = node[c[i]].next
        BY <4>2, <4>3 DEF Pushed
      <4> QED  BY <1>1, <1>2, <4>1, <4>4
    <3>3. CASE i = n /\ n # 0
      <4>1. n \in 1 .. n /\ c[n] \in Allocated /\ queue[q].tail = c[n] /\ ~QueueEmpty(q)
        BY <1>1, <3>3
      <4>2. node'[c[n]].next = a
        BY <4>1 DEF Pushed
      <4> QED  BY <1>1, <1>2, <3>3, <4>1, <4>2
    <3> QED  BY <1>1, <3>1, <3>2, <3>3
  <2>4. queue'[q].size = Len(e) /\ queue'[q].tail = e[Len(e)]
    BY <1>1, <1>2 DEF Pushed
  <2> QED  BY <1>2, <2>1, <2>2, <2>3, <2>4 DEF Holds, Linked
<1>7. ASSUME NEW r \in Queues, r # q
      PROVE  /\ Holds(r, ch[r])'
             /\ \A i \in 1 .. Len(ch[r]) : node'[ch[r][i]].data = node[ch[r][i]].data
  <2>1. /\ \A i \in 1 .. Len(ch[r]) : ch[r][i] \in Allocated
        /\ \A i \in 1 .. Len(ch[r]) : <<r, i>> \in Positions(ch)
    BY EmptyFacts
  <2>2. ASSUME NEW i \in 1 .. Len(ch[r]), ~QueueEmpty(q) PROVE ch[r][i] # queue[q].tail
    <3>1. n \in 1 .. n /\ queue[q].tail = c[n] /\ <<q, n>> \in Positions(ch)
      BY <1>1, <2>2
    <3>2. Place(ch, <<r, i>>) # Place(ch, <<q, n>>)
      BY <1>7, <2>1, <3>1 DEF Chained
    <3> QED  BY <3>1, <3>2 DEF Place, c
  <2>3. \A i \in 1 .. Len(ch[r]) :
          /\ ch[r][i] \in Allocated' /\ node'[ch[r][i]].next = node[ch[r][i]].next
          /\ node'[ch[r][i]].data = node[ch[r][i]].data
    BY <2>1, <2>2 DEF Pushed
  <2>4. queue'[r] = queue[r]
    BY <1>7 DEF Pushed
  <2>5. Holds(r, ch[r])'
    BY <2>3, <2>4, OthersHold
  <2> QED  BY <2>3, <2>5
<1>8. \A r \in Queues : Holds(r, x[r])'
  BY <1>3, <1>6, <1>7
\* The places are those there were, and the new one.
<1>9. ASSUME NEW p \in Positions(x)
      PROVE  \/ p \in Positions(ch) /\ Place(x, p) = Place(ch, p) /\ Place(x, p) \in Allocated
             \/ p = <<q, n + 1>> /\ Place(x, p) = a
  <2>1. p \in Queues \X Nat /\ p[1] \in Queues /\ p[2] \in 1 .. Len(x[p[1]]) /\ p = <<p[1], p[2]>>
    BY DEF Positions
  <2>2. CASE p[1] # q
    <3>1. p \in Positions(ch) /\ Place(x, p) = Place(ch, p)
      BY <1>3, <2>1, <2>2 DEF Positions, Place
    <3>2. ch[p[1]][p[2]] \in Allocated
      BY <1>3, <2>1, <2>2, EmptyFacts
    <3> QED  BY <3>1, <3>2 DEF Place
  <2>3. CASE p[1] = q
    <3>1. p[2] \in 1 .. n + 1 /\ Place(x, p) = e[p[2]]
      BY <1>2, <1>3, <2>1, <2>3 DEF Place
    <3>2. CASE p[2] = n + 1
      BY <1>2, <2>1, <2>3, <3>1, <3>2
    <3>3. CASE p[2] \in 1 .. n
      <4>1. p \in Positions(ch)
        BY <1>1, <2>1, <2>3, <3>3
      <4>2. Place(x, p) = c[p[2]] /\ Place(ch, p) = c[p[2]]
        BY <1>2, <2>3, <3>1, <3>3 DEF Place, c
      <4> QED  BY <1>1, <3>3, <4>1, <4>2
    <3> QED  BY <1>2, <3>1, <3>2, <3>3
  <2> QED  BY <2>2, <2>3
<1>10. ASSUME NEW p \in Positions(x), NEW r \in Positions(x), Place(x, p) = Place(x, r)
       PROVE  p = r
  <2>1. \A s, t \in Positions(ch) : Place(ch, s) = Place(ch, t) => s = t
    BY DEF Chained
  <2>2. a \notin Allocated
    OBVIOUS
  <2> QED  BY <1>9, <1>10, <2>1, <2>2
<1>11. ASSUME NEW b \in Allocated' PROVE \E p \in Positions(x) : Place(x, p) = b
  <2>1. CASE b = a
    <3>1. <<q, n + 1>> \in Positions(x)
      <4>1. n + 1 \in 1 .. n + 1 /\ n + 1 \in Nat
        BY <1>1
      <4> QED  BY <1>2, <1>3, <4>1 DEF Positions
    <3>2. Place(x, <<q, n + 1>>) = a
      BY <1>2, <1>3 DEF Place
    <3> QED  BY <2>1, <3>1, <3>2
  <2>2. CASE b \in Allocated
    <3>1. PICK p \in Positions(ch) : Place(ch, p) = b
      BY <2>2 DEF Chained
    <3>2. p \in Queues \X Nat /\ p[1] \in Queues /\ p[2] \in 1 .. Len(ch[p[1]])
      BY DEF Positions
    <3>3. CASE p[1] # q
      BY <1>3, <3>1, <3>2, <3>3 DEF Positions, Place
    <3>4. CASE p[1] = q
      <4>1. p[2] \in 1 .. n /\ c[p[2]] = b
        BY <3>1, <3>2, <3>4 DEF Place, c
      <4>2. p[2] \in 1 .. n + 1 /\ e[p[2]] = b
        BY <1>1, <1>2, <4>1
      <4> QED  BY <1>2, <1>3, <3>2, <3>4, <4>2 DEF Positions, Place
    <3> QED  BY <3>3, <3>4
  <2> QED  BY <2>1, <2>2 DEF Pushed
<1>12. Chained(x)'
  <2>1. x \in [Queues -> Seq(Address)]
    BY <1>4
  <2> QED  BY <1>8, <1>10, <1>11, <2>1 DEF Chained
<1>13. \A r \in Queues : r # q => Values(x[r])' = Values(ch[r])
  BY <1>3, <1>7 DEF Values
<1>14. Values(x[q])' = Append(Values(c), d)
  <2>1. Values(x[q])' = [i \in 1 .. n + 1 |-> node'[e[i]].data]
    BY <1>2, <1>3 DEF Values
  <2>2. \A i \in 1 .. n : node'[e[i]].data = node[c[i]].data
    BY <1>1, <1>2 DEF Pushed
  <2>3. node'[e[n + 1]].data = d
    BY <1>2 DEF Pushed
  <2>4. Values(c) = [i \in 1 .. n |-> node[c[i]].data]
    BY DEF Values
  <2>5. \A i \in 1 .. n : node[c[i]].data \in Data
    BY <1>1 DEF Types, Node
  <2>6. Values(c) \in Seq(Data) /\ Len(Values(c)) = n
    BY <1>1, <2>4, <2>5
  <2> DEFINE v == Append(Values(c), d)
  <2>7. v \in Seq(Data) /\ Len(v) = n + 1 /\ v[n + 1] = d /\ \A i \in 1 .. n : v[i] = Values(c)[i]
    BY <1>1, <2>6
  <2> HIDE DEF v
  <2>8. v = [i \in 1 .. n + 1 |-> v[i]]
    <3>1. v \in [1 .. Len(v) -> Data]
      BY <2>7, LenProperties
    <3> QED  BY <2>7, <3>1
  <2>9. \A i \in 1 .. n + 1 : v[i] = node'[e[i]].data
    BY <1>2, <2>2, <2>3, <2>4, <2>7
  <2>10. v = Values(x[q])'
    BY <2>1, <2>8, <2>9
  <2> QED  BY <2>10 DEF v
<1> QED  BY <1>12, <1>13, <1>14 DEF x, c

\* A sequence without the element at i.
Without(s, i) == [k \in 1 .. Len(s) - 1 |-> s[IF k < i THEN k ELSE k + 1]]

LEMMA WithoutFacts ==
  ASSUME NEW S, NEW s \in Seq(S), NEW i \in 1 .. Len(s)
  PROVE  /\ Without(s, i) \in Seq(S) /\ Len(Without(s, i)) = Len(s) - 1
         /\ \A k \in 1 .. Len(s) - 1 :
              /\ k < i => k \in 1 .. Len(s) /\ Without(s, i)[k] = s[k]
              /\ ~ (k < i) => k + 1 \in 1 .. Len(s) /\ Without(s, i)[k] = s[k + 1]
<1> DEFINE n == Len(s)
           at(k) == s[IF k < i THEN k ELSE k + 1]
<1>1. n \in Nat /\ i \in 1 .. n /\ n - 1 \in Nat /\ \A k \in 1 .. n : s[k] \in S
  BY LenProperties
<1>2. \A k \in 1 .. n - 1 : k \in 1 .. n /\ k + 1 \in 1 .. n
  BY <1>1
<1>3. \A k \in 1 .. n - 1 : at(k) \in S
  BY <1>1, <1>2
<1>4. Without(s, i) = [k \in 1 .. n - 1 |-> at(k)]
  BY DEF Without
<1>5. [k \in 1 .. n - 1 |-> at(k)] \in Seq(S)
  <2> HIDE DEF at, n
  <2> QED  BY <1>1, <1>3, IsASeq
<1>6. Len(Without(s, i)) = n - 1
  BY <1>1, <1>4, <1>5, LenProperties
<1> QED  BY <1>2, <1>4, <1>5, <1>6

\* What a call does that takes the node at i off the list c of queue q.
Removed(q, c, i) ==
  /\ Types' /\ Allocated' = Allocated \ {c[i]}
  /\ \A b \in Allocated' :
       /\ node'[b].data = node[b].data
       /\ node'[b].next = IF i > 1 /\ b = c[i - 1] THEN node[c[i]].next ELSE node[b].next
  /\ \A r \in Queues : r # q => queue'[r] = queue[r]
  /\ queue'[q].head = IF i = 1 THEN node[c[1]].next ELSE queue[q].head
  /\ queue'[q].tail = IF node[c[i]].next # NULL THEN queue[q].tail
                      ELSE IF i = 1 THEN NULL ELSE c[i - 1]
  /\ queue'[q].size = queue[q].size - 1
  /\ ret' = node[c[i]].data

LEMMA PopRemoves ==
  ASSUME Types, NEW ch, Chained(ch), NEW q \in Queues, ch[q] # <<>>, Pop(q)
  PROVE  Removed(q, ch[q], 1)
<1> DEFINE c == ch[q]
           first == queue[q].head
           second == node[first].next
<1>1. /\ 1 \in 1 .. Len(c) /\ c[1] = first /\ first \in Allocated /\ ~QueueEmpty(q)
      /\ queue[q].size = Len(c) /\ Len(c) \in Nat
  <2>1. 1 \in 1 .. Len(c)
    BY EmptyFacts
  <2>2. c[1] = first
    BY DEF Chained, Holds, Linked
  <2> QED  BY <2>1, <2>2, EmptyFacts
<1>2. /\ ret' = node[first].data
      /\ queue' = [queue EXCEPT ![q].head = second,
                                ![q].tail = IF second = NULL THEN NULL ELSE @,
                                ![q].size = @ - 1]
      /\ node' = WithoutNode(node, first)
  BY <1>1 DEF Pop
<1>3. queue \in [Queues -> Struct] /\ node \in [Allocated -> Node] /\ Allocated \subseteq Address
  BY DEF Types
<1>4. second \in Address \cup {NULL}
  BY <1>1, <1>3 DEF Node
<1>5. queue[q].size - 1 \in Nat
  BY <1>1
<1> HIDE DEF first, second
<1>6. /\ \A r \in Queues : r # q => queue'[r] = queue[r]
      /\ queue'[q].head = second
      /\ queue'[q].tail = IF second # NULL THEN queue[q].tail ELSE NULL
      /\ queue'[q].size = queue[q].size - 1
      /\ queue' \in [Queues -> Struct]
  BY <1>2, <1>3, <1>4, <1>5 DEF Struct
<1>7. /\ Allocated' = Allocated \ {first} /\ node' \in [Allocated' -> Node]
      /\ \A b \in Allocated' : node'[b] = node[b]
  BY <1>2, <1>3 DEF WithoutNode, Allocated
<1>8. Types'
  BY <1>3, <1>6, <1>7 DEF Types
<1>9. node[c[1]].next = second
  BY <1>1 DEF second
<1> QED  BY <1>1, <1>2, <1>6, <1>7, <1>8, <1>9 DEF Removed

LEMMA UnlinkRemoves ==
  ASSUME Types, NEW ch, Chained(ch), NEW q \in Queues, NEW j \in 1 .. Len(ch[q]) - 1, Unlink(q, j)
  PROVE  Removed(q, ch[q], j + 1)
<1> DEFINE c == ch[q]
           it == Follow(queue[q].head, j - 1)
           tmp == node[it].next
           after == node[tmp].next
<1>1. Len(c) \in Nat /\ j \in 1 .. Len(c) /\ j + 1 \in 1 .. Len(c) /\ j < Len(c) /\ (j + 1) - 1 = j
  BY EmptyFacts
<1>2. /\ it = c[j] /\ tmp = c[j + 1] /\ it \in Allocated /\ tmp \in Allocated
      /\ queue[q].size = Len(c)
  <2>1. Linked(queue[q].head, c)
    BY DEF Chained, Holds
  <2>2. j - 1 \in 0 .. Len(c) /\ j - 1 < Len(c) /\ (j - 1) + 1 = j
    BY <1>1
  <2>3. it = c[j]
    BY <2>1, <2>2, FollowReaches
  <2>4. node[c[j]].next = c[j + 1]
    BY <1>1, <2>1 DEF Linked
  <2> QED  BY <1>1, <2>3, <2>4, EmptyFacts
<1>3. it # tmp
  <2>1. <<q, j>> \in Positions(ch) /\ <<q, j + 1>> \in Positions(ch) /\ <<q, j>> # <<q, j + 1>>
    BY <1>1, EmptyFacts
  <2>2. Place(ch, <<q, j>>) # Place(ch, <<q, j + 1>>)
    BY <2>1 DEF Chained
  <2> QED  BY <1>2, <2>2 DEF Place
<1>4. /\ ret' = node[tmp].data
      /\ node' = WithoutNode([node EXCEPT ![it].next = after], tmp)
      /\ queue' = [queue EXCEPT ![q].tail = IF after = NULL THEN it ELSE @,
                                ![q].size = @ - 1]
  BY DEF Unlink
<1>5. queue \in [Queues -> Struct] /\ node \in [Allocated -> Node] /\ Allocated \subseteq Address
  BY DEF Types
<1>6. after \in Address \cup {NULL}
  BY <1>2, <1>5 DEF Node
<1>7. queue[q].size - 1 \in Nat
  BY <1>1, <1>2
<1> HIDE DEF it, tmp, after
<1>8. /\ \A r \in Queues : r # q => queue'[r] = queue[r]
      /\ queue'[q].head = queue[q].head
      /\ queue'[q].tail = IF after # NULL THEN queue[q].tail ELSE it
      /\ queue'[q].size = queue[q].size - 1
      /\ queue' \in [Queues -> Struct]
  <2>1. it \in Address
    BY <1>2, <1>5
  <2> QED  BY <1>4, <1>5, <1>7, <2>1 DEF Struct
<1> DEFINE m == [node[it] EXCEPT !.next = after]
           linked == [node EXCEPT ![it] = m]
<1>9. m \in Node /\ m.data = node[it].data /\ m.next = after
  <2>1. node[it] \in Node
    BY <1>2, <1>5
  <2> QED  BY <1>6, <2>1 DEF Node
<1>10. [node EXCEPT ![it].next = after] = linked
  OBVIOUS
<1> HIDE DEF m
<1>11. /\ linked \in [Allocated -> Node] /\ linked[it] = m
       /\ \A b \in Allocated : b # it => linked[b] = node[b]
  BY <1>2, <1>5, <1>9
<1> HIDE DEF linked
<1>12. /\ Allocated' = Allocated \ {tmp} /\ node' \in [Allocated' -> Node]
       /\ \A b \in Allocated' : node'[b] = linked[b]
  BY <1>4, <1>10, <1>11 DEF WithoutNode, Allocated
<1>13. Types'
  BY <1>5, <1>8, <1>12 DEF Types
<1>14. node[c[j + 1]].next = after
  BY <1>2 DEF after
<1>15. \A b \in Allocated' : /\ node'[b].data = node[b].data
                             /\ node'[b].next = IF b = it THEN after ELSE node[b].next
  BY <1>9, <1>11, <1>12
<1>16. j + 1 > 1 /\ j + 1 # 1 /\ c[(j + 1) - 1] = it
  BY <1>1, <1>2
<1> DEFINE i == j + 1
<1>17. i > 1 /\ i # 1 /\ c[i - 1] = it /\ c[i] = tmp /\ node[c[i]].next = after
  BY <1>2, <1>14, <1>16
<1> HIDE DEF i, c
<1>18. \A b \in Allocated' :
         node'[b].next = IF i > 1 /\ b = c[i - 1] THEN node[c[i]].next ELSE node[b].next
  BY <1>15, <1>17
<1>19. /\ queue'[q].head = IF i = 1 THEN node[c[1]].next ELSE queue[q].head
       /\ queue'[q].tail = IF node[c[i]].next # NULL THEN queue[q].tail
                           ELSE IF i = 1 THEN NULL ELSE c[i - 1]
  BY <1>8, <1>17
<1>20. Allocated' = Allocated \ {c[i]} /\ ret' = node[c[i]].data
  BY <1>4, <1>12, <1>17
<1>21. Removed(q, c, i)
  BY <1>8, <1>13, <1>15, <1>18, <1>19, <1>20 DEF Removed
<1> QED  BY <1>21 DEF i, c

Shortened(ch, q, i) == [r \in Queues |-> IF r = q THEN Without(ch[q], i) ELSE ch[r]]

\* The place an element has had, when the one at i has gone.
Former(k, i) == IF k < i THEN k ELSE k + 1

LEMMA RemovedKeeps ==
  ASSUME Types, NEW ch, Chained(ch), NEW q \in Queues, NEW i \in 1 .. Len(ch[q]),
         Removed(q, ch[q], i)
  PROVE  /\ Chained(Shortened(ch, q, i))'
         /\ \A r \in Queues :
              Values(Shortened(ch, q, i)[r])'
                = IF r = q THEN Without(Values(ch[q]), i) ELSE Values(ch[r])
<1> DEFINE c == ch[q]
           n == Len(c)
           e == Without(c, i)
           x == Shortened(ch, q, i)
<1>1. /\ c \in Seq(Address) /\ n \in Nat /\ i \in 1 .. n /\ n - 1 \in Nat /\ DOMAIN c = 1 .. n
      /\ \A k \in 1 .. n : c[k] \in Allocated /\ c[k] # NULL
      /\ queue[q].size = n /\ queue[q].head = c[1] /\ queue[q].tail = c[n]
      /\ \A k \in 1 .. n : node[c[k]].next = IF k < n THEN c[k + 1] ELSE NULL
      /\ \A k \in 1 .. n : <<q, k>> \in Positions(ch)
  <2>1. c \in Seq(Address) /\ n \in Nat /\ i \in 1 .. n /\ DOMAIN c = 1 .. n /\ c # <<>>
    BY EmptyFacts
  <2>2. n - 1 \in Nat
    BY <2>1
  <2> QED  BY <2>1, <2>2, EmptyFacts DEF Chained, Holds, Linked
<1>2. /\ e \in Seq(Address) /\ Len(e) = n - 1
      /\ \A k \in 1 .. n - 1 : Former(k, i) \in 1 .. n /\ e[k] = c[Former(k, i)] /\ Former(k, i) # i
  <2>1. /\ e \in Seq(Address) /\ Len(e) = n - 1
        /\ \A k \in 1 .. n - 1 :
             /\ k < i => k \in 1 .. n /\ e[k] = c[k]
             /\ ~ (k < i) => k + 1 \in 1 .. n /\ e[k] = c[k + 1]
    BY <1>1, WithoutFacts
  <2>2. \A k \in 1 .. n - 1 : (k < i => k # i) /\ (~ (k < i) => k + 1 # i)
    BY <1>1
  <2> QED  BY <2>1, <2>2 DEF Former
<1>3. x[q] = e /\ \A r \in Queues : r # q => x[r] = ch[r]
  BY DEF Shortened
<1>4. x \in [Queues -> Seq(Address)]
  BY <1>2 DEF Shortened, Chained
<1>5. ASSUME NEW k \in 1 .. n, NEW l \in 1 .. n, c[k] = c[l] PROVE k = l
  <2>1. Place(ch, <<q, k>>) = Place(ch, <<q, l>>)
    BY <1>5 DEF Place
  <2>2. <<q, k>> = <<q, l>>
    BY <1>1, <2>1 DEF Chained
  <2> QED  BY <2>2
<1> HIDE DEF c, e, x, n
<1>0. Removed(q, c, i)
  BY DEF c
\* What is left has been there, and nothing of it is the node that went.
<1>6. \A k \in 1 .. n : k # i => c[k] \in Allocated'
  BY <1>0, <1>1, <1>5 DEF Removed
<1>7. ASSUME NEW r \in Queues, r # q
      PROVE  /\ Holds(r, ch[r])'
             /\ \A k \in 1 .. Len(ch[r]) :
                  ch[r][k] \in Allocated' /\ node'[ch[r][k]].data = node[ch[r][k]].data
  <2>1. ASSUME NEW k \in 1 .. Len(ch[r]), NEW l \in 1 .. n PROVE ch[r][k] # c[l]
    <3>1. <<r, k>> \in Positions(ch) /\ <<q, l>> \in Positions(ch)
      BY <1>1, EmptyFacts
    <3>2. Place(ch, <<r, k>>) # Place(ch, <<q, l>>)
      BY <1>7, <3>1 DEF Chained
    <3> QED  BY <3>2 DEF Place, c
  <2>2. \A k \in 1 .. Len(ch[r]) : ch[r][k] \in Allocated'
    BY <1>0, <1>1, <2>1, EmptyFacts DEF Removed
  <2>3. ASSUME NEW k \in 1 .. Len(ch[r])
        PROVE  /\ node'[ch[r][k]].next = node[ch[r][k]].next
               /\ node'[ch[r][k]].data = node[ch[r][k]].data
    <3>1. i > 1 => i - 1 \in 1 .. n
      BY <1>1
    <3>2. i > 1 => ch[r][k] # c[i - 1]
      BY <2>1, <3>1
    <3> QED  BY <1>0, <2>2, <3>2 DEF Removed
  <2>4. queue'[r] = queue[r]
    BY <1>0, <1>7 DEF Removed
  <2>5. \A k \in 1 .. Len(ch[r]) :
          ch[r][k] \in Allocated' /\ node'[ch[r][k]].next = node[ch[r][k]].next
    BY <2>2, <2>3
  <2>6. Holds(r, ch[r])'
    BY <2>4, <2>5, OthersHold
  <2> QED  BY <2>2, <2>3, <2>6

<1>8. Holds(q, e)'
  <2>1. e \in Seq(Allocated')
    <3>1. \A k \in 1 .. n - 1 : e[k] \in Allocated'
      BY <1>2, <1>6
    <3>2. e = [k \in 1 .. n - 1 |-> e[k]]
      BY <1>2
    <3>3. [k \in 1 .. n - 1 |-> e[k]] \in Seq(Allocated')
      BY <1>1, <3>1, IsASeq
    <3> QED  BY <3>2, <3>3
  <2>2. e = <<>> <=> n = 1
    BY <1>1, <1>2
  <2>3. node[c[i]].next = IF i < n THEN c[i + 1] ELSE NULL
    BY <1>1
  <2>4. queue'[q].head = IF e = <<>> THEN NULL ELSE e[1]
    <3>1. CASE n = 1
      <4>1. i = 1 /\ ~ (i < n)
        BY <1>1, <3>1
      <4> QED  BY <1>0, <2>2, <2>3, <3>1, <4>1 DEF Removed
    <3>2. CASE n # 1 /\ i = 1
      <4>1. 1 \in 1 .. n - 1 /\ 1 < n /\ Former(1, i) = 2
        BY <1>1, <3>2 DEF Former
      <4>2. e[1] = c[2] /\ node[c[1]].next = c[2]
        BY <1>1, <1>2, <4>1
      <4> QED  BY <1>0, <2>2, <3>2, <4>2 DEF Removed
    <3>3. CASE n # 1 /\ i # 1
      <4>1. 1 \in 1 .. n - 1 /\ Former(1, i) = 1
        BY <1>1, <3>3 DEF Former
      <4>2. e[1] = c[1]
        BY <1>2, <4>1
      <4> QED  BY <1>0, <1>1, <2>2, <3>3, <4>2 DEF Removed
    <3> QED  BY <3>1, <3>2, <3>3
  <2>5. ASSUME NEW k \in 1 .. n - 1
        PROVE  node'[e[k]].next = IF k < n - 1 THEN e[k + 1] ELSE NULL
    <3>1. Former(k, i) \in 1 .. n /\ Former(k, i) # i /\ e[k] = c[Former(k, i)] /\ e[k] \in Allocated'
      BY <1>2, <1>6
    <3>2. CASE k = i - 1
      <4>1. /\ k \in 1 .. n /\ i > 1 /\ Former(k, i) = k
            /\ i < n <=> k < n - 1
        BY <1>1, <3>2 DEF Former
      <4>2. node'[e[k]].next = node[c[i]].next
        BY <1>0, <3>1, <3>2, <4>1 DEF Removed
      <4>3. k < n - 1 => e[k + 1] = c[i + 1]
        <5>1. k < n - 1 => k + 1 \in 1 .. n - 1 /\ Former(k + 1, i) = i + 1
          BY <1>1, <3>2 DEF Former
        <5> QED  BY <1>2, <5>1
      <4> QED  BY <2>3, <4>1, <4>2, <4>3
    <3>3. CASE k # i - 1
      <4>1. node'[e[k]].next = node[e[k]].next
        <5>1. i > 1 => i - 1 \in 1 .. n /\ Former(k, i) # i - 1
          BY <1>1, <3>3 DEF Former
        <5>2. i > 1 => e[k] # c[i - 1]
          BY <1>5, <3>1, <5>1
        <5> QED  BY <1>0, <3>1, <5>2 DEF Removed
      <4>2. node[e[k]].next = IF Former(k, i) < n THEN c[Former(k, i) + 1] ELSE NULL
        BY <1>1, <3>1
      <4>3. Former(k, i) < n <=> k < n - 1
        BY <1>1, <3>3 DEF Former
      <4>4. k < n - 1 => e[k + 1] = c[Former(k, i) + 1]
        <5>1. k < n - 1 => k + 1 \in 1 .. n - 1 /\ Former(k + 1, i) = Former(k, i) + 1
          BY <1>1, <3>3 DEF Former
        <5> QED  BY <1>2, <5>1
      <4> QED  BY <4>1, <4>2, <4>3, <4>4
    <3> QED  BY <3>2, <3>3
  <2>6. queue'[q].tail = IF e = <<>> THEN NULL ELSE e[n - 1]
    <3>1. CASE i < n
      <4>1. i + 1 \in 1 .. n
        BY <1>1, <3>1
      <4>2. node[c[i]].next # NULL
        BY <1>1, <2>3, <3>1, <4>1
      <4>3. n - 1 \in 1 .. n - 1 /\ Former(n - 1, i) = n /\ n # 1
        BY <1>1, <3>1 DEF Former
      <4>4. e[n - 1] = c[n]
        BY <1>2, <4>3
      <4> QED  BY <1>0, <1>1, <2>2, <4>2, <4>3, <4>4 DEF Removed
    <3>2. CASE i = n /\ n = 1
      <4>1. node[c[i]].next = NULL /\ i = 1
        BY <1>1, <2>3, <3>2
      <4> QED  BY <1>0, <2>2, <3>2, <4>1 DEF Removed
    <3>3. CASE i = n /\ n # 1
      <4>1. n - 1 \in 1 .. n - 1 /\ Former(n - 1, i) = n - 1 /\ ~ (i < n)
        BY <1>1, <3>3 DEF Former
      <4>2. e[n - 1] = c[i - 1]
        BY <1>2, <3>3, <4>1
      <4>3. queue'[q].tail = c[i - 1]
        BY <1>0, <2>3, <3>3, <4>1 DEF Removed
      <4> QED  BY <2>2, <3>3, <4>2, <4>3
    <3> QED  BY <1>1, <3>1, <3>2, <3>3
  <2>7. queue'[q].size = Len(e)
    BY <1>0, <1>1, <1>2 DEF Removed
  <2> QED  BY <1>2, <2>1, <2>4, <2>5, <2>6, <2>7 DEF Holds, Linked
<1>9. \A r \in Queues : Holds(r, x[r])'
  BY <1>3, <1>7, <1>8
\* The places are those there were, but one.
<1> DEFINE old(p) == IF p[1] = q THEN <<q, Former(p[2], i)>> ELSE p
<1>10. ASSUME NEW p \in Positions(x)
       PROVE  /\ p \in Queues \X Nat /\ p = <<p[1], p[2]>>
              /\ p[1] = q => p[2] \in 1 .. n - 1
              /\ old(p) \in Positions(ch) /\ Place(x, p) = Place(ch, old(p))
  <2>1. p \in Queues \X Nat /\ p[1] \in Queues /\ p[2] \in 1 .. Len(x[p[1]]) /\ p = <<p[1], p[2]>>
    BY DEF Positions
  <2>2. CASE p[1] # q
    BY <1>3, <2>1, <2>2 DEF Positions, Place
  <2>3. CASE p[1] = q
    <3>1. p[2] \in 1 .. n - 1 /\ Place(x, p) = e[p[2]]
      BY <1>2, <1>3, <2>1, <2>3 DEF Place
    <3>2. <<q, Former(p[2], i)>> \in Positions(ch) /\ e[p[2]] = c[Former(p[2], i)]
      BY <1>1, <1>2, <3>1
    <3>3. Place(ch, <<q, Former(p[2], i)>>) = c[Former(p[2], i)]
      BY DEF Place, c
    <3> QED  BY <2>1, <2>3, <3>1, <3>2, <3>3
  <2> QED  BY <2>2, <2>3
<1>11. ASSUME NEW p \in Positions(x), NEW r \in Positions(x), Place(x, p) = Place(x, r)
       PROVE  p = r
  <2>1. old(p) = old(r)
    <3> HIDE DEF old
    <3> QED  BY <1>10, <1>11 DEF Chained
  <2>2. p[1] = r[1]
    BY <2>1
  <2>3. CASE p[1] # q
    BY <2>1, <2>2, <2>3
  <2>4. CASE p[1] = q
    <3>1. p[2] \in 1 .. n - 1 /\ r[2] \in 1 .. n - 1 /\ p = <<p[1], p[2]>> /\ r = <<r[1], r[2]>>
      BY <1>10, <2>2, <2>4
    <3>2. Former(p[2], i) = Former(r[2], i)
      BY <2>1, <2>2, <2>4
    <3>3. p[2] = r[2]
      BY <1>1, <3>1, <3>2 DEF Former
    <3> QED  BY <2>2, <3>1, <3>3
  <2> QED  BY <2>3, <2>4
<1>12. ASSUME NEW b \in Allocated' PROVE \E p \in Positions(x) : Place(x, p) = b
  <2>1. b \in Allocated /\ b # c[i]
    BY <1>0 DEF Removed
  <2>2. PICK p \in Positions(ch) : Place(ch, p) = b
    BY <2>1 DEF Chained
  <2>3. p \in Queues \X Nat /\ p[1] \in Queues /\ p[2] \in 1 .. Len(ch[p[1]])
    BY DEF Positions
  <2>4. CASE p[1] # q
    BY <1>3, <2>2, <2>3, <2>4 DEF Positions, Place
  <2>5. CASE p[1] = q
    <3>1. p[2] \in 1 .. n /\ c[p[2]] = b
      BY <2>2, <2>3, <2>5 DEF Place, c, n
    <3>2. p[2] # i
      BY <2>1, <3>1
    <3> DEFINE k == IF p[2] < i THEN p[2] ELSE p[2] - 1
    <3>3. k \in 1 .. n - 1 /\ Former(k, i) = p[2] /\ k \in Nat
      BY <1>1, <3>1, <3>2 DEF Former
    <3> HIDE DEF k
    <3>4. e[k] = b
      BY <1>2, <3>1, <3>3
    <3>5. <<q, k>> \in Positions(x)
      BY <1>2, <1>3, <3>3 DEF Positions
    <3>6. Place(x, <<q, k>>) = b
      BY <1>3, <3>4 DEF Place
    <3> QED  BY <3>5, <3>6
  <2> QED  BY <2>4, <2>5
<1>13. Chained(x)'
  BY <1>4, <1>9, <1>11, <1>12 DEF Chained
<1>14. \A r \in Queues : r # q => Values(x[r])' = Values(ch[r])
  BY <1>3, <1>7 DEF Values
<1>15. Values(x[q])' = Without(Values(c), i)
  <2>1. Values(x[q])' = [k \in 1 .. n - 1 |-> node'[e[k]].data]
    BY <1>2, <1>3 DEF Values
  <2>2. \A k \in 1 .. n - 1 : node'[e[k]].data = node[c[Former(k, i)]].data
    BY <1>0, <1>2, <1>6 DEF Removed
  <2>3. Values(c) = [k \in 1 .. n |-> node[c[k]].data] /\ Len(Values(c)) = n
    BY <1>1 DEF Values, n
  <2>4. \A k \in 1 .. n - 1 : Values(c)[Former(k, i)] = node[c[Former(k, i)]].data
    BY <1>2, <2>3
  <2>5. Without(Values(c), i) = [k \in 1 .. n - 1 |-> Values(c)[Former(k, i)]]
    BY <2>3 DEF Without, Former
  <2> QED  BY <2>1, <2>2, <2>4, <2>5
<1> QED  BY <1>13, <1>14, <1>15 DEF x, c

-----------------------------------------------------------------------------
(* A call, seen in what the queues hold.                                   *)

\* Two sequences with the same elements.
LEMMA SameSeq ==
  ASSUME NEW S, NEW s \in Seq(S), NEW t \in Seq(S), Len(s) = Len(t),
         \A k \in 1 .. Len(s) : s[k] = t[k]
  PROVE  s = t
<1>1. s = [k \in 1 .. Len(s) |-> s[k]] /\ t = [k \in 1 .. Len(t) |-> t[k]]
  OBVIOUS
<1> QED  BY <1>1

LEMMA TailIsWithout ==
  ASSUME NEW S, NEW s \in Seq(S), s # <<>>
  PROVE  Tail(s) = Without(s, 1) /\ Head(s) = s[1]
<1>1. Len(s) \in Nat /\ 1 \in 1 .. Len(s) /\ \A k \in 1 .. Len(s) - 1 : ~ (k < 1)
  BY EmptySeq, LenProperties
<1>2. /\ Tail(s) \in Seq(S) /\ Len(Tail(s)) = Len(s) - 1
      /\ \A k \in 1 .. Len(Tail(s)) : Tail(s)[k] = s[k + 1]
  BY HeadTailProperties
<1>3. /\ Without(s, 1) \in Seq(S) /\ Len(Without(s, 1)) = Len(s) - 1
      /\ \A k \in 1 .. Len(s) - 1 : Without(s, 1)[k] = s[k + 1]
  BY <1>1, WithoutFacts
<1>4. Tail(s) = Without(s, 1)
  BY <1>2, <1>3, SameSeq
<1> QED  BY <1>4

LEMMA RemoveAtIsWithout ==
  ASSUME NEW S, NEW s \in Seq(S), NEW i \in 1 .. Len(s)
  PROVE  Interface!RemoveAt(s, i) = Without(s, i)
<1> DEFINE n == Len(s)
           a == SubSeq(s, 1, i - 1)
           b == SubSeq(s, i + 1, n)
           r == a \o b
<1>1. n \in Nat /\ i \in 1 .. n /\ \A k \in 1 .. n : s[k] \in S
  BY LenProperties
<1>2. 1 \in Int /\ i - 1 \in Int /\ i + 1 \in Int /\ n \in Int
      /\ (\A k \in 1 .. i - 1 : k \in 1 .. n) /\ (\A k \in i + 1 .. n : k \in 1 .. n)
  BY <1>1
<1>3. /\ a \in Seq(S) /\ Len(a) = IF 1 <= i - 1 THEN (i - 1) - 1 + 1 ELSE 0
      /\ \A k \in 1 .. (i - 1) - 1 + 1 : a[k] = s[1 + k - 1]
  <2> HIDE DEF n
  <2> QED  BY <1>1, <1>2, SubSeqProperties
<1>4. /\ b \in Seq(S) /\ Len(b) = IF i + 1 <= n THEN n - (i + 1) + 1 ELSE 0
      /\ \A k \in 1 .. n - (i + 1) + 1 : b[k] = s[(i + 1) + k - 1]
  <2> HIDE DEF n
  <2> QED  BY <1>1, <1>2, SubSeqProperties
<1> HIDE DEF n, a, b
<1>5. Len(a) = i - 1 /\ \A k \in 1 .. i - 1 : a[k] = s[k]
  BY <1>1, <1>3
<1>6. Len(b) = n - i /\ \A k \in 1 .. n - i : b[k] = s[i + k]
  BY <1>1, <1>4
<1>7. /\ r \in Seq(S) /\ Len(r) = Len(a) + Len(b)
      /\ \A k \in 1 .. Len(a) + Len(b) : r[k] = IF k <= Len(a) THEN a[k] ELSE b[k - Len(a)]
  BY <1>3, <1>4, ConcatProperties
<1> HIDE DEF r
<1>8. Len(a) + Len(b) = n - 1
  BY <1>1, <1>5, <1>6
<1>9. ASSUME NEW k \in 1 .. n - 1 PROVE r[k] = Without(s, i)[k]
  <2>1. /\ k < i => Without(s, i)[k] = s[k]
        /\ ~ (k < i) => Without(s, i)[k] = s[k + 1]
    BY WithoutFacts DEF n
  <2>2. CASE k < i
    <3>1. k \in 1 .. i - 1 /\ k <= i - 1
      BY <1>1, <2>2
    <3> QED  BY <1>5, <1>7, <1>8, <2>1, <2>2, <3>1
  <2>3. CASE ~ (k < i)
    <3>1. k - (i - 1) \in 1 .. n - i /\ ~ (k <= i - 1) /\ i + (k - (i - 1)) = k + 1
      BY <1>1, <2>3
    <3>2. r[k] = b[k - (i - 1)]
      BY <1>5, <1>7, <1>8, <3>1
    <3>3. b[k - (i - 1)] = s[k + 1]
      BY <1>6, <3>1
    <3> QED  BY <2>1, <2>3, <3>2, <3>3
  <2> QED  BY <2>2, <2>3
<1>10. Without(s, i) \in Seq(S) /\ Len(Without(s, i)) = n - 1
  BY WithoutFacts DEF n
<1>11. r = Without(s, i)
  BY <1>7, <1>8, <1>9, <1>10, SameSeq
<1> QED  BY <1>11 DEF r, a, b, n, Interface!RemoveAt

\* What the lists ch hold.
Held(ch) == [q \in Queues |-> Values(ch[q])]

\* What the queues hold, as ConnQueues sees it.
Shown == [q \in Queues |-> Contents(q)]

LEMMA ContentsAre == \A ch : Chained(ch) => Shown = Held(ch)
<1> SUFFICES ASSUME NEW ch, Chained(ch) PROVE Shown = Held(ch)
  OBVIOUS
<1>1. ASSUME NEW q \in Queues PROVE Contents(q) = Values(ch[q])
  <2>1. Chain(q) = ch[q] /\ DOMAIN ch[q] = 1 .. Len(ch[q])
    BY ChainFacts DEF Chained
  <2> QED  BY <2>1 DEF Contents, Values
<1> QED  BY <1>1 DEF Held, Shown

LEMMA ContentsAreNext == \A ch : Chained(ch)' => Shown' = Held(ch)'
<1>1. (\A ch : Chained(ch) => Shown = Held(ch))'
  BY ContentsAre, PTL
<1> QED  BY <1>1

LEMMA ValuesFacts ==
  ASSUME Types, NEW ch, Chained(ch), NEW q \in Queues
  PROVE  /\ Values(ch[q]) \in Seq(Data) /\ Len(Values(ch[q])) = Len(ch[q])
         /\ \A k \in 1 .. Len(ch[q]) : Values(ch[q])[k] = node[ch[q][k]].data
         /\ Values(ch[q]) = <<>> <=> ch[q] = <<>>
<1> DEFINE n == Len(ch[q])
<1>1. n \in Nat /\ (\A k \in 1 .. n : ch[q][k] \in Allocated) /\ (ch[q] = <<>> <=> n = 0)
  BY EmptyFacts
<1>2. \A k \in 1 .. n : node[ch[q][k]].data \in Data
  BY <1>1 DEF Types, Node
<1>3. Values(ch[q]) = [k \in 1 .. n |-> node[ch[q][k]].data]
  BY DEF Values
<1> HIDE DEF n
<1>4. Values(ch[q]) \in Seq(Data)
  BY <1>1, <1>2, <1>3, IsASeq
<1>5. Len(Values(ch[q])) = n
  BY <1>1, <1>3, <1>4
<1>6. Values(ch[q]) = <<>> <=> n = 0
  BY <1>4, <1>5, EmptySeq
<1> QED  BY <1>1, <1>3, <1>4, <1>5, <1>6 DEF n

LEMMA PushShown ==
  ASSUME Types, NEW ch, Chained(ch), NEW q \in Queues, NEW d \in Data, NEW a \in Address \ Allocated,
         PushAt(q, d, a)
  PROVE  ListInv' /\ Shown' = [Shown EXCEPT ![q] = Append(@, d)]
<1> DEFINE x == Extended(ch, q, a)
<1>1. Types' /\ Pushed(q, d, a)
  BY PushPushes DEF Pushed
<1>2. /\ Chained(x)'
      /\ \A r \in Queues :
           Values(x[r])' = IF r = q THEN Append(Values(ch[q]), d) ELSE Values(ch[r])
  BY <1>1, PushedKeeps
<1>3. Shown = Held(ch)
  BY ContentsAre
<1>4. \A y : Chained(y)' => Shown' = Held(y)'
  BY ContentsAreNext
<1> HIDE DEF x
<1>5. Shown' = Held(x)'
  BY <1>2, <1>4
<1>6. Held(x)' = [Held(ch) EXCEPT ![q] = Append(@, d)]
  BY <1>2 DEF Held
<1> QED  BY <1>1, <1>2, <1>3, <1>5, <1>6 DEF ListInv

LEMMA RemovedShown ==
  ASSUME Types, NEW ch, Chained(ch), NEW q \in Queues, NEW i \in 1 .. Len(ch[q]),
         Removed(q, ch[q], i)
  PROVE  /\ ListInv' /\ Shown' = [Shown EXCEPT ![q] = Without(@, i)]
         /\ ret' = Shown[q][i] /\ Shown[q] \in Seq(Data) /\ i \in 1 .. Len(Shown[q])
<1> DEFINE x == Shortened(ch, q, i)
<1>1. /\ Chained(x)'
      /\ \A r \in Queues :
           Values(x[r])' = IF r = q THEN Without(Values(ch[q]), i) ELSE Values(ch[r])
  BY RemovedKeeps
<1>2. Shown = Held(ch)
  BY ContentsAre
<1>3. \A y : Chained(y)' => Shown' = Held(y)'
  BY ContentsAreNext
<1> HIDE DEF x
<1>4. Shown' = Held(x)'
  BY <1>1, <1>3
<1>5. Held(x)' = [Held(ch) EXCEPT ![q] = Without(@, i)]
  BY <1>1 DEF Held
<1>6. Shown[q] = Values(ch[q])
  BY <1>2 DEF Held
<1>7. Types' /\ ret' = node[ch[q][i]].data
  BY DEF Removed
<1> QED  BY <1>1, <1>2, <1>4, <1>5, <1>6, <1>7, ValuesFacts DEF ListInv

\* The queues stay as they are.
LEMMA NothingShown ==
  ASSUME ListInv, UNCHANGED <<queue, node>>
  PROVE  ListInv' /\ Shown' = Shown
<1>1. PICK ch : Chained(ch)
  BY DEF ListInv
<1>2. Types'
  BY DEF ListInv, Types, Allocated
<1>3. Chained(ch)'
  BY <1>1 DEF Chained, Holds, Linked, Allocated
<1>4. Held(ch)' = Held(ch)
  BY DEF Held, Values
<1>5. Shown = Held(ch)
  BY <1>1, ContentsAre
<1>6. \A y : Chained(y)' => Shown' = Held(y)'
  BY ContentsAreNext
<1> QED  BY <1>2, <1>3, <1>4, <1>5, <1>6 DEF ListInv

\* queuePush on the list is queuePush on the sequence.
LEMMA PushDoes ==
  ASSUME ListInv, NEW q \in Queues, NEW d \in Data, Push(q, d)
  PROVE  ListInv' /\ Interface!Push(q, d)
<1>1. PICK ch : Chained(ch)
  BY DEF ListInv
<1>2. CASE (\E a \in Address \ Allocated : PushAt(q, d, a)) /\ ret' = 1
  <2>1. PICK a \in Address \ Allocated : PushAt(q, d, a)
    BY <1>2
  <2>2. ListInv' /\ Shown' = [Shown EXCEPT ![q] = Append(@, d)]
    BY <1>1, <2>1, PushShown DEF ListInv
  <2> QED  BY <1>2, <2>2 DEF Interface!Push, Shown
<1>3. CASE ret' = -1 /\ UNCHANGED <<queue, node>>
  <2>1. ListInv' /\ Shown' = Shown
    BY <1>3, NothingShown
  <2> QED  BY <1>3, <2>1 DEF Interface!Push, Shown
<1> QED  BY <1>2, <1>3 DEF Push

\* queuePop on the list is queuePop on the sequence.
LEMMA PopDoes ==
  ASSUME ListInv, NEW q \in Queues, Pop(q)
  PROVE  ListInv' /\ Interface!Pop(q)
<1>1. PICK ch : Chained(ch)
  BY DEF ListInv
<1>2. Shown[q] = <<>> <=> ch[q] = <<>>
  BY <1>1, ContentsAre, ValuesFacts DEF ListInv, Held
<1>3. CASE ch[q] = <<>>
  <2>1. QueueEmpty(q)
    BY <1>1, <1>3, EmptyFacts DEF ListInv
  <2>2. ret' = -1 /\ UNCHANGED <<queue, node>>
    BY <2>1 DEF Pop
  <2>3. ListInv' /\ Shown' = Shown
    BY <2>2, NothingShown
  <2> QED  BY <1>2, <1>3, <2>2, <2>3 DEF Interface!Pop, Shown
<1>4. CASE ch[q] # <<>>
  <2>1. Removed(q, ch[q], 1)
    BY <1>1, <1>4, PopRemoves DEF ListInv
  <2>2. 1 \in 1 .. Len(ch[q])
    BY <1>1, <1>4, EmptyFacts DEF ListInv
  <2>3. /\ ListInv' /\ Shown' = [Shown EXCEPT ![q] = Without(@, 1)]
        /\ ret' = Shown[q][1] /\ Shown[q] \in Seq(Data)
    BY <1>1, <2>1, <2>2, RemovedShown DEF ListInv
  <2>4. Tail(Shown[q]) = Without(Shown[q], 1) /\ Head(Shown[q]) = Shown[q][1]
    BY <1>2, <1>4, <2>3, TailIsWithout
  <2>5. Shown' = [Shown EXCEPT ![q] = Tail(@)] /\ ret' = Head(Shown[q])
    BY <2>3, <2>4
  <2> QED  BY <1>2, <1>4, <2>3, <2>5 DEF Interface!Pop, Shown
<1> QED  BY <1>3, <1>4

\* queueRemoveByIndex on the list is queueRemoveByIndex on the sequence.
LEMMA RemoveDoes ==
  ASSUME ListInv, NEW q \in Queues, NEW i \in 0 .. queue[q].size - 1, RemoveByIndex(q, i)
  PROVE  /\ ListInv' /\ Interface!RemoveByIndex(q, i)
         /\ i \in 0 .. Len(Shown[q]) - 1
<1>1. PICK ch : Chained(ch)
  BY DEF ListInv
<1>2. queue[q].size = Len(ch[q]) /\ Len(ch[q]) \in Nat /\ (ch[q] = <<>> <=> Len(ch[q]) = 0)
  BY <1>1, EmptyFacts DEF ListInv
<1>3. i + 1 \in 1 .. Len(ch[q]) /\ i \in Int
  BY <1>2
<1>4. Removed(q, ch[q], i + 1)
  <2>1. CASE i = 0
    <3>1. Pop(q) /\ ch[q] # <<>> /\ i + 1 = 1
      BY <1>2, <1>3, <2>1 DEF RemoveByIndex
    <3> QED  BY <1>1, <3>1, PopRemoves DEF ListInv
  <2>2. CASE i # 0
    <3>1. i \in 1 .. Len(ch[q]) - 1 /\ Unlink(q, i)
      BY <1>2, <2>2 DEF RemoveByIndex
    <3> QED  BY <1>1, <3>1, UnlinkRemoves DEF ListInv
  <2> QED  BY <2>1, <2>2
<1> DEFINE k == i + 1
<1>5. /\ ListInv' /\ Shown' = [Shown EXCEPT ![q] = Without(@, k)]
      /\ ret' = Shown[q][k] /\ Shown[q] \in Seq(Data) /\ k \in 1 .. Len(Shown[q])
  BY <1>1, <1>3, <1>4, RemovedShown DEF ListInv
<1>6. Interface!RemoveAt(Shown[q], k) = Without(Shown[q], k)
  <2> HIDE DEF k
  <2> QED  BY <1>5, RemoveAtIsWithout
<1>7. Shown' = [Shown EXCEPT ![q] = Interface!RemoveAt(@, k)]
  <2> HIDE DEF k
  <2> QED  BY <1>5, <1>6
<1>8. Interface!RemoveByIndex(q, i)
  BY <1>5, <1>7 DEF Interface!RemoveByIndex, Shown
<1>9. i \in 0 .. Len(Shown[q]) - 1
  BY <1>3, <1>5
<1> QED  BY <1>5, <1>8, <1>9

LEMMA StepDoes ==
  ASSUME ListInv, [Next]_vars
  PROVE  ListInv' /\ [Interface!Next]_(Interface!vars)
<1>1. ASSUME NEW q \in Queues, NEW d \in Data, Push(q, d)
      PROVE  ListInv' /\ [Interface!Next]_(Interface!vars)
  BY <1>1, PushDoes DEF Interface!Next
<1>2. ASSUME NEW q \in Queues, Pop(q)
      PROVE  ListInv' /\ [Interface!Next]_(Interface!vars)
  BY <1>2, PopDoes DEF Interface!Next
<1>3. ASSUME NEW q \in Queues, NEW i \in 0 .. queue[q].size - 1, RemoveByIndex(q, i)
      PROVE  ListInv' /\ [Interface!Next]_(Interface!vars)
  BY <1>3, RemoveDoes DEF Interface!Next, Shown
<1>4. CASE UNCHANGED vars
  BY <1>4, NothingShown DEF vars, Interface!vars, Shown
<1> QED  BY <1>1, <1>2, <1>3, <1>4 DEF Next

LEMMA InitDoes == Init => Interface!Init
<1> SUFFICES ASSUME Init PROVE Interface!Init
  OBVIOUS
<1>1. ASSUME NEW q \in Queues PROVE Contents(q) = <<>>
  <2>1. queue[q].size = 0
    BY DEF Init
  <2>2. DOMAIN Chain(q) = 1 .. 0
    BY <2>1 DEF Chain
  <2>3. Contents(q) = [i \in 1 .. 0 |-> node[Chain(q)[i]].data]
    BY <2>2 DEF Contents
  <2> QED  BY <2>3
<1> QED  BY <1>1 DEF Init, Interface!Init

-----------------------------------------------------------------------------
\* After any calls on the two queues their lists are sound (queue.c): the head, the
\* links, the tail and the size agree, nothing points to freed memory, and every
\* node malloc has given out is in exactly one place of one queue.
THEOREM SoundLists == Spec => []ListsSound
<1>1. ListInv /\ [Next]_vars => ListInv'
  BY StepDoes
<1> QED  BY <1>1, InitChained, ChainedIsSound, PTL DEF Spec

\* The linked lists of queue.c do what the sequences of ConnQueues do, call by call:
\* each call returns the descriptor the sequence says, and takes off no other.
THEOREM ListsAreQueues == Spec => ImplementsQueues
<1>1. ListInv /\ [Next]_vars => ListInv' /\ [Interface!Next]_(Interface!vars)
  BY StepDoes
<1> QED  BY <1>1, InitChained, InitDoes, PTL DEF Spec, ImplementsQueues, Interface!Spec
=============================================================================
