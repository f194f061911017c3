--------------------------- MODULE BlockHeapProofs ---------------------------
(***************************************************************************)
(* Proofs about BlockHeap for any sizes of metadata, heap, mappings and    *)
(* requests, and whatever calls the client makes.                          *)
(***************************************************************************)
EXTENDS BlockHeap, DataLemmas

-----------------------------------------------------------------------------
(* Blocks in memory: a set B of blocks, the metadata m, and the break e.   *)

Meta == [size : Nat, is_free : BOOLEAN]

FootAt(m, a) == a + SOM + m[a].size
EndAt(m, a) == FootAt(m, a) + SOM

\* Every block has its two copies.
Headed(B, m) ==
  \A a \in B :
    /\ a \in Nat /\ a # NULL /\ a \in DOMAIN m
    /\ FootAt(m, a) \in DOMAIN m /\ m[FootAt(m, a)] = m[a]

\* Behind a block comes another, or the break.
Adjoin(B, m, e) ==
  \A a \in B : EndAt(m, a) <= e /\ (EndAt(m, a) \in B \/ EndAt(m, a) = e)

Separate(B, m) == \A a, b \in B : a < b => EndAt(m, a) <= b

\* There is no metadata but that of blocks and mappings.
Known(B, m) ==
  \A x \in DOMAIN m :
    m[x] \in Meta /\ (x \in B \/ x \in MapAddrs \/ \E a \in B : x = FootAt(m, a))

\* Before a block comes another, or it is the first, which smalloc has aligned.
Rooted(B, m) ==
  \A b \in B : (\E a \in B : EndAt(m, a) = b) \/ ((\A x \in B : b <= x) /\ b % Align = 0)

Ended(B, m, e) ==
  e \in Nat /\ (B # {} => e <= HeapEnd /\ \E a \in B : EndAt(m, a) = e)

\* Mappings are in use and not below the threshold.
MapsKnown(m) ==
  \A x \in DOMAIN m \cap MapAddrs :
    ~ m[x].is_free /\ MMAP_THRESHOLD <= m[x].size /\ m[x].size < MaxRequest + Align

Tiles(B, m, e) ==
  /\ Headed(B, m) /\ Adjoin(B, m, e) /\ Separate(B, m) /\ Known(B, m)
  /\ Rooted(B, m) /\ Ended(B, m, e) /\ MapsKnown(m)

\* The numbers of a block, and their order.
LEMMA BlockNumbers ==
  ASSUME NEW B, NEW m, NEW e, Tiles(B, m, e)
  PROVE  /\ e \in Nat /\ SOM \in Nat /\ SOM > 0
         /\ \A a \in B :
              /\ a \in Nat /\ a > 0 /\ m[a] \in Meta /\ m[a].size \in Nat
              /\ m[a].is_free \in BOOLEAN
              /\ FootAt(m, a) = a + SOM + m[a].size /\ EndAt(m, a) = FootAt(m, a) + SOM
              /\ FootAt(m, a) \in Nat /\ EndAt(m, a) \in Nat
              /\ a < FootAt(m, a) /\ FootAt(m, a) < EndAt(m, a)
              /\ EndAt(m, a) <= e /\ e <= HeapEnd
<1>1. e \in Nat /\ SOM \in Nat /\ SOM > 0
  BY HeapAssumption DEF Tiles, Ended
<1>2. ASSUME NEW a \in B
      PROVE  /\ a \in Nat /\ a > 0 /\ m[a] \in Meta /\ m[a].size \in Nat
             /\ m[a].is_free \in BOOLEAN
  <2>1. a \in Nat /\ a # 0 /\ a \in DOMAIN m
    BY DEF Tiles, Headed, NULL
  <2>2. m[a] \in Meta
    BY <2>1 DEF Tiles, Known
  <2> QED
    BY <2>1, <2>2 DEF Meta
<1>3. ASSUME NEW a \in B
      PROVE  EndAt(m, a) <= e /\ e <= HeapEnd
  BY DEF Tiles, Adjoin, Ended
<1> QED
  BY <1>1, <1>2, <1>3 DEF FootAt, EndAt

\* Metadata of different blocks and mappings lie at different addresses.
LEMMA OwnAddresses ==
  ASSUME NEW B, NEW m, NEW e, Tiles(B, m, e), NEW a \in B
  PROVE  /\ a \notin MapAddrs /\ FootAt(m, a) \notin MapAddrs /\ FootAt(m, a) \notin B
         /\ \A b \in B :
              /\ a < b => FootAt(m, a) < b /\ FootAt(m, a) < FootAt(m, b)
              /\ FootAt(m, a) = FootAt(m, b) => a = b
<1>1. /\ a \in Nat /\ FootAt(m, a) \in Nat /\ EndAt(m, a) \in Nat
      /\ a < FootAt(m, a) /\ FootAt(m, a) < EndAt(m, a) /\ EndAt(m, a) <= HeapEnd
  BY BlockNumbers, HeapAssumption
<1>2. a \notin MapAddrs /\ FootAt(m, a) \notin MapAddrs
  BY <1>1, HeapAssumption
<1>3. ASSUME NEW b \in B, NEW c \in B, b < c
      PROVE  FootAt(m, b) < c /\ FootAt(m, b) < FootAt(m, c)
  <2>1. EndAt(m, b) <= c
    BY <1>3 DEF Tiles, Separate
  <2> QED
    BY <2>1, BlockNumbers
<1>4. ASSUME NEW b \in B PROVE FootAt(m, a) # b
  <2>1. b \in Nat /\ b < FootAt(m, b)
    BY BlockNumbers
  <2>2. CASE a < b
    BY <1>1, <1>3, <2>1, <2>2
  <2>3. CASE b < a
    BY <1>1, <2>1, <2>3
  <2> QED
    BY <1>1, <2>1, <2>2, <2>3
<1>5. ASSUME NEW b \in B, FootAt(m, a) = FootAt(m, b) PROVE a = b
  <2>1. b \in Nat /\ FootAt(m, b) \in Nat
    BY BlockNumbers
  <2> QED
    BY <1>1, <1>3, <1>5, <2>1
<1> QED
  BY <1>2, <1>3, <1>4, <1>5

LEMMA OtherAddresses ==
  ASSUME NEW B, NEW m, NEW e, Tiles(B, m, e), NEW a \in B, NEW b \in B
  PROVE  /\ FootAt(m, a) \notin B /\ FootAt(m, b) \notin B
         /\ FootAt(m, a) = FootAt(m, b) => a = b
<1>1. FootAt(m, a) \notin B
  BY OwnAddresses
<1>2. FootAt(m, b) \notin B
  BY OwnAddresses
<1>3. \A c \in B : FootAt(m, a) = FootAt(m, c) => a = c
  BY OwnAddresses
<1> QED
  BY <1>1, <1>2, <1>3

-----------------------------------------------------------------------------
(* Adjacent blocks made one.                                               *)

\* m2 is m without the metadata at the addresses E and with d at those in A.
Recorded(m, m2, E, A, d) ==
  /\ DOMAIN m2 = (DOMAIN m \ E) \cup A
  /\ \A x \in A : m2[x] = d
  /\ \A x \in DOMAIN m \ E : x \notin A => m2[x] = m[x]

\* P holds the blocks from lo to hi.
Interval(B, P, lo, hi) ==
  lo \in P /\ hi \in P /\ P \subseteq B /\ \A b \in B : b \in P <=> lo <= b /\ b <= hi

\* The addresses of the metadata of the blocks in P.
Copies(m, P) == P \cup {FootAt(m, a) : a \in P}

\* What becomes of block lo when the blocks from lo to hi are made one.
FusedSize(m, lo, hi, added) == EndAt(m, hi) + added - lo - 2 * SOM

Fused(m, m2, P, lo, hi, added, flag) ==
  LET size == FusedSize(m, lo, hi, added)
  IN  Recorded(m, m2, Copies(m, P), {lo, lo + SOM + size}, [size |-> size, is_free |-> flag])

\* Nothing else changes.
RestSame(B, m, P, m2) ==
  /\ \A b \in B \ P : m2[b] = m[b]
  /\ DOMAIN m2 \cap MapAddrs = DOMAIN m \cap MapAddrs
  /\ \A x \in DOMAIN m \cap MapAddrs : m2[x] = m[x]

\* The block made of them.
Whole(m, m2, lo, hi, added, flag) ==
  /\ FusedSize(m, lo, hi, added) \in Nat
  /\ m2[lo] = [size |-> FusedSize(m, lo, hi, added), is_free |-> flag]
  /\ lo \in DOMAIN m2 /\ FootAt(m2, lo) \in DOMAIN m2 /\ m2[FootAt(m2, lo)] = m2[lo]
  /\ EndAt(m2, lo) = EndAt(m, hi) + added

\* The blocks before and after it.
Beside(B, m, m2, P, lo, hi, added) ==
  \A b \in B \ P :
    /\ m2[b] = m[b] /\ b \in DOMAIN m2
    /\ FootAt(m2, b) = FootAt(m, b) /\ EndAt(m2, b) = EndAt(m, b)
    /\ FootAt(m, b) \in DOMAIN m2 /\ m2[FootAt(m, b)] = m2[b]
    /\ b < lo \/ hi < b
    /\ b < lo => EndAt(m, b) <= lo
    /\ hi < b => EndAt(m, hi) <= b /\ added = 0

\* What is left is theirs or a mapping's.
Whereabouts(B, m, m2, P, lo) ==
  \A x \in DOMAIN m2 :
    \/ x = lo \/ x = FootAt(m2, lo) \/ x \in B \ P
    \/ x \in MapAddrs /\ x \in DOMAIN m /\ m2[x] = m[x]
    \/ \E a \in B \ P : x = FootAt(m, a)

LEMMA FuseShape ==
  ASSUME NEW B, NEW m, NEW e, Tiles(B, m, e), NEW P, NEW lo, NEW hi, Interval(B, P, lo, hi),
         NEW added \in Nat, added = 0 \/ EndAt(m, hi) = e,
         NEW flag \in BOOLEAN, NEW m2, Fused(m, m2, P, lo, hi, added, flag)
  PROVE  /\ Whole(m, m2, lo, hi, added, flag)
         /\ Beside(B, m, m2, P, lo, hi, added)
         /\ Whereabouts(B, m, m2, P, lo)
<1> DEFINE size == FusedSize(m, lo, hi, added)
           foot == lo + SOM + size
           d == [size |-> size, is_free |-> flag]
<1>1. /\ lo \in B /\ hi \in B /\ lo <= hi
      /\ \A b \in B : b \in P <=> lo <= b /\ b <= hi
      /\ P \subseteq B
  BY DEF Interval
<1>2. /\ SOM \in Nat /\ SOM > 0 /\ e \in Nat /\ lo \in Nat /\ hi \in Nat
      /\ EndAt(m, hi) \in Nat /\ EndAt(m, hi) = hi + 2 * SOM + m[hi].size /\ m[hi].size \in Nat
      /\ FootAt(m, hi) = hi + SOM + m[hi].size
  BY <1>1, BlockNumbers
<1>3. size = (hi - lo) + m[hi].size + added /\ size \in Nat
  BY <1>1, <1>2 DEF FusedSize
<1>4. foot = FootAt(m, hi) + added /\ lo < foot /\ foot \in Nat
  BY <1>1, <1>2, <1>3
<1>5. /\ DOMAIN m2 = (DOMAIN m \ Copies(m, P)) \cup {lo, foot}
      /\ m2[lo] = d /\ m2[foot] = d
      /\ \A x \in DOMAIN m \ Copies(m, P) : x # lo /\ x # foot => m2[x] = m[x]
  BY DEF Fused, Recorded
<1>6. FootAt(m2, lo) = foot /\ EndAt(m2, lo) = EndAt(m, hi) + added
  <2>1. m2[lo].size = size
    BY <1>5
  <2> QED
    BY <1>2, <1>4, <2>1 DEF FootAt, EndAt
<1> HIDE DEF size, foot, d
<1>7. ASSUME NEW b \in B \ P
      PROVE  /\ b < lo \/ hi < b
             /\ b < lo => EndAt(m, b) <= lo
             /\ hi < b => EndAt(m, hi) <= b /\ added = 0
  <2>1. b \in Nat /\ b < EndAt(m, b) /\ EndAt(m, b) <= e /\ EndAt(m, b) \in Nat
    BY BlockNumbers
  <2>2. b < lo \/ hi < b
    BY <1>1, <1>2, <2>1
  <2>3. b < lo => EndAt(m, b) <= lo
    BY <1>1 DEF Tiles, Separate
  <2>4. hi < b => EndAt(m, hi) <= b
    BY <1>1 DEF Tiles, Separate
  <2>5. hi < b => added = 0
    BY <1>2, <2>1, <2>4
  <2> QED
    BY <2>2, <2>3, <2>4, <2>5
<1>8. ASSUME NEW b \in B \ P
      PROVE  /\ b \notin Copies(m, P) /\ FootAt(m, b) \notin Copies(m, P)
             /\ b # lo /\ b # foot /\ FootAt(m, b) # lo /\ FootAt(m, b) # foot
  <2>1. /\ b \in Nat /\ FootAt(m, b) \in Nat /\ b < FootAt(m, b) /\ EndAt(m, b) \in Nat
        /\ FootAt(m, b) < EndAt(m, b)
    BY BlockNumbers
  <2>2. ASSUME NEW a \in P PROVE b # FootAt(m, a) /\ FootAt(m, b) # FootAt(m, a) /\ FootAt(m, b) # a
    <3>1. a \in B /\ b \in B /\ a # b
      BY <1>1, <2>2
    <3>2. FootAt(m, a) \notin B /\ FootAt(m, b) \notin B /\ (FootAt(m, a) = FootAt(m, b) => a = b)
      BY <3>1, OtherAddresses
    <3> QED
      BY <3>1, <3>2
  <2>3. b \notin Copies(m, P) /\ FootAt(m, b) \notin Copies(m, P)
    BY <2>2 DEF Copies
  <2>4. CASE b < lo
    <3>1. EndAt(m, b) <= lo
      BY <1>7, <2>4
    <3>2. FootAt(m, b) < lo /\ b < lo /\ FootAt(m, b) < foot /\ b < foot
      BY <1>2, <1>4, <2>1, <3>1
    <3> QED
      BY <1>2, <1>4, <2>1, <2>3, <3>2
  <2>5. CASE hi < b
    <3>1. FootAt(m, hi) < EndAt(m, hi) /\ FootAt(m, hi) \in Nat
      BY <1>2
    <3>2. EndAt(m, hi) <= b /\ added = 0
      BY <1>7, <2>5
    <3>3. foot < b /\ lo < b /\ foot < FootAt(m, b) /\ lo < FootAt(m, b)
      BY <1>1, <1>2, <1>4, <2>1, <3>1, <3>2
    <3> QED
      BY <1>2, <1>4, <2>1, <2>3, <3>3
  <2> QED
    BY <1>7, <2>3, <2>4, <2>5
<1>9. ASSUME NEW b \in B \ P
      PROVE  /\ m2[b] = m[b] /\ b \in DOMAIN m2
             /\ FootAt(m, b) \in DOMAIN m2 /\ m2[FootAt(m, b)] = m[b]
  <2>1. b \in DOMAIN m /\ FootAt(m, b) \in DOMAIN m /\ m[FootAt(m, b)] = m[b]
    BY DEF Tiles, Headed
  <2> QED
    BY <1>5, <1>8, <2>1
<1>10. ASSUME NEW b \in B \ P
       PROVE FootAt(m2, b) = FootAt(m, b) /\ EndAt(m2, b) = EndAt(m, b)
  BY <1>9 DEF FootAt, EndAt
<1>11. ASSUME NEW x \in DOMAIN m2
       PROVE  \/ x = lo \/ x = foot \/ x \in B \ P
              \/ x \in MapAddrs /\ x \in DOMAIN m /\ m2[x] = m[x]
              \/ \E a \in B \ P : x = FootAt(m, a)
  <2>1. SUFFICES ASSUME x # lo, x # foot
                 PROVE  \/ x \in B \ P
                        \/ x \in MapAddrs /\ x \in DOMAIN m /\ m2[x] = m[x]
                        \/ \E a \in B \ P : x = FootAt(m, a)
    OBVIOUS
  <2>2. x \in DOMAIN m /\ x \notin Copies(m, P) /\ m2[x] = m[x]
    BY <1>5, <2>1
  <2>3. x \in B \/ x \in MapAddrs \/ \E a \in B : x = FootAt(m, a)
    BY <2>2 DEF Tiles, Known
  <2> QED
    BY <2>2, <2>3 DEF Copies
<1>12. FusedSize(m, lo, hi, added) \in Nat /\ m2[lo] = [size |-> FusedSize(m, lo, hi, added), is_free |-> flag]
  BY <1>3, <1>5 DEF size, d
<1>13. lo \in DOMAIN m2 /\ foot \in DOMAIN m2 /\ m2[foot] = m2[lo]
  BY <1>5
<1>14. Whole(m, m2, lo, hi, added, flag)
  BY <1>6, <1>12, <1>13 DEF Whole
<1>15. Beside(B, m, m2, P, lo, hi, added)
  BY <1>7, <1>9, <1>10 DEF Beside
<1>16. Whereabouts(B, m, m2, P, lo)
  BY <1>6, <1>11 DEF Whereabouts
<1> QED
  BY <1>14, <1>15, <1>16

LEMMA FuseTiles ==
  ASSUME NEW B, NEW m, NEW e, Tiles(B, m, e), NEW P, NEW lo, NEW hi, Interval(B, P, lo, hi),
         NEW added \in Nat, added = 0 \/ EndAt(m, hi) = e, e + added <= HeapEnd,
         NEW flag \in BOOLEAN, NEW m2, Fused(m, m2, P, lo, hi, added, flag)
  PROVE  Tiles((B \ P) \cup {lo}, m2, e + added) /\ RestSame(B, m, P, m2)
<1> DEFINE C == (B \ P) \cup {lo}
           size == FusedSize(m, lo, hi, added)
<1>1. /\ lo \in B /\ hi \in B /\ lo <= hi /\ lo \in P
      /\ \A b \in B : b \in P <=> lo <= b /\ b <= hi
      /\ P \subseteq B
  BY DEF Interval
<1>2. /\ e \in Nat /\ lo \in Nat /\ hi \in Nat /\ lo # 0 /\ EndAt(m, hi) \in Nat /\ EndAt(m, hi) <= e
      /\ hi < EndAt(m, hi) /\ e <= HeapEnd /\ FootAt(m, hi) \in Nat /\ FootAt(m, hi) < EndAt(m, hi)
  BY <1>1, BlockNumbers
<1>3. /\ size \in Nat
      /\ m2[lo] = [size |-> size, is_free |-> flag]
      /\ lo \in DOMAIN m2 /\ FootAt(m2, lo) \in DOMAIN m2 /\ m2[FootAt(m2, lo)] = m2[lo]
      /\ EndAt(m2, lo) = EndAt(m, hi) + added
  BY FuseShape DEF Whole
<1>4. \A b \in B \ P :
        /\ m2[b] = m[b] /\ b \in DOMAIN m2
        /\ FootAt(m2, b) = FootAt(m, b) /\ EndAt(m2, b) = EndAt(m, b)
        /\ FootAt(m, b) \in DOMAIN m2 /\ m2[FootAt(m, b)] = m2[b]
  BY FuseShape DEF Beside
<1>5. \A b \in B \ P :
        /\ b < lo \/ hi < b
        /\ b < lo => EndAt(m, b) <= lo
        /\ hi < b => EndAt(m, hi) <= b /\ added = 0
  BY FuseShape DEF Beside
<1>6. \A x \in DOMAIN m2 :
        \/ x = lo \/ x = FootAt(m2, lo) \/ x \in B \ P
        \/ x \in MapAddrs /\ x \in DOMAIN m /\ m2[x] = m[x]
        \/ \E a \in B \ P : x = FootAt(m, a)
  BY FuseShape DEF Whereabouts
<1>7. \A b \in B : /\ b \in Nat /\ EndAt(m, b) \in Nat /\ b < EndAt(m, b) /\ EndAt(m, b) <= e
                   /\ m[b] \in Meta /\ b # 0
  BY BlockNumbers
<1> HIDE DEF size
<1>8. m2[lo] \in Meta
  BY <1>3 DEF Meta
<1>9. Headed(C, m2)
  BY <1>2, <1>3, <1>4, <1>7 DEF Headed, NULL
<1>10. Adjoin(C, m2, e + added)
  <2>1. EndAt(m2, lo) <= e + added
    BY <1>2, <1>3
  <2>2. EndAt(m2, lo) \in C \/ EndAt(m2, lo) = e + added
    <3>1. CASE EndAt(m, hi) = e
      BY <1>3, <3>1
    <3>2. CASE EndAt(m, hi) # e
      <4>1. added = 0 /\ EndAt(m, hi) \in B
        BY <1>1, <3>2 DEF Tiles, Adjoin
      <4>2. EndAt(m, hi) \notin P
        BY <1>1, <1>2
      <4> QED
        BY <1>2, <1>3, <4>1, <4>2
    <3> QED
      BY <3>1, <3>2
  <2>3. ASSUME NEW b \in B \ P
        PROVE  EndAt(m2, b) <= e + added /\ (EndAt(m2, b) \in C \/ EndAt(m2, b) = e + added)
    <3>1. EndAt(m2, b) = EndAt(m, b) /\ EndAt(m, b) <= e /\ (EndAt(m, b) \in B \/ EndAt(m, b) = e)
      BY <1>4 DEF Tiles, Adjoin
    <3>2. b \in Nat /\ EndAt(m, b) \in Nat /\ b < EndAt(m, b)
      BY <1>7
    <3>3. CASE b < lo
      <4>1. EndAt(m, b) <= lo /\ lo < EndAt(m, lo) /\ EndAt(m, lo) <= e /\ EndAt(m, lo) \in Nat
        BY <1>1, <1>5, <1>7, <3>3
      <4>2. EndAt(m, b) \in B
        BY <1>2, <3>1, <3>2, <4>1
      <4>3. EndAt(m, b) = lo \/ EndAt(m, b) \notin P
        BY <1>1, <1>2, <3>2, <4>1, <4>2
      <4>4. EndAt(m2, b) \in C
        BY <3>1, <4>2, <4>3
      <4>5. EndAt(m2, b) <= e + added
        BY <1>2, <3>1, <3>2
      <4> QED
        BY <4>4, <4>5
    <3>4. CASE hi < b
      <4>1. added = 0
        BY <1>5, <3>4
      <4>2. EndAt(m, b) \notin P
        BY <1>1, <1>2, <3>2, <3>4
      <4> QED
        BY <1>2, <3>1, <4>1, <4>2
    <3> QED
      BY <1>5, <3>3, <3>4
  <2> QED
    BY <2>1, <2>2, <2>3 DEF Adjoin
<1>11. Separate(C, m2)
  <2>1. ASSUME NEW b \in B \ P, b < lo PROVE EndAt(m2, b) <= lo
    BY <1>4, <1>5, <2>1
  <2>2. ASSUME NEW b \in B \ P, lo < b PROVE EndAt(m2, lo) <= b
    <3>1. hi < b
      BY <1>2, <1>5, <1>7, <2>2
    <3>2. added = 0 /\ EndAt(m, hi) <= b
      BY <1>5, <3>1
    <3> QED
      BY <1>2, <1>3, <3>2
  <2>3. ASSUME NEW a \in B \ P, NEW b \in B \ P, a < b PROVE EndAt(m2, a) <= b
    BY <1>4, <2>3 DEF Tiles, Separate
  <2>4. ~ (lo < lo)
    BY <1>2
  <2> QED
    BY <2>1, <2>2, <2>3, <2>4 DEF Separate
<1>12. Known(C, m2)
  <2> SUFFICES ASSUME NEW x \in DOMAIN m2
               PROVE  m2[x] \in Meta /\ (x \in C \/ x \in MapAddrs \/ \E a \in C : x = FootAt(m2, a))
    BY DEF Known
  <2>1. CASE x = lo
    BY <1>8, <2>1
  <2>2. CASE x = FootAt(m2, lo)
    BY <1>3, <1>8, <2>2
  <2>3. CASE x \in B \ P
    BY <1>4, <1>7, <2>3
  <2>4. CASE x \in MapAddrs /\ x \in DOMAIN m /\ m2[x] = m[x]
    BY <2>4 DEF Tiles, Known
  <2>5. CASE \E a \in B \ P : x = FootAt(m, a)
    BY <1>4, <1>7, <2>5
  <2> QED
    BY <1>6, <2>1, <2>2, <2>3, <2>4, <2>5
<1>13. Rooted(C, m2)
  <2>1. \A x \in C : x = lo \/ x \in B \ P
    OBVIOUS
  <2>2. ASSUME NEW b \in C
        PROVE  (\E a \in C : EndAt(m2, a) = b) \/ ((\A x \in C : b <= x) /\ b % Align = 0)
    <3>1. b \in B /\ \A x \in C : x \in B
      BY <1>1, <2>1
    <3>2. CASE (\A x \in B : b <= x) /\ b % Align = 0
      BY <3>1, <3>2
    <3>3. CASE \E a \in B : EndAt(m, a) = b
      <4>1. PICK a \in B : EndAt(m, a) = b
        BY <3>3
      <4>2. CASE a \notin P
        BY <1>4, <4>1, <4>2
      <4>3. CASE a \in P
        <5>1. b # lo
          BY <1>1, <1>2, <1>7, <4>1, <4>3
        <5>2. b \in B \ P /\ hi < b /\ added = 0 /\ EndAt(m, hi) <= b
          <6>1. b \in B \ P
            BY <2>1, <5>1
          <6>2. lo < b
            BY <1>1, <1>2, <1>7, <4>1, <4>3
          <6>3. hi < b
            BY <1>2, <1>5, <1>7, <6>1, <6>2
          <6> QED
            BY <1>5, <6>1, <6>3
        <5>3. a = hi
          <6>1. a <= hi /\ a \in Nat
            BY <1>1, <1>7, <4>3
          <6>2. a < hi => EndAt(m, a) <= hi
            BY <1>1 DEF Tiles, Separate
          <6> QED
            BY <1>2, <1>7, <4>1, <5>2, <6>1, <6>2
        <5>4. EndAt(m2, lo) = b
          BY <1>2, <1>3, <4>1, <5>2, <5>3
        <5> QED
          BY <5>4
      <4> QED
        BY <4>2, <4>3
    <3> QED
      BY <3>1, <3>2, <3>3 DEF Tiles, Rooted
  <2> QED
    BY <2>2, Zenon DEF Rooted
<1>14. Ended(C, m2, e + added)
  <2>1. e + added \in Nat /\ e + added <= HeapEnd
    BY <1>2
  <2>2. \E a \in C : EndAt(m2, a) = e + added
    <3>1. CASE EndAt(m, hi) = e
      BY <1>3, <3>1
    <3>2. CASE EndAt(m, hi) # e
      <4>1. PICK a \in B : EndAt(m, a) = e
        BY <1>1 DEF Tiles, Ended
      <4>2. a \notin P
        <5>1. SUFFICES ASSUME a \in P PROVE FALSE
          OBVIOUS
        <5>2. a < hi
          BY <1>1, <1>2, <1>7, <3>2, <4>1, <5>1
        <5>3. EndAt(m, a) <= hi
          BY <1>1, <5>2 DEF Tiles, Separate
        <5> QED
          BY <1>2, <4>1, <5>3
      <4> QED
        BY <1>2, <1>4, <3>2, <4>1, <4>2
    <3> QED
      BY <3>1, <3>2
  <2> QED
    BY <2>1, <2>2 DEF Ended
<1>15. RestSame(B, m, P, m2)
  <2>1. FootAt(m2, lo) \notin MapAddrs /\ lo \notin MapAddrs
    <3>1. FootAt(m2, lo) = FootAt(m, hi) + added /\ FootAt(m2, lo) <= HeapEnd /\ lo <= HeapEnd
      BY <1>2, <1>3, HeapAssumption DEF FootAt, EndAt
    <3> QED
      BY <1>2, <3>1, HeapAssumption
  <2>2. \A a \in B : a \notin MapAddrs /\ FootAt(m, a) \notin MapAddrs
    BY OwnAddresses
  <2>3. ASSUME NEW x \in DOMAIN m2 \cap MapAddrs PROVE x \in DOMAIN m /\ m2[x] = m[x]
    BY <1>6, <2>1, <2>2
  <2>4. ASSUME NEW x \in DOMAIN m \cap MapAddrs PROVE x \in DOMAIN m2
    <3>1. x \notin Copies(m, P)
      BY <1>1, <2>2 DEF Copies
    <3> QED
      BY <3>1 DEF Fused, Recorded
  <2> QED
    BY <1>4, <2>3, <2>4 DEF RestSame
<1>16. MapsKnown(m2)
  BY <1>15 DEF RestSame, Tiles, MapsKnown
<1> QED
  BY <1>9, <1>10, <1>11, <1>12, <1>13, <1>14, <1>15, <1>16 DEF Tiles

-----------------------------------------------------------------------------
(* A block split, a block at the break, mappings.                          *)

\* What lies within a block is no other's.
LEMMA Within ==
  ASSUME NEW B, NEW m, NEW e, Tiles(B, m, e), NEW a \in B, NEW x \in Nat,
         a < x, x < EndAt(m, a)
  PROVE  /\ x \notin B /\ x \notin MapAddrs /\ x > 0
         /\ \A b \in B \ {a} : x # FootAt(m, b)
<1>1. /\ a \in Nat /\ EndAt(m, a) \in Nat /\ EndAt(m, a) <= e /\ e <= HeapEnd /\ e \in Nat
      /\ HeapEnd \in Nat
  BY BlockNumbers, HeapAssumption
<1>2. x \notin MapAddrs
  BY <1>1, HeapAssumption
<1>3. ASSUME NEW b \in B, b # a PROVE x # b /\ x # FootAt(m, b)
  <2>1. /\ b \in Nat /\ b < FootAt(m, b) /\ FootAt(m, b) < EndAt(m, b) /\ FootAt(m, b) \in Nat
        /\ EndAt(m, b) \in Nat
    BY BlockNumbers
  <2>2. CASE a < b
    <3>1. EndAt(m, a) <= b
      BY <2>2 DEF Tiles, Separate
    <3> QED
      BY <1>1, <2>1, <3>1
  <2>3. CASE b < a
    <3>1. EndAt(m, b) <= a
      BY <2>3 DEF Tiles, Separate
    <3> QED
      BY <1>1, <2>1, <3>1
  <2> QED
    BY <1>1, <1>3, <2>1, <2>2, <2>3
<1> QED
  BY <1>1, <1>2, <1>3

\* m2 is m with block a split after n bytes, at the address high.
Halved(m, m2, a, n, high, rest) ==
  /\ DOMAIN m2 = DOMAIN m \cup {a + SOM + n, high}
  /\ m2[a] = [size |-> n, is_free |-> FALSE]
  /\ m2[a + SOM + n] = [size |-> n, is_free |-> FALSE]
  /\ m2[high] = [size |-> rest, is_free |-> FALSE]
  /\ m2[FootAt(m, a)] = [size |-> rest, is_free |-> FALSE]
  /\ \A x \in DOMAIN m : x \notin {a, a + SOM + n, high, FootAt(m, a)} => m2[x] = m[x]

\* The two blocks made of a.
Halves(m, m2, a, n, high, rest) ==
  /\ high \in Nat /\ high > a
  /\ m2[a] = [size |-> n, is_free |-> FALSE] /\ m2[high] = [size |-> rest, is_free |-> FALSE]
  /\ FootAt(m2, a) = a + SOM + n /\ EndAt(m2, a) = high
  /\ FootAt(m2, high) = FootAt(m, a) /\ EndAt(m2, high) = EndAt(m, a)

\* The other blocks are as they were.
Elsewhere(B, m, m2) ==
  \A b \in B :
    /\ b \in DOMAIN m2 /\ FootAt(m, b) \in DOMAIN m2
    /\ m2[b] = m[b] /\ m2[FootAt(m, b)] = m[b]
    /\ FootAt(m2, b) = FootAt(m, b) /\ EndAt(m2, b) = EndAt(m, b)

LEMMA HalvesFacts ==
  ASSUME NEW B, NEW m, NEW e, Tiles(B, m, e), NEW a \in B, NEW n \in Nat, NEW rest \in Nat,
         NEW high, high = a + n + 2 * SOM, m[a].size = n + 2 * SOM + rest,
         NEW m2, Halved(m, m2, a, n, high, rest)
  PROVE  /\ Halves(m, m2, a, n, high, rest) /\ high \notin B
         /\ Elsewhere(B \ {a}, m, m2) /\ RestSame(B, m, {a}, m2)
         /\ \A x \in {a + SOM + n, high} : x \notin B /\ x \notin MapAddrs
<1> DEFINE mid == a + SOM + n
<1>1. /\ a \in Nat /\ a > 0 /\ SOM \in Nat /\ SOM > 0 /\ FootAt(m, a) = a + SOM + m[a].size
      /\ EndAt(m, a) = FootAt(m, a) + SOM /\ a \in DOMAIN m /\ FootAt(m, a) \in DOMAIN m
  BY BlockNumbers DEF Tiles, Headed
<1>2. /\ mid \in Nat /\ high \in Nat /\ a < mid /\ mid < high /\ high < FootAt(m, a)
      /\ high < EndAt(m, a) /\ mid < EndAt(m, a)
      /\ FootAt(m, a) = high + SOM + rest /\ high = mid + SOM
      /\ FootAt(m, a) \in Nat /\ FootAt(m, a) < EndAt(m, a)
  BY <1>1
<1> HIDE DEF mid
<1>3. Halves(m, m2, a, n, high, rest)
  <2>1. m2[a] = [size |-> n, is_free |-> FALSE] /\ m2[high] = [size |-> rest, is_free |-> FALSE]
    BY DEF Halved
  <2>2. m2[a].size = n /\ m2[high].size = rest
    BY <2>1
  <2> QED
    BY <1>1, <1>2, <2>1, <2>2 DEF Halves, FootAt, EndAt, mid
<1>4. /\ mid \notin B /\ mid \notin MapAddrs /\ \A b \in B \ {a} : mid # FootAt(m, b)
  BY <1>2, Within
<1>5. /\ high \notin B /\ high \notin MapAddrs /\ \A b \in B \ {a} : high # FootAt(m, b)
  <2>1. a < high
    BY <1>1, <1>2
  <2>2. high \in Nat /\ high < EndAt(m, a)
    BY <1>2
  <2> QED
    BY <2>1, <2>2, Within
<1>6. a \notin MapAddrs /\ FootAt(m, a) \notin MapAddrs
  BY OwnAddresses
<1>7. ASSUME NEW b \in B \ {a}
      PROVE  /\ b \in DOMAIN m2 /\ FootAt(m, b) \in DOMAIN m2
             /\ m2[b] = m[b] /\ m2[FootAt(m, b)] = m[b]
             /\ FootAt(m2, b) = FootAt(m, b) /\ EndAt(m2, b) = EndAt(m, b)
  <2>1. b \in DOMAIN m /\ FootAt(m, b) \in DOMAIN m /\ m[FootAt(m, b)] = m[b]
    BY DEF Tiles, Headed
  <2>2. FootAt(m, b) \notin B /\ FootAt(m, a) \notin B /\ FootAt(m, a) # FootAt(m, b)
    BY OtherAddresses
  <2>3. b \notin {a, mid, high, FootAt(m, a)} /\ FootAt(m, b) \notin {a, mid, high, FootAt(m, a)}
    BY <1>4, <1>5, <2>2
  <2>4. /\ b \in DOMAIN m2 /\ FootAt(m, b) \in DOMAIN m2
        /\ m2[b] = m[b] /\ m2[FootAt(m, b)] = m[b]
    BY <2>1, <2>3 DEF Halved, mid
  <2> QED
    BY <2>4 DEF FootAt, EndAt
<1>8. Elsewhere(B \ {a}, m, m2)
  BY <1>7, Zenon DEF Elsewhere
<1>9. RestSame(B, m, {a}, m2)
  <2>1. DOMAIN m2 \cap MapAddrs = DOMAIN m \cap MapAddrs
    BY <1>4, <1>5 DEF Halved, mid
  <2>2. ASSUME NEW x \in DOMAIN m \cap MapAddrs PROVE m2[x] = m[x]
    BY <1>4, <1>5, <1>6 DEF Halved, mid
  <2> QED
    BY <1>7, <2>1, <2>2 DEF RestSame
<1> QED
  BY <1>3, <1>4, <1>5, <1>8, <1>9 DEF mid

LEMMA SplitTiles ==
  ASSUME NEW B, NEW m, NEW e, Tiles(B, m, e), NEW a \in B, NEW n \in Nat, NEW rest \in Nat,
         NEW high, high = a + n + 2 * SOM, m[a].size = n + 2 * SOM + rest,
         NEW m2, Halved(m, m2, a, n, high, rest)
  PROVE  Tiles(B \cup {high}, m2, e)
<1> DEFINE C == B \cup {high}
<1>1. /\ Halves(m, m2, a, n, high, rest) /\ high \notin B
      /\ Elsewhere(B \ {a}, m, m2) /\ RestSame(B, m, {a}, m2)
      /\ \A x \in {a + SOM + n, high} : x \notin B /\ x \notin MapAddrs
  BY HalvesFacts
<1>2. /\ high \in Nat /\ a < high /\ a \in Nat /\ high < EndAt(m, a) /\ high > 0
      /\ EndAt(m, a) \in Nat /\ EndAt(m, a) <= e /\ e <= HeapEnd /\ e \in Nat
      /\ m2[a] = [size |-> n, is_free |-> FALSE] /\ m2[high] = [size |-> rest, is_free |-> FALSE]
      /\ FootAt(m2, a) = a + SOM + n /\ EndAt(m2, a) = high
      /\ FootAt(m2, high) = FootAt(m, a) /\ EndAt(m2, high) = EndAt(m, a)
      /\ a > 0
  <2>1. /\ a \in Nat /\ a > 0 /\ EndAt(m, a) \in Nat /\ EndAt(m, a) <= e /\ e <= HeapEnd /\ e \in Nat
        /\ SOM \in Nat /\ SOM > 0 /\ EndAt(m, a) = a + SOM + m[a].size + SOM
    BY BlockNumbers
  <2>2. high < EndAt(m, a)
    BY <2>1
  <2> QED
    BY <1>1, <2>1, <2>2 DEF Halves
<1>3. \A b \in B \ {a} :
        /\ b \in DOMAIN m2 /\ FootAt(m, b) \in DOMAIN m2
        /\ m2[b] = m[b] /\ m2[FootAt(m, b)] = m[b]
        /\ FootAt(m2, b) = FootAt(m, b) /\ EndAt(m2, b) = EndAt(m, b)
  BY <1>1, Zenon DEF Elsewhere
<1>4. \A b \in B : /\ b \in Nat /\ b > 0 /\ EndAt(m, b) \in Nat /\ b < EndAt(m, b)
                   /\ EndAt(m, b) <= e /\ m[b] \in Meta
  BY BlockNumbers
<1>5. /\ a \in DOMAIN m2 /\ high \in DOMAIN m2
      /\ FootAt(m2, a) \in DOMAIN m2 /\ m2[FootAt(m2, a)] = m2[a]
      /\ FootAt(m2, high) \in DOMAIN m2 /\ m2[FootAt(m2, high)] = m2[high]
      /\ DOMAIN m2 = DOMAIN m \cup {a + SOM + n, high}
  BY <1>2 DEF Halved, Tiles, Headed
<1>6. \A b \in B : (a < b => EndAt(m, a) <= b) /\ (b < a => EndAt(m, b) <= a)
  BY DEF Tiles, Separate
<1>7. Headed(C, m2)
  BY <1>2, <1>3, <1>4, <1>5 DEF Headed, NULL
<1>8. Adjoin(C, m2, e)
  <2>1. EndAt(m2, a) <= e /\ EndAt(m2, a) \in C
    BY <1>2
  <2>2. EndAt(m2, high) <= e /\ (EndAt(m2, high) \in C \/ EndAt(m2, high) = e)
    BY <1>2 DEF Tiles, Adjoin
  <2>3. ASSUME NEW b \in B \ {a} PROVE EndAt(m2, b) <= e /\ (EndAt(m2, b) \in C \/ EndAt(m2, b) = e)
    BY <1>3 DEF Tiles, Adjoin
  <2> QED
    BY <2>1, <2>2, <2>3 DEF Adjoin
<1>9. Separate(C, m2)
  <2>1. ASSUME NEW b \in B, b < high PROVE EndAt(m2, b) <= high
    <3>1. CASE b = a
      BY <1>2, <3>1
    <3>2. CASE b # a
      <4>1. b < a
        BY <1>2, <1>4, <1>6, <2>1, <3>2
      <4>2. EndAt(m2, b) = EndAt(m, b) /\ EndAt(m, b) <= a
        BY <1>3, <1>6, <3>2, <4>1
      <4> QED
        BY <1>2, <1>4, <4>2
    <3> QED
      BY <3>1, <3>2
  <2>2. ASSUME NEW b \in B, high < b PROVE EndAt(m2, high) <= b
    BY <1>2, <1>4, <1>6, <2>2
  <2>3. ASSUME NEW b \in B, NEW c \in B, b < c PROVE EndAt(m2, b) <= c
    <3>1. EndAt(m, b) <= c
      BY <2>3 DEF Tiles, Separate
    <3>2. CASE b = a
      <4>1. EndAt(m2, b) = high
        BY <1>2, <3>2
      <4>2. EndAt(m, a) <= c /\ c \in Nat
        BY <1>4, <3>1, <3>2
      <4> QED
        BY <1>2, <4>1, <4>2
    <3>3. CASE b # a
      BY <1>3, <3>1, <3>3
    <3> QED
      BY <3>2, <3>3
  <2> QED
    BY <1>2, <2>1, <2>2, <2>3 DEF Separate
<1>10. Known(C, m2)
  <2>1. m2[a] \in Meta /\ m2[high] \in Meta
    BY <1>2 DEF Meta
  <2> SUFFICES ASSUME NEW x \in DOMAIN m2
               PROVE  m2[x] \in Meta /\ (x \in C \/ x \in MapAddrs \/ \E b \in C : x = FootAt(m2, b))
    BY DEF Known
  <2>2. CASE x \in C
    <3>1. x = a \/ x = high \/ x \in B \ {a}
      BY <2>2
    <3> QED
      BY <1>3, <1>4, <2>1, <2>2, <3>1
  <2>3. CASE x = a + SOM + n
    BY <1>2, <1>5, <2>1, <2>3
  <2>4. CASE x = FootAt(m, a)
    BY <1>2, <1>5, <2>1, <2>4
  <2>5. CASE x \notin C /\ x # a + SOM + n /\ x # FootAt(m, a)
    <3>1. x \in DOMAIN m /\ m2[x] = m[x]
      BY <1>5, <2>5 DEF Halved
    <3>2. m[x] \in Meta /\ (x \in B \/ x \in MapAddrs \/ \E b \in B : x = FootAt(m, b))
      BY <3>1 DEF Tiles, Known
    <3> QED
      BY <1>3, <2>5, <3>1, <3>2
  <2> QED
    BY <2>2, <2>3, <2>4, <2>5
<1>11. Rooted(C, m2)
  <2>1. ASSUME NEW b \in C
        PROVE  (\E x \in C : EndAt(m2, x) = b) \/ ((\A x \in C : b <= x) /\ b % Align = 0)
    <3>1. CASE b = high
      BY <1>2, <3>1
    <3>2. CASE b \in B /\ \E x \in B : EndAt(m, x) = b
      <4>1. PICK x \in B : EndAt(m, x) = b
        BY <3>2
      <4>2. CASE x = a
        BY <1>2, <4>1, <4>2
      <4>3. CASE x # a
        BY <1>3, <4>1, <4>3
      <4> QED
        BY <4>2, <4>3
    <3>3. CASE b \in B /\ (\A x \in B : b <= x) /\ b % Align = 0
      <4>1. b <= high
        BY <1>2, <1>4, <3>3
      <4> QED
        BY <3>3, <4>1
    <3> QED
      BY <3>1, <3>2, <3>3 DEF Tiles, Rooted
  <2> QED
    BY <2>1, Zenon DEF Rooted
<1>12. Ended(C, m2, e)
  <2>1. PICK b \in B : EndAt(m, b) = e
    BY DEF Tiles, Ended
  <2>2. \E x \in C : EndAt(m2, x) = e
    BY <1>2, <1>3, <2>1
  <2> QED
    BY <1>2, <2>2 DEF Ended
<1>13. MapsKnown(m2)
  BY <1>1 DEF RestSame, Tiles, MapsKnown
<1> QED
  BY <1>7, <1>8, <1>9, <1>10, <1>11, <1>12, <1>13 DEF Tiles

\* m2 is m with the metadata d at the addresses A as well.
AtBreak(m, m2, e, n) ==
  /\ DOMAIN m2 = DOMAIN m \cup {e, e + SOM + n}
  /\ m2[e] = [size |-> n, is_free |-> FALSE] /\ m2[e + SOM + n] = [size |-> n, is_free |-> FALSE]
  /\ \A x \in DOMAIN m : x \notin {e, e + SOM + n} => m2[x] = m[x]

LEMMA NewTiles ==
  ASSUME NEW B, NEW m, NEW e, Tiles(B, m, e), NEW n \in Nat, e > 0, B = {} => e % Align = 0,
         e + n + 2 * SOM <= HeapEnd, NEW m2, AtBreak(m, m2, e, n)
  PROVE  /\ Tiles(B \cup {e}, m2, e + n + 2 * SOM) /\ RestSame(B, m, {}, m2)
         /\ e \notin B /\ e \notin MapAddrs
         /\ m2[e] = [size |-> n, is_free |-> FALSE] /\ EndAt(m2, e) = e + n + 2 * SOM
         /\ Elsewhere(B, m, m2)
<1> DEFINE C == B \cup {e}
           foot == e + SOM + n
           f == e + n + 2 * SOM
<1>1. e \in Nat /\ SOM \in Nat /\ SOM > 0 /\ HeapEnd \in Nat
  BY BlockNumbers, HeapAssumption
<1>2. /\ foot \in Nat /\ f \in Nat /\ e < foot /\ foot < f /\ f <= HeapEnd
      /\ foot \notin MapAddrs /\ e \notin MapAddrs
  BY <1>1, HeapAssumption
<1>3. \A b \in B : /\ b \in Nat /\ b > 0 /\ EndAt(m, b) \in Nat /\ b < FootAt(m, b)
                   /\ FootAt(m, b) \in Nat /\ FootAt(m, b) < EndAt(m, b)
                   /\ EndAt(m, b) <= e /\ m[b] \in Meta
  BY BlockNumbers
<1>4. \A b \in B : b < e /\ FootAt(m, b) < e
  BY <1>1, <1>3
<1>5. /\ m2[e] = [size |-> n, is_free |-> FALSE] /\ m2[foot] = m2[e]
      /\ DOMAIN m2 = DOMAIN m \cup {e, foot}
      /\ \A x \in DOMAIN m : x # e /\ x # foot => m2[x] = m[x]
  BY DEF AtBreak
<1>6. FootAt(m2, e) = foot /\ EndAt(m2, e) = f
  <2>1. m2[e].size = n
    BY <1>5
  <2> QED
    BY <1>1, <2>1 DEF FootAt, EndAt
<1>7. ASSUME NEW b \in B
      PROVE  /\ b \in DOMAIN m2 /\ FootAt(m, b) \in DOMAIN m2
             /\ m2[b] = m[b] /\ m2[FootAt(m, b)] = m[b]
             /\ FootAt(m2, b) = FootAt(m, b) /\ EndAt(m2, b) = EndAt(m, b)
  <2>1. b \in DOMAIN m /\ FootAt(m, b) \in DOMAIN m /\ m[FootAt(m, b)] = m[b]
    BY DEF Tiles, Headed
  <2>2. b # e /\ b # foot /\ FootAt(m, b) # e /\ FootAt(m, b) # foot
    BY <1>1, <1>2, <1>3, <1>4
  <2>3. /\ b \in DOMAIN m2 /\ FootAt(m, b) \in DOMAIN m2
        /\ m2[b] = m[b] /\ m2[FootAt(m, b)] = m[b]
    BY <1>5, <2>1, <2>2
  <2> QED
    BY <2>3 DEF FootAt, EndAt
<1> HIDE DEF foot, f
<1>8. Headed(C, m2)
  <2>1. \A b \in B : b # NULL /\ m[FootAt(m, b)] = m[b]
    BY DEF Tiles, Headed
  <2>2. e # NULL
    BY <1>1 DEF NULL
  <2>3. ASSUME NEW b \in B
        PROVE  /\ b \in Nat /\ b # NULL /\ b \in DOMAIN m2
               /\ FootAt(m2, b) \in DOMAIN m2 /\ m2[FootAt(m2, b)] = m2[b]
    BY <1>3, <1>7, <2>1
  <2>4. /\ e \in DOMAIN m2 /\ FootAt(m2, e) \in DOMAIN m2 /\ m2[FootAt(m2, e)] = m2[e]
    BY <1>5, <1>6
  <2> QED
    BY <1>1, <2>2, <2>3, <2>4 DEF Headed
<1>9. Adjoin(C, m2, f)
  <2>1. \A b \in B : EndAt(m, b) \in B \/ EndAt(m, b) = e
    BY DEF Tiles, Adjoin
  <2> QED
    BY <1>1, <1>2, <1>3, <1>6, <1>7, <2>1 DEF Adjoin
<1>10. Separate(C, m2)
  <2>1. ASSUME NEW b \in B PROVE EndAt(m2, b) <= e /\ ~ (e < b)
    BY <1>1, <1>3, <1>4, <1>7
  <2>2. ASSUME NEW b \in B, NEW c \in B, b < c PROVE EndAt(m2, b) <= c
    BY <1>7, <2>2 DEF Tiles, Separate
  <2>3. ~ (e < e)
    BY <1>1
  <2> QED
    BY <2>1, <2>2, <2>3 DEF Separate
<1>11. Known(C, m2)
  <2>1. m2[e] \in Meta
    BY <1>5 DEF Meta
  <2> SUFFICES ASSUME NEW x \in DOMAIN m2
               PROVE  m2[x] \in Meta /\ (x \in C \/ x \in MapAddrs \/ \E b \in C : x = FootAt(m2, b))
    BY DEF Known
  <2>2. CASE x = e
    BY <2>1, <2>2
  <2>3. CASE x = foot
    BY <1>5, <1>6, <2>1, <2>3
  <2>4. CASE x # e /\ x # foot
    <3>1. x \in DOMAIN m /\ m2[x] = m[x]
      BY <1>5, <2>4
    <3>2. m[x] \in Meta /\ (x \in B \/ x \in MapAddrs \/ \E b \in B : x = FootAt(m, b))
      BY <3>1 DEF Tiles, Known
    <3> QED
      BY <1>7, <3>1, <3>2
  <2> QED
    BY <2>2, <2>3, <2>4
<1>12. Rooted(C, m2)
  <2>1. ASSUME NEW b \in C
        PROVE  (\E x \in C : EndAt(m2, x) = b) \/ ((\A x \in C : b <= x) /\ b % Align = 0)
    <3>1. CASE B = {}
      <4>1. b = e /\ (\A x \in C : x = e)
        BY <3>1
      <4> QED
        BY <1>1, <3>1, <4>1
    <3>2. CASE B # {} /\ b = e
      <4>1. PICK x \in B : EndAt(m, x) = e
        BY <3>2 DEF Tiles, Ended
      <4> QED
        BY <1>7, <3>2, <4>1
    <3>3. CASE b \in B /\ \E x \in B : EndAt(m, x) = b
      BY <1>7, <3>3
    <3>4. CASE b \in B /\ (\A x \in B : b <= x) /\ b % Align = 0
      BY <1>1, <1>3, <1>4, <3>4
    <3> QED
      BY <3>1, <3>2, <3>3, <3>4 DEF Tiles, Rooted
  <2> QED
    BY <2>1, Zenon DEF Rooted
<1>13. Ended(C, m2, f)
  BY <1>2, <1>6 DEF Ended
<1>14. RestSame(B, m, {}, m2)
  <2>1. DOMAIN m2 \cap MapAddrs = DOMAIN m \cap MapAddrs
    BY <1>2, <1>5
  <2>2. ASSUME NEW x \in DOMAIN m \cap MapAddrs PROVE m2[x] = m[x]
    BY <1>2, <1>5
  <2> QED
    BY <1>7, <2>1, <2>2 DEF RestSame
<1>15. MapsKnown(m2)
  BY <1>14 DEF RestSame, Tiles, MapsKnown
<1>16. Tiles(C, m2, f)
  BY <1>8, <1>9, <1>10, <1>11, <1>12, <1>13, <1>15 DEF Tiles
<1>17. Elsewhere(B, m, m2)
  BY <1>7, Zenon DEF Elsewhere
<1>18. e \notin B
  BY <1>1, <1>4
<1> QED
  BY <1>2, <1>5, <1>6, <1>14, <1>16, <1>17, <1>18 DEF f

\* m2 differs from m in a mapping only.
OnlyMappings(m, m2) ==
  /\ \A x \in DOMAIN m : x \notin MapAddrs => x \in DOMAIN m2 /\ m2[x] = m[x]
  /\ \A x \in DOMAIN m2 : x \notin MapAddrs => x \in DOMAIN m
  /\ \A x \in DOMAIN m2 \cap MapAddrs : m2[x] \in Meta
  /\ MapsKnown(m2)

LEMMA MapTiles ==
  ASSUME NEW B, NEW m, NEW e, Tiles(B, m, e), NEW m2, OnlyMappings(m, m2)
  PROVE  Tiles(B, m2, e) /\ Elsewhere(B, m, m2)
<1>1. ASSUME NEW b \in B
      PROVE  /\ b \in DOMAIN m2 /\ FootAt(m, b) \in DOMAIN m2
             /\ m2[b] = m[b] /\ m2[FootAt(m, b)] = m[b]
             /\ FootAt(m2, b) = FootAt(m, b) /\ EndAt(m2, b) = EndAt(m, b)
  <2>1. b \in DOMAIN m /\ FootAt(m, b) \in DOMAIN m /\ m[FootAt(m, b)] = m[b]
    BY DEF Tiles, Headed
  <2>2. b \notin MapAddrs /\ FootAt(m, b) \notin MapAddrs
    BY OwnAddresses
  <2>3. /\ b \in DOMAIN m2 /\ FootAt(m, b) \in DOMAIN m2
        /\ m2[b] = m[b] /\ m2[FootAt(m, b)] = m[b]
    BY <2>1, <2>2 DEF OnlyMappings
  <2> QED
    BY <2>3 DEF FootAt, EndAt
<1>2. Headed(B, m2)
  BY <1>1 DEF Tiles, Headed
<1>3. Adjoin(B, m2, e) /\ Separate(B, m2) /\ Rooted(B, m2) /\ Ended(B, m2, e)
  <2>1. Adjoin(B, m2, e)
    BY <1>1 DEF Tiles, Adjoin
  <2>2. Separate(B, m2)
    BY <1>1 DEF Tiles, Separate
  <2>3. Rooted(B, m2)
    BY <1>1 DEF Tiles, Rooted
  <2>4. Ended(B, m2, e)
    BY <1>1 DEF Tiles, Ended
  <2> QED
    BY <2>1, <2>2, <2>3, <2>4
<1>4. Known(B, m2)
  <2> SUFFICES ASSUME NEW x \in DOMAIN m2
               PROVE  m2[x] \in Meta /\ (x \in B \/ x \in MapAddrs \/ \E b \in B : x = FootAt(m2, b))
    BY DEF Known
  <2>1. CASE x \in MapAddrs
    BY <2>1 DEF OnlyMappings
  <2>2. CASE x \notin MapAddrs
    <3>1. x \in DOMAIN m /\ m2[x] = m[x]
      BY <2>2 DEF OnlyMappings
    <3> QED
      BY <1>1, <3>1 DEF Tiles, Known
  <2> QED
    BY <2>1, <2>2
<1>5. MapsKnown(m2)
  BY DEF OnlyMappings
<1>6. Elsewhere(B, m, m2)
  BY <1>1, Zenon DEF Elsewhere
<1> QED
  BY <1>2, <1>3, <1>4, <1>5, <1>6 DEF Tiles

-----------------------------------------------------------------------------
(* The list.                                                               *)

Precedes(m, a, b) == m[a].size < m[b].size \/ (m[a].size = m[b].size /\ a < b)

Ordered(l, m) == \A i, j \in DOMAIN l : i < j => Precedes(m, l[i], l[j])

Linked(l, m) ==
  l \in Seq(Nat \ {NULL}) /\ Ordered(l, m) /\ \A b \in ToSet(l) : m[b].size \in Nat

\* The entries of a list, as a set.
LEMMA Members ==
  ASSUME NEW l \in Seq(Nat \ {NULL})
  PROVE  /\ Len(l) \in Nat /\ DOMAIN l = 1 .. Len(l) /\ l \in Seq(Nat \ {NULL})
         /\ ToSet(l) = {l[i] : i \in DOMAIN l}
         /\ \A i \in DOMAIN l : l[i] \in ToSet(l) /\ l[i] \in Nat /\ l[i] # NULL
         /\ ToSet(l) \subseteq Nat \ {NULL} /\ IsFiniteSet(ToSet(l))
         /\ l = <<>> <=> ToSet(l) = {}
<1>1. Len(l) \in Nat /\ DOMAIN l = 1 .. Len(l) /\ \A i \in DOMAIN l : l[i] \in Nat \ {NULL}
  BY LenProperties, ElementOfSeq
<1>2. ToSet(l) = {l[i] : i \in DOMAIN l}
  BY DEF ToSet
<1>3. \A i \in DOMAIN l : l[i] \in ToSet(l)
  BY <1>2
<1>4. IsFiniteSet(DOMAIN l)
  BY <1>1, FS_Interval
<1>5. IsFiniteSet(ToSet(l))
  <2>1. l \in Surjection(DOMAIN l, ToSet(l))
    <3>1. l \in [DOMAIN l -> ToSet(l)]
      BY <1>1, <1>3
    <3> QED
      BY <1>2, <3>1 DEF Surjection
  <2> QED
    BY <1>4, <2>1, FS_Surjection
<1>6. l = <<>> <=> ToSet(l) = {}
  <2>1. CASE l = <<>>
    BY <1>2, <2>1, EmptySeq
  <2>2. CASE l # <<>>
    <3>1. 1 \in DOMAIN l
      BY <1>1, <2>2, EmptySeq
    <3> QED
      BY <1>3, <2>2, <3>1
  <2> QED
    BY <2>1, <2>2
<1> QED
  BY <1>1, <1>2, <1>3, <1>5, <1>6

\* No block is linked twice.
LEMMA LinkedOnce ==
  ASSUME NEW l, NEW m, Linked(l, m)
  PROVE  IsInjective(l)
<1>1. l \in Seq(Nat \ {NULL}) /\ DOMAIN l = 1 .. Len(l) /\ Len(l) \in Nat
  BY Members DEF Linked
<1>2. ASSUME NEW i \in DOMAIN l, NEW j \in DOMAIN l, i < j PROVE l[i] # l[j]
  <2>1. Precedes(m, l[i], l[j])
    BY <1>2 DEF Linked, Ordered
  <2>2. l[i] \in ToSet(l) /\ l[i] \in Nat
    BY <1>1, Members
  <2>3. m[l[i]].size \in Nat
    BY <2>2 DEF Linked
  <2> QED
    BY <2>1, <2>2, <2>3 DEF Precedes
<1>3. \A i, j \in DOMAIN l : l[i] = l[j] => i = j
  BY <1>1, <1>2
<1> QED
  BY <1>3 DEF IsInjective

\* Blocks that are taken off the list leave the others in order.
LEMMA Unlink ==
  ASSUME NEW l, NEW m, Linked(l, m), NEW A, NEW m2, SameSizes(m, m2, ToSet(l) \ A)
  PROVE  Linked(Without(l, A), m2) /\ ToSet(Without(l, A)) = ToSet(l) \ A
<1> DEFINE t == Without(l, A)
<1>1. l \in Seq(Nat \ {NULL}) /\ DOMAIN l = 1 .. Len(l) /\ Len(l) \in Nat
  BY Members DEF Linked
<1>2. t \in Seq(Nat \ {NULL}) /\ ToSet(t) = ToSet(l) \ A /\ Sublist(t, l)
  BY <1>1, WithoutFacts
<1> HIDE DEF t
<1>3. PICK g \in [DOMAIN t -> DOMAIN l] :
        /\ \A i, j \in DOMAIN t : i < j => g[i] < g[j]
        /\ \A i \in DOMAIN t : t[i] = l[g[i]]
  BY <1>2 DEF Sublist
<1>4. \A b \in ToSet(t) : m2[b].size = m[b].size /\ m2[b].size \in Nat
  BY <1>2 DEF SameSizes, Linked
<1>5. ASSUME NEW i \in DOMAIN t, NEW j \in DOMAIN t, i < j PROVE Precedes(m2, t[i], t[j])
  <2>1. Precedes(m, t[i], t[j])
    <3>1. g[i] \in DOMAIN l /\ g[j] \in DOMAIN l /\ g[i] < g[j]
      BY <1>3, <1>5
    <3>2. Precedes(m, l[g[i]], l[g[j]])
      BY <3>1 DEF Linked, Ordered
    <3> QED
      BY <1>3, <3>2
  <2>2. t[i] \in ToSet(t) /\ t[j] \in ToSet(t)
    BY <1>2, Members
  <2> QED
    BY <1>4, <2>1, <2>2 DEF Precedes
<1>6. Ordered(t, m2)
  BY <1>5 DEF Ordered
<1> QED
  BY <1>2, <1>4, <1>6 DEF Linked, t

\* The same list for metadata with the same sizes.
LEMMA Resized ==
  ASSUME NEW l, NEW m, Linked(l, m), NEW m2, SameSizes(m, m2, ToSet(l))
  PROVE  Linked(l, m2)
<1>1. l \in Seq(Nat \ {NULL})
  BY DEF Linked
<1>2. \A i \in DOMAIN l : l[i] \in ToSet(l)
  BY <1>1, Members
<1>3. \A i \in DOMAIN l : m[l[i]].size = m2[l[i]].size
  BY <1>2 DEF SameSizes
<1>4. Ordered(l, m2)
  BY <1>3 DEF Linked, Ordered, Precedes
<1> QED
  BY <1>4 DEF Linked, SameSizes

\* An entry put between those that precede it and those it precedes, and two
\* entries of what results.
EntryAt(t, l, n, k, a) ==
  \A i \in 1 .. n + 1 : t[i] = IF i < k THEN l[i] ELSE IF i = k THEN a ELSE l[i - 1]

Parted(m, l, n, k, a) ==
  /\ \A i, j \in 1 .. n : i < j => Precedes(m, l[i], l[j])
  /\ \A i \in 1 .. n : IF i < k THEN Precedes(m, l[i], a) ELSE Precedes(m, a, l[i])

LEMMA PutBetween ==
  ASSUME NEW n \in Nat, NEW l, NEW m, NEW a, NEW k \in 1 .. n + 1, NEW t,
         EntryAt(t, l, n, k, a), Parted(m, l, n, k, a),
         NEW i \in 1 .. n + 1, NEW j \in 1 .. n + 1, i < j
  PROVE  Precedes(m, t[i], t[j])
<1>1. /\ t[i] = IF i < k THEN l[i] ELSE IF i = k THEN a ELSE l[i - 1]
      /\ t[j] = IF j < k THEN l[j] ELSE IF j = k THEN a ELSE l[j - 1]
  BY DEF EntryAt
<1>2. CASE j < k
  <2>1. i < k /\ i \in 1 .. n /\ j \in 1 .. n
    BY <1>2
  <2> QED
    BY <1>1, <1>2, <2>1 DEF Parted
<1>3. CASE j = k
  <2>1. i < k /\ i \in 1 .. n /\ ~ (j < k)
    BY <1>3
  <2> QED
    BY <1>1, <1>3, <2>1 DEF Parted
<1>4. CASE k < j
  <2>1. ~ (j < k) /\ j # k /\ j - 1 \in 1 .. n /\ k <= j - 1
    BY <1>4
  <2>2. CASE i < k
    <3>1. i \in 1 .. n /\ i < j - 1
      BY <1>4, <2>2
    <3> QED
      BY <1>1, <2>1, <2>2, <3>1 DEF Parted
  <2>3. CASE i = k
    BY <1>1, <2>1, <2>3 DEF Parted
  <2>4. CASE k < i
    <3>1. ~ (i < k) /\ i # k /\ i - 1 \in 1 .. n /\ i - 1 < j - 1
      BY <2>4
    <3>2. t[i] = l[i - 1] /\ t[j] = l[j - 1]
      BY <1>1, <2>1, <3>1
    <3> QED
      BY <2>1, <3>1, <3>2 DEF Parted
  <2> QED
    BY <2>2, <2>3, <2>4
<1> QED
  BY <1>2, <1>3, <1>4

\* Where a new block goes keeps the order.
LEMMA PutOrdered ==
  ASSUME NEW l, NEW m, Linked(l, m), NEW a \in Nat \ {NULL}, a \notin ToSet(l),
         m[a].size \in Nat, NEW t \in Seq(Nat \ {NULL}), NEW k, PutAt(t, l, k, a),
         \A i \in DOMAIN l : i < k => ~ Precedes(m, a, l[i]),
         k \in DOMAIN l => Precedes(m, a, l[k])
  PROVE  Linked(t, m) /\ ToSet(t) = ToSet(l) \cup {a}
<1>1. /\ l \in Seq(Nat \ {NULL}) /\ DOMAIN l = 1 .. Len(l) /\ Len(l) \in Nat
      /\ \A i \in DOMAIN l : l[i] \in ToSet(l) /\ l[i] \in Nat
  BY Members DEF Linked
<1>2. \A i \in DOMAIN l : m[l[i]].size \in Nat /\ l[i] # a
  BY <1>1 DEF Linked
<1>3. /\ DOMAIN t = 1 .. Len(l) + 1 /\ k \in 1 .. Len(l) + 1 /\ k \in Nat
      /\ \A i \in DOMAIN t : t[i] = IF i < k THEN l[i] ELSE IF i = k THEN a ELSE l[i - 1]
  <2>1. DOMAIN t = 1 .. Len(t)
    BY LenProperties
  <2>2. /\ k \in 1 .. Len(l) + 1 /\ Len(t) = Len(l) + 1
        /\ \A i \in 1 .. Len(t) : t[i] = IF i < k THEN l[i] ELSE IF i = k THEN a ELSE l[i - 1]
    BY DEF PutAt
  <2>3. k \in Nat
    BY <1>1, <2>2
  <2> QED
    BY <2>1, <2>2, <2>3
<1>4. ToSet(t) = ToSet(l) \cup {a}
  BY <1>1, PutMembers
<1>5. \A i \in DOMAIN l : i < k => Precedes(m, l[i], a)
  BY <1>1, <1>2 DEF Precedes
<1> DEFINE n == Len(l)
<1>6. /\ n \in Nat /\ k \in 1 .. n + 1 /\ DOMAIN l = 1 .. n /\ DOMAIN t = 1 .. n + 1
      /\ EntryAt(t, l, n, k, a)
  BY <1>1, <1>3 DEF EntryAt
<1> HIDE DEF n
<1>7. \A i \in DOMAIN l : k <= i => Precedes(m, a, l[i])
  <2>1. ASSUME NEW i \in DOMAIN l, k < i PROVE Precedes(m, a, l[i])
    <3>1. k \in DOMAIN l
      BY <1>6, <2>1
    <3>2. Precedes(m, a, l[k]) /\ Precedes(m, l[k], l[i])
      BY <2>1, <3>1 DEF Linked, Ordered
    <3> QED
      BY <1>1, <1>2, <3>1, <3>2, SMTT(60) DEF Precedes
  <2> QED
    BY <1>6, <2>1
<1>8. \A i, j \in DOMAIN l : i < j => Precedes(m, l[i], l[j])
  BY DEF Linked, Ordered
<1>9. Parted(m, l, n, k, a)
  <2>1. \A i \in 1 .. n : i < k => Precedes(m, l[i], a)
    BY <1>5, <1>6
  <2>2. \A i \in 1 .. n : ~ (i < k) => Precedes(m, a, l[i])
    <3>1. ASSUME NEW i \in 1 .. n, ~ (i < k) PROVE Precedes(m, a, l[i])
      <4>1. i \in DOMAIN l /\ k <= i
        BY <1>6, <3>1
      <4> QED
        BY <1>7, <4>1
    <3> QED
      BY <3>1
  <2>3. \A i, j \in 1 .. n : i < j => Precedes(m, l[i], l[j])
    BY <1>6, <1>8
  <2> QED
    BY <2>1, <2>2, <2>3 DEF Parted
<1>10. ASSUME NEW i \in DOMAIN t, NEW j \in DOMAIN t, i < j PROVE Precedes(m, t[i], t[j])
  <2>1. i \in 1 .. n + 1 /\ j \in 1 .. n + 1 /\ k \in 1 .. n + 1
    BY <1>6
  <2> QED
    BY <1>6, <1>9, <1>10, <2>1, PutBetween
<1>11. Ordered(t, m)
  BY <1>10 DEF Ordered
<1> QED
  BY <1>2, <1>4, <1>11 DEF Linked

-----------------------------------------------------------------------------
(* The heap.                                                               *)

Fields(h) ==
  h = [list |-> h.list, wilderness |-> h.wilderness, meta |-> h.meta, brk |-> h.brk,
       start |-> h.start, stats |-> h.stats, overcount |-> h.overcount, fault |-> h.fault]

BlocksOf(h) == ToSet(h.list)

\* Where the program starts with a break that is aligned, sbrk_start is the first
\* block from the beginning.
AlignedBreaks == {b \in InitialBreaks : b % Align = 0}

Anchored(h) ==
  /\ h.start \in Int /\ h.start <= h.brk /\ \A a \in BlocksOf(h) : h.start <= a
  /\ h.start \in AlignedBreaks =>
       (BlocksOf(h) = {} /\ h.brk = h.start) \/ h.start \in BlocksOf(h)

Pointed(h) == h.wilderness \in Nat /\ (BlocksOf(h) = {} => h.wilderness = NULL)

Counters(s) == s \in [1 .. 5 -> Int]

Numbers(h) == Counters(h.stats) /\ h.overcount \in Nat

\* What is the case of every heap the program leaves, after a fault too.
Sound(h) ==
  /\ Fields(h) /\ Linked(h.list, h.meta) /\ Tiles(BlocksOf(h), h.meta, h.brk)
  /\ h.brk > 0 /\ Anchored(h) /\ Pointed(h) /\ Numbers(h)

\* The two heaps have the same blocks.
SameBlocks(h, g) ==
  g.list = h.list /\ g.meta = h.meta /\ g.brk = h.brk /\ g.start = h.start

LEMMA StatisticsSum ==
  ASSUME NEW s, Counters(s), NEW d1 \in Int, NEW d2 \in Int, NEW d3 \in Int,
         NEW d4 \in Int, NEW d5 \in Int
  PROVE  /\ Counters(Plus(s, <<d1, d2, d3, d4, d5>>))
         /\ Plus(s, <<d1, d2, d3, d4, d5>>) =
              <<s[1] + d1, s[2] + d2, s[3] + d3, s[4] + d4, s[5] + d5>>
<1> DEFINE d == <<d1, d2, d3, d4, d5>>
           t == Plus(s, d)
<1>1. d[1] = d1 /\ d[2] = d2 /\ d[3] = d3 /\ d[4] = d4 /\ d[5] = d5
  OBVIOUS
<1>2. \A i \in 1 .. 5 : i = 1 \/ i = 2 \/ i = 3 \/ i = 4 \/ i = 5
  OBVIOUS
<1>3. \A i \in 1 .. 5 : d[i] \in Int
  BY <1>1, <1>2
<1> HIDE DEF d
<1>4. t = [i \in 1 .. 5 |-> s[i] + d[i]]
  BY DEF Plus
<1>5. t \in [1 .. 5 -> Int]
  BY <1>3, <1>4 DEF Counters
<1>6. t = <<t[1], t[2], t[3], t[4], t[5]>>
  <2> HIDE DEF t
  <2>1. DOMAIN t = 1 .. 5 /\ DOMAIN <<t[1], t[2], t[3], t[4], t[5]>> = 1 .. 5
    BY <1>5
  <2> QED
    BY <1>2, <1>5, <2>1
<1>7. t[1] = s[1] + d1 /\ t[2] = s[2] + d2 /\ t[3] = s[3] + d3 /\ t[4] = s[4] + d4 /\ t[5] = s[5] + d5
  BY <1>1, <1>4
<1> QED
  BY <1>5, <1>6, <1>7 DEF d, Counters

\* The heap g is h with the numbers d1 to d5 added to the counters.
Counting(h, g, d1, d2, d3, d4, d5) ==
  /\ Sound(g) /\ SameBlocks(h, g) /\ g.wilderness = h.wilderness
  /\ g.fault = h.fault /\ g.overcount = h.overcount
  /\ g.stats = <<h.stats[1] + d1, h.stats[2] + d2, h.stats[3] + d3, h.stats[4] + d4,
                 h.stats[5] + d5>>

LEMMA CountingSound ==
  ASSUME NEW h, Sound(h), NEW d1 \in Int, NEW d2 \in Int, NEW d3 \in Int,
         NEW d4 \in Int, NEW d5 \in Int
  PROVE  Counting(h, UpdateStatistics(h, <<d1, d2, d3, d4, d5>>), d1, d2, d3, d4, d5)
<1>1. Counters(h.stats)
  BY DEF Sound, Numbers
<1> DEFINE s == Plus(h.stats, <<d1, d2, d3, d4, d5>>)
<1>2. /\ Counters(s)
      /\ s = <<h.stats[1] + d1, h.stats[2] + d2, h.stats[3] + d3, h.stats[4] + d4,
               h.stats[5] + d5>>
  BY <1>1, StatisticsSum, SMTT(60)
<1> DEFINE g == UpdateStatistics(h, <<d1, d2, d3, d4, d5>>)
<1>3. g = [h EXCEPT !.stats = s]
  BY DEF UpdateStatistics
<1> HIDE DEF s, g
<1>4. /\ Fields(g) /\ SameBlocks(h, g) /\ g.wilderness = h.wilderness
      /\ g.fault = h.fault /\ g.overcount = h.overcount /\ g.stats = s
  <2>1. Fields(h)
    BY DEF Sound
  <2> QED
    BY <1>3, <2>1 DEF Fields, SameBlocks
<1>5. Sound(g)
  BY <1>2, <1>4 DEF Sound, SameBlocks, BlocksOf, Anchored, Pointed, Numbers
<1>6. Counting(h, g, d1, d2, d3, d4, d5)
  BY <1>2, <1>4, <1>5 DEF Counting
<1> QED
  BY <1>6 DEF g

-----------------------------------------------------------------------------
(* What the functions on list and metadata do.                             *)

\* List and metadata apart, the heaps are the same.
SameRest(h, g) ==
  /\ Fields(g) /\ g.wilderness = h.wilderness /\ g.brk = h.brk /\ g.start = h.start
  /\ g.stats = h.stats /\ g.overcount = h.overcount /\ g.fault = h.fault

LEMMA AddFacts ==
  ASSUME NEW h, Fields(h), Linked(h.list, h.meta), NEW a \in Nat, a # NULL,
         a \notin BlocksOf(h), h.meta[a].size \in Nat, NEW g, g = AddMetadata(h, a)
  PROVE  /\ SameRest(h, g) /\ g.meta = h.meta
         /\ Linked(g.list, g.meta) /\ BlocksOf(g) = BlocksOf(h) \cup {a}
<1> DEFINE l == h.list
           I == {i \in 1 .. Len(l) : Precedes(h.meta, a, l[i])}
           k == IF I # {} THEN Min(I) ELSE 0
           t == IF k = 0 THEN Append(l, a) ELSE InsertAt(l, k, a)
<1>1. g = [h EXCEPT !.list = t]
  BY DEF AddMetadata, SelectInSeq, Before, Precedes, Size
<1>2. l \in Seq(Nat \ {NULL}) /\ Len(l) \in Nat /\ DOMAIN l = 1 .. Len(l)
  BY Members DEF Linked
<1>3. Linked(t, h.meta) /\ ToSet(t) = ToSet(l) \cup {a}
  <2>1. CASE I = {}
    <3>1. t = Append(l, a)
      BY <2>1
    <3>2. t \in Seq(Nat \ {NULL}) /\ PutAt(t, l, Len(l) + 1, a)
      <4>1. a \in Nat \ {NULL}
        OBVIOUS
      <4> HIDE DEF l
      <4>2. Append(l, a) \in Seq(Nat \ {NULL}) /\ PutAt(Append(l, a), l, Len(l) + 1, a)
        BY <1>2, <4>1, Appending, Zenon
      <4> QED
        BY <3>1, <4>2
    <3>3. \A i \in DOMAIN l : ~ Precedes(h.meta, a, l[i])
      BY <1>2, <2>1
    <3>4. Len(l) + 1 \notin DOMAIN l
      BY <1>2
    <3> HIDE DEF t, l
    <3> QED
      BY <3>2, <3>3, <3>4, PutOrdered DEF l, BlocksOf
  <2>2. CASE I # {}
    <3>1. I \in SUBSET Nat /\ I \subseteq 1 .. Len(l)
      BY <1>2
    <3>2. k \in I /\ \A i \in I : k <= i
      <4> HIDE DEF I
      <4> QED
        BY <2>2, <3>1, MinOf
    <3>3. k \in 1 .. Len(l) /\ Precedes(h.meta, a, l[k]) /\ k # 0 /\ k \in Nat
      <4> HIDE DEF k
      <4> QED
        BY <1>2, <3>2
    <3>4. \A i \in DOMAIN l : i < k => ~ Precedes(h.meta, a, l[i])
      <4> HIDE DEF k
      <4>1. SUFFICES ASSUME NEW i \in DOMAIN l, i < k, Precedes(h.meta, a, l[i]) PROVE FALSE
        OBVIOUS
      <4>2. i \in I /\ i \in Nat
        BY <1>2, <4>1
      <4> QED
        BY <3>2, <3>3, <4>1, <4>2
    <3>5. t = InsertAt(l, k, a)
      BY <3>3
    <3> HIDE DEF t, l, k
    <3>6. t \in Seq(Nat \ {NULL}) /\ PutAt(t, l, k, a)
      BY <1>2, <3>3, <3>5, Insertion
    <3> QED
      BY <3>3, <3>4, <3>6, PutOrdered DEF l, BlocksOf
  <2> QED
    BY <2>1, <2>2
<1> HIDE DEF t
<1>4. g.list = t /\ g.meta = h.meta /\ SameRest(h, g)
  BY <1>1 DEF Fields, SameRest
<1> QED
  BY <1>3, <1>4 DEF BlocksOf

LEMMA RemoveFacts ==
  ASSUME NEW h, Fields(h), NEW A, NEW g, g = RemoveMetadata(h, A)
  PROVE  SameRest(h, g) /\ g.meta = h.meta /\ g.list = Without(h.list, A)
BY DEF RemoveMetadata, Fields, SameRest

\* The heap g is h with the metadata of a block written.
Writing(h, g, a, size, is_free) ==
  /\ SameRest(h, g) /\ g.list = h.list
  /\ DOMAIN g.meta = DOMAIN h.meta \cup {a, a + SOM + size}
  /\ \A x \in {a, a + SOM + size} : g.meta[x] = [size |-> size, is_free |-> is_free]
  /\ \A x \in DOMAIN h.meta : x \notin {a, a + SOM + size} => g.meta[x] = h.meta[x]

LEMMA WriteFacts ==
  ASSUME NEW h, Fields(h), NEW a, NEW size, NEW is_free
  PROVE  Writing(h, Write(h, a, size, is_free), a, size, is_free)
<1> DEFINE A == {a, a + SOM + size}
           d == [size |-> size, is_free |-> is_free]
           m == Written(h.meta, A, d)
           g == Write(h, a, size, is_free)
<1>1. g = [h EXCEPT !.meta = m]
  BY DEF Write
<1>2. /\ DOMAIN m = DOMAIN h.meta \cup A
      /\ \A x \in A : m[x] = d
      /\ \A x \in DOMAIN h.meta : x \notin A => m[x] = h.meta[x]
  BY DEF Written
<1> HIDE DEF m, g
<1>3. g.meta = m /\ g.list = h.list /\ SameRest(h, g)
  BY <1>1 DEF Fields, SameRest
<1>4. Writing(h, g, a, size, is_free)
  BY <1>2, <1>3 DEF Writing
<1> QED
  BY <1>4 DEF g

LEMMA EraseFacts ==
  ASSUME NEW h, Fields(h), NEW A, NEW g, g = Erase(h, A)
  PROVE  /\ SameRest(h, g) /\ g.list = h.list /\ DOMAIN g.meta = DOMAIN h.meta \ A
         /\ \A x \in DOMAIN h.meta \ A : g.meta[x] = h.meta[x]
<1> DEFINE m == Restrict(h.meta, DOMAIN h.meta \ A)
<1>1. g = [h EXCEPT !.meta = m]
  BY DEF Erase
<1>2. DOMAIN m = DOMAIN h.meta \ A /\ \A x \in DOMAIN h.meta \ A : m[x] = h.meta[x]
  BY DEF Restrict
<1> HIDE DEF m
<1>3. g.meta = m /\ g.list = h.list /\ SameRest(h, g)
  BY <1>1 DEF Fields, SameRest
<1> QED
  BY <1>2, <1>3

-----------------------------------------------------------------------------
(* Blocks made one, in the heap.                                           *)

\* The blocks from lo to hi, the set P, become one, and the break moves along.
Fusion(h, g, P, lo, hi, added, flag) ==
  /\ Fields(g) /\ Interval(BlocksOf(h), P, lo, hi)
  /\ added = 0 \/ EndAt(h.meta, hi) = h.brk
  /\ Fused(h.meta, g.meta, P, lo, hi, added, flag)
  /\ Linked(g.list, g.meta) /\ BlocksOf(g) = (BlocksOf(h) \ P) \cup {lo}
  /\ g.brk = h.brk + added /\ g.start = h.start

LEMMA PartsEnds ==
  ASSUME NEW h, Sound(h), NEW P, NEW lo, NEW hi, Interval(BlocksOf(h), P, lo, hi)
  PROVE  /\ Min(P) = lo /\ Max(P) = hi /\ Joined(h, P) = FusedSize(h.meta, lo, hi, 0)
         /\ P \cup {Foot(h, a) : a \in P} = Copies(h.meta, P)
         /\ EndAt(h.meta, hi) \in Nat /\ lo \in Nat /\ SOM \in Nat /\ lo # NULL
<1>1. /\ \A b \in BlocksOf(h) : b \in Nat /\ EndAt(h.meta, b) \in Nat
      /\ lo \in P /\ hi \in P /\ P \subseteq BlocksOf(h)
      /\ \A b \in P : lo <= b /\ b <= hi
  <2>1. Tiles(BlocksOf(h), h.meta, h.brk)
    BY DEF Sound
  <2>2. \A b \in BlocksOf(h) : b \in Nat /\ EndAt(h.meta, b) \in Nat
    BY <2>1, BlockNumbers
  <2>3. /\ lo \in P /\ hi \in P /\ P \subseteq BlocksOf(h)
        /\ \A b \in P : lo <= b /\ b <= hi
    BY DEF Interval
  <2> QED
    BY <2>2, <2>3
<1>2. P \in SUBSET Nat
  BY <1>1
<1>3. Min(P) = lo
  BY <1>1, <1>2, MinIs
<1>4. Max(P) = hi
  BY <1>1, <1>2, MaxIs
<1>5. SOM \in Nat /\ EndAt(h.meta, hi) \in Nat /\ lo \in Nat /\ lo # NULL
  <2>1. SOM \in Nat /\ lo > 0
    BY <1>1, BlockNumbers DEF Sound
  <2> QED
    BY <1>1, <2>1 DEF NULL
<1>6. End(h, hi) = EndAt(h.meta, hi)
  BY DEF End, Foot, Size, EndAt, FootAt
<1>7. Joined(h, P) = FusedSize(h.meta, lo, hi, 0)
  BY <1>3, <1>4, <1>5, <1>6 DEF Joined, FusedSize
<1>8. P \cup {Foot(h, a) : a \in P} = Copies(h.meta, P)
  BY DEF Copies, Foot, FootAt, Size
<1> QED
  BY <1>3, <1>4, <1>5, <1>7, <1>8

LEMMA FuseFacts ==
  ASSUME NEW h, Sound(h), NEW P, NEW lo, NEW hi, Interval(BlocksOf(h), P, lo, hi),
         NEW added \in Nat, added = 0 \/ EndAt(h.meta, hi) = h.brk,
         NEW flag \in BOOLEAN, NEW g, g = Fuse(h, P, added, flag)
  PROVE  /\ SameRest(h, g) /\ Fused(h.meta, g.meta, P, lo, hi, added, flag)
         /\ Linked(g.list, g.meta) /\ BlocksOf(g) = (BlocksOf(h) \ P) \cup {lo}
<1> DEFINE m == h.meta
           B == BlocksOf(h)
           size == FusedSize(m, lo, hi, added)
           d == [size |-> size, is_free |-> flag]
           h1 == Erase(h, Copies(m, P))
           h2 == RemoveMetadata(h1, P)
           h3 == Write(h2, lo, size, flag)
<1>1. /\ Min(P) = lo /\ Joined(h, P) + added = size
      /\ P \cup {Foot(h, a) : a \in P} = Copies(m, P) /\ lo \in Nat /\ lo # NULL
  <2>1. /\ Min(P) = lo /\ Joined(h, P) = FusedSize(m, lo, hi, 0)
        /\ P \cup {Foot(h, a) : a \in P} = Copies(m, P)
        /\ EndAt(m, hi) \in Nat /\ lo \in Nat /\ SOM \in Nat /\ lo # NULL
    BY PartsEnds
  <2>2. FusedSize(m, lo, hi, 0) + added = size
    BY <2>1 DEF FusedSize
  <2> QED
    BY <2>1, <2>2
<1>2. g = AddMetadata(h3, lo)
  BY <1>1 DEF Fuse
<1>3. Fields(h) /\ Linked(h.list, m) /\ Tiles(B, m, h.brk)
  BY DEF Sound
<1>4. /\ SameRest(h, h1) /\ h1.list = h.list /\ DOMAIN h1.meta = DOMAIN m \ Copies(m, P)
      /\ \A x \in DOMAIN m \ Copies(m, P) : h1.meta[x] = m[x]
  BY <1>3, EraseFacts
<1>5. Fields(h1)
  BY <1>4 DEF SameRest
<1>6. SameRest(h1, h2) /\ h2.meta = h1.meta /\ h2.list = Without(h.list, P)
  <2> HIDE DEF h1
  <2> QED
    BY <1>4, <1>5, RemoveFacts
<1>7. Fields(h2)
  BY <1>6 DEF SameRest
<1>8. /\ SameRest(h2, h3) /\ h3.list = h2.list
      /\ DOMAIN h3.meta = DOMAIN h2.meta \cup {lo, lo + SOM + size}
      /\ \A x \in {lo, lo + SOM + size} : h3.meta[x] = d
      /\ \A x \in DOMAIN h2.meta : x \notin {lo, lo + SOM + size} => h3.meta[x] = h2.meta[x]
  <2> HIDE DEF h2, size
  <2> QED
    BY <1>7, WriteFacts DEF Writing, h3
<1> HIDE DEF h1, h2, h3
<1>9. Fused(m, h3.meta, P, lo, hi, added, flag)
  BY <1>4, <1>6, <1>8 DEF Fused, Recorded
<1>10. /\ Whole(m, h3.meta, lo, hi, added, flag)
       /\ Beside(B, m, h3.meta, P, lo, hi, added)
  BY <1>3, <1>9, FuseShape
<1>11. SameSizes(m, h3.meta, ToSet(h.list) \ P)
  BY <1>10 DEF Beside, SameSizes, BlocksOf
<1>12. Linked(h3.list, h3.meta) /\ ToSet(h3.list) = ToSet(h.list) \ P
  <2>1. Linked(Without(h.list, P), h3.meta) /\ ToSet(Without(h.list, P)) = ToSet(h.list) \ P
    BY <1>3, <1>11, Unlink
  <2> QED
    BY <1>6, <1>8, <2>1
<1>13. lo \notin BlocksOf(h3) /\ h3.meta[lo].size \in Nat /\ Fields(h3)
  BY <1>8, <1>10, <1>12 DEF Whole, Interval, BlocksOf, SameRest
<1>14. /\ SameRest(h3, g) /\ g.meta = h3.meta
       /\ Linked(g.list, g.meta) /\ BlocksOf(g) = BlocksOf(h3) \cup {lo}
  BY <1>1, <1>2, <1>12, <1>13, AddFacts
<1>15. SameRest(h, g)
  BY <1>4, <1>6, <1>8, <1>14 DEF SameRest
<1> QED
  BY <1>9, <1>12, <1>14, <1>15 DEF BlocksOf

\* The blocks in use, and the mappings.
BusyIn(B, m) == {a \in B : ~ m[a].is_free} \cup (DOMAIN m \cap MapAddrs)
BusyOf(h) == BusyIn(BlocksOf(h), h.meta)

\* No two neighbours among the blocks in S are both free.
MergedOn(m, S) == \A a \in S : m[a].is_free /\ EndAt(m, a) \in S => ~ m[EndAt(m, a)].is_free
Merged(h) == MergedOn(h.meta, BlocksOf(h))

\* The wilderness is the last block.
WildLast(h) ==
  BlocksOf(h) = {} \/ (h.wilderness \in BlocksOf(h) /\ EndAt(h.meta, h.wilderness) = h.brk)

\* What Sound says of the blocks.
LEMMA SoundTiles ==
  ASSUME NEW h, Sound(h)
  PROVE  /\ Tiles(BlocksOf(h), h.meta, h.brk) /\ Linked(h.list, h.meta) /\ Fields(h)
         /\ h.brk \in Nat /\ h.brk > 0
BY BlockNumbers DEF Sound

\* What the fusion leaves.
LEMMA FusionShape ==
  ASSUME NEW h, Sound(h), NEW P, NEW lo, NEW hi, NEW added \in Nat, NEW flag \in BOOLEAN,
         NEW g, Fusion(h, g, P, lo, hi, added, flag)
  PROVE  /\ Whole(h.meta, g.meta, lo, hi, added, flag)
         /\ Beside(BlocksOf(h), h.meta, g.meta, P, lo, hi, added)
         /\ Interval(BlocksOf(h), P, lo, hi)
<1>1. Tiles(BlocksOf(h), h.meta, h.brk)
  BY SoundTiles
<1>2. /\ Interval(BlocksOf(h), P, lo, hi) /\ (added = 0 \/ EndAt(h.meta, hi) = h.brk)
      /\ Fused(h.meta, g.meta, P, lo, hi, added, flag)
  BY DEF Fusion
<1> QED
  BY <1>1, <1>2, FuseShape

LEMMA FusionTiles ==
  ASSUME NEW h, Sound(h), NEW P, NEW lo, NEW hi, NEW added \in Nat, NEW flag \in BOOLEAN,
         NEW g, Fusion(h, g, P, lo, hi, added, flag), h.brk + added <= HeapEnd
  PROVE  /\ Tiles(BlocksOf(g), g.meta, g.brk) /\ RestSame(BlocksOf(h), h.meta, P, g.meta)
         /\ g.brk \in Nat /\ g.brk > 0
<1>1. Tiles(BlocksOf(h), h.meta, h.brk) /\ h.brk \in Nat /\ h.brk > 0
  BY SoundTiles
<1>2. /\ Interval(BlocksOf(h), P, lo, hi) /\ (added = 0 \/ EndAt(h.meta, hi) = h.brk)
      /\ Fused(h.meta, g.meta, P, lo, hi, added, flag)
      /\ BlocksOf(g) = (BlocksOf(h) \ P) \cup {lo} /\ g.brk = h.brk + added
  BY DEF Fusion
<1>3. /\ Tiles((BlocksOf(h) \ P) \cup {lo}, g.meta, h.brk + added)
      /\ RestSame(BlocksOf(h), h.meta, P, g.meta)
  BY <1>1, <1>2, FuseTiles
<1> QED
  BY <1>1, <1>2, <1>3

LEMMA FusionSound ==
  ASSUME NEW h, Sound(h), NEW P, NEW lo, NEW hi, NEW added \in Nat, NEW flag \in BOOLEAN,
         NEW g, Fusion(h, g, P, lo, hi, added, flag), h.brk + added <= HeapEnd,
         Numbers(g), g.wilderness \in Nat
  PROVE  Sound(g)
<1>1. Tiles(BlocksOf(g), g.meta, g.brk) /\ g.brk \in Nat /\ g.brk > 0
  BY FusionTiles
<1>2. /\ Fields(g) /\ Linked(g.list, g.meta) /\ BlocksOf(g) = (BlocksOf(h) \ P) \cup {lo}
      /\ g.brk = h.brk + added /\ g.start = h.start
      /\ lo \in P /\ P \subseteq BlocksOf(h) /\ \A b \in P : lo <= b
      /\ \A b \in BlocksOf(h) : b \in Nat
  <2>1. \A b \in BlocksOf(h) : b \in Nat
    BY SoundTiles, BlockNumbers
  <2> QED
    BY <2>1 DEF Fusion, Interval
<1>3. Pointed(g)
  BY <1>2 DEF Pointed
<1>4. Anchored(g)
  <2>1. /\ h.start \in Int /\ h.start <= h.brk /\ \A a \in BlocksOf(h) : h.start <= a
        /\ h.start \in AlignedBreaks => h.start \in BlocksOf(h)
    BY <1>2 DEF Sound, Anchored
  <2>2. h.start <= g.brk
    BY <1>2, <2>1, SoundTiles
  <2>3. h.start \in P => h.start = lo
    BY <1>2, <2>1
  <2> QED
    BY <1>2, <2>1, <2>2, <2>3 DEF Anchored
<1> QED
  BY <1>1, <1>2, <1>3, <1>4 DEF Sound

Mappings(h) == DOMAIN h.meta \cap MapAddrs

\* The payloads in use, but for those of the blocks in P, stay in use.
FusedBusy(h, g, P, lo, flag) ==
  /\ flag => BusyOf(g) = BusyOf(h) \ P
  /\ ~ flag => BusyOf(g) = (BusyOf(h) \ P) \cup {lo}
  /\ \A x \in BusyOf(h) \ P : g.meta[x] = h.meta[x]
  /\ Mappings(g) = Mappings(h)

LEMMA FusionBusy ==
  ASSUME NEW h, Sound(h), NEW P, NEW lo, NEW hi, NEW added \in Nat, NEW flag \in BOOLEAN,
         NEW g, Fusion(h, g, P, lo, hi, added, flag), h.brk + added <= HeapEnd
  PROVE  FusedBusy(h, g, P, lo, flag)
<1>1. /\ RestSame(BlocksOf(h), h.meta, P, g.meta)
      /\ BlocksOf(g) = (BlocksOf(h) \ P) \cup {lo} /\ lo \in P /\ P \subseteq BlocksOf(h)
      /\ g.meta[lo].is_free = flag
  <2>1. Whole(h.meta, g.meta, lo, hi, added, flag)
    BY FusionShape
  <2>2. RestSame(BlocksOf(h), h.meta, P, g.meta)
    BY FusionTiles
  <2> QED
    BY <2>1, <2>2 DEF Whole, Fusion, Interval
<1>2. /\ \A b \in BlocksOf(h) \ P : g.meta[b] = h.meta[b]
      /\ DOMAIN g.meta \cap MapAddrs = DOMAIN h.meta \cap MapAddrs
      /\ \A x \in DOMAIN h.meta \cap MapAddrs : g.meta[x] = h.meta[x]
  BY <1>1 DEF RestSame
<1>3. \A b \in BlocksOf(h) : b \notin MapAddrs
  BY SoundTiles, OwnAddresses
<1>4. /\ flag => BusyOf(g) = BusyOf(h) \ P
      /\ ~ flag => BusyOf(g) = (BusyOf(h) \ P) \cup {lo}
  BY <1>1, <1>2, <1>3 DEF BusyOf, BusyIn
<1>5. \A x \in BusyOf(h) \ P : g.meta[x] = h.meta[x]
  BY <1>2 DEF BusyOf, BusyIn
<1> QED
  BY <1>2, <1>4, <1>5 DEF FusedBusy, Mappings

\* A block next to those in P is free.
FreeBeside(h, P, lo, hi) ==
  \E b \in BlocksOf(h) \ P :
    h.meta[b].is_free /\ (EndAt(h.meta, b) = lo \/ b = EndAt(h.meta, hi))

\* Free neighbours all fused, there are none left.
LEMMA FusionMerged ==
  ASSUME NEW h, Sound(h), NEW P, NEW lo, NEW hi, NEW added \in Nat, NEW flag \in BOOLEAN,
         NEW g, Fusion(h, g, P, lo, hi, added, flag), MergedOn(h.meta, BlocksOf(h) \ P),
         flag => ~ FreeBeside(h, P, lo, hi)
  PROVE  Merged(g)
<1> DEFINE B == BlocksOf(h)
           C == BlocksOf(g)
           m == h.meta
           m2 == g.meta
<1>0. /\ Whole(m, m2, lo, hi, added, flag) /\ Beside(B, m, m2, P, lo, hi, added)
      /\ Interval(B, P, lo, hi)
  BY FusionShape
<1>1. C = (B \ P) \cup {lo} /\ lo \in P /\ P \subseteq B /\ hi \in P
  BY DEF Fusion, Interval
<1>2. /\ \A b \in B \ P : m2[b] = m[b] /\ EndAt(m2, b) = EndAt(m, b)
      /\ m2[lo].is_free = flag /\ EndAt(m2, lo) = EndAt(m, hi) + added
      /\ \A b \in B \ P : hi < b => added = 0 /\ EndAt(m, hi) <= b
      /\ \A b \in B \ P : b < lo \/ hi < b
  BY <1>0 DEF Whole, Beside
<1>3. /\ \A b \in B : b \in Nat /\ EndAt(m, b) \in Nat /\ b < EndAt(m, b)
      /\ \A b \in P : lo <= b /\ b <= hi
  <2>1. \A b \in B : b \in Nat /\ EndAt(m, b) \in Nat /\ b < EndAt(m, b)
    BY SoundTiles, BlockNumbers
  <2> QED
    BY <1>0, <2>1 DEF Interval
<1>5. ASSUME flag, NEW b \in B \ P, m[b].is_free PROVE EndAt(m, b) # lo /\ b # EndAt(m, hi)
  BY <1>5 DEF FreeBeside
<1>6. ASSUME NEW a \in C, m2[a].is_free, EndAt(m2, a) \in C
      PROVE  ~ m2[EndAt(m2, a)].is_free
  <2>1. CASE a = lo
    <3>1. flag /\ EndAt(m2, a) = EndAt(m, hi) + added
      BY <1>2, <1>6, <2>1
    <3>2. EndAt(m2, a) # lo
      BY <1>1, <1>3, <3>1
    <3>3. EndAt(m2, a) \in B \ P
      BY <1>1, <1>6, <3>2
    <3>4. hi < EndAt(m2, a)
      BY <1>1, <1>3, <3>1
    <3>5. EndAt(m2, a) = EndAt(m, hi)
      BY <1>1, <1>2, <1>3, <3>1, <3>3, <3>4
    <3> QED
      BY <1>2, <1>5, <3>1, <3>3, <3>5
  <2>2. CASE a # lo /\ EndAt(m2, a) = lo
    <3>1. a \in B \ P /\ m[a].is_free /\ EndAt(m, a) = lo
      BY <1>1, <1>2, <1>6, <2>2
    <3> QED
      BY <1>2, <1>5, <2>2, <3>1
  <2>3. CASE a # lo /\ EndAt(m2, a) # lo
    <3>1. a \in B \ P /\ m[a].is_free /\ EndAt(m2, a) = EndAt(m, a) /\ EndAt(m, a) \in B \ P
      BY <1>1, <1>2, <1>6, <2>3
    <3>2. ~ m[EndAt(m, a)].is_free
      BY <3>1 DEF MergedOn
    <3> QED
      BY <1>2, <3>1, <3>2
  <2> QED
    BY <2>1, <2>2, <2>3
<1> QED
  BY <1>6 DEF Merged, MergedOn

\* The wilderness is the last block still when the pointer goes to what it became.
LEMMA FusionLast ==
  ASSUME NEW h, Sound(h), NEW P, NEW lo, NEW hi, NEW added \in Nat, NEW flag \in BOOLEAN,
         NEW g, Fusion(h, g, P, lo, hi, added, flag), WildLast(h)
  PROVE  /\ h.wilderness \in P => h.wilderness = hi
         /\ (IF h.wilderness = hi THEN g.wilderness = lo ELSE g.wilderness = h.wilderness) => WildLast(g)
<1> DEFINE B == BlocksOf(h)
           m == h.meta
           m2 == g.meta
           w == h.wilderness
<1>0. /\ Whole(m, m2, lo, hi, added, flag) /\ Beside(B, m, m2, P, lo, hi, added)
      /\ Interval(B, P, lo, hi)
  BY FusionShape
<1>1. /\ BlocksOf(g) = (B \ P) \cup {lo} /\ g.brk = h.brk + added
      /\ lo \in P /\ hi \in P /\ P \subseteq B /\ (added = 0 \/ EndAt(m, hi) = h.brk)
      /\ \A b \in P : lo <= b /\ b <= hi
  BY DEF Fusion, Interval
<1>2. /\ \A b \in B \ P : EndAt(m2, b) = EndAt(m, b) /\ (hi < b => added = 0)
      /\ EndAt(m2, lo) = EndAt(m, hi) + added
      /\ \A b \in B \ P : b < lo \/ hi < b
  BY <1>0 DEF Whole, Beside
<1>3. \A b \in B : b \in Nat /\ EndAt(m, b) \in Nat /\ b < EndAt(m, b) /\ EndAt(m, b) <= h.brk
  BY SoundTiles, BlockNumbers
<1>4. w \in B /\ EndAt(m, w) = h.brk /\ h.brk \in Nat
  BY <1>1, SoundTiles DEF WildLast
<1>5. \A a, b \in B : a < b => EndAt(m, a) <= b
  BY SoundTiles DEF Tiles, Separate
<1>6. w \in P => w = hi
  <2>1. w < hi => FALSE
    BY <1>1, <1>3, <1>4, <1>5
  <2> QED
    BY <1>1, <1>3, <2>1
<1>7. ASSUME w = hi, g.wilderness = lo PROVE WildLast(g)
  BY <1>1, <1>2, <1>4, <1>7 DEF WildLast
<1>8. ASSUME w # hi, g.wilderness = w PROVE WildLast(g)
  <2>1. w \in B \ P
    BY <1>4, <1>6, <1>8
  <2>2. w < lo => FALSE
    <3>1. lo \in B /\ (w < lo => EndAt(m, w) <= lo)
      BY <1>1, <1>4, <1>5
    <3>2. lo < EndAt(m, lo) /\ EndAt(m, lo) <= h.brk /\ lo \in Nat /\ EndAt(m, lo) \in Nat
      BY <1>3, <3>1
    <3> QED
      BY <1>4, <3>1, <3>2
  <2>3. added = 0
    BY <1>2, <2>1, <2>2
  <2> QED
    BY <1>1, <1>2, <1>4, <1>8, <2>1, <2>3 DEF WildLast
<1> QED
  BY <1>6, <1>7, <1>8

-----------------------------------------------------------------------------
(* A block marked, a block split.                                          *)

Marked(h, g, a, flag) == g = Write(h, a, Size(h, a), flag)

LEMMA MarkFusion ==
  ASSUME NEW h, Sound(h), NEW a \in BlocksOf(h), NEW flag \in BOOLEAN,
         NEW g, Marked(h, g, a, flag)
  PROVE  /\ Fusion(h, g, {a}, a, a, 0, flag) /\ SameRest(h, g)
         /\ BlocksOf(g) = BlocksOf(h) /\ SameSizes(h.meta, g.meta, BlocksOf(h))
<1> DEFINE m == h.meta
           n == m[a].size
           d == [size |-> n, is_free |-> flag]
<1>1. Tiles(BlocksOf(h), m, h.brk) /\ Linked(h.list, m) /\ Fields(h) /\ h.brk \in Nat
  BY SoundTiles
<1>2. /\ a \in Nat /\ SOM \in Nat /\ n \in Nat /\ FootAt(m, a) = a + SOM + n
      /\ EndAt(m, a) = a + SOM + n + SOM /\ a < EndAt(m, a)
  BY <1>1, BlockNumbers
<1>3. FusedSize(m, a, a, 0) = n
  BY <1>2 DEF FusedSize
<1>4. Interval(BlocksOf(h), {a}, a, a)
  <2>1. \A b \in BlocksOf(h) : b \in Nat
    BY <1>1, BlockNumbers
  <2> QED
    BY <1>2, <2>1 DEF Interval
<1>5. a \in DOMAIN m /\ FootAt(m, a) \in DOMAIN m
  BY <1>1 DEF Tiles, Headed
<1>6. /\ SameRest(h, g) /\ g.list = h.list
      /\ DOMAIN g.meta = DOMAIN m \cup {a, a + SOM + n}
      /\ \A x \in {a, a + SOM + n} : g.meta[x] = d
      /\ \A x \in DOMAIN m : x \notin {a, a + SOM + n} => g.meta[x] = m[x]
  <2>1. g = Write(h, a, n, flag)
    BY DEF Size, Marked
  <2> HIDE DEF n
  <2> QED
    BY <1>1, <2>1, WriteFacts DEF Writing
<1>7. Copies(m, {a}) = {a, a + SOM + n}
  BY <1>2 DEF Copies
<1>8. Recorded(m, g.meta, {a, a + SOM + n}, {a, a + SOM + n}, d)
  BY <1>6 DEF Recorded
<1>9. Fused(m, g.meta, {a}, a, a, 0, flag)
  BY <1>3, <1>7, <1>8 DEF Fused
<1>10. SameSizes(m, g.meta, BlocksOf(h))
  <2>1. ASSUME NEW b \in BlocksOf(h) PROVE m[b].size = g.meta[b].size
    <3>1. b \in DOMAIN m /\ b # FootAt(m, a)
      BY <1>1, OwnAddresses DEF Tiles, Headed
    <3> QED
      BY <1>2, <1>6, <3>1
  <2> QED
    BY <2>1 DEF SameSizes
<1>11. Linked(g.list, g.meta)
  BY <1>1, <1>6, <1>10, Resized DEF BlocksOf
<1>12. BlocksOf(g) = BlocksOf(h)
  BY <1>6 DEF BlocksOf
<1>13. g.brk = h.brk + 0 /\ g.start = h.start /\ Fields(g)
  BY <1>1, <1>6 DEF SameRest
<1> QED
  BY <1>4, <1>6, <1>9, <1>10, <1>11, <1>12, <1>13 DEF Fusion

\* splitBlock, up to the call of sfree.
Cut(h, size, a, high, rest) ==
  UpdateStatistics(
    AddMetadata(AddMetadata(Write(Write(RemoveMetadata(h, {a}), a, size, FALSE), high, rest, FALSE),
                            a), high),
    <<1, -1, -(2 * SOM), -(2 * SOM + size + rest), 2 * SOM>>)

\* The heap g is h with block a split.
Fission(h, g, a, n, high, rest) ==
  /\ Halves(h.meta, g.meta, a, n, high, rest) /\ high \notin BlocksOf(h)
  /\ Elsewhere(BlocksOf(h) \ {a}, h.meta, g.meta) /\ RestSame(BlocksOf(h), h.meta, {a}, g.meta)
  /\ BlocksOf(g) = BlocksOf(h) \cup {high}
  /\ g.brk = h.brk /\ g.start = h.start

LEMMA CutFacts ==
  ASSUME NEW h, Sound(h), NEW a \in BlocksOf(h), NEW n \in Nat, NEW rest \in Nat,
         NEW high, high = a + n + 2 * SOM, h.meta[a].size = n + 2 * SOM + rest,
         NEW g, g = Cut(h, n, a, high, rest)
  PROVE  /\ Sound(g) /\ Fission(h, g, a, n, high, rest)
         /\ g.wilderness = h.wilderness /\ g.fault = h.fault /\ g.overcount = h.overcount
         /\ g.stats = <<h.stats[1] + 1, h.stats[2] - 1, h.stats[3] - 2 * SOM,
                        h.stats[4] - (2 * SOM + n + rest), h.stats[5] + 2 * SOM>>
<1> DEFINE m == h.meta
           B == BlocksOf(h)
           h1 == RemoveMetadata(h, {a})
           h2 == Write(h1, a, n, FALSE)
           h3 == Write(h2, high, rest, FALSE)
           h4 == AddMetadata(h3, a)
           h5 == AddMetadata(h4, high)
           m2 == h3.meta
<1>1. Tiles(B, m, h.brk) /\ Linked(h.list, m) /\ Fields(h) /\ h.brk \in Nat
  BY SoundTiles
<1>2. /\ a \in Nat /\ a > 0 /\ SOM \in Nat /\ SOM > 0 /\ FootAt(m, a) = a + SOM + m[a].size
      /\ a \in DOMAIN m /\ FootAt(m, a) \in DOMAIN m /\ high \in Nat /\ high > 0
  <2>1. /\ a \in Nat /\ a > 0 /\ SOM \in Nat /\ SOM > 0 /\ FootAt(m, a) = a + SOM + m[a].size
    BY <1>1, BlockNumbers
  <2>2. a \in DOMAIN m /\ FootAt(m, a) \in DOMAIN m
    BY <1>1 DEF Tiles, Headed
  <2> QED
    BY <2>1, <2>2
<1>3. SameRest(h, h1) /\ h1.meta = m /\ h1.list = Without(h.list, {a})
  BY <1>1, RemoveFacts
<1>4. Fields(h1)
  BY <1>3 DEF SameRest
<1> HIDE DEF h1
<1>5. /\ SameRest(h1, h2) /\ h2.list = h1.list
      /\ DOMAIN h2.meta = DOMAIN h1.meta \cup {a, a + SOM + n}
      /\ \A x \in {a, a + SOM + n} : h2.meta[x] = [size |-> n, is_free |-> FALSE]
      /\ \A x \in DOMAIN h1.meta : x \notin {a, a + SOM + n} => h2.meta[x] = h1.meta[x]
  <2>1. Writing(h1, h2, a, n, FALSE)
    BY <1>4, WriteFacts
  <2> QED
    BY <2>1 DEF Writing
<1>6. Fields(h2)
  BY <1>5 DEF SameRest
<1> HIDE DEF h2
<1>7. /\ SameRest(h2, h3) /\ h3.list = h2.list
      /\ DOMAIN m2 = DOMAIN h2.meta \cup {high, high + SOM + rest}
      /\ \A x \in {high, high + SOM + rest} : m2[x] = [size |-> rest, is_free |-> FALSE]
      /\ \A x \in DOMAIN h2.meta : x \notin {high, high + SOM + rest} => m2[x] = h2.meta[x]
  <2>1. Writing(h2, h3, high, rest, FALSE)
    BY <1>6, WriteFacts
  <2> QED
    BY <2>1 DEF Writing
<1> HIDE DEF h3
<1>8. high + SOM + rest = FootAt(m, a)
  BY <1>2
<1>9. Halved(m, m2, a, n, high, rest)
  <2>1. a # high /\ a # FootAt(m, a) /\ a + SOM + n # high /\ a + SOM + n # FootAt(m, a)
    BY <1>2
  <2>2. DOMAIN m2 = DOMAIN m \cup {a + SOM + n, high}
    BY <1>2, <1>3, <1>5, <1>7, <1>8
  <2>3. /\ m2[a] = [size |-> n, is_free |-> FALSE]
        /\ m2[a + SOM + n] = [size |-> n, is_free |-> FALSE]
        /\ m2[high] = [size |-> rest, is_free |-> FALSE]
        /\ m2[FootAt(m, a)] = [size |-> rest, is_free |-> FALSE]
    BY <1>5, <1>7, <1>8, <2>1
  <2>4. \A x \in DOMAIN m : x \notin {a, a + SOM + n, high, FootAt(m, a)} => m2[x] = m[x]
    BY <1>3, <1>5, <1>7, <1>8
  <2> QED
    BY <2>2, <2>3, <2>4 DEF Halved
<1>10. /\ Halves(m, m2, a, n, high, rest) /\ high \notin B
       /\ Elsewhere(B \ {a}, m, m2) /\ RestSame(B, m, {a}, m2)
  BY <1>1, <1>9, HalvesFacts
<1>11. Tiles(B \cup {high}, m2, h.brk)
  BY <1>1, <1>9, SplitTiles
<1>12. Linked(h3.list, m2) /\ BlocksOf(h3) = B \ {a}
  <2>1. SameSizes(m, m2, ToSet(h.list) \ {a})
    BY <1>10 DEF Elsewhere, SameSizes, BlocksOf
  <2>2. Linked(Without(h.list, {a}), m2) /\ ToSet(Without(h.list, {a})) = ToSet(h.list) \ {a}
    BY <1>1, <2>1, Unlink
  <2> QED
    BY <1>3, <1>5, <1>7, <2>2 DEF BlocksOf
<1>13. /\ SameRest(h3, h4) /\ h4.meta = m2 /\ Linked(h4.list, h4.meta)
       /\ BlocksOf(h4) = BlocksOf(h3) \cup {a}
  <2>1. /\ a \in Nat /\ a # NULL /\ a \notin BlocksOf(h3) /\ h3.meta[a].size \in Nat /\ Fields(h3)
    BY <1>2, <1>7, <1>10, <1>12 DEF Halves, SameRest, NULL
  <2> QED
    BY <1>12, <2>1, AddFacts
<1> HIDE DEF h4
<1>14. /\ SameRest(h4, h5) /\ h5.meta = m2 /\ Linked(h5.list, h5.meta)
       /\ BlocksOf(h5) = BlocksOf(h4) \cup {high}
  <2>1. /\ high \in Nat /\ high # NULL /\ high \notin BlocksOf(h4)
        /\ h4.meta[high].size \in Nat /\ Fields(h4)
    BY <1>2, <1>10, <1>12, <1>13 DEF Halves, SameRest, NULL
  <2> QED
    BY <1>13, <2>1, AddFacts
<1> HIDE DEF h5
<1>15. BlocksOf(h5) = B \cup {high} /\ SameRest(h, h5)
  BY <1>3, <1>5, <1>7, <1>12, <1>13, <1>14 DEF SameRest
<1>16. Sound(h5)
  <2>1. Anchored(h5)
    <3>1. h.start <= high
      <4>1. h.start \in Int /\ h.start <= a /\ a < high
        BY <1>2 DEF Sound, Anchored
      <4> QED
        BY <1>2, <4>1
    <3> QED
      BY <1>15, <3>1 DEF Sound, Anchored, SameRest
  <2>2. Pointed(h5) /\ Numbers(h5)
    BY <1>15 DEF Sound, Pointed, Numbers, SameRest
  <2> QED
    BY <1>11, <1>14, <1>15, <2>1, <2>2 DEF Sound, SameRest
<1>17. /\ Sound(g) /\ SameBlocks(h5, g) /\ g.wilderness = h5.wilderness
       /\ g.fault = h5.fault /\ g.overcount = h5.overcount
       /\ g.stats = <<h5.stats[1] + 1, h5.stats[2] + (-1), h5.stats[3] + (-(2 * SOM)),
                      h5.stats[4] + (-(2 * SOM + n + rest)), h5.stats[5] + 2 * SOM>>
  <2>1. g = UpdateStatistics(h5, <<1, -1, -(2 * SOM), -(2 * SOM + n + rest), 2 * SOM>>)
    BY DEF Cut, h1, h2, h3, h4, h5
  <2>2. 1 \in Int /\ -1 \in Int /\ -(2 * SOM) \in Int /\ -(2 * SOM + n + rest) \in Int /\ 2 * SOM \in Int
    BY <1>2
  <2> QED
    <3>1. Counting(h5, g, 1, -1, -(2 * SOM), -(2 * SOM + n + rest), 2 * SOM)
      BY <1>16, <2>1, <2>2, CountingSound
    <3> QED
      BY <3>1 DEF Counting
<1>18. Fission(h, g, a, n, high, rest)
  BY <1>10, <1>14, <1>15, <1>17 DEF Fission, SameBlocks, SameRest, BlocksOf
<1>19. g.stats = <<h.stats[1] + 1, h.stats[2] - 1, h.stats[3] - 2 * SOM,
                   h.stats[4] - (2 * SOM + n + rest), h.stats[5] + 2 * SOM>>
  <2>1. \A i \in 1 .. 5 : h.stats[i] \in Int
    BY DEF Sound, Numbers, Counters
  <2>2. h5.stats = h.stats
    BY <1>15 DEF SameRest
  <2> QED
    BY <1>2, <1>17, <2>1, <2>2
<1> QED
  BY <1>15, <1>17, <1>18, <1>19 DEF SameRest

LEMMA FissionBusy ==
  ASSUME NEW h, Sound(h), NEW a \in BlocksOf(h), NEW n, NEW rest, NEW high,
         NEW g, Sound(g), Fission(h, g, a, n, high, rest)
  PROVE  /\ BusyOf(g) = (BusyOf(h) \ {a}) \cup {a, high} /\ high \notin BusyOf(h)
         /\ \A x \in BusyOf(h) \ {a} : g.meta[x] = h.meta[x]
         /\ DOMAIN g.meta \cap MapAddrs = DOMAIN h.meta \cap MapAddrs
         /\ g.meta[a].size = n /\ g.meta[high].size = rest
<1>1. /\ \A b \in BlocksOf(h) \ {a} : g.meta[b] = h.meta[b]
      /\ DOMAIN g.meta \cap MapAddrs = DOMAIN h.meta \cap MapAddrs
      /\ \A x \in DOMAIN h.meta \cap MapAddrs : g.meta[x] = h.meta[x]
      /\ BlocksOf(g) = BlocksOf(h) \cup {high} /\ high \notin BlocksOf(h)
  BY DEF Fission, RestSame
<1>2. /\ g.meta[a] = [size |-> n, is_free |-> FALSE]
      /\ g.meta[high] = [size |-> rest, is_free |-> FALSE]
  BY DEF Fission, Halves
<1>3. ~ g.meta[a].is_free /\ ~ g.meta[high].is_free
  BY <1>2
<1>4. \A b \in BlocksOf(g) : b \notin MapAddrs
  BY SoundTiles, OwnAddresses
<1>5. high \notin MapAddrs /\ a \notin MapAddrs
  BY <1>1, <1>4
<1>6. BusyOf(g) = (BusyOf(h) \ {a}) \cup {a, high}
  BY <1>1, <1>3, <1>5 DEF BusyOf, BusyIn
<1>7. \A x \in BusyOf(h) \ {a} : g.meta[x] = h.meta[x]
  BY <1>1 DEF BusyOf, BusyIn
<1> QED
  BY <1>1, <1>2, <1>5, <1>6, <1>7 DEF BusyOf, BusyIn

LEMMA FissionMerged ==
  ASSUME NEW h, NEW a \in BlocksOf(h), NEW n, NEW rest, NEW high,
         NEW g, Fission(h, g, a, n, high, rest), Merged(h)
  PROVE  Merged(g)
<1>1. /\ \A b \in BlocksOf(h) \ {a} : g.meta[b] = h.meta[b] /\ EndAt(g.meta, b) = EndAt(h.meta, b)
      /\ BlocksOf(g) = BlocksOf(h) \cup {high}
  BY DEF Fission, Elsewhere
<1>2. ~ g.meta[a].is_free /\ ~ g.meta[high].is_free
  <2>1. /\ g.meta[a] = [size |-> n, is_free |-> FALSE]
        /\ g.meta[high] = [size |-> rest, is_free |-> FALSE]
    BY DEF Fission, Halves
  <2> QED
    BY <2>1
<1>3. ASSUME NEW b \in BlocksOf(g), g.meta[b].is_free, EndAt(g.meta, b) \in BlocksOf(g)
      PROVE  ~ g.meta[EndAt(g.meta, b)].is_free
  <2>1. b \in BlocksOf(h) \ {a} /\ h.meta[b].is_free /\ EndAt(g.meta, b) = EndAt(h.meta, b)
    BY <1>1, <1>2, <1>3
  <2>2. CASE EndAt(h.meta, b) \in {a, high}
    BY <1>2, <2>1, <2>2
  <2>3. CASE EndAt(h.meta, b) \notin {a, high}
    <3>1. EndAt(h.meta, b) \in BlocksOf(h) \ {a}
      BY <1>1, <1>3, <2>1, <2>3
    <3>2. ~ h.meta[EndAt(h.meta, b)].is_free
      BY <2>1, <3>1 DEF Merged, MergedOn
    <3> QED
      BY <1>1, <2>1, <3>1, <3>2
  <2> QED
    BY <2>2, <2>3
<1> QED
  BY <1>3 DEF Merged, MergedOn

-----------------------------------------------------------------------------
(* Neighbours.                                                             *)

\* Two blocks do not end at the same address.
LEMMA EndsDiffer ==
  ASSUME NEW h, Sound(h), NEW a \in BlocksOf(h), NEW b \in BlocksOf(h),
         EndAt(h.meta, a) = EndAt(h.meta, b)
  PROVE  a = b
<1>1. \A c \in BlocksOf(h) : c \in Nat /\ EndAt(h.meta, c) \in Nat /\ c < EndAt(h.meta, c)
  BY SoundTiles, BlockNumbers
<1>2. (a < b => EndAt(h.meta, a) <= b) /\ (b < a => EndAt(h.meta, b) <= a)
  BY SoundTiles DEF Tiles, Separate
<1> QED
  BY <1>1, <1>2

\* The metadata before a block are the footer of the block before.
LEMMA FooterBefore ==
  ASSUME NEW h, Sound(h), NEW a \in BlocksOf(h)
  PROVE  /\ a - SOM \in DOMAIN h.meta =>
              \E p \in BlocksOf(h) : EndAt(h.meta, p) = a /\ a - SOM = FootAt(h.meta, p)
         /\ \A p \in BlocksOf(h) : EndAt(h.meta, p) = a =>
              /\ a - SOM = FootAt(h.meta, p) /\ a - SOM \in DOMAIN h.meta
              /\ h.meta[a - SOM] = h.meta[p] /\ a # h.start
<1> DEFINE m == h.meta
           B == BlocksOf(h)
<1>1. Tiles(B, m, h.brk)
  BY SoundTiles
<1>2. /\ \A c \in B : /\ c \in Nat /\ EndAt(m, c) \in Nat /\ c < EndAt(m, c)
                      /\ FootAt(m, c) \in Nat /\ c < FootAt(m, c)
                      /\ EndAt(m, c) = FootAt(m, c) + SOM /\ FootAt(m, c) = c + SOM + m[c].size
                      /\ m[c].size \in Nat /\ EndAt(m, c) <= HeapEnd
      /\ SOM \in Nat /\ SOM > 0 /\ HeapEnd \in Nat
  BY <1>1, BlockNumbers, HeapAssumption
<1>3. ASSUME a - SOM \in DOMAIN m
      PROVE  \E p \in B : EndAt(m, p) = a /\ a - SOM = FootAt(m, p)
  <2>1. a - SOM \in B \/ a - SOM \in MapAddrs \/ \E p \in B : a - SOM = FootAt(m, p)
    BY <1>1, <1>3 DEF Tiles, Known
  <2>2. a - SOM \notin MapAddrs
    <3>1. a - SOM <= HeapEnd /\ a - SOM \in Int
      BY <1>2
    <3> QED
      BY <3>1, <1>2, HeapAssumption
  <2>3. a - SOM \notin B
    <3>1. SUFFICES ASSUME a - SOM \in B PROVE FALSE
      OBVIOUS
    <3>2. EndAt(m, a - SOM) <= a
      BY <1>1, <1>2, <3>1 DEF Tiles, Separate
    <3>3. EndAt(m, a - SOM) >= (a - SOM) + 2 * SOM
      BY <1>2, <3>1
    <3> QED
      BY <1>2, <3>1, <3>2, <3>3
  <2>4. PICK p \in B : a - SOM = FootAt(m, p)
    BY <2>1, <2>2, <2>3
  <2>5. EndAt(m, p) = a
    BY <1>2, <2>4
  <2> QED
    BY <2>4, <2>5
<1>4. ASSUME NEW p \in B, EndAt(m, p) = a
      PROVE  /\ a - SOM = FootAt(m, p) /\ a - SOM \in DOMAIN m
             /\ m[a - SOM] = m[p] /\ a # h.start
  <2>1. a - SOM = FootAt(m, p)
    BY <1>2, <1>4
  <2>2. FootAt(m, p) \in DOMAIN m /\ m[FootAt(m, p)] = m[p]
    BY <1>1 DEF Tiles, Headed
  <2>3. h.start <= p /\ h.start \in Int
    BY DEF Sound, Anchored
  <2> QED
    BY <1>2, <1>4, <2>1, <2>2, <2>3
<1> QED
  BY <1>3, <1>4

\* mergeBlocks looks at what is not the heap's own only where the break was not
\* aligned when the program started.
LEMMA ForeignCause ==
  ASSUME NEW h, Sound(h), NEW a \in BlocksOf(h), Foreign(h, a)
  PROVE  h.start \notin AlignedBreaks
<1>1. Tiles(BlocksOf(h), h.meta, h.brk)
  BY SoundTiles
<1>2. End(h, a) = EndAt(h.meta, a)
  BY DEF End, EndAt, Foot, FootAt, Size
<1>3. End(h, a) # h.brk => End(h, a) \in DOMAIN h.meta
  BY <1>1, <1>2 DEF Tiles, Adjoin, Headed
<1>4. a # h.start /\ a - SOM \notin DOMAIN h.meta
  BY <1>3 DEF Foreign
<1>5. ~ \E p \in BlocksOf(h) : EndAt(h.meta, p) = a
  BY <1>4, FooterBefore
<1>6. \A x \in BlocksOf(h) : a <= x
  BY <1>1, <1>5 DEF Tiles, Rooted
<1>7. \A x \in BlocksOf(h) : h.start <= x /\ h.start \in Int /\ x \in Nat
  BY <1>1, BlockNumbers DEF Sound, Anchored
<1> QED
  BY <1>4, <1>6, <1>7 DEF Sound, Anchored

LEMMA Neighbours ==
  ASSUME NEW h, Sound(h), NEW a \in BlocksOf(h), ~ Foreign(h, a)
  PROVE  /\ Prevs(h, a) = {p \in BlocksOf(h) : EndAt(h.meta, p) = a /\ h.meta[p].is_free}
         /\ Nexts(h, a) = {b \in BlocksOf(h) : b = EndAt(h.meta, a) /\ h.meta[b].is_free}
<1> DEFINE m == h.meta
           B == BlocksOf(h)
<1>1. Tiles(B, m, h.brk)
  BY SoundTiles
<1>2. /\ \A c \in B : /\ c \in Nat /\ EndAt(m, c) \in Nat /\ c < EndAt(m, c)
                      /\ EndAt(m, c) = FootAt(m, c) + SOM /\ FootAt(m, c) = c + SOM + m[c].size
                      /\ m[c].size \in Nat /\ EndAt(m, c) <= h.brk
      /\ SOM \in Nat /\ h.brk \in Nat
  BY <1>1, BlockNumbers
<1>3. End(h, a) = EndAt(m, a)
  BY DEF End, EndAt, Foot, FootAt, Size
<1>4. Nexts(h, a) = {b \in B : b = EndAt(m, a) /\ m[b].is_free}
  <2>1. EndAt(m, a) # h.brk <=> EndAt(m, a) \in B
    BY <1>1, <1>2 DEF Tiles, Adjoin
  <2> QED
    BY <1>3, <2>1 DEF Nexts
<1>5. a = h.start \/ a - SOM \in DOMAIN m
  BY DEF Foreign
<1>6. CASE \E p \in B : EndAt(m, p) = a
  <2>1. PICK p \in B : EndAt(m, p) = a
    BY <1>6
  <2>2. a - SOM = FootAt(m, p) /\ m[a - SOM] = m[p] /\ a # h.start
    BY <2>1, FooterBefore
  <2>3. (a - SOM) - m[p].size - SOM = p
    BY <1>2, <2>2
  <2>4. Prevs(h, a) = IF m[p].is_free THEN {p} ELSE {}
    BY <2>2, <2>3 DEF Prevs, Size
  <2>5. \A q \in B : EndAt(m, q) = a => q = p
    BY <2>1, EndsDiffer
  <2> QED
    BY <1>4, <2>1, <2>4, <2>5
<1>7. CASE ~ \E p \in B : EndAt(m, p) = a
  <2>1. a = h.start
    BY <1>5, <1>7, FooterBefore
  <2>2. Prevs(h, a) = {}
    BY <2>1 DEF Prevs
  <2> QED
    BY <1>4, <1>7, <2>2
<1> QED
  BY <1>6, <1>7

\* Block a and the neighbours in X and Y, from lo to hi.
Around(h, a, X, Y, lo, hi) ==
  /\ Interval(BlocksOf(h), {a} \cup X \cup Y, lo, hi)
  /\ IF X = {} THEN lo = a ELSE X = {lo} /\ EndAt(h.meta, lo) = a /\ h.meta[lo].is_free
  /\ IF Y = {} THEN hi = a ELSE Y = {hi} /\ EndAt(h.meta, a) = hi /\ h.meta[hi].is_free

LEMMA Neighbourhood ==
  ASSUME NEW h, Sound(h), NEW a \in BlocksOf(h), ~ Foreign(h, a),
         NEW X, X = {} \/ X = Prevs(h, a), NEW Y, Y = {} \/ Y = Nexts(h, a)
  PROVE  \E lo, hi : Around(h, a, X, Y, lo, hi)
<1> DEFINE m == h.meta
           B == BlocksOf(h)
           P == {a} \cup X \cup Y
<1>1. \A c \in B : c \in Nat /\ EndAt(m, c) \in Nat /\ c < EndAt(m, c)
  BY SoundTiles, BlockNumbers
<1>2. \A c, d \in B : c < d => EndAt(m, c) <= d
  BY SoundTiles DEF Tiles, Separate
<1>3. \E lo \in B :
        /\ IF X = {} THEN lo = a ELSE X = {lo} /\ EndAt(m, lo) = a /\ m[lo].is_free
        /\ lo <= a /\ \A b \in B : lo <= b /\ b < a => b = lo
  <2>1. CASE X = {}
    BY <1>1, <2>1
  <2>2. CASE X # {}
    <3>1. X = {p \in B : EndAt(m, p) = a /\ m[p].is_free}
      BY <2>2, Neighbours
    <3>2. PICK p \in B : EndAt(m, p) = a /\ m[p].is_free
      BY <2>2, <3>1
    <3>3. X = {p}
      BY <3>1, <3>2, EndsDiffer
    <3>4. p <= a
      BY <1>1, <3>2
    <3>5. ASSUME NEW b \in B, p <= b, b < a PROVE b = p
      <4>1. p < b => EndAt(m, p) <= b
        BY <1>2
      <4> QED
        BY <1>1, <3>2, <3>5, <4>1
    <3> QED
      BY <2>2, <3>2, <3>3, <3>4, <3>5
  <2> QED
    BY <2>1, <2>2
<1>4. \E hi \in B :
        /\ IF Y = {} THEN hi = a ELSE Y = {hi} /\ EndAt(m, a) = hi /\ m[hi].is_free
        /\ a <= hi /\ \A b \in B : a < b /\ b <= hi => b = hi
  <2>1. CASE Y = {}
    BY <1>1, <2>1
  <2>2. CASE Y # {}
    <3>1. Y = {b \in B : b = EndAt(m, a) /\ m[b].is_free}
      BY <2>2, Neighbours
    <3>2. PICK n \in B : n = EndAt(m, a) /\ m[n].is_free
      BY <2>2, <3>1
    <3>3. Y = {n}
      BY <3>1, <3>2
    <3>4. a <= n
      BY <1>1, <3>2
    <3>5. ASSUME NEW b \in B, a < b, b <= n PROVE b = n
      <4>1. EndAt(m, a) <= b
        BY <1>2, <3>5
      <4> QED
        BY <1>1, <3>2, <3>5, <4>1
    <3> QED
      BY <2>2, <3>2, <3>3, <3>4, <3>5
  <2> QED
    BY <2>1, <2>2
<1>5. PICK lo \in B :
        /\ IF X = {} THEN lo = a ELSE X = {lo} /\ EndAt(m, lo) = a /\ m[lo].is_free
        /\ lo <= a /\ \A b \in B : lo <= b /\ b < a => b = lo
  BY <1>3
<1>6. PICK hi \in B :
        /\ IF Y = {} THEN hi = a ELSE Y = {hi} /\ EndAt(m, a) = hi /\ m[hi].is_free
        /\ a <= hi /\ \A b \in B : a < b /\ b <= hi => b = hi
  BY <1>4
<1>7. P = {a, lo, hi}
  BY <1>5, <1>6
<1>8. \A b \in B : b \in P <=> lo <= b /\ b <= hi
  <2>1. \A b \in {a, lo, hi} : lo <= b /\ b <= hi
    BY <1>1, <1>5, <1>6
  <2>2. ASSUME NEW b \in B, lo <= b, b <= hi PROVE b \in {a, lo, hi}
    <3>1. b < a \/ b = a \/ a < b
      BY <1>1
    <3> QED
      BY <1>5, <1>6, <2>2, <3>1
  <2> QED
    BY <1>7, <2>1, <2>2
<1>9. Interval(B, P, lo, hi)
  BY <1>7, <1>8 DEF Interval
<1>10. Around(h, a, X, Y, lo, hi)
  BY <1>5, <1>6, <1>9 DEF Around
<1> QED
  BY <1>10

-----------------------------------------------------------------------------
(* Freeing and merging.                                                    *)

\* The wilderness pointer set to w.
Repointed(h, g, w) ==
  /\ Sound(g) /\ SameBlocks(h, g) /\ g.wilderness = w
  /\ g.stats = h.stats /\ g.overcount = h.overcount /\ g.fault = h.fault

LEMMA Repoint ==
  ASSUME NEW h, Sound(h), NEW w \in Nat, BlocksOf(h) = {} => w = NULL
  PROVE  Repointed(h, [h EXCEPT !.wilderness = w], w)
<1> DEFINE g == [h EXCEPT !.wilderness = w]
<1>1. /\ Fields(g) /\ SameBlocks(h, g) /\ g.wilderness = w
      /\ g.stats = h.stats /\ g.overcount = h.overcount /\ g.fault = h.fault
  BY DEF Sound, Fields, SameBlocks
<1> HIDE DEF g
<1>2. Sound(g)
  BY <1>1 DEF Sound, SameBlocks, BlocksOf, Anchored, Pointed, Numbers
<1>3. Repointed(h, g, w)
  BY <1>1, <1>2 DEF Repointed
<1> QED
  BY <1>3 DEF g

\* Something goes wrong: the heap is left as it is.
Failed(h, g, what) ==
  /\ Sound(g) /\ SameBlocks(h, g) /\ g.wilderness = h.wilderness
  /\ g.stats = h.stats /\ g.overcount = h.overcount
  /\ g.fault = IF h.fault = "none" THEN what ELSE h.fault

LEMMA Failing ==
  ASSUME NEW h, Sound(h), NEW what
  PROVE  Failed(h, Fail(h, what), what)
<1> DEFINE g == Fail(h, what)
<1>1. /\ Fields(g) /\ SameBlocks(h, g) /\ g.wilderness = h.wilderness
      /\ g.stats = h.stats /\ g.overcount = h.overcount
      /\ g.fault = IF h.fault = "none" THEN what ELSE h.fault
  BY DEF Sound, Fields, SameBlocks, Fail
<1> HIDE DEF g
<1>2. Sound(g)
  BY <1>1 DEF Sound, SameBlocks, BlocksOf, Anchored, Pointed, Numbers
<1>3. Failed(h, g, what)
  BY <1>1, <1>2 DEF Failed
<1> QED
  BY <1>3 DEF g

\* Heaps with the same blocks have the same merits.
LEMMA SameMerits ==
  ASSUME NEW h, NEW g, SameBlocks(h, g)
  PROVE  /\ BlocksOf(g) = BlocksOf(h) /\ BusyOf(g) = BusyOf(h) /\ g.meta = h.meta
         /\ g.brk = h.brk /\ g.start = h.start
         /\ Merged(h) => Merged(g)
         /\ g.wilderness = h.wilderness /\ WildLast(h) => WildLast(g)
BY DEF SameBlocks, BlocksOf, BusyOf, Merged, WildLast

LEMMA FusionAs ==
  ASSUME NEW h, NEW P, NEW lo, NEW hi, NEW added, NEW flag, NEW f,
         Fusion(h, f, P, lo, hi, added, flag), NEW g, SameBlocks(f, g), Sound(g)
  PROVE  Fusion(h, g, P, lo, hi, added, flag)
BY DEF Fusion, SameBlocks, BlocksOf, Sound

LEMMA FuseSound ==
  ASSUME NEW h, Sound(h), NEW P, NEW lo, NEW hi, Interval(BlocksOf(h), P, lo, hi),
         NEW flag \in BOOLEAN, NEW g, g = Fuse(h, P, 0, flag)
  PROVE  Sound(g) /\ Fusion(h, g, P, lo, hi, 0, flag) /\ SameRest(h, g)
<1>1. /\ SameRest(h, g) /\ Fused(h.meta, g.meta, P, lo, hi, 0, flag)
      /\ Linked(g.list, g.meta) /\ BlocksOf(g) = (BlocksOf(h) \ P) \cup {lo}
  BY FuseFacts
<1>2. h.brk \in Nat
  BY SoundTiles
<1>3. Fusion(h, g, P, lo, hi, 0, flag)
  BY <1>1, <1>2 DEF Fusion, SameRest
<1>4. h.brk + 0 <= HeapEnd
  <2>1. lo \in BlocksOf(h)
    BY DEF Interval
  <2> QED
    BY <1>2, <2>1, SoundTiles, BlockNumbers, HeapAssumption
<1>5. Numbers(g) /\ g.wilderness \in Nat
  BY <1>1 DEF SameRest, Sound, Numbers, Pointed
<1> QED
  BY <1>1, <1>3, <1>4, <1>5, FusionSound

\* mergeBlocks makes block a and its free neighbours one, g.
Merging(h, g, a, lo, hi) ==
  /\ Sound(g) /\ Around(h, a, Prevs(h, a), Nexts(h, a), lo, hi)
  /\ Fusion(h, g, {a} \cup Prevs(h, a) \cup Nexts(h, a), lo, hi, 0, TRUE)
  /\ g.wilderness = IF h.wilderness = hi THEN lo ELSE h.wilderness
  /\ g.fault = h.fault /\ g.overcount = h.overcount
  /\ \E k \in Int :
       /\ k = Cardinality({a} \cup Prevs(h, a) \cup Nexts(h, a)) - 1
       /\ g.stats = <<h.stats[1] - k, h.stats[2] + 1 - k, h.stats[3] + 2 * k * SOM,
                      h.stats[4] + Size(h, a) + 2 * k * SOM, h.stats[5] - 2 * k * SOM>>

LEMMA MergeFacts ==
  ASSUME NEW h, Sound(h), NEW a \in BlocksOf(h), ~ Foreign(h, a)
  PROVE  \E lo, hi : Merging(h, MergeBlocks(h, a), a, lo, hi)
<1> DEFINE P == {a} \cup Prevs(h, a) \cup Nexts(h, a)
           k == Cardinality(P) - 1
           f == Fuse(h, P, 0, TRUE)
           u == UpdateStatistics(f,
                  <<-k, 1 - k, 2 * k * SOM, Size(h, a) + 2 * k * SOM, -(2 * k * SOM)>>)
           w == IF h.wilderness = Max(P) THEN Min(P) ELSE h.wilderness
           g == [u EXCEPT !.wilderness = w]
<1>1. PICK lo, hi : Around(h, a, Prevs(h, a), Nexts(h, a), lo, hi)
  BY Neighbourhood
<1>2. Interval(BlocksOf(h), P, lo, hi)
  BY <1>1 DEF Around
<1>3. Min(P) = lo /\ Max(P) = hi /\ lo \in Nat /\ lo \in P /\ P \subseteq BlocksOf(h)
  <2> HIDE DEF P
  <2>1. Min(P) = lo /\ Max(P) = hi /\ lo \in Nat
    BY <1>2, PartsEnds
  <2>2. lo \in P /\ P \subseteq BlocksOf(h)
    BY <1>2 DEF Interval
  <2> QED
    BY <2>1, <2>2
<1>4. k \in Int
  <2>1. IsFiniteSet(BlocksOf(h))
    BY Members DEF Sound, Linked, BlocksOf
  <2> QED
    BY <1>3, <2>1, FS_Subset, FS_CardinalityType
<1>5. Size(h, a) \in Nat /\ SOM \in Nat
  BY SoundTiles, BlockNumbers DEF Size
<1>6. Sound(f) /\ Fusion(h, f, P, lo, hi, 0, TRUE) /\ SameRest(h, f)
  <2>1. TRUE \in BOOLEAN
    OBVIOUS
  <2> QED
    BY <1>2, <2>1, FuseSound
<1> HIDE DEF f, k
<1>7. 2 * k * SOM \in Int /\ Size(h, a) + 2 * k * SOM \in Int
  BY <1>4, <1>5
<1>8. Counting(f, u, -k, 1 - k, 2 * k * SOM, Size(h, a) + 2 * k * SOM, -(2 * k * SOM))
  <2>1. -k \in Int /\ 1 - k \in Int /\ -(2 * k * SOM) \in Int
    BY <1>4, <1>7
  <2> QED
    BY <1>6, <1>7, <2>1, CountingSound
<1>9. w \in Nat /\ (BlocksOf(u) = {} => w = NULL)
  <2>1. w \in Nat
    BY <1>3 DEF Sound, Pointed
  <2>2. BlocksOf(u) # {}
    BY <1>6, <1>8 DEF Counting, SameBlocks, BlocksOf, Fusion
  <2> QED
    BY <2>1, <2>2
<1>10. u.wilderness = h.wilderness
  BY <1>6, <1>8 DEF Counting, SameRest
<1> HIDE DEF u, w
<1>11. Repointed(u, g, w)
  BY <1>8, <1>9, Repoint DEF Counting
<1>12. MergeBlocks(h, a) = g
  BY <1>10 DEF MergeBlocks, f, k, u, w
<1> HIDE DEF g, P
<1>13. Fusion(h, g, P, lo, hi, 0, TRUE) /\ Sound(g)
  <2>1. SameBlocks(f, g) /\ Sound(g)
    BY <1>8, <1>11 DEF Counting, Repointed, SameBlocks
  <2> QED
    BY <1>6, <2>1, FusionAs
<1>14. g.stats = <<h.stats[1] - k, h.stats[2] + 1 - k, h.stats[3] + 2 * k * SOM,
                   h.stats[4] + Size(h, a) + 2 * k * SOM, h.stats[5] - 2 * k * SOM>>
  <2>1. g.stats = <<h.stats[1] + -k, h.stats[2] + (1 - k), h.stats[3] + 2 * k * SOM,
                    h.stats[4] + (Size(h, a) + 2 * k * SOM), h.stats[5] + -(2 * k * SOM)>>
    BY <1>6, <1>8, <1>11 DEF Counting, Repointed, SameRest
  <2>2. \A i \in 1 .. 5 : h.stats[i] \in Int
    BY DEF Sound, Numbers, Counters
  <2> DEFINE q == 2 * k * SOM
  <2>3. q \in Int
    BY <1>7
  <2> HIDE DEF q
  <2>4. /\ h.stats[1] + -k = h.stats[1] - k /\ h.stats[2] + (1 - k) = h.stats[2] + 1 - k
        /\ h.stats[4] + (Size(h, a) + q) = h.stats[4] + Size(h, a) + q
        /\ h.stats[5] + -q = h.stats[5] - q
    BY <1>4, <1>5, <2>2, <2>3
  <2> QED
    BY <2>1, <2>4 DEF q
<1>15. /\ g.wilderness = IF h.wilderness = hi THEN lo ELSE h.wilderness
       /\ g.fault = h.fault /\ g.overcount = h.overcount
  BY <1>3, <1>6, <1>8, <1>11 DEF Counting, Repointed, SameRest, w
<1>16. Merging(h, g, a, lo, hi)
  BY <1>1, <1>4, <1>13, <1>14, <1>15 DEF Merging, P, k
<1> QED
  BY <1>12, <1>16

\* The payloads in old are no more in use, those in new are, the others as before.
Keeps(h, g, old, new) ==
  /\ BusyOf(g) = (BusyOf(h) \ old) \cup new
  /\ \A x \in BusyOf(h) \ old : g.meta[x].size = h.meta[x].size

\* Sound heaps where a call may begin.
Good(h) == Sound(h) /\ Merged(h)

\* Block a of h is marked as free, and in g merged with its neighbours.
Freed(h, h1, g, a, lo, hi) ==
  /\ Sound(h1) /\ SameRest(h, h1) /\ BlocksOf(h1) = BlocksOf(h)
  /\ Fusion(h, h1, {a}, a, a, 0, TRUE) /\ Merging(h1, g, a, lo, hi)
  /\ Good(g) /\ Keeps(h, g, {a}, {}) /\ Mappings(g) = Mappings(h)

LEMMA FreeMerged ==
  ASSUME NEW h, Good(h), NEW a \in BlocksOf(h), NEW h1, Sound(h1), SameRest(h, h1),
         BlocksOf(h1) = BlocksOf(h), Fusion(h, h1, {a}, a, a, 0, TRUE),
         ~ Foreign(h1, a), NEW g, NEW lo, NEW hi, Merging(h1, g, a, lo, hi)
  PROVE  Merged(g)
<1> DEFINE m == h1.meta
           B == BlocksOf(h)
           X == Prevs(h1, a)
           Y == Nexts(h1, a)
           P == {a} \cup X \cup Y
<1>1. /\ \A b \in B \ {a} : m[b] = h.meta[b] /\ EndAt(m, b) = EndAt(h.meta, b)
      /\ m[a].is_free = TRUE
  <2>1. Whole(h.meta, m, a, a, 0, TRUE) /\ Beside(B, h.meta, m, {a}, a, a, 0)
    <3>1. Sound(h)
      BY DEF Good
    <3> QED
      BY <3>1, FusionShape
  <2> QED
    BY <2>1 DEF Whole, Beside
<1>2. /\ X = {p \in B : EndAt(m, p) = a /\ m[p].is_free}
      /\ Y = {b \in B : b = EndAt(m, a) /\ m[b].is_free}
  BY Neighbours
<1>3. /\ Interval(B, P, lo, hi)
      /\ IF X = {} THEN lo = a ELSE X = {lo} /\ EndAt(m, lo) = a /\ m[lo].is_free
      /\ IF Y = {} THEN hi = a ELSE Y = {hi} /\ EndAt(m, a) = hi /\ m[hi].is_free
      /\ Fusion(h1, g, P, lo, hi, 0, TRUE) /\ Sound(g)
  BY DEF Merging, Around
<1>4. \A b \in B : b \in Nat /\ b < EndAt(m, b) /\ EndAt(m, b) \in Nat
  BY SoundTiles, BlockNumbers
<1>5. a \in P /\ P \subseteq B /\ lo \in B /\ hi \in B
  BY <1>3 DEF Interval
<1> HIDE DEF X, Y, P
<1>6. \A b, c \in B \ {a} : m[b].is_free /\ m[c].is_free => EndAt(m, b) # c
  <2>1. \A b, c \in B : h.meta[b].is_free /\ h.meta[c].is_free => EndAt(h.meta, b) # c
    BY DEF Good, Merged, MergedOn
  <2> QED
    BY <1>1, <2>1
<1>7. MergedOn(m, B \ P)
  BY <1>5, <1>6 DEF MergedOn
<1>8. ASSUME NEW b \in B \ P, m[b].is_free PROVE EndAt(m, b) # lo /\ b # EndAt(m, hi)
  <2>1. b # a
    BY <1>5
  <2>2. EndAt(m, b) # lo
    <3>1. CASE X = {}
      <4>1. lo = a
        BY <1>3, <3>1
      <4> QED
        BY <1>2, <1>8, <3>1, <4>1
    <3>2. CASE X # {}
      <4>1. m[lo].is_free /\ EndAt(m, lo) = a
        BY <1>3, <3>2
      <4>2. lo # a
        BY <1>4, <1>5, <4>1
      <4> QED
        BY <1>5, <1>6, <1>8, <2>1, <4>1, <4>2
    <3> QED
      BY <3>1, <3>2
  <2>3. b # EndAt(m, hi)
    <3>1. CASE Y = {}
      <4>1. hi = a
        BY <1>3, <3>1
      <4> QED
        BY <1>2, <1>8, <3>1, <4>1
    <3>2. CASE Y # {}
      <4>1. m[hi].is_free /\ EndAt(m, a) = hi
        BY <1>3, <3>2
      <4>2. hi # a
        BY <1>4, <1>5, <4>1
      <4> QED
        BY <1>5, <1>6, <1>8, <2>1, <4>1, <4>2
    <3> QED
      BY <3>1, <3>2
  <2> QED
    BY <2>2, <2>3
<1>9. ~ FreeBeside(h1, P, lo, hi) /\ BlocksOf(h1) = B
  BY <1>8 DEF FreeBeside
<1> QED
  BY <1>3, <1>7, <1>9, FusionMerged

LEMMA FreeFacts ==
  ASSUME NEW h, Good(h), NEW a \in BlocksOf(h), NEW h1, Marked(h, h1, a, TRUE)
  PROVE  /\ Sound(h1) /\ SameRest(h, h1) /\ Fusion(h, h1, {a}, a, a, 0, TRUE)
         /\ BlocksOf(h1) = BlocksOf(h)
         /\ ~ Foreign(h1, a) => \E lo, hi : Freed(h, h1, MergeBlocks(h1, a), a, lo, hi)
<1>0. Sound(h) /\ TRUE \in BOOLEAN
  BY DEF Good
<1>1. /\ Fusion(h, h1, {a}, a, a, 0, TRUE) /\ SameRest(h, h1) /\ BlocksOf(h1) = BlocksOf(h)
  BY <1>0, MarkFusion
<1>2. Sound(h1)
  <2>1. h.brk + 0 <= HeapEnd
    BY <1>0, SoundTiles, BlockNumbers, HeapAssumption
  <2>2. Numbers(h1) /\ h1.wilderness \in Nat
    BY <1>0, <1>1 DEF SameRest, Sound, Numbers, Pointed
  <2> QED
    BY <1>0, <1>1, <2>1, <2>2, FusionSound
<1>3. ASSUME ~ Foreign(h1, a)
      PROVE  \E lo, hi : Freed(h, h1, MergeBlocks(h1, a), a, lo, hi)
  <2> DEFINE g == MergeBlocks(h1, a)
             P == {a} \cup Prevs(h1, a) \cup Nexts(h1, a)
  <2>1. PICK lo, hi : Merging(h1, g, a, lo, hi)
    BY <1>1, <1>2, <1>3, MergeFacts
  <2> HIDE DEF g
  <2>2. Merged(g)
    BY <1>1, <1>2, <1>3, <2>1, FreeMerged
  <2>3. Fusion(h1, g, P, lo, hi, 0, TRUE) /\ Sound(g)
    BY <2>1 DEF Merging
  <2>4. h1.brk + 0 <= HeapEnd /\ h.brk + 0 <= HeapEnd
    <3>1. h.brk \in Nat /\ h.brk <= HeapEnd
      BY <1>0, SoundTiles, BlockNumbers
    <3> QED
      BY <1>1, <3>1, HeapAssumption DEF SameRest
  <2>5. FusedBusy(h, h1, {a}, a, TRUE)
    BY <1>0, <1>1, <2>4, FusionBusy
  <2>6. FusedBusy(h1, g, P, lo, TRUE)
    <3> HIDE DEF P
    <3> QED
      BY <1>0, <1>2, <2>3, <2>4, FusionBusy
  <2>7. \A x \in P : x \notin BusyOf(h1)
    <3>1. /\ Prevs(h1, a) = {p \in BlocksOf(h1) : EndAt(h1.meta, p) = a /\ h1.meta[p].is_free}
          /\ Nexts(h1, a) = {b \in BlocksOf(h1) : b = EndAt(h1.meta, a) /\ h1.meta[b].is_free}
      <4>1. a \in BlocksOf(h1)
        BY <1>1
      <4> QED
        BY <1>2, <1>3, <4>1, Neighbours
    <3>2. h1.meta[a].is_free
      <4>1. Whole(h.meta, h1.meta, a, a, 0, TRUE)
        BY <1>0, <1>1, FusionShape
      <4>2. h1.meta[a] = [size |-> FusedSize(h.meta, a, a, 0), is_free |-> TRUE]
        BY <4>1 DEF Whole
      <4> QED
        BY <4>2
    <3>3. \A x \in BlocksOf(h1) : x \notin MapAddrs
      BY <1>2, SoundTiles, OwnAddresses
    <3> QED
      BY <1>1, <3>1, <3>2, <3>3 DEF BusyOf, BusyIn
  <2>8. Keeps(h, g, {a}, {}) /\ Mappings(g) = Mappings(h)
    BY <2>5, <2>6, <2>7 DEF Keeps, FusedBusy
  <2>9. Freed(h, h1, g, a, lo, hi)
    BY <1>1, <1>2, <2>1, <2>2, <2>3, <2>8 DEF Freed, Good
  <2> QED
    BY <2>9 DEF g
<1> QED
  BY <1>1, <1>2, <1>3

\* Only mappings differ.
Remapped(h, g) == SameRest(h, g) /\ g.list = h.list /\ OnlyMappings(h.meta, g.meta)

LEMMA RemappedFacts ==
  ASSUME NEW h, Sound(h), NEW g, Remapped(h, g)
  PROVE  /\ Sound(g) /\ BlocksOf(g) = BlocksOf(h)
         /\ Merged(h) => Merged(g)
         /\ WildLast(h) => WildLast(g)
         /\ \A b \in BlocksOf(h) : g.meta[b] = h.meta[b]
         /\ BusyOf(g) = (BusyOf(h) \ Mappings(h)) \cup Mappings(g)
<1>1. Tiles(BlocksOf(h), h.meta, h.brk) /\ Linked(h.list, h.meta)
  BY SoundTiles
<1>2. /\ SameRest(h, g) /\ BlocksOf(g) = BlocksOf(h) /\ g.list = h.list
      /\ OnlyMappings(h.meta, g.meta)
  BY DEF Remapped, BlocksOf
<1>3. Tiles(BlocksOf(h), g.meta, h.brk) /\ Elsewhere(BlocksOf(h), h.meta, g.meta)
  BY <1>1, <1>2, MapTiles
<1>4. \A b \in BlocksOf(h) : g.meta[b] = h.meta[b] /\ EndAt(g.meta, b) = EndAt(h.meta, b)
  BY <1>3 DEF Elsewhere
<1>5. Linked(g.list, g.meta)
  <2>1. SameSizes(h.meta, g.meta, ToSet(h.list))
    BY <1>4 DEF SameSizes, BlocksOf
  <2> QED
    BY <1>1, <1>2, <2>1, Resized
<1>6. Sound(g)
  <2>1. Fields(g) /\ g.brk = h.brk /\ g.start = h.start
    BY <1>2 DEF SameRest
  <2>2. Anchored(g) /\ Pointed(g) /\ Numbers(g)
    BY <1>2 DEF SameRest, Sound, Anchored, Pointed, Numbers
  <2> QED
    BY <1>2, <1>3, <1>5, <2>1, <2>2 DEF Sound
<1>7. Merged(h) => Merged(g)
  BY <1>2, <1>4 DEF Merged, MergedOn
<1>8. WildLast(h) => WildLast(g)
  BY <1>2, <1>4 DEF WildLast, SameRest
<1>9. BusyOf(g) = (BusyOf(h) \ Mappings(h)) \cup Mappings(g)
  <2>1. \A b \in BlocksOf(h) : b \notin MapAddrs
    BY <1>1, OwnAddresses
  <2> QED
    BY <1>2, <1>4, <2>1 DEF BusyOf, BusyIn, Mappings
<1> QED
  BY <1>2, <1>4, <1>6, <1>7, <1>8, <1>9

\* What Counting leaves.
LEMMA CountingMerits ==
  ASSUME NEW h, NEW g, NEW d1, NEW d2, NEW d3, NEW d4, NEW d5,
         Counting(h, g, d1, d2, d3, d4, d5)
  PROVE  /\ Sound(g) /\ BlocksOf(g) = BlocksOf(h) /\ BusyOf(g) = BusyOf(h) /\ g.meta = h.meta
         /\ Mappings(g) = Mappings(h) /\ g.brk = h.brk /\ g.start = h.start
         /\ g.wilderness = h.wilderness /\ g.fault = h.fault /\ g.overcount = h.overcount
         /\ Merged(h) => Merged(g)
         /\ WildLast(h) => WildLast(g)
BY DEF Counting, SameBlocks, BlocksOf, BusyOf, Merged, WildLast, Mappings

\* A mapping is unmapped.
Unmapping(h, g, a) ==
  /\ Good(g) /\ Keeps(h, g, {a}, {}) /\ BlocksOf(g) = BlocksOf(h)
  /\ Mappings(g) = Mappings(h) \ {a}
  /\ \A x \in Mappings(g) : g.meta[x] = h.meta[x]
  /\ \A x \in BlocksOf(h) : g.meta[x] = h.meta[x]
  /\ WildLast(h) => WildLast(g)
  /\ g.wilderness = h.wilderness /\ g.fault = h.fault /\ g.overcount = h.overcount
  /\ g.brk = h.brk /\ g.start = h.start
  /\ g.stats = <<h.stats[1] - 1, h.stats[2], h.stats[3] - Size(h, a), h.stats[4],
                 h.stats[5] - 2 * SOM>>

LEMMA UnmapFacts ==
  ASSUME NEW h, Good(h), NEW a \in Mappings(h)
  PROVE  Unmapping(h, UpdateStatistics(Erase(h, {a}), <<-1, 0, -Size(h, a), 0, -(2 * SOM)>>), a)
<1> DEFINE f == Erase(h, {a})
           g == UpdateStatistics(f, <<-1, 0, -Size(h, a), 0, -(2 * SOM)>>)
<1>1. Sound(h) /\ Fields(h) /\ Merged(h) /\ Tiles(BlocksOf(h), h.meta, h.brk)
  BY SoundTiles DEF Good
<1>2. /\ SameRest(h, f) /\ f.list = h.list /\ DOMAIN f.meta = DOMAIN h.meta \ {a}
      /\ \A x \in DOMAIN h.meta \ {a} : f.meta[x] = h.meta[x]
  BY <1>1, EraseFacts
<1> HIDE DEF f
<1>3. OnlyMappings(h.meta, f.meta)
  <2>1. \A x \in DOMAIN f.meta \cap MapAddrs :
          f.meta[x] = h.meta[x] /\ x \in DOMAIN h.meta \cap MapAddrs
    BY <1>2
  <2>2. \A x \in DOMAIN h.meta : h.meta[x] \in Meta
    BY <1>1 DEF Tiles, Known
  <2>3. MapsKnown(f.meta)
    BY <1>1, <2>1 DEF Tiles, MapsKnown
  <2>4. a \in MapAddrs
    BY DEF Mappings
  <2> QED
    BY <1>2, <2>1, <2>2, <2>3, <2>4 DEF OnlyMappings
<1>4. /\ Sound(f) /\ BlocksOf(f) = BlocksOf(h)
      /\ Merged(h) => Merged(f)
      /\ WildLast(h) => WildLast(f)
      /\ \A b \in BlocksOf(h) : f.meta[b] = h.meta[b]
      /\ BusyOf(f) = (BusyOf(h) \ Mappings(h)) \cup Mappings(f)
  <2>1. Remapped(h, f)
    BY <1>2, <1>3 DEF Remapped
  <2> QED
    BY <1>1, <2>1, RemappedFacts
<1>5. Size(h, a) \in Nat /\ SOM \in Nat
  <2>1. h.meta[a] \in Meta
    BY <1>1 DEF Tiles, Known, Mappings
  <2> QED
    BY <1>1, <2>1, BlockNumbers DEF Meta, Size
<1>6. Counting(f, g, -1, 0, -Size(h, a), 0, -(2 * SOM))
  <2>1. -1 \in Int /\ 0 \in Int /\ -Size(h, a) \in Int /\ -(2 * SOM) \in Int
    BY <1>5
  <2> QED
    BY <1>4, <2>1, CountingSound
<1> HIDE DEF g
<1>7. /\ Sound(g) /\ BlocksOf(g) = BlocksOf(f) /\ BusyOf(g) = BusyOf(f) /\ g.meta = f.meta
      /\ Mappings(g) = Mappings(f) /\ g.brk = f.brk /\ g.start = f.start
      /\ g.wilderness = f.wilderness /\ g.fault = f.fault /\ g.overcount = f.overcount
      /\ Merged(f) => Merged(g)
      /\ WildLast(f) => WildLast(g)
  BY <1>6, CountingMerits
<1>8. Mappings(f) = Mappings(h) \ {a}
  BY <1>2 DEF Mappings
<1>9. \A x \in Mappings(f) : f.meta[x] = h.meta[x]
  BY <1>2 DEF Mappings
<1>10. Keeps(h, g, {a}, {})
  <2>1. a \notin BlocksOf(h)
    BY <1>1, OwnAddresses DEF Mappings
  <2>2. BusyOf(h) = (BusyOf(h) \ Mappings(h)) \cup Mappings(h)
    BY DEF BusyOf, BusyIn, Mappings
  <2>3. \A x \in BusyOf(h) : x \in BlocksOf(h) \/ x \in Mappings(h)
    BY DEF BusyOf, BusyIn, Mappings
  <2>4. BusyOf(g) = BusyOf(h) \ {a}
    BY <1>4, <1>7, <1>8, <2>2
  <2>5. \A x \in BusyOf(h) \ {a} : g.meta[x] = h.meta[x]
    BY <1>4, <1>7, <1>8, <1>9, <2>3
  <2> QED
    BY <2>4, <2>5 DEF Keeps
<1>11. g.stats = <<h.stats[1] - 1, h.stats[2], h.stats[3] - Size(h, a), h.stats[4],
                   h.stats[5] - 2 * SOM>>
  <2>1. \A i \in 1 .. 5 : h.stats[i] \in Int
    BY <1>1 DEF Sound, Numbers, Counters
  <2>2. f.stats = h.stats
    BY <1>2 DEF SameRest
  <2>3. g.stats = <<f.stats[1] + -1, f.stats[2] + 0, f.stats[3] + -Size(h, a), f.stats[4] + 0,
                    f.stats[5] + -(2 * SOM)>>
    BY <1>6 DEF Counting
  <2>4. /\ h.stats[1] + -1 = h.stats[1] - 1 /\ h.stats[2] + 0 = h.stats[2]
        /\ h.stats[3] + -Size(h, a) = h.stats[3] - Size(h, a) /\ h.stats[4] + 0 = h.stats[4]
        /\ h.stats[5] + -(2 * SOM) = h.stats[5] - 2 * SOM
    BY <1>5, <2>1
  <2> QED
    BY <2>2, <2>3, <2>4
<1>12. Unmapping(h, g, a)
  BY <1>1, <1>2, <1>4, <1>7, <1>8, <1>9, <1>10, <1>11 DEF Unmapping, Good, SameRest
<1> QED
  BY <1>12 DEF g, f

\* A mapping is made at address a.
Mapping(h, g, a, size) ==
  /\ Good(g) /\ Keeps(h, g, {}, {a}) /\ BlocksOf(g) = BlocksOf(h)
  /\ a \notin BusyOf(h) /\ Mappings(g) = Mappings(h) \cup {a} /\ Size(g, a) = size
  /\ \A x \in Mappings(h) : g.meta[x] = h.meta[x]
  /\ \A x \in BlocksOf(h) : g.meta[x] = h.meta[x]
  /\ WildLast(h) => WildLast(g)
  /\ g.wilderness = h.wilderness /\ g.fault = h.fault /\ g.overcount = h.overcount
  /\ g.brk = h.brk /\ g.start = h.start
  /\ g.stats = <<h.stats[1] + 1, h.stats[2], h.stats[3] + size, h.stats[4],
                 h.stats[5] + 2 * SOM>>

Placed(h, a, size) ==
  [h EXCEPT !.meta = Written(@, {a}, [size |-> size, is_free |-> FALSE])]

LEMMA PlacedFacts ==
  ASSUME NEW h, Fields(h), NEW a, NEW size, NEW g, g = Placed(h, a, size)
  PROVE  /\ SameRest(h, g) /\ g.list = h.list /\ DOMAIN g.meta = DOMAIN h.meta \cup {a}
         /\ g.meta[a] = [size |-> size, is_free |-> FALSE]
         /\ \A x \in DOMAIN h.meta : x # a => g.meta[x] = h.meta[x]
<1> DEFINE m == Written(h.meta, {a}, [size |-> size, is_free |-> FALSE])
<1>1. g = [h EXCEPT !.meta = m]
  BY DEF Placed
<1>2. /\ DOMAIN m = DOMAIN h.meta \cup {a} /\ m[a] = [size |-> size, is_free |-> FALSE]
      /\ \A x \in DOMAIN h.meta : x # a => m[x] = h.meta[x]
  BY DEF Written
<1> HIDE DEF m
<1>3. g.meta = m /\ g.list = h.list /\ SameRest(h, g)
  BY <1>1 DEF Fields, SameRest
<1> QED
  BY <1>2, <1>3

LEMMA MapFacts ==
  ASSUME NEW h, Good(h), NEW a \in MapAddrs \ DOMAIN h.meta, NEW size \in Nat,
         MMAP_THRESHOLD <= size, size < MaxRequest + Align
  PROVE  Mapping(h, UpdateStatistics(Placed(h, a, size), <<1, 0, size, 0, 2 * SOM>>), a, size)
<1> DEFINE f == Placed(h, a, size)
           g == UpdateStatistics(f, <<1, 0, size, 0, 2 * SOM>>)
<1>1. Sound(h) /\ Fields(h) /\ Merged(h) /\ Tiles(BlocksOf(h), h.meta, h.brk)
  BY SoundTiles DEF Good
<1>2. /\ SameRest(h, f) /\ f.list = h.list /\ DOMAIN f.meta = DOMAIN h.meta \cup {a}
      /\ f.meta[a] = [size |-> size, is_free |-> FALSE]
      /\ \A x \in DOMAIN h.meta : x # a => f.meta[x] = h.meta[x]
  BY <1>1, PlacedFacts
<1> HIDE DEF f
<1>3. /\ \A x \in DOMAIN h.meta : x # a /\ f.meta[x] = h.meta[x]
      /\ f.meta[a].size = size /\ ~ f.meta[a].is_free /\ f.meta[a] \in Meta
  BY <1>2 DEF Meta
<1>4. OnlyMappings(h.meta, f.meta)
  <2>1. \A x \in DOMAIN h.meta : h.meta[x] \in Meta
    BY <1>1 DEF Tiles, Known
  <2>2. MapsKnown(f.meta)
    BY <1>1, <1>2, <1>3 DEF Tiles, MapsKnown
  <2> QED
    BY <1>2, <1>3, <2>1, <2>2 DEF OnlyMappings
<1>5. /\ Sound(f) /\ BlocksOf(f) = BlocksOf(h)
      /\ Merged(h) => Merged(f)
      /\ WildLast(h) => WildLast(f)
      /\ \A b \in BlocksOf(h) : f.meta[b] = h.meta[b]
      /\ BusyOf(f) = (BusyOf(h) \ Mappings(h)) \cup Mappings(f)
  <2>1. Remapped(h, f)
    BY <1>2, <1>4 DEF Remapped
  <2> QED
    BY <1>1, <2>1, RemappedFacts
<1>6. SOM \in Nat
  BY <1>1, BlockNumbers
<1>7. Counting(f, g, 1, 0, size, 0, 2 * SOM)
  <2>1. 1 \in Int /\ 0 \in Int /\ size \in Int /\ 2 * SOM \in Int
    BY <1>6
  <2> QED
    BY <1>5, <2>1, CountingSound
<1> HIDE DEF g
<1>8. /\ Sound(g) /\ BlocksOf(g) = BlocksOf(f) /\ BusyOf(g) = BusyOf(f) /\ g.meta = f.meta
      /\ Mappings(g) = Mappings(f) /\ g.brk = f.brk /\ g.start = f.start
      /\ g.wilderness = f.wilderness /\ g.fault = f.fault /\ g.overcount = f.overcount
      /\ Merged(f) => Merged(g)
      /\ WildLast(f) => WildLast(g)
  BY <1>7, CountingMerits
<1>9. Mappings(f) = Mappings(h) \cup {a}
  BY <1>2 DEF Mappings
<1>10. \A x \in Mappings(h) : f.meta[x] = h.meta[x]
  BY <1>3 DEF Mappings
<1>11. Keeps(h, g, {}, {a}) /\ a \notin BusyOf(h)
  <2>1. \A b \in BlocksOf(h) : b \in DOMAIN h.meta
    BY <1>1 DEF Tiles, Headed
  <2>2. a \notin BusyOf(h)
    BY <2>1 DEF BusyOf, BusyIn
  <2>3. BusyOf(h) = (BusyOf(h) \ Mappings(h)) \cup Mappings(h)
    BY DEF BusyOf, BusyIn, Mappings
  <2>4. \A x \in BusyOf(h) : x \in BlocksOf(h) \/ x \in Mappings(h)
    BY DEF BusyOf, BusyIn, Mappings
  <2>5. BusyOf(g) = BusyOf(h) \cup {a}
    BY <1>5, <1>8, <1>9, <2>3
  <2>6. \A x \in BusyOf(h) : g.meta[x] = h.meta[x]
    BY <1>5, <1>8, <1>10, <2>4
  <2> QED
    BY <2>2, <2>5, <2>6 DEF Keeps
<1>12. g.stats = <<h.stats[1] + 1, h.stats[2], h.stats[3] + size, h.stats[4],
                   h.stats[5] + 2 * SOM>>
  <2>1. \A i \in 1 .. 5 : h.stats[i] \in Int
    BY <1>1 DEF Sound, Numbers, Counters
  <2>2. f.stats = h.stats
    BY <1>2 DEF SameRest
  <2>3. g.stats = <<f.stats[1] + 1, f.stats[2] + 0, f.stats[3] + size, f.stats[4] + 0,
                    f.stats[5] + 2 * SOM>>
    BY <1>7 DEF Counting
  <2>4. h.stats[2] + 0 = h.stats[2] /\ h.stats[4] + 0 = h.stats[4]
    BY <2>1
  <2> QED
    BY <2>2, <2>3, <2>4
<1>13. Size(g, a) = size
  BY <1>3, <1>8 DEF Size
<1>14. Mapping(h, g, a, size)
  BY <1>1, <1>2, <1>5, <1>8, <1>9, <1>10, <1>11, <1>12, <1>13 DEF Mapping, Good, SameRest
<1> QED
  BY <1>14 DEF g, f

-----------------------------------------------------------------------------
(* The counters.                                                           *)

AllOf(h) == BlocksOf(h) \cup Mappings(h)
FreeOf(h) == {b \in BlocksOf(h) : h.meta[b].is_free}

\* The counters say what the blocks do, those in A taken for free.
Books(h, A) ==
  /\ IsFiniteSet(Mappings(h))
  /\ h.stats = <<Cardinality(AllOf(h)), Cardinality(A), SizeSum(h.meta, AllOf(h)) + h.overcount,
                 SizeSum(h.meta, A), 2 * SOM * Cardinality(AllOf(h))>>

LEMMA AllFacts ==
  ASSUME NEW h, Sound(h), IsFiniteSet(Mappings(h))
  PROVE  /\ IsFiniteSet(AllOf(h)) /\ IsFiniteSet(BlocksOf(h))
         /\ \A a \in AllOf(h) : h.meta[a].size \in Nat
         /\ \A a \in BlocksOf(h) : a \notin Mappings(h)
         /\ h.overcount \in Nat /\ SOM \in Nat
<1>1. Tiles(BlocksOf(h), h.meta, h.brk) /\ Linked(h.list, h.meta)
  BY SoundTiles
<1>2. IsFiniteSet(BlocksOf(h))
  BY <1>1, Members DEF Linked, BlocksOf
<1>3. \A a \in AllOf(h) : h.meta[a].size \in Nat
  <2>1. \A a \in BlocksOf(h) : h.meta[a].size \in Nat
    BY <1>1, BlockNumbers
  <2>2. \A a \in Mappings(h) : h.meta[a] \in Meta
    BY <1>1 DEF Tiles, Known, Mappings
  <2> QED
    BY <2>1, <2>2 DEF AllOf, Meta
<1>4. \A a \in BlocksOf(h) : a \notin Mappings(h)
  BY <1>1, OwnAddresses DEF Mappings
<1>5. h.overcount \in Nat /\ SOM \in Nat
  BY HeapAssumption DEF Sound, Numbers
<1>6. IsFiniteSet(AllOf(h))
  BY <1>2, FS_Union DEF AllOf
<1> QED
  BY <1>2, <1>3, <1>4, <1>5, <1>6

\* The blocks in P give way to those in N, of those counted as free, the ones in Q
\* to those in R.
Turnover(h, g, P, N, A, Q, R) ==
  /\ Sound(h) /\ Sound(g) /\ Books(h, A) /\ g.overcount = h.overcount
  /\ P \subseteq AllOf(h) /\ IsFiniteSet(N) /\ AllOf(g) = (AllOf(h) \ P) \cup N
  /\ N \cap (AllOf(h) \ P) = {} /\ IsFiniteSet(Mappings(g))
  /\ SameSizes(h.meta, g.meta, AllOf(h) \ P)
  /\ A \subseteq AllOf(h) /\ Q = A \cap P /\ R \subseteq N

\* The counters follow it.
LEMMA BooksFollow ==
  ASSUME NEW h, NEW g, NEW P, NEW N, NEW A, NEW Q, NEW R, Turnover(h, g, P, N, A, Q, R),
         NEW D, D = (A \ P) \cup R,
         g.stats = <<h.stats[1] - Cardinality(P) + Cardinality(N),
                     h.stats[2] - Cardinality(Q) + Cardinality(R),
                     h.stats[3] - SizeSum(h.meta, P) + SizeSum(g.meta, N),
                     h.stats[4] - SizeSum(h.meta, Q) + SizeSum(g.meta, R),
                     h.stats[5] - 2 * SOM * Cardinality(P) + 2 * SOM * Cardinality(N)>>
  PROVE  Books(g, D)
<1>1. /\ Sound(h) /\ Sound(g) /\ Books(h, A) /\ IsFiniteSet(Mappings(g))
      /\ IsFiniteSet(Mappings(h)) /\ g.overcount = h.overcount
  BY DEF Turnover, Books
<1>2. /\ IsFiniteSet(AllOf(h)) /\ h.overcount \in Nat /\ SOM \in Nat
      /\ \A a \in AllOf(h) : h.meta[a].size \in Nat
  BY <1>1, AllFacts
<1>3. \A a \in AllOf(g) : g.meta[a].size \in Nat
  BY <1>1, AllFacts
<1>4. Exchanged(h.meta, g.meta, AllOf(h), P, N, AllOf(g))
  BY <1>2, <1>3 DEF Exchanged, Turnover
<1>5. Exchanged(h.meta, g.meta, A, Q, R, D)
  <2>1. IsFiniteSet(A) /\ IsFiniteSet(R)
    BY <1>2, FS_Subset DEF Turnover
  <2>2. SameSizes(h.meta, g.meta, A \ Q)
    BY DEF Turnover, SameSizes
  <2>3. R \cap (A \ Q) = {} /\ Q \subseteq A /\ D = (A \ Q) \cup R
    BY DEF Turnover
  <2>4. /\ \A a \in A : h.meta[a].size \in Nat
        /\ \A a \in R : g.meta[a].size \in Nat
    BY <1>2, <1>3 DEF Turnover
  <2> QED
    BY <2>1, <2>2, <2>3, <2>4 DEF Exchanged
<1>6. /\ Cardinality(AllOf(g)) = Cardinality(AllOf(h)) - Cardinality(P) + Cardinality(N)
      /\ SizeSum(g.meta, AllOf(g)) =
           SizeSum(h.meta, AllOf(h)) - SizeSum(h.meta, P) + SizeSum(g.meta, N)
      /\ Cardinality(AllOf(h)) \in Nat /\ SizeSum(h.meta, AllOf(h)) \in Nat
      /\ Cardinality(P) \in Nat /\ SizeSum(h.meta, P) \in Nat
      /\ Cardinality(N) \in Nat /\ SizeSum(g.meta, N) \in Nat
  BY <1>4, Exchange
<1>7. /\ Cardinality(D) = Cardinality(A) - Cardinality(Q) + Cardinality(R)
      /\ SizeSum(g.meta, D) = SizeSum(h.meta, A) - SizeSum(h.meta, Q) + SizeSum(g.meta, R)
  BY <1>5, Exchange
<1>8. /\ h.stats[1] = Cardinality(AllOf(h)) /\ h.stats[2] = Cardinality(A)
      /\ h.stats[3] = SizeSum(h.meta, AllOf(h)) + h.overcount
      /\ h.stats[4] = SizeSum(h.meta, A) /\ h.stats[5] = 2 * SOM * Cardinality(AllOf(h))
  BY <1>1 DEF Books
<1>9. 2 * SOM * Cardinality(AllOf(g)) =
        h.stats[5] - 2 * SOM * Cardinality(P) + 2 * SOM * Cardinality(N)
  <2> DEFINE c == Cardinality(AllOf(h))
             p == Cardinality(P)
             k == Cardinality(N)
  <2>1. c \in Nat /\ p \in Nat /\ k \in Nat
    BY <1>6
  <2> HIDE DEF c, p, k
  <2>2. 2 * SOM * (c - p + k) = 2 * SOM * c - 2 * SOM * p + 2 * SOM * k
    BY <1>2, <2>1
  <2> QED
    BY <1>6, <1>8, <2>2 DEF c, p, k
<1>10. SizeSum(g.meta, AllOf(g)) + g.overcount =
         h.stats[3] - SizeSum(h.meta, P) + SizeSum(g.meta, N)
  BY <1>1, <1>2, <1>6, <1>8
<1> QED
  BY <1>1, <1>6, <1>7, <1>8, <1>9, <1>10 DEF Books

\* The payload of adjacent blocks made one: theirs, and the metadata between them.
PartsCounted(h, a, P, lo, hi, k) ==
  /\ k \in Nat /\ IsFiniteSet(P) /\ Cardinality(P) = k + 1 /\ Cardinality(P \ {a}) = k
  /\ SizeSum(h.meta, P \ {a}) \in Nat /\ h.meta[a].size \in Nat
  /\ SizeSum(h.meta, P) = h.meta[a].size + SizeSum(h.meta, P \ {a})
  /\ FusedSize(h.meta, lo, hi, 0) = SizeSum(h.meta, P) + 2 * k * SOM

LEMMA PartsCount ==
  ASSUME NEW h, Sound(h), NEW a \in BlocksOf(h), NEW X, NEW Y, NEW lo, NEW hi,
         Around(h, a, X, Y, lo, hi), NEW P, P = {a} \cup X \cup Y
  PROVE  \E k : k = Cardinality(P) - 1 /\ PartsCounted(h, a, P, lo, hi, k)
<1> DEFINE sz(x) == h.meta[x].size
<1>1. Tiles(BlocksOf(h), h.meta, h.brk)
  BY SoundTiles
<1>2. /\ SOM \in Nat
      /\ \A x \in BlocksOf(h) : /\ x \in Nat /\ sz(x) \in Nat
                                /\ EndAt(h.meta, x) = x + SOM + sz(x) + SOM
  BY <1>1, BlockNumbers
<1>3. P \subseteq BlocksOf(h)
  BY DEF Around, Interval
<1>4. ASSUME NEW k \in Nat, IsFiniteSet(P \ {a}), Cardinality(P \ {a}) = k,
             FusedSize(h.meta, lo, hi, 0) = sz(a) + SizeSum(h.meta, P \ {a}) + 2 * k * SOM
      PROVE  \E j : j = Cardinality(P) - 1 /\ PartsCounted(h, a, P, lo, hi, j)
  <2>1. a \in P /\ P = (P \ {a}) \cup {a} /\ a \notin P \ {a}
    OBVIOUS
  <2>2. IsFiniteSet(P) /\ Cardinality(P) = k + 1
    <3> DEFINE S == P \ {a}
    <3>1. IsFiniteSet(S) /\ Cardinality(S) = k /\ a \notin S /\ P = S \cup {a}
      BY <1>4, <2>1
    <3> HIDE DEF S
    <3>2. IsFiniteSet(S \cup {a}) /\ Cardinality(S \cup {a}) = Cardinality(S) + 1
      BY <3>1, FS_AddElement
    <3> QED
      BY <3>1, <3>2
  <2>3. \A x \in P : h.meta[x].size \in Nat
    BY <1>2, <1>3
  <2>4. SizeSum(h.meta, P) = h.meta[a].size + SizeSum(h.meta, P \ {a})
    BY <2>1, <2>2, <2>3, SumSplit
  <2>5. SizeSum(h.meta, P \ {a}) \in Nat
    <3>1. \A x \in P \ {a} : h.meta[x].size \in Nat
      BY <2>3
    <3> QED
      BY <1>4, <3>1, SumType
  <2>6. FusedSize(h.meta, lo, hi, 0) = SizeSum(h.meta, P) + 2 * k * SOM
    BY <1>4, <2>4
  <2>7. PartsCounted(h, a, P, lo, hi, k)
    BY <1>2, <1>4, <2>2, <2>4, <2>5, <2>6 DEF PartsCounted
  <2>8. k = Cardinality(P) - 1
    BY <2>2
  <2> QED
    BY <2>7, <2>8
<1>5. FusedSize(h.meta, lo, hi, 0) = EndAt(h.meta, hi) + 0 - lo - 2 * SOM
  BY DEF FusedSize
<1>6. lo \in BlocksOf(h) /\ hi \in BlocksOf(h)
  BY DEF Around, Interval
<1> HIDE DEF sz
<1>7. CASE X = {} /\ Y = {}
  <2>1. lo = a /\ hi = a /\ P \ {a} = {}
    BY <1>7 DEF Around
  <2>2. IsFiniteSet(P \ {a}) /\ Cardinality(P \ {a}) = 0
    BY <2>1, FS_EmptySet
  <2>3. SizeSum(h.meta, P \ {a}) = 0
    BY <2>1, SumEmpty
  <2>4. FusedSize(h.meta, lo, hi, 0) = sz(a) + SizeSum(h.meta, P \ {a}) + 2 * 0 * SOM
    BY <1>2, <1>5, <2>1, <2>3
  <2> QED
    BY <1>4, <2>2, <2>4
<1>8. CASE X # {} /\ Y = {}
  <2>1. hi = a /\ X = {lo} /\ EndAt(h.meta, lo) = a
    BY <1>8 DEF Around
  <2>2. lo # a
    BY <1>2, <1>6, <2>1, HeapAssumption
  <2>3. P \ {a} = {lo}
    BY <1>8, <2>1, <2>2
  <2>4. IsFiniteSet(P \ {a}) /\ Cardinality(P \ {a}) = 1
    <3>1. IsFiniteSet({lo}) /\ Cardinality({lo}) = 1
      BY FS_Singleton
    <3> QED
      BY <2>3, <3>1
  <2>5. SizeSum(h.meta, P \ {a}) = sz(lo)
    <3>1. h.meta[lo].size \in Nat
      BY <1>2, <1>6 DEF sz
    <3>2. SizeSum(h.meta, {lo}) = h.meta[lo].size
      BY <3>1, SumOne
    <3> QED
      BY <2>3, <3>2 DEF sz
  <2>6. FusedSize(h.meta, lo, hi, 0) = sz(a) + SizeSum(h.meta, P \ {a}) + 2 * 1 * SOM
    BY <1>2, <1>5, <1>6, <2>1, <2>5
  <2> QED
    BY <1>4, <2>4, <2>6
<1>9. CASE X = {} /\ Y # {}
  <2>1. lo = a /\ Y = {hi} /\ EndAt(h.meta, a) = hi
    BY <1>9 DEF Around
  <2>2. hi # a
    BY <1>2, <1>6, <2>1, HeapAssumption
  <2>3. P \ {a} = {hi}
    <3>1. \A x : x \in P <=> x = a \/ x = hi
      BY <1>9, <2>1
    <3> QED
      BY <2>2, <3>1
  <2>4. IsFiniteSet(P \ {a}) /\ Cardinality(P \ {a}) = 1
    <3>1. IsFiniteSet({hi}) /\ Cardinality({hi}) = 1
      BY FS_Singleton
    <3> QED
      BY <2>3, <3>1
  <2>5. SizeSum(h.meta, P \ {a}) = sz(hi)
    <3>1. h.meta[hi].size \in Nat
      BY <1>2, <1>6 DEF sz
    <3>2. SizeSum(h.meta, {hi}) = h.meta[hi].size
      BY <3>1, SumOne
    <3> QED
      BY <2>3, <3>2 DEF sz
  <2>6. FusedSize(h.meta, lo, hi, 0) = sz(a) + SizeSum(h.meta, P \ {a}) + 2 * 1 * SOM
    BY <1>2, <1>5, <1>6, <2>1, <2>5
  <2> QED
    BY <1>4, <2>4, <2>6
<1>10. CASE X # {} /\ Y # {}
  <2>1. X = {lo} /\ EndAt(h.meta, lo) = a /\ Y = {hi} /\ EndAt(h.meta, a) = hi
    BY <1>10 DEF Around
  <2>2. hi # a /\ lo # a /\ lo # hi
    BY <1>2, <1>6, <2>1, HeapAssumption
  <2>3. P \ {a} = {lo, hi}
    BY <2>1, <2>2
  <2>4. IsFiniteSet(P \ {a}) /\ Cardinality(P \ {a}) = 2
    <3>1. IsFiniteSet({lo, hi}) /\ Cardinality({lo, hi}) = 2
      BY <2>2, PairCount
    <3> QED
      BY <2>3, <3>1
  <2>5. SizeSum(h.meta, P \ {a}) = sz(lo) + sz(hi)
    <3>1. \A x \in P \ {a} : h.meta[x].size \in Nat
      BY <1>2, <1>3 DEF sz
    <3>2. lo \in P \ {a} /\ (P \ {a}) \ {lo} = {hi}
      BY <2>2, <2>3
    <3>3. SizeSum(h.meta, P \ {a}) = h.meta[lo].size + SizeSum(h.meta, (P \ {a}) \ {lo})
      BY <2>4, <3>1, <3>2, SumSplit
    <3>4. SizeSum(h.meta, (P \ {a}) \ {lo}) = sz(hi)
      BY <1>2, <1>6, <3>2, SumOne DEF sz
    <3> QED
      BY <3>3, <3>4 DEF sz
  <2>6. FusedSize(h.meta, lo, hi, 0) = sz(a) + SizeSum(h.meta, P \ {a}) + 2 * 2 * SOM
    BY <1>2, <1>5, <1>6, <2>1, <2>5
  <2> QED
    BY <1>4, <2>4, <2>6
<1> QED
  BY <1>7, <1>8, <1>9, <1>10

\* Heaps that differ in nothing the counters count.
LEMMA BooksSame ==
  ASSUME NEW h, Sound(h), NEW A, Books(h, A), A \subseteq AllOf(h), NEW g,
         AllOf(g) = AllOf(h), Mappings(g) = Mappings(h), SameSizes(h.meta, g.meta, AllOf(h)),
         g.stats = h.stats, g.overcount = h.overcount
  PROVE  Books(g, A)
<1>1. IsFiniteSet(Mappings(h)) /\ IsFiniteSet(AllOf(h))
  <2>1. IsFiniteSet(Mappings(h))
    BY DEF Books
  <2> QED
    BY <2>1, AllFacts
<1>2. SizeSum(h.meta, AllOf(h)) = SizeSum(g.meta, AllOf(h))
  BY <1>1, SumSame
<1>3. SizeSum(h.meta, A) = SizeSum(g.meta, A)
  <2>1. IsFiniteSet(A)
    BY <1>1, FS_Subset
  <2>2. SameSizes(h.meta, g.meta, A)
    BY DEF SameSizes
  <2> QED
    BY <2>1, <2>2, SumSame
<1> QED
  BY <1>1, <1>2, <1>3 DEF Books

\* Blocks made one.
LEMMA FusionBooks ==
  ASSUME NEW h, Sound(h), NEW P, NEW lo, NEW hi, NEW added \in Nat, NEW flag \in BOOLEAN,
         NEW g, Fusion(h, g, P, lo, hi, added, flag), h.brk + added <= HeapEnd, Sound(g),
         NEW A, A \subseteq BlocksOf(h), A \ P = FreeOf(h) \ P, Books(h, A),
         g.overcount = h.overcount, NEW n, n = FusedSize(h.meta, lo, hi, added),
         g.stats = <<h.stats[1] - Cardinality(P) + 1,
                     h.stats[2] - Cardinality(A \cap P) + IF flag THEN 1 ELSE 0,
                     h.stats[3] - SizeSum(h.meta, P) + n,
                     h.stats[4] - SizeSum(h.meta, A \cap P) + IF flag THEN n ELSE 0,
                     h.stats[5] - 2 * SOM * Cardinality(P) + 2 * SOM>>
  PROVE  Books(g, FreeOf(g))
<1> DEFINE R == IF flag THEN {lo} ELSE {}
           N == {lo}
           D == (A \ P) \cup R
           Q == A \cap P
<1>1. /\ Whole(h.meta, g.meta, lo, hi, added, flag)
      /\ Beside(BlocksOf(h), h.meta, g.meta, P, lo, hi, added)
      /\ Interval(BlocksOf(h), P, lo, hi)
  BY FusionShape
<1>2. BlocksOf(g) = (BlocksOf(h) \ P) \cup {lo} /\ FusedBusy(h, g, P, lo, flag)
  BY FusionBusy DEF Fusion
<1>3. RestSame(BlocksOf(h), h.meta, P, g.meta)
  BY FusionTiles
<1>4. /\ IsFiniteSet(Mappings(h)) /\ Mappings(g) = Mappings(h)
      /\ \A x \in BlocksOf(h) : x \notin Mappings(h)
  BY <1>2, AllFacts DEF FusedBusy, Books
<1>5. P \subseteq BlocksOf(h) /\ lo \in P
  BY <1>1 DEF Interval
<1>6. AllOf(g) = (AllOf(h) \ P) \cup {lo} /\ P \subseteq AllOf(h) /\ {lo} \cap (AllOf(h) \ P) = {}
  BY <1>2, <1>4, <1>5 DEF AllOf
<1>7. /\ \A x \in BlocksOf(h) \ P : g.meta[x] = h.meta[x]
      /\ \A x \in Mappings(h) : g.meta[x] = h.meta[x]
  BY <1>3 DEF RestSame, Mappings
<1>8. SameSizes(h.meta, g.meta, AllOf(h) \ P)
  BY <1>7 DEF SameSizes, AllOf
<1>9. g.meta[lo] = [size |-> n, is_free |-> flag]
  BY <1>1 DEF Whole
<1>10. g.meta[lo].size = n /\ g.meta[lo].is_free = flag
  BY <1>9
<1>11. n \in Nat
  BY <1>1 DEF Whole
<1>12. D = FreeOf(g)
  <2>1. \A x \in BlocksOf(g) : x = lo \/ (x \in BlocksOf(h) \ P /\ g.meta[x] = h.meta[x])
    BY <1>2, <1>7
  <2>2. \A x \in BlocksOf(h) \ P : x \in BlocksOf(g) /\ x # lo
    BY <1>2, <1>5
  <2>3. lo \in BlocksOf(g)
    BY <1>2
  <2>4. \A x : x \in D <=> (x \in FreeOf(h) \ P \/ (flag /\ x = lo))
    OBVIOUS
  <2> HIDE DEF D
  <2> QED
    BY <1>5, <1>7, <1>10, <2>1, <2>2, <2>3, <2>4 DEF FreeOf
<1>13. Turnover(h, g, P, N, A, Q, R)
  <2>1. IsFiniteSet(N) /\ R \subseteq N
    BY FS_Singleton
  <2>2. A \subseteq AllOf(h)
    BY DEF AllOf
  <2> HIDE DEF R
  <2> QED
    BY <1>4, <1>6, <1>8, <2>1, <2>2 DEF Turnover
<1>14. Cardinality(N) = 1 /\ SizeSum(g.meta, N) = n
  <2>1. g.meta[lo].size \in Nat
    BY <1>10, <1>11
  <2>2. SizeSum(g.meta, {lo}) = g.meta[lo].size
    BY <2>1, SumOne
  <2>3. Cardinality({lo}) = 1
    BY FS_Singleton
  <2> QED
    BY <1>10, <2>2, <2>3
<1>15. Cardinality(R) = (IF flag THEN 1 ELSE 0) /\ SizeSum(g.meta, R) = (IF flag THEN n ELSE 0)
  <2>1. CASE flag
    <3>1. R = N
      BY <2>1
    <3> QED
      BY <1>14, <2>1, <3>1
  <2>2. CASE ~ flag
    <3>1. R = {}
      BY <2>2
    <3>2. Cardinality({}) = 0 /\ SizeSum(g.meta, {}) = 0
      BY FS_EmptySet, SumEmpty
    <3> QED
      BY <2>2, <3>1, <3>2
  <2> QED
    BY <2>1, <2>2
<1> HIDE DEF R, N, Q
<1>16. g.stats = <<h.stats[1] - Cardinality(P) + Cardinality(N),
                   h.stats[2] - Cardinality(Q) + Cardinality(R),
                   h.stats[3] - SizeSum(h.meta, P) + SizeSum(g.meta, N),
                   h.stats[4] - SizeSum(h.meta, Q) + SizeSum(g.meta, R),
                   h.stats[5] - 2 * SOM * Cardinality(P) + 2 * SOM * Cardinality(N)>>
  <2>1. 2 * SOM * Cardinality(N) = 2 * SOM
    BY <1>14, HeapAssumption
  <2> QED
    BY <1>14, <1>15, <2>1 DEF Q
<1>17. Books(g, D)
  BY <1>13, <1>16, BooksFollow
<1> QED
  BY <1>12, <1>17

Proper(h) == Books(h, FreeOf(h))

\* A block marked: nothing is counted yet.
MarkedAs(h, h1, a) ==
  /\ Fusion(h, h1, {a}, a, a, 0, TRUE) /\ SameRest(h, h1) /\ Sound(h1)

LEMMA MarkedShape ==
  ASSUME NEW h, Sound(h), NEW a \in BlocksOf(h), NEW h1, MarkedAs(h, h1, a)
  PROVE  /\ AllOf(h1) = AllOf(h) /\ Mappings(h1) = Mappings(h) /\ BlocksOf(h1) = BlocksOf(h)
         /\ SameSizes(h.meta, h1.meta, AllOf(h)) /\ h1.meta[a].is_free
         /\ \A x \in BlocksOf(h) : x # a => h1.meta[x] = h.meta[x]
<1>1. Fusion(h, h1, {a}, a, a, 0, TRUE)
  BY DEF MarkedAs
<1>2. h.brk + 0 <= HeapEnd
  BY SoundTiles, BlockNumbers, HeapAssumption
<1>3. Whole(h.meta, h1.meta, a, a, 0, TRUE)
  BY <1>1, FusionShape
<1>4. RestSame(BlocksOf(h), h.meta, {a}, h1.meta)
  BY <1>1, <1>2, FusionTiles
<1>5. BlocksOf(h1) = BlocksOf(h)
  BY <1>1 DEF Fusion
<1>6. h1.meta[a] = [size |-> h.meta[a].size, is_free |-> TRUE]
  <2>1. h1.meta[a] = [size |-> FusedSize(h.meta, a, a, 0), is_free |-> TRUE]
    BY <1>3 DEF Whole
  <2>2. FusedSize(h.meta, a, a, 0) = h.meta[a].size
    <3>1. EndAt(h.meta, a) = a + SOM + h.meta[a].size + SOM /\ a \in Nat /\ h.meta[a].size \in Nat
          /\ SOM \in Nat
      BY SoundTiles, BlockNumbers
    <3> QED
      BY <3>1 DEF FusedSize
  <2> QED
    BY <2>1, <2>2
<1>7. Mappings(h1) = Mappings(h) /\ \A x \in Mappings(h) : h1.meta[x] = h.meta[x]
  BY <1>4 DEF RestSame, Mappings
<1>8. \A x \in BlocksOf(h) : x # a => h1.meta[x] = h.meta[x]
  BY <1>4 DEF RestSame
<1>9. h1.meta[a].size = h.meta[a].size /\ h1.meta[a].is_free
  BY <1>6
<1>10. SameSizes(h.meta, h1.meta, AllOf(h))
  BY <1>7, <1>8, <1>9 DEF SameSizes, AllOf
<1> QED
  BY <1>5, <1>7, <1>8, <1>9, <1>10 DEF AllOf

\* Freeing a block is counted.
LEMMA FreedBooks ==
  ASSUME NEW h, Sound(h), NEW a \in BlocksOf(h), ~ h.meta[a].is_free, Proper(h),
         NEW h1, NEW g, NEW lo, NEW hi, Freed(h, h1, g, a, lo, hi), ~ Foreign(h1, a)
  PROVE  Proper(g)
<1> DEFINE X == Prevs(h1, a)
           Y == Nexts(h1, a)
           P == {a} \cup X \cup Y
           A == FreeOf(h)
           n == FusedSize(h1.meta, lo, hi, 0)
<1>1. Merging(h1, g, a, lo, hi) /\ MarkedAs(h, h1, a) /\ Sound(h1)
  BY DEF Freed, MarkedAs
<1>2. /\ AllOf(h1) = AllOf(h) /\ Mappings(h1) = Mappings(h) /\ BlocksOf(h1) = BlocksOf(h)
      /\ SameSizes(h.meta, h1.meta, AllOf(h)) /\ h1.meta[a].is_free
      /\ \A x \in BlocksOf(h) : x # a => h1.meta[x] = h.meta[x]
  BY <1>1, MarkedShape
<1>3. Books(h1, A)
  <2>1. A \subseteq AllOf(h) /\ Books(h, A) /\ h1.stats = h.stats /\ h1.overcount = h.overcount
    BY <1>1 DEF Proper, AllOf, FreeOf, MarkedAs, SameRest
  <2> HIDE DEF A
  <2> QED
    BY <1>2, <2>1, BooksSame
<1>4. /\ Sound(g) /\ Around(h1, a, X, Y, lo, hi) /\ Fusion(h1, g, P, lo, hi, 0, TRUE)
      /\ g.overcount = h1.overcount
  BY <1>1 DEF Merging
<1>5. PICK k : k = Cardinality(P) - 1 /\ PartsCounted(h1, a, P, lo, hi, k)
  <2> HIDE DEF X, Y
  <2>1. a \in BlocksOf(h1)
    BY <1>2
  <2> QED
    BY <1>1, <1>4, <2>1, PartsCount
<1>6. g.stats = <<h1.stats[1] - k, h1.stats[2] + 1 - k, h1.stats[3] + 2 * k * SOM,
                  h1.stats[4] + Size(h1, a) + 2 * k * SOM, h1.stats[5] - 2 * k * SOM>>
  BY <1>1, <1>5 DEF Merging
<1>7. P \subseteq BlocksOf(h1) /\ \A x \in P : h1.meta[x].is_free
  <2>1. /\ X = {p \in BlocksOf(h1) : EndAt(h1.meta, p) = a /\ h1.meta[p].is_free}
        /\ Y = {b \in BlocksOf(h1) : b = EndAt(h1.meta, a) /\ h1.meta[b].is_free}
    BY <1>1, <1>2, Neighbours
  <2> HIDE DEF X, Y
  <2> QED
    BY <1>2, <2>1
<1>8. A \cap P = P \ {a} /\ A \ P = FreeOf(h1) \ P /\ A \subseteq BlocksOf(h1)
  <2>1. a \in P
    OBVIOUS
  <2> HIDE DEF P
  <2> QED
    BY <1>2, <1>7, <2>1 DEF FreeOf
<1> HIDE DEF X, Y, A
<1>9. g.stats = <<h1.stats[1] - Cardinality(P) + 1,
                  h1.stats[2] - Cardinality(A \cap P) + IF TRUE THEN 1 ELSE 0,
                  h1.stats[3] - SizeSum(h1.meta, P) + n,
                  h1.stats[4] - SizeSum(h1.meta, A \cap P) + IF TRUE THEN n ELSE 0,
                  h1.stats[5] - 2 * SOM * Cardinality(P) + 2 * SOM>>
  <2> DEFINE s == SizeSum(h1.meta, P)
             r == SizeSum(h1.meta, P \ {a})
             c == Cardinality(P)
             d == Cardinality(P \ {a})
             z == h1.meta[a].size
  <2>1. /\ c = k + 1 /\ d = k /\ k \in Nat /\ r \in Nat /\ z \in Nat /\ s = z + r
        /\ n = s + 2 * k * SOM
    BY <1>5 DEF PartsCounted
  <2>2. \A i \in 1 .. 5 : h1.stats[i] \in Int
    BY <1>1 DEF Sound, Numbers, Counters
  <2>3. Size(h1, a) = z /\ SOM \in Nat
    BY HeapAssumption DEF Size
  <2> HIDE DEF s, r, c, d, z, n
  <2>4. /\ h1.stats[1] - k = h1.stats[1] - c + 1
        /\ h1.stats[2] + 1 - k = h1.stats[2] - d + 1
    BY <2>1, <2>2
  <2>5. 2 * SOM * c = 2 * k * SOM + 2 * SOM /\ 2 * k * SOM \in Nat
    BY <2>1, <2>3
  <2>6. /\ h1.stats[3] + 2 * k * SOM = h1.stats[3] - s + n
        /\ h1.stats[4] + z + 2 * k * SOM = h1.stats[4] - r + n
        /\ h1.stats[5] - 2 * k * SOM = h1.stats[5] - 2 * SOM * c + 2 * SOM
    <3> DEFINE t == 2 * k * SOM
               u == 2 * SOM * c
               v == 2 * SOM
    <3>1. t \in Nat /\ u = t + v /\ n = s + t /\ s = z + r /\ v \in Nat
      BY <2>1, <2>3, <2>5
    <3> HIDE DEF t, u, v
    <3>2. /\ h1.stats[3] + t = h1.stats[3] - s + n /\ h1.stats[4] + z + t = h1.stats[4] - r + n
          /\ h1.stats[5] - t = h1.stats[5] - u + v
      BY <2>1, <2>2, <3>1
    <3> QED
      BY <3>2 DEF t, u, v
  <2>7. s = SizeSum(h1.meta, P) /\ r = SizeSum(h1.meta, A \cap P)
        /\ c = Cardinality(P) /\ d = Cardinality(A \cap P)
    BY <1>8 DEF s, r, c, d
  <2> HIDE DEF P
  <2> QED
    BY <1>6, <2>3, <2>4, <2>6, <2>7
<1>10. h1.brk + 0 <= HeapEnd
  <2>1. Tiles(BlocksOf(h1), h1.meta, h1.brk)
    BY <1>1, SoundTiles
  <2>2. h1.brk \in Nat /\ h1.brk <= HeapEnd
    BY <1>2, <2>1, BlockNumbers
  <2> QED
    BY <2>2, HeapAssumption
<1>11. Books(g, FreeOf(g))
  <2> HIDE DEF P, n
  <2>1. n = FusedSize(h1.meta, lo, hi, 0)
    BY DEF n
  <2>2. TRUE \in BOOLEAN /\ 0 \in Nat
    OBVIOUS
  <2> QED
    BY <1>1, <1>3, <1>4, <1>8, <1>9, <1>10, <2>1, <2>2, FusionBooks
<1> QED
  BY <1>11 DEF Proper

\* A mapping more or less is counted.
LEMMA MapBooks ==
  ASSUME NEW h, Sound(h), Proper(h), NEW a, NEW size \in Nat, NEW g, Mapping(h, g, a, size)
  PROVE  Proper(g)
<1>1. /\ Sound(g) /\ BlocksOf(g) = BlocksOf(h) /\ Mappings(g) = Mappings(h) \cup {a}
      /\ a \notin BusyOf(h) /\ g.overcount = h.overcount /\ Size(g, a) = size
      /\ \A x \in AllOf(h) : g.meta[x] = h.meta[x]
      /\ g.stats = <<h.stats[1] + 1, h.stats[2], h.stats[3] + size, h.stats[4],
                     h.stats[5] + 2 * SOM>>
  BY DEF Mapping, Good, AllOf
<1>2. IsFiniteSet(Mappings(h)) /\ IsFiniteSet(Mappings(g)) /\ Books(h, FreeOf(h))
  BY <1>1, FS_AddElement DEF Proper, Books
<1>3. \A x \in BlocksOf(g) : x \notin Mappings(g)
  BY <1>1, <1>2, AllFacts
<1>4. a \notin AllOf(h) /\ FreeOf(g) = FreeOf(h) /\ FreeOf(h) \subseteq AllOf(h)
  <2>1. a \notin BlocksOf(h)
    BY <1>1, <1>3
  <2>2. a \notin Mappings(h)
    BY <1>1 DEF BusyOf, BusyIn, Mappings
  <2> QED
    BY <1>1, <2>1, <2>2 DEF AllOf, FreeOf
<1>5. Turnover(h, g, {}, {a}, FreeOf(h), {}, {})
  <2>1. AllOf(g) = (AllOf(h) \ {}) \cup {a}
    BY <1>1 DEF AllOf
  <2>2. SameSizes(h.meta, g.meta, AllOf(h) \ {})
    BY <1>1 DEF SameSizes
  <2>3. IsFiniteSet({a})
    BY FS_Singleton
  <2> QED
    BY <1>1, <1>2, <1>4, <2>1, <2>2, <2>3 DEF Turnover
<1>6. /\ Cardinality({a}) = 1 /\ Cardinality({}) = 0 /\ SizeSum(h.meta, {}) = 0
      /\ SizeSum(g.meta, {}) = 0
  BY FS_Singleton, FS_EmptySet, SumEmpty
<1>7. SizeSum(g.meta, {a}) = size
  <2>1. g.meta[a].size \in Nat /\ g.meta[a].size = size
    BY <1>1 DEF Size
  <2> QED
    BY <2>1, SumOne
<1>8. g.stats = <<h.stats[1] - Cardinality({}) + Cardinality({a}),
                  h.stats[2] - Cardinality({}) + Cardinality({}),
                  h.stats[3] - SizeSum(h.meta, {}) + SizeSum(g.meta, {a}),
                  h.stats[4] - SizeSum(h.meta, {}) + SizeSum(g.meta, {}),
                  h.stats[5] - 2 * SOM * Cardinality({}) + 2 * SOM * Cardinality({a})>>
  <2>1. \A i \in 1 .. 5 : h.stats[i] \in Int
    BY DEF Sound, Numbers, Counters
  <2>2. /\ h.stats[1] - 0 + 1 = h.stats[1] + 1 /\ h.stats[2] - 0 + 0 = h.stats[2]
        /\ h.stats[3] - 0 + size = h.stats[3] + size /\ h.stats[4] - 0 + 0 = h.stats[4]
        /\ h.stats[5] - 2 * SOM * 0 + 2 * SOM * 1 = h.stats[5] + 2 * SOM
    BY <2>1, HeapAssumption
  <2> QED
    BY <1>1, <1>6, <1>7, <2>2
<1>9. FreeOf(h) = (FreeOf(h) \ {}) \cup {}
  OBVIOUS
<1>10. Books(g, FreeOf(h))
  BY <1>5, <1>8, <1>9, BooksFollow
<1> QED
  BY <1>4, <1>10 DEF Proper

LEMMA UnmapBooks ==
  ASSUME NEW h, Sound(h), Proper(h), NEW a \in Mappings(h), NEW g, Unmapping(h, g, a)
  PROVE  Proper(g)
<1>1. /\ Sound(g) /\ BlocksOf(g) = BlocksOf(h) /\ Mappings(g) = Mappings(h) \ {a}
      /\ g.overcount = h.overcount
      /\ \A x \in AllOf(h) : x # a => g.meta[x] = h.meta[x]
      /\ \A x \in BlocksOf(h) : g.meta[x] = h.meta[x]
      /\ g.stats = <<h.stats[1] - 1, h.stats[2], h.stats[3] - Size(h, a), h.stats[4],
                     h.stats[5] - 2 * SOM>>
  BY DEF Unmapping, Good, AllOf
<1>2. IsFiniteSet(Mappings(h)) /\ IsFiniteSet(Mappings(g)) /\ Books(h, FreeOf(h))
  BY <1>1, FS_RemoveElement DEF Proper, Books
<1>3. /\ \A x \in BlocksOf(h) : x \notin Mappings(h)
      /\ \A x \in AllOf(h) : h.meta[x].size \in Nat
  BY <1>2, AllFacts
<1>4. /\ a \in AllOf(h) /\ FreeOf(g) = FreeOf(h) /\ FreeOf(h) \subseteq AllOf(h)
      /\ a \notin BlocksOf(h) /\ a \notin FreeOf(h)
  BY <1>1, <1>3 DEF AllOf, FreeOf
<1>5. Turnover(h, g, {a}, {}, FreeOf(h), {}, {})
  <2>1. AllOf(g) = (AllOf(h) \ {a}) \cup {}
    BY <1>1, <1>4 DEF AllOf
  <2>2. SameSizes(h.meta, g.meta, AllOf(h) \ {a})
    BY <1>1 DEF SameSizes
  <2>3. IsFiniteSet({})
    BY FS_EmptySet
  <2> QED
    BY <1>1, <1>2, <1>4, <2>1, <2>2, <2>3 DEF Turnover
<1>6. /\ Cardinality({a}) = 1 /\ Cardinality({}) = 0 /\ SizeSum(h.meta, {}) = 0
      /\ SizeSum(g.meta, {}) = 0
  BY FS_Singleton, FS_EmptySet, SumEmpty
<1>7. SizeSum(h.meta, {a}) = Size(h, a) /\ Size(h, a) \in Nat
  <2>1. h.meta[a].size \in Nat /\ h.meta[a].size = Size(h, a)
    BY <1>3, <1>4 DEF Size
  <2> QED
    BY <2>1, SumOne
<1>8. g.stats = <<h.stats[1] - Cardinality({a}) + Cardinality({}),
                  h.stats[2] - Cardinality({}) + Cardinality({}),
                  h.stats[3] - SizeSum(h.meta, {a}) + SizeSum(g.meta, {}),
                  h.stats[4] - SizeSum(h.meta, {}) + SizeSum(g.meta, {}),
                  h.stats[5] - 2 * SOM * Cardinality({a}) + 2 * SOM * Cardinality({})>>
  <2>1. \A i \in 1 .. 5 : h.stats[i] \in Int
    BY DEF Sound, Numbers, Counters
  <2>2. /\ h.stats[1] - 1 + 0 = h.stats[1] - 1 /\ h.stats[2] - 0 + 0 = h.stats[2]
        /\ h.stats[3] - Size(h, a) + 0 = h.stats[3] - Size(h, a)
        /\ h.stats[4] - 0 + 0 = h.stats[4]
        /\ h.stats[5] - 2 * SOM * 1 + 2 * SOM * 0 = h.stats[5] - 2 * SOM
    BY <1>7, <2>1, HeapAssumption
  <2> QED
    BY <1>1, <1>6, <1>7, <2>2
<1>9. FreeOf(h) = (FreeOf(h) \ {a}) \cup {}
  BY <1>4
<1>10. Books(g, FreeOf(h))
  BY <1>5, <1>8, <1>9, BooksFollow
<1> QED
  BY <1>4, <1>10 DEF Proper

-----------------------------------------------------------------------------
(* sfree.                                                                  *)

\* sfree of the payload of a leaves the heap g.
Sfreed(h, g, a) ==
  /\ Sound(g) /\ g.brk = h.brk /\ g.start = h.start /\ g.overcount = h.overcount
  /\ g.fault = "none" =>
       /\ Good(g) /\ Keeps(h, g, {a}, {}) /\ Mappings(g) = Mappings(h) \ {a}
       /\ WildLast(h) => WildLast(g)
       /\ Proper(h) => Proper(g)
       /\ BlocksOf(h) # {} => BlocksOf(g) # {}
       /\ a \in BlocksOf(h) => \E h1, lo, hi : ~ Foreign(h1, a) /\ Freed(h, h1, g, a, lo, hi)
  /\ g.fault # "none" =>
       \/ g.fault = "foreign" /\ h.start \notin AlignedBreaks
       \/ g.fault = "munmap" /\ a \in BlocksOf(h) /\ Size(h, a) >= MMAP_THRESHOLD

\* The wilderness pointer follows the last block when a block is freed.
LEMMA FreedLast ==
  ASSUME NEW h, Sound(h), NEW a \in BlocksOf(h), NEW h1, NEW g, NEW lo, NEW hi,
         Freed(h, h1, g, a, lo, hi), WildLast(h)
  PROVE  WildLast(g)
<1>1. /\ Merging(h1, g, a, lo, hi) /\ Fusion(h, h1, {a}, a, a, 0, TRUE) /\ Sound(h1)
      /\ h1.wilderness = h.wilderness
  BY DEF Freed, SameRest
<1> DEFINE P == {a} \cup Prevs(h1, a) \cup Nexts(h1, a)
<1>2. Fusion(h1, g, P, lo, hi, 0, TRUE)
      /\ g.wilderness = IF h1.wilderness = hi THEN lo ELSE h1.wilderness
  BY <1>1 DEF Merging
<1> HIDE DEF P
<1>3. TRUE \in BOOLEAN /\ 0 \in Nat
  OBVIOUS
<1>4. WildLast(h1)
  BY <1>1, <1>3, FusionLast
<1> QED
  BY <1>1, <1>2, <1>3, <1>4, FusionLast

LEMMA SfreeFacts ==
  ASSUME NEW h, Good(h), h.fault = "none", NEW a \in BusyOf(h)
  PROVE  Sfreed(h, Sfree(h, a), a)
<1>1. Sound(h) /\ Tiles(BlocksOf(h), h.meta, h.brk)
  BY SoundTiles DEF Good
<1>2. /\ ~ h.meta[a].is_free
      /\ a \in BlocksOf(h) \/ a \in Mappings(h)
  BY <1>1 DEF BusyOf, BusyIn, Tiles, MapsKnown, Mappings
<1>3. CASE a \in BlocksOf(h) /\ Size(h, a) < MMAP_THRESHOLD
  <2> DEFINE h1 == Write(h, a, Size(h, a), TRUE)
             g == MergeBlocks(h1, a)
  <2>1. Sfree(h, a) = g
    BY <1>2, <1>3 DEF Sfree
  <2>2. Marked(h, h1, a, TRUE)
    BY DEF Marked
  <2> HIDE DEF h1
  <2>3. /\ Sound(h1) /\ SameRest(h, h1) /\ Fusion(h, h1, {a}, a, a, 0, TRUE)
        /\ BlocksOf(h1) = BlocksOf(h)
        /\ ~ Foreign(h1, a) => \E lo, hi : Freed(h, h1, g, a, lo, hi)
    BY <1>3, <2>2, FreeFacts
  <2>4. CASE Foreign(h1, a)
    <3>1. g = Fail(h1, "foreign")
      BY <2>4 DEF MergeBlocks
    <3> HIDE DEF g
    <3>2. Failed(h1, g, "foreign")
      BY <2>3, <3>1, Failing
    <3>3. h1.start \notin AlignedBreaks
      <4>1. a \in BlocksOf(h1)
        BY <1>3, <2>3
      <4> QED
        BY <2>3, <2>4, <4>1, ForeignCause
    <3>4. Sfreed(h, g, a)
      BY <2>3, <3>2, <3>3 DEF Sfreed, Failed, SameBlocks, SameRest
    <3> QED
      BY <2>1, <3>4
  <2>5. CASE ~ Foreign(h1, a)
    <3>1. PICK lo, hi : Freed(h, h1, g, a, lo, hi)
      BY <2>3, <2>5
    <3> HIDE DEF g
    <3>2. /\ Good(g) /\ Keeps(h, g, {a}, {}) /\ Mappings(g) = Mappings(h)
          /\ Merging(h1, g, a, lo, hi)
      BY <3>1 DEF Freed
    <3>3. /\ g.fault = h1.fault /\ g.overcount = h1.overcount
          /\ g.brk = h1.brk + 0 /\ g.start = h1.start /\ BlocksOf(g) # {}
      BY <3>2 DEF Merging, Fusion
    <3>4. g.brk = h.brk /\ g.start = h.start /\ g.overcount = h.overcount /\ g.fault = "none"
      <4>1. h.brk \in Nat
        BY <1>1, BlockNumbers
      <4> QED
        BY <2>3, <3>3, <4>1 DEF SameRest
    <3>5. a \notin Mappings(h)
      BY <1>1, <1>3, OwnAddresses DEF Mappings
    <3>6. WildLast(h) => WildLast(g)
      BY <1>1, <1>3, <3>1, FreedLast
    <3>7. Proper(h) => Proper(g)
      BY <1>1, <1>2, <1>3, <2>5, <3>1, FreedBooks
    <3>8. \E k, l, u : ~ Foreign(k, a) /\ Freed(h, k, g, a, l, u)
      BY <2>5, <3>1
    <3>9. Sfreed(h, g, a)
      BY <3>2, <3>3, <3>4, <3>5, <3>6, <3>7, <3>8 DEF Sfreed, Good
    <3> QED
      BY <2>1, <3>9
  <2> QED
    BY <2>4, <2>5
<1>4. CASE a \in BlocksOf(h) /\ ~ Size(h, a) < MMAP_THRESHOLD
  <2>1. a \notin MapAddrs
    BY <1>1, <1>4, OwnAddresses
  <2>2. Sfree(h, a) = Fail(h, "munmap")
    BY <1>2, <1>4, <2>1 DEF Sfree
  <2>3. Failed(h, Fail(h, "munmap"), "munmap")
    BY <1>1, Failing
  <2>4. Size(h, a) >= MMAP_THRESHOLD
    <3>1. Size(h, a) \in Nat
      BY <1>1, <1>4, BlockNumbers DEF Size
    <3> QED
      BY <1>4, <3>1, HeapAssumption
  <2> DEFINE g == Fail(h, "munmap")
  <2> HIDE DEF g
  <2>5. Failed(h, g, "munmap") /\ Sfree(h, a) = g
    BY <2>2, <2>3 DEF g
  <2>6. Sfreed(h, g, a)
    BY <1>4, <2>4, <2>5 DEF Sfreed, Failed, SameBlocks
  <2> QED
    BY <2>5, <2>6
<1>5. CASE a \in Mappings(h)
  <2> DEFINE g == UpdateStatistics(Erase(h, {a}), <<-1, 0, -Size(h, a), 0, -(2 * SOM)>>)
  <2>1. a \in MapAddrs /\ ~ Size(h, a) < MMAP_THRESHOLD
    <3>1. MMAP_THRESHOLD <= h.meta[a].size /\ h.meta[a] \in Meta
      BY <1>1, <1>5 DEF Tiles, MapsKnown, Known, Mappings
    <3>2. h.meta[a].size \in Nat /\ MMAP_THRESHOLD \in Nat
      BY <3>1, HeapAssumption DEF Meta
    <3> QED
      BY <1>5, <3>1, <3>2 DEF Size, Mappings
  <2>2. Sfree(h, a) = g
    BY <1>2, <2>1 DEF Sfree
  <2>3. Unmapping(h, g, a)
    BY <1>5, UnmapFacts
  <2> HIDE DEF g
  <2>4. a \notin BlocksOf(h)
    BY <1>1, <2>1, OwnAddresses
  <2>5. Proper(h) => Proper(g)
    BY <1>1, <1>5, <2>3, UnmapBooks
  <2>6. Sfreed(h, g, a)
    BY <2>3, <2>4, <2>5 DEF Sfreed, Unmapping, Good
  <2> QED
    BY <2>2, <2>6
<1> QED
  BY <1>2, <1>3, <1>4, <1>5

-----------------------------------------------------------------------------
(* splitBlock.                                                             *)

\* The wilderness pointer apart, nothing changes.
LEMMA RepointMerits ==
  ASSUME NEW h, NEW g, NEW w, Repointed(h, g, w)
  PROVE  /\ Sound(g) /\ BlocksOf(g) = BlocksOf(h) /\ BusyOf(g) = BusyOf(h) /\ g.meta = h.meta
         /\ Mappings(g) = Mappings(h) /\ FreeOf(g) = FreeOf(h) /\ AllOf(g) = AllOf(h)
         /\ g.brk = h.brk /\ g.start = h.start /\ g.wilderness = w
         /\ g.fault = h.fault /\ g.overcount = h.overcount
         /\ Merged(h) => Merged(g)
         /\ \A A : Books(h, A) => Books(g, A)
<1>1. /\ Sound(g) /\ BlocksOf(g) = BlocksOf(h) /\ g.meta = h.meta /\ g.brk = h.brk
      /\ g.start = h.start /\ g.wilderness = w /\ g.stats = h.stats
      /\ g.fault = h.fault /\ g.overcount = h.overcount
  BY DEF Repointed, SameBlocks, BlocksOf
<1>2. /\ BusyOf(g) = BusyOf(h) /\ Mappings(g) = Mappings(h) /\ FreeOf(g) = FreeOf(h)
      /\ AllOf(g) = AllOf(h) /\ (Merged(h) => Merged(g))
  BY <1>1 DEF BusyOf, Mappings, FreeOf, AllOf, Merged
<1>3. \A A : Books(h, A) => Books(g, A)
  BY <1>1, <1>2 DEF Books
<1> QED
  BY <1>1, <1>2, <1>3

\* What is split off is counted.
LEMMA CutBooks ==
  ASSUME NEW h, Sound(h), NEW a \in BlocksOf(h), Books(h, FreeOf(h) \cup {a}),
         NEW n \in Nat, NEW rest \in Nat, NEW high, h.meta[a].size = n + 2 * SOM + rest,
         NEW g, Sound(g), Fission(h, g, a, n, high, rest), g.overcount = h.overcount,
         g.stats = <<h.stats[1] + 1, h.stats[2] - 1, h.stats[3] - 2 * SOM,
                     h.stats[4] - (2 * SOM + n + rest), h.stats[5] + 2 * SOM>>
  PROVE  Proper(g)
<1> DEFINE A == FreeOf(h) \cup {a}
<1>1. /\ Halves(h.meta, g.meta, a, n, high, rest) /\ high \notin BlocksOf(h)
      /\ RestSame(BlocksOf(h), h.meta, {a}, g.meta) /\ BlocksOf(g) = BlocksOf(h) \cup {high}
  BY DEF Fission
<1>2. /\ high # a /\ high \in Nat /\ a \in Nat
      /\ g.meta[a] = [size |-> n, is_free |-> FALSE]
      /\ g.meta[high] = [size |-> rest, is_free |-> FALSE]
  <2>1. a \in Nat
    BY SoundTiles, BlockNumbers
  <2> QED
    BY <1>1, <2>1 DEF Halves
<1>3. /\ g.meta[a].size = n /\ g.meta[high].size = rest
      /\ ~ g.meta[a].is_free /\ ~ g.meta[high].is_free
  BY <1>2
<1>4. /\ Mappings(g) = Mappings(h) /\ IsFiniteSet(Mappings(h))
      /\ \A x \in BlocksOf(h) : x # a => g.meta[x] = h.meta[x]
      /\ \A x \in Mappings(h) : g.meta[x] = h.meta[x]
  BY <1>1 DEF RestSame, Mappings, Books
<1>5. /\ \A x \in BlocksOf(h) : x \notin Mappings(h)
      /\ \A x \in BlocksOf(g) : x \notin Mappings(g)
  BY <1>4, AllFacts
<1>6. high \in BlocksOf(g)
  BY <1>1
<1>7. Turnover(h, g, {a}, {a, high}, A, {a}, {})
  <2>1. AllOf(g) = (AllOf(h) \ {a}) \cup {a, high}
    BY <1>1, <1>4 DEF AllOf
  <2>2. {a, high} \cap (AllOf(h) \ {a}) = {}
    BY <1>1, <1>4, <1>5, <1>6 DEF AllOf
  <2>3. SameSizes(h.meta, g.meta, AllOf(h) \ {a})
    BY <1>4 DEF SameSizes, AllOf
  <2>4. IsFiniteSet({a, high})
    BY <1>2, PairCount
  <2>5. A \subseteq AllOf(h) /\ {a} = A \cap {a} /\ {a} \subseteq AllOf(h)
    BY DEF AllOf, FreeOf
  <2>6. Books(h, A)
    OBVIOUS
  <2> HIDE DEF A
  <2> QED
    BY <1>4, <2>1, <2>2, <2>3, <2>4, <2>5, <2>6 DEF Turnover
<1>8. /\ Cardinality({a}) = 1 /\ Cardinality({}) = 0 /\ SizeSum(g.meta, {}) = 0
      /\ Cardinality({a, high}) = 2
  <2>1. Cardinality({a, high}) = 2
    BY <1>2, PairCount
  <2>2. Cardinality({a}) = 1
    BY FS_Singleton
  <2>3. Cardinality({}) = 0 /\ SizeSum(g.meta, {}) = 0
    BY FS_EmptySet, SumEmpty
  <2> QED
    BY <2>1, <2>2, <2>3
<1>9. SizeSum(h.meta, {a}) = n + 2 * SOM + rest
  <2>1. h.meta[a].size \in Nat
    BY HeapAssumption
  <2> QED
    BY <2>1, SumOne
<1>10. SizeSum(g.meta, {a, high}) = n + rest
  <2>1. IsFiniteSet({a, high})
    BY <1>7 DEF Turnover
  <2>2. \A x \in {a, high} : g.meta[x].size \in Nat
    BY <1>3
  <2>3. a \in {a, high} /\ {a, high} \ {a} = {high}
    BY <1>2
  <2>4. SizeSum(g.meta, {a, high}) = g.meta[a].size + SizeSum(g.meta, {a, high} \ {a})
    BY <2>1, <2>2, <2>3, SumSplit
  <2>5. SizeSum(g.meta, {high}) = g.meta[high].size
    BY <1>3, SumOne
  <2>6. SizeSum(g.meta, {a, high} \ {a}) = rest
    BY <1>3, <2>3, <2>5
  <2> QED
    BY <1>3, <2>4, <2>6
<1>11. g.stats = <<h.stats[1] - Cardinality({a}) + Cardinality({a, high}),
                   h.stats[2] - Cardinality({a}) + Cardinality({}),
                   h.stats[3] - SizeSum(h.meta, {a}) + SizeSum(g.meta, {a, high}),
                   h.stats[4] - SizeSum(h.meta, {a}) + SizeSum(g.meta, {}),
                   h.stats[5] - 2 * SOM * Cardinality({a}) + 2 * SOM * Cardinality({a, high})>>
  <2>1. \A i \in 1 .. 5 : h.stats[i] \in Int
    BY DEF Sound, Numbers, Counters
  <2>2. /\ h.stats[1] - 1 + 2 = h.stats[1] + 1 /\ h.stats[2] - 1 + 0 = h.stats[2] - 1
        /\ h.stats[3] - (n + 2 * SOM + rest) + (n + rest) = h.stats[3] - 2 * SOM
        /\ h.stats[4] - (n + 2 * SOM + rest) + 0 = h.stats[4] - (2 * SOM + n + rest)
        /\ h.stats[5] - 2 * SOM * 1 + 2 * SOM * 2 = h.stats[5] + 2 * SOM
    BY <2>1, HeapAssumption
  <2> QED
    BY <1>8, <1>9, <1>10, <2>2
<1>12. FreeOf(g) = (A \ {a}) \cup {}
  <2>1. \A x \in FreeOf(g) : x \in FreeOf(h) /\ x # a
    BY <1>1, <1>3, <1>4 DEF FreeOf
  <2>2. \A x \in FreeOf(h) : x # a => x \in FreeOf(g)
    BY <1>1, <1>4 DEF FreeOf
  <2>3. \A x : x \in A \ {a} <=> x \in FreeOf(h) /\ x # a
    OBVIOUS
  <2> DEFINE B == A \ {a}
  <2>4. \A x : x \in B <=> x \in FreeOf(g)
    BY <2>1, <2>2, <2>3
  <2> HIDE DEF B
  <2>5. B = FreeOf(g)
    BY <2>4
  <2>6. FreeOf(g) = B \cup {}
    BY <2>5
  <2> QED
    BY <2>6 DEF B
<1> HIDE DEF A
<1>13. Books(g, FreeOf(g))
  BY <1>7, <1>11, <1>12, BooksFollow
<1> QED
  BY <1>13 DEF Proper

\* Block a keeps n bytes, the others what they had.
Splitting(h, g, a, n, rest) ==
  /\ Sound(g) /\ g.brk = h.brk /\ g.start = h.start /\ g.overcount = h.overcount
  /\ g.fault = "none" =>
       /\ Good(g) /\ a \in BlocksOf(h) /\ Keeps(h, g, {a}, {a}) /\ g.meta[a].size = n
       /\ Mappings(g) = Mappings(h) /\ BlocksOf(g) # {}
       /\ WildLast(h) => WildLast(g)
       /\ Books(h, FreeOf(h) \cup {a}) => Proper(g)
  /\ g.fault # "none" =>
       \/ g.fault = "foreign" /\ h.start \notin AlignedBreaks
       \/ g.fault = "munmap" /\ a \in BlocksOf(h) /\ rest >= MMAP_THRESHOLD
       \/ g.fault = "unlisted" /\ a \notin BlocksOf(h)

\* The wilderness pointer goes to the part split off.
LEMMA SplitLast ==
  ASSUME NEW h, Sound(h), NEW a \in BlocksOf(h), NEW n, NEW rest, NEW high, WildLast(h),
         NEW c, Sound(c), Fission(h, c, a, n, high, rest), c.wilderness = h.wilderness,
         c.fault = "none",
         NEW f, Sfreed(c, f, high), f.fault = "none",
         NEW g, Repointed(f, g, IF f.wilderness = a THEN high ELSE f.wilderness)
  PROVE  WildLast(g)
<1>1. /\ Halves(h.meta, c.meta, a, n, high, rest) /\ high \notin BlocksOf(h)
      /\ Elsewhere(BlocksOf(h) \ {a}, h.meta, c.meta) /\ BlocksOf(c) = BlocksOf(h) \cup {high}
      /\ c.brk = h.brk
  BY DEF Fission
<1>2. PICK h1, lo, hi : ~ Foreign(h1, high) /\ Freed(c, h1, f, high, lo, hi)
  BY <1>1 DEF Sfreed
<1>3. /\ Sound(h1) /\ SameRest(c, h1) /\ BlocksOf(h1) = BlocksOf(c)
      /\ Merging(h1, f, high, lo, hi) /\ MarkedAs(c, h1, high)
  BY <1>2 DEF Freed, MarkedAs
<1>4. /\ SameSizes(c.meta, h1.meta, AllOf(c))
      /\ \A x \in BlocksOf(c) : x # high => h1.meta[x] = c.meta[x]
  BY <1>1, <1>3, MarkedShape
<1>5. /\ Around(h1, high, Prevs(h1, high), Nexts(h1, high), lo, hi)
      /\ Fusion(h1, f, {high} \cup Prevs(h1, high) \cup Nexts(h1, high), lo, hi, 0, TRUE)
      /\ f.wilderness = IF h1.wilderness = hi THEN lo ELSE h1.wilderness
  BY <1>3 DEF Merging
<1>6. /\ a # high /\ high \in Nat /\ a \in Nat
      /\ c.meta[a] = [size |-> n, is_free |-> FALSE] /\ EndAt(c.meta, a) = high
      /\ EndAt(c.meta, high) = EndAt(h.meta, a)
  <2>1. a \in Nat
    BY SoundTiles, BlockNumbers
  <2> QED
    BY <1>1, <2>1 DEF Halves
<1>7. /\ \A x \in BlocksOf(c) : EndAt(h1.meta, x) = EndAt(c.meta, x)
      /\ ~ h1.meta[a].is_free
  <2>1. \A x \in BlocksOf(c) : c.meta[x].size = h1.meta[x].size
    BY <1>4 DEF SameSizes, AllOf
  <2>2. h1.meta[a] = c.meta[a]
    BY <1>1, <1>4, <1>6
  <2> QED
    BY <1>6, <2>1, <2>2 DEF EndAt, FootAt
<1>8. Prevs(h1, high) = {}
  <2>1. high \in BlocksOf(h1)
    BY <1>1, <1>3
  <2>2. Prevs(h1, high) = {p \in BlocksOf(h1) : EndAt(h1.meta, p) = high /\ h1.meta[p].is_free}
    BY <1>2, <1>3, <2>1, Neighbours
  <2>3. a \in BlocksOf(h1) /\ EndAt(h1.meta, a) = high
    BY <1>1, <1>3, <1>6, <1>7
  <2>4. ASSUME NEW p \in Prevs(h1, high)
        PROVE  FALSE
    <3>1. p \in BlocksOf(h1) /\ EndAt(h1.meta, p) = EndAt(h1.meta, a) /\ h1.meta[p].is_free
      BY <2>2, <2>3, <2>4
    <3>2. p = a
      BY <1>3, <2>3, <3>1, EndsDiffer
    <3> QED
      BY <1>7, <3>1, <3>2
  <2> QED
    BY <2>4
<1>9. lo = high
  BY <1>5, <1>8 DEF Around
<1>10. h1.wilderness = h.wilderness /\ h1.brk = h.brk
  BY <1>1, <1>3 DEF SameRest
<1>11. h.wilderness \in BlocksOf(h) /\ EndAt(h.meta, h.wilderness) = h.brk
  BY DEF WildLast
<1>12. /\ BlocksOf(g) = BlocksOf(f) /\ g.meta = f.meta /\ g.brk = f.brk
       /\ g.wilderness = IF f.wilderness = a THEN high ELSE f.wilderness
  BY RepointMerits
<1>13. CASE h.wilderness = a
  <2>1. EndAt(h1.meta, high) = h1.brk
    BY <1>1, <1>6, <1>7, <1>10, <1>11, <1>13
  <2>2. Nexts(h1, high) = {}
    <3>1. End(h1, high) = EndAt(h1.meta, high)
      BY DEF End, Foot, Size, EndAt, FootAt
    <3> QED
      BY <2>1, <3>1 DEF Nexts
  <2>3. hi = high
    BY <1>5, <2>2 DEF Around
  <2>4. f.wilderness = a
    BY <1>5, <1>6, <1>10, <1>13, <2>3
  <2>5. high \in BlocksOf(f) /\ f.brk = h1.brk + 0
    BY <1>5, <1>9 DEF Fusion
  <2>6. EndAt(f.meta, high) = EndAt(h1.meta, high) + 0
    <3>1. TRUE \in BOOLEAN /\ 0 \in Nat
      OBVIOUS
    <3>2. Whole(h1.meta, f.meta, lo, hi, 0, TRUE)
      BY <1>3, <1>5, <3>1, FusionShape
    <3> QED
      BY <1>9, <2>3, <3>2 DEF Whole
  <2> QED
    BY <1>12, <2>1, <2>4, <2>5, <2>6 DEF WildLast
<1>14. CASE h.wilderness # a
  <2>1. WildLast(c)
    <3>1. h.wilderness \in BlocksOf(h) \ {a}
      BY <1>11, <1>14
    <3>2. EndAt(c.meta, h.wilderness) = EndAt(h.meta, h.wilderness)
      BY <1>1, <3>1 DEF Elsewhere
    <3> QED
      BY <1>1, <1>11, <3>2 DEF WildLast
  <2>2. WildLast(f)
    BY <2>1 DEF Sfreed
  <2>3. f.wilderness # a
    BY <1>5, <1>6, <1>9, <1>10, <1>14
  <2> QED
    BY <1>12, <2>2, <2>3 DEF WildLast
<1> QED
  BY <1>13, <1>14

LEMMA SplitFacts ==
  ASSUME NEW h, Good(h), h.fault = "none", NEW a \in AllOf(h), NEW n \in Nat, NEW rest \in Nat,
         h.meta[a].size = n + 2 * SOM + rest
  PROVE  Splitting(h, SplitBlock(h, n, a), a, n, rest)
<1>1. Sound(h) /\ Merged(h)
  BY DEF Good
<1>2. CASE a \notin BlocksOf(h)
  <2> DEFINE g == Fail(h, "unlisted")
  <2>1. SplitBlock(h, n, a) = g
    BY <1>2 DEF SplitBlock, BlocksOf
  <2>2. Failed(h, g, "unlisted")
    BY <1>1, Failing
  <2> HIDE DEF g
  <2>3. Splitting(h, g, a, n, rest)
    BY <1>2, <2>2 DEF Splitting, Failed, SameBlocks
  <2> QED
    BY <2>1, <2>3
<1>3. CASE a \in BlocksOf(h)
  <2> DEFINE high == a + n + 2 * SOM
             c == Cut(h, n, a, high, rest)
             f == Sfree(c, high)
             w == IF f.wilderness = a THEN high ELSE f.wilderness
             g == [f EXCEPT !.wilderness = w]
  <2>1. a \in Nat /\ SOM \in Nat /\ high \in Nat
    <3>1. a \in Nat /\ SOM \in Nat
      BY <1>1, <1>3, SoundTiles, BlockNumbers
    <3> QED
      BY <3>1
  <2>2. SplitBlock(h, n, a) = g
    <3>1. Size(h, a) - n - 2 * SOM = rest
      BY <2>1 DEF Size
    <3> QED
      BY <1>3, <3>1 DEF SplitBlock, BlocksOf, Cut
  <2>3. /\ Sound(c) /\ Fission(h, c, a, n, high, rest)
        /\ c.wilderness = h.wilderness /\ c.fault = h.fault /\ c.overcount = h.overcount
        /\ c.stats = <<h.stats[1] + 1, h.stats[2] - 1, h.stats[3] - 2 * SOM,
                       h.stats[4] - (2 * SOM + n + rest), h.stats[5] + 2 * SOM>>
    <3> HIDE DEF c, high
    <3>1. high = a + n + 2 * SOM /\ c = Cut(h, n, a, high, rest)
      BY DEF c, high
    <3> QED
      BY <1>1, <1>3, <3>1, CutFacts
  <2> HIDE DEF c, high
  <2>4. /\ BusyOf(c) = (BusyOf(h) \ {a}) \cup {a, high} /\ high \notin BusyOf(h)
        /\ \A x \in BusyOf(h) \ {a} : c.meta[x] = h.meta[x]
        /\ Mappings(c) = Mappings(h)
        /\ c.meta[a].size = n /\ c.meta[high].size = rest
    BY <1>1, <1>3, <2>3, FissionBusy DEF Mappings
  <2>5. Good(c)
    BY <1>1, <1>3, <2>3, FissionMerged DEF Good
  <2>6. Sfreed(c, f, high)
    BY <2>3, <2>4, <2>5, SfreeFacts
  <2> HIDE DEF f
  <2>7. c.brk = h.brk /\ c.start = h.start /\ high \notin BlocksOf(h) /\ high # a
        /\ BlocksOf(c) = BlocksOf(h) \cup {high}
    <3>1. high \notin BlocksOf(h)
      BY <2>3 DEF Fission
    <3> QED
      BY <1>3, <2>3, <3>1 DEF Fission
  <2>8. Sound(f)
    BY <2>6 DEF Sfreed
  <2>9. Repointed(f, g, w)
    <3>1. w \in Nat /\ (BlocksOf(f) = {} => w = NULL)
      <4>1. f.wilderness \in Nat /\ (BlocksOf(f) = {} => f.wilderness = NULL)
        BY <2>8 DEF Sound, Pointed
      <4>2. a # NULL
        BY <1>1, <1>3, SoundTiles DEF Tiles, Headed
      <4> QED
        BY <2>1, <4>1, <4>2
    <3> HIDE DEF w
    <3> QED
      BY <2>8, <3>1, Repoint
  <2> HIDE DEF g
  <2>10. /\ Sound(g) /\ BlocksOf(g) = BlocksOf(f) /\ BusyOf(g) = BusyOf(f) /\ g.meta = f.meta
         /\ Mappings(g) = Mappings(f) /\ FreeOf(g) = FreeOf(f)
         /\ g.brk = f.brk /\ g.start = f.start
         /\ g.fault = f.fault /\ g.overcount = f.overcount
         /\ Merged(f) => Merged(g)
         /\ Books(f, FreeOf(f)) => Books(g, FreeOf(f))
    BY <2>9, RepointMerits
  <2>11. g.brk = h.brk /\ g.start = h.start /\ g.overcount = h.overcount
    BY <2>3, <2>6, <2>7, <2>10 DEF Sfreed
  <2>12. CASE f.fault = "none"
    <3>1. /\ Good(f) /\ Keeps(c, f, {high}, {}) /\ Mappings(f) = Mappings(c) \ {high}
          /\ BlocksOf(f) # {}
          /\ Proper(c) => Proper(f)
      BY <1>3, <2>6, <2>7, <2>12 DEF Sfreed
    <3>2. Good(g)
      BY <2>10, <3>1 DEF Good
    <3>3. Mappings(g) = Mappings(h)
      <4>1. high \notin Mappings(h)
        BY <2>4 DEF BusyOf, BusyIn, Mappings
      <4> QED
        BY <2>4, <2>10, <3>1, <4>1
    <3>4. Keeps(h, g, {a}, {a}) /\ g.meta[a].size = n
      <4>1. BusyOf(f) = BusyOf(c) \ {high} /\ \A x \in BusyOf(c) \ {high} : f.meta[x].size = c.meta[x].size
        BY <3>1 DEF Keeps
      <4>2. BusyOf(f) = (BusyOf(h) \ {a}) \cup {a}
        BY <2>4, <2>7, <4>1
      <4>3. \A x \in BusyOf(h) \ {a} : f.meta[x].size = h.meta[x].size
        BY <2>4, <2>7, <4>1
      <4>4. f.meta[a].size = n
        BY <2>4, <2>7, <4>1
      <4> QED
        BY <2>10, <4>2, <4>3, <4>4 DEF Keeps
    <3>5. WildLast(h) => WildLast(g)
      <4>1. Repointed(f, g, IF f.wilderness = a THEN high ELSE f.wilderness)
        BY <2>9
      <4> QED
        BY <1>1, <1>3, <2>3, <2>6, <2>12, <4>1, SplitLast
    <3>6. Books(h, FreeOf(h) \cup {a}) => Proper(g)
      <4>1. SUFFICES ASSUME Books(h, FreeOf(h) \cup {a}) PROVE Proper(g)
        OBVIOUS
      <4>2. Proper(c)
        BY <1>1, <1>3, <2>3, <4>1, CutBooks
      <4> QED
        BY <2>10, <3>1, <4>2 DEF Proper
    <3>7. g.fault = "none" /\ BlocksOf(g) # {}
      BY <2>10, <2>12, <3>1
    <3>8. Splitting(h, g, a, n, rest)
      BY <1>3, <2>10, <2>11, <3>2, <3>3, <3>4, <3>5, <3>6, <3>7 DEF Splitting
    <3> QED
      BY <2>2, <3>8
  <2>13. CASE f.fault # "none"
    <3>1. \/ f.fault = "foreign" /\ c.start \notin AlignedBreaks
          \/ f.fault = "munmap" /\ high \in BlocksOf(c) /\ Size(c, high) >= MMAP_THRESHOLD
      BY <2>6, <2>13 DEF Sfreed
    <3>2. Size(c, high) = rest
      BY <2>4 DEF Size
    <3>3. Splitting(h, g, a, n, rest)
      BY <1>3, <2>7, <2>10, <2>11, <2>13, <3>1, <3>2 DEF Splitting
    <3> QED
      BY <2>2, <3>3
  <2> QED
    BY <2>12, <2>13
<1> QED
  BY <1>2, <1>3

-----------------------------------------------------------------------------
(* What smalloc does with a free block, and with none.                     *)

LEMMA AlignUpFacts ==
  ASSUME NEW n \in Nat
  PROVE  /\ AlignUp(n) \in Nat /\ n <= AlignUp(n) /\ AlignUp(n) < n + Align
         /\ AlignUp(n) % Align = 0
<1>1. Align \in Nat /\ Align > 0 /\ n \in Int
  BY HeapAssumption
<1>2. (n + (Align - (n % Align))) % Align = 0 /\ n % Align \in Nat /\ n % Align < Align
  BY <1>1, RoundUp
<1>3. CASE n % Align = 0
  BY <1>1, <1>3 DEF AlignUp
<1>4. CASE n % Align # 0
  <2>1. AlignUp(n) = n + (Align - (n % Align))
    BY <1>4 DEF AlignUp
  <2> DEFINE r == n % Align
  <2>2. r \in Nat /\ r < Align /\ r # 0 /\ AlignUp(n) = n + (Align - r)
    BY <1>2, <1>4, <2>1
  <2> HIDE DEF r
  <2>3. AlignUp(n) \in Nat /\ n <= AlignUp(n) /\ AlignUp(n) < n + Align
    BY <1>1, <2>2
  <2> QED
    BY <1>2, <2>1, <2>3
<1> QED
  BY <1>3, <1>4

\* Where a block is split, the subtraction has not wrapped.
LEMMA FitsRest ==
  ASSUME NEW h, Sound(h), NEW a \in BlocksOf(h), NEW n \in Nat, n <= Size(h, a),
         SplitFits(Size(h, a), n)
  PROVE  /\ Size(h, a) - n - 2 * SOM \in Nat /\ Size(h, a) \in Nat /\ SOM \in Nat
         /\ h.meta[a].size = n + 2 * SOM + (Size(h, a) - n - 2 * SOM)
<1> DEFINE old == Size(h, a)
           d == (old - n) - 2 * SOM
           rest == d % WordSize
<1>1. rest < old
  BY DEF SplitFits
<1>2. /\ a \in Nat /\ a > 0 /\ old \in Nat /\ SOM \in Nat /\ SOM > 0
      /\ a + SOM + old + SOM <= HeapEnd
  <2>1. /\ a \in Nat /\ a > 0 /\ h.meta[a].size \in Nat /\ SOM \in Nat /\ SOM > 0
        /\ h.brk \in Nat /\ EndAt(h.meta, a) <= h.brk /\ h.brk <= HeapEnd
        /\ EndAt(h.meta, a) = a + SOM + h.meta[a].size + SOM
    BY SoundTiles, BlockNumbers
  <2> QED
    BY <2>1, HeapAssumption DEF Size
<1>3. WordSize \in Nat /\ WordSize > 0 /\ HeapEnd \in Nat /\ HeapEnd <= WordSize
  BY HeapAssumption
<1> HIDE DEF old
<1>4. d \in Int /\ -WordSize <= d /\ d < WordSize
  BY <1>2, <1>3 DEF old
<1>5. rest = IF d < 0 THEN d + WordSize ELSE d
  <2> HIDE DEF d
  <2> QED
    BY <1>3, <1>4, Wrapped
<1>6. ~ d < 0
  <2>1. SUFFICES ASSUME d < 0 PROVE FALSE
    OBVIOUS
  <2>2. rest = d + WordSize
    BY <1>5, <2>1
  <2> HIDE DEF rest
  <2>3. n <= old
    BY DEF old
  <2> QED
    BY <1>1, <1>2, <1>3, <2>2, <2>3
<1>7. d \in Nat
  BY <1>4, <1>6
<1>8. h.meta[a].size = old
  BY DEF old, Size
<1> QED
  BY <1>2, <1>7, <1>8 DEF old

\* A free block is taken.
Taking(h, g, a) ==
  /\ Good(g) /\ Keeps(h, g, {}, {a}) /\ a \notin BusyOf(h) /\ BlocksOf(g) = BlocksOf(h)
  /\ g.meta[a].size = h.meta[a].size /\ Mappings(g) = Mappings(h)
  /\ g.brk = h.brk /\ g.start = h.start /\ g.overcount = h.overcount /\ g.fault = h.fault
  /\ WildLast(h) => WildLast(g)
  /\ Proper(h) => Proper(g)

LEMMA TakeFacts ==
  ASSUME NEW h, Good(h), NEW a \in FreeOf(h)
  PROVE  Taking(h, Take(h, a), a)
<1> DEFINE f == Write(h, a, Size(h, a), FALSE)
           z == Size(h, a)
           g == Take(h, a)
<1>1. /\ Sound(h) /\ Merged(h) /\ Tiles(BlocksOf(h), h.meta, h.brk)
      /\ a \in BlocksOf(h) /\ h.meta[a].is_free /\ FALSE \in BOOLEAN /\ 0 \in Nat
  BY SoundTiles DEF Good, FreeOf
<1>2. g = UpdateStatistics(f, <<0, -1, 0, -z, 0>>)
  BY DEF Take
<1>3. Marked(h, f, a, FALSE)
  BY DEF Marked
<1> HIDE DEF f
<1>4. /\ Fusion(h, f, {a}, a, a, 0, FALSE) /\ SameRest(h, f)
      /\ BlocksOf(f) = BlocksOf(h) /\ SameSizes(h.meta, f.meta, BlocksOf(h))
  BY <1>1, <1>3, MarkFusion
<1>5. h.brk + 0 <= HeapEnd /\ h.brk \in Nat
  <2>1. h.brk \in Nat /\ h.brk <= HeapEnd
    BY <1>1, BlockNumbers
  <2> QED
    BY <2>1, HeapAssumption
<1>6. Sound(f)
  <2>1. Numbers(f) /\ f.wilderness \in Nat
    BY <1>1, <1>4 DEF SameRest, Sound, Numbers, Pointed
  <2> QED
    BY <1>1, <1>4, <1>5, <2>1, FusionSound
<1>7. z \in Nat /\ SOM \in Nat /\ a \in Nat /\ EndAt(h.meta, a) = a + SOM + z + SOM
      /\ h.meta[a].size = z
  BY <1>1, BlockNumbers DEF Size
<1> HIDE DEF z
<1>8. Counting(f, g, 0, -1, 0, -z, 0)
  <2>1. 0 \in Int /\ -1 \in Int /\ -z \in Int
    BY <1>7
  <2> QED
    BY <1>2, <1>6, <2>1, CountingSound
<1> HIDE DEF g
<1>9. /\ Sound(g) /\ BlocksOf(g) = BlocksOf(f) /\ BusyOf(g) = BusyOf(f) /\ g.meta = f.meta
      /\ Mappings(g) = Mappings(f) /\ g.brk = f.brk /\ g.start = f.start
      /\ g.wilderness = f.wilderness /\ g.fault = f.fault /\ g.overcount = f.overcount
      /\ Merged(f) => Merged(g)
      /\ WildLast(f) => WildLast(g)
  BY <1>8, CountingMerits
<1>10. FusedBusy(h, f, {a}, a, FALSE)
  BY <1>1, <1>4, <1>5, FusionBusy
<1>11. a \notin BusyOf(h)
  <2>1. a \notin MapAddrs
    BY <1>1, OwnAddresses
  <2> QED
    BY <1>1, <2>1 DEF BusyOf, BusyIn
<1>12. Keeps(h, g, {}, {a})
  <2>1. BusyOf(f) = (BusyOf(h) \ {a}) \cup {a}
    BY <1>10 DEF FusedBusy
  <2>2. \A x \in BusyOf(h) \ {a} : f.meta[x] = h.meta[x]
    BY <1>10 DEF FusedBusy
  <2> QED
    BY <1>9, <1>11, <2>1, <2>2 DEF Keeps
<1>13. Merged(f)
  <2>1. MergedOn(h.meta, BlocksOf(h) \ {a})
    BY <1>1 DEF Merged, MergedOn
  <2> QED
    BY <1>1, <1>4, <2>1, FusionMerged
<1>14. WildLast(h) => WildLast(f)
  <2>1. ASSUME WildLast(h) PROVE WildLast(f)
    <3>1. f.wilderness = h.wilderness
      BY <1>4 DEF SameRest
    <3>2. IF h.wilderness = a THEN f.wilderness = a ELSE f.wilderness = h.wilderness
      BY <3>1
    <3> QED
      BY <1>1, <1>4, <2>1, <3>2, FusionLast
  <2> QED
    BY <2>1
<1>15. g.meta[a].size = h.meta[a].size
  BY <1>1, <1>4, <1>9 DEF SameSizes
<1>16. FusedSize(h.meta, a, a, 0) = z
  BY <1>7 DEF FusedSize
<1>17. ASSUME Proper(h) PROVE Proper(g)
  <2> DEFINE A == FreeOf(h)
  <2>1. Fusion(h, g, {a}, a, a, 0, FALSE)
    <3>1. SameBlocks(f, g) /\ Sound(g)
      BY <1>8 DEF Counting
    <3> QED
      BY <1>4, <3>1, FusionAs
  <2>2. A \cap {a} = {a} /\ A \subseteq BlocksOf(h)
    BY DEF FreeOf
  <2>3. Cardinality({a}) = 1 /\ SizeSum(h.meta, {a}) = z
    <3>1. SizeSum(h.meta, {a}) = h.meta[a].size
      BY <1>7, SumOne
    <3> QED
      BY <1>7, <3>1, FS_Singleton
  <2> HIDE DEF A
  <2>4. g.stats = <<h.stats[1] - Cardinality({a}) + 1,
                    h.stats[2] - Cardinality(A \cap {a}) + IF FALSE THEN 1 ELSE 0,
                    h.stats[3] - SizeSum(h.meta, {a}) + z,
                    h.stats[4] - SizeSum(h.meta, A \cap {a}) + IF FALSE THEN z ELSE 0,
                    h.stats[5] - 2 * SOM * Cardinality({a}) + 2 * SOM>>
    <3>1. \A i \in 1 .. 5 : h.stats[i] \in Int
      BY <1>1 DEF Sound, Numbers, Counters
    <3>2. g.stats = <<h.stats[1] + 0, h.stats[2] + -1, h.stats[3] + 0, h.stats[4] + -z,
                      h.stats[5] + 0>>
      BY <1>4, <1>8 DEF Counting, SameRest
    <3>3. /\ h.stats[1] + 0 = h.stats[1] - 1 + 1 /\ h.stats[2] + -1 = h.stats[2] - 1 + 0
          /\ h.stats[3] + 0 = h.stats[3] - z + z /\ h.stats[4] + -z = h.stats[4] - z + 0
          /\ h.stats[5] + 0 = h.stats[5] - 2 * SOM * 1 + 2 * SOM
      BY <1>7, <3>1
    <3> QED
      BY <2>2, <2>3, <3>2, <3>3
  <2>5. A \ {a} = FreeOf(h) \ {a} /\ Books(h, A)
    BY <1>17 DEF A, Proper
  <2>6. g.overcount = h.overcount
    BY <1>4, <1>9 DEF SameRest
  <2>7. Books(g, FreeOf(g))
    <3> DEFINE P == {a}
               flag == FALSE
    <3>1. /\ Fusion(h, g, P, a, a, 0, flag) /\ A \ P = FreeOf(h) \ P /\ flag \in BOOLEAN
          /\ g.stats = <<h.stats[1] - Cardinality(P) + 1,
                         h.stats[2] - Cardinality(A \cap P) + IF flag THEN 1 ELSE 0,
                         h.stats[3] - SizeSum(h.meta, P) + z,
                         h.stats[4] - SizeSum(h.meta, A \cap P) + IF flag THEN z ELSE 0,
                         h.stats[5] - 2 * SOM * Cardinality(P) + 2 * SOM>>
      BY <2>1, <2>4, <2>5
    <3> HIDE DEF P, flag
    <3>2. /\ Sound(h) /\ Sound(g) /\ h.brk + 0 <= HeapEnd /\ A \subseteq BlocksOf(h) /\ Books(h, A)
          /\ g.overcount = h.overcount /\ z = FusedSize(h.meta, a, a, 0) /\ 0 \in Nat
      BY <1>1, <1>5, <1>9, <1>16, <2>2, <2>5, <2>6
    <3> QED
      BY <3>1, <3>2, FusionBooks
  <2> QED
    BY <2>7 DEF Proper
<1>18. Taking(h, g, a)
  BY <1>4, <1>9, <1>10, <1>11, <1>12, <1>13, <1>14, <1>15, <1>17
     DEF Taking, Good, SameRest, FusedBusy
<1> QED
  BY <1>18 DEF g

\* What is found is free and large enough.
LEMMA SearchFacts ==
  ASSUME NEW h, Sound(h), NEW size, NEW a, a = SearchFreeBlock(h, size), a # NULL
  PROVE  a \in FreeOf(h) /\ Size(h, a) >= size
<1> DEFINE I == {i \in 1 .. Len(h.list) : h.meta[h.list[i]].is_free /\ Size(h, h.list[i]) >= size}
           k == IF I # {} THEN Min(I) ELSE 0
<1>1. a = IF k = 0 THEN NULL ELSE h.list[k]
  BY DEF SearchFreeBlock, SelectInSeq
<1>2. h.list \in Seq(Nat \ {NULL}) /\ Len(h.list) \in Nat
      /\ \A i \in 1 .. Len(h.list) : h.list[i] \in ToSet(h.list)
  BY SoundTiles, Members DEF Linked
<1>3. I # {} /\ a = h.list[k] /\ k = Min(I)
  BY <1>1
<1>4. I \in SUBSET Nat
  BY <1>2
<1>5. k \in I
  <2> HIDE DEF I
  <2> QED
    BY <1>3, <1>4, MinOf
<1> HIDE DEF k
<1> QED
  BY <1>2, <1>3, <1>5 DEF FreeOf, BlocksOf

\* Blocks made one that is in use, and extended when it is the last.
Growing(h, g, P, lo, hi, added, d1, d2, d3, d4, d5) ==
  /\ Good(g) /\ Fusion(h, g, P, lo, hi, added, FALSE)
  /\ FusedBusy(h, g, P, lo, FALSE) /\ g.meta[lo].size = FusedSize(h.meta, lo, hi, added)
  /\ g.wilderness = h.wilderness /\ g.fault = h.fault /\ g.overcount = h.overcount
  /\ g.stats = <<h.stats[1] + d1, h.stats[2] + d2, h.stats[3] + d3, h.stats[4] + d4,
                 h.stats[5] + d5>>

LEMMA GrowFacts ==
  ASSUME NEW h, Good(h), NEW P, NEW lo, NEW hi, Interval(BlocksOf(h), P, lo, hi),
         NEW added \in Nat, added = 0 \/ EndAt(h.meta, hi) = h.brk, h.brk + added <= HeapEnd,
         NEW d1 \in Int, NEW d2 \in Int, NEW d3 \in Int, NEW d4 \in Int, NEW d5 \in Int
  PROVE  Growing(h, UpdateStatistics(Extend(Fuse(h, P, added, FALSE), added),
                                     <<d1, d2, d3, d4, d5>>),
                 P, lo, hi, added, d1, d2, d3, d4, d5)
<1> DEFINE f == Fuse(h, P, added, FALSE)
           e == Extend(f, added)
           g == UpdateStatistics(e, <<d1, d2, d3, d4, d5>>)
           flag == FALSE
<1>1. Sound(h) /\ Merged(h) /\ flag \in BOOLEAN
  BY DEF Good
<1>2. /\ SameRest(h, f) /\ Fused(h.meta, f.meta, P, lo, hi, added, flag)
      /\ Linked(f.list, f.meta) /\ BlocksOf(f) = (BlocksOf(h) \ P) \cup {lo}
  <2>1. f = Fuse(h, P, added, flag)
    OBVIOUS
  <2> HIDE DEF f, flag
  <2> QED
    BY <1>1, <2>1, FuseFacts
<1> HIDE DEF f, flag
<1>3. /\ Fields(e) /\ e.list = f.list /\ e.meta = f.meta /\ e.brk = f.brk + added
      /\ e.start = f.start /\ e.wilderness = f.wilderness /\ e.stats = f.stats
      /\ e.overcount = f.overcount /\ e.fault = f.fault
  <2>1. e = [f EXCEPT !.brk = f.brk + added] /\ Fields(f)
    BY <1>2 DEF Extend, SameRest
  <2> HIDE DEF e
  <2> QED
    BY <2>1 DEF Fields
<1> HIDE DEF e
<1>4. Fusion(h, e, P, lo, hi, added, flag)
  <2>1. BlocksOf(e) = BlocksOf(f)
    BY <1>3 DEF BlocksOf
  <2> QED
    BY <1>2, <1>3, <2>1 DEF Fusion, SameRest
<1>5. Numbers(e) /\ e.wilderness \in Nat /\ e.wilderness = h.wilderness
      /\ e.stats = h.stats /\ e.overcount = h.overcount /\ e.fault = h.fault
  BY <1>1, <1>2, <1>3 DEF SameRest, Sound, Numbers, Pointed
<1>6. Sound(e)
  BY <1>1, <1>4, <1>5, FusionSound
<1>7. Counting(e, g, d1, d2, d3, d4, d5)
  BY <1>6, CountingSound
<1> HIDE DEF g
<1>8. SameBlocks(e, g) /\ Sound(g)
  BY <1>7 DEF Counting
<1>9. Fusion(h, g, P, lo, hi, added, flag)
  BY <1>4, <1>8, FusionAs
<1>10. FusedBusy(h, g, P, lo, flag)
  BY <1>1, <1>9, FusionBusy
<1>11. Merged(g)
  <2>1. MergedOn(h.meta, BlocksOf(h) \ P)
    BY <1>1 DEF Merged, MergedOn
  <2>2. ~ flag
    BY DEF flag
  <2> QED
    BY <1>1, <1>9, <2>1, <2>2, FusionMerged
<1>12. g.meta[lo].size = FusedSize(h.meta, lo, hi, added)
  <2>1. Whole(h.meta, g.meta, lo, hi, added, flag)
    BY <1>1, <1>9, FusionShape
  <2>2. g.meta[lo] = [size |-> FusedSize(h.meta, lo, hi, added), is_free |-> flag]
    BY <2>1 DEF Whole
  <2> QED
    BY <2>2
<1>13. /\ g.wilderness = h.wilderness /\ g.fault = h.fault /\ g.overcount = h.overcount
       /\ g.stats = <<h.stats[1] + d1, h.stats[2] + d2, h.stats[3] + d3, h.stats[4] + d4,
                      h.stats[5] + d5>>
  BY <1>5, <1>7 DEF Counting
<1>14. Growing(h, g, P, lo, hi, added, d1, d2, d3, d4, d5)
  BY <1>8, <1>9, <1>10, <1>11, <1>12, <1>13 DEF Growing, Good, flag
<1> QED
  BY <1>14 DEF g, e, f

\* It is counted, where the figures are those of the blocks in P, the ones in P but for
\* those in Q in use before.
LEMMA GrowBooks ==
  ASSUME NEW h, Good(h), Proper(h), NEW P, NEW lo, NEW hi, NEW added \in Nat,
         h.brk + added <= HeapEnd, NEW n, n = FusedSize(h.meta, lo, hi, added), NEW Q,
         Q = FreeOf(h) \cap P,
         NEW d1, NEW d2, NEW d3, NEW d4, NEW d5, NEW g,
         Growing(h, g, P, lo, hi, added, d1, d2, d3, d4, d5),
         h.stats[1] + d1 = h.stats[1] - Cardinality(P) + 1,
         h.stats[2] + d2 = h.stats[2] - Cardinality(Q) + 0,
         h.stats[3] + d3 = h.stats[3] - SizeSum(h.meta, P) + n,
         h.stats[4] + d4 = h.stats[4] - SizeSum(h.meta, Q) + 0,
         h.stats[5] + d5 = h.stats[5] - 2 * SOM * Cardinality(P) + 2 * SOM
  PROVE  Proper(g)
<1> DEFINE A == FreeOf(h)
           flag == FALSE
<1>1. /\ Sound(h) /\ Sound(g) /\ A \subseteq BlocksOf(h) /\ Books(h, A) /\ flag \in BOOLEAN
      /\ A \ P = FreeOf(h) \ P /\ A \cap P = Q /\ g.overcount = h.overcount
      /\ Fusion(h, g, P, lo, hi, added, flag)
  BY DEF Good, FreeOf, Proper, Growing
<1>2. g.stats = <<h.stats[1] - Cardinality(P) + 1,
                  h.stats[2] - Cardinality(Q) + IF flag THEN 1 ELSE 0,
                  h.stats[3] - SizeSum(h.meta, P) + n,
                  h.stats[4] - SizeSum(h.meta, Q) + IF flag THEN n ELSE 0,
                  h.stats[5] - 2 * SOM * Cardinality(P) + 2 * SOM>>
  BY DEF Growing
<1> HIDE DEF A, flag
<1>3. g.stats = <<h.stats[1] - Cardinality(P) + 1,
                  h.stats[2] - Cardinality(A \cap P) + IF flag THEN 1 ELSE 0,
                  h.stats[3] - SizeSum(h.meta, P) + n,
                  h.stats[4] - SizeSum(h.meta, A \cap P) + IF flag THEN n ELSE 0,
                  h.stats[5] - 2 * SOM * Cardinality(P) + 2 * SOM>>
  BY <1>1, <1>2
<1>4. Books(g, FreeOf(g))
  BY <1>1, <1>3, FusionBooks
<1> QED
  BY <1>4 DEF Proper

\* A single block.
LEMMA OneBlock ==
  ASSUME NEW h, Sound(h), NEW a \in BlocksOf(h)
  PROVE  /\ Interval(BlocksOf(h), {a}, a, a)
         /\ \A added \in Nat : FusedSize(h.meta, a, a, added) = Size(h, a) + added
<1>1. /\ SOM \in Nat
      /\ \A b \in BlocksOf(h) : /\ b \in Nat /\ h.meta[b].size \in Nat
                                /\ EndAt(h.meta, b) = b + SOM + h.meta[b].size + SOM
  BY SoundTiles, BlockNumbers
<1>2. Interval(BlocksOf(h), {a}, a, a)
  BY <1>1 DEF Interval
<1>3. ASSUME NEW added \in Nat
      PROVE  FusedSize(h.meta, a, a, added) = Size(h, a) + added
  BY <1>1 DEF FusedSize, Size
<1> QED
  BY <1>2, <1>3

\* Nothing is found only where no free block is large enough.
LEMMA SearchMiss ==
  ASSUME NEW h, Sound(h), NEW size, SearchFreeBlock(h, size) = NULL, NEW b \in FreeOf(h)
  PROVE  ~ Size(h, b) >= size
<1> DEFINE I == {i \in 1 .. Len(h.list) : h.meta[h.list[i]].is_free /\ Size(h, h.list[i]) >= size}
           k == IF I # {} THEN Min(I) ELSE 0
<1>1. NULL = IF k = 0 THEN NULL ELSE h.list[k]
  BY DEF SearchFreeBlock, SelectInSeq
<1>2. /\ h.list \in Seq(Nat \ {NULL}) /\ Len(h.list) \in Nat /\ DOMAIN h.list = 1 .. Len(h.list)
      /\ ToSet(h.list) = {h.list[i] : i \in DOMAIN h.list}
      /\ \A i \in DOMAIN h.list : h.list[i] # NULL
  BY SoundTiles, Members DEF Linked
<1>3. SUFFICES ASSUME Size(h, b) >= size PROVE FALSE
  OBVIOUS
<1>4. PICK i \in 1 .. Len(h.list) : h.list[i] = b
  BY <1>2 DEF FreeOf, BlocksOf
<1>5. i \in I
  BY <1>3, <1>4 DEF FreeOf
<1>6. I \in SUBSET Nat /\ I # {}
  BY <1>2, <1>5
<1>7. k \in I
  <2> HIDE DEF I
  <2> QED
    BY <1>6, MinOf
<1>8. k \in 1 .. Len(h.list)
  <2> HIDE DEF k
  <2> QED
    BY <1>7
<1>9. k # 0 /\ h.list[k] # NULL
  <2> HIDE DEF k
  <2> QED
    BY <1>2, <1>8
<1> HIDE DEF k
<1> QED
  BY <1>1, <1>9

-----------------------------------------------------------------------------
(* smalloc.                                                                *)

\* There is no memory left for a request.
Exhausted(h) ==
  \/ BlocksOf(h) = {}
  \/ ~ Room(h, MMAP_THRESHOLD + 2 * SOM)
  \/ MapAddrs \subseteq Mappings(h)

\* The heap g serves a request for size bytes with the payload of x, or with none.
Served(h, g, x, size) ==
  /\ Good(g)
  /\ WildLast(h) => WildLast(g)
  /\ Proper(h) => Proper(g)
  /\ x = NULL => Keeps(h, g, {}, {}) /\ Exhausted(h)
  /\ x # NULL => Keeps(h, g, {}, {x}) /\ x \notin BusyOf(h) /\ size <= Size(g, x)

\* What may go wrong.
Blamed(h, fault, size) ==
  \/ fault = "foreign" /\ h.start \notin AlignedBreaks
  \/ /\ fault = "munmap"
     /\ \E b \in FreeOf(h) : size <= Size(h, b) /\ Size(h, b) - size - 2 * SOM >= MMAP_THRESHOLD
  \/ fault \in {"corrupt", "assert455"} /\ ~ WildLast(h)

Serving(h, r, size) ==
  /\ Sound(r.heap) /\ r.heap.overcount = h.overcount
  /\ r.heap.fault = "none" => Served(h, r.heap, r.block, size)
  /\ r.heap.fault # "none" => Blamed(h, r.heap.fault, size)

\* A call that leaves the heap as it was, with no memory left.
LEMMA NotServed ==
  ASSUME NEW h, Good(h), h.fault = "none", Exhausted(h), NEW size
  PROVE  Serving(h, Return(h, NULL), size)
<1>1. Return(h, NULL).heap = h /\ Return(h, NULL).block = NULL
  BY DEF Return
<1>2. Keeps(h, h, {}, {})
  BY DEF Keeps
<1> QED
  BY <1>1, <1>2 DEF Serving, Served, Good

\* A call that goes wrong.
LEMMA NotDefined ==
  ASSUME NEW h, Good(h), h.fault = "none", NEW size, NEW what, what # "none",
         Blamed(h, what, size), NEW x
  PROVE  Serving(h, Return(Fail(h, what), x), size)
<1> DEFINE g == Fail(h, what)
           r == Return(g, x)
<1>1. Failed(h, g, what)
  BY Failing DEF Good
<1>2. r.heap = g
  BY DEF Return
<1> HIDE DEF g, r
<1>3. Serving(h, r, size)
  BY <1>1, <1>2 DEF Serving, Failed
<1> QED
  BY <1>3 DEF r, g

\* The room there is.
LEMMA RoomLeft ==
  ASSUME NEW h, Sound(h), NEW k \in Nat, k <= MMAP_THRESHOLD + 2 * SOM, ~ Room(h, k)
  PROVE  Exhausted(h)
<1>1. h.brk \in Nat /\ HeapEnd \in Nat /\ SOM \in Nat /\ MMAP_THRESHOLD \in Nat
  BY SoundTiles, HeapAssumption
<1>2. ~ h.brk + k <= HeapEnd
  BY DEF Room
<1>3. ~ h.brk + (MMAP_THRESHOLD + 2 * SOM) <= HeapEnd
  BY <1>1, <1>2
<1> QED
  BY <1>3 DEF Exhausted, Room

LEMMA WildernessGrows ==
  ASSUME NEW h, Good(h), h.fault = "none", h.wilderness \in FreeOf(h), NEW size \in Nat,
         Size(h, h.wilderness) < size, size < MMAP_THRESHOLD
  PROVE  Serving(h, GrowWilderness(h, size), size)
<1> DEFINE w == h.wilderness
           added == size - Size(h, w)
           g == UpdateStatistics(Extend(Fuse(h, {w}, added, FALSE), added),
                                 <<0, -1, added, -Size(h, w), 0>>)
<1>1. /\ Sound(h) /\ w \in BlocksOf(h) /\ h.meta[w].is_free /\ SOM \in Nat
      /\ w \in Nat /\ w # NULL /\ Size(h, w) \in Nat /\ added \in Nat /\ added <= size
      /\ End(h, w) = EndAt(h.meta, w)
  <2>1. Sound(h) /\ w \in BlocksOf(h) /\ h.meta[w].is_free
    BY DEF FreeOf, Good
  <2>2. Size(h, w) \in Nat /\ w \in Nat /\ w > 0 /\ SOM \in Nat
    BY <2>1, SoundTiles, BlockNumbers DEF Size
  <2>3. End(h, w) = EndAt(h.meta, w)
    BY DEF End, Foot, Size, EndAt, FootAt
  <2>4. added \in Nat /\ added <= size
    <3> DEFINE z == Size(h, w)
    <3>1. z \in Nat /\ z < size
      BY <2>2
    <3> HIDE DEF z
    <3>2. size - z \in Nat /\ size - z <= size
      BY <3>1
    <3> QED
      BY <3>2 DEF z
  <2> QED
    BY <2>1, <2>2, <2>3, <2>4 DEF NULL
<1>2. CASE ~ Room(h, added)
  <2>1. added <= MMAP_THRESHOLD + 2 * SOM
    BY <1>1, HeapAssumption
  <2>2. Exhausted(h)
    BY <1>1, <1>2, <2>1, RoomLeft
  <2>3. GrowWilderness(h, size) = Return(h, NULL)
    BY <1>2 DEF GrowWilderness
  <2>4. Serving(h, Return(h, NULL), size)
    BY <2>2, NotServed
  <2> QED
    BY <2>3, <2>4
<1>3. CASE Room(h, added) /\ End(h, w) # h.brk
  <2>1. ~ WildLast(h)
    BY <1>1, <1>3 DEF WildLast
  <2>2. Blamed(h, "corrupt", size)
    BY <2>1 DEF Blamed
  <2>3. GrowWilderness(h, size) = Return(Fail(h, "corrupt"), NULL)
    BY <1>3 DEF GrowWilderness
  <2>4. Serving(h, Return(Fail(h, "corrupt"), NULL), size)
    BY <2>2, NotDefined
  <2> QED
    BY <2>3, <2>4
<1>4. CASE Room(h, added) /\ End(h, w) = h.brk
  <2>1. GrowWilderness(h, size) = Return(g, w)
    BY <1>4 DEF GrowWilderness
  <2>2. Growing(h, g, {w}, w, w, added, 0, -1, added, -Size(h, w), 0)
    <3>1. 0 \in Int /\ -1 \in Int /\ added \in Int /\ -Size(h, w) \in Int
      BY <1>1
    <3>2. Interval(BlocksOf(h), {w}, w, w)
      BY <1>1, OneBlock
    <3>3. EndAt(h.meta, w) = h.brk /\ h.brk + added <= HeapEnd
      BY <1>1, <1>4 DEF Room
    <3> HIDE DEF w, added
    <3> QED
      BY <1>1, <3>1, <3>2, <3>3, GrowFacts
  <2> HIDE DEF g
  <2>3. FusedSize(h.meta, w, w, added) = size
    <3>1. FusedSize(h.meta, w, w, added) = Size(h, w) + added
      BY <1>1, OneBlock
    <3> HIDE DEF w
    <3> QED
      BY <1>1, <3>1
  <2>4. /\ Good(g) /\ Fusion(h, g, {w}, w, w, added, FALSE) /\ FusedBusy(h, g, {w}, w, FALSE)
        /\ g.meta[w].size = size /\ g.wilderness = w /\ g.fault = "none"
        /\ g.overcount = h.overcount
    BY <2>2, <2>3 DEF Growing
  <2>5. WildLast(h) => WildLast(g)
    <3>1. SUFFICES ASSUME WildLast(h) PROVE WildLast(g)
      OBVIOUS
    <3>2. IF h.wilderness = w THEN g.wilderness = w ELSE g.wilderness = h.wilderness
      BY <2>4
    <3>3. FALSE \in BOOLEAN
      OBVIOUS
    <3> HIDE DEF added
    <3> QED
      BY <1>1, <2>4, <3>1, <3>2, <3>3, FusionLast
  <2>6. w \notin BusyOf(h)
    <3>1. w \notin MapAddrs
      BY <1>1, SoundTiles, OwnAddresses
    <3> QED
      BY <1>1, <3>1 DEF BusyOf, BusyIn
  <2>7. Keeps(h, g, {}, {w})
    BY <2>4, <2>6 DEF Keeps, FusedBusy
  <2>8. Proper(h) => Proper(g)
    <3>1. SUFFICES ASSUME Proper(h) PROVE Proper(g)
      OBVIOUS
    <3> DEFINE P == {w}
               z == Size(h, w)
    <3>2. P = FreeOf(h) \cap P
      BY <1>1 DEF FreeOf
    <3>3. Cardinality(P) = 1 /\ SizeSum(h.meta, P) = z
      <4>1. h.meta[w].size \in Nat /\ h.meta[w].size = z
        BY <1>1 DEF Size
      <4> QED
        BY <4>1, FS_Singleton, SumOne
    <3>4. Growing(h, g, P, w, w, added, 0, -1, added, -z, 0)
      BY <2>2
    <3>5. h.brk + added <= HeapEnd
      BY <1>4 DEF Room
    <3>6. size = z + added /\ added \in Nat /\ z \in Nat /\ size = FusedSize(h.meta, w, w, added)
      BY <1>1, <2>3
    <3>7. \A i \in 1 .. 5 : h.stats[i] \in Int
      BY <1>1 DEF Sound, Numbers, Counters
    <3> HIDE DEF P, z, added, w
    <3>8. /\ h.stats[1] + 0 = h.stats[1] - Cardinality(P) + 1
          /\ h.stats[2] + -1 = h.stats[2] - Cardinality(P) + 0
          /\ h.stats[3] + added = h.stats[3] - SizeSum(h.meta, P) + size
          /\ h.stats[4] + -z = h.stats[4] - SizeSum(h.meta, P) + 0
          /\ h.stats[5] + 0 = h.stats[5] - 2 * SOM * Cardinality(P) + 2 * SOM
      BY <1>1, <3>3, <3>6, <3>7
    <3> QED
      BY <3>1, <3>2, <3>4, <3>5, <3>6, <3>8, GrowBooks
  <2>9. size <= Size(g, w)
    BY <2>4 DEF Size
  <2>10. Served(h, g, w, size)
    BY <1>1, <2>4, <2>5, <2>6, <2>7, <2>8, <2>9 DEF Served
  <2>11. Serving(h, Return(g, w), size)
    <3> DEFINE r == Return(g, w)
    <3>1. r.heap = g /\ r.block = w
      BY DEF Return
    <3> HIDE DEF r
    <3>2. Serving(h, r, size)
      BY <2>4, <2>10, <3>1 DEF Serving, Good
    <3> QED
      BY <3>2 DEF r
  <2> QED
    BY <2>1, <2>11
<1> QED
  BY <1>2, <1>3, <1>4

\* The break and sbrk_start of a heap without blocks.
Based(h, g, e, s) ==
  /\ Sound(g) /\ g.list = h.list /\ g.meta = h.meta /\ g.brk = e /\ g.start = s
  /\ g.wilderness = h.wilderness /\ g.stats = h.stats /\ g.overcount = h.overcount
  /\ g.fault = h.fault

LEMMA Rebased ==
  ASSUME NEW h, Sound(h), BlocksOf(h) = {}, NEW e \in Nat, e > 0, NEW s \in Int, s <= e,
         s \in AlignedBreaks => e = s, NEW g, g = [h EXCEPT !.brk = e, !.start = s]
  PROVE  Based(h, g, e, s)
<1>1. /\ Fields(g) /\ g.list = h.list /\ g.meta = h.meta /\ g.brk = e /\ g.start = s
      /\ g.wilderness = h.wilderness /\ g.stats = h.stats /\ g.overcount = h.overcount
      /\ g.fault = h.fault
  BY DEF Sound, Fields
<1>2. BlocksOf(g) = {}
  BY <1>1 DEF BlocksOf
<1>3. Tiles(BlocksOf(g), g.meta, g.brk)
  <2>1. Tiles({}, h.meta, h.brk)
    BY SoundTiles
  <2>2. Tiles({}, h.meta, e)
    BY <2>1 DEF Tiles, Headed, Adjoin, Separate, Known, Rooted, Ended, MapsKnown
  <2> QED
    BY <1>1, <1>2, <2>2
<1>4. Anchored(g) /\ Pointed(g) /\ Numbers(g)
  BY <1>1, <1>2 DEF Anchored, Sound, Pointed, Numbers
<1>5. Linked(g.list, g.meta)
  BY <1>1 DEF Sound
<1> QED
  BY <1>1, <1>3, <1>4, <1>5 DEF Based, Sound

\* The blocks are the same.
LEMMA BasedMerits ==
  ASSUME NEW h, NEW g, NEW e, NEW s, Based(h, g, e, s)
  PROVE  /\ BlocksOf(g) = BlocksOf(h) /\ BusyOf(g) = BusyOf(h) /\ g.meta = h.meta
         /\ Mappings(g) = Mappings(h) /\ FreeOf(g) = FreeOf(h) /\ AllOf(g) = AllOf(h)
         /\ Merged(h) => Merged(g)
         /\ Proper(h) => Proper(g)
<1>1. /\ BlocksOf(g) = BlocksOf(h) /\ g.meta = h.meta /\ g.stats = h.stats
      /\ g.overcount = h.overcount
  BY DEF Based, BlocksOf
<1>2. /\ BusyOf(g) = BusyOf(h) /\ Mappings(g) = Mappings(h) /\ FreeOf(g) = FreeOf(h)
      /\ AllOf(g) = AllOf(h) /\ (Merged(h) => Merged(g))
  BY <1>1 DEF BusyOf, Mappings, FreeOf, AllOf, Merged
<1> QED
  BY <1>1, <1>2 DEF Proper, Books

\* A block at the break e, the first one where the break is aligned.
Adding(h, g, size) ==
  /\ Good(g) /\ WildLast(g) /\ Keeps(h, g, {}, {h.brk}) /\ h.brk \notin BusyOf(h)
  /\ Size(g, h.brk) = size /\ g.overcount = h.overcount /\ g.fault = h.fault
  /\ h.brk # NULL
  /\ Proper(h) => Proper(g)

Added(h, size) ==
  UpdateStatistics(
    [Extend(AddMetadata(Write(h, h.brk, size, FALSE), h.brk), size + 2 * SOM)
       EXCEPT !.wilderness = h.brk],
    <<1, 0, size, 0, 2 * SOM>>)

LEMMA AddedBooks ==
  ASSUME NEW h, Sound(h), Proper(h), NEW e, e \notin AllOf(h), NEW size \in Nat, NEW g, Sound(g),
         BlocksOf(g) = BlocksOf(h) \cup {e}, Mappings(g) = Mappings(h),
         \A x \in AllOf(h) : g.meta[x] = h.meta[x],
         g.meta[e] = [size |-> size, is_free |-> FALSE], g.overcount = h.overcount,
         g.stats = <<h.stats[1] + 1, h.stats[2] + 0, h.stats[3] + size, h.stats[4] + 0,
                     h.stats[5] + 2 * SOM>>
  PROVE  Proper(g)
<1>1. g.meta[e].size = size /\ ~ g.meta[e].is_free
  OBVIOUS
<1>2. IsFiniteSet(Mappings(g)) /\ Books(h, FreeOf(h))
  BY DEF Proper, Books
<1>3. FreeOf(g) = FreeOf(h) /\ FreeOf(h) \subseteq AllOf(h)
  BY <1>1 DEF FreeOf, AllOf
<1>4. Turnover(h, g, {}, {e}, FreeOf(h), {}, {})
  <2>1. AllOf(g) = (AllOf(h) \ {}) \cup {e}
    BY DEF AllOf
  <2>2. SameSizes(h.meta, g.meta, AllOf(h) \ {})
    BY DEF SameSizes
  <2>3. IsFiniteSet({e})
    BY FS_Singleton
  <2> QED
    BY <1>2, <1>3, <2>1, <2>2, <2>3 DEF Turnover
<1>5. /\ Cardinality({e}) = 1 /\ Cardinality({}) = 0 /\ SizeSum(h.meta, {}) = 0
      /\ SizeSum(g.meta, {}) = 0
  BY FS_Singleton, FS_EmptySet, SumEmpty
<1>6. SizeSum(g.meta, {e}) = size
  <2>1. g.meta[e].size \in Nat
    BY <1>1
  <2> QED
    BY <1>1, <2>1, SumOne
<1>7. g.stats = <<h.stats[1] - Cardinality({}) + Cardinality({e}),
                  h.stats[2] - Cardinality({}) + Cardinality({}),
                  h.stats[3] - SizeSum(h.meta, {}) + SizeSum(g.meta, {e}),
                  h.stats[4] - SizeSum(h.meta, {}) + SizeSum(g.meta, {}),
                  h.stats[5] - 2 * SOM * Cardinality({}) + 2 * SOM * Cardinality({e})>>
  <2>1. \A i \in 1 .. 5 : h.stats[i] \in Int
    BY DEF Sound, Numbers, Counters
  <2>2. /\ h.stats[1] - 0 + 1 = h.stats[1] + 1 /\ h.stats[2] - 0 + 0 = h.stats[2] + 0
        /\ h.stats[3] - 0 + size = h.stats[3] + size /\ h.stats[4] - 0 + 0 = h.stats[4] + 0
        /\ h.stats[5] - 2 * SOM * 0 + 2 * SOM * 1 = h.stats[5] + 2 * SOM
    <3>1. h.stats[1] \in Int /\ h.stats[2] \in Int /\ h.stats[3] \in Int /\ h.stats[4] \in Int
          /\ h.stats[5] \in Int
      BY <2>1
    <3>2. 2 * SOM * 0 = 0 /\ 2 * SOM * 1 = 2 * SOM /\ 2 * SOM \in Nat
      BY HeapAssumption
    <3> QED
      BY <3>1, <3>2
  <2> QED
    BY <1>5, <1>6, <2>2
<1>8. FreeOf(h) = (FreeOf(h) \ {}) \cup {}
  OBVIOUS
<1>9. Books(g, FreeOf(h))
  BY <1>4, <1>7, <1>8, BooksFollow
<1> QED
  BY <1>3, <1>9 DEF Proper

LEMMA AddedFacts ==
  ASSUME NEW h, Good(h), NEW size \in Nat, BlocksOf(h) = {} => h.brk % Align = 0,
         Room(h, size + 2 * SOM)
  PROVE  Adding(h, Added(h, size), size)
<1> DEFINE e == h.brk
           n == size + 2 * SOM
           d == [size |-> size, is_free |-> FALSE]
           f == Write(h, e, size, FALSE)
           k == AddMetadata(f, e)
           x == Extend(k, n)
           t == [x EXCEPT !.wilderness = e]
           g == Added(h, size)
<1>1. /\ Sound(h) /\ Fields(h) /\ Merged(h) /\ Tiles(BlocksOf(h), h.meta, e)
      /\ Linked(h.list, h.meta) /\ e \in Nat /\ e > 0 /\ e # NULL
      /\ SOM \in Nat /\ n \in Nat /\ e + n <= HeapEnd /\ e + size + 2 * SOM = e + n
      /\ e + n \in Nat /\ e + n > 0
  <2>1. e \in Nat /\ e > 0 /\ SOM \in Nat
    BY SoundTiles, HeapAssumption DEF Good
  <2>2. e # NULL
    BY <2>1 DEF NULL
  <2> QED
    BY <2>1, <2>2, SoundTiles DEF Good, Room
<1>2. Writing(h, f, e, size, FALSE)
  BY <1>1, WriteFacts
<1>3. g = UpdateStatistics(t, <<1, 0, size, 0, 2 * SOM>>)
  BY DEF Added
<1> HIDE DEF f, g
<1>4. SameRest(h, f) /\ f.list = h.list /\ AtBreak(h.meta, f.meta, e, size) /\ Fields(f)
  BY <1>2 DEF Writing, AtBreak, SameRest
<1>5. /\ Tiles(BlocksOf(h) \cup {e}, f.meta, e + n) /\ RestSame(BlocksOf(h), h.meta, {}, f.meta)
      /\ e \notin BlocksOf(h) /\ e \notin MapAddrs
      /\ f.meta[e] = d /\ EndAt(f.meta, e) = e + n
      /\ Elsewhere(BlocksOf(h), h.meta, f.meta)
  <2> DEFINE m == f.meta
             B == BlocksOf(h)
  <2>1. /\ Tiles(B, h.meta, e) /\ AtBreak(h.meta, m, e, size) /\ e > 0 /\ (B = {} => e % Align = 0)
        /\ e + size + 2 * SOM <= HeapEnd
    BY <1>1, <1>4
  <2> HIDE DEF m, B, e, n
  <2>2. /\ Tiles(B \cup {e}, m, e + size + 2 * SOM) /\ RestSame(B, h.meta, {}, m)
        /\ e \notin B /\ e \notin MapAddrs
        /\ m[e] = d /\ EndAt(m, e) = e + size + 2 * SOM
        /\ Elsewhere(B, h.meta, m)
    BY <2>1, NewTiles
  <2> QED
    BY <1>1, <2>2 DEF m, B
<1>6. /\ Linked(f.list, f.meta) /\ BlocksOf(f) = BlocksOf(h)
  <2>1. SameSizes(h.meta, f.meta, ToSet(h.list))
    BY <1>5 DEF SameSizes, Elsewhere, BlocksOf
  <2> QED
    BY <1>1, <1>4, <2>1, Resized DEF BlocksOf
<1>7. /\ SameRest(f, k) /\ k.meta = f.meta /\ Linked(k.list, k.meta)
      /\ BlocksOf(k) = BlocksOf(h) \cup {e}
  <2>1. f.meta[e].size \in Nat
    BY <1>5
  <2> QED
    BY <1>1, <1>4, <1>5, <1>6, <2>1, AddFacts
<1> HIDE DEF k
<1>8. /\ Fields(t) /\ t.list = k.list /\ t.meta = f.meta /\ t.brk = e + n /\ t.start = h.start
      /\ t.wilderness = e /\ t.stats = h.stats /\ t.overcount = h.overcount /\ t.fault = h.fault
  <2>1. /\ Fields(x) /\ x.list = k.list /\ x.meta = k.meta /\ x.brk = k.brk + n
        /\ x.start = k.start /\ x.stats = k.stats /\ x.overcount = k.overcount
        /\ x.fault = k.fault
    <3>1. x = [k EXCEPT !.brk = k.brk + n] /\ Fields(k)
      BY <1>7 DEF Extend, SameRest
    <3> HIDE DEF x, n
    <3> QED
      BY <3>1 DEF Fields
  <2> HIDE DEF x
  <2>2. /\ Fields(t) /\ t.list = x.list /\ t.meta = x.meta /\ t.brk = x.brk /\ t.start = x.start
        /\ t.wilderness = e /\ t.stats = x.stats /\ t.overcount = x.overcount
        /\ t.fault = x.fault
    BY <2>1 DEF Fields
  <2> QED
    BY <1>4, <1>7, <2>1, <2>2 DEF SameRest
<1> HIDE DEF t, x
<1>9. Sound(t)
  <2>1. BlocksOf(t) = BlocksOf(h) \cup {e} /\ Linked(t.list, t.meta)
    BY <1>7, <1>8 DEF BlocksOf
  <2>2. Anchored(t)
    <3>1. h.start \in Int /\ h.start <= e /\ \A y \in BlocksOf(h) : h.start <= y
      BY <1>1 DEF Sound, Anchored
    <3>2. h.start \in AlignedBreaks => h.start \in BlocksOf(h) \cup {e}
      BY <1>1 DEF Sound, Anchored
    <3>3. h.start <= e + n
      BY <1>1, <3>1
    <3> QED
      BY <1>8, <2>1, <3>1, <3>2, <3>3 DEF Anchored
  <2>3. Pointed(t) /\ Numbers(t)
    BY <1>1, <1>8, <2>1 DEF Pointed, Numbers, Sound
  <2> QED
    BY <1>1, <1>5, <1>8, <2>1, <2>2, <2>3 DEF Sound
<1>10. Counting(t, g, 1, 0, size, 0, 2 * SOM)
  <2>1. 1 \in Int /\ 0 \in Int /\ size \in Int /\ 2 * SOM \in Int
    BY <1>1
  <2> QED
    BY <1>3, <1>9, <2>1, CountingSound
<1>11. /\ Sound(g) /\ g.meta = f.meta /\ BlocksOf(g) = BlocksOf(h) \cup {e} /\ g.brk = e + n
       /\ g.wilderness = e /\ g.overcount = h.overcount /\ g.fault = h.fault
       /\ Mappings(g) = Mappings(h)
       /\ g.stats = <<h.stats[1] + 1, h.stats[2] + 0, h.stats[3] + size, h.stats[4] + 0,
                      h.stats[5] + 2 * SOM>>
  BY <1>5, <1>7, <1>8, <1>10 DEF Counting, SameBlocks, BlocksOf, Mappings, RestSame
<1>12. \A y \in AllOf(h) : g.meta[y] = h.meta[y]
  BY <1>5, <1>11 DEF AllOf, RestSame, Mappings
<1>13. g.meta[e].size = size /\ ~ g.meta[e].is_free
  BY <1>5, <1>11
<1>14. BusyOf(g) = BusyOf(h) \cup {e}
  BY <1>11, <1>12, <1>13 DEF BusyOf, BusyIn, Mappings, AllOf
<1>15. e \notin BusyOf(h)
  BY <1>5 DEF BusyOf, BusyIn
<1>16. Keeps(h, g, {}, {e})
  BY <1>12, <1>14 DEF Keeps, AllOf, Mappings, BusyOf, BusyIn
<1>17. WildLast(g)
  BY <1>5, <1>11 DEF WildLast
<1>18. Merged(g)
  <2> SUFFICES ASSUME NEW y \in BlocksOf(g), g.meta[y].is_free, EndAt(g.meta, y) \in BlocksOf(g),
                      g.meta[EndAt(g.meta, y)].is_free
               PROVE  FALSE
    BY DEF Merged, MergedOn
  <2>1. y \in BlocksOf(h) /\ EndAt(g.meta, y) \in BlocksOf(h)
    BY <1>11, <1>13
  <2>2. g.meta[y] = h.meta[y] /\ EndAt(g.meta, y) = EndAt(h.meta, y)
    BY <1>5, <1>11, <2>1 DEF Elsewhere
  <2>3. g.meta[EndAt(h.meta, y)] = h.meta[EndAt(h.meta, y)]
    BY <1>5, <1>11, <2>1, <2>2 DEF Elsewhere
  <2> QED
    BY <1>1, <2>1, <2>2, <2>3 DEF Merged, MergedOn
<1>19. ASSUME Proper(h) PROVE Proper(g)
  <2>1. e \notin AllOf(h)
    BY <1>5 DEF AllOf, Mappings
  <2>2. g.meta[e] = [size |-> size, is_free |-> FALSE]
    BY <1>5, <1>11
  <2> HIDE DEF e
  <2> QED
    BY <1>1, <1>11, <1>12, <1>19, <2>1, <2>2, AddedBooks
<1>20. Adding(h, g, size)
  BY <1>1, <1>11, <1>13, <1>15, <1>16, <1>17, <1>18, <1>19 DEF Adding, Good, Size
<1> QED
  BY <1>20 DEF g

\* smalloc takes a new block from the break.
LEMMA NewServes ==
  ASSUME NEW h, Good(h), h.fault = "none", NEW size \in Nat, size < MMAP_THRESHOLD
  PROVE  Serving(h, NewBlock(h, size), size)
<1> DEFINE gap == IF h.list = <<>> THEN AlignUp(h.brk) - h.brk ELSE 0
           g == [h EXCEPT !.brk = @ + gap, !.start = IF gap = 0 THEN @ ELSE h.brk]
           s == IF gap = 0 THEN h.start ELSE h.brk
           k == Added(g, size)
           r == NewBlock(h, size)
<1>1. /\ Sound(h) /\ Merged(h) /\ Fields(h) /\ h.brk \in Nat /\ h.brk > 0
      /\ SOM \in Nat /\ HeapEnd \in Nat /\ size + 2 * SOM \in Nat
      /\ size + 2 * SOM <= MMAP_THRESHOLD + 2 * SOM
  BY SoundTiles, HeapAssumption DEF Good
<1>2. h.list = <<>> <=> BlocksOf(h) = {}
  BY <1>1, SoundTiles, Members DEF Linked, BlocksOf
<1>3. /\ AlignUp(h.brk) \in Nat /\ h.brk <= AlignUp(h.brk) /\ AlignUp(h.brk) % Align = 0
      /\ gap \in Nat
      /\ gap # 0 => BlocksOf(h) = {} /\ h.brk % Align # 0
  <2>1. AlignUp(h.brk) \in Nat /\ h.brk <= AlignUp(h.brk) /\ AlignUp(h.brk) % Align = 0
    BY <1>1, AlignUpFacts
  <2>2. h.brk % Align = 0 => AlignUp(h.brk) = h.brk
    BY DEF AlignUp
  <2> QED
    BY <1>1, <1>2, <2>1, <2>2
<1>4. /\ ~ Room(h, gap) => r = Return([h EXCEPT !.start = -1], NULL)
      /\ Room(h, gap) /\ ~ Room(g, size + 2 * SOM) => r = Return(g, NULL)
      /\ Room(h, gap) /\ Room(g, size + 2 * SOM) => r = Return(k, g.brk)
  BY DEF NewBlock, Added
<1>5. BlocksOf(h) = {} => h.brk + gap = AlignUp(h.brk)
  BY <1>1, <1>2, <1>3
<1>6. g = [h EXCEPT !.brk = h.brk + gap, !.start = s]
  BY DEF Good
<1> HIDE DEF gap, g, r, k
<1>7. CASE ~ Room(h, gap)
  <2> DEFINE b == [h EXCEPT !.start = -1]
  <2>1. BlocksOf(h) = {}
    <3>1. SUFFICES ASSUME BlocksOf(h) # {} PROVE FALSE
      OBVIOUS
    <3>2. gap = 0 /\ h.brk <= HeapEnd
      BY <1>1, <1>3, <3>1, SoundTiles DEF Tiles, Ended
    <3> QED
      BY <1>1, <1>7, <3>2 DEF Room
  <2>2. b = [h EXCEPT !.brk = h.brk, !.start = -1]
    BY <1>1 DEF Fields
  <2>3. Based(h, b, h.brk, -1)
    <3>1. -1 \in Int /\ -1 <= h.brk /\ -1 \notin AlignedBreaks
      BY <1>1, HeapAssumption DEF AlignedBreaks
    <3> HIDE DEF b
    <3> QED
      BY <1>1, <2>1, <2>2, <3>1, Rebased
  <2> HIDE DEF b
  <2>4. r = Return(b, NULL)
    BY <1>4, <1>7 DEF b
  <2>5. r.heap = b /\ r.block = NULL
    BY <2>4 DEF Return
  <2>6. Served(h, b, NULL, size)
    <3>1. /\ BlocksOf(b) = BlocksOf(h) /\ BusyOf(b) = BusyOf(h) /\ b.meta = h.meta
          /\ Merged(h) => Merged(b)
          /\ Proper(h) => Proper(b)
      BY <2>3, BasedMerits
    <3>2. Good(b) /\ WildLast(b) /\ Keeps(h, b, {}, {}) /\ Exhausted(h)
      BY <1>1, <2>1, <2>3, <3>1 DEF Good, WildLast, Keeps, Exhausted, Based
    <3> QED
      BY <3>1, <3>2 DEF Served
  <2>7. b.overcount = h.overcount /\ b.fault = "none" /\ Sound(b)
    BY <2>3 DEF Based
  <2>8. Serving(h, r, size)
    BY <2>5, <2>6, <2>7 DEF Serving
  <2> QED
    BY <2>8 DEF r
<1>8. CASE Room(h, gap)
  <2>1. /\ Based(h, g, h.brk + gap, s) /\ (BlocksOf(h) = {} => (h.brk + gap) % Align = 0)
        /\ (BlocksOf(h) = {} \/ gap = 0)
    <3>1. CASE BlocksOf(h) = {}
      <4>1. /\ s \in Int /\ s <= h.brk + gap /\ h.brk + gap \in Nat /\ h.brk + gap > 0
            /\ s \in AlignedBreaks => h.brk + gap = s
        BY <1>1, <1>3, <3>1 DEF Sound, Anchored, AlignedBreaks
      <4> HIDE DEF s
      <4>2. Based(h, g, h.brk + gap, s)
        BY <1>1, <1>6, <3>1, <4>1, Rebased
      <4> QED
        BY <1>3, <1>5, <3>1, <4>2
    <3>2. CASE BlocksOf(h) # {}
      <4>1. gap = 0
        BY <1>3, <3>2
      <4>2. h.brk + gap = h.brk /\ s = h.start
        BY <1>1, <4>1
      <4>3. g = h
        BY <1>1, <1>6, <4>2 DEF Fields
      <4>4. Based(h, h, h.brk, h.start)
        BY <1>1 DEF Based
      <4> QED
        BY <3>2, <4>1, <4>2, <4>3, <4>4
    <3> QED
      BY <3>1, <3>2
  <2>2. /\ BlocksOf(g) = BlocksOf(h) /\ BusyOf(g) = BusyOf(h) /\ g.meta = h.meta
        /\ Merged(h) => Merged(g)
        /\ Proper(h) => Proper(g)
    BY <2>1, BasedMerits
  <2>3. /\ Good(g) /\ g.brk = h.brk + gap /\ g.overcount = h.overcount /\ g.fault = "none"
        /\ (BlocksOf(g) = {} => g.brk % Align = 0)
        /\ g.wilderness = h.wilderness
    BY <1>1, <2>1, <2>2 DEF Good, Based
  <2>4. CASE ~ Room(g, size + 2 * SOM)
    <3>1. r.heap = g /\ r.block = NULL
      BY <1>4, <1>8, <2>4 DEF Return
    <3>2. Exhausted(h)
      <4>1. CASE BlocksOf(h) = {}
        BY <4>1 DEF Exhausted
      <4>2. CASE gap = 0
        <5>1. ~ Room(h, size + 2 * SOM)
          BY <1>1, <2>3, <2>4, <4>2 DEF Room
        <5> QED
          BY <1>1, <5>1, RoomLeft
      <4> QED
        BY <2>1, <4>1, <4>2
    <3>3. WildLast(h) => WildLast(g)
      <4>1. CASE BlocksOf(h) = {}
        BY <2>2, <4>1 DEF WildLast
      <4>2. CASE gap = 0
        <5>1. g.brk = h.brk
          BY <1>1, <2>3, <4>2
        <5> QED
          BY <2>2, <2>3, <5>1 DEF WildLast
      <4> QED
        BY <2>1, <4>1, <4>2
    <3>4. Keeps(h, g, {}, {})
      BY <2>2 DEF Keeps
    <3>5. Served(h, g, NULL, size)
      BY <2>2, <2>3, <3>2, <3>3, <3>4 DEF Served
    <3>6. Serving(h, r, size)
      BY <2>3, <3>1, <3>5 DEF Serving, Good
    <3> QED
      BY <3>6 DEF r
  <2>5. CASE Room(g, size + 2 * SOM)
    <3>1. Adding(g, k, size)
      BY <2>3, <2>5, AddedFacts DEF k
    <3>2. r.heap = k /\ r.block = g.brk
      BY <1>4, <1>8, <2>5 DEF Return
    <3>3. /\ Good(k) /\ WildLast(k) /\ Keeps(g, k, {}, {g.brk}) /\ g.brk \notin BusyOf(g)
          /\ Size(k, g.brk) = size /\ k.overcount = g.overcount /\ k.fault = g.fault
          /\ g.brk # NULL /\ (Proper(g) => Proper(k))
      BY <3>1 DEF Adding
    <3>4. Keeps(h, k, {}, {g.brk})
      BY <2>2, <3>3 DEF Keeps
    <3>5. size <= Size(k, g.brk)
      BY <3>3
    <3>6. Served(h, k, g.brk, size)
      BY <2>2, <3>3, <3>4, <3>5 DEF Served
    <3>7. Serving(h, r, size)
      BY <2>3, <3>2, <3>3, <3>6 DEF Serving, Good
    <3> QED
      BY <3>7 DEF r
  <2> QED
    BY <2>4, <2>5
<1> QED
  BY <1>7, <1>8

\* A mapping is made, or there is no address left.
LEMMA MapEnds ==
  ASSUME NEW h, Good(h), NEW size \in Nat, MMAP_THRESHOLD <= size, size < MaxRequest + Align,
         NEW r, r = MapBlock(h, size)
  PROVE  /\ r.block = NULL => r = Return(h, NULL) /\ MapAddrs \subseteq Mappings(h)
         /\ r.block # NULL => Mapping(h, r.heap, r.block, size)
<1> DEFINE unused == MapAddrs \ DOMAIN h.meta
           a == Min(unused)
           g == UpdateStatistics(Placed(h, a, size), <<1, 0, size, 0, 2 * SOM>>)
<1>1. CASE unused = {}
  <2>1. r = Return(h, NULL)
    BY <1>1 DEF MapBlock
  <2>2. r.block = NULL
    BY <2>1 DEF Return
  <2>3. MapAddrs \subseteq Mappings(h)
    BY <1>1 DEF Mappings
  <2> QED
    BY <2>1, <2>2, <2>3
<1>2. CASE unused # {}
  <2>1. r = Return(g, a)
    BY <1>2 DEF MapBlock, Placed
  <2>2. a \in unused
    <3>1. unused \in SUBSET Nat
      BY HeapAssumption
    <3> HIDE DEF unused
    <3> QED
      BY <1>2, <3>1, MinOf
  <2>3. a \in Nat /\ a # NULL /\ a \in MapAddrs \ DOMAIN h.meta
    BY <2>2, HeapAssumption DEF NULL
  <2> HIDE DEF a, unused
  <2>4. Mapping(h, g, a, size)
    BY <2>3, MapFacts
  <2> HIDE DEF g
  <2>5. r.heap = g /\ r.block = a
    BY <2>1 DEF Return
  <2> QED
    BY <2>3, <2>4, <2>5
<1> QED
  BY <1>1, <1>2

\* smalloc maps a large request, MapBlock's size being what AlignUp left of it.
LEMMA MapServes ==
  ASSUME NEW h, Good(h), h.fault = "none", NEW size \in Nat, MMAP_THRESHOLD <= size,
         size < MaxRequest + Align
  PROVE  Serving(h, MapBlock(h, size), size)
<1> DEFINE r == MapBlock(h, size)
<1>1. /\ r.block = NULL => r = Return(h, NULL) /\ MapAddrs \subseteq Mappings(h)
      /\ r.block # NULL => Mapping(h, r.heap, r.block, size)
  BY MapEnds
<1> HIDE DEF r
<1>2. CASE r.block = NULL
  <2>1. Exhausted(h)
    BY <1>1, <1>2 DEF Exhausted
  <2>2. Serving(h, r, size)
    BY <1>1, <1>2, <2>1, NotServed
  <2> QED
    BY <2>2 DEF r
<1>3. CASE r.block # NULL
  <2> DEFINE g == r.heap
             a == r.block
  <2>1. Mapping(h, g, a, size)
    BY <1>1, <1>3
  <2>2. a # NULL
    BY <1>3
  <2> HIDE DEF g, a
  <2>3. /\ Good(g) /\ Keeps(h, g, {}, {a}) /\ a \notin BusyOf(h) /\ Size(g, a) = size
        /\ WildLast(h) => WildLast(g)
        /\ g.fault = h.fault /\ g.overcount = h.overcount
    BY <2>1 DEF Mapping
  <2>4. Proper(h) => Proper(g)
    BY <2>1, MapBooks DEF Good
  <2>5. Served(h, g, a, size)
    BY <2>2, <2>3, <2>4 DEF Served
  <2>6. Serving(h, r, size)
    BY <2>3, <2>5 DEF Serving, Good, g, a
  <2> QED
    BY <2>6 DEF r
<1> QED
  BY <1>2, <1>3

\* No free block is large enough.
LEMMA BreakServes ==
  ASSUME NEW h, Good(h), h.fault = "none", NEW size \in Nat, size < MMAP_THRESHOLD,
         SearchFreeBlock(h, size) = NULL, NEW junk
  PROVE  Serving(h, FromBreak(h, size, junk), size)
<1> DEFINE w == h.wilderness
           listed == w \in ToSet(h.list)
           what == IF junk = "large" THEN "assert455" ELSE "corrupt"
<1>1. Serving(h, NewBlock(h, size), size)
  BY NewServes
<1>2. ASSUME listed, h.meta[w].is_free
      PROVE  Serving(h, GrowWilderness(h, size), size)
  <2>1. w \in FreeOf(h) /\ Sound(h)
    BY <1>2 DEF FreeOf, BlocksOf, Good
  <2>2. ~ Size(h, w) >= size
    BY <2>1, SearchMiss
  <2>3. Size(h, w) \in Nat
    BY <2>1, SoundTiles, BlockNumbers DEF FreeOf, Size
  <2>4. Size(h, w) < size
    BY <2>2, <2>3
  <2> QED
    BY <2>1, <2>4, WildernessGrows
<1>3. ASSUME ~ listed, w # NULL
      PROVE  Serving(h, Return(Fail(h, what), NULL), size)
  <2>1. ~ WildLast(h)
    BY <1>3 DEF WildLast, Good, Sound, Pointed, BlocksOf
  <2>2. what # "none" /\ Blamed(h, what, size)
    BY <2>1 DEF Blamed
  <2> HIDE DEF what
  <2> QED
    BY <2>2, NotDefined
<1>4. \/ FromBreak(h, size, junk) = NewBlock(h, size)
      \/ listed /\ h.meta[w].is_free /\ FromBreak(h, size, junk) = GrowWilderness(h, size)
      \/ ~ listed /\ w # NULL /\ FromBreak(h, size, junk) = Return(Fail(h, what), NULL)
  BY DEF FromBreak
<1> QED
  BY <1>1, <1>2, <1>3, <1>4

\* A free block is taken whole or split.
LEMMA FoundServes ==
  ASSUME NEW h, Good(h), h.fault = "none", NEW size \in Nat, NEW a \in FreeOf(h),
         size <= Size(h, a)
  PROVE  Serving(h, Return(IF SplitFits(Size(h, a), size) THEN SplitBlock(h, size, a) ELSE Take(h, a),
                           a), size)
<1> DEFINE f == IF SplitFits(Size(h, a), size) THEN SplitBlock(h, size, a) ELSE Take(h, a)
           r == Return(f, a)
<1>1. /\ Sound(h) /\ a \in BlocksOf(h) /\ a \in AllOf(h) /\ a # NULL /\ a \notin BusyOf(h)
      /\ FreeOf(h) \cup {a} = FreeOf(h)
  <2>1. Sound(h) /\ a \in BlocksOf(h) /\ a \in AllOf(h) /\ h.meta[a].is_free
    BY DEF FreeOf, AllOf, Good
  <2>2. a # NULL /\ a \notin MapAddrs
    BY <2>1, SoundTiles, BlockNumbers, OwnAddresses DEF NULL
  <2> QED
    BY <2>1, <2>2 DEF BusyOf, BusyIn
<1>2. r.heap = f /\ r.block = a
  BY DEF Return
<1>3. CASE SplitFits(Size(h, a), size)
  <2> DEFINE rest == Size(h, a) - size - 2 * SOM
             g == SplitBlock(h, size, a)
  <2>1. rest \in Nat /\ h.meta[a].size = size + 2 * SOM + rest
    BY <1>1, <1>3, FitsRest
  <2>2. f = g
    BY <1>3
  <2>3. Splitting(h, g, a, size, rest)
    <3> HIDE DEF rest
    <3> QED
      BY <1>1, <2>1, SplitFacts
  <2> HIDE DEF g, f, r
  <2>4. Sound(g) /\ g.overcount = h.overcount
    BY <2>3 DEF Splitting
  <2>5. ASSUME g.fault = "none" PROVE Served(h, g, a, size)
    <3>1. /\ Good(g) /\ Keeps(h, g, {a}, {a}) /\ g.meta[a].size = size
          /\ WildLast(h) => WildLast(g)
      BY <2>3, <2>5 DEF Splitting
    <3>2. Proper(h) => Proper(g)
      BY <1>1, <2>3, <2>5 DEF Splitting, Proper
    <3>3. Keeps(h, g, {}, {a})
      BY <1>1, <3>1 DEF Keeps
    <3>4. size <= Size(g, a)
      BY <3>1 DEF Size
    <3> QED
      BY <1>1, <3>1, <3>2, <3>3, <3>4 DEF Served
  <2>6. ASSUME g.fault # "none" PROVE Blamed(h, g.fault, size)
    BY <1>1, <2>3, <2>6 DEF Splitting, Blamed
  <2>7. Serving(h, r, size)
    BY <1>2, <2>2, <2>4, <2>5, <2>6 DEF Serving
  <2> QED
    BY <2>7 DEF r, f
<1>4. CASE ~ SplitFits(Size(h, a), size)
  <2> DEFINE g == Take(h, a)
  <2>1. f = g /\ Taking(h, g, a)
    BY <1>4, TakeFacts
  <2> HIDE DEF g, f, r
  <2>2. /\ Good(g) /\ Keeps(h, g, {}, {a}) /\ a \notin BusyOf(h)
        /\ g.meta[a].size = h.meta[a].size
        /\ g.overcount = h.overcount /\ g.fault = h.fault
        /\ WildLast(h) => WildLast(g)
    BY <2>1 DEF Taking
  <2>3. Proper(h) => Proper(g)
    BY <2>1 DEF Taking
  <2>4. size <= Size(g, a)
    BY <2>2 DEF Size
  <2>5. Served(h, g, a, size)
    BY <1>1, <2>2, <2>3, <2>4 DEF Served
  <2>6. Serving(h, r, size)
    BY <1>2, <2>1, <2>2, <2>5 DEF Serving, Good
  <2> QED
    BY <2>6 DEF r, f
<1> QED
  BY <1>3, <1>4

\* smalloc, whatever it reads as junk: the payload returned is nobody's and large enough.
LEMMA SmallocServes ==
  ASSUME NEW h, Good(h), h.fault = "none", NEW n \in 1 .. MaxRequest, NEW junk
  PROVE  Serving(h, Smalloc(h, n, junk), AlignUp(n))
<1> DEFINE size == AlignUp(n)
           a == SearchFreeBlock(h, size)
           g == IF SplitFits(Size(h, a), size) THEN SplitBlock(h, size, a) ELSE Take(h, a)
<1>1. size \in Nat /\ size < MaxRequest + Align /\ MMAP_THRESHOLD \in Nat
  <2>1. n \in Nat /\ n <= MaxRequest /\ MaxRequest \in Nat /\ Align \in Nat /\ MMAP_THRESHOLD \in Nat
    BY HeapAssumption
  <2>2. size \in Nat /\ size < n + Align
    BY <2>1, AlignUpFacts
  <2> HIDE DEF size
  <2> QED
    BY <2>1, <2>2
<1>2. Smalloc(h, n, junk) = IF size >= MMAP_THRESHOLD THEN MapBlock(h, size)
                            ELSE IF a = NULL THEN FromBreak(h, size, junk)
                            ELSE Return(g, a)
  BY DEF Smalloc
<1> HIDE DEF size
<1>3. size >= MMAP_THRESHOLD => Serving(h, MapBlock(h, size), size)
  BY <1>1, MapServes
<1>4. ~ size >= MMAP_THRESHOLD /\ a = NULL => Serving(h, FromBreak(h, size, junk), size)
  BY <1>1, BreakServes
<1>5. ASSUME a # NULL PROVE Serving(h, Return(g, a), size)
  <2>1. a \in FreeOf(h) /\ Size(h, a) >= size
    BY <1>5, SearchFacts DEF Good
  <2>2. size <= Size(h, a)
    BY <1>1, <2>1
  <2> HIDE DEF a
  <2> QED
    BY <1>1, <2>1, <2>2, FoundServes
<1> QED
  BY <1>2, <1>3, <1>4, <1>5 DEF size

-----------------------------------------------------------------------------
(* srealloc within the block, and to another.                              *)

\* Block a counted as free once more.
LEMMA ClaimBooks ==
  ASSUME NEW h, Sound(h), Proper(h), NEW a \in BlocksOf(h), ~ h.meta[a].is_free, NEW g,
         Counting(h, g, 0, 1, 0, Size(h, a), 0)
  PROVE  Books(g, FreeOf(g) \cup {a})
<1> DEFINE A == FreeOf(h)
           C == A \cup {a}
           z == Size(h, a)
<1>1. /\ g.meta = h.meta /\ BlocksOf(g) = BlocksOf(h) /\ Mappings(g) = Mappings(h)
      /\ AllOf(g) = AllOf(h) /\ FreeOf(g) = A /\ g.overcount = h.overcount
      /\ g.stats = <<h.stats[1] + 0, h.stats[2] + 1, h.stats[3] + 0, h.stats[4] + z,
                     h.stats[5] + 0>>
  BY DEF Counting, SameBlocks, BlocksOf, Mappings, AllOf, FreeOf
<1>2. IsFiniteSet(Mappings(h)) /\ Books(h, A)
  BY DEF Proper, Books
<1>3. /\ IsFiniteSet(BlocksOf(h)) /\ \A x \in AllOf(h) : h.meta[x].size \in Nat
  BY <1>2, AllFacts
<1>4. /\ a \notin A /\ A \subseteq BlocksOf(h) /\ C \subseteq BlocksOf(h)
      /\ C \ {a} = A /\ a \in C /\ BlocksOf(h) \subseteq AllOf(h)
  BY DEF FreeOf, AllOf
<1>5. IsFiniteSet(A) /\ IsFiniteSet(C)
  BY <1>3, <1>4, FS_Subset
<1>6. Cardinality(C) = Cardinality(A) + 1 /\ Cardinality(A) \in Nat
  BY <1>4, <1>5, FS_AddElement, FS_CardinalityType
<1>7. SizeSum(h.meta, C) = z + SizeSum(h.meta, A) /\ SizeSum(h.meta, A) \in Nat /\ z \in Nat
  <2>1. \A x \in C : h.meta[x].size \in Nat
    BY <1>3, <1>4
  <2>2. SizeSum(h.meta, C) = h.meta[a].size + SizeSum(h.meta, C \ {a})
    <3> HIDE DEF C
    <3> QED
      BY <1>4, <1>5, <2>1, SumSplit
  <2>3. SizeSum(h.meta, A) \in Nat
    <3>1. \A x \in A : h.meta[x].size \in Nat
      BY <1>3, <1>4
    <3> HIDE DEF A
    <3> QED
      BY <1>5, <3>1, SumType
  <2>4. z = h.meta[a].size /\ z \in Nat
    BY <1>3, <1>4 DEF Size
  <2> HIDE DEF C, A, z
  <2> QED
    BY <1>4, <2>2, <2>3, <2>4
<1>8. h.stats = <<Cardinality(AllOf(h)), Cardinality(A), SizeSum(h.meta, AllOf(h)) + h.overcount,
                  SizeSum(h.meta, A), 2 * SOM * Cardinality(AllOf(h))>>
  BY <1>2 DEF Books
<1>9. \A i \in 1 .. 5 : h.stats[i] \in Int
  BY DEF Sound, Numbers, Counters
<1> HIDE DEF A, C, z
<1>10. /\ h.stats[1] + 0 = Cardinality(AllOf(h)) /\ h.stats[2] + 1 = Cardinality(C)
       /\ h.stats[3] + 0 = SizeSum(h.meta, AllOf(h)) + h.overcount
       /\ h.stats[4] + z = SizeSum(h.meta, C)
       /\ h.stats[5] + 0 = 2 * SOM * Cardinality(AllOf(h))
  <2>1. /\ h.stats[1] = Cardinality(AllOf(h)) /\ h.stats[2] = Cardinality(A)
        /\ h.stats[3] = SizeSum(h.meta, AllOf(h)) + h.overcount
        /\ h.stats[4] = SizeSum(h.meta, A) /\ h.stats[5] = 2 * SOM * Cardinality(AllOf(h))
    BY <1>8
  <2>2. /\ h.stats[1] \in Int /\ h.stats[2] \in Int /\ h.stats[3] \in Int /\ h.stats[4] \in Int
        /\ h.stats[5] \in Int
    BY <1>9
  <2>3. h.stats[1] + 0 = h.stats[1] /\ h.stats[3] + 0 = h.stats[3] /\ h.stats[5] + 0 = h.stats[5]
    BY <2>2
  <2> QED
    BY <1>6, <1>7, <2>1, <2>3
<1>11. Books(g, C)
  BY <1>1, <1>2, <1>10 DEF Books
<1> QED
  BY <1>1, <1>11 DEF C

\* Block a keeps n bytes at least.
Trimmed(h, g, a, n) ==
  /\ Sound(g) /\ g.overcount = h.overcount
  /\ g.fault = "none" =>
       /\ Good(g) /\ Keeps(h, g, {a}, {a}) /\ n <= Size(g, a)
       /\ WildLast(h) => WildLast(g)
       /\ Proper(h) => Proper(g)
  /\ g.fault # "none" =>
       \/ g.fault = "foreign" /\ h.start \notin AlignedBreaks
       \/ g.fault = "munmap" /\ a \in BlocksOf(h) /\ Size(h, a) - n - 2 * SOM >= MMAP_THRESHOLD
       \/ g.fault = "unlisted" /\ a \in Mappings(h)

LEMMA TrimFacts ==
  ASSUME NEW h, Good(h), h.fault = "none", NEW a \in BusyOf(h), NEW n \in Nat, n <= Size(h, a)
  PROVE  Trimmed(h, Trim(h, a, n), a, n)
<1> DEFINE z == Size(h, a)
           f == UpdateStatistics(h, <<0, 1, 0, z, 0>>)
           g == SplitBlock(f, n, a)
           t == Trim(h, a, n)
<1>1. /\ Sound(h) /\ Merged(h) /\ a \in AllOf(h)
      /\ a \in BlocksOf(h) \/ a \in Mappings(h)
      /\ a \in BlocksOf(h) => ~ h.meta[a].is_free
  <2>1. \A x \in BlocksOf(h) : x \notin MapAddrs
    BY SoundTiles, OwnAddresses DEF Good
  <2> QED
    BY <2>1 DEF Good, BusyOf, BusyIn, AllOf, Mappings
<1>2. z \in Nat
  <2>1. a \in BlocksOf(h) => z \in Nat
    BY <1>1, SoundTiles, BlockNumbers DEF Size
  <2>2. a \in Mappings(h) => z \in Nat
    BY <1>1, SoundTiles DEF Tiles, Known, Mappings, Meta, Size
  <2> QED
    BY <1>1, <2>1, <2>2
<1>3. t = IF SplitFits(z, n) THEN g ELSE h
  BY DEF Trim
<1>4. Counting(h, f, 0, 1, 0, z, 0)
  <2>1. 0 \in Int /\ 1 \in Int /\ z \in Int
    BY <1>2
  <2> HIDE DEF z
  <2> QED
    BY <1>1, <2>1, CountingSound
<1> HIDE DEF f, t
<1>5. /\ Sound(f) /\ BlocksOf(f) = BlocksOf(h) /\ BusyOf(f) = BusyOf(h) /\ f.meta = h.meta
      /\ Mappings(f) = Mappings(h) /\ f.brk = h.brk /\ f.start = h.start
      /\ f.wilderness = h.wilderness /\ f.fault = h.fault /\ f.overcount = h.overcount
      /\ Merged(h) => Merged(f)
      /\ WildLast(h) => WildLast(f)
  BY <1>4, CountingMerits
<1>6. Good(f) /\ f.list = h.list
  BY <1>1, <1>4, <1>5 DEF Good, Counting, SameBlocks
<1>7. CASE ~ SplitFits(z, n)
  <2>1. Keeps(h, h, {a}, {a})
    BY DEF Keeps
  <2>2. Trimmed(h, h, a, n)
    BY <1>1, <2>1 DEF Trimmed, Good
  <2> QED
    BY <1>3, <1>7, <2>2 DEF t
<1>8. CASE SplitFits(z, n) /\ a \notin BlocksOf(h)
  <2>1. a \in Mappings(h)
    BY <1>1, <1>8
  <2>2. g = Fail(f, "unlisted")
    BY <1>6, <1>8 DEF SplitBlock, BlocksOf
  <2>3. Failed(f, g, "unlisted")
    BY <1>5, <2>2, Failing
  <2> HIDE DEF g
  <2>4. Sound(g) /\ g.overcount = h.overcount /\ g.fault = "unlisted"
    BY <1>5, <2>3 DEF Failed
  <2>5. Trimmed(h, g, a, n)
    BY <2>1, <2>4 DEF Trimmed
  <2> QED
    BY <1>3, <1>8, <2>5 DEF t
<1>9. CASE SplitFits(z, n) /\ a \in BlocksOf(h)
  <2> DEFINE rest == z - n - 2 * SOM
  <2>1. rest \in Nat /\ f.meta[a].size = n + 2 * SOM + rest
    BY <1>1, <1>5, <1>9, FitsRest
  <2>2. Splitting(f, g, a, n, rest)
    <3>1. a \in AllOf(f)
      BY <1>5, <1>9 DEF AllOf
    <3> HIDE DEF rest
    <3> QED
      BY <1>5, <1>6, <2>1, <3>1, SplitFacts
  <2> HIDE DEF g
  <2>3. Sound(g) /\ g.overcount = h.overcount
    BY <1>5, <2>2 DEF Splitting
  <2>4. ASSUME g.fault = "none"
        PROVE  /\ Good(g) /\ Keeps(h, g, {a}, {a}) /\ n <= Size(g, a)
               /\ WildLast(h) => WildLast(g)
               /\ Proper(h) => Proper(g)
    <3>1. /\ Good(g) /\ Keeps(f, g, {a}, {a}) /\ g.meta[a].size = n
          /\ WildLast(f) => WildLast(g)
          /\ Books(f, FreeOf(f) \cup {a}) => Proper(g)
      BY <2>2, <2>4 DEF Splitting
    <3>2. Proper(h) => Books(f, FreeOf(f) \cup {a})
      BY <1>1, <1>4, <1>9, ClaimBooks
    <3>3. Keeps(h, g, {a}, {a})
      BY <1>5, <3>1 DEF Keeps
    <3> QED
      BY <1>5, <3>1, <3>2, <3>3 DEF Size
  <2>5. ASSUME g.fault # "none"
        PROVE  \/ g.fault = "foreign" /\ h.start \notin AlignedBreaks
               \/ g.fault = "munmap" /\ a \in BlocksOf(h) /\ Size(h, a) - n - 2 * SOM >= MMAP_THRESHOLD
    BY <1>5, <1>9, <2>2, <2>5 DEF Splitting
  <2>6. Trimmed(h, g, a, n)
    BY <2>3, <2>4, <2>5 DEF Trimmed
  <2> QED
    BY <1>3, <1>9, <2>6 DEF t
<1> QED
  BY <1>7, <1>8, <1>9

-----------------------------------------------------------------------------
(* tryMergeRealloc.                                                        *)

\* Every block keeps to the alignment.
Even(h) == \A x \in BlocksOf(h) : Size(h, x) % Align = 0

LEMMA EvenEnd ==
  ASSUME NEW b \in Nat, NEW z \in Nat, b % Align = 0, z % Align = 0
  PROVE  (b + (SOM + (z + SOM))) % Align = 0
<1>1. /\ Align \in Nat /\ Align > 0 /\ SOM \in Int /\ z \in Int /\ b \in Int /\ SOM % Align = 0
      /\ z + SOM \in Int /\ SOM + (z + SOM) \in Int
  BY HeapAssumption
<1>2. (z + SOM) % Align = 0
  BY <1>1, AddMultiples
<1>3. (SOM + (z + SOM)) % Align = 0
  <2> DEFINE y == z + SOM
  <2>1. y \in Int /\ y % Align = 0
    BY <1>1, <1>2
  <2> HIDE DEF y
  <2>2. (SOM + y) % Align = 0
    BY <1>1, <2>1, AddMultiples
  <2> QED
    BY <2>2 DEF y
<1> DEFINE y == SOM + (z + SOM)
<1>4. y \in Int /\ y % Align = 0
  BY <1>1, <1>3
<1> HIDE DEF y
<1>5. (b + y) % Align = 0
  BY <1>1, <1>4, AddMultiples
<1> QED
  BY <1>5 DEF y

\* Then so do their addresses, and the break.
LEMMA EvenAddresses ==
  ASSUME NEW h, Sound(h), Even(h)
  PROVE  /\ \A b \in BlocksOf(h) : b % Align = 0 /\ EndAt(h.meta, b) % Align = 0
         /\ BlocksOf(h) # {} => h.brk % Align = 0
<1> DEFINE B == BlocksOf(h)
           Odd == {b \in B : b % Align # 0}
<1>1. /\ Tiles(B, h.meta, h.brk) /\ Align \in Nat /\ Align > 0 /\ SOM \in Nat /\ SOM % Align = 0
      /\ \A b \in B : /\ b \in Nat /\ Size(h, b) \in Nat /\ EndAt(h.meta, b) \in Nat
                      /\ EndAt(h.meta, b) = b + (SOM + (Size(h, b) + SOM))
                      /\ b < EndAt(h.meta, b)
  <2>1. Tiles(B, h.meta, h.brk) /\ SOM \in Nat
    BY SoundTiles, HeapAssumption
  <2>2. \A b \in B : /\ b \in Nat /\ h.meta[b].size \in Nat /\ EndAt(h.meta, b) \in Nat
                     /\ EndAt(h.meta, b) = b + SOM + h.meta[b].size + SOM /\ b < EndAt(h.meta, b)
    BY <2>1, BlockNumbers
  <2> QED
    BY <2>1, <2>2, HeapAssumption DEF Size
<1>2. ASSUME NEW b \in B, b % Align = 0 PROVE EndAt(h.meta, b) % Align = 0
  <2>1. Size(h, b) % Align = 0
    BY DEF Even
  <2> DEFINE z == Size(h, b)
  <2>2. z \in Nat /\ b \in Nat /\ z % Align = 0
    BY <1>1, <2>1
  <2>3. (b + (SOM + (z + SOM))) % Align = 0
    <3> HIDE DEF z
    <3> QED
      BY <1>2, <2>2, EvenEnd
  <2>4. EndAt(h.meta, b) = b + (SOM + (z + SOM))
    BY <1>1
  <2> QED
    BY <2>3, <2>4
<1>3. Odd = {}
  <2>1. SUFFICES ASSUME Odd # {} PROVE FALSE
    OBVIOUS
  <2>2. Odd \in SUBSET Nat
    BY <1>1
  <2>3. PICK b \in Odd : \A x \in Odd : b <= x
    <3> HIDE DEF Odd
    <3> QED
      BY <2>1, <2>2, LeastOf
  <2>4. b \in B /\ b % Align # 0
    OBVIOUS
  <2>5. PICK a \in B : EndAt(h.meta, a) = b
    BY <1>1, <2>4 DEF Tiles, Rooted
  <2>6. a \notin Odd
    BY <1>1, <2>3, <2>4, <2>5
  <2>7. a % Align = 0
    BY <2>6
  <2> QED
    BY <1>2, <2>4, <2>5, <2>7
<1>4. \A b \in B : b % Align = 0 /\ EndAt(h.meta, b) % Align = 0
  BY <1>2, <1>3
<1>5. B # {} => h.brk % Align = 0
  BY <1>1, <1>4 DEF Tiles, Ended
<1> QED
  BY <1>4, <1>5

\* The case of tryMergeRealloc that is taken, its blocks a, X before and Y behind.
Chosen(h, a, size, c, X, Y) ==
  /\ c.parts = {a} \cup X \cup Y
  /\ X = {} \/ X = Prevs(h, a)
  /\ Y = {} \/ Y = Nexts(h, a)
  /\ \/ /\ c.name = "b" /\ X # {} /\ Y = {}
        /\ h.wilderness = a \/ size <= Joined(h, c.parts)
     \/ c.name = "c" /\ X = {} /\ Y = {} /\ h.wilderness = a /\ Prevs(h, a) = {}
     \/ c.name = "d" /\ X = {} /\ Y # {} /\ size <= Joined(h, c.parts)
     \/ /\ c.name = "e" /\ X # {} /\ Y # {} /\ size <= Joined(h, c.parts)
        /\ ~ size <= Joined(h, {a} \cup X)
     \/ /\ c.name = "f" /\ X = Prevs(h, a) /\ h.wilderness \in Y
        /\ ~ size <= Joined(h, c.parts)

LEMMA CaseChosen ==
  ASSUME NEW h, NEW a, NEW size, NEW i,
         i = SelectInSeq(Cases(h, a, size), LAMBDA c : c.when), i # 0
  PROVE  \E X, Y : Chosen(h, a, size, Cases(h, a, size)[i], X, Y)
<1> DEFINE s == Cases(h, a, size)
           p == Prevs(h, a)
           n == Nexts(h, a)
           w == h.wilderness
           I == {j \in 1 .. Len(s) : s[j].when}
           fits(parts) == size <= Joined(h, parts)
           q1 == p # {} /\ (w = a \/ fits({a} \cup p))
           q2 == w = a
           q3 == n # {} /\ fits({a} \cup n)
           q4 == p # {} /\ n # {} /\ fits({a} \cup p \cup n)
           q5 == w \in n
<1>1. /\ Len(s) = 5
      /\ s[1] = [name |-> "b", parts |-> {a} \cup p, when |-> q1]
      /\ s[2] = [name |-> "c", parts |-> {a}, when |-> q2]
      /\ s[3] = [name |-> "d", parts |-> {a} \cup n, when |-> q3]
      /\ s[4] = [name |-> "e", parts |-> {a} \cup p \cup n, when |-> q4]
      /\ s[5] = [name |-> "f", parts |-> {a} \cup p \cup n, when |-> q5]
  BY DEF Cases
<1>2. i = IF I # {} THEN Min(I) ELSE 0
  BY DEF SelectInSeq
<1>3. I \in SUBSET Nat /\ I # {} /\ I = {j \in 1 .. 5 : s[j].when}
  BY <1>1, <1>2
<1>4. i \in I /\ \A j \in I : i <= j
  <2> HIDE DEF I
  <2> QED
    BY <1>2, <1>3, MinOf
<1> HIDE DEF s, fits, I
<1>5. /\ s[1].when <=> q1
      /\ s[2].when <=> q2
      /\ s[3].when <=> q3
      /\ s[4].when <=> q4
      /\ s[5].when <=> q5
  <2> HIDE DEF q1, q2, q3, q4, q5
  <2>1. s[1].when = q1 /\ s[2].when = q2 /\ s[3].when = q3 /\ s[4].when = q4 /\ s[5].when = q5
    BY <1>1
  <2> QED
    BY <2>1
<1>6. /\ i \in 1 .. 5 /\ s[i].when
      /\ \A j \in 1 .. 5 : j < i => ~ s[j].when
  <2>1. i \in 1 .. 5 /\ s[i].when
    BY <1>3, <1>4
  <2>2. ASSUME NEW j \in 1 .. 5, j < i, s[j].when PROVE FALSE
    <3>1. j \in I
      BY <1>3, <2>2
    <3> QED
      BY <1>4, <2>1, <2>2, <3>1
  <2> QED
    BY <2>1, <2>2
<1>7. i = 1 \/ i = 2 \/ i = 3 \/ i = 4 \/ i = 5
  BY <1>6
<1>8. CASE i = 1
  <2>1. Chosen(h, a, size, s[i], p, {})
    <3>1. s[i].name = "b" /\ s[i].parts = {a} \cup p \cup {}
      BY <1>1, <1>8
    <3>2. p # {} /\ (w = a \/ size <= Joined(h, s[i].parts))
      BY <1>5, <1>6, <1>8, <3>1 DEF fits
    <3> QED
      BY <3>1, <3>2 DEF Chosen
  <2> QED
    BY <2>1 DEF s
<1>9. CASE i = 2
  <2>1. Chosen(h, a, size, s[i], {}, {})
    <3>1. s[i].name = "c" /\ s[i].parts = {a} \cup {} \cup {}
      BY <1>1, <1>9
    <3>2. w = a /\ ~ s[1].when
      BY <1>5, <1>6, <1>9
    <3>3. p = {}
      BY <1>5, <3>2
    <3> QED
      BY <3>1, <3>2, <3>3 DEF Chosen
  <2> QED
    BY <2>1 DEF s
<1>10. CASE i = 3
  <2>1. Chosen(h, a, size, s[i], {}, n)
    <3>1. s[i].name = "d" /\ s[i].parts = {a} \cup {} \cup n
      BY <1>1, <1>10
    <3>2. n # {} /\ size <= Joined(h, s[i].parts)
      BY <1>5, <1>6, <1>10, <3>1 DEF fits
    <3> QED
      BY <3>1, <3>2 DEF Chosen
  <2> QED
    BY <2>1 DEF s
<1>11. CASE i = 4
  <2>1. Chosen(h, a, size, s[i], p, n)
    <3>1. s[i].name = "e" /\ s[i].parts = {a} \cup p \cup n
      BY <1>1, <1>11
    <3>2. p # {} /\ n # {} /\ size <= Joined(h, s[i].parts)
      BY <1>5, <1>6, <1>11, <3>1 DEF fits
    <3>3. ~ s[1].when
      BY <1>6, <1>11
    <3>4. ~ size <= Joined(h, {a} \cup p)
      BY <1>5, <3>2, <3>3 DEF fits
    <3> QED
      BY <3>1, <3>2, <3>4 DEF Chosen
  <2> QED
    BY <2>1 DEF s
<1>12. CASE i = 5
  <2>1. Chosen(h, a, size, s[i], p, n)
    <3>1. s[i].name = "f" /\ s[i].parts = {a} \cup p \cup n
      BY <1>1, <1>12
    <3>2. w \in n /\ n # {}
      BY <1>5, <1>6, <1>12
    <3>3. ~ s[3].when /\ ~ s[4].when
      BY <1>6, <1>12
    <3>4. p = {} => {a} \cup p \cup n = {a} \cup n
      OBVIOUS
    <3>5. ~ size <= Joined(h, s[i].parts)
      BY <1>5, <3>1, <3>2, <3>3, <3>4 DEF fits
    <3> QED
      BY <3>1, <3>2, <3>5 DEF Chosen
  <2> QED
    BY <2>1 DEF s
<1> QED
  BY <1>7, <1>8, <1>9, <1>10, <1>11, <1>12

\* None of the cases: there is no room with a free neighbour.
LEMMA NoCase ==
  ASSUME NEW h, NEW a, NEW size, 0 = SelectInSeq(Cases(h, a, size), LAMBDA c : c.when)
  PROVE  /\ Prevs(h, a) # {} => ~ size <= Joined(h, {a} \cup Prevs(h, a))
         /\ Nexts(h, a) # {} => ~ size <= Joined(h, {a} \cup Nexts(h, a))
<1> DEFINE s == Cases(h, a, size)
           p == Prevs(h, a)
           n == Nexts(h, a)
           w == h.wilderness
           I == {j \in 1 .. Len(s) : s[j].when}
           q1 == p # {} /\ (w = a \/ size <= Joined(h, {a} \cup p))
           q3 == n # {} /\ size <= Joined(h, {a} \cup n)
<1>1. /\ Len(s) = 5
      /\ s[1] = [name |-> "b", parts |-> {a} \cup p, when |-> q1]
      /\ s[3] = [name |-> "d", parts |-> {a} \cup n, when |-> q3]
  BY DEF Cases
<1>2. 0 = IF I # {} THEN Min(I) ELSE 0
  BY DEF SelectInSeq
<1>3. I \in SUBSET Nat /\ 0 \notin I
  BY <1>1
<1>4. I = {}
  <2> HIDE DEF I
  <2> QED
    BY <1>2, <1>3, MinOf
<1> HIDE DEF s
<1>5. ~ s[1].when /\ ~ s[3].when
  BY <1>1, <1>4
<1>6. ~ q1 /\ ~ q3
  <2> HIDE DEF q1, q3
  <2>1. s[1].when = q1 /\ s[3].when = q3
    BY <1>1
  <2> QED
    BY <1>5, <2>1
<1> QED
  BY <1>6

\* The blocks of a case lie side by side.
LEMMA ChosenAround ==
  ASSUME NEW h, Sound(h), NEW a \in BlocksOf(h), ~ Foreign(h, a), NEW size,
         NEW c, NEW X, NEW Y, Chosen(h, a, size, c, X, Y)
  PROVE  \E lo, hi :
           /\ Around(h, a, X, Y, lo, hi) /\ Interval(BlocksOf(h), c.parts, lo, hi)
           /\ Min(c.parts) = lo /\ Max(c.parts) = hi /\ lo \in BlocksOf(h) /\ hi \in BlocksOf(h)
           /\ Joined(h, c.parts) = FusedSize(h.meta, lo, hi, 0)
           /\ End(h, hi) = EndAt(h.meta, hi)
<1>1. c.parts = {a} \cup X \cup Y /\ (X = {} \/ X = Prevs(h, a)) /\ (Y = {} \/ Y = Nexts(h, a))
  BY DEF Chosen
<1>2. PICK lo, hi : Around(h, a, X, Y, lo, hi)
  BY <1>1, Neighbourhood
<1>3. Interval(BlocksOf(h), c.parts, lo, hi)
  BY <1>1, <1>2 DEF Around
<1>4. /\ Min(c.parts) = lo /\ Max(c.parts) = hi
      /\ Joined(h, c.parts) = FusedSize(h.meta, lo, hi, 0)
  <2> DEFINE P == c.parts
  <2>1. Interval(BlocksOf(h), P, lo, hi)
    BY <1>3
  <2> HIDE DEF P
  <2>2. Min(P) = lo /\ Max(P) = hi /\ Joined(h, P) = FusedSize(h.meta, lo, hi, 0)
    BY <2>1, PartsEnds
  <2> QED
    BY <2>2 DEF P
<1>5. lo \in BlocksOf(h) /\ hi \in BlocksOf(h)
  BY <1>3 DEF Interval
<1>6. End(h, hi) = EndAt(h.meta, hi)
  BY DEF End, Foot, Size, EndAt, FootAt
<1> QED
  BY <1>2, <1>3, <1>4, <1>5, <1>6

\* What block a and the one before make together.
LEMMA JoinedBefore ==
  ASSUME NEW h, Sound(h), NEW a \in BlocksOf(h), ~ Foreign(h, a),
         NEW X, X = Prevs(h, a), NEW lo \in BlocksOf(h), X = {lo}
  PROVE  /\ EndAt(h.meta, lo) = a
         /\ Joined(h, {a} \cup X) = Size(h, a) + (Size(h, lo) + 2 * SOM)
<1> DEFINE P == {a} \cup X \cup {}
<1>1. PICK l, k : Around(h, a, X, {}, l, k)
  BY Neighbourhood
<1>2. l = lo /\ k = a /\ EndAt(h.meta, lo) = a /\ Interval(BlocksOf(h), P, lo, a)
  BY <1>1 DEF Around
<1>3. P = {a} \cup X
  OBVIOUS
<1> HIDE DEF P
<1>4. Joined(h, P) = FusedSize(h.meta, lo, a, 0)
  BY <1>2, PartsEnds
<1>5. /\ SOM \in Nat /\ a \in Nat /\ lo \in Nat /\ h.meta[a].size \in Nat /\ h.meta[lo].size \in Nat
      /\ EndAt(h.meta, a) = a + SOM + h.meta[a].size + SOM
      /\ EndAt(h.meta, lo) = lo + SOM + h.meta[lo].size + SOM
  BY SoundTiles, BlockNumbers
<1>6. Joined(h, P) = Size(h, a) + (Size(h, lo) + 2 * SOM)
  BY <1>2, <1>4, <1>5 DEF FusedSize, Size
<1> QED
  BY <1>2, <1>3, <1>6

\* What is left over when tryMergeRealloc returns is less than one of the blocks it
\* had, those being even.
LEMMA LeftOver ==
  ASSUME NEW h, Sound(h), Even(h), NEW a \in BlocksOf(h), ~ Foreign(h, a),
         NEW n \in Nat, Size(h, a) < n, NEW size, size = AlignUp(n),
         NEW c, NEW X, NEW Y, Chosen(h, a, size, c, X, Y), NEW whole, whole = Joined(h, c.parts),
         NEW added, added = IF size > whole THEN size - whole ELSE 0
  PROVE  \/ (whole + added) - n - 2 * SOM < 0
         \/ \E x \in BlocksOf(h) : (whole + added) - n - 2 * SOM < Size(h, x)
<1>1. PICK lo, hi :
        /\ Around(h, a, X, Y, lo, hi) /\ lo \in BlocksOf(h) /\ hi \in BlocksOf(h)
        /\ whole = FusedSize(h.meta, lo, hi, 0)
  BY ChosenAround
<1>2. /\ SOM \in Nat /\ SOM > 0 /\ Align \in Nat /\ Align > 0 /\ SOM % Align = 0
      /\ \A x \in BlocksOf(h) : /\ x \in Nat /\ Size(h, x) \in Nat
                                /\ EndAt(h.meta, x) = x + SOM + Size(h, x) + SOM
      /\ size \in Nat /\ n <= size /\ size < n + Align /\ size % Align = 0
  <2>1. \A x \in BlocksOf(h) : /\ x \in Nat /\ h.meta[x].size \in Nat
                               /\ EndAt(h.meta, x) = x + SOM + h.meta[x].size + SOM
    BY SoundTiles, BlockNumbers
  <2>2. size \in Nat /\ n <= size /\ size < n + Align /\ size % Align = 0
    BY AlignUpFacts
  <2>3. SOM \in Nat /\ SOM > 0 /\ Align \in Nat /\ Align > 0 /\ SOM % Align = 0
    BY HeapAssumption
  <2> QED
    BY <2>1, <2>2, <2>3 DEF Size
<1>3. Align <= SOM
  <2>1. 0 \in Int /\ 0 % Align = 0 /\ SOM \in Int
    BY <1>2
  <2>2. 0 + Align <= SOM
    BY <1>2, <2>1, NextMultiple
  <2> QED
    BY <1>2, <2>2
<1>4. whole = (EndAt(h.meta, hi) - lo) - 2 * SOM /\ whole \in Int
  BY <1>1, <1>2 DEF FusedSize
<1>5. CASE size > whole
  <2>1. added = size - whole
    BY <1>5
  <2>2. whole + added = size
    BY <1>2, <1>4, <2>1
  <2> QED
    BY <1>2, <1>3, <2>2
<1>6. CASE ~ size > whole
  <2>1. added = 0 /\ whole + added = whole /\ size <= whole
    BY <1>2, <1>4, <1>6
  <2>2. CASE X = {} /\ Y = {}
    <3>1. lo = a /\ hi = a
      BY <1>1, <2>2 DEF Around
    <3>2. whole = Size(h, a)
      BY <1>2, <1>4, <3>1
    <3> QED
      BY <1>2, <2>1, <3>2
  <2>3. CASE X # {} /\ Y = {}
    <3>1. hi = a /\ EndAt(h.meta, lo) = a
      BY <1>1, <2>3 DEF Around
    <3>2. whole = Size(h, a) + Size(h, lo) + 2 * SOM
      <4> DEFINE u == Size(h, lo)
                 v == Size(h, a)
      <4>1. /\ u \in Nat /\ v \in Nat /\ lo \in Nat /\ a \in Nat
            /\ EndAt(h.meta, lo) = lo + SOM + u + SOM /\ EndAt(h.meta, a) = a + SOM + v + SOM
        BY <1>1, <1>2
      <4>2. whole = (EndAt(h.meta, a) - lo) - 2 * SOM
        BY <1>4, <3>1
      <4> HIDE DEF u, v
      <4>3. whole = v + u + 2 * SOM
        BY <1>2, <3>1, <4>1, <4>2
      <4> QED
        BY <4>3 DEF u, v
    <3>3. Size(h, a) \in Nat /\ Size(h, lo) \in Nat
      BY <1>1, <1>2
    <3>4. (whole + added) - n - 2 * SOM < Size(h, lo)
      BY <1>2, <2>1, <3>2, <3>3
    <3> QED
      BY <1>1, <3>4
  <2>4. CASE X = {} /\ Y # {}
    <3>1. lo = a /\ EndAt(h.meta, a) = hi
      BY <1>1, <2>4 DEF Around
    <3>2. whole = Size(h, a) + Size(h, hi) + 2 * SOM
      <4> DEFINE u == Size(h, hi)
                 v == Size(h, a)
      <4>1. /\ u \in Nat /\ v \in Nat /\ hi \in Nat /\ a \in Nat
            /\ EndAt(h.meta, hi) = hi + SOM + u + SOM /\ EndAt(h.meta, a) = a + SOM + v + SOM
        BY <1>1, <1>2
      <4>2. whole = (EndAt(h.meta, hi) - a) - 2 * SOM
        BY <1>4, <3>1
      <4> HIDE DEF u, v
      <4>3. whole = v + u + 2 * SOM
        BY <1>2, <3>1, <4>1, <4>2
      <4> QED
        BY <4>3 DEF u, v
    <3>3. Size(h, a) \in Nat /\ Size(h, hi) \in Nat
      BY <1>1, <1>2
    <3>4. (whole + added) - n - 2 * SOM < Size(h, hi)
      BY <1>2, <2>1, <3>2, <3>3
    <3> QED
      BY <1>1, <3>4
  <2>5. CASE X # {} /\ Y # {}
    <3>1. /\ X = {lo} /\ EndAt(h.meta, lo) = a /\ EndAt(h.meta, a) = hi
      BY <1>1, <2>5 DEF Around
    <3>2. X = Prevs(h, a) /\ ~ size <= Joined(h, {a} \cup X)
      <4>1. c.name = "e" \/ c.name = "f"
        BY <2>5 DEF Chosen
      <4>2. size <= Joined(h, c.parts)
        BY <2>1
      <4> QED
        BY <2>5, <4>1, <4>2 DEF Chosen
    <3> DEFINE j == Size(h, a) + (Size(h, lo) + 2 * SOM)
    <3>3. Joined(h, {a} \cup X) = j
      BY <1>1, <3>1, <3>2, JoinedBefore
    <3>4. Size(h, a) \in Nat /\ Size(h, lo) \in Nat /\ Size(h, hi) \in Nat
      BY <1>1, <1>2
    <3>5. j % Align = 0 /\ j \in Nat
      <4>1. Size(h, a) % Align = 0 /\ Size(h, lo) % Align = 0
        BY <1>1 DEF Even
      <4> DEFINE u == Size(h, a)
                 v == Size(h, lo)
      <4>2. u \in Nat /\ v \in Nat /\ u % Align = 0 /\ v % Align = 0
        BY <3>4, <4>1
      <4> HIDE DEF u, v
      <4>3. (u + (SOM + (v + SOM))) % Align = 0
        BY <4>2, EvenEnd
      <4>4. u + (SOM + (v + SOM)) = u + (v + 2 * SOM) /\ u + (v + 2 * SOM) \in Nat
        BY <1>2, <4>2
      <4> QED
        BY <4>3, <4>4 DEF u, v
    <3> HIDE DEF j
    <3>6. j < size
      BY <1>2, <3>2, <3>3, <3>5
    <3>7. j + Align <= size
      <4>1. j \in Int /\ size \in Int
        BY <1>2, <3>5
      <4> QED
        BY <1>2, <3>5, <3>6, <4>1, NextMultiple
    <3>8. whole = j + 2 * SOM + Size(h, hi)
      <4> DEFINE u == Size(h, hi)
                 v == Size(h, a)
                 t == Size(h, lo)
      <4>1. /\ u \in Nat /\ v \in Nat /\ t \in Nat /\ hi \in Nat /\ a \in Nat /\ lo \in Nat
            /\ EndAt(h.meta, hi) = hi + SOM + u + SOM /\ EndAt(h.meta, a) = a + SOM + v + SOM
            /\ EndAt(h.meta, lo) = lo + SOM + t + SOM /\ j = v + (t + 2 * SOM)
        BY <1>1, <1>2 DEF j
      <4> HIDE DEF u, v, t
      <4>2. whole = j + 2 * SOM + u
        BY <1>2, <1>4, <3>1, <4>1
      <4> QED
        BY <4>2 DEF u
    <3>9. (whole + added) - n - 2 * SOM < Size(h, hi)
      BY <1>2, <2>1, <3>4, <3>5, <3>7, <3>8
    <3> QED
      BY <1>1, <3>9
  <2> QED
    BY <2>2, <2>3, <2>4, <2>5
<1> QED
  BY <1>5, <1>6

\* The bytes added to the blocks parts, so that size bytes fit.
Lacking(h, parts, size) == IF size > Joined(h, parts) THEN size - Joined(h, parts) ELSE 0

LEMMA LackingFacts ==
  ASSUME NEW h, Sound(h), NEW a \in BlocksOf(h), ~ Foreign(h, a), NEW size \in Nat,
         NEW c, NEW X, NEW Y, Chosen(h, a, size, c, X, Y)
  PROVE  /\ Lacking(h, c.parts, size) \in Nat /\ Joined(h, c.parts) \in Nat
         /\ size <= Joined(h, c.parts) + Lacking(h, c.parts, size)
         /\ Lacking(h, c.parts, size) # 0 => ~ size <= Joined(h, c.parts)
<1>1. PICK lo, hi :
        /\ Around(h, a, X, Y, lo, hi) /\ Interval(BlocksOf(h), c.parts, lo, hi)
        /\ Joined(h, c.parts) = FusedSize(h.meta, lo, hi, 0)
  BY ChosenAround
<1>2. c.parts = {a} \cup X \cup Y
  BY DEF Chosen
<1> DEFINE P == c.parts
<1>3. PICK k : PartsCounted(h, a, P, lo, hi, k)
  <2>1. P = {a} \cup X \cup Y
    BY <1>2
  <2> HIDE DEF P
  <2> QED
    BY <1>1, <2>1, PartsCount
<1>4. FusedSize(h.meta, lo, hi, 0) \in Nat
  <2> DEFINE s == SizeSum(h.meta, P)
             z == h.meta[a].size
             t == SizeSum(h.meta, P \ {a})
             q == 2 * k * SOM
  <2>1. /\ t \in Nat /\ z \in Nat /\ s = z + t /\ k \in Nat
        /\ FusedSize(h.meta, lo, hi, 0) = s + q
    BY <1>3 DEF PartsCounted
  <2>2. q \in Nat
    BY <2>1, HeapAssumption
  <2> HIDE DEF s, z, t, q, P
  <2> QED
    BY <2>1, <2>2
<1>5. Joined(h, P) \in Nat
  BY <1>1, <1>4
<1> DEFINE j == Joined(h, P)
<1>6. Lacking(h, P, size) = IF size > j THEN size - j ELSE 0
  BY DEF Lacking
<1>7. j \in Nat
  BY <1>5
<1> HIDE DEF j, P
<1>8. /\ Lacking(h, P, size) \in Nat /\ size <= j + Lacking(h, P, size)
      /\ Lacking(h, P, size) # 0 => ~ size <= j
  BY <1>6, <1>7
<1> QED
  BY <1>7, <1>8 DEF j, P

\* The wilderness is extended only where it ends at the break, or it is not the last.
LEMMA ExtendsLast ==
  ASSUME NEW h, Sound(h), NEW a \in BlocksOf(h), ~ Foreign(h, a), NEW size \in Nat,
         NEW c, NEW X, NEW Y, Chosen(h, a, size, c, X, Y), Lacking(h, c.parts, size) # 0,
         WildLast(h)
  PROVE  End(h, Max(c.parts)) = h.brk
<1>1. PICK lo, hi :
        /\ Around(h, a, X, Y, lo, hi) /\ Max(c.parts) = hi /\ End(h, hi) = EndAt(h.meta, hi)
  BY ChosenAround
<1>2. ~ size <= Joined(h, c.parts)
  BY LackingFacts
<1>3. EndAt(h.meta, h.wilderness) = h.brk
  BY DEF WildLast
<1>4. hi = h.wilderness
  BY <1>1, <1>2 DEF Chosen, Around
<1> QED
  BY <1>1, <1>3, <1>4

\* What is added keeps to the alignment where the blocks do.
LEMMA EvenLacking ==
  ASSUME NEW h, Sound(h), Even(h), NEW a \in BlocksOf(h), ~ Foreign(h, a), NEW size \in Nat,
         size % Align = 0, NEW c, NEW X, NEW Y, Chosen(h, a, size, c, X, Y)
  PROVE  Lacking(h, c.parts, size) % Align = 0 /\ (h.brk + Lacking(h, c.parts, size)) % Align = 0
<1>1. PICK lo, hi :
        /\ lo \in BlocksOf(h) /\ hi \in BlocksOf(h)
        /\ Joined(h, c.parts) = FusedSize(h.meta, lo, hi, 0)
  BY ChosenAround
<1>2. /\ lo % Align = 0 /\ EndAt(h.meta, hi) % Align = 0 /\ h.brk % Align = 0
  BY <1>1, EvenAddresses
<1>3. /\ Align \in Nat /\ Align > 0 /\ SOM \in Int /\ SOM % Align = 0 /\ size \in Int
      /\ lo \in Int /\ EndAt(h.meta, hi) \in Int /\ h.brk \in Int
  <2>1. lo \in Nat /\ EndAt(h.meta, hi) \in Nat /\ h.brk \in Nat
    BY <1>1, SoundTiles, BlockNumbers
  <2>2. Align \in Nat /\ Align > 0 /\ SOM \in Int /\ SOM % Align = 0
    BY HeapAssumption
  <2> QED
    BY <2>1, <2>2
<1> DEFINE b == EndAt(h.meta, hi)
           u == b - lo
           v == u - SOM
           j == v - SOM
           t == size - j
<1>4. b \in Int /\ b % Align = 0
  BY <1>2, <1>3
<1> HIDE DEF b
<1>5. u \in Int /\ u % Align = 0
  <2>1. lo \in Int /\ lo % Align = 0 /\ Align \in Nat /\ Align > 0
    BY <1>2, <1>3
  <2>2. (b - lo) % Align = 0
    BY <1>4, <2>1, SubtractMultiples
  <2> QED
    BY <1>4, <2>1, <2>2
<1> HIDE DEF u
<1>6. v \in Int /\ v % Align = 0
  <2>1. SOM \in Int /\ SOM % Align = 0 /\ Align \in Nat /\ Align > 0
    BY <1>3
  <2>2. (u - SOM) % Align = 0
    BY <1>5, <2>1, SubtractMultiples
  <2> QED
    BY <1>5, <2>1, <2>2
<1> HIDE DEF v
<1>7. j \in Int /\ j % Align = 0
  <2>1. SOM \in Int /\ SOM % Align = 0 /\ Align \in Nat /\ Align > 0
    BY <1>3
  <2>2. (v - SOM) % Align = 0
    BY <1>6, <2>1, SubtractMultiples
  <2> QED
    BY <1>6, <2>1, <2>2
<1>8. Joined(h, c.parts) = j
  BY <1>1, <1>3, <1>4 DEF FusedSize, b, u, v
<1> HIDE DEF j
<1>9. t \in Int /\ t % Align = 0
  BY <1>3, <1>7, SubtractMultiples
<1> HIDE DEF t
<1> DEFINE l == Lacking(h, c.parts, size)
<1>10. l = t \/ l = 0
  BY <1>8 DEF Lacking, t
<1>11. 0 \in Int /\ 0 % Align = 0
  BY <1>3
<1>12. l \in Int /\ l % Align = 0
  BY <1>9, <1>10, <1>11
<1> HIDE DEF l
<1>13. (h.brk + l) % Align = 0
  BY <1>2, <1>3, <1>12, AddMultiples
<1> QED
  BY <1>12, <1>13 DEF l

\* Moving the data goes wrong only for one of these reasons.
Mishap(h, a, fault) ==
  \/ fault = "corrupt" /\ ~ WildLast(h)
  \/ fault = "assert350" /\ ~ Even(h)
  \/ fault = "clobbered" /\ Prevs(h, a) # {}

LEMMA MoveFaults ==
  ASSUME NEW h, Sound(h), NEW a \in BlocksOf(h), ~ Foreign(h, a), NEW size \in Nat,
         size % Align = 0, NEW c, NEW X, NEW Y, Chosen(h, a, size, c, X, Y),
         NEW added, added = Lacking(h, c.parts, size), NEW fault,
         fault = MoveFault(h, a, c, added)
  PROVE  /\ fault # "none" => Mishap(h, a, fault)
         /\ fault = "none" /\ Room(h, added) => added = 0 \/ End(h, Max(c.parts)) = h.brk
<1>1. added \in Nat
  BY LackingFacts
<1> DEFINE A == added > 0 /\ Room(h, added) /\ End(h, Max(c.parts)) # h.brk
           B == \/ c.name \in {"c", "f"} /\ added % Align # 0
                \/ c.name = "c" /\ Room(h, added) /\ (h.brk + added) % Align # 0
           moved == Size(h, a) + (IF c.name = "b" THEN added ELSE 0)
           current == a + Links
           C == Min(c.parts) # a /\ Room(h, added) /\ Min(c.parts) + SOM + moved > current
<1>2. fault = IF A THEN "corrupt" ELSE IF B THEN "assert350" ELSE IF C THEN "clobbered" ELSE "none"
  BY DEF MoveFault
<1>3. A => ~ WildLast(h)
  BY <1>1, ExtendsLast
<1>4. B => ~ Even(h)
  BY EvenLacking
<1>5. C => Prevs(h, a) # {}
  <2>1. SUFFICES ASSUME Min(c.parts) # a PROVE Prevs(h, a) # {}
    OBVIOUS
  <2>2. PICK lo, hi : Around(h, a, X, Y, lo, hi) /\ Min(c.parts) = lo
    BY ChosenAround
  <2>3. X # {}
    BY <2>1, <2>2 DEF Around
  <2> QED
    BY <2>3 DEF Chosen
<1>6. ~ A => ~ Room(h, added) \/ added = 0 \/ End(h, Max(c.parts)) = h.brk
  BY <1>1
<1> HIDE DEF A, B, C
<1> QED
  BY <1>2, <1>3, <1>4, <1>5, <1>6 DEF Mishap

\* The heap g differs from h in counters at most.
Unmerged(h, g) ==
  /\ Good(g) /\ SameBlocks(h, g) /\ g.wilderness = h.wilderness /\ g.fault = h.fault
  /\ Proper(h) => Proper(g)

\* The bytes of a failed extension are counted, and counted as overcount.
LEMMA OvercountFacts ==
  ASSUME NEW h, Good(h), NEW added \in Nat, NEW c
  PROVE  Unmerged(h, Overcount(h, c, added))
<1> DEFINE f == UpdateStatistics(h, <<0, 0, added, 0, 0>>)
           g == [f EXCEPT !.overcount = @ + added]
<1>1. Sound(h) /\ Merged(h)
  BY DEF Good
<1>2. Unmerged(h, h)
  BY <1>1 DEF Unmerged, Good, SameBlocks
<1>3. Counting(h, f, 0, 0, added, 0, 0)
  <2>1. 0 \in Int /\ added \in Int
    OBVIOUS
  <2> QED
    BY <1>1, <2>1, CountingSound
<1> HIDE DEF f
<1>4. /\ Fields(g) /\ SameBlocks(f, g) /\ g.wilderness = f.wilderness /\ g.stats = f.stats
      /\ g.overcount = f.overcount + added /\ g.fault = f.fault
  <2>1. Fields(f)
    BY <1>3 DEF Counting, Sound
  <2> QED
    BY <2>1 DEF Fields, SameBlocks
<1> HIDE DEF g
<1>5. /\ SameBlocks(h, g) /\ g.wilderness = h.wilderness /\ g.fault = h.fault
      /\ g.overcount = h.overcount + added
      /\ g.stats = <<h.stats[1] + 0, h.stats[2] + 0, h.stats[3] + added, h.stats[4] + 0,
                     h.stats[5] + 0>>
      /\ Sound(f)
  BY <1>3, <1>4 DEF Counting, SameBlocks
<1>6. Sound(g)
  <2>1. Numbers(g)
    BY <1>4, <1>5 DEF Sound, Numbers
  <2> QED
    BY <1>4, <1>5, <2>1 DEF Sound, SameBlocks, BlocksOf, Anchored, Pointed
<1>7. ASSUME Proper(h) PROVE Proper(g)
  <2>1. /\ IsFiniteSet(Mappings(h))
        /\ h.stats = <<Cardinality(AllOf(h)), Cardinality(FreeOf(h)),
                       SizeSum(h.meta, AllOf(h)) + h.overcount,
                       SizeSum(h.meta, FreeOf(h)), 2 * SOM * Cardinality(AllOf(h))>>
    BY <1>7 DEF Proper, Books
  <2>2. /\ AllOf(g) = AllOf(h) /\ FreeOf(g) = FreeOf(h) /\ Mappings(g) = Mappings(h)
        /\ g.meta = h.meta
    BY <1>5 DEF SameBlocks, AllOf, FreeOf, Mappings, BlocksOf
  <2>3. SizeSum(h.meta, AllOf(h)) \in Nat /\ h.overcount \in Nat
    <3>1. IsFiniteSet(AllOf(h)) /\ (\A x \in AllOf(h) : h.meta[x].size \in Nat) /\ h.overcount \in Nat
      BY <1>1, <2>1, AllFacts
    <3> QED
      BY <3>1, SumType
  <2> DEFINE s == SizeSum(h.meta, AllOf(h))
             u == h.stats[3]
  <2>4. s + h.overcount + added = s + g.overcount
    <3> HIDE DEF s
    <3>1. s \in Nat
      BY <2>3 DEF s
    <3> QED
      BY <1>5, <2>3, <3>1
  <2>5. /\ h.stats[1] = Cardinality(AllOf(h)) /\ h.stats[2] = Cardinality(FreeOf(h))
        /\ u = s + h.overcount /\ h.stats[4] = SizeSum(h.meta, FreeOf(h))
        /\ h.stats[5] = 2 * SOM * Cardinality(AllOf(h))
    BY <2>1
  <2>6. /\ h.stats[1] \in Int /\ h.stats[2] \in Int /\ h.stats[4] \in Int /\ h.stats[5] \in Int
    BY <1>1 DEF Sound, Numbers, Counters
  <2> HIDE DEF s, u
  <2>7. /\ h.stats[1] + 0 = Cardinality(AllOf(h)) /\ h.stats[2] + 0 = Cardinality(FreeOf(h))
        /\ u + added = s + g.overcount /\ h.stats[4] + 0 = SizeSum(h.meta, FreeOf(h))
        /\ h.stats[5] + 0 = 2 * SOM * Cardinality(AllOf(h))
    BY <2>4, <2>5, <2>6
  <2>8. g.stats = <<Cardinality(AllOf(h)), Cardinality(FreeOf(h)), s + g.overcount,
                    SizeSum(h.meta, FreeOf(h)), 2 * SOM * Cardinality(AllOf(h))>>
    BY <1>5, <2>7 DEF u
  <2> QED
    BY <2>1, <2>2, <2>8 DEF Proper, Books, s
<1>8. Merged(g)
  BY <1>1, <1>5, SameMerits
<1>9. Unmerged(h, g)
  BY <1>5, <1>6, <1>7, <1>8 DEF Unmerged, Good
<1>10. Overcount(h, c, added) = h \/ Overcount(h, c, added) = g
  BY DEF Overcount, f, g
<1> QED
  BY <1>2, <1>9, <1>10

\* The payload of a has moved to lo, and has size bytes.
Grown(h, g, a, lo, size) ==
  /\ Good(g) /\ Keeps(h, g, {a}, {lo}) /\ lo \notin BusyOf(h) \ {a} /\ lo # NULL
  /\ lo \in BlocksOf(h)
  /\ size <= Size(g, lo) /\ g.start = h.start /\ g.fault = h.fault
  /\ Proper(h) => Proper(g)
  /\ WildLast(h) => WildLast(g) \/ (lo <= a /\ h.wilderness \in Nexts(h, a))
  /\ \A n \in Nat :
       size = AlignUp(n) /\ Size(h, a) < n /\ Even(h) =>
         \/ Size(g, lo) - n - 2 * SOM < 0
         \/ \E x \in BlocksOf(h) : Size(g, lo) - n - 2 * SOM < Size(h, x)

LEMMA GrownBooks ==
  ASSUME NEW h, Good(h), Proper(h), NEW a \in BlocksOf(h), ~ h.meta[a].is_free,
         NEW X, NEW Y, NEW lo, NEW hi, Around(h, a, X, Y, lo, hi), NEW P, P = {a} \cup X \cup Y,
         NEW added \in Nat, h.brk + added <= HeapEnd,
         NEW whole, whole = FusedSize(h.meta, lo, hi, 0), NEW k, k = Cardinality(P) - 1, NEW g,
         Growing(h, g, P, lo, hi, added, -k, -k, added + 2 * k * SOM,
                 -(whole - Size(h, a) - 2 * k * SOM), -(2 * k * SOM))
  PROVE  Proper(g)
<1>1. Sound(h)
  BY DEF Good
<1>2. PartsCounted(h, a, P, lo, hi, k)
  BY <1>1, PartsCount
<1> DEFINE Q == P \ {a}
           s == SizeSum(h.meta, P)
           t == SizeSum(h.meta, Q)
           z == Size(h, a)
           q == 2 * k * SOM
<1>3. Q = FreeOf(h) \cap P
  <2>1. X \subseteq BlocksOf(h) /\ Y \subseteq BlocksOf(h)
    BY DEF Around, Interval
  <2>2. \A x \in X \cup Y : h.meta[x].is_free
    BY DEF Around
  <2> QED
    BY <2>1, <2>2 DEF FreeOf
<1>4. /\ k \in Nat /\ Cardinality(P) = k + 1 /\ Cardinality(Q) = k /\ t \in Nat /\ z \in Nat
      /\ s = z + t /\ whole = s + q
  BY <1>2 DEF PartsCounted, Size
<1>5. q \in Nat /\ 2 * SOM * (k + 1) = q + 2 * SOM /\ SOM \in Nat
  BY <1>4, HeapAssumption
<1>6. FusedSize(h.meta, lo, hi, added) = whole + added
  <2>1. lo \in Nat /\ EndAt(h.meta, hi) \in Nat
    BY <1>1, SoundTiles, BlockNumbers DEF Around, Interval
  <2> QED
    BY <1>5, <2>1 DEF FusedSize
<1>7. /\ h.stats[1] \in Int /\ h.stats[2] \in Int /\ h.stats[3] \in Int /\ h.stats[4] \in Int
      /\ h.stats[5] \in Int
  BY <1>1 DEF Sound, Numbers, Counters
<1>8. Growing(h, g, P, lo, hi, added, -k, -k, added + q, -(whole - z - q), -q)
  OBVIOUS
<1> HIDE DEF Q, s, t, z, q
<1> DEFINE n == whole + added
<1>9. /\ h.stats[1] + -k = h.stats[1] - Cardinality(P) + 1
      /\ h.stats[2] + -k = h.stats[2] - Cardinality(Q) + 0
      /\ h.stats[3] + (added + q) = h.stats[3] - s + n
      /\ h.stats[4] + -(whole - z - q) = h.stats[4] - t + 0
      /\ h.stats[5] + -q = h.stats[5] - 2 * SOM * Cardinality(P) + 2 * SOM
  <2>1. h.stats[1] + -k = h.stats[1] - Cardinality(P) + 1
    BY <1>4, <1>7
  <2>2. h.stats[2] + -k = h.stats[2] - Cardinality(Q) + 0
    BY <1>4, <1>7
  <2>3. h.stats[3] + (added + q) = h.stats[3] - s + n
    <3> DEFINE v == h.stats[3]
    <3>1. v \in Int /\ s \in Nat /\ q \in Nat /\ n = s + q + added
      <4>1. v \in Int /\ q \in Nat
        BY <1>5, <1>7
      <4>2. s \in Nat
        BY <1>4
      <4>3. n = (s + q) + added
        BY <1>4
      <4> QED
        BY <4>1, <4>2, <4>3
    <3> HIDE DEF v, n
    <3>2. v + (added + q) = v - s + n
      BY <3>1
    <3> QED
      BY <3>2 DEF v
  <2>4. h.stats[4] + -(whole - z - q) = h.stats[4] - t + 0
    <3> DEFINE v == h.stats[4]
    <3>1. v \in Int /\ t \in Nat /\ whole - z - q = t
      BY <1>4, <1>5, <1>7
    <3> HIDE DEF v
    <3>2. v + -t = v - t + 0
      BY <3>1
    <3> QED
      BY <3>1, <3>2 DEF v
  <2>5. h.stats[5] + -q = h.stats[5] - 2 * SOM * Cardinality(P) + 2 * SOM
    <3>1. 2 * SOM * Cardinality(P) = q + 2 * SOM
      BY <1>4, <1>5
    <3> QED
      BY <1>5, <1>7, <3>1
  <2> QED
    BY <2>1, <2>2, <2>3, <2>4, <2>5
<1>10. n = FusedSize(h.meta, lo, hi, added)
  BY <1>6
<1> HIDE DEF n
<1> QED
  BY <1>3, <1>8, <1>9, <1>10, GrowBooks DEF s, t

\* The heap tryMergeRealloc leaves, its pointer to the wilderness apart.
Enlarged(h, a, P, whole, added, k) ==
  UpdateStatistics(Extend(Fuse(h, P, added, FALSE), added),
    <<-k, -k, added + 2 * k * SOM, -(whole - Size(h, a) - 2 * k * SOM), -(2 * k * SOM)>>)

\* The wilderness pointer it leaves: taken along, but for cases d and e.
Pointer(h, c, lo) ==
  IF c.name \in {"b", "c", "f"} /\ h.wilderness \in c.parts THEN lo ELSE h.wilderness

\* Case c of tryMergeRealloc made the blocks from lo to hi one, which left g.
Followed(h, g, a, size, c, X, Y, lo, hi, added, flag) ==
  /\ Sound(h) /\ WildLast(h) /\ a \in BlocksOf(h) /\ added \in Nat /\ flag \in BOOLEAN
  /\ Chosen(h, a, size, c, X, Y) /\ Around(h, a, X, Y, lo, hi)
  /\ Fusion(h, g, c.parts, lo, hi, added, flag) /\ g.wilderness = Pointer(h, c, lo)

LEMMA GrownLast ==
  ASSUME NEW h, NEW g, NEW a, NEW size, NEW c, NEW X, NEW Y, NEW lo, NEW hi, NEW added,
         NEW flag, Followed(h, g, a, size, c, X, Y, lo, hi, added, flag)
  PROVE  WildLast(g) \/ (lo <= a /\ h.wilderness \in Nexts(h, a))
<1> DEFINE P == c.parts
<1>0. /\ Sound(h) /\ WildLast(h) /\ a \in BlocksOf(h) /\ added \in Nat /\ flag \in BOOLEAN
      /\ Chosen(h, a, size, c, X, Y) /\ Around(h, a, X, Y, lo, hi)
      /\ Fusion(h, g, c.parts, lo, hi, added, flag) /\ g.wilderness = Pointer(h, c, lo)
  BY DEF Followed
<1>1. P = {a} \cup X \cup Y
  BY <1>0 DEF Chosen
<1>2. g.wilderness = IF c.name \in {"b", "c", "f"} /\ h.wilderness \in P THEN lo
                     ELSE h.wilderness
  BY <1>0 DEF Pointer
<1>3. /\ h.wilderness \in P => h.wilderness = hi
      /\ (IF h.wilderness = hi THEN g.wilderness = lo ELSE g.wilderness = h.wilderness) => WildLast(g)
  BY <1>0, FusionLast
<1>4. lo \in P /\ hi \in P /\ lo <= a
  BY <1>0, <1>1 DEF Around, Interval
<1>5. CASE h.wilderness \notin P \/ c.name \in {"b", "c", "f"}
  BY <1>2, <1>3, <1>4, <1>5
<1>6. CASE h.wilderness \in P /\ c.name \notin {"b", "c", "f"}
  <2>1. c.name = "d" \/ c.name = "e"
    BY <1>0, <1>6 DEF Chosen
  <2>2. Y # {} /\ Y = Nexts(h, a)
    BY <1>0, <2>1 DEF Chosen
  <2>3. Y = {hi} /\ h.wilderness = hi
    BY <1>0, <1>3, <1>6, <2>2 DEF Around
  <2> QED
    BY <1>4, <2>2, <2>3
<1> QED
  BY <1>5, <1>6

LEMMA MergeGrows ==
  ASSUME NEW h, Good(h), h.fault = "none", NEW a \in BlocksOf(h), ~ h.meta[a].is_free,
         ~ Foreign(h, a), NEW size \in Nat,
         NEW c, NEW X, NEW Y, Chosen(h, a, size, c, X, Y), NEW P, P = c.parts,
         NEW whole, whole = Joined(h, P), NEW added, added = Lacking(h, P, size),
         Room(h, added), added = 0 \/ End(h, Max(P)) = h.brk, NEW k, k = Cardinality(P) - 1,
         NEW f, f = Enlarged(h, a, P, whole, added, k),
         NEW w,
         w = IF c.name \in {"b", "c", "f"} /\ h.wilderness \in P THEN Min(P) ELSE f.wilderness,
         NEW g, g = [f EXCEPT !.wilderness = w]
  PROVE  Grown(h, g, a, Min(P), size)
<1>0. Sound(h)
  BY DEF Good
<1>1. /\ Sound(h) /\ Merged(h) /\ P = {a} \cup X \cup Y /\ added \in Nat /\ whole \in Nat
      /\ size <= whole + added /\ h.brk + added <= HeapEnd
  BY LackingFacts DEF Good, Chosen, Room
<1>2. PICK lo, hi :
        /\ Around(h, a, X, Y, lo, hi) /\ Interval(BlocksOf(h), P, lo, hi)
        /\ Min(P) = lo /\ Max(P) = hi /\ lo \in BlocksOf(h) /\ hi \in BlocksOf(h)
        /\ whole = FusedSize(h.meta, lo, hi, 0) /\ End(h, hi) = EndAt(h.meta, hi)
  <2>1. PICK lo, hi :
          /\ Around(h, a, X, Y, lo, hi) /\ Interval(BlocksOf(h), c.parts, lo, hi)
          /\ Min(c.parts) = lo /\ Max(c.parts) = hi /\ lo \in BlocksOf(h) /\ hi \in BlocksOf(h)
          /\ Joined(h, c.parts) = FusedSize(h.meta, lo, hi, 0) /\ End(h, hi) = EndAt(h.meta, hi)
    BY <1>0, ChosenAround
  <2> QED
    BY <2>1
<1>3. PartsCounted(h, a, P, lo, hi, k)
  BY <1>1, <1>2, PartsCount
<1> DEFINE q == 2 * k * SOM
<1>4. k \in Nat /\ q \in Nat /\ SOM \in Nat
  <2>1. k \in Nat /\ SOM \in Nat
    BY <1>3, HeapAssumption DEF PartsCounted
  <2> QED
    BY <2>1
<1>5. Size(h, a) \in Nat /\ lo \in Nat /\ lo # NULL /\ a \in Nat /\ EndAt(h.meta, hi) \in Nat
  BY <1>1, <1>2, SoundTiles, BlockNumbers DEF Size, NULL
<1> DEFINE d3 == added + q
           d4 == -(whole - Size(h, a) - q)
           d5 == -q
           d1 == -k
<1>6. Growing(h, f, P, lo, hi, added, d1, d1, d3, d4, d5)
  <2>1. d1 \in Int /\ d3 \in Int /\ d4 \in Int /\ d5 \in Int
    <3> HIDE DEF q
    <3> QED
      BY <1>1, <1>4, <1>5
  <2>2. f = UpdateStatistics(Extend(Fuse(h, P, added, FALSE), added), <<d1, d1, d3, d4, d5>>)
    BY DEF Enlarged
  <2>3. added = 0 \/ EndAt(h.meta, hi) = h.brk
    BY <1>2
  <2> HIDE DEF d1, d3, d4, d5
  <2> QED
    <3> DEFINE e == UpdateStatistics(Extend(Fuse(h, P, added, FALSE), added), <<d1, d1, d3, d4, d5>>)
    <3>1. /\ Interval(BlocksOf(h), P, lo, hi) /\ added \in Nat /\ h.brk + added <= HeapEnd
          /\ f = e
      BY <1>1, <1>2, <2>2
    <3>2. Growing(h, e, P, lo, hi, added, d1, d1, d3, d4, d5)
      BY <2>1, <2>3, <3>1, GrowFacts
    <3> HIDE DEF e
    <3> QED
      BY <3>1, <3>2
<1>7. Proper(h) => Proper(f)
  <2>1. Growing(h, f, P, lo, hi, added, -k, -k, added + 2 * k * SOM,
                -(whole - Size(h, a) - 2 * k * SOM), -(2 * k * SOM))
    BY <1>6
  <2> QED
    BY <1>1, <1>2, <2>1, GrownBooks
<1> HIDE DEF d1, d3, d4, d5
<1>8. /\ Good(f) /\ Fusion(h, f, P, lo, hi, added, FALSE) /\ FusedBusy(h, f, P, lo, FALSE)
      /\ f.meta[lo].size = FusedSize(h.meta, lo, hi, added) /\ f.wilderness = h.wilderness
      /\ f.fault = h.fault
  BY <1>6 DEF Growing
<1>9. w \in Nat /\ (BlocksOf(f) = {} => w = NULL)
  <2>1. h.wilderness \in Nat
    BY <1>1 DEF Sound, Pointed
  <2>2. lo \in BlocksOf(f)
    BY <1>8 DEF Fusion
  <2> QED
    BY <1>2, <1>5, <1>8, <2>1, <2>2
<1>10. Repointed(f, g, w)
  <2>1. Sound(f)
    BY <1>8 DEF Good
  <2> QED
    BY <1>9, <2>1, Repoint
<1>11. /\ Sound(g) /\ BusyOf(g) = BusyOf(f) /\ g.meta = f.meta /\ g.start = f.start
       /\ g.wilderness = w /\ g.fault = f.fault
       /\ Merged(f) => Merged(g)
       /\ FreeOf(g) = FreeOf(f)
  BY <1>10, RepointMerits
<1>12. Proper(h) => Proper(g)
  <2>1. Books(f, FreeOf(f)) => Books(g, FreeOf(f))
    BY <1>10, RepointMerits
  <2> QED
    BY <1>7, <1>11, <2>1 DEF Proper
<1>13. Fusion(h, g, P, lo, hi, added, FALSE)
  <2>1. SameBlocks(f, g)
    BY <1>10 DEF Repointed
  <2> QED
    BY <1>8, <1>11, <2>1, FusionAs
<1>14. g.start = h.start
  BY <1>13 DEF Fusion
<1>15. WildLast(h) => WildLast(g) \/ (lo <= a /\ h.wilderness \in Nexts(h, a))
  <2> SUFFICES ASSUME WildLast(h) PROVE WildLast(g) \/ (lo <= a /\ h.wilderness \in Nexts(h, a))
    OBVIOUS
  <2>1. g.wilderness = Pointer(h, c, lo)
    BY <1>2, <1>8, <1>11 DEF Pointer
  <2> DEFINE flag == FALSE
  <2>2. flag \in BOOLEAN /\ Fusion(h, g, P, lo, hi, added, flag)
    BY <1>13
  <2> HIDE DEF flag
  <2> QED
    <3>1. Followed(h, g, a, size, c, X, Y, lo, hi, added, flag)
      BY <1>1, <1>2, <2>1, <2>2 DEF Followed
    <3> QED
      BY <3>1, GrownLast
<1>16. Size(g, lo) = whole + added
  <2>1. FusedSize(h.meta, lo, hi, added) = whole + added
    BY <1>1, <1>2, <1>4, <1>5 DEF FusedSize
  <2> QED
    BY <1>8, <1>11, <2>1 DEF Size
<1>17. BusyOf(h) \cap P = {a}
  <2>1. a \in BusyOf(h)
    BY DEF BusyOf, BusyIn
  <2>2. ASSUME NEW x \in X \cup Y PROVE x \notin BusyOf(h)
    <3>1. x \in BlocksOf(h) /\ h.meta[x].is_free
      BY <1>1, <1>2, <2>2 DEF Around, Interval
    <3>2. x \notin MapAddrs
      BY <1>1, <3>1, SoundTiles, OwnAddresses
    <3> QED
      BY <3>1, <3>2 DEF BusyOf, BusyIn
  <2> QED
    BY <1>1, <2>1, <2>2
<1>18. Keeps(h, g, {a}, {lo})
  <2>1. BusyOf(f) = (BusyOf(h) \ P) \cup {lo} /\ \A x \in BusyOf(h) \ P : f.meta[x] = h.meta[x]
    BY <1>8 DEF FusedBusy
  <2>2. BusyOf(h) \ P = BusyOf(h) \ {a}
    BY <1>17
  <2> QED
    BY <1>11, <2>1, <2>2 DEF Keeps
<1>19. lo \notin BusyOf(h) \ {a}
  BY <1>2, <1>17 DEF Interval
<1>20. ASSUME NEW n \in Nat, size = AlignUp(n), Size(h, a) < n, Even(h)
       PROVE  \/ Size(g, lo) - n - 2 * SOM < 0
              \/ \E x \in BlocksOf(h) : Size(g, lo) - n - 2 * SOM < Size(h, x)
  <2>1. added = IF size > whole THEN size - whole ELSE 0
    BY DEF Lacking
  <2>2. whole = Joined(h, c.parts)
    OBVIOUS
  <2>3. \/ (whole + added) - n - 2 * SOM < 0
        \/ \E x \in BlocksOf(h) : (whole + added) - n - 2 * SOM < Size(h, x)
    BY <1>1, <1>20, <2>1, <2>2, LeftOver
  <2> QED
    BY <1>16, <2>3
<1>21. size <= Size(g, lo)
  BY <1>1, <1>16
<1>22. Good(g) /\ g.fault = h.fault
  BY <1>8, <1>11 DEF Good
<1>23. Grown(h, g, a, lo, size)
  BY <1>2, <1>5, <1>12, <1>14, <1>15, <1>18, <1>19, <1>20, <1>21, <1>22 DEF Grown
<1> QED
  BY <1>2, <1>23

\* Block a and its free neighbours together do not serve a request for size bytes,
\* or leave less than one of the neighbours.
Unfit(h, a, size) ==
  LET all == Joined(h, {a} \cup Prevs(h, a) \cup Nexts(h, a))
  IN  all < size \/ \E x \in BlocksOf(h) : all - size - 2 * SOM < Size(h, x)

LEMMA Unfits ==
  ASSUME NEW h, Sound(h), NEW a \in BlocksOf(h), ~ Foreign(h, a), NEW size \in Nat,
         NEW Y, Y = {} \/ Y = Nexts(h, a), ~ size <= Joined(h, {a} \cup Prevs(h, a) \cup Y)
  PROVE  Unfit(h, a, size)
<1> DEFINE X == Prevs(h, a)
           Z == Nexts(h, a)
           P == {a} \cup X \cup Y
           Q == {a} \cup X \cup Z
<1>1. PICK lo, hi : Around(h, a, X, Y, lo, hi)
  BY Neighbourhood
<1>2. PICK l, k : Around(h, a, X, Z, l, k)
  BY Neighbourhood
<1>3. Interval(BlocksOf(h), P, lo, hi) /\ Interval(BlocksOf(h), Q, l, k)
  BY <1>1, <1>2 DEF Around
<1>4. lo = l /\ lo \in BlocksOf(h) /\ hi \in BlocksOf(h) /\ k \in BlocksOf(h)
  <2>1. lo \in BlocksOf(h) /\ hi \in BlocksOf(h) /\ k \in BlocksOf(h)
    BY <1>3 DEF Interval
  <2>2. IF X = {} THEN lo = a /\ l = a ELSE X = {lo} /\ X = {l}
    BY <1>1, <1>2 DEF Around
  <2>3. lo = l
    <3> HIDE DEF X
    <3> QED
      BY <2>2
  <2> QED
    BY <2>1, <2>3
<1>5. /\ Y = {} => hi = a
      /\ Z # {} => EndAt(h.meta, a) = k
  BY <1>1, <1>2 DEF Around
<1> HIDE DEF P, Q
<1>6. Joined(h, P) = FusedSize(h.meta, lo, hi, 0) /\ Joined(h, Q) = FusedSize(h.meta, l, k, 0)
  BY <1>3, PartsEnds
<1>7. /\ SOM \in Nat /\ a \in Nat /\ lo \in Nat /\ hi \in Nat /\ k \in Nat
      /\ h.meta[k].size \in Nat /\ EndAt(h.meta, hi) \in Nat /\ EndAt(h.meta, a) \in Nat
      /\ EndAt(h.meta, k) = k + SOM + h.meta[k].size + SOM
  BY <1>4, SoundTiles, BlockNumbers
<1>8. ~ size <= Joined(h, P)
  BY DEF P
<1>9. CASE Y = Z
  <2>1. Joined(h, Q) \in Int
    BY <1>4, <1>6, <1>7 DEF FusedSize
  <2>2. P = Q
    BY <1>9 DEF P, Q
  <2>3. Joined(h, Q) < size
    BY <1>8, <2>1, <2>2
  <2> QED
    BY <2>3 DEF Unfit, Q
<1>10. CASE Y = {} /\ Z # {}
  <2> DEFINE u == h.meta[k].size
             e == EndAt(h.meta, a)
             j == Joined(h, P)
             q == Joined(h, Q)
  <2>1. hi = a /\ k = e
    BY <1>5, <1>10
  <2>2. j = (e - lo) - 2 * SOM /\ q = (EndAt(h.meta, k) - lo) - 2 * SOM
    BY <1>4, <1>6, <1>7, <2>1 DEF FusedSize
  <2>3. /\ e \in Nat /\ u \in Nat /\ EndAt(h.meta, k) = k + SOM + u + SOM
        /\ ~ size <= j
    BY <1>7, <1>8
  <2> HIDE DEF u, e, j, q
  <2>4. q = j + u + 2 * SOM /\ j \in Int
    BY <1>7, <2>1, <2>2, <2>3
  <2>5. q - size - 2 * SOM < u
    BY <1>7, <2>3, <2>4
  <2>6. \E x \in BlocksOf(h) : q - size - 2 * SOM < Size(h, x)
    BY <1>4, <2>5 DEF u, Size
  <2> QED
    BY <2>6 DEF Unfit, q, Q
<1> QED
  BY <1>9, <1>10

\* Where tryMergeRealloc makes nothing of the neighbours, they do not serve.
LEMMA CaseUnfit ==
  ASSUME NEW h, Sound(h), NEW a \in BlocksOf(h), ~ Foreign(h, a), NEW size \in Nat,
         NEW c, NEW X, NEW Y, Chosen(h, a, size, c, X, Y), Lacking(h, c.parts, size) # 0
  PROVE  Unfit(h, a, size)
<1>1. ~ size <= Joined(h, c.parts)
  BY LackingFacts
<1>2. X = Prevs(h, a) /\ (Y = {} \/ Y = Nexts(h, a)) /\ c.parts = {a} \cup X \cup Y
  BY <1>1 DEF Chosen
<1> QED
  BY <1>1, <1>2, Unfits

LEMMA NoCaseUnfit ==
  ASSUME NEW h, Sound(h), NEW a \in BlocksOf(h), ~ Foreign(h, a), NEW size \in Nat,
         Size(h, a) < size, 0 = SelectInSeq(Cases(h, a, size), LAMBDA c : c.when)
  PROVE  Unfit(h, a, size)
<1>1. /\ Prevs(h, a) # {} => ~ size <= Joined(h, {a} \cup Prevs(h, a))
      /\ Nexts(h, a) # {} => ~ size <= Joined(h, {a} \cup Nexts(h, a))
  BY NoCase
<1>2. CASE Prevs(h, a) # {}
  <2>1. {a} \cup Prevs(h, a) \cup {} = {a} \cup Prevs(h, a)
    OBVIOUS
  <2> QED
    BY <1>1, <1>2, <2>1, Unfits
<1>3. CASE Prevs(h, a) = {} /\ Nexts(h, a) # {}
  <2>1. {a} \cup Prevs(h, a) \cup Nexts(h, a) = {a} \cup Nexts(h, a)
    BY <1>3
  <2> QED
    BY <1>1, <1>3, <2>1, Unfits
<1>4. CASE Prevs(h, a) = {} /\ Nexts(h, a) = {}
  <2>1. PICK lo, hi : Around(h, a, {}, {}, lo, hi)
    BY Neighbourhood
  <2> DEFINE P == {a} \cup {} \cup {}
  <2>2. Interval(BlocksOf(h), P, a, a)
    BY <2>1 DEF Around
  <2> HIDE DEF P
  <2>3. Joined(h, P) = FusedSize(h.meta, a, a, 0)
    BY <2>2, PartsEnds
  <2>4. Joined(h, P) = Size(h, a)
    <3>1. /\ SOM \in Nat /\ a \in Nat /\ h.meta[a].size \in Nat
          /\ EndAt(h.meta, a) = a + SOM + h.meta[a].size + SOM
      BY SoundTiles, BlockNumbers
    <3> QED
      BY <2>3, <3>1 DEF FusedSize, Size
  <2>5. {a} \cup Prevs(h, a) \cup Nexts(h, a) = P
    BY <1>4 DEF P
  <2> QED
    BY <2>4, <2>5 DEF Unfit
<1> QED
  BY <1>2, <1>3, <1>4

\* How tryMergeRealloc for block a and size bytes ends.
TriedMerge(h, r, a, size) ==
  /\ Sound(r.heap)
  /\ r.heap.fault = "none" /\ r.block = NULL =>
       Unmerged(h, r.heap) /\ Unfit(h, a, size) /\ ~ Foreign(h, a)
  /\ r.heap.fault = "none" /\ r.block # NULL => Grown(h, r.heap, a, r.block, size)
  /\ r.heap.fault # "none" =>
       \/ r.heap.fault = "foreign" /\ h.start \notin AlignedBreaks
       \/ Mishap(h, a, r.heap.fault)

LEMMA TryEnds ==
  ASSUME NEW h, NEW a, NEW size, NEW i,
         i = SelectInSeq(Cases(h, a, size), LAMBDA c : c.when), NEW c,
         c = Cases(h, a, size)[i], NEW added, added = Lacking(h, c.parts, size), NEW fault,
         fault = MoveFault(h, a, c, added), NEW f,
         f = Enlarged(h, a, c.parts, Joined(h, c.parts), added, Cardinality(c.parts) - 1),
         NEW w,
         w = IF c.name \in {"b", "c", "f"} /\ h.wilderness \in c.parts THEN Min(c.parts)
             ELSE f.wilderness
  PROVE  TryMergeRealloc(h, a, size) =
           IF Foreign(h, a) THEN Return(Fail(h, "foreign"), NULL)
           ELSE IF i = 0 THEN Return(h, NULL)
           ELSE IF fault # "none" THEN Return(Fail(h, fault), NULL)
           ELSE IF ~ Room(h, added) THEN Return(Overcount(h, c, added), NULL)
           ELSE Return([f EXCEPT !.wilderness = w], Min(c.parts))
BY SMTT(60) DEF TryMergeRealloc, Lacking, Enlarged

\* A failed attempt.
LEMMA TryFails ==
  ASSUME NEW h, Good(h), h.fault = "none", NEW a, NEW size, NEW what, what # "none",
         (what = "foreign" /\ h.start \notin AlignedBreaks) \/ Mishap(h, a, what)
  PROVE  TriedMerge(h, Return(Fail(h, what), NULL), a, size)
<1> DEFINE g == Fail(h, what)
           r == Return(g, NULL)
<1>1. Failed(h, g, what)
  BY Failing DEF Good
<1>2. r.heap = g
  BY DEF Return
<1> HIDE DEF g, r
<1>3. TriedMerge(h, r, a, size)
  BY <1>1, <1>2 DEF TriedMerge, Failed
<1> QED
  BY <1>3 DEF g, r

\* tryMergeRealloc of a busy block.
LEMMA MergeTries ==
  ASSUME NEW h, Good(h), h.fault = "none", NEW a \in BlocksOf(h), ~ h.meta[a].is_free,
         NEW size \in Nat, size % Align = 0, Size(h, a) < size
  PROVE  TriedMerge(h, TryMergeRealloc(h, a, size), a, size)
<1> DEFINE i == SelectInSeq(Cases(h, a, size), LAMBDA c : c.when)
           c == Cases(h, a, size)[i]
           added == Lacking(h, c.parts, size)
           fault == MoveFault(h, a, c, added)
           whole == Joined(h, c.parts)
           k == Cardinality(c.parts) - 1
           f == Enlarged(h, a, c.parts, whole, added, k)
           w == IF c.name \in {"b", "c", "f"} /\ h.wilderness \in c.parts THEN Min(c.parts)
                ELSE f.wilderness
           r == TryMergeRealloc(h, a, size)
<1>1. r = IF Foreign(h, a) THEN Return(Fail(h, "foreign"), NULL)
          ELSE IF i = 0 THEN Return(h, NULL)
          ELSE IF fault # "none" THEN Return(Fail(h, fault), NULL)
          ELSE IF ~ Room(h, added) THEN Return(Overcount(h, c, added), NULL)
          ELSE Return([f EXCEPT !.wilderness = w], Min(c.parts))
  BY TryEnds, SMTT(60)
<1>2. i # 0 => \E X, Y : Chosen(h, a, size, c, X, Y)
  BY CaseChosen
<1>3. Sound(h)
  BY DEF Good
<1> HIDE DEF i, c, r
<1>4. CASE Foreign(h, a)
  <2>1. h.start \notin AlignedBreaks
    BY <1>3, <1>4, ForeignCause
  <2>2. TriedMerge(h, Return(Fail(h, "foreign"), NULL), a, size)
    BY <2>1, TryFails
  <2> QED
    BY <1>1, <1>4, <2>2 DEF r
<1>5. CASE ~ Foreign(h, a) /\ i = 0
  <2>1. r = Return(h, NULL)
    BY <1>1, <1>5
  <2>2. r.heap = h /\ r.block = NULL
    BY <2>1 DEF Return
  <2>3. Unfit(h, a, size)
    BY <1>3, <1>5, NoCaseUnfit DEF i
  <2>4. TriedMerge(h, r, a, size)
    BY <1>3, <1>5, <2>2, <2>3 DEF TriedMerge, Unmerged, SameBlocks
  <2> QED
    BY <2>4 DEF r
<1>6. CASE ~ Foreign(h, a) /\ i # 0
  <2>1. PICK X, Y : Chosen(h, a, size, c, X, Y)
    BY <1>2, <1>6
  <2>2. /\ fault # "none" => Mishap(h, a, fault)
        /\ fault = "none" /\ Room(h, added) => added = 0 \/ End(h, Max(c.parts)) = h.brk
    BY <1>3, <1>6, <2>1, MoveFaults
  <2>3. added \in Nat
    BY <1>3, <1>6, <2>1, LackingFacts
  <2>4. r = IF fault # "none" THEN Return(Fail(h, fault), NULL)
            ELSE IF ~ Room(h, added) THEN Return(Overcount(h, c, added), NULL)
            ELSE Return([f EXCEPT !.wilderness = w], Min(c.parts))
    BY <1>1, <1>6
  <2> HIDE DEF fault
  <2>5. CASE fault # "none"
    <3>1. TriedMerge(h, Return(Fail(h, fault), NULL), a, size)
      BY <2>2, <2>5, TryFails
    <3> QED
      BY <2>4, <2>5, <3>1 DEF r
  <2>6. CASE fault = "none" /\ ~ Room(h, added)
    <3> DEFINE g == Overcount(h, c, added)
    <3>1. Unmerged(h, g)
      BY <2>3, OvercountFacts
    <3>2. r = Return(g, NULL)
      BY <2>4, <2>6
    <3> HIDE DEF g
    <3>3. r.heap = g /\ r.block = NULL
      BY <3>2 DEF Return
    <3>4. added # 0
      <4>1. h.brk <= HeapEnd /\ h.brk \in Nat
        BY <1>3, SoundTiles, BlockNumbers
      <4> QED
        BY <2>6, <4>1 DEF Room
    <3>5. Unfit(h, a, size)
      BY <1>3, <1>6, <2>1, <3>4, CaseUnfit
    <3>6. TriedMerge(h, r, a, size)
      BY <1>6, <3>1, <3>3, <3>5 DEF TriedMerge, Unmerged, Good
    <3> QED
      BY <3>6 DEF r
  <2>7. CASE fault = "none" /\ Room(h, added)
    <3> DEFINE g == [f EXCEPT !.wilderness = w]
               lo == Min(c.parts)
    <3>1. Grown(h, g, a, lo, size)
      BY <1>6, <2>1, <2>2, <2>7, MergeGrows
    <3>2. r = Return(g, lo)
      BY <2>4, <2>7
    <3> HIDE DEF g, lo
    <3>3. r.heap = g /\ r.block = lo
      BY <3>2 DEF Return
    <3>4. TriedMerge(h, r, a, size)
      BY <3>1, <3>3 DEF TriedMerge, Grown, Good
    <3> QED
      BY <3>4 DEF r
  <2> QED
    BY <2>5, <2>6, <2>7
<1> QED
  BY <1>4, <1>5, <1>6

\* Marking a block as free changes neither the sizes nor its neighbours.
LEMMA MarkedNeighbours ==
  ASSUME NEW h, Sound(h), NEW a \in BlocksOf(h), ~ Foreign(h, a), NEW h1, MarkedAs(h, h1, a),
         ~ Foreign(h1, a)
  PROVE  /\ Prevs(h1, a) = Prevs(h, a) /\ Nexts(h1, a) = Nexts(h, a)
         /\ \A x \in BlocksOf(h) : /\ EndAt(h1.meta, x) = EndAt(h.meta, x)
                                   /\ h1.meta[x].size = h.meta[x].size
<1>1. /\ BlocksOf(h1) = BlocksOf(h) /\ Sound(h1) /\ SameSizes(h.meta, h1.meta, AllOf(h))
      /\ \A x \in BlocksOf(h) : x # a => h1.meta[x] = h.meta[x]
  BY MarkedShape DEF MarkedAs
<1>2. \A x \in BlocksOf(h) : h1.meta[x].size = h.meta[x].size
  BY <1>1 DEF SameSizes, AllOf
<1>3. \A x \in BlocksOf(h) : EndAt(h1.meta, x) = EndAt(h.meta, x)
  BY <1>2 DEF EndAt, FootAt
<1>4. EndAt(h.meta, a) # a
  BY SoundTiles, BlockNumbers
<1>5. /\ Prevs(h, a) = {p \in BlocksOf(h) : EndAt(h.meta, p) = a /\ h.meta[p].is_free}
      /\ Nexts(h, a) = {b \in BlocksOf(h) : b = EndAt(h.meta, a) /\ h.meta[b].is_free}
  BY Neighbours
<1>6. /\ Prevs(h1, a) = {p \in BlocksOf(h) : EndAt(h1.meta, p) = a /\ h1.meta[p].is_free}
      /\ Nexts(h1, a) = {b \in BlocksOf(h) : b = EndAt(h1.meta, a) /\ h1.meta[b].is_free}
  <2>1. a \in BlocksOf(h1)
    BY <1>1
  <2>2. /\ Prevs(h1, a) = {p \in BlocksOf(h1) : EndAt(h1.meta, p) = a /\ h1.meta[p].is_free}
        /\ Nexts(h1, a) = {b \in BlocksOf(h1) : b = EndAt(h1.meta, a) /\ h1.meta[b].is_free}
    BY <1>1, <2>1, Neighbours
  <2> QED
    BY <1>1, <2>2
<1>7. Prevs(h1, a) = Prevs(h, a)
  <2>1. \A p \in BlocksOf(h) :
          EndAt(h1.meta, p) = a /\ h1.meta[p].is_free <=> EndAt(h.meta, p) = a /\ h.meta[p].is_free
    BY <1>1, <1>3, <1>4
  <2> QED
    BY <1>5, <1>6, <2>1
<1>8. Nexts(h1, a) = Nexts(h, a)
  <2>1. \A b \in BlocksOf(h) :
          b = EndAt(h1.meta, a) /\ h1.meta[b].is_free <=> b = EndAt(h.meta, a) /\ h.meta[b].is_free
    BY <1>1, <1>3, <1>4
  <2> QED
    BY <1>5, <1>6, <2>1
<1> QED
  BY <1>2, <1>3, <1>7, <1>8

\* A free block after sfree of a is as it was, or what a and its neighbours make.
LEMMA FreedSize ==
  ASSUME NEW h, Sound(h), NEW a \in BlocksOf(h), ~ Foreign(h, a), NEW h1, NEW g, NEW lo, NEW hi,
         ~ Foreign(h1, a), Freed(h, h1, g, a, lo, hi), NEW b \in BlocksOf(g)
  PROVE  \/ b \in BlocksOf(h) /\ Size(g, b) = Size(h, b)
         \/ Size(g, b) = Joined(h, {a} \cup Prevs(h, a) \cup Nexts(h, a))
<1> DEFINE P == {a} \cup Prevs(h, a) \cup Nexts(h, a)
<1>1. MarkedAs(h, h1, a) /\ Sound(h1) /\ Merging(h1, g, a, lo, hi) /\ BlocksOf(h1) = BlocksOf(h)
  BY DEF Freed, MarkedAs
<1>2. /\ Prevs(h1, a) = Prevs(h, a) /\ Nexts(h1, a) = Nexts(h, a)
      /\ \A x \in BlocksOf(h) : /\ EndAt(h1.meta, x) = EndAt(h.meta, x)
                                /\ h1.meta[x].size = h.meta[x].size
  BY <1>1, MarkedNeighbours
<1>3. Fusion(h1, g, P, lo, hi, 0, TRUE)
  BY <1>1, <1>2 DEF Merging
<1> HIDE DEF P
<1>4. Interval(BlocksOf(h), P, lo, hi) /\ BlocksOf(g) = (BlocksOf(h) \ P) \cup {lo}
  BY <1>1, <1>3 DEF Fusion
<1> DEFINE flag == TRUE
<1>5. flag \in BOOLEAN /\ 0 \in Nat /\ Fusion(h1, g, P, lo, hi, 0, flag) /\ h1.brk + 0 <= HeapEnd
  <2>1. Tiles(BlocksOf(h1), h1.meta, h1.brk) /\ a \in BlocksOf(h1)
    BY <1>1, SoundTiles
  <2>2. h1.brk \in Nat /\ h1.brk <= HeapEnd
    BY <2>1, BlockNumbers
  <2>3. h1.brk + 0 <= HeapEnd
    BY <2>2
  <2>4. Fusion(h1, g, P, lo, hi, 0, flag)
    BY <1>3
  <2>5. flag \in BOOLEAN
    OBVIOUS
  <2> HIDE DEF flag
  <2> QED
    BY <2>3, <2>4, <2>5
<1> HIDE DEF flag
<1>6. CASE b # lo
  <2>1. b \in BlocksOf(h) \ P
    BY <1>4, <1>6
  <2>2. RestSame(BlocksOf(h1), h1.meta, P, g.meta)
    BY <1>1, <1>5, FusionTiles
  <2>3. g.meta[b].size = h1.meta[b].size
    BY <1>1, <2>1, <2>2 DEF RestSame
  <2> QED
    BY <1>2, <2>1, <2>3 DEF Size
<1>7. CASE b = lo
  <2>1. Whole(h1.meta, g.meta, lo, hi, 0, flag)
    BY <1>1, <1>5, FusionShape
  <2>2. g.meta[lo].size = FusedSize(h1.meta, lo, hi, 0)
    BY <2>1 DEF Whole
  <2>3. Joined(h, P) = FusedSize(h.meta, lo, hi, 0)
    BY <1>4, PartsEnds
  <2>4. FusedSize(h1.meta, lo, hi, 0) = FusedSize(h.meta, lo, hi, 0)
    BY <1>2, <1>4 DEF FusedSize, Interval
  <2> QED
    BY <1>7, <2>2, <2>3, <2>4 DEF Size, P
<1> QED
  BY <1>6, <1>7
-----------------------------------------------------------------------------
(* srealloc.                                                               *)

\* What may go wrong in srealloc of the payload of a.
Accused(h, a, fault) ==
  \/ fault = "foreign" /\ h.start \notin AlignedBreaks
  \/ /\ fault = "munmap"
     /\ \E x \in BlocksOf(h) : Size(h, x) >= MMAP_THRESHOLD \/ Size(h, x) % Align # 0
  \/ fault = "unlisted" /\ a \in Mappings(h)
  \/ fault \in {"corrupt", "assert455"} /\ ~ WildLast(h)
  \/ fault = "assert350" /\ ~ Even(h)
  \/ fault = "clobbered" /\ a \in BlocksOf(h) /\ Prevs(h, a) # {}
  \/ fault = "null" /\ (~ Room(h, MMAP_THRESHOLD + 2 * SOM) \/ MapAddrs \subseteq Mappings(h))

\* The payload of a, of n bytes at least, is now that of x.
Replaced(h, g, a, x, n) ==
  /\ Good(g) /\ Keeps(h, g, {a}, {x}) /\ x \notin BusyOf(h) \ {a} /\ n <= Size(g, x)
  /\ Proper(h) => Proper(g)
  /\ WildLast(h) =>
       WildLast(g) \/ (x <= a /\ Size(h, a) < n /\ h.wilderness \in Nexts(h, a))

\* How srealloc of the payload of a to n bytes ends.
Reallocated(h, r, a, n) ==
  /\ Sound(r.heap)
  /\ r.heap.fault = "none" =>
       IF r.block = NULL THEN r.heap = h ELSE Replaced(h, r.heap, a, r.block, n)
  /\ r.heap.fault # "none" => Accused(h, a, r.heap.fault)

\* srealloc that ends with a fault.
LEMMA Accuses ==
  ASSUME NEW h, NEW r, Sound(r.heap), r.heap.fault # "none", NEW a, NEW n,
         Accused(h, a, r.heap.fault)
  PROVE  Reallocated(h, r, a, n)
BY DEF Reallocated

\* Moved says nothing but that there is no memory left.
LEMMA MovedFacts ==
  ASSUME NEW q, Sound(q.heap), NEW r, r = Moved(q)
  PROVE  /\ Sound(r.heap)
         /\ q.block # NULL \/ q.heap.fault # "none" => r.heap.fault = q.heap.fault
         /\ q.block = NULL /\ q.heap.fault = "none" => r.heap.fault = "null"
         /\ q.block # NULL => r = q
         /\ q.block = NULL => r.block = NULL
<1>1. CASE q.block = NULL
  <2> DEFINE g == Fail(q.heap, "null")
  <2>1. Failed(q.heap, g, "null")
    BY Failing
  <2>2. r.heap = g /\ r.block = NULL
    BY <1>1 DEF Moved, Return
  <2> HIDE DEF g
  <2> QED
    BY <1>1, <2>1, <2>2 DEF Failed
<1>2. CASE q.block # NULL
  <2>1. r = q
    BY <1>2 DEF Moved
  <2> QED
    BY <1>2, <2>1
<1> QED
  BY <1>1, <1>2
\* What a heap says that differs from h in counters at most.
LEMMA UnmergedFacts ==
  ASSUME NEW h, NEW t, Unmerged(h, t), NEW a
  PROVE  /\ Good(t) /\ Sound(t) /\ t.fault = h.fault /\ t.start = h.start /\ t.brk = h.brk
         /\ t.meta = h.meta /\ BlocksOf(t) = BlocksOf(h) /\ BusyOf(t) = BusyOf(h)
         /\ Mappings(t) = Mappings(h) /\ t.wilderness = h.wilderness
         /\ WildLast(t) <=> WildLast(h)
         /\ Proper(h) => Proper(t)
         /\ \A x : Size(t, x) = Size(h, x)
         /\ Foreign(t, a) <=> Foreign(h, a)
         /\ Prevs(t, a) = Prevs(h, a) /\ Nexts(t, a) = Nexts(h, a)
         /\ \A P : Joined(t, P) = Joined(h, P)
<1>1. /\ Good(t) /\ t.fault = h.fault /\ t.start = h.start /\ t.brk = h.brk
      /\ t.meta = h.meta /\ t.list = h.list /\ t.wilderness = h.wilderness
      /\ Proper(h) => Proper(t)
  BY DEF Unmerged, SameBlocks
<1>2. BlocksOf(t) = BlocksOf(h) /\ Mappings(t) = Mappings(h)
  BY <1>1 DEF BlocksOf, Mappings
<1>3. BusyOf(t) = BusyOf(h) /\ (WildLast(t) <=> WildLast(h))
  BY <1>1, <1>2 DEF BusyOf, WildLast
<1>4. \A x : Size(t, x) = Size(h, x) /\ End(t, x) = End(h, x)
  BY <1>1 DEF Size, End, Foot
<1>5. /\ Foreign(t, a) <=> Foreign(h, a)
      /\ Prevs(t, a) = Prevs(h, a) /\ Nexts(t, a) = Nexts(h, a)
      /\ \A P : Joined(t, P) = Joined(h, P)
  BY <1>1, <1>4 DEF Foreign, Prevs, Nexts, Joined
<1> QED
  BY <1>1, <1>2, <1>3, <1>4, <1>5 DEF Good

\* A payload in use is that of a block or of a mapping.
LEMMA BusySizes ==
  ASSUME NEW h, Sound(h), NEW x \in BusyOf(h)
  PROVE  /\ x \in Nat /\ x # NULL /\ Size(h, x) \in Nat /\ h.meta[x] \in Meta
         /\ ~ h.meta[x].is_free
         /\ \/ x \in BlocksOf(h) /\ x \notin Mappings(h)
            \/ x \in Mappings(h) /\ x \notin BlocksOf(h) /\ MMAP_THRESHOLD <= Size(h, x)
<1>1. Tiles(BlocksOf(h), h.meta, h.brk)
  BY SoundTiles
<1>2. CASE x \in BlocksOf(h)
  <2>1. x \notin Mappings(h)
    BY <1>1, <1>2, OwnAddresses DEF Mappings
  <2>2. ~ h.meta[x].is_free
    BY <2>1 DEF BusyOf, BusyIn, Mappings
  <2> QED
    BY <1>1, <1>2, <2>1, <2>2, BlockNumbers DEF Size, NULL
<1>3. CASE x \in Mappings(h)
  <2>1. x \notin BlocksOf(h)
    BY <1>1, <1>3, OwnAddresses DEF Mappings
  <2>2. /\ MMAP_THRESHOLD <= h.meta[x].size /\ h.meta[x] \in Meta /\ ~ h.meta[x].is_free
        /\ h.meta[x].size \in Nat
    BY <1>1, <1>3 DEF Tiles, MapsKnown, Known, Mappings, Meta
  <2>3. x \in Nat /\ x > HeapEnd /\ HeapEnd \in Nat
    BY <1>3, HeapAssumption DEF Mappings
  <2> QED
    BY <1>3, <2>1, <2>2, <2>3 DEF Size, NULL
<1> QED
  BY <1>2, <1>3 DEF BusyOf, BusyIn, Mappings

\* Lines 557 to 560: the block is freed, and a new one taken.
LEMMA FreedMoves ==
  ASSUME NEW h, Good(h), h.fault = "none", NEW a \in BlocksOf(h), ~ h.meta[a].is_free,
         NEW n \in 1 .. MaxRequest, NEW size, size = AlignUp(n), Size(h, a) < MMAP_THRESHOLD,
         NEW t, Unmerged(h, t), Unfit(h, a, size), ~ Foreign(h, a), NEW junk
  PROVE  Reallocated(h, FreeThenMove(t, a, n, junk), a, n)
<1> DEFINE s == Sfree(t, a)
           q == Smalloc(s, n, junk)
           r == FreeThenMove(t, a, n, junk)
<1>1. r = Moved(q)
  BY DEF FreeThenMove
<1>2. a \in BusyOf(h)
  BY DEF BusyOf, BusyIn
<1>3. /\ Good(t) /\ Sound(t) /\ t.fault = "none" /\ t.start = h.start /\ t.brk = h.brk
      /\ t.meta = h.meta /\ BlocksOf(t) = BlocksOf(h) /\ BusyOf(t) = BusyOf(h)
      /\ Mappings(t) = Mappings(h) /\ (WildLast(t) <=> WildLast(h)) /\ (Proper(h) => Proper(t))
      /\ \A x : Size(t, x) = Size(h, x)
      /\ ~ Foreign(t, a)
      /\ Prevs(t, a) = Prevs(h, a) /\ Nexts(t, a) = Nexts(h, a)
      /\ \A P : Joined(t, P) = Joined(h, P)
  BY UnmergedFacts
<1>4. Sfreed(t, s, a)
  BY <1>2, <1>3, SfreeFacts
<1>5. s.fault # "none" => q = Return(s, NULL)
  BY DEF Smalloc
<1>6. s.fault = "none" => Serving(s, q, size)
  <2>1. s.fault = "none" => Good(s)
    BY <1>4 DEF Sfreed
  <2> HIDE DEF s
  <2>2. s.fault = "none" => Serving(s, Smalloc(s, n, junk), AlignUp(n))
    BY <2>1, SmallocServes
  <2> QED
    BY <2>2
<1> HIDE DEF s, q, r
<1>7. CASE s.fault # "none"
  <2>1. q.heap = s /\ q.block = NULL
    BY <1>5, <1>7 DEF Return
  <2>2. Sound(q.heap)
    BY <1>4, <2>1 DEF Sfreed
  <2>3. Sound(r.heap) /\ r.heap.fault = s.fault
    BY <1>1, <1>7, <2>1, <2>2, MovedFacts
  <2>4. Accused(h, a, s.fault)
    <3>1. \/ s.fault = "foreign" /\ h.start \notin AlignedBreaks
          \/ s.fault = "munmap" /\ Size(h, a) >= MMAP_THRESHOLD
      BY <1>3, <1>4, <1>7 DEF Sfreed
    <3> QED
      BY <3>1 DEF Accused
  <2>5. Reallocated(h, r, a, n)
    BY <1>7, <2>3, <2>4, Accuses
  <2> QED
    BY <2>5 DEF r
<1>8. CASE s.fault = "none"
  <2>1. /\ Good(s) /\ Keeps(t, s, {a}, {}) /\ Mappings(s) = Mappings(t) \ {a}
        /\ WildLast(t) => WildLast(s)
        /\ Proper(t) => Proper(s)
        /\ BlocksOf(s) # {} /\ s.brk = t.brk /\ s.start = t.start
        /\ \E h1, lo, hi : ~ Foreign(h1, a) /\ Freed(t, h1, s, a, lo, hi)
    BY <1>3, <1>4, <1>8 DEF Sfreed
  <2>2. Mappings(s) = Mappings(h)
    <3>1. a \notin Mappings(h)
      BY SoundTiles, OwnAddresses DEF Mappings, Good
    <3> QED
      BY <1>3, <2>1, <3>1
  <2>3. /\ Sound(q.heap) /\ Serving(s, q, size)
    BY <1>6, <1>8 DEF Serving
  <2>4. /\ Sound(r.heap)
        /\ q.block # NULL \/ q.heap.fault # "none" => r.heap.fault = q.heap.fault
        /\ q.block = NULL /\ q.heap.fault = "none" => r.heap.fault = "null"
        /\ q.block # NULL => r = q
    BY <1>1, <2>3, MovedFacts
  <2>5. CASE q.heap.fault # "none"
    <3>1. Blamed(s, q.heap.fault, size)
      BY <2>3, <2>5 DEF Serving
    <3>2. Accused(h, a, q.heap.fault)
      <4>1. CASE q.heap.fault = "foreign" /\ s.start \notin AlignedBreaks
        BY <1>3, <2>1, <4>1 DEF Accused
      <4>2. CASE /\ q.heap.fault = "munmap"
                 /\ \E b \in FreeOf(s) : size <= Size(s, b) /\ Size(s, b) - size - 2 * SOM >= MMAP_THRESHOLD
        <5>1. PICK b \in FreeOf(s) :
                size <= Size(s, b) /\ Size(s, b) - size - 2 * SOM >= MMAP_THRESHOLD
          BY <4>2
        <5>2. b \in BlocksOf(s)
          BY DEF FreeOf
        <5>3. \/ b \in BlocksOf(t) /\ Size(s, b) = Size(t, b)
              \/ Size(s, b) = Joined(t, {a} \cup Prevs(t, a) \cup Nexts(t, a))
          BY <1>3, <2>1, <5>2, FreedSize
        <5>4. \/ b \in BlocksOf(h) /\ Size(s, b) = Size(h, b)
              \/ Size(s, b) = Joined(h, {a} \cup Prevs(h, a) \cup Nexts(h, a))
          BY <1>3, <5>3
        <5>5. size \in Nat /\ SOM \in Nat /\ MMAP_THRESHOLD \in Nat /\ Size(s, b) \in Nat
          <6>1. size \in Nat
            BY AlignUpFacts
          <6>2. Size(s, b) \in Nat
            BY <2>1, <5>2, SoundTiles, BlockNumbers DEF Size, Good
          <6> QED
            BY <6>1, <6>2, HeapAssumption
        <5>6. \E x \in BlocksOf(h) : Size(h, x) >= MMAP_THRESHOLD
          <6>1. \A x \in BlocksOf(h) : Size(h, x) \in Nat
            BY SoundTiles, BlockNumbers DEF Size, Good
          <6>2. CASE b \in BlocksOf(h) /\ Size(s, b) = Size(h, b)
            BY <5>1, <5>5, <6>2
          <6>3. CASE Size(s, b) = Joined(h, {a} \cup Prevs(h, a) \cup Nexts(h, a))
            <7>1. Size(s, b) < size \/ \E x \in BlocksOf(h) : Size(s, b) - size - 2 * SOM < Size(h, x)
              BY <6>3 DEF Unfit
            <7> QED
              BY <5>1, <5>5, <6>1, <7>1
          <6> QED
            BY <5>4, <6>2, <6>3
        <5> QED
          BY <4>2, <5>6 DEF Accused
      <4>3. CASE q.heap.fault \in {"corrupt", "assert455"} /\ ~ WildLast(s)
        BY <1>3, <2>1, <4>3 DEF Accused
      <4> QED
        BY <3>1, <4>1, <4>2, <4>3 DEF Blamed
    <3>3. Reallocated(h, r, a, n)
      BY <2>4, <2>5, <3>2, Accuses
    <3> QED
      BY <3>3 DEF r
  <2>6. CASE q.heap.fault = "none" /\ q.block = NULL
    <3>1. Exhausted(s)
      BY <2>3, <2>6 DEF Serving, Served
    <3>2. ~ Room(h, MMAP_THRESHOLD + 2 * SOM) \/ MapAddrs \subseteq Mappings(h)
      BY <1>3, <2>1, <2>2, <3>1 DEF Exhausted, Room
    <3>3. Accused(h, a, "null")
      BY <3>2 DEF Accused
    <3>4. Reallocated(h, r, a, n)
      BY <2>4, <2>6, <3>3, Accuses
    <3> QED
      BY <3>4 DEF r
  <2>7. CASE q.heap.fault = "none" /\ q.block # NULL
    <3> DEFINE x == q.block
               g == q.heap
    <3>1. r.heap = g /\ r.block = x
      BY <2>4, <2>7
    <3>2. /\ Good(g) /\ (WildLast(s) => WildLast(g)) /\ (Proper(s) => Proper(g))
          /\ Keeps(s, g, {}, {x}) /\ x \notin BusyOf(s) /\ size <= Size(g, x)
      BY <2>3, <2>7 DEF Serving, Served
    <3>3. g.fault = "none" /\ x # NULL
      BY <2>7
    <3> HIDE DEF x, g
    <3>4. BusyOf(s) = BusyOf(h) \ {a} /\ Keeps(h, g, {a}, {x})
      BY <1>3, <2>1, <3>2 DEF Keeps
    <3>5. n <= Size(g, x)
      <4>1. x \in BusyOf(g)
        BY <3>4 DEF Keeps
      <4>2. Size(g, x) \in Nat
        BY <3>2, <4>1, BusySizes DEF Good
      <4>3. size \in Nat /\ n <= size
        BY AlignUpFacts
      <4> QED
        BY <3>2, <4>2, <4>3
    <3>6. Replaced(h, g, a, x, n)
      BY <1>3, <2>1, <3>2, <3>4, <3>5 DEF Replaced
    <3>7. Reallocated(h, r, a, n)
      BY <3>1, <3>2, <3>3, <3>6 DEF Reallocated, Good
    <3> QED
      BY <3>7 DEF r
  <2> QED
    BY <2>5, <2>6, <2>7
<1> QED
  BY <1>7, <1>8

\* Lines 564 to 567: a new mapping for the payload of a large block, which is freed.
LEMMA MappedMoves ==
  ASSUME NEW h, Good(h), h.fault = "none", NEW a \in BusyOf(h), Size(h, a) >= MMAP_THRESHOLD,
         NEW n \in 1 .. MaxRequest, Size(h, a) < n, NEW junk
  PROVE  Reallocated(h, MoveThenFree(h, a, n, junk), a, n)
<1> DEFINE size == AlignUp(n)
           q == Smalloc(h, n, junk)
           u == Moved(q)
           r == MoveThenFree(h, a, n, junk)
<1>1. r = IF u.block = NULL THEN u ELSE Return(Sfree(u.heap, a), u.block)
  BY DEF MoveThenFree
<1>2. /\ size \in Nat /\ n <= size /\ MMAP_THRESHOLD <= size /\ size < MaxRequest + Align
      /\ MMAP_THRESHOLD \in Nat
  <2>1. size \in Nat /\ n <= size /\ size < n + Align
    BY AlignUpFacts
  <2>2. Size(h, a) \in Nat
    BY BusySizes DEF Good
  <2> HIDE DEF size
  <2> QED
    BY <2>1, <2>2, HeapAssumption
<1>3. q = MapBlock(h, size)
  <2>1. n \in 1 .. MaxRequest /\ h.fault = "none" /\ size >= MMAP_THRESHOLD
    BY <1>2
  <2> QED
    BY <2>1 DEF Smalloc
<1> HIDE DEF size, q, u, r
<1>4. /\ q.block = NULL => q = Return(h, NULL) /\ MapAddrs \subseteq Mappings(h)
      /\ q.block # NULL => Mapping(h, q.heap, q.block, size)
  BY <1>2, <1>3, MapEnds
<1>5. CASE q.block = NULL
  <2>1. q.heap = h
    BY <1>4, <1>5 DEF Return
  <2>2. Sound(u.heap) /\ u.heap.fault = "null" /\ u.block = NULL
    BY <1>5, <2>1, MovedFacts DEF Good, u
  <2>3. Accused(h, a, "null")
    BY <1>4, <1>5 DEF Accused
  <2>4. Reallocated(h, r, a, n)
    BY <1>1, <2>2, <2>3, Accuses
  <2> QED
    BY <2>4 DEF r
<1>6. CASE q.block # NULL
  <2> DEFINE x == q.block
             f == q.heap
             g == Sfree(f, a)
  <2>1. Mapping(h, f, x, size) /\ x # NULL
    BY <1>4, <1>6
  <2>2. u = q
    BY <1>6 DEF Moved, u
  <2>3. r.heap = g /\ r.block = x
    BY <1>1, <1>6, <2>2 DEF Return
  <2> HIDE DEF x, f
  <2>4. /\ Good(f) /\ Keeps(h, f, {}, {x}) /\ BlocksOf(f) = BlocksOf(h)
        /\ x \notin BusyOf(h) /\ Size(f, x) = size /\ f.fault = "none"
        /\ f.start = h.start
        /\ WildLast(h) => WildLast(f)
    BY <2>1 DEF Mapping
  <2>5. Proper(h) => Proper(f)
    BY <1>2, <2>1, MapBooks DEF Good
  <2>6. a \in BusyOf(f) /\ Size(f, a) = Size(h, a)
    BY <2>4 DEF Keeps, Size
  <2>7. Sfreed(f, g, a)
    BY <2>4, <2>6, SfreeFacts
  <2> HIDE DEF g
  <2>8. CASE g.fault # "none"
    <3>1. \/ g.fault = "foreign" /\ h.start \notin AlignedBreaks
          \/ g.fault = "munmap" /\ a \in BlocksOf(h)
      BY <2>4, <2>7, <2>8 DEF Sfreed
    <3>2. Accused(h, a, g.fault)
      BY <3>1 DEF Accused
    <3>3. Sound(g)
      BY <2>7 DEF Sfreed
    <3>4. Reallocated(h, r, a, n)
      BY <2>3, <2>8, <3>2, <3>3, Accuses
    <3> QED
      BY <3>4 DEF r
  <2>9. CASE g.fault = "none"
    <3>1. /\ Good(g) /\ Keeps(f, g, {a}, {}) /\ (WildLast(f) => WildLast(g))
          /\ Proper(f) => Proper(g)
      BY <2>7, <2>9 DEF Sfreed
    <3>2. x # a
      BY <2>4
    <3>3. Keeps(h, g, {a}, {x}) /\ g.meta[x].size = f.meta[x].size
      BY <2>4, <3>1, <3>2 DEF Keeps
    <3>4. n <= Size(g, x)
      BY <1>2, <2>4, <3>3 DEF Size
    <3>5. Replaced(h, g, a, x, n)
      BY <2>4, <2>5, <3>1, <3>3, <3>4 DEF Replaced
    <3>6. Reallocated(h, r, a, n)
      BY <2>1, <2>3, <2>9, <3>1, <3>5 DEF Reallocated, Good
    <3> QED
      BY <3>6 DEF r
  <2> QED
    BY <2>8, <2>9
<1> QED
  BY <1>5, <1>6

\* Line 538: the block is large enough.
LEMMA TrimEnds ==
  ASSUME NEW h, Good(h), h.fault = "none", NEW a \in BusyOf(h), NEW n \in Nat, n <= Size(h, a)
  PROVE  Reallocated(h, Return(Trim(h, a, n), a), a, n)
<1> DEFINE g == Trim(h, a, n)
           r == Return(g, a)
<1>1. Trimmed(h, g, a, n)
  BY TrimFacts
<1>2. r.heap = g /\ r.block = a
  BY DEF Return
<1>3. a # NULL /\ Size(h, a) \in Nat
  BY BusySizes DEF Good
<1> HIDE DEF g, r
<1>4. CASE g.fault # "none"
  <2>1. Accused(h, a, g.fault)
    <3>1. Size(h, a) - n - 2 * SOM >= MMAP_THRESHOLD => Size(h, a) >= MMAP_THRESHOLD
      BY <1>3, HeapAssumption
    <3> QED
      BY <1>1, <1>4, <3>1 DEF Trimmed, Accused
  <2>2. Sound(g)
    BY <1>1 DEF Trimmed
  <2>3. Reallocated(h, r, a, n)
    BY <1>2, <1>4, <2>1, <2>2, Accuses
  <2> QED
    BY <2>3 DEF r, g
<1>5. CASE g.fault = "none"
  <2>1. Replaced(h, g, a, a, n)
    BY <1>1, <1>5 DEF Trimmed, Replaced
  <2>2. Reallocated(h, r, a, n)
    BY <1>1, <1>2, <1>3, <1>5, <2>1 DEF Reallocated, Trimmed
  <2> QED
    BY <2>2 DEF r, g
<1> QED
  BY <1>4, <1>5

\* Line 550: the block, merged with its neighbours, is large enough.
LEMMA GrownEnds ==
  ASSUME NEW h, Good(h), h.fault = "none", NEW a \in BlocksOf(h), ~ h.meta[a].is_free,
         NEW n \in Nat, Size(h, a) < n, NEW g, NEW lo, Grown(h, g, a, lo, AlignUp(n))
  PROVE  Reallocated(h, Return(Trim(g, lo, n), lo), a, n)
<1> DEFINE f == Trim(g, lo, n)
           r == Return(f, lo)
<1>1. /\ Good(g) /\ Keeps(h, g, {a}, {lo}) /\ lo \notin BusyOf(h) \ {a} /\ lo # NULL
      /\ lo \in BlocksOf(h) /\ AlignUp(n) <= Size(g, lo) /\ g.start = h.start
      /\ g.fault = "none"
      /\ Proper(h) => Proper(g)
      /\ WildLast(h) => WildLast(g) \/ (lo <= a /\ h.wilderness \in Nexts(h, a))
      /\ Even(h) => \/ Size(g, lo) - n - 2 * SOM < 0
                    \/ \E x \in BlocksOf(h) : Size(g, lo) - n - 2 * SOM < Size(h, x)
  BY DEF Grown
<1>2. lo \in BusyOf(g) /\ Size(g, lo) \in Nat
  <2>1. lo \in BusyOf(g)
    BY <1>1 DEF Keeps
  <2> QED
    BY <1>1, <2>1, BusySizes DEF Good
<1>3. n <= Size(g, lo)
  <2>1. AlignUp(n) \in Nat /\ n <= AlignUp(n)
    BY AlignUpFacts
  <2> QED
    BY <1>1, <1>2, <2>1
<1>4. Trimmed(g, f, lo, n)
  BY <1>1, <1>2, <1>3, TrimFacts
<1>5. r.heap = f /\ r.block = lo
  BY DEF Return
<1> HIDE DEF f, r
<1>6. CASE f.fault # "none"
  <2>1. Accused(h, a, f.fault)
    <3>1. CASE f.fault = "foreign" /\ g.start \notin AlignedBreaks
      BY <1>1, <3>1 DEF Accused
    <3>2. CASE f.fault = "munmap" /\ Size(g, lo) - n - 2 * SOM >= MMAP_THRESHOLD
      <4>1. CASE Even(h)
        <5>1. \A x \in BlocksOf(h) : Size(h, x) \in Nat
          BY SoundTiles, BlockNumbers DEF Size, Good
        <5>2. SOM \in Nat /\ MMAP_THRESHOLD \in Nat
          BY HeapAssumption
        <5>3. \E x \in BlocksOf(h) : Size(h, x) >= MMAP_THRESHOLD
          BY <1>1, <1>2, <3>2, <4>1, <5>1, <5>2
        <5> QED
          BY <3>2, <5>3 DEF Accused
      <4>2. CASE ~ Even(h)
        BY <3>2, <4>2 DEF Accused, Even
      <4> QED
        BY <4>1, <4>2
    <3>3. CASE f.fault = "unlisted" /\ lo \in Mappings(g)
      <4>1. lo \notin MapAddrs
        BY <1>1, SoundTiles, OwnAddresses DEF Good
      <4> QED
        BY <3>3, <4>1 DEF Mappings
    <3> QED
      BY <1>4, <1>6, <3>1, <3>2, <3>3 DEF Trimmed
  <2>2. Sound(f)
    BY <1>4 DEF Trimmed
  <2>3. Reallocated(h, r, a, n)
    BY <1>5, <1>6, <2>1, <2>2, Accuses
  <2> QED
    BY <2>3 DEF r, f
<1>7. CASE f.fault = "none"
  <2>1. /\ Good(f) /\ Keeps(g, f, {lo}, {lo}) /\ n <= Size(f, lo)
        /\ WildLast(g) => WildLast(f)
        /\ Proper(g) => Proper(f)
    BY <1>4, <1>7 DEF Trimmed
  <2>2. Keeps(h, f, {a}, {lo})
    BY <1>1, <2>1 DEF Keeps
  <2>3. Replaced(h, f, a, lo, n)
    BY <1>1, <2>1, <2>2 DEF Replaced
  <2>4. Reallocated(h, r, a, n)
    BY <1>1, <1>5, <1>7, <2>1, <2>3 DEF Reallocated, Good
  <2> QED
    BY <2>4 DEF r, f
<1> QED
  BY <1>6, <1>7

\* srealloc: the new payload is nobody's and large enough, the others are kept.
LEMMA SreallocEnds ==
  ASSUME NEW h, Good(h), h.fault = "none", NEW a \in BusyOf(h), NEW n \in Nat, NEW junk
  PROVE  Reallocated(h, Srealloc(h, a, n, junk), a, n)
<1> DEFINE size == AlignUp(n)
           t == TryMergeRealloc(h, a, size)
           r == Srealloc(h, a, n, junk)
<1>1. r = IF n \notin 1 .. MaxRequest THEN Return(h, NULL)
          ELSE IF Size(h, a) >= n THEN Return(Trim(h, a, n), a)
          ELSE IF Size(h, a) >= MMAP_THRESHOLD THEN MoveThenFree(h, a, n, junk)
          ELSE IF t.heap.fault # "none" THEN t
          ELSE IF t.block = NULL THEN FreeThenMove(t.heap, a, n, junk)
          ELSE Return(Trim(t.heap, t.block, n), t.block)
  BY DEF Srealloc
<1>2. /\ Sound(h) /\ Size(h, a) \in Nat /\ ~ h.meta[a].is_free
      /\ a \in BlocksOf(h) \/ MMAP_THRESHOLD <= Size(h, a)
  BY BusySizes DEF Good
<1>3. MMAP_THRESHOLD \in Nat /\ size \in Nat /\ n <= size /\ size % Align = 0
  BY AlignUpFacts, HeapAssumption
<1> HIDE DEF r, size
<1>4. CASE n \notin 1 .. MaxRequest
  <2>1. r.heap = h /\ r.block = NULL
    BY <1>1, <1>4 DEF Return
  <2>2. Reallocated(h, r, a, n)
    BY <1>2, <2>1 DEF Reallocated
  <2> QED
    BY <2>2 DEF r
<1>5. CASE n \in 1 .. MaxRequest /\ Size(h, a) >= n
  <2>1. n <= Size(h, a)
    BY <1>2, <1>5
  <2>2. r = Return(Trim(h, a, n), a)
    BY <1>1, <1>5
  <2> QED
    BY <2>1, <2>2, TrimEnds DEF r
<1>6. CASE n \in 1 .. MaxRequest /\ ~ Size(h, a) >= n /\ Size(h, a) >= MMAP_THRESHOLD
  <2>1. Size(h, a) < n
    BY <1>2, <1>6
  <2>2. r = MoveThenFree(h, a, n, junk)
    BY <1>1, <1>6
  <2> QED
    BY <1>6, <2>1, <2>2, MappedMoves DEF r
<1>7. CASE n \in 1 .. MaxRequest /\ ~ Size(h, a) >= n /\ ~ Size(h, a) >= MMAP_THRESHOLD
  <2>1. Size(h, a) < n /\ Size(h, a) < size /\ a \in BlocksOf(h) /\ Size(h, a) < MMAP_THRESHOLD
    BY <1>2, <1>3, <1>7
  <2>2. TriedMerge(h, t, a, size)
    BY <1>2, <1>3, <2>1, MergeTries
  <2> HIDE DEF t
  <2>3. CASE t.heap.fault # "none"
    <3>1. r = t
      BY <1>1, <1>7, <2>3
    <3>2. Accused(h, a, t.heap.fault) /\ Sound(t.heap)
      BY <2>1, <2>2, <2>3 DEF TriedMerge, Accused, Mishap
    <3> QED
      BY <2>3, <3>1, <3>2, Accuses DEF r
  <2>4. CASE t.heap.fault = "none" /\ t.block = NULL
    <3>1. r = FreeThenMove(t.heap, a, n, junk)
      BY <1>1, <1>7, <2>4
    <3>2. Unmerged(h, t.heap) /\ Unfit(h, a, size) /\ ~ Foreign(h, a)
      BY <2>2, <2>4 DEF TriedMerge
    <3> QED
      BY <1>2, <1>7, <2>1, <3>1, <3>2, FreedMoves DEF r, size
  <2>5. CASE t.heap.fault = "none" /\ t.block # NULL
    <3>1. r = Return(Trim(t.heap, t.block, n), t.block)
      BY <1>1, <1>7, <2>5
    <3>2. Grown(h, t.heap, a, t.block, size)
      BY <2>2, <2>5 DEF TriedMerge
    <3> QED
      BY <1>2, <2>1, <3>1, <3>2, GrownEnds DEF r, size
  <2> QED
    BY <2>3, <2>4, <2>5
<1> QED
  BY <1>4, <1>5, <1>6, <1>7

-----------------------------------------------------------------------------
(* What the client holds.                                                  *)

Payloads == [ptr : Nat, len : Nat]
BlocksHeld(L) == {b.ptr - SOM : b \in L}

\* The payloads in use are those in L.
Held(h, L) ==
  /\ L \subseteq Payloads /\ BlocksHeld(L) = BusyOf(h)
  /\ \A b \in L : b.len <= Size(h, b.ptr - SOM)
  /\ \A b, c \in L : b.ptr = c.ptr => b = c

\* The payloads given up apart, all stay as they were.
LEMMA HeldStays ==
  ASSUME NEW h, NEW L, Held(h, L), NEW old \in SUBSET L, NEW g, NEW new,
         Keeps(h, g, BlocksHeld(old), new)
  PROVE  /\ BlocksHeld(L \ old) = BusyOf(h) \ BlocksHeld(old)
         /\ \A b \in L \ old : b.len <= Size(g, b.ptr - SOM)
<1>1. /\ L \subseteq Payloads /\ BlocksHeld(L) = BusyOf(h)
      /\ \A b \in L : b.len <= Size(h, b.ptr - SOM)
      /\ \A b, c \in L : b.ptr = c.ptr => b = c
  BY DEF Held
<1>2. SOM \in Nat /\ \A b \in L : b.ptr \in Nat
  BY <1>1, HeapAssumption DEF Payloads
<1>3. ASSUME NEW b \in L \ old PROVE b.ptr - SOM \in BusyOf(h) \ BlocksHeld(old)
  <2>1. b.ptr - SOM \in BusyOf(h)
    BY <1>1, <1>3 DEF BlocksHeld
  <2>2. ASSUME NEW c \in old, c.ptr - SOM = b.ptr - SOM PROVE FALSE
    <3>1. c.ptr = b.ptr
      BY <1>2, <2>2
    <3> QED
      BY <1>1, <3>1
  <2> QED
    BY <2>1, <2>2 DEF BlocksHeld
<1>4. ASSUME NEW x \in BusyOf(h) \ BlocksHeld(old) PROVE \E b \in L \ old : x = b.ptr - SOM
  BY <1>1, <1>4 DEF BlocksHeld
<1>5. BlocksHeld(L \ old) = BusyOf(h) \ BlocksHeld(old)
  BY <1>3, <1>4 DEF BlocksHeld
<1>6. \A b \in L \ old : g.meta[b.ptr - SOM].size = h.meta[b.ptr - SOM].size
  BY <1>3 DEF Keeps
<1> QED
  BY <1>1, <1>5, <1>6 DEF Size

\* Payloads are given up.
LEMMA HeldLoses ==
  ASSUME NEW h, NEW L, Held(h, L), NEW old \in SUBSET L, NEW g,
         Keeps(h, g, BlocksHeld(old), {})
  PROVE  Held(g, L \ old)
<1>1. /\ BlocksHeld(L \ old) = BusyOf(h) \ BlocksHeld(old)
      /\ \A b \in L \ old : b.len <= Size(g, b.ptr - SOM)
  BY HeldStays
<1>2. BusyOf(g) = BusyOf(h) \ BlocksHeld(old)
  BY DEF Keeps
<1> QED
  BY <1>1, <1>2 DEF Held

\* The payload of x is taken, of n bytes.
Payload(x, n) == [ptr |-> x + SOM, len |-> n]

LEMMA HeldGains ==
  ASSUME NEW h, NEW L, Held(h, L), NEW old \in SUBSET L, NEW g, NEW x \in Nat, NEW n \in Nat,
         Keeps(h, g, BlocksHeld(old), {x}), x \notin BusyOf(h) \ BlocksHeld(old),
         n <= Size(g, x)
  PROVE  /\ Held(g, (L \ old) \cup {Payload(x, n)})
         /\ \A b \in L \ old : b.ptr # x + SOM
<1> DEFINE K == L \ old
           p == Payload(x, n)
           M == K \cup {p}
<1>1. /\ BlocksHeld(K) = BusyOf(h) \ BlocksHeld(old)
      /\ \A b \in K : b.len <= Size(g, b.ptr - SOM)
  BY HeldStays
<1>2. /\ L \subseteq Payloads
      /\ \A b, c \in L : b.ptr = c.ptr => b = c
  BY DEF Held
<1>3. /\ p \in Payloads /\ p.ptr = x + SOM /\ p.len = n /\ p.ptr - SOM = x
      /\ x + SOM - SOM = x
  BY HeapAssumption DEF Payload, Payloads
<1> HIDE DEF p
<1>4. \A b \in K : b.ptr # x + SOM
  <2>1. ASSUME NEW b \in K, b.ptr = x + SOM PROVE FALSE
    <3>1. b.ptr - SOM = x
      BY <1>3, <2>1
    <3>2. x \in BlocksHeld(K)
      BY <3>1 DEF BlocksHeld
    <3> QED
      BY <1>1, <3>2
  <2> QED
    BY <2>1
<1>5. BlocksHeld(M) = BlocksHeld(K) \cup {x}
  BY <1>3 DEF BlocksHeld
<1>6. BusyOf(g) = (BusyOf(h) \ BlocksHeld(old)) \cup {x}
  BY DEF Keeps
<1>7. \A b \in M : b.len <= Size(g, b.ptr - SOM)
  BY <1>1, <1>3
<1>8. \A b, c \in M : b.ptr = c.ptr => b = c
  BY <1>2, <1>3, <1>4
<1>9. Held(g, M)
  BY <1>1, <1>2, <1>3, <1>5, <1>6, <1>7, <1>8 DEF Held
<1> QED
  BY <1>4, <1>9 DEF p

\* Payloads in use share no byte, and lie where payloads may lie.
LEMMA HeldApart ==
  ASSUME NEW h, Sound(h), NEW L, Held(h, L), NEW b \in L, NEW c \in L, b # c
  PROVE  b.ptr + b.len <= c.ptr \/ c.ptr + c.len <= b.ptr
<1>1. Tiles(BlocksOf(h), h.meta, h.brk)
  BY SoundTiles
<1>2. SOM \in Nat /\ HeapEnd \in Nat /\ MaxRequest \in Nat /\ Align \in Nat
  BY HeapAssumption
<1>3. b \in Payloads /\ c \in Payloads /\ b.ptr # c.ptr
  BY DEF Held
<1>4. ASSUME NEW x \in L, NEW y \in L, x.ptr < y.ptr PROVE x.ptr + x.len <= y.ptr
  <2> DEFINE a == x.ptr - SOM
             d == y.ptr - SOM
  <2>1. /\ a \in BusyOf(h) /\ d \in BusyOf(h) /\ x.len <= Size(h, a)
        /\ x.ptr \in Nat /\ x.len \in Nat /\ y.ptr \in Nat
    BY <1>4 DEF Held, BlocksHeld, Payloads
  <2>2. x.ptr = a + SOM /\ y.ptr = d + SOM /\ a < d
    BY <1>2, <1>4, <2>1
  <2> HIDE DEF a, d
  <2>3. /\ a \in Nat /\ d \in Nat /\ Size(h, a) \in Nat
        /\ (a \in BlocksOf(h) /\ a \notin Mappings(h)) \/ a \in Mappings(h)
        /\ (d \in BlocksOf(h) /\ d \notin Mappings(h)) \/ d \in Mappings(h)
    BY <2>1, BusySizes
  <2>4. CASE a \in BlocksOf(h)
    <3>1. EndAt(h.meta, a) = a + SOM + Size(h, a) + SOM /\ EndAt(h.meta, a) <= HeapEnd
      BY <1>1, <1>2, <2>3, <2>4, BlockNumbers DEF Size
    <3>2. EndAt(h.meta, a) <= d
      <4>1. CASE d \in BlocksOf(h)
        BY <1>1, <2>2, <2>4, <4>1 DEF Tiles, Separate
      <4>2. CASE d \in Mappings(h)
        <5>1. d > HeapEnd
          BY <4>2, HeapAssumption DEF Mappings
        <5> QED
          BY <1>2, <2>3, <3>1, <5>1
      <4> QED
        BY <2>3, <4>1, <4>2
    <3> QED
      BY <1>2, <2>1, <2>2, <2>3, <3>1, <3>2
  <2>5. CASE a \in Mappings(h)
    <3>1. Size(h, a) < MaxRequest + Align
      BY <1>1, <2>5 DEF Tiles, MapsKnown, Mappings, Size
    <3>2. d \in MapAddrs /\ a \in MapAddrs
      <4>1. a > HeapEnd /\ a \in MapAddrs
        BY <2>5, HeapAssumption DEF Mappings
      <4>2. d \in BlocksOf(h) => d <= HeapEnd
        <5>1. d \in BlocksOf(h) => d < FootAt(h.meta, d) /\ FootAt(h.meta, d) < EndAt(h.meta, d)
                                   /\ EndAt(h.meta, d) <= HeapEnd /\ FootAt(h.meta, d) \in Nat
                                   /\ EndAt(h.meta, d) \in Nat
          BY <1>1, <1>2, BlockNumbers
        <5> QED
          BY <1>2, <2>3, <5>1
      <4> QED
        BY <1>2, <2>2, <2>3, <4>1, <4>2 DEF Mappings
    <3>3. a + SOM + MaxRequest + Align <= d
      BY <2>2, <3>2, HeapAssumption
    <3> QED
      BY <1>2, <2>1, <2>2, <2>3, <3>1, <3>3
  <2> QED
    BY <2>3, <2>4, <2>5
<1> QED
  BY <1>3, <1>4 DEF Payloads

-----------------------------------------------------------------------------
(* The inductive invariant.                                                *)

\* What is the case between calls; of a heap that has gone wrong, only its types
\* and its tiling.
HeapInv(h, L) ==
  /\ Sound(h) /\ L \subseteq Payloads
  /\ h.fault = "none" => Merged(h) /\ Proper(h) /\ Held(h, L)

\* The client holds L instead of M: nothing has changed, or it holds one more of
\* n bytes, c, and no more those in old.
Gained(L, M, old, n) ==
  M = L \/ \E c \in M : c.len = n /\ c \notin L \ old /\ M = (L \ old) \cup {c}

\* smalloc.
LEMMA SmallocCall ==
  ASSUME NEW h, NEW L, HeapInv(h, L), h.fault = "none", NEW n \in Nat, NEW junk,
         NEW r, r = Smalloc(h, n, junk), NEW M,
         M = IF r.block = NULL \/ r.heap.fault # "none" THEN L
             ELSE (L \ {}) \cup {Payload(r.block, n)}
  PROVE  /\ HeapInv(r.heap, M)
         /\ WildLast(h) /\ r.heap.fault = "none" => WildLast(r.heap)
         /\ r.heap.fault # "none" => Blamed(h, r.heap.fault, AlignUp(n)) /\ M = L
         /\ Gained(L, M, {}, n)
<1>1. Good(h) /\ Sound(h) /\ L \subseteq Payloads /\ Proper(h) /\ Held(h, L)
  BY DEF HeapInv, Good
<1>2. CASE n \notin 1 .. MaxRequest
  <2>1. r.heap = h /\ r.block = NULL
    BY <1>2 DEF Smalloc, Return
  <2> QED
    BY <2>1 DEF Gained
<1>3. CASE n \in 1 .. MaxRequest
  <2> DEFINE size == AlignUp(n)
             g == r.heap
             x == r.block
  <2>1. Serving(h, r, size)
    BY <1>1, <1>3, SmallocServes
  <2>2. Sound(g) /\ (g.fault # "none" => Blamed(h, g.fault, size))
    BY <2>1 DEF Serving
  <2>3. CASE g.fault # "none"
    BY <1>1, <2>2, <2>3 DEF HeapInv, Gained
  <2>4. CASE g.fault = "none"
    <3>1. /\ Good(g) /\ (WildLast(h) => WildLast(g)) /\ Proper(g)
          /\ x = NULL => Keeps(h, g, {}, {})
          /\ x # NULL => Keeps(h, g, {}, {x}) /\ x \notin BusyOf(h) /\ size <= Size(g, x)
      BY <1>1, <2>1, <2>4 DEF Serving, Served
    <3> DEFINE none == {}
    <3>2. BlocksHeld(none) = {} /\ none \in SUBSET L /\ L \ none = L
      BY DEF BlocksHeld
    <3> HIDE DEF g, x, none
    <3>3. CASE x = NULL
      <4>1. M = L
        BY <3>3 DEF x
      <4>2. Held(g, L \ none)
        BY <1>1, <3>1, <3>2, <3>3, HeldLoses
      <4>3. HeapInv(g, M)
        BY <1>1, <3>1, <3>2, <4>1, <4>2 DEF HeapInv, Good
      <4> QED
        BY <2>4, <3>1, <4>1, <4>3 DEF Gained, g
    <3>4. CASE x # NULL
      <4>1. M = (L \ {}) \cup {Payload(x, n)}
        BY <2>4, <3>4 DEF x, g
      <4>2. x \in BusyOf(g) /\ x \in Nat /\ Size(g, x) \in Nat
        <5>1. x \in BusyOf(g)
          BY <3>1, <3>4 DEF Keeps
        <5> QED
          BY <3>1, <5>1, BusySizes DEF Good
      <4>3. n <= Size(g, x)
        <5>1. size \in Nat /\ n <= size
          BY AlignUpFacts
        <5> QED
          BY <3>1, <3>4, <4>2, <5>1
      <4>4. /\ Held(g, (L \ none) \cup {Payload(x, n)})
            /\ \A b \in L \ none : b.ptr # x + SOM
        <5>1. Keeps(h, g, BlocksHeld(none), {x}) /\ x \notin BusyOf(h) \ BlocksHeld(none)
          BY <3>1, <3>2, <3>4
        <5>2. Held(h, L) /\ none \in SUBSET L
          BY <1>1, <3>2
        <5> QED
          BY <4>2, <4>3, <5>1, <5>2, HeldGains
      <4>5. Held(g, M)
        BY <3>2, <4>1, <4>4
      <4>6. HeapInv(g, M)
        BY <3>1, <4>5 DEF HeapInv, Good, Held
      <4>7. Gained(L, M, {}, n)
        <5>1. Payload(x, n).len = n /\ Payload(x, n).ptr = x + SOM
          BY DEF Payload
        <5>2. Payload(x, n) \notin L
          BY <3>2, <4>4, <5>1
        <5> QED
          BY <4>1, <5>1, <5>2 DEF Gained
      <4> QED
        BY <2>4, <3>1, <4>6, <4>7 DEF g
    <3> QED
      BY <3>3, <3>4
  <2> QED
    BY <2>3, <2>4
<1> QED
  BY <1>2, <1>3

\* sfree.
LEMMA SfreeCall ==
  ASSUME NEW h, NEW L, HeapInv(h, L), h.fault = "none", NEW b \in L,
         NEW g, g = Sfree(h, b.ptr - SOM), NEW M, M = IF g.fault # "none" THEN L ELSE L \ {b}
  PROVE  /\ HeapInv(g, M)
         /\ WildLast(h) /\ g.fault = "none" => WildLast(g)
         /\ g.fault # "none" =>
              \/ g.fault = "foreign" /\ h.start \notin AlignedBreaks
              \/ g.fault = "munmap" /\ \E a \in BlocksOf(h) : Size(h, a) >= MMAP_THRESHOLD
<1> DEFINE a == b.ptr - SOM
<1>1. Good(h) /\ Sound(h) /\ L \subseteq Payloads /\ Proper(h) /\ Held(h, L)
  BY DEF HeapInv, Good
<1>2. a \in BusyOf(h)
  BY <1>1 DEF Held, BlocksHeld
<1>3. Sfreed(h, g, a)
  BY <1>1, <1>2, SfreeFacts
<1> HIDE DEF a
<1>4. CASE g.fault # "none"
  <2>1. /\ Sound(g)
        /\ \/ g.fault = "foreign" /\ h.start \notin AlignedBreaks
           \/ g.fault = "munmap" /\ a \in BlocksOf(h) /\ Size(h, a) >= MMAP_THRESHOLD
    BY <1>3, <1>4 DEF Sfreed
  <2>2. M = L
    BY <1>4
  <2> QED
    BY <1>1, <1>4, <2>1, <2>2 DEF HeapInv
<1>5. CASE g.fault = "none"
  <2>1. Good(g) /\ Keeps(h, g, {a}, {}) /\ (WildLast(h) => WildLast(g)) /\ Proper(g)
    BY <1>1, <1>3, <1>5 DEF Sfreed
  <2> DEFINE old == {b}
  <2>2. BlocksHeld(old) = {a} /\ old \in SUBSET L /\ M = L \ old
    BY <1>5 DEF BlocksHeld, a
  <2> HIDE DEF old
  <2>3. Held(g, M)
    BY <1>1, <2>1, <2>2, HeldLoses
  <2> QED
    BY <1>5, <2>1, <2>3 DEF HeapInv, Good, Held
<1> QED
  BY <1>4, <1>5

\* Only srealloc may leave the wilderness pointer behind.
LeftBehind(h, L, M) ==
  \E b \in L \ M, c \in M \ L : c.ptr <= b.ptr /\ h.wilderness \in Nexts(h, b.ptr - SOM)

\* How srealloc of payload b to n bytes, r, leaves the client with M.
Settled(h, L, b, n, r, M) ==
  /\ HeapInv(r.heap, M)
  /\ WildLast(h) /\ r.heap.fault = "none" => WildLast(r.heap) \/ LeftBehind(h, L, M)
  /\ r.heap.fault # "none" => Accused(h, b.ptr - SOM, r.heap.fault) /\ M = L
  /\ Gained(L, M, {b}, n)

LEMMA SreallocCall ==
  ASSUME NEW h, NEW L, HeapInv(h, L), h.fault = "none", NEW b \in L, NEW n \in Nat, NEW junk,
         NEW r, r = Srealloc(h, b.ptr - SOM, n, junk), NEW M,
         M = IF r.block = NULL \/ r.heap.fault # "none" THEN L
             ELSE (L \ {b}) \cup {Payload(r.block, n)}
  PROVE  Settled(h, L, b, n, r, M)
<1> DEFINE a == b.ptr - SOM
           g == r.heap
           x == r.block
<1>1. Good(h) /\ Sound(h) /\ L \subseteq Payloads /\ Proper(h) /\ Held(h, L)
  BY DEF HeapInv, Good
<1>2. a \in BusyOf(h)
  BY <1>1 DEF Held, BlocksHeld
<1>3. Reallocated(h, r, a, n)
  BY <1>1, <1>2, SreallocEnds
<1>4. a \in Nat /\ b.ptr = a + SOM /\ SOM \in Nat /\ b.len \in Nat /\ b.len <= Size(h, a)
      /\ Size(h, a) \in Nat
  <2>1. b.ptr \in Nat /\ b.len \in Nat /\ b.len <= Size(h, a)
    BY <1>1 DEF Payloads, Held
  <2>2. a \in Nat /\ Size(h, a) \in Nat
    BY <1>1, <1>2, BusySizes
  <2> QED
    BY <2>1, <2>2, HeapAssumption
<1>5. Sound(g) /\ (g.fault # "none" => Accused(h, a, g.fault))
  BY <1>3 DEF Reallocated
<1>6. CASE g.fault # "none"
  BY <1>1, <1>5, <1>6 DEF HeapInv, Gained, Settled
<1>7. CASE g.fault = "none" /\ x = NULL
  <2>1. g = h /\ M = L
    BY <1>3, <1>7 DEF Reallocated
  <2> QED
    BY <1>7, <2>1 DEF Gained, Settled
<1>8. CASE g.fault = "none" /\ x # NULL
  <2>1. Replaced(h, g, a, x, n)
    BY <1>3, <1>8 DEF Reallocated
  <2>2. M = (L \ {b}) \cup {Payload(x, n)}
    BY <1>8
  <2> DEFINE old == {b}
  <2>3. BlocksHeld(old) = {a} /\ old \in SUBSET L /\ L \ old = L \ {b}
    BY DEF BlocksHeld
  <2> HIDE DEF a, g, x, old
  <2>4. /\ Good(g) /\ Keeps(h, g, {a}, {x}) /\ x \notin BusyOf(h) \ {a} /\ n <= Size(g, x)
        /\ Proper(g)
        /\ WildLast(h) => WildLast(g) \/ (x <= a /\ Size(h, a) < n /\ h.wilderness \in Nexts(h, a))
    BY <1>1, <2>1 DEF Replaced
  <2>5. x \in Nat
    <3>1. x \in BusyOf(g)
      BY <2>4 DEF Keeps
    <3> QED
      BY <2>4, <3>1, BusySizes DEF Good
  <2>6. /\ Held(g, (L \ old) \cup {Payload(x, n)})
        /\ \A e \in L \ old : e.ptr # x + SOM
    <3>1. Keeps(h, g, BlocksHeld(old), {x}) /\ x \notin BusyOf(h) \ BlocksHeld(old)
      BY <2>3, <2>4
    <3>2. Held(h, L) /\ old \in SUBSET L /\ n <= Size(g, x)
      BY <1>1, <2>3, <2>4
    <3> QED
      BY <2>5, <3>1, <3>2, HeldGains
  <2>7. Payload(x, n).len = n /\ Payload(x, n).ptr = x + SOM
    BY DEF Payload
  <2>8. HeapInv(g, M)
    BY <2>2, <2>3, <2>4, <2>6 DEF HeapInv, Good, Held
  <2> DEFINE c == Payload(x, n)
  <2>9. c \notin L \ {b} /\ c \in M
    BY <2>2, <2>3, <2>6, <2>7
  <2>10. Gained(L, M, {b}, n)
    BY <2>2, <2>7, <2>9 DEF Gained
  <2>11. WildLast(h) => WildLast(g) \/ LeftBehind(h, L, M)
    <3> SUFFICES ASSUME x <= a, Size(h, a) < n, h.wilderness \in Nexts(h, a)
                 PROVE LeftBehind(h, L, M)
      BY <2>4
    <3>1. c # b
      BY <1>4, <2>7
    <3> HIDE DEF c
    <3>2. c \in M \ L /\ b \in L \ M
      BY <2>2, <2>9, <3>1 DEF c
    <3>3. c.ptr <= b.ptr
      BY <1>4, <2>5, <2>7 DEF c
    <3>4. b.ptr - SOM = a
      BY DEF a
    <3> QED
      BY <3>2, <3>3, <3>4 DEF LeftBehind
  <2> QED
    BY <1>8, <2>8, <2>10, <2>11 DEF g, Settled
<1> QED
  BY <1>6, <1>7, <1>8

IInv == HeapInv(heap, live)

\* The model's words for what the lemmas speak of.
LEMMA SameWords ==
  ASSUME Sound(heap)
  PROVE  /\ Blocks = BlocksOf(heap) /\ FreeBlocks = FreeOf(heap) /\ Mapped = Mappings(heap)
         /\ WildernessIsLast <=> WildLast(heap)
         /\ \A a : End(heap, a) = EndAt(heap.meta, a) /\ Foot(heap, a) = FootAt(heap.meta, a)
<1>1. Blocks = BlocksOf(heap) /\ FreeBlocks = FreeOf(heap) /\ Mapped = Mappings(heap)
  BY DEF Blocks, FreeBlocks, Mapped, BlocksOf, FreeOf, Mappings
<1>2. \A a : End(heap, a) = EndAt(heap.meta, a) /\ Foot(heap, a) = FootAt(heap.meta, a)
  BY DEF End, EndAt, Foot, FootAt, Size
<1>3. heap.list = <<>> <=> BlocksOf(heap) = {}
  BY SoundTiles, Members DEF Linked, BlocksOf
<1> QED
  BY <1>1, <1>2, <1>3 DEF WildernessIsLast, WildLast

\* The causes are those the lemmas find.
LEMMA AccusedCause ==
  ASSUME Sound(heap), NEW b \in live, NEW fault, Accused(heap, b.ptr - SOM, fault)
  PROVE  Cause(fault)
<1>1. /\ Blocks = BlocksOf(heap) /\ Mapped = Mappings(heap)
      /\ WildernessIsLast <=> WildLast(heap)
  BY SameWords
<1>2. CASE fault = "foreign" /\ heap.start \notin AlignedBreaks
  BY <1>2 DEF Cause, AlignedBreaks
<1>3. CASE /\ fault = "munmap"
           /\ \E x \in BlocksOf(heap) : Size(heap, x) >= MMAP_THRESHOLD \/ Size(heap, x) % Align # 0
  BY <1>1, <1>3 DEF Cause
<1>4. CASE fault = "unlisted" /\ b.ptr - SOM \in Mappings(heap)
  BY <1>4 DEF Cause, Mappings
<1>5. CASE fault \in {"corrupt", "assert455"} /\ ~ WildLast(heap)
  BY <1>1, <1>5 DEF Cause
<1>6. CASE fault = "assert350" /\ ~ Even(heap)
  BY <1>1, <1>6 DEF Cause, Even
<1>7. CASE fault = "clobbered" /\ b.ptr - SOM \in BlocksOf(heap) /\ Prevs(heap, b.ptr - SOM) # {}
  BY <1>1, <1>7 DEF Cause
<1>8. CASE fault = "null" /\ (~ Room(heap, MMAP_THRESHOLD + 2 * SOM) \/ MapAddrs \subseteq Mappings(heap))
  BY <1>1, <1>8 DEF Cause
<1> QED
  BY <1>2, <1>3, <1>4, <1>5, <1>6, <1>7, <1>8 DEF Accused

LEMMA BlamedCause ==
  ASSUME Sound(heap), NEW size \in Nat, NEW fault, Blamed(heap, fault, size)
  PROVE  Cause(fault)
<1>1. Blocks = BlocksOf(heap) /\ (WildernessIsLast <=> WildLast(heap))
  BY SameWords
<1>2. CASE fault = "foreign" /\ heap.start \notin AlignedBreaks
  BY <1>2 DEF Cause, AlignedBreaks
<1>3. CASE /\ fault = "munmap"
           /\ \E b \in FreeOf(heap) : /\ size <= Size(heap, b)
                                      /\ Size(heap, b) - size - 2 * SOM >= MMAP_THRESHOLD
  <2> PICK b \in FreeOf(heap) : Size(heap, b) - size - 2 * SOM >= MMAP_THRESHOLD
    BY <1>3
  <2>1. b \in BlocksOf(heap)
    BY DEF FreeOf
  <2>2. Size(heap, b) \in Nat
    BY <2>1, SoundTiles, BlockNumbers DEF Size
  <2>3. Size(heap, b) >= MMAP_THRESHOLD
    BY <2>2, HeapAssumption
  <2> QED
    BY <1>1, <1>3, <2>1, <2>3 DEF Cause
<1>4. CASE fault \in {"corrupt", "assert455"} /\ ~ WildLast(heap)
  BY <1>1, <1>4 DEF Cause
<1> QED
  BY <1>2, <1>3, <1>4 DEF Blamed

\* What every call sees to.
Sane ==
  /\ IInv'
  /\ WildLast(heap) /\ Defined' => WildLast(heap') \/ LeftBehind(heap, live, live')
  /\ Defined' \/ Cause(heap'.fault)

LEMMA SMallocStep ==
  ASSUME IInv, Defined, NEW n \in Nat, SMalloc(n)
  PROVE  Sane /\ Gained(live, live', {}, n) /\ (~ Defined' => live' = live)
<1> PICK junk \in Readings : Ends(Smalloc(heap, n, junk), {}, n)
  BY DEF SMalloc
<1> DEFINE r == Smalloc(heap, n, junk)
<1>1. heap' = r.heap
  BY DEF Ends
<1>2. live' = IF r.block = NULL \/ r.heap.fault # "none" THEN live
              ELSE (live \ {}) \cup {Payload(r.block, n)}
  BY DEF Ends, Payload
<1> DEFINE M == live'
<1>3. /\ HeapInv(r.heap, M)
      /\ WildLast(heap) /\ r.heap.fault = "none" => WildLast(r.heap)
      /\ r.heap.fault # "none" => Blamed(heap, r.heap.fault, AlignUp(n)) /\ M = live
      /\ Gained(live, M, {}, n)
  <2> HIDE DEF M
  <2>1. heap.fault = "none" /\ HeapInv(heap, live)
    BY DEF IInv, Defined
  <2>2. M = IF r.block = NULL \/ r.heap.fault # "none" THEN live
            ELSE (live \ {}) \cup {Payload(r.block, n)}
    BY <1>2 DEF M
  <2> QED
    BY <2>1, <2>2, SmallocCall
<1> HIDE DEF r
<1>4. r.heap.fault # "none" => Cause(r.heap.fault)
  <2>1. Sound(heap) /\ AlignUp(n) \in Nat
    BY AlignUpFacts DEF IInv, HeapInv
  <2> QED
    BY <1>3, <2>1, BlamedCause
<1> QED
  BY <1>1, <1>3, <1>4 DEF Sane, IInv, Defined

LEMMA SFreeStep ==
  ASSUME IInv, Defined, NEW b \in live, SFree(b)
  PROVE  Sane /\ live' = IF Defined' THEN live \ {b} ELSE live
<1> DEFINE g == Sfree(heap, b.ptr - SOM)
           M == live'
<1>1. heap' = g /\ M = IF g.fault # "none" THEN live ELSE live \ {b}
  BY DEF SFree
<1>2. /\ HeapInv(g, M)
      /\ WildLast(heap) /\ g.fault = "none" => WildLast(g)
      /\ g.fault # "none" =>
           \/ g.fault = "foreign" /\ heap.start \notin AlignedBreaks
           \/ g.fault = "munmap" /\ \E a \in BlocksOf(heap) : Size(heap, a) >= MMAP_THRESHOLD
  <2> HIDE DEF M
  <2>1. heap.fault = "none" /\ HeapInv(heap, live)
    BY DEF IInv, Defined
  <2> QED
    BY <1>1, <2>1, SfreeCall
<1> HIDE DEF g
<1>3. g.fault # "none" => Cause(g.fault)
  <2>1. g.fault # "none" => Accused(heap, b.ptr - SOM, g.fault)
    BY <1>2 DEF Accused
  <2> QED
    BY <2>1, AccusedCause DEF IInv, HeapInv
<1> QED
  BY <1>1, <1>2, <1>3 DEF Sane, IInv, Defined

LEMMA SReallocStep ==
  ASSUME IInv, Defined, NEW b \in live, NEW n \in Nat, SRealloc(b, n)
  PROVE  Sane /\ Gained(live, live', {b}, n) /\ (~ Defined' => live' = live)
<1> PICK junk \in Readings : Ends(Srealloc(heap, b.ptr - SOM, n, junk), {b}, n)
  BY DEF SRealloc
<1> DEFINE r == Srealloc(heap, b.ptr - SOM, n, junk)
           M == live'
<1>1. heap' = r.heap
  BY DEF Ends
<1>2. M = IF r.block = NULL \/ r.heap.fault # "none" THEN live
          ELSE (live \ {b}) \cup {Payload(r.block, n)}
  BY DEF Ends, Payload
<1>3. Settled(heap, live, b, n, r, M)
  <2> HIDE DEF M
  <2>1. heap.fault = "none" /\ HeapInv(heap, live)
    BY DEF IInv, Defined
  <2> QED
    BY <1>2, <2>1, SreallocCall
<1> HIDE DEF r
<1>4. r.heap.fault # "none" => Cause(r.heap.fault)
  BY <1>3, AccusedCause DEF IInv, HeapInv, Settled
<1> QED
  BY <1>1, <1>3, <1>4 DEF Sane, IInv, Defined, Settled

\* Every call keeps the invariant, and its faults have causes.

LEMMA InitInv == Init => IInv
<1> SUFFICES ASSUME Init PROVE IInv
  OBVIOUS
<1> PICK b \in InitialBreaks :
      heap = [list |-> <<>>, wilderness |-> NULL, meta |-> <<>>, brk |-> b, start |-> b,
              stats |-> <<0, 0, 0, 0, 0>>, overcount |-> 0, fault |-> "none"]
  BY DEF Init
<1>1. /\ heap.list = <<>> /\ heap.wilderness = NULL /\ heap.meta = <<>> /\ heap.brk = b
      /\ heap.start = b /\ heap.stats = <<0, 0, 0, 0, 0>> /\ heap.overcount = 0
      /\ heap.fault = "none" /\ Fields(heap) /\ live = {}
  BY DEF Fields, Init
<1>2. b \in Nat /\ b > 0 /\ SOM \in Nat
  BY HeapAssumption
<1>3. BlocksOf(heap) = {} /\ DOMAIN heap.meta = {} /\ heap.list \in Seq(Nat \ {NULL})
      /\ DOMAIN heap.list = {}
  BY <1>1 DEF BlocksOf, ToSet
<1>4. Linked(heap.list, heap.meta)
  BY <1>3 DEF Linked, Ordered, BlocksOf
<1>5. Tiles(BlocksOf(heap), heap.meta, heap.brk)
  BY <1>1, <1>2, <1>3
  DEF Tiles, Headed, Adjoin, Separate, Known, Rooted, Ended, MapsKnown
<1>6. Anchored(heap) /\ Pointed(heap)
  BY <1>1, <1>2, <1>3 DEF Anchored, Pointed, NULL
<1>7. Numbers(heap)
  BY <1>1 DEF Numbers, Counters
<1>8. Sound(heap)
  BY <1>1, <1>2, <1>4, <1>5, <1>6, <1>7 DEF Sound
<1>9. Merged(heap)
  BY <1>3 DEF Merged, MergedOn
<1>10. AllOf(heap) = {} /\ FreeOf(heap) = {} /\ BusyOf(heap) = {} /\ Mappings(heap) = {}
  BY <1>3 DEF AllOf, FreeOf, BusyOf, BusyIn, Mappings
<1>11. Proper(heap)
  <2>1. Cardinality({}) = 0 /\ SizeSum(heap.meta, {}) = 0 /\ IsFiniteSet({})
    BY FS_EmptySet, SumEmpty
  <2> DEFINE c == Cardinality(AllOf(heap))
             f == Cardinality(FreeOf(heap))
             u == SizeSum(heap.meta, AllOf(heap))
             v == SizeSum(heap.meta, FreeOf(heap))
  <2>2. c = 0 /\ f = 0 /\ u = 0 /\ v = 0 /\ IsFiniteSet(Mappings(heap))
    BY <1>10, <2>1
  <2> HIDE DEF c, f, u, v
  <2>3. 2 * SOM * c = 0 /\ u + heap.overcount = 0
    BY <1>1, <1>2, <2>2
  <2>4. heap.stats = <<c, f, u + heap.overcount, v, 2 * SOM * c>>
    BY <1>1, <2>2, <2>3
  <2> QED
    BY <2>2, <2>4 DEF Proper, Books, c, f, u, v
<1>12. Held(heap, live)
  BY <1>1, <1>10 DEF Held, BlocksHeld
<1> QED
  BY <1>8, <1>9, <1>11, <1>12 DEF IInv, HeapInv, Held
-----------------------------------------------------------------------------
(* The calls, and what they promise.                                       *)

\* A payload that is new is fresh.
LEMMA HeldFresh ==
  ASSUME NEW h, Sound(h), NEW M, Held(h, M), NEW K \in SUBSET M, NEW c \in M, c \notin K
  PROVE  c \in Promise!Fresh(K, c.len)
<1> DEFINE Space == 0 .. HeapEnd \cup {x + SOM : x \in MapAddrs}
<1>1. c \in Payloads /\ c.ptr - SOM \in BusyOf(h) /\ SOM \in Nat /\ HeapEnd \in Nat
  BY HeapAssumption DEF Held, BlocksHeld
<1>2. c.ptr \in Space
  <2> DEFINE a == c.ptr - SOM
  <2>1. a \in BusyOf(h) /\ c.ptr = a + SOM /\ c.ptr \in Nat
    BY <1>1 DEF Payloads
  <2> HIDE DEF a
  <2>2. a \in Nat /\ (a \in BlocksOf(h) \/ a \in Mappings(h))
    BY <2>1, BusySizes
  <2>3. CASE a \in BlocksOf(h)
    <3>1. /\ FootAt(h.meta, a) = a + SOM + h.meta[a].size /\ h.meta[a].size \in Nat
          /\ FootAt(h.meta, a) \in Nat /\ EndAt(h.meta, a) \in Nat
          /\ FootAt(h.meta, a) < EndAt(h.meta, a) /\ EndAt(h.meta, a) <= h.brk /\ h.brk <= HeapEnd
          /\ h.brk \in Nat
      BY <2>3, SoundTiles, BlockNumbers
    <3>2. c.ptr <= HeapEnd
      BY <1>1, <2>1, <2>2, <3>1
    <3> QED
      BY <1>1, <2>1, <3>2
  <2>4. CASE a \in Mappings(h)
    BY <2>1, <2>4 DEF Mappings
  <2> QED
    BY <2>2, <2>3, <2>4
<1>3. \A d \in K : Promise!Apart(c, d)
  <2>1. ASSUME NEW d \in K PROVE Promise!Apart(c, d)
    <3>1. d \in M /\ c # d
      BY <2>1
    <3>2. c.ptr + c.len <= d.ptr \/ d.ptr + d.len <= c.ptr
      BY <3>1, HeldApart
    <3> QED
      BY <3>2 DEF Promise!Apart
  <2> QED
    BY <2>1
<1>4. c \in [ptr : Space, len : {c.len}]
  <2> HIDE DEF Space
  <2> QED
    BY <1>1, <1>2 DEF Payloads
<1> QED
  BY <1>3, <1>4 DEF Promise!Fresh

\* The client's new payload is promised.
LEMMA GainPromised ==
  ASSUME IInv', Defined', NEW n
  PROVE  /\ Gained(live, live', {}, n) => live' = live \/ Promise!Allocate(n)
         /\ \A b \in live : Gained(live, live', {b}, n) => live' = live \/ Promise!Resize(b, n)
<1>1. Sound(heap') /\ Held(heap', live')
  BY DEF IInv, HeapInv, Defined
<1>2. ASSUME NEW old \in SUBSET live, NEW c \in live', c.len = n, c \notin live \ old,
             live' = (live \ old) \cup {c}
      PROVE  c \in Promise!Fresh(live \ old, n)
  <2> DEFINE M == live'
             K == live \ old
  <2>1. Held(heap', M) /\ K \in SUBSET M /\ c \in M /\ c \notin K
    BY <1>1, <1>2
  <2> HIDE DEF M, K
  <2>2. c \in Promise!Fresh(K, c.len)
    BY <1>1, <2>1, HeldFresh
  <2> QED
    BY <1>2, <2>2 DEF K
<1>3. ASSUME Gained(live, live', {}, n), live' # live PROVE Promise!Allocate(n)
  <2> PICK c \in live' : c.len = n /\ c \notin live \ {} /\ live' = (live \ {}) \cup {c}
    BY <1>3 DEF Gained
  <2> DEFINE none == {}
  <2>1. none \in SUBSET live /\ live \ none = live /\ c \notin live \ none
        /\ live' = (live \ none) \cup {c} /\ live' = live \cup {c}
    OBVIOUS
  <2> HIDE DEF none
  <2>2. c \in Promise!Fresh(live, n)
    BY <1>2, <2>1
  <2> QED
    BY <2>1, <2>2 DEF Promise!Allocate
<1>4. ASSUME NEW b \in live, Gained(live, live', {b}, n), live' # live PROVE Promise!Resize(b, n)
  <2> PICK c \in live' : c.len = n /\ c \notin live \ {b} /\ live' = (live \ {b}) \cup {c}
    BY <1>4 DEF Gained
  <2>1. c \in Promise!Fresh(live \ {b}, n)
    BY <1>2
  <2> QED
    BY <2>1 DEF Promise!Resize
<1> QED
  BY <1>3, <1>4

\* Every call of the client keeps the invariant, and the promise.
LEMMA CallSane ==
  ASSUME IInv, Defined, Next
  PROVE  Sane /\ [Promise!Next]_live
<1> DEFINE Lengths == Requests \cup {(num * n) % WordSize : num \in Counts, n \in Requests}
<1>1. Lengths \subseteq Nat
  <2>1. ASSUME NEW num \in Counts, NEW n \in Requests PROVE (num * n) % WordSize \in Nat
    <3> DEFINE prod == num * n
    <3>1. prod \in Nat /\ WordSize \in Nat \ {0}
      BY HeapAssumption
    <3> HIDE DEF prod
    <3>2. prod % WordSize \in Nat
      BY <3>1
    <3> QED
      BY <3>2 DEF prod
  <2>2. Requests \subseteq Nat
    BY HeapAssumption
  <2>3. ASSUME NEW x \in Lengths, x \notin Requests PROVE x \in Nat
    <3> PICK num \in Counts, n \in Requests : x = (num * n) % WordSize
      BY <2>3
    <3> QED
      BY <2>1
  <2> HIDE DEF Lengths
  <2> QED
    BY <2>2, <2>3
<1>2. ASSUME NEW n \in Lengths, SMalloc(n) PROVE Sane /\ [Promise!Next]_live
  <2>1. Sane /\ Gained(live, live', {}, n) /\ (~ Defined' => live' = live)
    BY <1>1, <1>2, SMallocStep
  <2>2. Defined' => live' = live \/ Promise!Allocate(n)
    BY <2>1, GainPromised DEF Sane
  <2> QED
    BY <2>1, <2>2 DEF Promise!Next
<1>3. ASSUME NEW b \in live, SFree(b) PROVE Sane /\ [Promise!Next]_live
  BY <1>3, SFreeStep DEF Promise!Next, Promise!Release
<1>4. ASSUME NEW b \in live, NEW n \in Lengths, SRealloc(b, n) PROVE Sane /\ [Promise!Next]_live
  <2>1. Sane /\ Gained(live, live', {b}, n) /\ (~ Defined' => live' = live)
    <3>1. n \in Nat
      BY <1>1
    <3> HIDE DEF Lengths
    <3> QED
      BY <1>4, <3>1, SReallocStep
  <2>2. Defined' => live' = live \/ Promise!Resize(b, n)
    BY <2>1, GainPromised DEF Sane
  <2> QED
    BY <2>1, <2>2 DEF Promise!Next
<1>5. CASE \E n \in Requests : SMalloc(n)
  BY <1>2, <1>5
<1>6. CASE \E num \in Counts, n \in Requests : SCalloc(num, n)
  <2> PICK num \in Counts, n \in Requests : SCalloc(num, n)
    BY <1>6
  <2>1. (num * n) % WordSize \in Lengths /\ SMalloc((num * n) % WordSize)
    BY DEF SCalloc
  <2> QED
    BY <1>2, <2>1
<1>7. CASE \E b \in live, n \in Requests : SRealloc(b, n)
  BY <1>4, <1>7
<1> QED
  BY <1>3, <1>5, <1>6, <1>7 DEF Next, Undefined, Defined

LEMMA StepKeeps ==
  ASSUME IInv, [Next]_vars
  PROVE  IInv' /\ [Promise!Next]_live /\ (Defined => Sane \/ UNCHANGED vars)
<1>1. CASE UNCHANGED vars
  BY <1>1 DEF vars, IInv, HeapInv
<1>2. CASE Next /\ Defined
  BY <1>2, CallSane DEF Sane
<1>3. CASE Next /\ ~ Defined
  <2>1. UNCHANGED vars
    BY <1>3 DEF Next, Undefined, Defined
  <2> QED
    BY <1>1, <2>1
<1> QED
  BY <1>1, <1>2, <1>3

LEMMA IInvHolds == Spec => []IInv
  BY InitInv, StepKeeps, PTL DEF Spec

-----------------------------------------------------------------------------
(* The properties.                                                         *)

LEMMA TypesKept == IInv => TypeOK
<1> SUFFICES ASSUME IInv PROVE TypeOK
  OBVIOUS
<1>1. Sound(heap) /\ live \subseteq Payloads
  BY DEF IInv, HeapInv
<1>2. heap.list \in Seq(Nat \ {NULL}) /\ heap.wilderness \in Nat /\ heap.start \in Int
  BY <1>1 DEF Sound, Linked, Pointed, Anchored
<1>3. /\ \A a \in DOMAIN heap.meta : heap.meta[a] \in [size : Nat, is_free : BOOLEAN]
      /\ heap.brk \in Nat
  BY <1>1 DEF Sound, Tiles, Known, Ended, Meta
<1>4. heap.stats \in [1 .. 5 -> Int] /\ heap.overcount \in Nat
  BY <1>1 DEF Sound, Numbers, Counters
<1> QED
  BY <1>1, <1>2, <1>3, <1>4 DEF TypeOK, Payloads

\* The list and what it says of the blocks.
LEMMA OrderKept ==
  ASSUME Sound(heap)
  PROVE  /\ IsInjective(heap.list)
         /\ \A i, j \in DOMAIN heap.list : i < j => Before(heap, heap.list[i], heap.list[j])
<1>1. Linked(heap.list, heap.meta)
  BY SoundTiles
<1>2. \A i, j \in DOMAIN heap.list : i < j => Before(heap, heap.list[i], heap.list[j])
  BY <1>1 DEF Linked, Ordered, Precedes, Before, Size
<1> QED
  BY <1>1, <1>2, LinkedOnce

LEMMA TilesKept == IInv => BlocksTile
<1> SUFFICES ASSUME IInv PROVE BlocksTile
  OBVIOUS
<1>1. Sound(heap)
  BY DEF IInv, HeapInv
<1>2. /\ Blocks = BlocksOf(heap)
      /\ \A a : End(heap, a) = EndAt(heap.meta, a) /\ Foot(heap, a) = FootAt(heap.meta, a)
  BY <1>1, SameWords
<1>3. /\ Headed(Blocks, heap.meta) /\ Adjoin(Blocks, heap.meta, heap.brk)
      /\ Separate(Blocks, heap.meta)
  BY <1>1, <1>2, SoundTiles DEF Tiles
<1>4. \A a \in Blocks :
        /\ Foot(heap, a) \in DOMAIN heap.meta
        /\ heap.meta[Foot(heap, a)] = heap.meta[a]
        /\ End(heap, a) \in Blocks \cup {heap.brk}
  BY <1>2, <1>3 DEF Headed, Adjoin
<1>5. \A a, b \in Blocks : a < b => End(heap, a) <= b
  BY <1>2, <1>3 DEF Separate
<1> QED
  BY <1>1, <1>4, <1>5, OrderKept DEF BlocksTile

LEMMA ListsKept == IInv => ListKept
<1> SUFFICES ASSUME IInv PROVE ListKept
  OBVIOUS
<1>1. Sound(heap) /\ (Defined => Merged(heap))
  BY DEF IInv, HeapInv, Defined
<1>2. ListSorted
  BY <1>1, OrderKept DEF ListSorted
<1>3. ASSUME Defined, NEW a \in FreeBlocks PROVE End(heap, a) \notin FreeBlocks
  <2>1. /\ Blocks = BlocksOf(heap) /\ FreeBlocks = FreeOf(heap)
        /\ End(heap, a) = EndAt(heap.meta, a)
    BY <1>1, SameWords
  <2> QED
    BY <1>1, <1>3, <2>1 DEF Merged, MergedOn, FreeOf
<1> QED
  BY <1>2, <1>3 DEF ListKept, Coalesced

LEMMA BooksKept == IInv => StatisticsTrue
<1> SUFFICES ASSUME IInv, Defined PROVE StatisticsTrue
  BY DEF StatisticsTrue
<1>1. Sound(heap) /\ Books(heap, FreeOf(heap))
  BY DEF IInv, HeapInv, Defined, Proper
<1>2. /\ Blocks \cup Mapped = AllOf(heap) /\ FreeBlocks = FreeOf(heap)
  BY <1>1, SameWords DEF AllOf
<1>3. \A A : TotalSize(A) = SizeSum(heap.meta, A)
  BY DEF TotalSize, SizeSum, Size
<1> QED
  BY <1>1, <1>2, <1>3 DEF Books, StatisticsTrue

LEMMA HeldKept == IInv => BusyBlocksHeld
<1> SUFFICES ASSUME IInv, Defined PROVE BusyBlocksHeld
  BY DEF BusyBlocksHeld
<1>1. Sound(heap) /\ Held(heap, live)
  BY DEF IInv, HeapInv, Defined
<1>2. (Blocks \ FreeBlocks) \cup Mapped = BusyOf(heap)
  BY <1>1, SameWords DEF BusyOf, BusyIn, FreeOf, Mappings
<1> QED
  BY <1>1, <1>2 DEF Held, BlocksHeld, BusyBlocksHeld

\* A step follows the wilderness, and goes wrong only with a cause.
LEMMA StepFollows ==
  ASSUME IInv, [Next]_vars
  PROVE  /\ WildernessIsLast /\ Defined' =>
              \/ WildernessIsLast'
              \/ \E b \in live \ live', c \in live' \ live :
                   c.ptr <= b.ptr /\ heap.wilderness \in Nexts(heap, b.ptr - SOM)
         /\ Defined /\ ~ Defined' => Cause(heap'.fault)
<1>1. Sound(heap) /\ Sound(heap)' /\ (Defined => Sane \/ UNCHANGED vars)
  BY StepKeeps DEF IInv, HeapInv
<1>2. (WildernessIsLast <=> WildLast(heap)) /\ (WildernessIsLast <=> WildLast(heap))'
  <2>1. WildernessIsLast <=> WildLast(heap)
    BY <1>1, SameWords
  <2>2. (WildernessIsLast <=> WildLast(heap))'
    <3> DEFINE g == heap'
    <3>1. g.list = <<>> <=> BlocksOf(g) = {}
      <4>1. Sound(g)
        BY <1>1
      <4> HIDE DEF g
      <4> QED
        BY <4>1, SoundTiles, Members DEF Linked, BlocksOf
    <3>2. Blocks' = BlocksOf(g)
      BY DEF Blocks, BlocksOf
    <3>3. \A a : End(g, a) = EndAt(g.meta, a)
      BY DEF End, EndAt, Foot, FootAt, Size
    <3> QED
      BY <3>1, <3>2, <3>3 DEF WildernessIsLast, WildLast
  <2> QED
    BY <2>1, <2>2
<1>3. CASE UNCHANGED vars
  <2>1. heap' = heap /\ (Defined <=> Defined') /\ (WildLast(heap) <=> WildLast(heap'))
    BY <1>3 DEF vars, Defined
  <2> QED
    BY <1>2, <2>1
<1>4. CASE Defined /\ Sane
  BY <1>2, <1>4 DEF Sane, LeftBehind
<1>5. CASE ~ Defined
  <2>1. UNCHANGED vars
    BY <1>5 DEF Next, Undefined, Defined
  <2> QED
    BY <1>3, <2>1
<1> QED
  BY <1>1, <1>3, <1>4, <1>5

\* The list, the metadata, the counters and the client's payloads are what the
\* code takes them for in every state of every run, after a fault too.
THEOREM TypesCorrect == Spec => []TypeOK
  BY IInvHolds, TypesKept, PTL

\* The blocks fill the heap up to the break without a gap or an overlap, each
\* linked once and with a footer equal to its header, after any sequence of
\* splits, merges and extensions.
THEOREM HeapTiled == Spec => []BlocksTile
  BY IInvHolds, TilesKept, PTL

\* The list stays ordered by size and address, and no two free blocks stay
\* neighbours.
THEOREM ListInOrder == Spec => []ListKept
  BY IInvHolds, ListsKept, PTL

\* The five counters of malloc_3 are those of its blocks and mappings, but for the
\* bytes an extension that failed has counted.
THEOREM CountersTrue == Spec => []StatisticsTrue
  BY IInvHolds, BooksKept, PTL

\* The busy blocks and the mappings are those of the payloads the client holds,
\* each as long as was asked: no call leaks one or hands it out twice.
THEOREM NothingLeaks == Spec => []BusyBlocksHeld
  BY IInvHolds, HeldKept, PTL

\* The wilderness pointer is left behind only where srealloc absorbs the wilderness
\* into the block before.
THEOREM WildernessTaken == Spec => WildernessFollowed
<1>1. IInv /\ [Next]_vars =>
        [WildernessIsLast /\ Defined' =>
           \/ WildernessIsLast'
           \/ \E b \in live \ live', c \in live' \ live :
                c.ptr <= b.ptr /\ heap.wilderness \in Nexts(heap, b.ptr - SOM)]_vars
  BY StepFollows
<1> QED
  BY <1>1, IInvHolds, PTL DEF Spec, WildernessFollowed

\* A call goes wrong only in one of the ways the heap it is made on has a cause
\* for.
THEOREM FaultsExplained == Spec => FaultsHaveCauses
<1>1. IInv /\ [Next]_vars => [Defined /\ ~ Defined' => Cause(heap'.fault)]_vars
  BY StepFollows
<1> QED
  BY <1>1, IInvHolds, PTL DEF Spec, FaultsHaveCauses

\* Until it goes wrong, malloc_3 is an allocator: every payload it hands out is
\* disjoint from those in use and as long as was asked.
THEOREM KeepsPromise == Spec => ImplementsAllocator
<1>1. Init => Promise!Init
  BY DEF Init, Promise!Init
<1>2. IInv /\ [Next]_vars => [Promise!Next]_live
  BY StepKeeps
<1> QED
  BY <1>1, <1>2, IInvHolds, PTL DEF Spec, ImplementsAllocator, Promise!Spec
=============================================================================
