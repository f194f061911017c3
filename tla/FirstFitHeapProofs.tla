-------------------------- MODULE FirstFitHeapProofs --------------------------
(***************************************************************************)
(* Proofs about FirstFitHeap for every size of the metadata and of the     *)
(* heap, and whatever sizes the client asks for.                           *)
(***************************************************************************)
EXTENDS FirstFitHeap, DataLemmas

-----------------------------------------------------------------------------
(* The invariant, as predicates on a list of blocks and a set of payloads. *)

Ordered(bs) ==
  \A i, j \in DOMAIN bs : i < j => Payload(bs[i]) + bs[i].size <= bs[j].addr

Listed(bs) == bs \in Seq(Block) /\ Ordered(bs)

BusyHeld(bs, L) ==
  \A i \in DOMAIN bs :
    ~ bs[i].is_free => \E b \in L : b.ptr = Payload(bs[i]) /\ b.len <= bs[i].size

HeldBusy(bs, L) ==
  \A b \in L : \E i \in DOMAIN bs : b.ptr = Payload(bs[i]) /\ ~ bs[i].is_free

OneHolder(L) == \A b, c \in L : b.ptr = c.ptr => b = c

Held(bs, L) == BusyHeld(bs, L) /\ HeldBusy(bs, L) /\ OneHolder(L)

Payloads == [ptr : Nat, len : Nat]

\* The memory beyond the break is untouched, that below it was granted.
Granted(bs) == Break(bs) <= HeapEnd

IInv ==
  /\ Listed(blocks) /\ Granted(blocks) /\ stats \in Stats
  /\ live \subseteq Payloads /\ Held(blocks, live)

-----------------------------------------------------------------------------
(* Blocks in memory.                                                       *)

\* The parts of a list of blocks have their types.
LEMMA BlockTypes ==
  ASSUME NEW bs \in Seq(Block)
  PROVE  /\ Len(bs) \in Nat /\ DOMAIN bs = 1 .. Len(bs)
         /\ \A i \in DOMAIN bs :
              /\ bs[i] \in Block /\ bs[i].addr \in Nat /\ bs[i].size \in Nat
              /\ bs[i].is_free \in BOOLEAN
              /\ Payload(bs[i]) \in Nat /\ bs[i].addr < Payload(bs[i])
<1>1. Len(bs) \in Nat /\ DOMAIN bs = 1 .. Len(bs)
  BY LenProperties
<1>2. \A i \in DOMAIN bs : bs[i] \in Block
  BY <1>1, ElementOfSeq
<1> QED
  BY <1>1, <1>2, HeapAssumption DEF Block, Payload

\* Different blocks have different payloads.
LEMMA PayloadInjective ==
  ASSUME NEW bs, Listed(bs), NEW i \in DOMAIN bs, NEW j \in DOMAIN bs,
         Payload(bs[i]) = Payload(bs[j])
  PROVE  i = j
<1>1. i \in Nat /\ j \in Nat
  BY BlockTypes DEF Listed
<1>2. /\ Payload(bs[i]) \in Nat /\ bs[i].size \in Nat /\ bs[i].addr < Payload(bs[i])
      /\ bs[i].addr \in Nat /\ bs[j].addr \in Nat /\ bs[j].size \in Nat
      /\ bs[j].addr < Payload(bs[j])
  BY BlockTypes DEF Listed
<1>3. ~ (i < j)
  BY <1>2 DEF Listed, Ordered
<1>4. ~ (j < i)
  BY <1>2 DEF Listed, Ordered
<1> QED
  BY <1>1, <1>3, <1>4

\* Every block ends at the break or before it.
LEMMA BreakBounds ==
  ASSUME NEW bs, Listed(bs)
  PROVE  /\ Break(bs) \in Nat
         /\ \A i \in DOMAIN bs : Payload(bs[i]) + bs[i].size <= Break(bs)
<1>1. Len(bs) \in Nat /\ DOMAIN bs = 1 .. Len(bs) /\ bs \in Seq(Block)
  BY BlockTypes DEF Listed
<1>2. CASE bs = <<>>
  BY <1>1, <1>2, EmptySeq DEF Break
<1>3. CASE bs # <<>>
  <2>1. Len(bs) \in DOMAIN bs
    BY <1>1, <1>3, EmptySeq
  <2>2. Break(bs) = Payload(bs[Len(bs)]) + bs[Len(bs)].size
    BY <1>3 DEF Break, Last
  <2>3. /\ Payload(bs[Len(bs)]) \in Nat /\ bs[Len(bs)].size \in Nat
        /\ bs[Len(bs)].addr < Payload(bs[Len(bs)]) /\ bs[Len(bs)].addr \in Nat
    BY <1>1, <2>1, BlockTypes
  <2>4. ASSUME NEW i \in DOMAIN bs
        PROVE  Payload(bs[i]) + bs[i].size <= Break(bs)
    <3>1. Payload(bs[i]) \in Nat /\ bs[i].size \in Nat
      BY <1>1, BlockTypes
    <3>2. CASE i = Len(bs)
      BY <2>2, <2>3, <3>2
    <3>3. CASE i < Len(bs)
      <4>1. Payload(bs[i]) + bs[i].size <= bs[Len(bs)].addr
        BY <2>1, <3>3 DEF Listed, Ordered
      <4> QED
        BY <2>2, <2>3, <3>1, <4>1
    <3> QED
      BY <1>1, <3>2, <3>3
  <2> QED
    BY <2>2, <2>3, <2>4
<1> QED
  BY <1>2, <1>3

-----------------------------------------------------------------------------
(* What smalloc and sfree do to the list.                                  *)

\* nb is bs but for the state of block i, which may be a new one.
SameBut(bs, nb, i) ==
  /\ Listed(nb) /\ Granted(nb)
  /\ DOMAIN nb = DOMAIN bs \cup {i}
  /\ \A j \in DOMAIN bs :
       /\ Payload(nb[j]) = Payload(bs[j]) /\ nb[j].size = bs[j].size
       /\ j # i => nb[j].is_free = bs[j].is_free

\* Block i was not in use and now is, for n bytes.
Obtains(bs, nb, i, n) ==
  /\ SameBut(bs, nb, i)
  /\ i \in DOMAIN bs => bs[i].is_free
  /\ ~ nb[i].is_free /\ n <= nb[i].size /\ n \in 0 .. MaxRequest

\* Block i, which there was, is free now.
Yields(bs, nb, i) == i \in DOMAIN bs /\ SameBut(bs, nb, i) /\ nb[i].is_free

\* Marking a block moves nothing.
LEMMA MarkFacts ==
  ASSUME NEW bs, Listed(bs), Granted(bs), NEW i \in DOMAIN bs, NEW v \in BOOLEAN,
         NEW nb, nb = [bs EXCEPT ![i].is_free = v]
  PROVE  SameBut(bs, nb, i) /\ nb[i].is_free = v
<1> DEFINE e == [bs[i] EXCEPT !.is_free = v]
<1>1. /\ bs \in Seq(Block) /\ Len(bs) \in Nat /\ DOMAIN bs = 1 .. Len(bs)
      /\ bs[i] \in Block
  BY BlockTypes DEF Listed
<1>2. e \in Block /\ e.addr = bs[i].addr /\ e.size = bs[i].size /\ e.is_free = v
  BY <1>1 DEF Block
<1>3. nb = [bs EXCEPT ![i] = e]
  OBVIOUS
<1> HIDE DEF e
<1>4. /\ nb \in Seq(Block) /\ Len(nb) = Len(bs)
      /\ \A j \in 1 .. Len(bs) : nb[j] = IF j = i THEN e ELSE bs[j]
  BY <1>1, <1>2, <1>3, ExceptSeq
<1>5. DOMAIN nb = DOMAIN bs
  BY <1>1, <1>4, BlockTypes
<1>6. \A j \in DOMAIN bs :
        /\ nb[j].addr = bs[j].addr /\ nb[j].size = bs[j].size
        /\ Payload(nb[j]) = Payload(bs[j])
        /\ nb[j].is_free = IF j = i THEN v ELSE bs[j].is_free
  BY <1>1, <1>2, <1>4 DEF Payload
<1>7. Ordered(nb)
  BY <1>5, <1>6 DEF Listed, Ordered
<1>8. Break(nb) = Break(bs)
  <2>1. bs # <<>> /\ nb # <<>>
    BY <1>1, <1>4, EmptySeq
  <2>2. Len(bs) \in DOMAIN bs
    BY <1>1
  <2> QED
    BY <1>4, <1>6, <2>1, <2>2 DEF Break, Last
<1> QED
  BY <1>4, <1>5, <1>6, <1>7, <1>8 DEF SameBut, Listed, Granted

\* A block put at the break overlaps none.
LEMMA AppendFacts ==
  ASSUME NEW bs, Listed(bs), NEW n \in Nat,
         Break(bs) + size_of_metadata + n <= HeapEnd
  PROVE  LET e  == [addr |-> Break(bs), size |-> n, is_free |-> FALSE]
             nb == Append(bs, e)
             k  == Len(bs) + 1
         IN  SameBut(bs, nb, k) /\ k \notin DOMAIN bs /\ nb[k] = e
<1> DEFINE e  == [addr |-> Break(bs), size |-> n, is_free |-> FALSE]
           nb == Append(bs, e)
           k  == Len(bs) + 1
<1>1. bs \in Seq(Block) /\ Len(bs) \in Nat /\ DOMAIN bs = 1 .. Len(bs)
  BY BlockTypes DEF Listed
<1>2. e \in Block /\ e.addr = Break(bs) /\ e.size = n /\ Payload(e) = Break(bs) + size_of_metadata
  BY BreakBounds DEF Block, Payload
<1> HIDE DEF e
<1>3. /\ nb \in Seq(Block) /\ nb # <<>> /\ Len(nb) = k
      /\ \A i \in 1 .. Len(bs) : nb[i] = bs[i]
      /\ nb[k] = e
  BY <1>1, <1>2, AppendProperties
<1>4. DOMAIN nb = DOMAIN bs \cup {k} /\ k \notin DOMAIN bs
  BY <1>1, <1>3, BlockTypes
<1> HIDE DEF nb
<1>5. Ordered(nb)
  <2> SUFFICES ASSUME NEW i \in DOMAIN nb, NEW j \in DOMAIN nb, i < j
               PROVE  Payload(nb[i]) + nb[i].size <= nb[j].addr
    BY DEF Ordered
  <2>1. i \in DOMAIN bs /\ nb[i] = bs[i]
    BY <1>1, <1>3, <1>4
  <2>2. CASE j = k
    BY <1>2, <1>3, <2>1, <2>2, BreakBounds
  <2>3. CASE j \in DOMAIN bs
    BY <1>1, <1>3, <2>1, <2>3 DEF Listed, Ordered
  <2> QED
    BY <1>4, <2>2, <2>3
<1>6. Break(nb) = Break(bs) + size_of_metadata + n
  BY <1>2, <1>3 DEF Break, Last
<1>7. SameBut(bs, nb, k)
  BY <1>1, <1>3, <1>4, <1>5, <1>6 DEF SameBut, Listed, Granted
<1> QED
  BY <1>3, <1>4, <1>7 DEF nb, e

\* smalloc obtains the block it returns, old or new.
LEMMA SmallocObtains ==
  ASSUME NEW h, Listed(h.blocks), Granted(h.blocks), NEW n \in Nat, NEW r \in Smalloc(h, n)
  PROVE  Obtains(h.blocks, r.heap.blocks, r.i, n)
<1> DEFINE bs == h.blocks
<1>0. n \in 0 .. MaxRequest
  BY HeapAssumption DEF Smalloc
<1>1. CASE \E i \in First(Fitting(bs, n)) : r = [heap |-> Take(h, i), i |-> i]
  <2> PICK i \in First(Fitting(bs, n)) : r = [heap |-> Take(h, i), i |-> i]
    BY <1>1
  <2>1. i \in DOMAIN bs /\ bs[i].is_free /\ n <= bs[i].size
    <3>1. i \in DOMAIN bs /\ bs[i].is_free /\ bs[i].size >= n
      BY DEF First, Fitting
    <3>2. bs[i].size \in Nat
      BY <3>1, BlockTypes DEF Listed
    <3> QED
      BY <3>1, <3>2
  <2>2. r.i = i /\ r.heap.blocks = [bs EXCEPT ![i].is_free = FALSE]
    BY DEF Take
  <2>3. SameBut(bs, r.heap.blocks, i) /\ r.heap.blocks[i].is_free = FALSE
    <3>1. Listed(bs) /\ Granted(bs) /\ FALSE \in BOOLEAN
      OBVIOUS
    <3> HIDE DEF bs
    <3>2. ASSUME NEW nb, nb = [bs EXCEPT ![i].is_free = FALSE]
          PROVE  SameBut(bs, nb, i) /\ nb[i].is_free = FALSE
      BY <2>1, <3>1, <3>2, MarkFacts, Zenon
    <3> QED
      BY <2>2, <3>2, Zenon
  <2> QED
    BY <1>0, <2>1, <2>2, <2>3 DEF Obtains, SameBut
<1>2. CASE /\ Break(bs) + size_of_metadata + n <= HeapEnd
           /\ r = [heap |-> Grow(h, n), i |-> Len(bs) + 1]
  <2> DEFINE e == [addr |-> Break(bs), size |-> n, is_free |-> FALSE]
  <2>1. r.i = Len(bs) + 1 /\ r.heap.blocks = Append(bs, e)
    BY <1>2 DEF Grow
  <2>2. SameBut(bs, r.heap.blocks, r.i) /\ r.i \notin DOMAIN bs /\ r.heap.blocks[r.i] = e
    BY <1>2, <2>1, AppendFacts
  <2> QED
    BY <1>0, <2>2 DEF Obtains
<1> QED
  BY <1>1, <1>2 DEF Smalloc

\* sfree yields the block, twice or once.
LEMMA FreeYields ==
  ASSUME NEW h, Listed(h.blocks), Granted(h.blocks), NEW i \in DOMAIN h.blocks
  PROVE  Yields(h.blocks, Free(h, i).blocks, i)
<1>1. CASE h.blocks[i].is_free
  BY <1>1 DEF Free, Yields, SameBut
<1>2. CASE ~ h.blocks[i].is_free
  <2>1. Free(h, i).blocks = [h.blocks EXCEPT ![i].is_free = TRUE]
    BY <1>2 DEF Free
  <2> QED
    BY <2>1, MarkFacts, Zenon DEF Yields
<1> QED
  BY <1>1, <1>2

-----------------------------------------------------------------------------
(* What smalloc and sfree do to the payloads in use.                       *)

\* A block smalloc obtains is held by its caller, and every other as before.
LEMMA ObtainHeld ==
  ASSUME NEW bs, Listed(bs), NEW L, Held(bs, L),
         NEW nb, NEW i, NEW n, Obtains(bs, nb, i, n)
  PROVE  Held(nb, L \cup {[ptr |-> Payload(nb[i]), len |-> n]})
<1> DEFINE p == [ptr |-> Payload(nb[i]), len |-> n]
<1>1. /\ p.ptr = Payload(nb[i]) /\ p.len = n /\ i \in DOMAIN nb
      /\ ~ nb[i].is_free /\ n <= nb[i].size /\ Listed(nb)
      /\ i \in DOMAIN bs => bs[i].is_free
  BY DEF Obtains, SameBut
<1>2. ASSUME NEW j \in DOMAIN bs
      PROVE  /\ j \in DOMAIN nb /\ Payload(nb[j]) = Payload(bs[j]) /\ nb[j].size = bs[j].size
             /\ j # i => nb[j].is_free = bs[j].is_free
  BY DEF Obtains, SameBut
<1>3. \A j \in DOMAIN nb : j = i \/ j \in DOMAIN bs
  BY DEF Obtains, SameBut
<1> HIDE DEF p
<1>4. BusyHeld(nb, L \cup {p})
  BY <1>1, <1>2, <1>3 DEF Held, BusyHeld
<1>5. HeldBusy(nb, L \cup {p})
  BY <1>1, <1>2 DEF Held, HeldBusy
<1>6. ASSUME NEW b \in L PROVE b.ptr # p.ptr
  <2> PICK j \in DOMAIN bs : b.ptr = Payload(bs[j]) /\ ~ bs[j].is_free
    BY DEF Held, HeldBusy
  <2>1. j # i /\ j \in DOMAIN nb /\ b.ptr = Payload(nb[j])
    BY <1>1, <1>2
  <2> QED
    BY <1>1, <2>1, PayloadInjective
<1>7. OneHolder(L \cup {p})
  BY <1>6 DEF Held, OneHolder
<1> QED
  BY <1>4, <1>5, <1>7 DEF Held, p

\* It shares no byte with the payloads that were in use.
LEMMA ObtainFresh ==
  ASSUME NEW bs, Listed(bs), NEW L, L \subseteq Payloads, Held(bs, L),
         NEW nb, NEW i, NEW n, Obtains(bs, nb, i, n)
  PROVE  /\ [ptr |-> Payload(nb[i]), len |-> n] \in Promise!Fresh(L, n)
         /\ [ptr |-> Payload(nb[i]), len |-> n] \in Payloads
<1> DEFINE p == [ptr |-> Payload(nb[i]), len |-> n]
<1>1. /\ p.ptr = Payload(nb[i]) /\ p.len = n /\ i \in DOMAIN nb
      /\ n <= nb[i].size /\ n \in Nat /\ Listed(nb) /\ Granted(nb)
      /\ i \in DOMAIN bs => bs[i].is_free
  BY HeapAssumption DEF Obtains, SameBut
<1>2. Payload(nb[i]) \in Nat /\ nb[i].size \in Nat /\ nb[i].addr < Payload(nb[i])
      /\ nb[i].addr \in Nat
  BY <1>1, BlockTypes DEF Listed
<1>3. Payload(nb[i]) \in 0 .. HeapEnd
  <2>1. Payload(nb[i]) + nb[i].size <= Break(nb) /\ Break(nb) \in Nat /\ Break(nb) <= HeapEnd
    BY <1>1, BreakBounds DEF Granted
  <2> QED
    BY <1>2, <2>1, HeapAssumption
<1>4. p \in [ptr : 0 .. HeapEnd, len : {n}] /\ p \in Payloads
  BY <1>1, <1>2, <1>3 DEF Payloads
<1> HIDE DEF p
<1>5. ASSUME NEW b \in L PROVE Promise!Apart(p, b)
  <2> PICK j \in DOMAIN bs : b.ptr = Payload(bs[j]) /\ ~ bs[j].is_free
    BY DEF Held, HeldBusy
  <2>1. PICK c \in L : c.ptr = Payload(bs[j]) /\ c.len <= bs[j].size
    BY DEF Held, BusyHeld
  <2>2. c = b
    BY <2>1 DEF Held, OneHolder
  <2>3. /\ j # i /\ j \in DOMAIN nb /\ b.ptr = Payload(nb[j]) /\ b.len <= nb[j].size
        /\ b.len \in Nat
    BY <1>1, <2>1, <2>2 DEF Obtains, SameBut, Payloads
  <2>4. Payload(nb[j]) \in Nat /\ nb[j].size \in Nat /\ nb[j].addr < Payload(nb[j])
        /\ nb[j].addr \in Nat /\ i \in Nat /\ j \in Nat
    BY <1>1, <2>3, BlockTypes DEF Listed
  <2>5. CASE i < j
    <3>1. Payload(nb[i]) + nb[i].size <= nb[j].addr
      BY <1>1, <2>3, <2>5 DEF Listed, Ordered
    <3> QED
      BY <1>1, <1>2, <2>3, <2>4, <3>1 DEF Promise!Apart
  <2>6. CASE j < i
    <3>1. Payload(nb[j]) + nb[j].size <= nb[i].addr
      BY <1>1, <2>3, <2>6 DEF Listed, Ordered
    <3> QED
      BY <1>1, <1>2, <2>3, <2>4, <3>1 DEF Promise!Apart
  <2> QED
    BY <2>3, <2>4, <2>5, <2>6
<1> QED
  BY <1>4, <1>5 DEF Promise!Fresh, p

\* A block that is freed is no longer held.
LEMMA YieldHeld ==
  ASSUME NEW bs, Listed(bs), NEW L, Held(bs, L), NEW nb, NEW i, Yields(bs, nb, i)
  PROVE  Held(nb, {b \in L : b.ptr # Payload(bs[i])})
<1> DEFINE M == {b \in L : b.ptr # Payload(bs[i])}
<1>1. i \in DOMAIN bs /\ DOMAIN nb = DOMAIN bs /\ nb[i].is_free
  BY DEF Yields, SameBut
<1>2. ASSUME NEW j \in DOMAIN bs
      PROVE  /\ Payload(nb[j]) = Payload(bs[j]) /\ nb[j].size = bs[j].size
             /\ j # i => nb[j].is_free = bs[j].is_free
  BY DEF Yields, SameBut
<1>3. BusyHeld(nb, M)
  <2> SUFFICES ASSUME NEW j \in DOMAIN nb, ~ nb[j].is_free
               PROVE  \E b \in M : b.ptr = Payload(nb[j]) /\ b.len <= nb[j].size
    BY DEF BusyHeld
  <2>1. j \in DOMAIN bs /\ j # i /\ ~ bs[j].is_free
    BY <1>1, <1>2
  <2>2. PICK b \in L : b.ptr = Payload(bs[j]) /\ b.len <= bs[j].size
    BY <2>1 DEF Held, BusyHeld
  <2>3. Payload(bs[j]) # Payload(bs[i])
    BY <1>1, <2>1, PayloadInjective
  <2> QED
    BY <1>2, <2>1, <2>2, <2>3
<1>4. HeldBusy(nb, M)
  <2> SUFFICES ASSUME NEW b \in M
               PROVE  \E j \in DOMAIN nb : b.ptr = Payload(nb[j]) /\ ~ nb[j].is_free
    BY DEF HeldBusy
  <2>1. PICK j \in DOMAIN bs : b.ptr = Payload(bs[j]) /\ ~ bs[j].is_free
    BY DEF Held, HeldBusy
  <2>2. j # i
    BY <2>1
  <2> QED
    BY <1>1, <1>2, <2>1, <2>2
<1>5. OneHolder(M)
  BY DEF Held, OneHolder
<1> QED
  BY <1>3, <1>4, <1>5 DEF Held

-----------------------------------------------------------------------------
(* The counters.                                                           *)

Frees(bs) == {i \in DOMAIN bs : bs[i].is_free}

\* StatisticsTrue, of a list of blocks and counters.
Counted(bs, st) ==
  /\ st.allocated_blocks = Len(bs)
  /\ st.free_blocks = Cardinality(Frees(bs))
  /\ st.allocated_bytes = SizeSum(bs, DOMAIN bs)
  /\ st.free_bytes = SizeSum(bs, Frees(bs))
  /\ st.metadata_bytes = Len(bs) * size_of_metadata

\* What is summed is finite and has a size.
LEMMA Summable ==
  ASSUME NEW bs, Listed(bs), NEW A, A \subseteq DOMAIN bs
  PROVE  /\ IsFiniteSet(A) /\ Cardinality(A) \in Nat /\ SizeSum(bs, A) \in Nat
         /\ \A a \in A : bs[a].size \in Nat
<1>1. IsFiniteSet(DOMAIN bs)
  BY BlockTypes, FS_Interval DEF Listed
<1>2. IsFiniteSet(A) /\ Cardinality(A) \in Nat
  BY <1>1, FS_Subset, FS_CardinalityType
<1>3. \A a \in A : bs[a].size \in Nat
  BY BlockTypes DEF Listed
<1>4. SizeSum(bs, A) \in Nat
  BY <1>2, <1>3, SumType
<1> QED
  BY <1>2, <1>3, <1>4

\* B and x make A.
OneMore(B, x, A) == x \in A /\ B = A \ {x}

LEMMA OneMoreSums ==
  ASSUME NEW bs, Listed(bs), NEW A, A \subseteq DOMAIN bs, NEW B, NEW x, OneMore(B, x, A)
  PROVE  /\ SizeSum(bs, A) = SizeSum(bs, B) + bs[x].size
         /\ Cardinality(A) = Cardinality(B) + 1
<1>1. IsFiniteSet(A) /\ (\A a \in A : bs[a].size \in Nat) /\ Cardinality(A) \in Nat
  BY Summable
<1>2. B \subseteq DOMAIN bs /\ x \in A /\ B = A \ {x}
  BY DEF OneMore
<1>3. SizeSum(bs, B) \in Nat /\ Cardinality(B) \in Nat
  BY <1>2, Summable
<1>4. Cardinality(B) = Cardinality(A) - 1
  BY <1>1, <1>2, FS_RemoveElement
<1>5. SizeSum(bs, A) = bs[x].size + SizeSum(bs, B)
  BY <1>1, <1>2, SumSplit
<1> QED
  BY <1>1, <1>2, <1>3, <1>4, <1>5

Marked(bs, nb, i, v) == nb = [bs EXCEPT ![i].is_free = v]

\* A mark that changes moves one block and its bytes from one counter to the
\* other side.
LEMMA MarkSums ==
  ASSUME NEW bs, Listed(bs), Granted(bs), NEW i \in DOMAIN bs, NEW v \in BOOLEAN,
         bs[i].is_free # v, NEW nb, Marked(bs, nb, i, v)
  PROVE  /\ Len(nb) = Len(bs) /\ SizeSum(nb, DOMAIN nb) = SizeSum(bs, DOMAIN bs)
         /\ v => /\ Cardinality(Frees(nb)) = Cardinality(Frees(bs)) + 1
                 /\ SizeSum(nb, Frees(nb)) = SizeSum(bs, Frees(bs)) + bs[i].size
         /\ ~ v => /\ Cardinality(Frees(nb)) = Cardinality(Frees(bs)) - 1
                   /\ SizeSum(nb, Frees(nb)) = SizeSum(bs, Frees(bs)) - bs[i].size
<1>1. SameBut(bs, nb, i) /\ nb[i].is_free = v
  BY MarkFacts DEF Marked
<1>2. /\ Listed(nb) /\ DOMAIN nb = DOMAIN bs
      /\ \A j \in DOMAIN bs : nb[j].size = bs[j].size
      /\ \A j \in DOMAIN bs : j # i => nb[j].is_free = bs[j].is_free
  BY <1>1 DEF SameBut
<1>3. ASSUME NEW A, A \subseteq DOMAIN bs PROVE SizeSum(nb, A) = SizeSum(bs, A)
  <2>1. SameSizes(nb, bs, A)
    BY <1>2, <1>3 DEF SameSizes
  <2>2. IsFiniteSet(A)
    BY <1>3, Summable
  <2> QED
    BY <2>1, <2>2, SumSame
<1>4. Len(nb) = Len(bs)
  <2>1. nb \in Seq(Block) /\ bs \in Seq(Block)
    BY <1>2 DEF Listed
  <2> QED
    BY <1>2, <2>1, BlockTypes
<1>5. /\ DOMAIN bs \subseteq DOMAIN bs /\ Frees(bs) \subseteq DOMAIN bs
      /\ Frees(nb) \subseteq DOMAIN bs /\ bs[i].size \in Nat
  BY <1>2, BlockTypes DEF Frees, Listed
<1>6. /\ SizeSum(bs, Frees(nb)) \in Nat /\ SizeSum(bs, Frees(bs)) \in Nat
      /\ Cardinality(Frees(bs)) \in Nat /\ Cardinality(Frees(nb)) \in Nat
  BY <1>5, Summable
<1>7. SizeSum(nb, DOMAIN nb) = SizeSum(bs, DOMAIN bs) /\ SizeSum(nb, Frees(nb)) = SizeSum(bs, Frees(nb))
  BY <1>2, <1>3, <1>5
<1>8. CASE v
  <2>1. OneMore(Frees(bs), i, Frees(nb))
    BY <1>1, <1>2, <1>8 DEF Frees, OneMore
  <2>2. /\ SizeSum(bs, Frees(nb)) = SizeSum(bs, Frees(bs)) + bs[i].size
        /\ Cardinality(Frees(nb)) = Cardinality(Frees(bs)) + 1
    BY <1>5, <2>1, OneMoreSums
  <2> QED
    BY <1>4, <1>7, <1>8, <2>2
<1>9. CASE ~ v
  <2>1. OneMore(Frees(nb), i, Frees(bs))
    <3>1. bs[i].is_free
      BY <1>9, BlockTypes DEF Listed
    <3> QED
      BY <1>1, <1>2, <1>9, <3>1 DEF Frees, OneMore
  <2>2. /\ SizeSum(bs, Frees(bs)) = SizeSum(bs, Frees(nb)) + bs[i].size
        /\ Cardinality(Frees(bs)) = Cardinality(Frees(nb)) + 1
    BY <1>5, <2>1, OneMoreSums
  <2> QED
    BY <1>4, <1>5, <1>6, <1>7, <1>9, <2>2
<1> QED
  BY <1>8, <1>9

Appended(bs, nb, n) == nb = Append(bs, [addr |-> Break(bs), size |-> n, is_free |-> FALSE])

\* A busy block at the end is one more, with its bytes.
LEMMA AppendSums ==
  ASSUME NEW bs, Listed(bs), NEW n \in Nat,
         Break(bs) + size_of_metadata + n <= HeapEnd,
         NEW nb, Appended(bs, nb, n)
  PROVE  /\ Len(nb) = Len(bs) + 1 /\ Frees(nb) = Frees(bs)
         /\ SizeSum(nb, DOMAIN nb) = SizeSum(bs, DOMAIN bs) + n
         /\ SizeSum(nb, Frees(nb)) = SizeSum(bs, Frees(bs))
<1> DEFINE k == Len(bs) + 1
<1>1. /\ SameBut(bs, nb, k) /\ k \notin DOMAIN bs
      /\ nb[k] = [addr |-> Break(bs), size |-> n, is_free |-> FALSE]
  BY AppendFacts DEF Appended
<1>2. /\ Listed(nb) /\ DOMAIN nb = DOMAIN bs \cup {k}
      /\ \A j \in DOMAIN bs : nb[j].size = bs[j].size
      /\ \A j \in DOMAIN bs : nb[j].is_free = bs[j].is_free
      /\ nb[k].size = n /\ ~ nb[k].is_free
  <2>1. /\ Listed(nb) /\ DOMAIN nb = DOMAIN bs \cup {k}
        /\ \A j \in DOMAIN bs : nb[j].size = bs[j].size
        /\ \A j \in DOMAIN bs : j # k => nb[j].is_free = bs[j].is_free
    BY <1>1 DEF SameBut
  <2>2. nb[k].size = n /\ ~ nb[k].is_free
    BY <1>1
  <2>3. \A j \in DOMAIN bs : j # k
    BY <1>1
  <2> HIDE DEF k
  <2> QED
    BY <2>1, <2>2, <2>3
<1>3. Len(nb) = k
  <2>1. bs \in Seq(Block)
    BY DEF Listed
  <2>2. [addr |-> Break(bs), size |-> n, is_free |-> FALSE] \in Block
    BY BreakBounds DEF Block
  <2> QED
    BY <2>1, <2>2, AppendProperties DEF Appended
<1>4. Frees(nb) = Frees(bs) /\ DOMAIN bs = DOMAIN nb \ {k}
  BY <1>1, <1>2 DEF Frees
<1>5. ASSUME NEW A, A \subseteq DOMAIN bs PROVE SizeSum(nb, A) = SizeSum(bs, A)
  <2>1. SameSizes(nb, bs, A)
    BY <1>2, <1>5 DEF SameSizes
  <2>2. IsFiniteSet(A)
    BY <1>5, Summable
  <2> QED
    BY <2>1, <2>2, SumSame
<1>6. SizeSum(nb, DOMAIN nb) = SizeSum(nb, DOMAIN bs) + nb[k].size
  <2>1. DOMAIN nb \subseteq DOMAIN nb /\ OneMore(DOMAIN bs, k, DOMAIN nb)
    BY <1>2, <1>4 DEF OneMore
  <2> HIDE DEF k
  <2> QED
    BY <1>2, <2>1, OneMoreSums
<1>7. DOMAIN bs \subseteq DOMAIN bs /\ Frees(bs) \subseteq DOMAIN bs
  BY DEF Frees
<1>8. SizeSum(nb, DOMAIN bs) = SizeSum(bs, DOMAIN bs) /\ SizeSum(nb, Frees(bs)) = SizeSum(bs, Frees(bs))
  BY <1>5, <1>7
<1> QED
  BY <1>2, <1>3, <1>4, <1>6, <1>8

\* smalloc keeps the counters true.
LEMMA SmallocCounts ==
  ASSUME NEW h, Listed(h.blocks), Granted(h.blocks), h.stats \in Stats,
         Counted(h.blocks, h.stats), NEW n \in Nat, NEW r \in Smalloc(h, n)
  PROVE  Counted(r.heap.blocks, r.heap.stats)
<1> DEFINE bs == h.blocks
           nb == r.heap.blocks
           st == r.heap.stats
<1>1. CASE \E i \in First(Fitting(bs, n)) : r = [heap |-> Take(h, i), i |-> i]
  <2> PICK i \in First(Fitting(bs, n)) : r = [heap |-> Take(h, i), i |-> i]
    BY <1>1
  <2>1. i \in DOMAIN bs /\ bs[i].is_free = TRUE
    <3>1. i \in DOMAIN bs /\ bs[i].is_free
      BY DEF First, Fitting
    <3> QED
      BY <3>1, BlockTypes DEF Listed
  <2>2. /\ nb = [bs EXCEPT ![i].is_free = FALSE]
        /\ st = [h.stats EXCEPT !.free_blocks = @ - 1, !.free_bytes = @ - bs[i].size]
    BY DEF Take
  <2>3. /\ st.allocated_blocks = h.stats.allocated_blocks
        /\ st.free_blocks = h.stats.free_blocks - 1
        /\ st.allocated_bytes = h.stats.allocated_bytes
        /\ st.free_bytes = h.stats.free_bytes - bs[i].size
        /\ st.metadata_bytes = h.stats.metadata_bytes
    BY <2>2 DEF Stats
  <2> HIDE DEF nb, st, bs
  <2>4. /\ Len(nb) = Len(bs) /\ SizeSum(nb, DOMAIN nb) = SizeSum(bs, DOMAIN bs)
        /\ Cardinality(Frees(nb)) = Cardinality(Frees(bs)) - 1
        /\ SizeSum(nb, Frees(nb)) = SizeSum(bs, Frees(bs)) - bs[i].size
    <3>1. Listed(bs) /\ Granted(bs) /\ FALSE \in BOOLEAN /\ bs[i].is_free # FALSE
          /\ Marked(bs, nb, i, FALSE)
      BY <2>1, <2>2 DEF bs, Marked
    <3> QED
      BY <2>1, <3>1, MarkSums
  <2>5. Counted(bs, h.stats)
    BY DEF bs
  <2>6. Counted(nb, st)
    BY <2>3, <2>4, <2>5 DEF Counted
  <2> QED
    BY <2>6 DEF nb, st
<1>2. CASE /\ Break(bs) + size_of_metadata + n <= HeapEnd
           /\ r = [heap |-> Grow(h, n), i |-> Len(bs) + 1]
  <2>1. /\ nb = Append(bs, [addr |-> Break(bs), size |-> n, is_free |-> FALSE])
        /\ st = [h.stats EXCEPT !.allocated_blocks = @ + 1, !.allocated_bytes = @ + n,
                               !.metadata_bytes = @ + size_of_metadata]
    BY <1>2 DEF Grow
  <2>2. /\ st.allocated_blocks = h.stats.allocated_blocks + 1
        /\ st.free_blocks = h.stats.free_blocks
        /\ st.allocated_bytes = h.stats.allocated_bytes + n
        /\ st.free_bytes = h.stats.free_bytes
        /\ st.metadata_bytes = h.stats.metadata_bytes + size_of_metadata
    BY <2>1 DEF Stats
  <2>3. Listed(bs) /\ Counted(bs, h.stats)
    OBVIOUS
  <2> HIDE DEF nb, st, bs
  <2>4. /\ Len(nb) = Len(bs) + 1 /\ Frees(nb) = Frees(bs)
        /\ SizeSum(nb, DOMAIN nb) = SizeSum(bs, DOMAIN bs) + n
        /\ SizeSum(nb, Frees(nb)) = SizeSum(bs, Frees(bs))
    BY <1>2, <2>1, <2>3, AppendSums DEF Appended
  <2>5. (Len(bs) + 1) * size_of_metadata = Len(bs) * size_of_metadata + size_of_metadata
    <3>1. Len(bs) \in Nat
      BY <2>3, BlockTypes DEF Listed
    <3> QED
      BY <3>1, HeapAssumption
  <2>6. Counted(nb, st)
    BY <2>2, <2>3, <2>4, <2>5 DEF Counted
  <2> QED
    BY <2>6 DEF nb, st
<1> QED
  BY <1>1, <1>2 DEF Smalloc

\* sfree keeps the counters true, the second time too.
LEMMA FreeCounts ==
  ASSUME NEW h, Listed(h.blocks), Granted(h.blocks), h.stats \in Stats,
         Counted(h.blocks, h.stats), NEW i \in DOMAIN h.blocks
  PROVE  Counted(Free(h, i).blocks, Free(h, i).stats)
<1> DEFINE bs == h.blocks
           nb == Free(h, i).blocks
           st == Free(h, i).stats
<1>1. CASE ~ bs[i].is_free
  <2>1. bs[i].is_free = FALSE /\ i \in DOMAIN bs /\ Listed(bs) /\ Granted(bs)
        /\ Counted(bs, h.stats)
    BY <1>1, BlockTypes DEF Listed
  <2>2. /\ nb = [bs EXCEPT ![i].is_free = TRUE]
        /\ st = [h.stats EXCEPT !.free_blocks = @ + 1, !.free_bytes = @ + bs[i].size]
    BY <1>1 DEF Free
  <2>3. /\ st.allocated_blocks = h.stats.allocated_blocks
        /\ st.free_blocks = h.stats.free_blocks + 1
        /\ st.allocated_bytes = h.stats.allocated_bytes
        /\ st.free_bytes = h.stats.free_bytes + bs[i].size
        /\ st.metadata_bytes = h.stats.metadata_bytes
    BY <2>2 DEF Stats
  <2> HIDE DEF nb, st, bs
  <2>4. /\ Len(nb) = Len(bs) /\ SizeSum(nb, DOMAIN nb) = SizeSum(bs, DOMAIN bs)
        /\ Cardinality(Frees(nb)) = Cardinality(Frees(bs)) + 1
        /\ SizeSum(nb, Frees(nb)) = SizeSum(bs, Frees(bs)) + bs[i].size
    <3>1. TRUE \in BOOLEAN /\ bs[i].is_free # TRUE /\ Marked(bs, nb, i, TRUE)
      BY <2>1, <2>2 DEF Marked
    <3> QED
      BY <2>1, <3>1, MarkSums, ZenonT(60)
  <2>5. Counted(nb, st)
    BY <2>1, <2>3, <2>4 DEF Counted
  <2> QED
    BY <2>5 DEF nb, st
<1>2. CASE bs[i].is_free
  BY <1>2 DEF Free
<1> QED
  BY <1>1, <1>2

-----------------------------------------------------------------------------
(* The calls.                                                              *)

\* The counters stay integers.
LEMMA CountersStayIntegers ==
  ASSUME NEW s \in Stats, NEW x \in Int, NEW y \in Int
  PROVE  /\ [s EXCEPT !.free_blocks = @ - 1, !.free_bytes = @ - x] \in Stats
         /\ [s EXCEPT !.free_blocks = @ + 1, !.free_bytes = @ + x] \in Stats
         /\ [s EXCEPT !.allocated_blocks = @ + 1, !.allocated_bytes = @ + x,
                      !.metadata_bytes = @ + y] \in Stats
<1>1. /\ s.free_blocks - 1 \in Int /\ s.free_bytes - x \in Int
      /\ s.free_blocks + 1 \in Int /\ s.free_bytes + x \in Int
      /\ s.allocated_blocks + 1 \in Int /\ s.allocated_bytes + x \in Int
      /\ s.metadata_bytes + y \in Int
  BY DEF Stats
<1>2. \A u, v \in Int : [s EXCEPT !.free_blocks = u, !.free_bytes = v] \in Stats
  BY DEF Stats
<1>3. \A u, v, w \in Int :
        [s EXCEPT !.allocated_blocks = u, !.allocated_bytes = v, !.metadata_bytes = w]
          \in Stats
  BY DEF Stats
<1> QED
  BY <1>1, <1>2, <1>3, Zenon

LEMMA SmallocStats ==
  ASSUME NEW h, Listed(h.blocks), h.stats \in Stats, NEW n \in Nat, NEW r \in Smalloc(h, n)
  PROVE  r.heap.stats \in Stats
<1>1. CASE \E i \in First(Fitting(h.blocks, n)) : r = [heap |-> Take(h, i), i |-> i]
  <2> PICK i \in First(Fitting(h.blocks, n)) : r = [heap |-> Take(h, i), i |-> i]
    BY <1>1
  <2>1. h.blocks[i].size \in Int
    <3>1. i \in DOMAIN h.blocks
      BY DEF First, Fitting
    <3> QED
      BY <3>1, BlockTypes DEF Listed
  <2> QED
    BY <2>1, CountersStayIntegers DEF Take
<1>2. CASE r = [heap |-> Grow(h, n), i |-> Len(h.blocks) + 1]
  <2>1. size_of_metadata \in Int /\ n \in Int
    BY HeapAssumption
  <2>2. r.heap.stats = [h.stats EXCEPT !.allocated_blocks = @ + 1,
                                       !.allocated_bytes = @ + n,
                                       !.metadata_bytes = @ + size_of_metadata]
    BY <1>2, Zenon DEF Grow
  <2>3. \A s \in Stats : [s EXCEPT !.allocated_blocks = @ + 1, !.allocated_bytes = @ + n,
                                  !.metadata_bytes = @ + size_of_metadata] \in Stats
    BY <2>1, CountersStayIntegers
  <2> QED
    BY <2>2, <2>3, Zenon
<1> QED
  BY <1>1, <1>2 DEF Smalloc

LEMMA FreeStats ==
  ASSUME NEW h, Listed(h.blocks), h.stats \in Stats, NEW i \in DOMAIN h.blocks
  PROVE  Free(h, i).stats \in Stats
<1>1. h.blocks[i].size \in Int
  BY BlockTypes DEF Listed
<1> QED
  BY <1>1, CountersStayIntegers DEF Free

\* The invariant speaks of the heap the calls change.
LEMMA HeapInv ==
  ASSUME IInv
  PROVE  Listed(heap.blocks) /\ Granted(heap.blocks) /\ heap.stats \in Stats
         /\ heap.blocks = blocks
  BY DEF IInv, heap

\* smalloc, and scalloc, which calls it.
LEMMA SMallocStep ==
  ASSUME IInv, NEW n \in Nat, SMalloc(n)
  PROVE  IInv' /\ n \in 0 .. MaxRequest /\ Promise!Allocate(n)
<1> PICK r \in Smalloc(heap, n) :
      /\ blocks' = r.heap.blocks /\ stats' = r.heap.stats
      /\ live' = live \cup {[ptr |-> Payload(r.heap.blocks[r.i]), len |-> n]}
  BY DEF SMalloc, Becomes
<1>1. Obtains(blocks, blocks', r.i, n)
  BY HeapInv, SmallocObtains
<1>2. stats' \in Stats
  BY HeapInv, SmallocStats
<1>3. Listed(blocks) /\ live \subseteq Payloads /\ Held(blocks, live)
  BY DEF IInv
<1>4. Held(blocks', live \cup {[ptr |-> Payload(blocks'[r.i]), len |-> n]})
  BY <1>1, <1>3, ObtainHeld
<1>5. /\ [ptr |-> Payload(blocks'[r.i]), len |-> n] \in Promise!Fresh(live, n)
      /\ [ptr |-> Payload(blocks'[r.i]), len |-> n] \in Payloads
  BY <1>1, <1>3, ObtainFresh
<1>6. Listed(blocks') /\ Granted(blocks') /\ n \in 0 .. MaxRequest
  BY <1>1 DEF Obtains, SameBut
<1>7. IInv'
  BY <1>2, <1>3, <1>4, <1>5, <1>6 DEF IInv
<1>8. ASSUME NEW p \in Promise!Fresh(live, n), live' = live \cup {p}
      PROVE  Promise!Allocate(n)
  BY <1>8 DEF Promise!Allocate
<1>9. Promise!Allocate(n)
  BY <1>5, <1>8
<1> QED
  BY <1>6, <1>7, <1>9

\* sfree, of a payload in use or not.
LEMMA SFreeStep ==
  ASSUME IInv, NEW i \in DOMAIN blocks, SFree(i)
  PROVE  IInv' /\ (live' = live \/ \E b \in live : Promise!Release(b))
<1>1. /\ blocks' = Free(heap, i).blocks /\ stats' = Free(heap, i).stats
      /\ live' = {b \in live : b.ptr # Payload(blocks[i])}
  BY DEF SFree, Becomes
<1>2. Yields(blocks, blocks', i)
  BY <1>1, HeapInv, FreeYields
<1>3. stats' \in Stats
  BY <1>1, HeapInv, FreeStats
<1>4. Held(blocks', live')
  BY <1>1, <1>2, YieldHeld DEF IInv
<1>5. IInv'
  BY <1>1, <1>2, <1>3, <1>4 DEF IInv, Yields, SameBut
<1>6. CASE \E b \in live : b.ptr = Payload(blocks[i])
  <2> PICK b \in live : b.ptr = Payload(blocks[i])
    BY <1>6
  <2>1. \A c \in live : c.ptr = b.ptr => c = b
    BY DEF IInv, Held, OneHolder
  <2>2. live' = live \ {b}
    BY <1>1, <2>1
  <2> QED
    BY <1>5, <2>2 DEF Promise!Release
<1>7. CASE ~ \E b \in live : b.ptr = Payload(blocks[i])
  BY <1>1, <1>5, <1>7
<1> QED
  BY <1>6, <1>7

\* srealloc in place.
LEMMA SReallocInPlaceStep ==
  ASSUME IInv, NEW b \in live, NEW n \in 0 .. MaxRequest, NEW i \in DOMAIN blocks,
         Payload(blocks[i]) = b.ptr, SReallocInPlace(b, i, n)
  PROVE  IInv' /\ Promise!Resize(b, n)
<1> DEFINE c == [b EXCEPT !.len = n]
<1>0. n \in Nat
  BY HeapAssumption
<1>1. /\ blocks[i].size >= n /\ live' = (live \ {b}) \cup {c}
      /\ blocks' = blocks /\ stats' = stats
  BY DEF SReallocInPlace
<1>2. b \in Payloads /\ Listed(blocks) /\ Held(blocks, live) /\ live \subseteq Payloads
  BY DEF IInv
<1>3. c \in Payloads /\ c.ptr = b.ptr /\ c.len = n /\ c = [ptr |-> b.ptr, len |-> n]
  BY <1>0, <1>2 DEF Payloads
<1> HIDE DEF c
<1>4. ASSUME NEW d \in live \ {b} PROVE d.ptr # b.ptr
  BY <1>2, <1>4 DEF Held, OneHolder
<1>5. i \in Nat /\ Payload(blocks[i]) \in Nat /\ blocks[i].size \in Nat
      /\ blocks[i].addr < Payload(blocks[i]) /\ blocks[i].addr \in Nat
  BY <1>2, BlockTypes DEF Listed
<1>6. ~ blocks[i].is_free
  <2> PICK j \in DOMAIN blocks : b.ptr = Payload(blocks[j]) /\ ~ blocks[j].is_free
    BY <1>2 DEF Held, HeldBusy
  <2> QED
    BY <1>2, PayloadInjective
<1>7. BusyHeld(blocks, live')
  <2> SUFFICES ASSUME NEW j \in DOMAIN blocks, ~ blocks[j].is_free
               PROVE  \E d \in live' : d.ptr = Payload(blocks[j]) /\ d.len <= blocks[j].size
    BY DEF BusyHeld
  <2>1. CASE j = i
    BY <1>0, <1>1, <1>3, <1>5, <2>1
  <2>2. CASE j # i
    <3> PICK d \in live : d.ptr = Payload(blocks[j]) /\ d.len <= blocks[j].size
      BY <1>2 DEF Held, BusyHeld
    <3>1. d # b
      BY <1>2, <2>2, PayloadInjective
    <3> QED
      BY <1>1, <3>1
  <2> QED
    BY <2>1, <2>2
<1>8. HeldBusy(blocks, live')
  BY <1>1, <1>2, <1>3, <1>6 DEF Held, HeldBusy
<1>9. OneHolder(live')
  BY <1>1, <1>2, <1>3, <1>4 DEF Held, OneHolder
<1>10. IInv'
  BY <1>1, <1>2, <1>3, <1>7, <1>8, <1>9 DEF IInv, Held
<1>11. c \in [ptr : 0 .. HeapEnd, len : {n}]
  <2>1. Payload(blocks[i]) + blocks[i].size <= Break(blocks) /\ Break(blocks) \in Nat
        /\ Break(blocks) <= HeapEnd
    BY <1>2, BreakBounds DEF IInv, Granted
  <2> QED
    BY <1>3, <1>5, <2>1, HeapAssumption
<1>12. ASSUME NEW d \in live \ {b} PROVE Promise!Apart(c, d)
  <2> PICK j \in DOMAIN blocks : d.ptr = Payload(blocks[j]) /\ ~ blocks[j].is_free
    BY <1>2 DEF Held, HeldBusy
  <2>1. d.len <= blocks[j].size /\ d.len \in Nat
    <3> PICK f \in live : f.ptr = Payload(blocks[j]) /\ f.len <= blocks[j].size
      BY <1>2 DEF Held, BusyHeld
    <3> QED
      BY <1>2 DEF Held, OneHolder, Payloads
  <2>2. j # i
    BY <1>4
  <2>3. Payload(blocks[j]) \in Nat /\ blocks[j].size \in Nat /\ j \in Nat
        /\ blocks[j].addr < Payload(blocks[j]) /\ blocks[j].addr \in Nat
    BY <1>2, BlockTypes DEF Listed
  <2>4. CASE i < j
    <3>1. Payload(blocks[i]) + blocks[i].size <= blocks[j].addr
      BY <1>2, <2>4 DEF Listed, Ordered
    <3> QED
      BY <1>0, <1>1, <1>3, <1>5, <2>1, <2>3, <3>1 DEF Promise!Apart
  <2>5. CASE j < i
    <3>1. Payload(blocks[j]) + blocks[j].size <= blocks[i].addr
      BY <1>2, <2>5 DEF Listed, Ordered
    <3> QED
      BY <1>0, <1>1, <1>3, <1>5, <2>1, <2>3, <3>1 DEF Promise!Apart
  <2> QED
    BY <1>5, <2>2, <2>3, <2>4, <2>5
<1>13. c \in Promise!Fresh(live \ {b}, n)
  <2>1. \A d \in live \ {b} : Promise!Apart(c, d)
    BY <1>12
  <2> QED
    BY <1>11, <2>1 DEF Promise!Fresh
<1>14. Promise!Resize(b, n)
  BY <1>1, <1>13 DEF Promise!Resize
<1> QED
  BY <1>10, <1>14

\* srealloc to a new block: smalloc, then sfree of the old payload.
LEMMA SReallocMoveStep ==
  ASSUME IInv, NEW b \in live, NEW n \in Nat, NEW i \in DOMAIN blocks,
         Payload(blocks[i]) = b.ptr, SReallocMove(b, i, n)
  PROVE  IInv' /\ Promise!Resize(b, n)
<1> PICK r \in Smalloc(heap, n) :
      /\ blocks' = Free(r.heap, i).blocks /\ stats' = Free(r.heap, i).stats
      /\ live' = (live \ {b}) \cup {[ptr |-> Payload(r.heap.blocks[r.i]), len |-> n]}
  BY DEF SReallocMove, Becomes
<1> DEFINE bs == r.heap.blocks
           p  == [ptr |-> Payload(bs[r.i]), len |-> n]
<1>1. Listed(blocks) /\ live \subseteq Payloads /\ Held(blocks, live)
  BY DEF IInv
<1>2. Obtains(blocks, bs, r.i, n) /\ r.heap.stats \in Stats
  BY HeapInv, SmallocObtains, SmallocStats
<1>3. Held(bs, live \cup {p})
  BY <1>1, <1>2, ObtainHeld
<1>4. p \in Promise!Fresh(live, n) /\ p \in Payloads
  BY <1>1, <1>2, ObtainFresh
<1>5. /\ Listed(bs) /\ Granted(bs) /\ i \in DOMAIN bs
      /\ Payload(bs[i]) = b.ptr
  BY <1>2 DEF Obtains, SameBut
<1>6. Yields(bs, blocks', i) /\ stats' \in Stats
  BY <1>2, <1>5, FreeYields, FreeStats
<1>7. p.ptr # b.ptr
  <2>1. p \notin live
    <3>1. ASSUME p \in live PROVE FALSE
      <4> PICK j \in DOMAIN blocks : p.ptr = Payload(blocks[j]) /\ ~ blocks[j].is_free
        BY <1>1, <3>1 DEF Held, HeldBusy
      <4>1. j # r.i /\ j \in DOMAIN bs /\ Payload(bs[j]) = Payload(bs[r.i])
            /\ r.i \in DOMAIN bs
        BY <1>2 DEF Obtains, SameBut
      <4> QED
        BY <1>5, <4>1, PayloadInjective
    <3> QED
      BY <3>1
  <2> QED
    BY <1>3, <2>1 DEF Held, OneHolder
<1> HIDE DEF p
<1>8. live' = {c \in live \cup {p} : c.ptr # Payload(bs[i])}
  <2>1. live' = (live \ {b}) \cup {p}
    BY DEF p
  <2>2. \A c \in live : c.ptr = b.ptr => c = b
    BY <1>1 DEF Held, OneHolder
  <2> QED
    BY <1>5, <1>7, <2>1, <2>2
<1>9. Held(blocks', live')
  BY <1>3, <1>5, <1>6, <1>8, YieldHeld
<1>10. IInv'
  <2>1. live' \subseteq Payloads
    BY <1>1, <1>4, <1>8
  <2> QED
    BY <1>6, <1>9, <2>1 DEF IInv, Yields, SameBut
<1>11. Promise!Resize(b, n)
  <2>1. p \in Promise!Fresh(live \ {b}, n)
    BY <1>4 DEF Promise!Fresh
  <2> QED
    <3>1. ASSUME NEW q \in Promise!Fresh(live \ {b}, n), live' = (live \ {b}) \cup {q}
          PROVE  Promise!Resize(b, n)
      BY <3>1 DEF Promise!Resize
    <3> QED
      BY <2>1, <3>1 DEF p
<1> QED
  BY <1>10, <1>11

\* Every step keeps the invariant and is a step of the promise.
LEMMA StepKeeps ==
  ASSUME IInv, [Next]_vars
  PROVE  IInv' /\ [Promise!Next]_live
<1>1. ASSUME NEW n \in Nat, SMalloc(n) PROVE IInv' /\ [Promise!Next]_live
  BY <1>1, SMallocStep DEF Promise!Next
<1>2. CASE \E n \in Requests : SMalloc(n)
  BY <1>1, <1>2, HeapAssumption
<1>3. CASE \E num \in Counts, n \in Requests : SCalloc(num, n)
  <2> PICK num \in Counts, n \in Requests : SCalloc(num, n)
    BY <1>3
  <2>1. (num * n) % WordSize \in Nat
    BY HeapAssumption
  <2> QED
    BY <1>1, <2>1 DEF SCalloc
<1>4. CASE \E i \in DOMAIN blocks : SFree(i)
  BY <1>4, SFreeStep DEF Promise!Next
<1>5. CASE \E b \in live, n \in Requests : SRealloc(b, n)
  <2> PICK b \in live, n \in Requests, i \in DOMAIN blocks :
        /\ n \in 1 .. MaxRequest /\ Payload(blocks[i]) = b.ptr
        /\ SReallocInPlace(b, i, n) \/ SReallocMove(b, i, n)
    BY <1>5 DEF SRealloc
  <2>1. n \in 0 .. MaxRequest /\ n \in Nat
    BY HeapAssumption
  <2>2. IInv' /\ Promise!Resize(b, n)
    BY <2>1, SReallocInPlaceStep, SReallocMoveStep
  <2> QED
    BY <2>1, <2>2 DEF Promise!Next
<1>6. CASE UNCHANGED vars
  BY <1>6 DEF vars, IInv, Held, BusyHeld, HeldBusy, Listed, Ordered, Granted, Break
<1> QED
  BY <1>2, <1>3, <1>4, <1>5, <1>6 DEF Next

LEMMA InitInv == Init => IInv
<1> SUFFICES ASSUME Init PROVE IInv
  OBVIOUS
<1>1. blocks \in Seq(Block) /\ DOMAIN blocks = {} /\ live = {} /\ Break(blocks) = 0
  BY EmptySeq, LenProperties DEF Init, Break
<1>2. stats \in Stats
  BY DEF Init, Stats
<1> QED
  BY <1>1, <1>2, HeapAssumption
  DEF IInv, Listed, Ordered, Granted, Held, BusyHeld, HeldBusy, OneHolder

LEMMA IInvHolds == Spec => []IInv
  BY InitInv, StepKeeps, PTL DEF Spec

CInv == Counted(blocks, stats)

\* Every step keeps the counters true.
LEMMA StepCounts ==
  ASSUME IInv, CInv, [Next]_vars
  PROVE  CInv'
<1>1. Listed(blocks) /\ Granted(blocks) /\ stats \in Stats
      /\ heap.blocks = blocks /\ heap.stats = stats /\ Counted(blocks, stats)
  BY DEF IInv, CInv, heap
<1>2. ASSUME NEW n \in Nat, SMalloc(n) PROVE CInv'
  <2> PICK r \in Smalloc(heap, n) : blocks' = r.heap.blocks /\ stats' = r.heap.stats
    BY <1>2 DEF SMalloc, Becomes
  <2> QED
    BY <1>1, SmallocCounts DEF CInv
<1>3. CASE \E n \in Requests : SMalloc(n)
  BY <1>2, <1>3, HeapAssumption
<1>4. CASE \E num \in Counts, n \in Requests : SCalloc(num, n)
  <2> PICK num \in Counts, n \in Requests : SCalloc(num, n)
    BY <1>4
  <2>1. (num * n) % WordSize \in Nat
    BY HeapAssumption
  <2> QED
    BY <1>2, <2>1 DEF SCalloc
<1>5. CASE \E i \in DOMAIN blocks : SFree(i)
  <2> PICK i \in DOMAIN blocks : SFree(i)
    BY <1>5
  <2>1. blocks' = Free(heap, i).blocks /\ stats' = Free(heap, i).stats
    BY DEF SFree, Becomes
  <2> QED
    BY <1>1, <2>1, FreeCounts DEF CInv
<1>6. CASE \E b \in live, n \in Requests : SRealloc(b, n)
  <2> PICK b \in live, n \in Requests, i \in DOMAIN blocks :
        SReallocInPlace(b, i, n) \/ SReallocMove(b, i, n)
    BY <1>6 DEF SRealloc
  <2>1. CASE SReallocInPlace(b, i, n)
    BY <2>1 DEF SReallocInPlace, CInv
  <2>2. CASE SReallocMove(b, i, n)
    <3> PICK r \in Smalloc(heap, n) :
          blocks' = Free(r.heap, i).blocks /\ stats' = Free(r.heap, i).stats
      BY <2>2 DEF SReallocMove, Becomes
    <3>1. n \in Nat
      BY HeapAssumption
    <3>2. Obtains(blocks, r.heap.blocks, r.i, n) /\ r.heap.stats \in Stats
          /\ Counted(r.heap.blocks, r.heap.stats)
      BY <1>1, <3>1, SmallocObtains, SmallocStats, SmallocCounts
    <3>3. Listed(r.heap.blocks) /\ Granted(r.heap.blocks) /\ i \in DOMAIN r.heap.blocks
      BY <3>2 DEF Obtains, SameBut
    <3> QED
      BY <3>2, <3>3, FreeCounts DEF CInv
  <2> QED
    BY <2>1, <2>2
<1>7. CASE UNCHANGED vars
  BY <1>7 DEF vars, CInv
<1> QED
  BY <1>3, <1>4, <1>5, <1>6, <1>7 DEF Next

-----------------------------------------------------------------------------
(* The results.                                                            *)

\* Types, and blocks in order of address without overlap.
THEOREM TypeCorrect == Spec => []TypeOK
<1>1. IInv => TypeOK
  BY DEF IInv, TypeOK, Listed, Ordered, Payloads
<1> QED
  BY <1>1, IInvHolds, PTL

\* The payloads in use are those of the blocks not marked free.
THEOREM BusyBlocksAreHeld == Spec => []BusyBlocksHeld
<1>1. IInv => BusyBlocksHeld
  BY DEF IInv, BusyBlocksHeld, Held, BusyHeld, HeldBusy, OneHolder
<1> QED
  BY <1>1, IInvHolds, PTL

\* malloc_2 implements the allocator: payloads in use never share a byte and are
\* as long as was asked.
THEOREM KeepsPromise == Spec => ImplementsAllocator
<1>1. Init => Promise!Init
  BY DEF Init, Promise!Init
<1>2. IInv /\ [Next]_vars => [Promise!Next]_live
  BY StepKeeps
<1> QED
  BY <1>1, <1>2, IInvHolds, PTL DEF Spec, ImplementsAllocator, Promise!Spec

\* The five counters are what the list says, after any calls and double frees.
THEOREM CountersTrue == Spec => []StatisticsTrue
<1>1. Init => CInv
  <2> SUFFICES ASSUME Init PROVE CInv
    OBVIOUS
  <2>1. DOMAIN blocks = {} /\ Len(blocks) = 0 /\ Frees(blocks) = {}
    BY EmptySeq, LenProperties DEF Init, Frees
  <2>2. Cardinality({}) = 0 /\ SizeSum(blocks, {}) = 0
    BY FS_EmptySet, SumEmpty
  <2>3. 0 * size_of_metadata = 0
    BY HeapAssumption
  <2> QED
    BY <2>1, <2>2, <2>3 DEF Init, CInv, Counted
<1>2. IInv /\ CInv /\ [Next]_vars => CInv'
  BY StepCounts
<1>3. CInv => StatisticsTrue
  BY DEF CInv, Counted, StatisticsTrue, Frees, FreeBlocks, TotalSize, SizeSum
<1> QED
  BY <1>1, <1>2, <1>3, IInvHolds, PTL DEF Spec
=============================================================================
