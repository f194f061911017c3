------------------------------ MODULE BlockHeap ------------------------------
(***************************************************************************)
(* hw4/malloc_3.cpp: an allocator that splits, merges and extends blocks.  *)
(*                                                                         *)
(* A block is a header, its payload and a footer; header and footer are    *)
(* copies of one MallocMetadata.  Blocks tile the heap from sbrk_start to  *)
(* the break and are linked in a list ordered by size, then by address.    *)
(* The wilderness is the last block.  Requests of MMAP_THRESHOLD bytes and *)
(* more get a mapping of their own, with a header and no footer.           *)
(*                                                                         *)
(* The heap is a record h; each function of the program is an operator     *)
(* from h to the heap it leaves.  heap.fault names the first thing the     *)
(* program does that C++ gives no meaning to, or the assertion that fails; *)
(* nothing is said of what comes after.  The client calls with payloads it *)
(* holds; its data are not modelled, only where they lie.                  *)
(***************************************************************************)
EXTENDS Integers, SequencesExt, Sublists

CONSTANTS
  SOM,             \* sizeof(MallocMetadata)
  Links,           \* the offset of next and prev in MallocMetadata
  Align,           \* 8, what smalloc rounds sizes up to
  MIN_SPLIT_SIZE,
  MMAP_THRESHOLD,
  MaxRequest,      \* the largest request served, 10^8
  WordSize,        \* size_t wraps at this number
  InitialBreaks,   \* where sbrk(0) may be when the program starts
  HeapEnd,         \* bound: sbrk() fails when the break would pass it
  MapAddrs,        \* bound: the addresses mmap() may return
  Requests,        \* bound: the sizes the client asks for
  Counts,          \* bound: scalloc's num
  MaxOvercount     \* bound: of the counter overcount

\* MallocMetadata holds pointers, so its size is a multiple of theirs; an address
\* fits in a size_t; mappings overlap neither the heap nor each other.
ASSUME HeapAssumption ==
  /\ {SOM, Align, MIN_SPLIT_SIZE, MMAP_THRESHOLD, WordSize} \subseteq Nat \ {0}
  /\ Links \in 0 .. SOM /\ {MaxRequest, HeapEnd, MaxOvercount} \subseteq Nat
  /\ InitialBreaks \subseteq Nat \ {0} /\ Requests \subseteq Nat /\ Counts \subseteq Nat
  /\ SOM % Align = 0 /\ HeapEnd <= WordSize
  /\ \A x \in MapAddrs : x \in Nat /\ x > HeapEnd
  /\ \A x, y \in MapAddrs : x < y => x + SOM + MaxRequest + Align <= y

NULL == 0

VARIABLES
  heap,   \* the allocator's state, the fields below
  live    \* the payloads the client holds, [ptr, len]

vars == <<heap, live>>

\* list: the addresses linked in block_list; meta: the MallocMetadata at each
\* address that holds one; brk: sbrk(0); start: sbrk_start; overcount: bytes
\* counted as allocated for an sbrk() that failed.
Init ==
  /\ \E b \in InitialBreaks :
       heap = [list |-> <<>>, wilderness |-> NULL, meta |-> <<>>, brk |-> b,
               start |-> b, stats |-> <<0, 0, 0, 0, 0>>, overcount |-> 0,
               fault |-> "none"]
  /\ live = {}

-----------------------------------------------------------------------------
(* Metadata, statistics, list.                                             *)

Size(h, a) == h.meta[a].size
Foot(h, a) == a + SOM + Size(h, a)
End(h, a) == Foot(h, a) + SOM

\* allocated_blocks, free_blocks, allocated_bytes, free_bytes, metadata_bytes.
Plus(s, d) == [i \in 1 .. 5 |-> s[i] + d[i]]
UpdateStatistics(h, d) == [h EXCEPT !.stats = Plus(@, d)]

Fail(h, what) == IF h.fault = "none" THEN [h EXCEPT !.fault = what] ELSE h

\* The MallocMetadata d at the addresses A.
Written(m, A, d) == [x \in DOMAIN m \cup A |-> IF x \in A THEN d ELSE m[x]]

\* Header and footer of a block.
Write(h, a, size, is_free) ==
  [h EXCEPT !.meta = Written(@, {a, a + SOM + size}, [size |-> size, is_free |-> is_free])]

\* What becomes payload is metadata no more.
Erase(h, A) == [h EXCEPT !.meta = Restrict(@, DOMAIN @ \ A)]

Before(h, a, b) == Size(h, a) < Size(h, b) \/ (Size(h, a) = Size(h, b) /\ a < b)

AddMetadata(h, a) ==
  LET i == SelectInSeq(h.list, LAMBDA b : Before(h, a, b))
  IN  [h EXCEPT !.list = IF i = 0 THEN Append(@, a) ELSE InsertAt(@, i, a)]

\* removeMetadata for each block of A.
RemoveMetadata(h, A) == [h EXCEPT !.list = Without(@, A)]

\* A slip the check must notice: the size decides alone.
SearchAnyBlock(h, size) ==
  LET i == SelectInSeq(h.list, LAMBDA a : Size(h, a) >= size)
  IN  IF i = 0 THEN NULL ELSE h.list[i]

\* The first block of the list that is free and large enough, or NULL.
SearchFreeBlock(h, size) ==
  LET i == SelectInSeq(h.list, LAMBDA a : h.meta[a].is_free /\ Size(h, a) >= size)
  IN  IF i = 0 THEN NULL ELSE h.list[i]

-----------------------------------------------------------------------------
(* Neighbours and merging.                                                 *)

\* mergeBlocks and tryMergeRealloc look at the metadata next to block a; it is
\* not the heap's own.
Foreign(h, a) ==
  \/ a # h.start /\ a - SOM \notin DOMAIN h.meta
  \/ End(h, a) # h.brk /\ End(h, a) \notin DOMAIN h.meta

\* The free block before and after block a, if there is one.
Prevs(h, a) ==
  IF a # h.start /\ h.meta[a - SOM].is_free THEN {a - SOM - Size(h, a - SOM) - SOM} ELSE {}
Nexts(h, a) ==
  IF End(h, a) # h.brk /\ h.meta[End(h, a)].is_free THEN {End(h, a)} ELSE {}

\* The payload of a set of adjacent blocks made one.
Joined(h, parts) == End(h, Max(parts)) - Min(parts) - 2 * SOM

\* Adjacent blocks become one, enlarged by added bytes.
Fuse(h, parts, added, is_free) ==
  LET lo == Min(parts)
      g  == Erase(h, parts \cup {Foot(h, a) : a \in parts})
  IN  AddMetadata(Write(RemoveMetadata(g, parts), lo, Joined(h, parts) + added, is_free), lo)

\* A slip the check must notice: only the block after is looked at.
MergeForward(h, a) ==
  LET parts == {a} \cup Nexts(h, a)
      k     == Cardinality(parts) - 1
      g     == UpdateStatistics(Fuse(h, parts, 0, TRUE),
                 <<-k, 1 - k, 2 * k * SOM, Size(h, a) + 2 * k * SOM, -(2 * k * SOM)>>)
  IN  [g EXCEPT !.wilderness = IF @ = Max(parts) THEN Min(parts) ELSE @]

\* A slip the check must notice: the pointer stays at the block merged away.
MergeBlocksStale(h, a) ==
  LET parts == {a} \cup Prevs(h, a) \cup Nexts(h, a)
      k     == Cardinality(parts) - 1
  IN  IF Foreign(h, a) THEN Fail(h, "foreign")
      ELSE UpdateStatistics(Fuse(h, parts, 0, TRUE),
             <<-k, 1 - k, 2 * k * SOM, Size(h, a) + 2 * k * SOM, -(2 * k * SOM)>>)

\* mergeBlocks: the freed block a and its k free neighbours become one.
MergeBlocks(h, a) ==
  LET parts == {a} \cup Prevs(h, a) \cup Nexts(h, a)
      k     == Cardinality(parts) - 1
      g     == UpdateStatistics(Fuse(h, parts, 0, TRUE),
                 <<-k, 1 - k, 2 * k * SOM, Size(h, a) + 2 * k * SOM, -(2 * k * SOM)>>)
  IN  IF Foreign(h, a) THEN Fail(h, "foreign")
      ELSE [g EXCEPT !.wilderness = IF @ = Max(parts) THEN Min(parts) ELSE @]

-----------------------------------------------------------------------------
(* sfree and splitBlock.                                                   *)

\* sfree(a + SOM).  A block at or above the threshold is taken for a mapping,
\* and munmap() of a piece of the heap is a fault.
Sfree(h, a) ==
  IF h.meta[a].is_free THEN h
  ELSE IF Size(h, a) < MMAP_THRESHOLD THEN MergeBlocks(Write(h, a, Size(h, a), TRUE), a)
  ELSE IF a \notin MapAddrs THEN Fail(h, "munmap")
  ELSE UpdateStatistics(Erase(h, {a}), <<-1, 0, -Size(h, a), 0, -(2 * SOM)>>)

\* A slip the check must notice: the subtraction is not expected to wrap.
SplitFitsUnguarded(old, size) == ((old - size) - 2 * SOM) % WordSize >= MIN_SPLIT_SIZE

\* The test of lines 442, 538 and 550; the subtraction wraps.
SplitFits(old, size) ==
  LET rest == ((old - size) - 2 * SOM) % WordSize
  IN  rest >= MIN_SPLIT_SIZE /\ rest < old

\* splitBlock: block a keeps size bytes, the rest is a block that is freed.
\* removeMetadata "should never reach here" (line 139) when a is on no list, but
\* srealloc shrinks mappings too.
SplitBlock(h, size, a) ==
  LET high == a + size + 2 * SOM
      rest == Size(h, a) - size - 2 * SOM
      g    == Write(Write(RemoveMetadata(h, {a}), a, size, FALSE), high, rest, FALSE)
      f    == Sfree(UpdateStatistics(AddMetadata(AddMetadata(g, a), high),
                      <<1, -1, -(2 * SOM), -(2 * SOM + size + rest), 2 * SOM>>),
                    high)
  IN  IF a \notin ToSet(h.list) THEN Fail(h, "unlisted")
      ELSE [f EXCEPT !.wilderness = IF @ = a THEN high ELSE @]

-----------------------------------------------------------------------------
(* smalloc.  Calls return the heap and a block, or NULL.                   *)

Return(h, a) == [heap |-> h, block |-> a]

AlignUp(n) == IF n % Align = 0 THEN n ELSE n + (Align - (n % Align))

\* sbrk(n) succeeds.
Room(h, n) == h.brk + n <= HeapEnd

\* A slip the check must notice: line 447 is missing.
TakeHeaderOnly(h, a) ==
  UpdateStatistics([h EXCEPT !.meta[a].is_free = FALSE], <<0, -1, 0, -Size(h, a), 0>>)

\* A free block is taken whole.
Take(h, a) ==
  UpdateStatistics(Write(h, a, Size(h, a), FALSE), <<0, -1, 0, -Size(h, a), 0>>)

Extend(h, n) == [h EXCEPT !.brk = @ + n]

\* A slip the check must notice: the whole request is added.
GrowByRequest(h, size) ==
  LET w == h.wilderness
  IN  IF ~ Room(h, size) THEN Return(h, NULL)
      ELSE Return(UpdateStatistics(Extend(Fuse(h, {w}, size - Size(h, w), FALSE), size),
                    <<0, -1, size - Size(h, w), -Size(h, w), 0>>), w)

\* The wilderness is free but not big enough.
GrowWilderness(h, size) ==
  LET w     == h.wilderness
      added == size - Size(h, w)
  IN  IF ~ Room(h, added) THEN Return(h, NULL)
      ELSE IF End(h, w) # h.brk THEN Return(Fail(h, "corrupt"), NULL)
      ELSE Return(UpdateStatistics(Extend(Fuse(h, {w}, added, FALSE), added),
                    <<0, -1, added, -Size(h, w), 0>>), w)

\* A block at the break; the very first one is aligned, and sbrk_start becomes
\* what sbrk() returned, the break before.
NewBlock(h, size) ==
  LET gap == IF h.list = <<>> THEN AlignUp(h.brk) - h.brk ELSE 0
      g   == [h EXCEPT !.brk = @ + gap, !.start = IF gap = 0 THEN @ ELSE h.brk]
      new == AddMetadata(Write(g, g.brk, size, FALSE), g.brk)
  IN  IF ~ Room(h, gap) THEN Return([h EXCEPT !.start = -1], NULL)
      ELSE IF ~ Room(g, size + 2 * SOM) THEN Return(g, NULL)
      ELSE Return(UpdateStatistics([Extend(new, size + 2 * SOM) EXCEPT !.wilderness = g.brk],
                    <<1, 0, size, 0, 2 * SOM>>), g.brk)

\* Whichever address mmap() picks is as good as any other.
MapBlock(h, size) ==
  LET unused == MapAddrs \ DOMAIN h.meta
      a      == Min(unused)
  IN  IF unused = {} THEN Return(h, NULL)
      ELSE Return(UpdateStatistics(
                    [h EXCEPT !.meta = Written(@, {a}, [size |-> size, is_free |-> FALSE])],
                    <<1, 0, size, 0, 2 * SOM>>), a)

\* What bytes of a payload may look like when they are read as metadata: not
\* free, free and smaller than the request, free and at least as large.
Junk == {"busy", "small", "large"}

\* Lines 453 to 478, no free block is large enough.  A wilderness that is not
\* a block is read as junk: with a large size the assertion of line 455 fails,
\* with a small one a header is written into somebody's payload.
FromBreak(h, size, junk) ==
  LET w      == h.wilderness
      listed == w \in ToSet(h.list)
  IN  IF w = NULL \/ (listed /\ ~ h.meta[w].is_free) \/ (~ listed /\ junk = "busy")
      THEN NewBlock(h, size)
      ELSE IF listed THEN GrowWilderness(h, size)
      ELSE Return(Fail(h, IF junk = "large" THEN "assert455" ELSE "corrupt"), NULL)

Smalloc(h, n, junk) ==
  LET size == AlignUp(n)
      a    == SearchFreeBlock(h, size)
  IN  IF n \notin 1 .. MaxRequest \/ h.fault # "none" THEN Return(h, NULL)
      ELSE IF size >= MMAP_THRESHOLD THEN MapBlock(h, size)
      ELSE IF a = NULL THEN FromBreak(h, size, junk)
      ELSE Return(IF SplitFits(Size(h, a), size) THEN SplitBlock(h, size, a) ELSE Take(h, a),
                  a)

-----------------------------------------------------------------------------
(* srealloc.                                                               *)

\* The cases b to f of tryMergeRealloc in the order they are tried: the blocks
\* each would make one.
Cases(h, a, size) ==
  LET p == Prevs(h, a)
      n == Nexts(h, a)
      fits(parts) == size <= Joined(h, parts)
  IN  << [name |-> "b", parts |-> {a} \cup p,
          when |-> p # {} /\ (h.wilderness = a \/ fits({a} \cup p))],
         [name |-> "c", parts |-> {a}, when |-> h.wilderness = a],
         [name |-> "d", parts |-> {a} \cup n, when |-> n # {} /\ fits({a} \cup n)],
         [name |-> "e", parts |-> {a} \cup p \cup n,
          when |-> p # {} /\ n # {} /\ fits({a} \cup p \cup n)],
         [name |-> "f", parts |-> {a} \cup p \cup n, when |-> h.wilderness \in n] >>

\* Case c of tryMergeRealloc, c, makes block a grow by added bytes, with what
\* an assertion or the move of its data makes of it.
\*   Case b moves the bytes added as well.  The move comes before current is
\* taken off the list, and must not reach its links.
MoveFault(h, a, c, added) ==
  LET moved   == Size(h, a) + (IF c.name = "b" THEN added ELSE 0)
      current == a + Links
  IN  IF added > 0 /\ Room(h, added) /\ End(h, Max(c.parts)) # h.brk
      THEN "corrupt"
      ELSE IF \/ c.name \in {"c", "f"} /\ added % Align # 0
              \/ c.name = "c" /\ Room(h, added) /\ (h.brk + added) % Align # 0
      THEN "assert350"
      ELSE IF Min(c.parts) # a /\ Room(h, added) /\ Min(c.parts) + SOM + moved > current
      THEN "clobbered"
      ELSE "none"

\* Case c when sbrk() fails has already counted the bytes.
Overcount(h, c, added) ==
  IF c.name # "c" THEN h
  ELSE [UpdateStatistics(h, <<0, 0, added, 0, 0>>) EXCEPT !.overcount = @ + added]

\* Cases d and e leave the wilderness where it was, be it one of the parts.
TryMergeRealloc(h, a, size) ==
  LET i     == SelectInSeq(Cases(h, a, size), LAMBDA c : c.when)
      c     == Cases(h, a, size)[i]
      whole == Joined(h, c.parts)
      added == IF size > whole THEN size - whole ELSE 0
      k     == Cardinality(c.parts) - 1
      fault == MoveFault(h, a, c, added)
      g     == UpdateStatistics(Extend(Fuse(h, c.parts, added, FALSE), added),
                 <<-k, -k, added + 2 * k * SOM, -(whole - Size(h, a) - 2 * k * SOM),
                   -(2 * k * SOM)>>)
      moves == c.name \in {"b", "c", "f"} /\ h.wilderness \in c.parts
  IN  IF Foreign(h, a) THEN Return(Fail(h, "foreign"), NULL)
      ELSE IF i = 0 THEN Return(h, NULL)
      ELSE IF fault # "none" THEN Return(Fail(h, fault), NULL)
      ELSE IF ~ Room(h, added) THEN Return(Overcount(h, c, added), NULL)
      ELSE Return([g EXCEPT !.wilderness = IF moves THEN Min(c.parts) ELSE @], Min(c.parts))

\* A slip the check must notice: lines 539 and 552 are missing.
TrimUncounted(h, a, n) == IF SplitFits(Size(h, a), n) THEN SplitBlock(h, n, a) ELSE h

\* Lines 538 and 550: splitBlock takes the block for a free one, and gets the
\* size the client asked for, not rounded.
Trim(h, a, n) ==
  IF SplitFits(Size(h, a), n)
  THEN SplitBlock(UpdateStatistics(h, <<0, 1, 0, Size(h, a), 0>>), n, a)
  ELSE h

\* A new block for the data of block a; copying them to NULL is a fault.
Moved(r) == IF r.block = NULL THEN Return(Fail(r.heap, "null"), NULL) ELSE r

\* A slip the check must notice: the old block is kept.
MoveWithoutFree(h, a, n, junk) == Moved(Smalloc(h, n, junk))

\* Lines 557 to 560, the old block is freed first.
FreeThenMove(h, a, n, junk) == Moved(Smalloc(Sfree(h, a), n, junk))

\* Lines 564 to 567, the block is taken for a mapping.
MoveThenFree(h, a, n, junk) ==
  LET r == Moved(Smalloc(h, n, junk))
  IN  IF r.block = NULL THEN r ELSE Return(Sfree(r.heap, a), r.block)

Srealloc(h, a, n, junk) ==
  LET t == TryMergeRealloc(h, a, AlignUp(n))
  IN  IF n \notin 1 .. MaxRequest THEN Return(h, NULL)
      ELSE IF Size(h, a) >= n THEN Return(Trim(h, a, n), a)
      ELSE IF Size(h, a) >= MMAP_THRESHOLD THEN MoveThenFree(h, a, n, junk)
      ELSE IF t.heap.fault # "none" THEN t
      ELSE IF t.block = NULL THEN FreeThenMove(t.heap, a, n, junk)
      ELSE Return(Trim(t.heap, t.block, n), t.block)

-----------------------------------------------------------------------------
(* The client's calls.                                                     *)

\* The call ended with r; the client gave up the payloads in old and holds the
\* n bytes returned.
Ends(r, old, n) ==
  /\ heap' = r.heap
  /\ heap'.overcount <= MaxOvercount
  /\ live' = IF r.block = NULL \/ r.heap.fault # "none" THEN live
             ELSE (live \ old) \cup {[ptr |-> r.block + SOM, len |-> n]}

\* What a call may read as junk; it reads none while the wilderness is the last
\* block.
Readings ==
  LET w == heap.wilderness
  IN  IF w \in ToSet(heap.list) /\ End(heap, w) = heap.brk THEN {"busy"} ELSE Junk

SMalloc(n) == \E junk \in Readings : Ends(Smalloc(heap, n, junk), {}, n)

\* The product wraps; memset clears as many bytes as were asked for.
SCalloc(num, n) == SMalloc((num * n) % WordSize)

SFree(b) ==
  /\ heap' = Sfree(heap, b.ptr - SOM)
  /\ live' = IF heap'.fault # "none" THEN live ELSE live \ {b}

SRealloc(b, n) ==
  \E junk \in Readings : Ends(Srealloc(heap, b.ptr - SOM, n, junk), {b}, n)

\* Nothing is said of a program that has gone wrong.
Undefined == heap.fault # "none" /\ UNCHANGED vars

Next ==
  \/ /\ heap.fault = "none"
     /\ \/ \E n \in Requests : SMalloc(n)
        \/ \E num \in Counts, n \in Requests : SCalloc(num, n)
        \/ \E b \in live : SFree(b)
        \/ \E b \in live, n \in Requests : SRealloc(b, n)
  \/ Undefined

Spec == Init /\ [][Next]_vars

-----------------------------------------------------------------------------
(* Properties.                                                             *)

Blocks == ToSet(heap.list)
FreeBlocks == {a \in Blocks : heap.meta[a].is_free}
Mapped == DOMAIN heap.meta \cap MapAddrs
TotalSize(A) == MapThenSumSet(LAMBDA a : Size(heap, a), A)
Defined == heap.fault = "none"

\* The types of block_list's and the client's state.
TypeOK ==
  /\ heap.list \in Seq(Nat \ {NULL})
  /\ heap.wilderness \in Nat
  /\ \A a \in DOMAIN heap.meta : heap.meta[a] \in [size : Nat, is_free : BOOLEAN]
  /\ heap.brk \in Nat /\ heap.start \in Int
  /\ heap.stats \in [1 .. 5 -> Int] /\ heap.overcount \in Nat
  /\ \A b \in live : b \in [ptr : Nat, len : Nat]

\* Blocks tile the heap up to the break, each linked exactly once and its footer
\* the copy of its header, whatever was split, merged or extended.
BlocksTile ==
  Defined =>
    /\ IsInjective(heap.list)
    /\ \A a \in Blocks :
         /\ Foot(heap, a) \in DOMAIN heap.meta
         /\ heap.meta[Foot(heap, a)] = heap.meta[a]
         /\ End(heap, a) \in Blocks \cup {heap.brk}
    /\ \A a, b \in Blocks : a < b => End(heap, a) <= b

\* The list is ordered by size, then by address (addMetadata, lines 59 to 117),
\* so that searchFreeBlock finds the smallest block that fits.
ListSorted ==
  Defined =>
    \A i, j \in DOMAIN heap.list : i < j => Before(heap, heap.list[i], heap.list[j])

\* No two neighbours are both free: every sfree and every split merges.
Coalesced ==
  Defined =>
    \A a \in FreeBlocks : End(heap, a) # heap.brk => End(heap, a) \notin FreeBlocks

\* The list is kept: in order for the searches, and with nothing in it that should
\* have been merged, whatever was split, merged, moved or extended.
ListKept == ListSorted /\ Coalesced

\* The counters are what the blocks say, but for bytes counted by a failed
\* extension (lines 351 to 354).
StatisticsTrue ==
  Defined =>
    heap.stats = << Cardinality(Blocks \cup Mapped), Cardinality(FreeBlocks),
                    TotalSize(Blocks \cup Mapped) + heap.overcount, TotalSize(FreeBlocks),
                    2 * SOM * Cardinality(Blocks \cup Mapped) >>

\* The payloads in use are those of the busy blocks and mappings, each long
\* enough: no call leaks a block or hands out one that somebody holds.
BusyBlocksHeld ==
  Defined =>
    /\ {b.ptr - SOM : b \in live} = (Blocks \ FreeBlocks) \cup Mapped
    /\ \A b \in live : b.len <= Size(heap, b.ptr - SOM)
    /\ \A b, c \in live : b.ptr = c.ptr => b = c

\* The wilderness pointer is at the last block.
WildernessIsLast ==
  \/ heap.list = <<>>
  \/ heap.wilderness \in Blocks /\ End(heap, heap.wilderness) = heap.brk

\* Only srealloc leaves the wilderness pointer behind, and only where it absorbs
\* the wilderness into the block before (cases d and e, lines 364 to 389):
\* smalloc, scalloc, sfree and every other way through srealloc, however they
\* split and merge, take the pointer along.
WildernessFollowed ==
  [][WildernessIsLast /\ Defined' =>
       \/ WildernessIsLast'
       \/ \E b \in live \ live', c \in live' \ live :
            c.ptr <= b.ptr /\ heap.wilderness \in Nexts(heap, b.ptr - SOM)]_vars

\* What has to be the case before a call for it to go wrong in this way.
Cause(fault) ==
  CASE fault = "foreign"   -> heap.start \notin {b \in InitialBreaks : b % Align = 0}
    [] fault = "munmap"    -> \E a \in Blocks :
                                Size(heap, a) >= MMAP_THRESHOLD \/ Size(heap, a) % Align # 0
    [] fault = "unlisted"  -> \E b \in live : b.ptr - SOM \in MapAddrs
    [] fault = "clobbered" -> \E b \in live :
                                b.ptr - SOM \in Blocks /\ Prevs(heap, b.ptr - SOM) # {}
    [] fault = "assert350" -> \E a \in Blocks : Size(heap, a) % Align # 0
    [] fault \in {"corrupt", "assert455"} -> ~ WildernessIsLast
    [] fault = "null"      -> ~ Room(heap, MMAP_THRESHOLD + 2 * SOM) \/ MapAddrs \subseteq Mapped

\* No call goes wrong without its cause, whatever calls came before: metadata
\* outside the heap is read only when the break was not aligned at the start
\* (line 467), a piece of the heap is unmapped only when a block has reached the
\* threshold or an odd size, splitBlock takes an unlisted block only when a
\* mapping is in use (line 538), srealloc writes over links only when it moves a
\* payload down into the free block before it (line 338), its assertions fail only
\* on a block that an earlier srealloc has left with an odd size, NULL is used only
\* when memory has run out, and the wilderness harms only when cases d and e left
\* it behind.
FaultsHaveCauses == [][Defined /\ ~ Defined' => Cause(heap'.fault)]_vars

\* Until it faults, the heap keeps the allocator's promise.
Promise == INSTANCE Allocator WITH
  Space   <- 0 .. HeapEnd \cup {a + SOM : a \in MapAddrs},
  Lengths <- Requests \cup {(num * n) % WordSize : num \in Counts, n \in Requests}

ImplementsAllocator == Promise!Spec

-----------------------------------------------------------------------------
(* What comments and assertions of the program say, and what it does not do.  *)

\* The wilderness grows by multiples of eight bytes and ends at one: the
\* assertions of lines 350, 355 and 396.
ExtensionAligned == heap.fault # "assert350"

\* A block not below the threshold was "allocated with mmap", line 563.
LargeBlocksAreMapped == heap.fault # "munmap"
=============================================================================
