----------------------------- MODULE FirstFitHeap -----------------------------
(***************************************************************************)
(* hw4/malloc_2.cpp: an allocator whose blocks are never split, merged or  *)
(* given back.  Every block is a MallocMetadata followed by its payload;   *)
(* sbrk() hands out addresses in increasing order, so the address-ordered  *)
(* list of blocks grows at its end only.                                   *)
(*                                                                         *)
(* The client is part of the model: it frees and resizes the payloads it   *)
(* holds, and it may free a payload twice, which sfree() detects.          *)
(***************************************************************************)
EXTENDS Integers, SequencesExt

CONSTANTS
  size_of_metadata,  \* sizeof(MallocMetadata)
  MaxRequest,        \* the largest request served, 10^8
  WordSize,          \* size_t wraps at this number
  Requests,          \* bound: the sizes the client asks for
  Counts,            \* bound: scalloc's num
  HeapEnd            \* bound: sbrk() fails when the break would pass it

ASSUME HeapAssumption ==
  /\ size_of_metadata \in Nat \ {0}
  /\ MaxRequest \in Nat /\ WordSize \in Nat \ {0} /\ HeapEnd \in Nat
  /\ Requests \subseteq Nat /\ Counts \subseteq Nat

VARIABLES
  blocks,   \* the block list: [addr, size, is_free], in order of address
  stats,    \* the counters of BlockList
  live      \* the payloads the client holds, [ptr, len]

vars == <<blocks, stats, live>>

Block == [addr : Nat, size : Nat, is_free : BOOLEAN]
Stats == [allocated_blocks : Int, free_blocks : Int, allocated_bytes : Int,
          free_bytes : Int, metadata_bytes : Int]

Init ==
  /\ blocks = <<>>
  /\ stats = [allocated_blocks |-> 0, free_blocks |-> 0, allocated_bytes |-> 0,
              free_bytes |-> 0, metadata_bytes |-> 0]
  /\ live = {}

-----------------------------------------------------------------------------
(* The heap h = [blocks, stats] under the calls that change it.            *)

Payload(b) == b.addr + size_of_metadata

\* sbrk(0): the end of the last block.
Break(bs) == IF bs = <<>> THEN 0 ELSE Payload(Last(bs)) + Last(bs).size

\* A slip the check must notice: the size decides alone.
FittingAny(bs, n) == {i \in DOMAIN bs : bs[i].size >= n}

\* The blocks searchFreeBlock() accepts; it returns the first of them.
Fitting(bs, n) == {i \in DOMAIN bs : bs[i].is_free /\ bs[i].size >= n}
First(I) == {i \in I : \A j \in I : i <= j}

\* smalloc reuses block i whole.
Take(h, i) ==
  [blocks |-> [h.blocks EXCEPT ![i].is_free = FALSE],
   stats  |-> [h.stats EXCEPT !.free_blocks = @ - 1,
                              !.free_bytes = @ - h.blocks[i].size]]

\* A slip the check must notice: the new block is put at the head of the list.
GrowFirst(h, n) ==
  [blocks |-> <<[addr |-> Break(h.blocks), size |-> n, is_free |-> FALSE]>> \o h.blocks,
   stats  |-> [h.stats EXCEPT !.allocated_blocks = @ + 1,
                              !.allocated_bytes = @ + n,
                              !.metadata_bytes = @ + size_of_metadata]]

\* smalloc asks sbrk() for a new block and addMetadata() puts it last.
Grow(h, n) ==
  [blocks |-> Append(h.blocks, [addr |-> Break(h.blocks), size |-> n, is_free |-> FALSE]),
   stats  |-> [h.stats EXCEPT !.allocated_blocks = @ + 1,
                              !.allocated_bytes = @ + n,
                              !.metadata_bytes = @ + size_of_metadata]]

\* A slip the check must notice: a second sfree() counts once more.
FreeUnchecked(h, i) ==
  [blocks |-> [h.blocks EXCEPT ![i].is_free = TRUE],
   stats  |-> [h.stats EXCEPT !.free_blocks = @ + 1,
                              !.free_bytes = @ + h.blocks[i].size]]

\* sfree() of the payload of block i, whoever holds it now.
Free(h, i) ==
  IF h.blocks[i].is_free THEN h
  ELSE [blocks |-> [h.blocks EXCEPT ![i].is_free = TRUE],
        stats  |-> [h.stats EXCEPT !.free_blocks = @ + 1,
                                   !.free_bytes = @ + h.blocks[i].size]]

\* smalloc(n): the heap it leaves and the block whose payload it returns; there
\* is none when it returns NULL.
Smalloc(h, n) ==
  LET fits == Fitting(h.blocks, n)
  IN  IF n \notin 1 .. MaxRequest THEN {}
      ELSE IF fits # {} THEN {[heap |-> Take(h, i), i |-> i] : i \in First(fits)}
      ELSE IF Break(h.blocks) + size_of_metadata + n <= HeapEnd
           THEN {[heap |-> Grow(h, n), i |-> Len(h.blocks) + 1]}
      ELSE {}

heap == [blocks |-> blocks, stats |-> stats]

Becomes(h) == blocks' = h.blocks /\ stats' = h.stats

-----------------------------------------------------------------------------
(* The client's calls.  A call that returns NULL changes nothing.          *)

SMalloc(n) ==
  \E r \in Smalloc(heap, n) :
    /\ Becomes(r.heap)
    /\ live' = live \cup {[ptr |-> Payload(r.heap.blocks[r.i]), len |-> n]}

\* scalloc: the product wraps; memset clears as many bytes as were asked for.
SCalloc(num, n) == SMalloc((num * n) % WordSize)

\* sfree of any payload the client was ever given.
SFree(i) ==
  /\ Becomes(Free(heap, i))
  /\ live' = {b \in live : b.ptr # Payload(blocks[i])}

\* srealloc, case 1: the block is large enough already.
SReallocInPlace(b, i, n) ==
  /\ blocks[i].size >= n
  /\ live' = (live \ {b}) \cup {[b EXCEPT !.len = n]}
  /\ UNCHANGED <<blocks, stats>>

\* A slip the check must notice: the old block is not freed.
SReallocMoveOnly(b, i, n) ==
  /\ blocks[i].size < n
  /\ \E r \in Smalloc(heap, n) :
       /\ Becomes(r.heap)
       /\ live' = (live \ {b}) \cup {[ptr |-> Payload(r.heap.blocks[r.i]), len |-> n]}

\* srealloc, case 2: smalloc, memmove and sfree of the old payload.
SReallocMove(b, i, n) ==
  /\ blocks[i].size < n
  /\ \E r \in Smalloc(heap, n) :
       /\ Becomes(Free(r.heap, i))
       /\ live' = (live \ {b}) \cup {[ptr |-> Payload(r.heap.blocks[r.i]), len |-> n]}

SRealloc(b, n) ==
  /\ n \in 1 .. MaxRequest
  /\ \E i \in DOMAIN blocks :
       /\ Payload(blocks[i]) = b.ptr
       /\ SReallocInPlace(b, i, n) \/ SReallocMove(b, i, n)

Next ==
  \/ \E n \in Requests : SMalloc(n)
  \/ \E num \in Counts, n \in Requests : SCalloc(num, n)
  \/ \E i \in DOMAIN blocks : SFree(i)
  \/ \E b \in live, n \in Requests : SRealloc(b, n)

Spec == Init /\ [][Next]_vars

-----------------------------------------------------------------------------
(* Properties.                                                             *)

\* Blocks and counters have their types, and the blocks of the list follow each
\* other in memory without overlapping (addMetadata, lines 28 to 58).
TypeOK ==
  /\ blocks \in Seq(Block)
  /\ stats \in Stats
  /\ \A b \in live : b \in [ptr : Nat, len : Nat]
  /\ \A i, j \in DOMAIN blocks :
       i < j => Payload(blocks[i]) + blocks[i].size <= blocks[j].addr

FreeBlocks == {i \in DOMAIN blocks : blocks[i].is_free}
TotalSize(I) == MapThenSumSet(LAMBDA i : blocks[i].size, I)

\* The five counters are what their accessors' comments say, lines 150 to 203,
\* after any sequence of calls, double frees included; so none of them ever
\* wraps below zero.
StatisticsTrue ==
  /\ stats.allocated_blocks = Len(blocks)
  /\ stats.free_blocks = Cardinality(FreeBlocks)
  /\ stats.allocated_bytes = TotalSize(DOMAIN blocks)
  /\ stats.free_bytes = TotalSize(FreeBlocks)
  /\ stats.metadata_bytes = Len(blocks) * size_of_metadata

\* The payloads in use are those of the blocks not marked free, each long
\* enough: no call leaks a block or hands out one that somebody holds.
BusyBlocksHeld ==
  /\ \A i \in DOMAIN blocks :
       ~ blocks[i].is_free
         => \E b \in live : b.ptr = Payload(blocks[i]) /\ b.len <= blocks[i].size
  /\ \A b \in live : \E i \in DOMAIN blocks :
       b.ptr = Payload(blocks[i]) /\ ~ blocks[i].is_free
  /\ \A b, c \in live : b.ptr = c.ptr => b = c

\* The heap keeps the allocator's promise.
Promise == INSTANCE Allocator WITH Space <- 0 .. HeapEnd, Lengths <- 0 .. MaxRequest

ImplementsAllocator == Promise!Spec
=============================================================================
