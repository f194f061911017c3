----------------------------- MODULE MCBlockHeap -----------------------------
EXTENDS BlockHeap
=============================================================================
