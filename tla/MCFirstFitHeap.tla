---------------------------- MODULE MCFirstFitHeap ----------------------------
EXTENDS FirstFitHeap
=============================================================================
