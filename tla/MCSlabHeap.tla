---------------------------- MODULE MCSlabHeap ----------------------------
EXTENDS SlabHeap
=============================================================================
