------------------------------ MODULE MCPageHeap ------------------------------
EXTENDS PageHeap
=============================================================================
