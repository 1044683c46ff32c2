--------------------------- MODULE MCSharedMutex ---------------------------
EXTENDS SharedMutex
=============================================================================
