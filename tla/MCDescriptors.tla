--------------------------- MODULE MCDescriptors ---------------------------
EXTENDS Descriptors
=============================================================================
