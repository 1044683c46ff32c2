------------------------------- MODULE MCRBTree -------------------------------
EXTENDS RBTree
=============================================================================
