----------------------------- MODULE MCCondVar -----------------------------
EXTENDS CondVar, TLC
Symmetry == Permutations(Thread)
=============================================================================
