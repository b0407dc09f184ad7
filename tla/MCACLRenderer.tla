--------------------------- MODULE MCACLRenderer ---------------------------
EXTENDS ACLRenderer, TLC

Symmetry == Permutations(Interfaces)
=============================================================================
