-------------------------- MODULE MCServerMessage --------------------------
EXTENDS ServerMessage, TLC

Symmetry == Permutations(Query) \cup Permutations(Sock)
=============================================================================
