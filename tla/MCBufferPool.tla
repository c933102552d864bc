---------------------------- MODULE MCBufferPool ----------------------------
EXTENDS BufferPool, TLC
Symm == Permutations(Refs) \cup Permutations(Tables)
LastPages == {p \in PageIds : p[2] = MaxPages - 1}
=============================================================================
