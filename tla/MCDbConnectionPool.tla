------------------------- MODULE MCDbConnectionPool -------------------------
EXTENDS DbConnectionPool, TLC

\* The workers are interchangeable, and so are the connections.
Symmetry == Permutations(Workers) \union Permutations(Conns)
=============================================================================
