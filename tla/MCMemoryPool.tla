---------------------------- MODULE MCMemoryPool ----------------------------
EXTENDS MemoryPool, TLC

\* A class whose spans have several blocks, and one above 32KB with larger spans of one.
SmallAndLarge == {"small", "large"}
Small == {"small"}
BlocksOf == [c \in Classes |-> IF c = "large" THEN 1 ELSE 2]
PagesPerSpan == [c \in Classes |-> IF c = "large" THEN 3 ELSE 2]

Symmetry == Permutations(Threads)
=============================================================================
