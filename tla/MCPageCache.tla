----------------------------- MODULE MCPageCache -----------------------------
EXTENDS PageCache

SizesThree == {1, 2, 3}
OneSize == {2}
=============================================================================
