--------------------------- MODULE MCMessageQueue ---------------------------
EXTENDS MessageQueue

CONSTANTS m1, m2, m3, w1, w2

MCMessages == {m1, m2, m3}
MCWorkers == {w1, w2}
=============================================================================
