--------------------------- MODULE MCSessionLogin ---------------------------
(* Two IO threads and two browsers, three session ids and two rows of the  *)
(* table, which accepts a name twice.                                      *)
EXTENDS SessionLogin, TLC

CONSTANTS t1, t2, b1, b2, n1, n2, s1, s2, s3

MCThreads == {t1, t2}
MCBrowsers == {b1, b2}
MCNames == {n1, n2}
MCSessionIds == {s1, s2, s3}
\* Only the first name's password is known at the first browser, both at the second.
MCKnows == [b \in MCBrowsers |-> IF b = b1 THEN {n1} ELSE {n1, n2}]
MCRegistered == <<n1>>
Symmetry == Permutations(MCThreads) \union Permutations(MCSessionIds)
=============================================================================
