--------------------------- MODULE MCChatService ---------------------------
(* Two threads and two conversations, two requests, rows that may come     *)
(* twice, and one death of the process.                                    *)
EXTENDS ChatService, TLC

CONSTANTS t1, t2, c1, c2

MCThreads == {t1, t2}
MCConvs == {c1, c2}
Symmetry == Permutations(MCThreads) \union Permutations(MCConvs)
=============================================================================
