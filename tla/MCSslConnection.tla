--------------------------- MODULE MCSslConnection ---------------------------
(* Four requests: two lines, a line in two halves, one with a large        *)
(* response, and one after it.  At most one of their responses closes the  *)
(* connection, and at most one line is malformed.                          *)
EXTENDS SslConnection

MCLineEnds == {1, 2, 4, 5, 6}
MCRequestEnds == {2, 4, 5, 6}
AtMostOneOf(S) == {{}} \union {{x} : x \in S}
MCStreams == [closing : AtMostOneOf(MCRequestEnds), malformed : AtMostOneOf(MCLineEnds)]
=============================================================================
