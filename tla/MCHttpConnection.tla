-------------------------- MODULE MCHttpConnection --------------------------
EXTENDS HttpConnection

Request(method) == [method |-> method, version |-> "1.1", connection |-> "",
                    length |-> "absent", body |-> 0, colons |-> FALSE, badHeader |-> FALSE]

Get == Request("GET")
GetClose == [Get EXCEPT !.connection = "close"]
Get10 == [Get EXCEPT !.version = "1.0"]
Get10Keep == [Get10 EXCEPT !.connection = "Keep-Alive"]
GetBadVersion == [Get EXCEPT !.version = "junk"]
GetBadHeader == [Get EXCEPT !.badHeader = TRUE]
GetWithBody == [Get EXCEPT !.length = "exact", !.body = 1]
Options == Request("OPTIONS")
Unknown == Request("junk")
Post(n) == [Request("POST") EXCEPT !.length = "exact", !.body = n]
Json(n) == [Post(n) EXCEPT !.colons = TRUE]
PostNoLength == [Post(1) EXCEPT !.length = "absent"]
PostGarbage == [Post(1) EXCEPT !.length = "garbage"]
PostNegative == [Post(1) EXCEPT !.length = "negative"]

AllKinds == {Get, GetClose, Get10, Get10Keep, GetBadVersion, GetBadHeader, GetWithBody, Options,
             Unknown, Post(0), Post(2), Json(1), PostNoLength, PostGarbage, PostNegative,
             [Json(1) EXCEPT !.length = "absent"]}
TwoGets == {Get}
EmptyAndFull == {Post(0), Post(1)}
BadVersionOnly == {GetBadVersion}
=============================================================================
