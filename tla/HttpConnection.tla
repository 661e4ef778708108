--------------------------- MODULE HttpConnection ---------------------------
(***************************************************************************)
(* One plain TCP connection of HttpServer: HttpServer::onMessage and       *)
(* onRequest, the parser HttpContext, and HttpRequest, whose single object *)
(* is reused for every request of the connection.                          *)
(*                                                                         *)
(* The byte stream is a sequence of pieces: request lines, header lines,   *)
(* blank lines, each with its CRLF, and units of body data, which have no  *)
(* CRLF.  A piece names the request it belongs to.  muduo appends what     *)
(* arrives to the input buffer and calls onMessage(); each iteration of    *)
(* parseRequest()'s loop, and each thing onMessage() does after it, is one *)
(* step of the connection's IO loop.                                       *)
(***************************************************************************)
EXTENDS Integers, Sequences, FiniteSets

CONSTANTS Kinds,       \* the requests a client may send
          MaxRequests, \* bounds how many it sends on the connection
          Habits       \* of clients: "waits" for each answer, or "pipelines"

(* A kind of request: its method ("POST" stands for PUT too, "GET" for     *)
(* DELETE), HTTP version and Connection header, how it declares the length *)
(* of its body, the units of body it carries and whether they contain a    *)
(* colon (as JSON does), and whether one of its header lines has no colon. *)
KindType == [method : {"GET", "POST", "OPTIONS", "junk"},
             version : {"1.1", "1.0", "junk"},
             connection : {"", "close", "Keep-Alive"},
             length : {"absent", "exact", "garbage", "negative"},
             body : 0..2,
             colons : BOOLEAN,
             badHeader : BOOLEAN]

ASSUME HttpAssumption == /\ Kinds \subseteq KindType
                         /\ MaxRequests \in Nat \ {0}
                         /\ Habits \subseteq {"waits", "pipelines"}

VARIABLES
  habit,    \* the client's
  sent,     \* the requests the client has sent, in order
  wire,     \* pieces that have not arrived yet
  buf,      \* the connection's input buffer
  state,    \* HttpContext::state_
  request,  \* HttpContext::request_: which request gave it its request line
            \* (0: method_ is CInvalid), Connection and Content-Length header
  content,  \* request_.content_: the requests whose data are in it
  loop,     \* where onMessage() is
  open,     \* the connection is not shut down for writing
  alive,    \* the process has not aborted
  handled,  \* requests passed to httpCallback_, with the body each was shown
  answers   \* what was sent to the client

vars == <<habit, sent, wire, buf, state, request, content, loop, open, alive, handled, answers>>

client == <<habit, sent, wire>>
context == <<state, request, content>>
output == <<open, handled, answers>>

Parts == {"line", "connection", "length", "bad", "blank", "data"}
NoRequest == [line |-> 0, connection |-> 0, length |-> 0]

\* What request i of kind k puts on the wire.
Pieces(k, i) ==
  LET piece(part) == [of |-> i, part |-> part]
      only(cond, part) == IF cond THEN <<piece(part)>> ELSE <<>>
  IN  <<piece("line")>> \o only(k.connection # "", "connection")
        \o only(k.length # "absent", "length") \o only(k.badHeader, "bad")
        \o <<piece("blank")>> \o [j \in 1..k.body |-> piece("data")]

\* findCRLF(): a line ends at the first piece that has a CRLF; body data in front
\* of that piece are part of the line.
HasLine == \E i \in 1..Len(buf) : buf[i].part # "data"
LineEnd == CHOOSE i \in 1..Len(buf) : /\ buf[i].part # "data"
                                      /\ \A j \in 1..(i - 1) : buf[j].part = "data"
Glued == LineEnd > 1
AfterLine == SubSeq(buf, LineEnd + 1, Len(buf))

\* The line contains a colon.
HasColon == \/ buf[LineEnd].part \in {"connection", "length"}
            \/ \E j \in 1..(LineEnd - 1) : sent[buf[j].of].colons

-----------------------------------------------------------------------------
Init == /\ habit \in Habits
        /\ sent = <<>>
        /\ wire = <<>>
        /\ buf = <<>>
        /\ state = "ExpectRequestLine"
        /\ request = NoRequest
        /\ content = {}
        /\ loop = "idle"
        /\ open = TRUE
        /\ alive = TRUE
        /\ handled = <<>>
        /\ answers = <<>>

\* The client.
Send(k) == /\ Len(sent) < MaxRequests
           /\ habit = "pipelines" \/ (open /\ Len(answers) = Len(sent))
           /\ sent' = Append(sent, k)
           /\ wire' = wire \o Pieces(k, Len(sent) + 1)
           /\ UNCHANGED <<habit, buf, context, loop, alive, output>>

\* Data arrive and muduo calls onMessage().  n = 0: a piece of a line arrived.
Deliver(n) == /\ loop = "idle"
              /\ alive
              /\ wire # <<>>
              /\ n <= Len(wire)
              /\ buf' = buf \o SubSeq(wire, 1, n)
              /\ wire' = SubSeq(wire, n + 1, Len(wire))
              /\ loop' = "parsing"
              /\ UNCHANGED <<habit, sent, context, alive, output>>

Parsing(s) == loop = "parsing" /\ alive /\ state = s

-----------------------------------------------------------------------------
(* HttpContext::parseRequest().                                            *)

\* findCRLF() finds nothing: hasMore = false, and onMessage() returns.
AwaitLine == /\ loop = "parsing" /\ alive
             /\ state \in {"ExpectRequestLine", "ExpectHeaders"}
             /\ ~HasLine
             /\ loop' = "idle"
             /\ UNCHANGED <<client, buf, context, alive, output>>

\* The line is METHOD PATH VERSION with a known method: setMethod() has set method_
\* by the time the version is found unknown.
LineHasMethod == /\ buf[LineEnd].part = "line" /\ ~Glued
                 /\ sent[buf[LineEnd].of].method # "junk"
LineOK == LineHasMethod /\ sent[buf[LineEnd].of].version # "junk"

RequestLine == /\ Parsing("ExpectRequestLine")
               /\ HasLine
               /\ request.line = 0
               /\ LineOK
               /\ request' = [request EXCEPT !.line = buf[LineEnd].of]
               /\ state' = "ExpectHeaders"
               /\ buf' = AfterLine
               /\ UNCHANGED <<client, content, loop, alive, output>>

\* Slip: the line is skipped.
BadRequestLineSkipped == /\ Parsing("ExpectRequestLine")
                         /\ HasLine
                         /\ request.line = 0
                         /\ ~LineOK
                         /\ buf' = AfterLine
                         /\ loop' = "rejecting"
                         /\ UNCHANGED <<client, state, request, content, alive, output>>

\* The line is not consumed.
BadRequestLine == /\ Parsing("ExpectRequestLine")
                  /\ HasLine
                  /\ request.line = 0
                  /\ ~LineOK
                  /\ request' = IF LineHasMethod
                                  THEN [request EXCEPT !.line = buf[LineEnd].of]
                                  ELSE request
                  /\ loop' = "rejecting"
                  /\ UNCHANGED <<client, buf, state, content, alive, output>>

\* assert(method_ == HttpMethod::CInvalid), for any line that has a space in it.
AssertionFails == /\ Parsing("ExpectRequestLine")
                  /\ HasLine
                  /\ request.line # 0
                  /\ alive' = FALSE
                  /\ UNCHANGED <<client, buf, context, loop, output>>

\* processHeaderLine() of a line with a colon.  Of the headers only Connection and
\* Content-Length matter here; a later one of the same name overwrites.
HeaderLine == /\ Parsing("ExpectHeaders")
              /\ HasLine
              /\ HasColon
              /\ request' = IF Glued THEN request
                                     ELSE [request EXCEPT ![buf[1].part] = buf[1].of]
              /\ buf' = AfterLine
              /\ UNCHANGED <<client, state, content, loop, alive, output>>

BadHeaderLine == /\ Parsing("ExpectHeaders")
                 /\ HasLine
                 /\ ~HasColon
                 /\ Glued \/ buf[1].part # "blank"
                 /\ loop' = "rejecting"
                 /\ UNCHANGED <<client, buf, context, alive, output>>

BlankLine == /\ Parsing("ExpectHeaders")
             /\ HasLine
             /\ ~Glued
             /\ buf[1].part = "blank"
             /\ buf' = AfterLine

Method == sent[request.line].method
Length == IF request.length = 0 THEN "absent" ELSE sent[request.length].length

\* transitionAfterHeaders(): everything but POST and PUT is complete here.
HeadersWithoutBody == /\ BlankLine
                      /\ Method # "POST"
                      /\ state' = "GotAll"
                      /\ loop' = "complete"
                      /\ UNCHANGED <<client, request, content, alive, output>>

\* setupBodyParsing(): no Content-Length returns false, a garbled one makes stoi()
\* throw; onMessage() treats both alike.  The blank line is consumed.
HeadersWithoutLength == /\ BlankLine
                        /\ Method = "POST"
                        /\ Length \in {"absent", "garbage"}
                        /\ loop' = "rejecting"
                        /\ UNCHANGED <<client, context, alive, output>>

EmptyBody == Length = "exact" /\ sent[request.length].body = 0

HeadersWithLength == /\ BlankLine
                     /\ Method = "POST"
                     /\ Length \in {"exact", "negative"}
                     /\ state' = IF EmptyBody THEN "GotAll" ELSE "ExpectBody"
                     /\ loop' = IF EmptyBody THEN "complete" ELSE "parsing"
                     /\ UNCHANGED <<client, request, content, alive, output>>

\* Slip: waits for one unit too many.
BodyArrivedOneMore == Length = "exact" /\ Len(buf) > sent[request.length].body

\* A negative length is a huge uint64_t.
BodyArrived == Length = "exact" /\ Len(buf) >= sent[request.length].body

AwaitBody == /\ Parsing("ExpectBody")
             /\ ~BodyArrived
             /\ loop' = "idle"
             /\ UNCHANGED <<client, buf, context, alive, output>>
\* Slip: the whole buffer is taken for the body.
BodyTakesAll == /\ Parsing("ExpectBody")
                /\ BodyArrived
                /\ content' = {buf[i].of : i \in 1..Len(buf)}
                /\ buf' = <<>>
                /\ state' = "GotAll"
                /\ loop' = "complete"
                /\ UNCHANGED <<client, request, alive, output>>

Body == /\ Parsing("ExpectBody")
        /\ BodyArrived
        /\ LET n == sent[request.length].body
           IN  /\ content' = {buf[i].of : i \in 1..n}
               /\ buf' = SubSeq(buf, n + 1, Len(buf))
        /\ state' = "GotAll"
        /\ loop' = "complete"
        /\ UNCHANGED <<client, request, alive, output>>

-----------------------------------------------------------------------------
(* HttpServer::onMessage() after parseRequest().                           *)

\* muduo's send(): nothing is sent once the connection is shut down.
SendAnswer(id, status) ==
  answers' = IF open THEN Append(answers, [id |-> id, status |-> status]) ELSE answers

\* Slip: the connection stays open after a 400.
RejectKeepsOpen == /\ loop = "rejecting"
                   /\ SendAnswer(Len(handled) + 1, "400")
                   /\ loop' = "idle"
                   /\ UNCHANGED <<client, buf, context, open, alive, handled>>

Reject == /\ loop = "rejecting"
          /\ SendAnswer(Len(handled) + 1, "400")
          /\ open' = FALSE
          /\ loop' = "idle"
          /\ UNCHANGED <<client, buf, context, alive, handled>>

\* onRequest(), line 89: a short connection.
WantsClose ==
  LET connection == IF request.connection = 0 THEN "" ELSE sent[request.connection].connection
  IN  \/ connection = "close"
      \/ sent[request.line].version = "1.0" /\ connection # "Keep-Alive"

\* HttpHandleRequest(): CORS answers OPTIONS by throwing a response built with the
\* default closeConnection_ = true; no route is a 404 that closes; a handler that
\* throws is a 500.
Outcomes == IF Method = "OPTIONS" THEN {"204"} ELSE {"200", "404", "500"}
Closes(status) == WantsClose \/ status \in {"204", "404"}

\* Slip: state_ is not reset.
ResetRequest == /\ request' = NoRequest
                /\ UNCHANGED <<state, content>>

\* context->reset(): swap() with a fresh HttpRequest leaves content_ out.
ResetContext == /\ state' = "ExpectRequestLine"
                /\ request' = NoRequest
                /\ UNCHANGED content

OnRequest == /\ loop = "complete"
             /\ handled' = Append(handled, [id |-> request.line, body |-> content])
             /\ \E status \in Outcomes :
                  /\ SendAnswer(request.line, status)
                  /\ open' = (open /\ ~Closes(status))
             /\ ResetContext
             /\ loop' = "idle"
             /\ UNCHANGED <<client, buf, alive>>

ServerStep == \/ AwaitLine \/ RequestLine \/ BadRequestLine \/ AssertionFails
              \/ HeaderLine \/ BadHeaderLine
              \/ HeadersWithoutBody \/ HeadersWithoutLength \/ HeadersWithLength
              \/ AwaitBody \/ Body \/ Reject \/ OnRequest

Next == \/ \E k \in Kinds : Send(k)
        \/ \E n \in 0..Len(wire) : Deliver(n)
        \/ ServerStep

Spec == Init /\ [][Next]_vars

\* TCP delivers what was sent, and the IO loop goes on.  The client need not send.
FairSpec == /\ Spec
            /\ SF_vars(\E n \in 1..Len(wire) : Deliver(n))
            /\ WF_vars(ServerStep)

-----------------------------------------------------------------------------
Ids == 0..MaxRequests
PieceType == [of : 1..MaxRequests, part : Parts]

TypeOK == /\ habit \in Habits
          /\ sent \in Seq(Kinds) /\ Len(sent) <= MaxRequests
          /\ wire \in Seq(PieceType)
          /\ buf \in Seq(PieceType)
          /\ state \in {"ExpectRequestLine", "ExpectHeaders", "ExpectBody", "GotAll"}
          /\ request \in [line : Ids, connection : Ids, length : Ids]
          /\ content \subseteq 1..MaxRequests
          /\ loop \in {"idle", "parsing", "rejecting", "complete"}
          /\ open \in BOOLEAN
          /\ alive \in BOOLEAN
          /\ state \in {"ExpectHeaders", "ExpectBody", "GotAll"} => request.line # 0
          /\ state = "ExpectBody" => request.length # 0
          /\ state = "GotAll" <=> loop = "complete"
          /\ handled \in Seq([id : 1..MaxRequests, body : SUBSET (1..MaxRequests)])
          /\ answers \in Seq([id : 1..MaxRequests,
                              status : {"200", "204", "400", "404", "500"}])

\* However the stream is cut into chunks, the i-th answer is to the i-th request, and
\* no request reaches its handler twice or after a later one; as long as the connection
\* has not been shut down (a 400 may be followed by a misframed stream) none is skipped.
HandledInOrder == /\ \A i \in 1..Len(answers) : answers[i].id = i
                  /\ \A i \in 2..Len(handled) : handled[i - 1].id < handled[i].id
                  /\ open => \A i \in 1..Len(handled) : handled[i].id = i

\* What a handler is shown as the body.  A POST that declares its length and carries a
\* body is shown its own data, no byte of a neighbour's.  A request that carries none,
\* `Content-Length: 0' included, is shown what the request handled before it was shown,
\* since nothing clears content_.  A POST without a usable length reaches no handler on an
\* open connection; one that does after the 400, with the length of a later request, is
\* shown what was shown before or data that came behind its own line.
ExactPost(k) == k.method = "POST" /\ k.length = "exact"
ShownBefore(i) == IF i = 1 THEN {} ELSE handled[i - 1].body
BodyShown(id, body, before) ==
  LET k == sent[id]
  IN  /\ ExactPost(k) /\ k.body > 0 => body = {id}
      /\ k.method # "POST" \/ (ExactPost(k) /\ k.body = 0) => body = before
      /\ k.method = "POST" /\ k.length # "exact" =>
           ~open /\ (body = before \/ body \subseteq id..MaxRequests)
BodiesShown == \A i \in 1..Len(handled) :
                 BodyShown(handled[i].id, handled[i].body, ShownBefore(i))

\* A request line or header line that was answered 400 stays in the buffer: neither its
\* request nor anything behind it ever reaches a handler, whatever arrives later.
BadLine(k) == k.method = "junk" \/ k.version = "junk" \/ k.badHeader
NothingAfterBadLine ==
  [][(\E i \in 1..Len(answers) : answers[i].status = "400" /\ BadLine(sent[answers[i].id]))
     => UNCHANGED handled]_vars

\* A client that waits for its answers gets one to each well-formed request it sends,
\* short connections included, however the requests are cut into chunks.
WellFormed(k) == /\ k.method # "junk" /\ k.version # "junk" /\ ~k.badHeader
                 /\ IF k.method = "POST" THEN k.length = "exact" ELSE k.body = 0

EveryRequestAnswered ==
  \A i \in 1..MaxRequests :
    (habit = "waits" /\ Len(sent) >= i /\ \A j \in 1..i : WellFormed(sent[j])) ~> (Len(answers) >= i)

-----------------------------------------------------------------------------
(* What comments and an assertion say and the code does not do.            *)

\* HttpContext.hpp:13-17: the state machine handles several requests in one packet.
EveryRequestProcessed ==
  \A i \in 1..MaxRequests : (Len(sent) >= i) ~> (Len(handled) >= i \/ ~open)

\* HttpRequest.hpp:125: the one request object of a connection is emptied each time.
NoStaleBody == \A i \in 1..Len(handled) : handled[i].body \subseteq {handled[i].id}

\* HttpRequest.hpp:29: assert(method_ == HttpMethod::CInvalid).
NeverAborts == alive
=============================================================================
