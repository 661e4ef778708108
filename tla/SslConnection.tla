--------------------------- MODULE SslConnection ---------------------------
(***************************************************************************)
(* SslConnection between TCP and HttpServer, with a client: the handshake  *)
(* by flights, the two memory BIOs, and what HttpServer::onMessage makes   *)
(* of the plaintext it is given.                                           *)
(*                                                                         *)
(* OpenSSL is modelled from how the code drives it.  The client's          *)
(* plaintext is a sequence of pieces, one TLS record each; a piece may end *)
(* a line, and a line a request.  (A body is a line here: the parser takes *)
(* it whole as well.)  Some lines are malformed, and some requests have a  *)
(* response that closes the connection.  TCP delivers any number of        *)
(* records in one chunk; a chunk that completes none changes nothing.      *)
(***************************************************************************)
EXTENDS Integers, Sequences, FiniteSets, SequencesExt

CONSTANTS Kinds,       \* of handshake: "tls13", "tls12", "falseStart" or "resumed"
          Pieces,      \* their number
          LineEnds,    \* the pieces that end a line
          RequestEnds, \* those that end a request, which they name
          Large,       \* the requests whose response takes more than one record
          Streams      \* what the client may send: the requests whose response closes the
                       \* connection, and the malformed lines

ASSUME SslAssumption == /\ Pieces \in Nat /\ Pieces \in RequestEnds
                        /\ RequestEnds \subseteq LineEnds /\ LineEnds \subseteq 1..Pieces
                        /\ Large \subseteq RequestEnds
                        /\ Streams \subseteq [closing : SUBSET RequestEnds, malformed : SUBSET LineEnds]

VARIABLES
  kind,      \* of handshake that client and server agree on
  stream,    \* what the client sends
  client,    \* "start", "waiting", "finished", "open" or "broken"
  sent,      \* pieces the client has sent
  badSent,   \* it has sent a record that cannot be decrypted
  toServer,  \* records on their way
  toClient,  \* records on their way, and plaintext
  received,  \* responses and parts of them that the client has got
  state,     \* state_
  ssl,       \* the handshake of ssl_: "accept", "flight", "done" or "failed"
  readBio,   \* readBio_: records not read
  writeBio,  \* writeBio_: records not sent
  connected, \* conn_ has not been shut down
  read,      \* pieces that SSL_read has returned
  parsed,    \* the last piece the parser took while it was in step
  garbled,   \* the parser was given what does not follow
  torn       \* plaintext was dropped with a buffer that was not used up (history)

clientVars == <<kind, stream, client, sent, badSent, received>>
httpVars == <<read, parsed, garbled, torn>>
vars == <<clientVars, toServer, toClient, state, ssl, readBio, writeBio, connected, httpVars>>

Init == /\ kind \in Kinds /\ stream \in Streams
        /\ client = "start" /\ sent = 0 /\ badSent = FALSE /\ received = <<>>
        /\ toServer = <<>> /\ toClient = <<>>
        /\ state = "HANDSHAKE" /\ ssl = "accept"
        /\ readBio = <<>> /\ writeBio = <<>>
        /\ connected = TRUE
        /\ read = 0 /\ parsed = 0 /\ garbled = FALSE /\ torn = FALSE

Response(r, part) == [request |-> r, part |-> part]
Flight(name) == Response(0, name)
Record(type) == [type |-> type, piece |-> 0]
Data(p) == [type |-> "data", piece |-> p]

-----------------------------------------------------------------------------
ClientHello == /\ client = "start"
               /\ client' = "waiting"
               /\ toServer' = Append(toServer, Record("hello"))
               /\ UNCHANGED <<kind, stream, sent, badSent, received, toClient, state, ssl, readBio, writeBio,
                              connected, httpVars>>

\* Only a full handshake of TLS 1.2 without false start waits for the server's Finished.
ClientReceive ==
  /\ toClient # <<>>
  /\ toClient' = Tail(toClient)
  /\ LET item == Head(toClient)
     IN  \/ /\ item.part = "flight"
            /\ toServer' = Append(toServer, Record("finish"))
            /\ client' = IF kind = "tls12" THEN "finished" ELSE "open"
            /\ UNCHANGED received
         \/ /\ item.part = "finished"
            /\ client' = "open"
            /\ UNCHANGED <<toServer, received>>
         \/ /\ item.part = "tickets"
            /\ UNCHANGED <<client, toServer, received>>
         \/ /\ item.part \in {"whole", "beginning"}
            /\ received' = Append(received, item)
            /\ UNCHANGED <<client, toServer>>
         \/ /\ item.part = "plaintext"
            /\ client' = "broken"
            /\ UNCHANGED <<toServer, received>>
  /\ UNCHANGED <<kind, stream, sent, badSent, state, ssl, readBio, writeBio, connected, httpVars>>

ClientSend == /\ client = "open"
              /\ sent < Pieces
              /\ sent' = sent + 1
              /\ toServer' = Append(toServer, Data(sent'))
              /\ UNCHANGED <<kind, stream, client, badSent, received, toClient, state, ssl, readBio, writeBio,
                             connected, httpVars>>

ClientSendsBad == /\ client # "start"
                  /\ ~badSent
                  /\ badSent' = TRUE
                  /\ toServer' = Append(toServer, Record("bad"))
                  /\ UNCHANGED <<kind, stream, client, sent, received, toClient, state, ssl, readBio, writeBio,
                                 connected, httpVars>>

-----------------------------------------------------------------------------
\* Mutant: what was sent stays pending.
SendAndKeep(pending) ==
  /\ toClient' = IF connected THEN toClient \o pending ELSE toClient
  /\ writeBio' = pending

\* SslConnection::sendPendingData; a connection that was shut down drops it.
sendPendingData(pending) ==
  /\ toClient' = IF connected THEN toClient \o pending ELSE toClient
  /\ writeBio' = <<>>

\* The last flight of the server: nothing when a session is resumed.
LastFlight == CASE kind = "tls13" -> <<Flight("tickets")>>
                [] kind \in {"tls12", "falseStart"} -> <<Flight("finished")>>
                [] OTHER -> <<>>

(* SslConnection::handleHandshake: it returns as soon as the handshake is  *)
(* complete, before it sends what is pending.  After an error the state    *)
(* stays HANDSHAKE, and later data fail again.                             *)
handleHandshake(bio) ==
  \/ /\ ssl = "accept" /\ bio = <<Record("hello")>>
     /\ ssl' = "flight"
     /\ readBio' = <<>>
     /\ sendPendingData(Append(writeBio, Flight("flight")))
     /\ UNCHANGED <<state, connected>>
  \/ /\ ssl = "flight" /\ Head(bio) = Record("finish")
     /\ ssl' = "done"
     /\ state' = "ESTABLISHED"
     /\ readBio' = Tail(bio)
     /\ writeBio' = writeBio \o LastFlight
     /\ UNCHANGED <<toClient, connected>>
  \/ /\ \/ ssl = "failed" \/ Head(bio) = Record("bad")
        \/ ssl = "accept" /\ bio = <<Record("hello"), Record("bad")>>
     /\ ssl' = "failed"
     /\ readBio' = <<>> /\ writeBio' = <<>>
     /\ connected' = FALSE
     /\ UNCHANGED <<state, toClient>>

-----------------------------------------------------------------------------
\* SSL_write, which with partial writes takes no more than one record, and the flush.
send(r) == sendPendingData(Append(writeBio, Response(r, IF r \in Large THEN "beginning" ELSE "whole")))

\* The 400 of onMessage: past SSL, and past what is pending.
BadRequest == /\ toClient' = IF connected THEN Append(toClient, Flight("plaintext")) ELSE toClient
              /\ connected' = FALSE
              /\ UNCHANGED writeBio

\* Mutant: a response that says close leaves the connection open.
RequestKeepsOpen(r) == send(r) /\ UNCHANGED connected

\* onRequest: a response that says close (a 404, CORS, HTTP/1.0, Connection: close) is the last.
onRequest(r) == send(r) /\ connected' = (connected /\ r \notin stream.closing)

Boundary(p) == p \in RequestEnds \union {0}

(* HttpServer::onMessage, given the pieces read + 1 .. upto in a buffer of *)
(* their own: the parser takes whole lines up to the end of one request or *)
(* a malformed line, and what it does not take goes with the buffer.  It   *)
(* is in step when the pieces follow those it took, or when both places    *)
(* are between requests.                                                   *)
onMessage(upto) ==
  LET chunk == read + 1..upto
      inStep == ~garbled /\ (read = parsed \/ (Boundary(read) /\ Boundary(parsed)))
      stops == {p \in chunk : p \in RequestEnds \/ p \in stream.malformed}
      lines == {p \in chunk : p \in LineEnds \ stream.malformed /\ \A q \in stops : p <= q}
      taken == IF lines = {} THEN read ELSE Max(lines)
      complete == stops # {} /\ Min(stops) \notin stream.malformed
      refused == stops # {} /\ Min(stops) \in stream.malformed
  IN  /\ read' = upto
      /\ \/ /\ inStep /\ refused
            /\ garbled' = TRUE
            /\ BadRequest
            /\ UNCHANGED <<parsed, torn>>
         \/ /\ inStep /\ ~refused
            /\ parsed' = taken
            /\ torn' = (torn \/ taken # upto)
            /\ UNCHANGED garbled
            /\ IF complete THEN onRequest(taken) ELSE UNCHANGED <<toClient, writeBio, connected>>
         \/ /\ ~inStep
            /\ garbled' = TRUE
            /\ UNCHANGED <<parsed, torn>>
            /\ \/ UNCHANGED <<toClient, writeBio, connected>>
               \/ send(0) /\ connected' \in {connected, FALSE}
               \/ BadRequest

\* The pieces before the first record that cannot be decrypted.
Readable(bio) == LET Bad(record) == record.type # "data"
                     first == SelectInSeq(bio, Bad)
                 IN  IF first = 0 THEN bio ELSE SubSeq(bio, 1, first - 1)

\* Mutant: one call of SSL_read for each chunk.
ReadOnce(bio) ==
  LET plain == SubSeq(Readable(bio), 1, IF Readable(bio) = <<>> THEN 0 ELSE 1)
  IN  /\ readBio' = SubSeq(bio, Len(plain) + 1, Len(bio))
      /\ IF plain # <<>> THEN onMessage(Head(plain).piece) /\ UNCHANGED state
         ELSE UNCHANGED <<state, connected, toClient, writeBio, httpVars>>

(* The loop of SSL_read in onRead.  An error is looked at only when there  *)
(* was nothing to read before it.                                          *)
readAll(bio) ==
  LET plain == Readable(bio)
  IN  /\ readBio' = SubSeq(bio, Len(plain) + 1, Len(bio))
      /\ \/ plain # <<>> /\ onMessage(Last(plain).piece) /\ UNCHANGED state
         \/ /\ plain = <<>> /\ bio # <<>>
            /\ state' = "ERROR"
            /\ connected' = FALSE
            /\ UNCHANGED <<toClient, writeBio, httpVars>>

\* SslConnection::onRead, with the first n records on the way.
onRead(n) ==
  /\ n \in 1..Len(toServer)
  /\ toServer' = SubSeq(toServer, n + 1, Len(toServer))
  /\ LET bio == readBio \o SubSeq(toServer, 1, n)
     IN  \/ /\ state = "HANDSHAKE"
            /\ handleHandshake(bio)
            /\ UNCHANGED httpVars
         \/ /\ state = "ESTABLISHED"
            /\ readAll(bio)
            /\ UNCHANGED ssl
         \/ /\ state = "ERROR"
            /\ UNCHANGED <<state, ssl, readBio, writeBio, connected, toClient, httpVars>>
  /\ UNCHANGED clientVars

Deliver == \E n \in 1..Pieces + 3 : onRead(n)

Next == ClientHello \/ ClientReceive \/ ClientSend \/ ClientSendsBad \/ Deliver

Spec == Init /\ [][Next]_vars

\* TCP delivers in both directions while the connection lasts.
FairSpec == Spec /\ WF_vars(Deliver) /\ WF_vars(ClientReceive)

-----------------------------------------------------------------------------
\* The requests up to r, and its number among them.
UpTo(r) == {q \in RequestEnds : q <= r}
Nth(r) == Cardinality(UpTo(r))

\* The client has the whole response of r, in its place.
Answered(r) == Len(received) >= Nth(r) /\ received[Nth(r)] = Response(r, "whole")

\* Before r no response closes the connection, and no line up to r is malformed.
Served(r) == (\A q \in stream.closing : r <= q) /\ (\A p \in stream.malformed : r < p)

\* The line p is the first malformed one, and no response before it closes the connection.
Refused(p) == /\ p \in stream.malformed
              /\ \A q \in stream.closing \union stream.malformed : p <= q

\* The variables have their types, and nothing but the server's last flight waits to be sent.
TypeOK ==
  /\ kind \in Kinds /\ stream \in Streams
  /\ client \in {"start", "waiting", "finished", "open", "broken"}
  /\ sent \in 0..Pieces /\ read \in 0..sent /\ parsed \in 0..read
  /\ badSent \in BOOLEAN /\ connected \in BOOLEAN /\ garbled \in BOOLEAN /\ torn \in BOOLEAN
  /\ state \in {"HANDSHAKE", "ESTABLISHED", "ERROR"}
  /\ ssl \in {"accept", "flight", "done", "failed"}
  /\ state # "HANDSHAKE" <=> ssl = "done"
  /\ writeBio \in {<<>>, LastFlight}

(* Responses never overtake each other, and a request gets no second one.  *)
(* Until a chunk ended within a line or went past a request and the rest   *)
(* was dropped, the client gets the responses of its requests in order,    *)
(* none skipped, none behind one that closes the connection or behind a    *)
(* malformed line; each is whole unless it takes more than one record; and *)
(* plaintext is the 400 of the first malformed line that was read, after   *)
(* the responses of all the requests before it.                            *)
AnswersInOrder ==
  /\ \A i, j \in DOMAIN received :
       i < j /\ received[j].request > 0 => received[i].request \in 1..received[j].request - 1
  /\ ~torn => /\ \A i \in DOMAIN received :
                   LET r == received[i].request
                   IN  /\ r \in RequestEnds /\ Nth(r) = i /\ Served(r)
                       /\ received[i].part = "beginning" => r \in Large
              /\ client = "broken" =>
                   \E p \in 1..read : Refused(p) /\ Len(received) = Nth(p - 1)

(* A client that says hello can send, and what it sends is answered, or    *)
(* one of these is the reason: it waits for the Finished of a full TLS 1.2 *)
(* handshake; its data came with the end of the handshake and no chunk     *)
(* after them; a chunk was torn; a record could not be decrypted; the      *)
(* response or one before it is large; a response before it closed the     *)
(* connection; a line of it or before it is malformed.                     *)
StallsExplained ==
  /\ client = "waiting" ~> client \in {"open", "broken"} \/ kind = "tls12" \/ badSent
  /\ \A r \in RequestEnds :
       sent >= r ~> \/ Answered(r) \/ torn \/ badSent \/ UpTo(r) \intersect Large # {}
                    \/ ~Served(r) \/ [](readBio # <<>> /\ read = 0)
=============================================================================
