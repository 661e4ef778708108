------------------------ MODULE HttpConnection_proofs ------------------------
(***************************************************************************)
(* That a connection answers its requests in their order, which body each  *)
(* handler is shown, and that it never goes past a line it refused, for    *)
(* any kinds of requests, any number of them and any chunks.               *)
(*                                                                         *)
(* The argument is about the stream, the input buffer and what is still on *)
(* the wire: its pieces are in the order in which the client wrote them,   *)
(* the header lines of a request line that is in it are in it too, and so  *)
(* is the body behind a blank line.  While the connection is open exactly  *)
(* the requests after the last one handled still have their request line   *)
(* in the stream; the parser is at the first of them.                      *)
(***************************************************************************)
EXTENDS HttpConnection, SequenceTheorems, WellFoundedInduction, TLAPS

Stream == buf \o wire

\* The order of pieces on the wire.
Rank(part) == CASE part = "line" -> 1 [] part = "connection" -> 2 [] part = "length" -> 3
                [] part = "bad" -> 4 [] part = "blank" -> 5 [] OTHER -> 6
Before(p, q) == \/ p.of < q.of
                \/ /\ p.of = q.of
                   /\ Rank(p.part) < Rank(q.part) \/ (p.part = "data" /\ q.part = "data")

\* A request of kind k has such a piece.
Has(k, part) == CASE part = "connection" -> k.connection # ""
                  [] part = "length" -> k.length # "absent"
                  [] part = "bad" -> k.badHeader
                  [] OTHER -> TRUE

HeaderParts == Parts \ {"data"}

Piece(r, part) == [of |-> r, part |-> part]
In(s, r, part) == \E i \in DOMAIN s : s[i] = Piece(r, part)

\* The body of request r, of n units, is in s behind position i.
BodyAt(s, i, r, n) == \A d \in 1..n : i + d \in DOMAIN s /\ s[i + d] = Piece(r, "data")

(* What any rest of the stream of the requests q looks like.               *)
InOrder(s) == \A i \in DOMAIN s : \A j \in DOMAIN s : i < j => Before(s[i], s[j])
OfSent(s, q) == \A i \in DOMAIN s : s[i].of \in 1..Len(q)
Whole(s, q) == \A r \in 1..Len(q) : \A part \in HeaderParts :
                 In(s, r, "line") /\ Has(q[r], part) => In(s, r, part)
Bodies(s, q) == \A i \in DOMAIN s : s[i].part = "blank" => BodyAt(s, i, s[i].of, q[s[i].of].body)
Framed(s, q) == InOrder(s) /\ OfSent(s, q) /\ Whole(s, q) /\ Bodies(s, q)

(* The request whose line was taken: its own body is what its handler will *)
(* see, even after the connection is shut down, when other requests may    *)
(* lose their lines to it.                                                 *)
OwnParts == LET r == request.line
            IN  /\ state = "ExpectHeaders" => /\ In(Stream, r, "blank")
                                              /\ request.length = r \/ In(Stream, r, "length")
                /\ state = "ExpectBody" => request.length = r /\ BodyAt(Stream, 0, r, sent[r].body)

\* What may be left of the request whose line was taken.
MayFollow(st, part) == part = "data" \/ (st = "ExpectHeaders" /\ part # "line")

Current == state # "ExpectRequestLine" =>
  LET r == request.line
  IN  /\ r \in 1..Len(sent)
      /\ sent[r].method # "junk" /\ sent[r].version # "junk"
      /\ \A i \in DOMAIN Stream : Stream[i].of > r \/ (Stream[i].of = r /\ MayFollow(state, Stream[i].part))
      /\ \A i \in DOMAIN handled : handled[i].id < r
      /\ ExactPost(sent[r]) => OwnParts

\* Handled requests are sent ones, and only data of theirs can still be in the stream.
Handled == /\ \A i \in DOMAIN handled : handled[i].id \in 1..Len(sent)
           /\ \A i \in DOMAIN handled : \A j \in DOMAIN Stream :
                Stream[j].part # "data" => handled[i].id < Stream[j].of
           /\ \A i \in 2..Len(handled) : handled[i - 1].id < handled[i].id

\* parseRequest() refuses the line in the buffer without taking it out.
Stuck == /\ HasLine
         /\ \/ state = "ExpectRequestLine" /\ ~LineOK
            \/ state = "ExpectHeaders" /\ ~HasColon /\ (Glued \/ buf[1].part # "blank")

NextId == Len(handled) + 1

\* As long as the connection is open no request has been passed over.
Aligned == open =>
  /\ Len(answers) = Len(handled)
  /\ \A i \in DOMAIN handled : handled[i].id = i
  /\ state # "ExpectRequestLine" => request.line = NextId /\ request.length \in {0, NextId}
  /\ state = "ExpectBody" => sent[NextId].method = "POST" /\ request.length = NextId
  /\ \A r \in 1..Len(sent) :
       (IF state = "ExpectRequestLine" THEN r >= NextId ELSE r > NextId) => In(Stream, r, "line")
  /\ state = "ExpectHeaders" /\ loop # "rejecting" =>
       /\ In(Stream, NextId, "blank")
       /\ sent[NextId].badHeader => In(Stream, NextId, "bad")
  /\ loop = "rejecting" => NextId <= Len(sent) /\ (BadLine(sent[NextId]) => Stuck)

Answered == /\ \A i \in DOMAIN answers : answers[i].id = i /\ i <= Len(sent)
            /\ \A i \in DOMAIN answers : answers[i].status = "400" /\ BadLine(sent[i]) => Stuck

Fresh == /\ state = "ExpectRequestLine" => request.length = 0
         /\ request.length \in 0..Len(sent) /\ request.connection \in 0..Len(sent)

\* content_ is what the last handler was shown until a body is read, and what the next
\* one is to be shown from then on.
Latest == ShownBefore(Len(handled) + 1)
Contents == /\ state # "GotAll" => content = Latest
            /\ state = "GotAll" => BodyShown(request.line, content, Latest)
            /\ state = "ExpectBody" => sent[request.line].method = "POST" /\ ~EmptyBody

Inv == /\ TypeOK /\ Framed(Stream, sent)
       /\ Current /\ Handled /\ Aligned /\ Answered /\ Fresh /\ Contents /\ BodiesShown

-----------------------------------------------------------------------------
(* Sequences.                                                              *)

LEMMA Least ==
  ASSUME NEW S \in SUBSET Nat, S # {}
  PROVE  \E n \in S : \A m \in S : n <= m
<1> DEFINE R == {p \in Nat \X Nat : p[1] < p[2]}
<1>1. IsWellFoundedOn(R, Nat)
  BY NatLessThanWellFounded DEF OpToRel
<1> HIDE DEF R
<1>2. PICK n \in S : \A m \in S : <<m, n>> \notin R
  BY <1>1, WFMin
<1>3. ASSUME NEW m \in S PROVE n <= m
  <2>1. m \in Nat /\ n \in Nat /\ <<m, n>> \notin R
    BY <1>2
  <2>2. ~(m < n)
    BY <2>1 DEF R
  <2> QED BY <2>1, <2>2
<1> QED BY <1>3

\* t is s without its first n elements.
Rest(t, s, n) == /\ t \in Seq(PieceType)
                 /\ n \in 0..Len(s) /\ Len(t) = Len(s) - n
                 /\ DOMAIN t = 1..Len(t)
                 /\ \A i \in DOMAIN t : i + n \in DOMAIN s /\ t[i] = s[i + n]

LEMMA RestOfSeq ==
  ASSUME NEW s \in Seq(PieceType), NEW n \in 0..Len(s)
  PROVE  Rest(SubSeq(s, n + 1, Len(s)), s, n)
<1> DEFINE L == Len(s)
           t == SubSeq(s, n + 1, L)
<1>1. L \in Nat /\ DOMAIN s = 1..L /\ n \in Nat /\ n <= L
  BY LenProperties
<1>2. \A i \in (n + 1)..L : s[i] \in PieceType
  BY <1>1, ElementOfSeq
<1>3. /\ t \in Seq(PieceType)
      /\ Len(t) = IF n + 1 <= L THEN L - (n + 1) + 1 ELSE 0
      /\ \A i \in 1..(L - (n + 1) + 1) : t[i] = s[(n + 1) + i - 1]
  <2> HIDE DEF L
  <2> QED BY <1>1, <1>2, SubSeqProperties
<1>4. DOMAIN t = 1..Len(t)
  BY <1>3, LenProperties
<1>5. L = Len(s)
  OBVIOUS
<1> HIDE DEF t, L
<1>6. Len(t) = L - n
  BY <1>1, <1>3
<1>7. ASSUME NEW i \in DOMAIN t
      PROVE  i + n \in DOMAIN s /\ t[i] = s[i + n]
  <2>1. i \in 1..(L - n) /\ (n + 1) + i - 1 = i + n
    BY <1>1, <1>4, <1>6
  <2>2. i \in 1..(L - (n + 1) + 1)
    BY <1>1, <2>1
  <2>3. t[i] = s[(n + 1) + i - 1]
    BY <1>3, <2>2
  <2> QED BY <1>1, <2>1, <2>3
<1>8. Rest(t, s, n)
  BY <1>3, <1>4, <1>5, <1>6, <1>7 DEF Rest
<1> QED BY <1>8 DEF t, L

LEMMA RestOfConcat ==
  ASSUME NEW s \in Seq(PieceType), NEW u \in Seq(PieceType), NEW t, NEW n, Rest(t, s, n)
  PROVE  Rest(t \o u, s \o u, n)
<1>1. /\ Len(s) \in Nat /\ Len(u) \in Nat /\ Len(t) \in Nat
      /\ DOMAIN s = 1..Len(s)
      /\ t \in Seq(PieceType) /\ Len(t) = Len(s) - n /\ n \in 0..Len(s)
      /\ DOMAIN t = 1..Len(t) /\ \A i \in DOMAIN t : t[i] = s[i + n]
  BY LenProperties DEF Rest
<1> DEFINE tu == t \o u
           su == s \o u
<1>2. /\ tu \in Seq(PieceType) /\ Len(tu) = Len(t) + Len(u)
      /\ \A i \in 1..(Len(t) + Len(u)) : tu[i] = IF i <= Len(t) THEN t[i] ELSE u[i - Len(t)]
  BY <1>1, ConcatProperties
<1>3. /\ su \in Seq(PieceType) /\ Len(su) = Len(s) + Len(u)
      /\ \A i \in 1..(Len(s) + Len(u)) : su[i] = IF i <= Len(s) THEN s[i] ELSE u[i - Len(s)]
  BY <1>1, ConcatProperties
<1>4. DOMAIN tu = 1..Len(tu) /\ DOMAIN su = 1..Len(su)
  BY <1>2, <1>3, LenProperties
<1> HIDE DEF tu, su
<1>5. ASSUME NEW i \in DOMAIN tu
      PROVE  i + n \in DOMAIN su /\ tu[i] = su[i + n]
  <2>1. i \in Nat /\ i >= 1 /\ i <= Len(s) - n + Len(u)
    BY <1>1, <1>2, <1>4
  <2>2. i + n \in DOMAIN su
    BY <1>1, <1>3, <1>4, <2>1
  <2>3. i - Len(t) = i + n - Len(s)
    BY <1>1, <2>1
  <2>4. tu[i] = IF i <= Len(t) THEN t[i] ELSE u[i - Len(t)]
    BY <1>1, <1>2, <1>4
  <2>5. su[i + n] = IF i + n <= Len(s) THEN s[i + n] ELSE u[i + n - Len(s)]
    BY <1>1, <1>3, <1>4, <2>2
  <2>6. CASE i <= Len(t)
    <3>1. i \in DOMAIN t /\ i + n <= Len(s)
      BY <1>1, <2>1, <2>6
    <3> QED BY <1>1, <2>2, <2>4, <2>5, <2>6, <3>1
  <2>7. CASE ~(i <= Len(t))
    <3>1. ~(i + n <= Len(s))
      BY <1>1, <2>1, <2>7
    <3> QED BY <2>2, <2>3, <2>4, <2>5, <2>7, <3>1
  <2> QED BY <2>6, <2>7
<1>6. Rest(tu, su, n)
  BY <1>1, <1>2, <1>3, <1>4, <1>5 DEF Rest
<1> QED BY <1>6 DEF tu, su

\* The first line in the buffer: findCRLF().
LEMMA LineEndProperties ==
  ASSUME TypeOK, HasLine
  PROVE  /\ LineEnd \in 1..Len(buf)
         /\ buf[LineEnd].part # "data"
         /\ \A j \in 1..(LineEnd - 1) : buf[j].part = "data"
<1> DEFINE S == {i \in 1..Len(buf) : buf[i].part # "data"}
<1>1. S \in SUBSET Nat /\ S # {}
  BY DEF HasLine
<1>2. PICK n \in S : \A m \in S : n <= m
  BY <1>1, Least
<1>3. n \in 1..Len(buf) /\ buf[n].part # "data"
  BY <1>2
<1>4. Len(buf) \in Nat
  BY LenProperties DEF TypeOK
<1>5. \A j \in 1..(n - 1) : buf[j].part = "data"
  <2> TAKE j \in 1..(n - 1)
  <2>1. j \in 1..Len(buf) /\ ~(n <= j)
    BY <1>3, <1>4
  <2> QED BY <1>2, <2>1
<1> HIDE DEF S
<1> QED BY <1>3, <1>5 DEF LineEnd

-----------------------------------------------------------------------------
(* The stream: what is taken out of it in front, and what is sent.         *)

\* What is still in the rest, and what was before it.
LEMMA InRest ==
  ASSUME NEW s \in Seq(PieceType), NEW t, NEW n, Rest(t, s, n), NEW r, NEW part,
         \A i \in 1..n : s[i] # Piece(r, part)
  PROVE  In(s, r, part) <=> In(t, r, part)
<1>1. /\ Len(s) \in Nat /\ DOMAIN s = 1..Len(s) /\ n \in 0..Len(s)
      /\ DOMAIN t = 1..Len(t) /\ Len(t) = Len(s) - n
      /\ \A i \in DOMAIN t : i + n \in DOMAIN s /\ t[i] = s[i + n]
  BY LenProperties DEF Rest
<1>2. ASSUME NEW i \in DOMAIN s, s[i] = Piece(r, part)
      PROVE  In(t, r, part)
  <2>1. i \notin 1..n
    BY <1>2
  <2>2. i - n \in DOMAIN t /\ (i - n) + n = i
    BY <1>1, <1>2, <2>1
  <2> QED BY <1>1, <1>2, <2>2 DEF In
<1>3. ASSUME NEW i \in DOMAIN t, t[i] = Piece(r, part)
      PROVE  In(s, r, part)
  BY <1>1, <1>3 DEF In
<1> QED BY <1>2, <1>3 DEF In

LEMMA FramedRest ==
  ASSUME NEW s \in Seq(PieceType), NEW t, NEW n, Rest(t, s, n), NEW q \in Seq(Kinds),
         Framed(s, q)
  PROVE  Framed(t, q)
<1>1. /\ Len(s) \in Nat /\ DOMAIN s = 1..Len(s) /\ n \in 0..Len(s)
      /\ t \in Seq(PieceType) /\ DOMAIN t = 1..Len(t) /\ Len(t) = Len(s) - n
      /\ \A i \in DOMAIN t : i + n \in DOMAIN s /\ t[i] = s[i + n]
  BY LenProperties DEF Rest
<1>2. InOrder(t)
  <2> SUFFICES ASSUME NEW i \in DOMAIN t, NEW j \in DOMAIN t, i < j
               PROVE  Before(t[i], t[j])
    BY DEF InOrder
  <2>1. i + n < j + n
    BY <1>1
  <2> QED BY <1>1, <2>1 DEF Framed, InOrder
<1>3. OfSent(t, q)
  BY <1>1 DEF Framed, OfSent
<1>4. Whole(t, q)
  <2> SUFFICES ASSUME NEW r \in 1..Len(q), NEW part \in HeaderParts, In(t, r, "line"),
                      Has(q[r], part)
               PROVE  In(t, r, part)
    BY DEF Whole
  <2>1. CASE part = "line"
    BY <2>1
  <2>2. CASE part # "line"
    <3>1. PICK l \in DOMAIN t : t[l] = Piece(r, "line")
      BY DEF In
    <3>2. In(s, r, part)
      <4>1. In(s, r, "line")
        BY <1>1, <3>1 DEF In
      <4> QED BY <4>1 DEF Framed, Whole
    <3>3. \A i \in 1..n : s[i] # Piece(r, part)
      <4> SUFFICES ASSUME NEW i \in 1..n, s[i] = Piece(r, part) PROVE FALSE
        OBVIOUS
      <4>1. i \in DOMAIN s /\ l + n \in DOMAIN s /\ i < l + n /\ s[l + n] = Piece(r, "line")
        BY <1>1, <3>1
      <4>2. Before(s[i], s[l + n])
        BY <4>1 DEF Framed, InOrder
      <4>3. r \in Int
        OBVIOUS
      <4> QED BY <2>2, <4>1, <4>2, <4>3 DEF Before, Rank, Piece, HeaderParts, Parts
    <3> QED BY <3>2, <3>3, InRest
  <2> QED BY <2>1, <2>2
<1>5. Bodies(t, q)
  <2> SUFFICES ASSUME NEW i \in DOMAIN t, t[i].part = "blank",
                      NEW d \in 1..q[t[i].of].body
               PROVE  i + d \in DOMAIN t /\ t[i + d] = Piece(t[i].of, "data")
    BY DEF Bodies, BodyAt
  <2>1. i + n \in DOMAIN s /\ s[i + n] = t[i]
    BY <1>1
  <2>2. (i + n) + d \in DOMAIN s /\ s[(i + n) + d] = Piece(t[i].of, "data")
    BY <2>1 DEF Framed, Bodies, BodyAt
  <2>3. i + d \in DOMAIN t /\ (i + d) + n = (i + n) + d
    <3>1. d \in Nat
      <4>1. d \in 1..q[t[i].of].body
        OBVIOUS
      <4> QED BY <4>1
    <3>2. i \in Nat /\ n \in Nat /\ i >= 1
      BY <1>1
    <3> QED BY <1>1, <2>2, <3>1, <3>2
  <2> QED BY <1>1, <2>2, <2>3
<1> QED BY <1>2, <1>3, <1>4, <1>5 DEF Framed

Single(r, part) == <<Piece(r, part)>>
Optional(o, r, part) == o \in {<<>>, Single(r, part)}
EndsWith(s, x) == Len(s) \in Nat \ {0} /\ s[Len(s)] = x
UpTo(s, r, n) == /\ s \in Seq(PieceType) /\ InOrder(s)
                 /\ \A i \in DOMAIN s : s[i].of = r /\ Rank(s[i].part) <= n

\* A header line behind what has a lower rank.
LEMMA OneMore ==
  ASSUME NEW r \in 1..MaxRequests, NEW part \in HeaderParts, NEW m \in Nat, m < Rank(part),
         NEW s, UpTo(s, r, m), NEW o, Optional(o, r, part), NEW t, t = s \o o
  PROVE  /\ UpTo(t, r, Rank(part))
         /\ \A other : In(s, r, other) => In(t, r, other)
         /\ o = Single(r, part) => In(t, r, part) /\ EndsWith(t, Piece(r, part))
<1> DEFINE x == Piece(r, part)
           xs == Single(r, part)
<1>1. s \in Seq(PieceType) /\ InOrder(s) /\ \A i \in DOMAIN s : s[i].of = r /\ Rank(s[i].part) <= m
  BY DEF UpTo
<1>2. x \in PieceType /\ x.of = r /\ x.part = part
  BY DEF Piece, PieceType, HeaderParts
<1>3. \A p \in PieceType : Rank(p.part) \in 1..6
  BY DEF Rank, PieceType
<1>4. Len(s) \in Nat /\ DOMAIN s = 1..Len(s) /\ \A i \in DOMAIN s : s[i] \in PieceType
  BY <1>1, LenProperties, ElementOfSeq
<1>5. xs = <<x>>
  BY DEF Single
<1> HIDE DEF x, xs
<1>6. /\ Rank(part) \in Int
      /\ \A i \in DOMAIN s : s[i].of = r /\ Rank(s[i].part) \in Int /\ Rank(s[i].part) < Rank(part)
  <2>1. Rank(part) \in 1..6
    BY <1>2, <1>3
  <2>2. ASSUME NEW i \in DOMAIN s
        PROVE  s[i].of = r /\ Rank(s[i].part) \in 1..6 /\ Rank(s[i].part) <= m
    BY <1>1, <1>3, <1>4
  <2> QED BY <2>1, <2>2
<1>7. CASE o = <<>>
  <2>1. t = s
    BY <1>1, <1>7, ConcatEmptySeq
  <2>2. \A i \in DOMAIN s : Rank(s[i].part) <= Rank(part)
    BY <1>6
  <2>3. o # xs
    BY <1>7, <1>5
  <2> QED BY <1>1, <1>6, <2>1, <2>2, <2>3 DEF x, xs, UpTo
<1>8. CASE o = xs
  <2>1. t = Append(s, x)
    <3>1. Append(s, x) = s \o xs
      BY <1>1, <1>2, <1>5, AppendIsConcat
    <3> QED BY <1>8, <3>1
  <2>2. /\ t \in Seq(PieceType) /\ Len(t) = Len(s) + 1 /\ t[Len(s) + 1] = x
        /\ \A i \in 1..Len(s) : t[i] = s[i]
    BY <1>1, <1>2, <2>1, AppendProperties
  <2>3. DOMAIN t = 1..Len(t)
    BY <2>2, LenProperties
  <2>4. \A i \in DOMAIN s : i \in DOMAIN t /\ t[i] = s[i]
    BY <1>4, <2>2, <2>3
  <2>5. \A i \in DOMAIN t : i \in DOMAIN s \/ i = Len(s) + 1
    BY <1>4, <2>2, <2>3
  <2>6. \A i \in DOMAIN t : t[i].of = r /\ Rank(t[i].part) <= Rank(part)
    <3> TAKE i \in DOMAIN t
    <3>1. CASE i \in DOMAIN s
      BY <1>6, <2>4, <3>1
    <3>2. CASE i = Len(s) + 1
      BY <1>2, <1>6, <2>2, <3>2
    <3> QED BY <2>5, <3>1, <3>2
  <2>7. InOrder(t)
    <3> SUFFICES ASSUME NEW i \in DOMAIN t, NEW j \in DOMAIN t, i < j
                 PROVE  Before(t[i], t[j])
      BY DEF InOrder
    <3>1. i \in DOMAIN s
      BY <1>4, <2>2, <2>3
    <3>2. CASE j \in DOMAIN s
      BY <1>1, <2>4, <3>1, <3>2 DEF InOrder
    <3>3. CASE j = Len(s) + 1
      <4>1. t[j] = x /\ t[i] = s[i] /\ s[i].of = r /\ Rank(s[i].part) < Rank(part)
        BY <1>6, <2>2, <2>4, <3>1, <3>3
      <4> QED BY <1>2, <4>1 DEF Before
    <3> QED BY <2>5, <3>2, <3>3
  <2>8. In(t, r, part)
    BY <1>4, <2>2, <2>3 DEF In, x
  <2>9. \A other : In(s, r, other) => In(t, r, other)
    BY <2>4 DEF In
  <2>10. EndsWith(t, x)
    BY <1>4, <2>2 DEF EndsWith
  <2> QED BY <1>8, <2>2, <2>6, <2>7, <2>8, <2>9, <2>10 DEF x, xs, UpTo
<1> QED BY <1>7, <1>8 DEF x, xs, Optional

\* What request r puts on the wire: its line first, its other header lines behind, and
\* its body behind the blank line.
LEMMA PiecesProperties ==
  ASSUME NEW k \in Kinds, NEW r \in 1..MaxRequests, NEW p, p = Pieces(k, r)
  PROVE  /\ p \in Seq(PieceType) /\ InOrder(p)
         /\ \A i \in DOMAIN p : p[i].of = r
         /\ In(p, r, "line")
         /\ \A part \in HeaderParts : Has(k, part) => In(p, r, part)
         /\ \A i \in DOMAIN p : p[i].part = "blank" => BodyAt(p, i, r, k.body)
<1> DEFINE o2 == IF k.connection # "" THEN Single(r, "connection") ELSE <<>>
           o3 == IF k.length # "absent" THEN Single(r, "length") ELSE <<>>
           o4 == IF k.badHeader THEN Single(r, "bad") ELSE <<>>
           p1 == Single(r, "line")
           p2 == p1 \o o2
           p3 == p2 \o o3
           p4 == p3 \o o4
           o5 == Single(r, "blank")
           p5 == p4 \o o5
           data == [j \in 1..k.body |-> Piece(r, "data")]
<1>1. k.body \in 0..2 /\ k.badHeader \in BOOLEAN
  BY HttpAssumption DEF KindType
<1>2. p = p5 \o data
  BY DEF Pieces, Piece, Single
<1>3. /\ Optional(o2, r, "connection") /\ (Has(k, "connection") => o2 = Single(r, "connection"))
      /\ Optional(o3, r, "length") /\ (Has(k, "length") => o3 = Single(r, "length"))
      /\ Optional(o4, r, "bad") /\ (Has(k, "bad") => o4 = Single(r, "bad"))
      /\ Optional(o5, r, "blank") /\ o5 = Single(r, "blank")
  BY DEF Has, Optional
<1>4. UpTo(p1, r, 1) /\ In(p1, r, "line")
  <2>1. Piece(r, "line") \in PieceType
    BY DEF Piece, PieceType, Parts
  <2>2. DOMAIN p1 = {1} /\ p1[1] = Piece(r, "line") /\ p1 \in Seq(PieceType)
    BY <2>1 DEF Single
  <2>3. Piece(r, "line").of = r /\ Piece(r, "line").part = "line"
    BY DEF Piece
  <2> HIDE DEF p1
  <2> QED BY <2>2, <2>3 DEF InOrder, In, Rank, UpTo
<1> HIDE DEF o2, o3, o4, o5, p1, p2, p3, p4, p5, data
<1>5. Rank("line") = 1 /\ Rank("connection") = 2 /\ Rank("length") = 3
      /\ Rank("bad") = 4 /\ Rank("blank") = 5 /\ Rank("data") = 6
  BY DEF Rank
<1>6. /\ "connection" \in HeaderParts /\ 1 < Rank("connection") /\ 1 \in Nat
      /\ "length" \in HeaderParts /\ 2 < Rank("length") /\ 2 \in Nat
      /\ "bad" \in HeaderParts /\ 3 < Rank("bad") /\ 3 \in Nat
      /\ "blank" \in HeaderParts /\ 4 < Rank("blank") /\ 4 \in Nat
  BY <1>5 DEF HeaderParts, Parts
<1>7. \A s \in PieceType : Rank(s.part) \in 1..6
  BY DEF Rank, PieceType
<1>8. /\ UpTo(p2, r, 2)
      /\ In(p2, r, "line")
      /\ Has(k, "connection") => In(p2, r, "connection")
  <2>1. p2 = p1 \o o2
    BY DEF p2
  <2>2. /\ UpTo(p2, r, Rank("connection"))
        /\ \A other : In(p1, r, other) => In(p2, r, other)
        /\ o2 = Single(r, "connection") => In(p2, r, "connection")
    BY <1>4, <1>3, <1>6, <2>1, OneMore, Zenon
  <2> QED BY <1>4, <1>3, <1>5, <2>2
<1>9. /\ UpTo(p3, r, 3)
      /\ In(p3, r, "line")
      /\ Has(k, "connection") => In(p3, r, "connection")
      /\ Has(k, "length") => In(p3, r, "length")
  <2>1. p3 = p2 \o o3
    BY DEF p3
  <2>2. /\ UpTo(p3, r, Rank("length"))
        /\ \A other : In(p2, r, other) => In(p3, r, other)
        /\ o3 = Single(r, "length") => In(p3, r, "length")
    BY <1>8, <1>3, <1>6, <2>1, OneMore, Zenon
  <2> QED BY <1>8, <1>3, <1>5, <2>2
<1>10. /\ UpTo(p4, r, 4)
       /\ In(p4, r, "line")
       /\ Has(k, "connection") => In(p4, r, "connection")
       /\ Has(k, "length") => In(p4, r, "length")
       /\ Has(k, "bad") => In(p4, r, "bad")
  <2>1. p4 = p3 \o o4
    BY DEF p4
  <2>2. /\ UpTo(p4, r, Rank("bad"))
        /\ \A other : In(p3, r, other) => In(p4, r, other)
        /\ o4 = Single(r, "bad") => In(p4, r, "bad")
    BY <1>9, <1>3, <1>6, <2>1, OneMore, Zenon
  <2> QED BY <1>9, <1>3, <1>5, <2>2
<1>11. /\ UpTo(p5, r, 5)
       /\ \A part \in HeaderParts : Has(k, part) => In(p5, r, part)
       /\ p5[Len(p5)] = Piece(r, "blank") /\ Len(p5) \in Nat \ {0}
  <2>1. p5 = p4 \o o5
    BY DEF p5
  <2>2. /\ UpTo(p5, r, Rank("blank"))
        /\ \A other : In(p4, r, other) => In(p5, r, other)
        /\ o5 = Single(r, "blank") => In(p5, r, "blank") /\ EndsWith(p5, Piece(r, "blank"))
    <3>1. /\ UpTo(p4, r, 4) /\ Optional(o5, r, "blank")
          /\ "blank" \in HeaderParts /\ 4 < Rank("blank") /\ 4 \in Nat
      BY <1>10, <1>3, <1>6, Zenon
    <3>2. UpTo(p5, r, Rank("blank")) /\ \A other : In(p4, r, other) => In(p5, r, other)
      BY <2>1, <3>1, OneMore, Zenon
    <3>3. o5 = Single(r, "blank") => In(p5, r, "blank")
      BY <2>1, <3>1, OneMore, Zenon
    <3>4. o5 = Single(r, "blank") => EndsWith(p5, Piece(r, "blank"))
      BY <2>1, <3>1, OneMore, Zenon
    <3> QED BY <3>2, <3>3, <3>4
  <2>3. o5 = Single(r, "blank") /\ Rank("blank") = 5
    BY <1>3, <1>5
  <2>4. UpTo(p5, r, 5) /\ In(p5, r, "blank") /\ EndsWith(p5, Piece(r, "blank"))
    BY <2>2, <2>3, Zenon
  <2>5. /\ In(p5, r, "line")
        /\ Has(k, "connection") => In(p5, r, "connection")
        /\ Has(k, "length") => In(p5, r, "length")
        /\ Has(k, "bad") => In(p5, r, "bad")
    BY <1>10, <2>2, Zenon
  <2>6. \A part \in HeaderParts : Has(k, part) => In(p5, r, part)
    BY <2>4, <2>5 DEF HeaderParts, Parts
  <2> QED BY <2>4, <2>6 DEF EndsWith
<1>12. /\ p5 \in Seq(PieceType) /\ InOrder(p5)
       /\ \A i \in DOMAIN p5 : p5[i].of = r /\ Rank(p5[i].part) <= 5
  BY <1>11 DEF UpTo
<1>13. /\ data \in Seq(PieceType) /\ Len(data) = k.body
       /\ \A i \in 1..k.body : data[i] = Piece(r, "data")
  <2>1. Piece(r, "data") \in PieceType
    BY DEF Piece, PieceType, Parts
  <2>2. data \in [1..k.body -> PieceType]
    BY <2>1 DEF data
  <2>3. data \in Seq(PieceType)
    BY <1>1, <2>2, SeqDef
  <2>4. DOMAIN data = 1..Len(data) /\ Len(data) \in Nat
    BY <2>3, LenProperties
  <2>5. DOMAIN data = 1..k.body
    BY DEF data
  <2>6. Len(data) = k.body
    BY <1>1, <2>4, <2>5
  <2> QED BY <2>3, <2>6 DEF data
<1> DEFINE h == Len(p5)
<1>14. /\ p \in Seq(PieceType) /\ Len(p) = h + k.body /\ DOMAIN p = 1..(h + k.body)
       /\ DOMAIN p5 = 1..h
       /\ \A i \in 1..(h + k.body) : p[i] = IF i <= h THEN p5[i] ELSE data[i - h]
  <2>1. /\ p \in Seq(PieceType) /\ Len(p) = Len(p5) + Len(data)
        /\ \A i \in 1..(Len(p5) + Len(data)) :
              p[i] = IF i <= Len(p5) THEN p5[i] ELSE data[i - Len(p5)]
    <3>1. p5 \in Seq(PieceType) /\ data \in Seq(PieceType)
      BY <1>12, <1>13
    <3> QED BY <1>2, <3>1, ConcatProperties
  <2>2. DOMAIN p = 1..Len(p) /\ DOMAIN p5 = 1..Len(p5)
    BY <1>11, <1>12, <2>1, LenProperties
  <2> QED BY <1>13, <2>1, <2>2
<1>15. h \in Nat \ {0} /\ p5[h] = Piece(r, "blank")
  BY <1>11, <1>12
<1> HIDE DEF h
<1>16. \A i \in DOMAIN p5 : i \in DOMAIN p /\ p[i] = p5[i]
  BY <1>1, <1>14, <1>15
<1>17. \A i \in DOMAIN p : i \in DOMAIN p5 \/ (i > h /\ p[i] = Piece(r, "data"))
  <2> TAKE i \in DOMAIN p
  <2>1. CASE i <= h
    BY <1>14, <1>15, <2>1
  <2>2. CASE ~(i <= h)
    <3>1. i - h \in 1..k.body /\ p[i] = data[i - h]
      BY <1>1, <1>14, <1>15, <2>2
    <3>2. i > h
      BY <1>14, <1>15, <2>2
    <3> QED BY <1>13, <3>1, <3>2
  <2> QED BY <2>1, <2>2
<1>18. \A i \in DOMAIN p : p[i].of = r
  BY <1>11, <1>12, <1>16, <1>17 DEF Piece
<1>19. \A part \in HeaderParts : Has(k, part) => In(p, r, part)
  BY <1>11, <1>12, <1>16 DEF In
<1>20. In(p, r, "line")
  BY <1>19 DEF HeaderParts, Parts, Has
<1>21. InOrder(p)
  <2> SUFFICES ASSUME NEW i \in DOMAIN p, NEW j \in DOMAIN p, i < j
               PROVE  Before(p[i], p[j])
    BY DEF InOrder
  <2>1. CASE j \in DOMAIN p5
    <3>1. i \in DOMAIN p5
      BY <1>14, <1>15, <2>1
    <3> QED BY <1>11, <1>12, <1>16, <2>1, <3>1 DEF InOrder
  <2>2. CASE j > h /\ p[j] = Piece(r, "data")
    <3>1. CASE i \in DOMAIN p5
      <4>1. p[i] = p5[i] /\ p5[i] \in PieceType /\ p5[i].of = r /\ Rank(p5[i].part) <= 5
        BY <1>5, <1>11, <1>12, <1>14, <1>16, <3>1, ElementOfSeq
      <4>2. Rank(p5[i].part) < 6
        BY <1>7, <4>1
      <4> QED BY <1>5, <2>2, <4>1, <4>2 DEF Before, Piece
    <3>2. CASE p[i] = Piece(r, "data")
      BY <2>2, <3>2 DEF Before, Piece
    <3> QED BY <1>17, <3>1, <3>2
  <2> QED BY <1>17, <2>1, <2>2
<1>22. \A i \in DOMAIN p : p[i].part = "blank" => BodyAt(p, i, r, k.body)
  <2> SUFFICES ASSUME NEW i \in DOMAIN p, p[i].part = "blank", NEW d \in 1..k.body
               PROVE  i + d \in DOMAIN p /\ p[i + d] = Piece(r, "data")
    BY DEF BodyAt
  <2>1. i \in DOMAIN p5
    BY <1>17 DEF Piece
  <2>2. i = h
    <3> SUFFICES ASSUME i # h PROVE FALSE
      OBVIOUS
    <3>1. i < h /\ h \in DOMAIN p5
      BY <1>14, <1>15, <2>1
    <3>2. Before(p5[i], p5[h])
      BY <1>11, <1>12, <2>1, <3>1 DEF InOrder
    <3>3. p5[i].part = "blank" /\ p5[h].part = "blank" /\ p5[i].of = r /\ p5[h].of = r
      BY <1>11, <1>12, <1>15, <1>16, <2>1 DEF Piece
    <3>4. r \in Int
      OBVIOUS
    <3> QED BY <1>5, <3>2, <3>3, <3>4 DEF Before
  <2>3. h + d \in 1..(h + k.body) /\ ~(h + d <= h) /\ (h + d) - h = d
    BY <1>1, <1>15
  <2> QED BY <1>13, <1>14, <2>2, <2>3
<1> QED BY <1>14, <1>18, <1>19, <1>20, <1>21, <1>22

\* t is the stream s of the requests q after the client has sent one more, r, of kind k.
Sent(t, s, q, k, r) == /\ s \in Seq(PieceType) /\ Framed(s, q)
                       /\ q \in Seq(Kinds) /\ k \in Kinds
                       /\ Len(q) < MaxRequests /\ r = Len(q) + 1 /\ t = s \o Pieces(k, r)

LEMMA FramedSent ==
  ASSUME NEW t, NEW s, NEW q, NEW k, NEW r, Sent(t, s, q, k, r)
  PROVE  /\ t \in Seq(PieceType) /\ Framed(t, Append(q, k))
         /\ \A i \in DOMAIN s : i \in DOMAIN t /\ t[i] = s[i]
         /\ \A i \in DOMAIN t : i \in DOMAIN s \/ t[i].of = r
         /\ In(t, r, "line")
<1> DEFINE p == Pieces(k, r)
           qk == Append(q, k)
           L == Len(s)
<1>1. /\ s \in Seq(PieceType) /\ Framed(s, q) /\ q \in Seq(Kinds) /\ k \in Kinds
      /\ Len(q) < MaxRequests /\ r = Len(q) + 1 /\ t = s \o Pieces(k, r)
  BY DEF Sent
<1>2. Len(q) \in Nat /\ r \in 1..MaxRequests /\ r \in Nat
  BY <1>1, LenProperties, HttpAssumption
<1>3. /\ p \in Seq(PieceType) /\ InOrder(p) /\ \A i \in DOMAIN p : p[i].of = r
      /\ In(p, r, "line") /\ \A part \in HeaderParts : Has(k, part) => In(p, r, part)
      /\ \A i \in DOMAIN p : p[i].part = "blank" => BodyAt(p, i, r, k.body)
  BY <1>1, <1>2, PiecesProperties
<1>4. Len(qk) = r /\ qk[r] = k /\ \A x \in 1..Len(q) : qk[x] = q[x]
  BY <1>1, AppendProperties
<1> HIDE DEF p, qk
<1>5. /\ t \in Seq(PieceType) /\ Len(t) = L + Len(p)
      /\ \A i \in 1..(L + Len(p)) : t[i] = IF i <= L THEN s[i] ELSE p[i - L]
  <2>1. t = s \o p
    BY <1>1 DEF p
  <2>2. p \in Seq(PieceType) /\ s \in Seq(PieceType)
    BY <1>1, <1>3
  <2>3. /\ t \in Seq(PieceType) /\ Len(t) = Len(s) + Len(p)
        /\ \A i \in 1..(Len(s) + Len(p)) : t[i] = IF i <= Len(s) THEN s[i] ELSE p[i - Len(s)]
    BY <2>1, <2>2, ConcatProperties
  <2> QED BY <2>3 DEF L
<1>6. /\ L \in Nat /\ Len(p) \in Nat
      /\ DOMAIN s = 1..L /\ DOMAIN p = 1..Len(p) /\ DOMAIN t = 1..(L + Len(p))
  BY <1>1, <1>3, <1>5, LenProperties
<1> HIDE DEF L
<1>7. \A i \in DOMAIN s : i \in DOMAIN t /\ t[i] = s[i] /\ i <= L
  BY <1>5, <1>6
<1>8. \A i \in DOMAIN p : i + L \in DOMAIN t /\ t[i + L] = p[i]
  <2> TAKE i \in DOMAIN p
  <2>1. i + L \in 1..(L + Len(p)) /\ ~(i + L <= L) /\ (i + L) - L = i
    BY <1>6
  <2> QED BY <1>5, <1>6, <2>1
<1>9. \A i \in DOMAIN t : i \in DOMAIN s \/ (i > L /\ i - L \in DOMAIN p /\ t[i] = p[i - L])
  <2> TAKE i \in DOMAIN t
  <2>1. i \in 1..(L + Len(p))
    BY <1>6
  <2>2. i \in DOMAIN s \/ (i > L /\ ~(i <= L) /\ i - L \in DOMAIN p)
    BY <1>6, <2>1
  <2> QED BY <1>5, <2>1, <2>2
<1>10. \A i \in DOMAIN t : i \in DOMAIN s \/ t[i].of = r
  BY <1>3, <1>9
<1>11. \A part : In(p, r, part) => In(t, r, part)
  BY <1>8 DEF In
<1>12. \A x, part : In(s, x, part) => In(t, x, part)
  BY <1>7 DEF In
<1>13. \A i \in DOMAIN s : s[i].of \in 1..Len(q)
  BY <1>1 DEF Framed, OfSent
<1>14. InOrder(t)
  <2> SUFFICES ASSUME NEW i \in DOMAIN t, NEW j \in DOMAIN t, i < j
               PROVE  Before(t[i], t[j])
    BY DEF InOrder
  <2>1. CASE j \in DOMAIN s
    <3>1. i \in DOMAIN s
      BY <1>6, <2>1
    <3> QED BY <1>1, <1>7, <2>1, <3>1 DEF Framed, InOrder
  <2>2. CASE j > L /\ j - L \in DOMAIN p /\ t[j] = p[j - L]
    <3>1. t[j].of = r
      BY <1>3, <2>2
    <3>2. CASE i \in DOMAIN s
      <4>1. t[i].of \in 1..Len(q)
        BY <1>7, <1>13, <3>2
      <4>2. t[i].of < r
        BY <1>1, <1>2, <4>1
      <4> QED BY <3>1, <4>2 DEF Before
    <3>3. CASE i > L /\ i - L \in DOMAIN p /\ t[i] = p[i - L]
      <4>1. i - L < j - L
        BY <1>6, <2>2, <3>3
      <4> QED BY <1>3, <2>2, <3>3, <4>1 DEF InOrder
    <3> QED BY <1>9, <3>2, <3>3
  <2> QED BY <1>9, <2>1, <2>2
<1>15. OfSent(t, qk)
  <2>1. \A x \in 1..Len(q) : x \in 1..r
    BY <1>1, <1>2
  <2>2. r \in 1..r
    BY <1>2
  <2> QED BY <1>4, <1>7, <1>10, <1>13, <2>1, <2>2 DEF OfSent
<1>16. Whole(t, qk)
  <2> SUFFICES ASSUME NEW x \in 1..r, NEW part \in HeaderParts, In(t, x, "line"),
                      Has(qk[x], part)
               PROVE  In(t, x, part)
    BY <1>4 DEF Whole
  <2>1. CASE x = r
    BY <1>3, <1>4, <1>11, <2>1
  <2>2. CASE x # r
    <3>1. x \in 1..Len(q)
      BY <1>1, <1>2, <2>2
    <3>2. In(s, x, "line")
      <4>1. PICK i \in DOMAIN t : t[i] = Piece(x, "line")
        BY DEF In
      <4>2. i \in DOMAIN s
        BY <1>10, <2>2, <4>1 DEF Piece
      <4> QED BY <1>7, <4>1, <4>2 DEF In
    <3>3. In(s, x, part)
      BY <1>1, <1>4, <3>1, <3>2 DEF Framed, Whole
    <3> QED BY <1>12, <3>3
  <2> QED BY <2>1, <2>2
<1>17. Bodies(t, qk)
  <2> SUFFICES ASSUME NEW i \in DOMAIN t, t[i].part = "blank",
                      NEW d \in 1..qk[t[i].of].body
               PROVE  i + d \in DOMAIN t /\ t[i + d] = Piece(t[i].of, "data")
    BY DEF Bodies, BodyAt
  <2>1. CASE i \in DOMAIN s
    <3>1. t[i] = s[i] /\ qk[t[i].of] = q[s[i].of]
      BY <1>4, <1>7, <1>13, <2>1
    <3>2. i + d \in DOMAIN s /\ s[i + d] = Piece(s[i].of, "data")
      BY <1>1, <2>1, <3>1 DEF Framed, Bodies, BodyAt
    <3> QED BY <1>7, <3>1, <3>2
  <2>2. CASE i > L /\ i - L \in DOMAIN p /\ t[i] = p[i - L]
    <3>1. t[i].of = r /\ qk[t[i].of] = k /\ p[i - L].part = "blank"
      BY <1>3, <1>4, <2>2
    <3>2. (i - L) + d \in DOMAIN p /\ p[(i - L) + d] = Piece(r, "data")
      BY <1>3, <2>2, <3>1 DEF BodyAt
    <3>3. ((i - L) + d) + L = i + d
      <4>1. d \in Int
        <5>1. d \in 1..qk[t[i].of].body
          OBVIOUS
        <5> QED BY <5>1
      <4>2. i \in Int /\ L \in Int
        BY <1>6
      <4> QED BY <4>1, <4>2
    <3> QED BY <1>8, <3>1, <3>2, <3>3
  <2> QED BY <1>9, <2>1, <2>2
<1>18. Framed(t, qk)
  BY <1>1, <1>14, <1>15, <1>16, <1>17 DEF Framed
<1> QED BY <1>3, <1>5, <1>7, <1>10, <1>11, <1>18 DEF qk

-----------------------------------------------------------------------------
(* Facts about a state that the steps below use.                           *)

LEMMA Typed ==
  ASSUME TypeOK
  PROVE  /\ Stream \in Seq(PieceType)
         /\ \A i \in 1..Len(buf) : i \in DOMAIN Stream /\ Stream[i] = buf[i] /\ buf[i] \in PieceType
         /\ \A i \in DOMAIN Stream : Stream[i] \in PieceType
         /\ Len(buf) \in Nat /\ Len(sent) \in 0..MaxRequests
         /\ \A r \in 1..Len(sent) : sent[r] \in KindType
         /\ Len(handled) \in Nat /\ Len(answers) \in Nat
         /\ DOMAIN handled = 1..Len(handled) /\ DOMAIN answers = 1..Len(answers)
<1>1. buf \in Seq(PieceType) /\ wire \in Seq(PieceType)
  BY DEF TypeOK
<1> DEFINE S == buf \o wire
<1>2. /\ S \in Seq(PieceType) /\ Len(S) = Len(buf) + Len(wire)
      /\ \A i \in 1..(Len(buf) + Len(wire)) : S[i] = IF i <= Len(buf) THEN buf[i] ELSE wire[i - Len(buf)]
  BY <1>1, ConcatProperties
<1>3. Len(buf) \in Nat /\ Len(wire) \in Nat /\ DOMAIN S = 1..Len(S) /\ DOMAIN buf = 1..Len(buf)
  BY <1>1, <1>2, LenProperties
<1>4. \A i \in 1..Len(buf) : buf[i] \in PieceType
  BY <1>1, <1>3, ElementOfSeq
<1>5. \A i \in DOMAIN S : S[i] \in PieceType
  BY <1>2, <1>3, ElementOfSeq
<1>6. Len(sent) \in 0..MaxRequests /\ \A r \in 1..Len(sent) : sent[r] \in KindType
  <2>1. sent \in Seq(Kinds) /\ Len(sent) <= MaxRequests
    BY DEF TypeOK
  <2> QED BY <2>1, LenProperties, ElementOfSeq, HttpAssumption
<1>7. /\ Len(handled) \in Nat /\ Len(answers) \in Nat
      /\ DOMAIN handled = 1..Len(handled) /\ DOMAIN answers = 1..Len(answers)
  BY LenProperties DEF TypeOK
<1> HIDE DEF S
<1>8. \A i \in 1..Len(buf) : i \in DOMAIN S /\ S[i] = buf[i]
  BY <1>2, <1>3
<1> QED BY <1>2, <1>3, <1>4, <1>5, <1>6, <1>7, <1>8 DEF S, Stream

\* The first n pieces leave the buffer.
LEMMA Taken ==
  ASSUME Inv, NEW n \in 0..Len(buf), buf' = SubSeq(buf, n + 1, Len(buf)),
         UNCHANGED <<sent, wire>>
  PROVE  Rest(Stream', Stream, n) /\ Framed(Stream', sent') /\ buf' \in Seq(PieceType)
<1>1. TypeOK
  BY DEF Inv
<1>2. buf \in Seq(PieceType) /\ wire \in Seq(PieceType) /\ sent \in Seq(Kinds)
  BY <1>1 DEF TypeOK
<1>3. Rest(buf', buf, n)
  BY <1>2, RestOfSeq
<1>4. Rest(Stream', Stream, n)
  BY <1>2, <1>3, RestOfConcat DEF Stream
<1>5. Stream \in Seq(PieceType) /\ Framed(Stream, sent)
  BY <1>1, Typed DEF Inv
<1>6. Framed(Stream', sent)
  BY <1>2, <1>4, <1>5, FramedRest
<1> QED BY <1>3, <1>4, <1>6 DEF Rest

\* A connection that was shut down stays so, and what was shown was shown.
LEMMA BodiesStay ==
  ASSUME BodiesShown, UNCHANGED <<sent, handled>>, open' => open
  PROVE  BodiesShown'
BY DEF BodiesShown, BodyShown, ShownBefore

\* Only Body and OnRequest touch content_ or what was shown.
LEMMA ContentsStay ==
  ASSUME Inv, UNCHANGED <<content, handled>>, state # "GotAll", state' # "GotAll",
         state' = "ExpectBody" => sent'[request'.line].method = "POST" /\ ~EmptyBody'
  PROVE  Contents'
BY DEF Inv, Contents, Latest, ShownBefore

LEMMA TakenKeeps ==
  ASSUME Inv, NEW n \in 0..Len(buf), buf' = SubSeq(buf, n + 1, Len(buf)), ~Stuck, open' => open,
         UNCHANGED <<sent, wire, handled, answers>>
  PROVE  Handled' /\ Answered' /\ BodiesShown'
<1>1. Rest(Stream', Stream, n)
  BY Taken
<1>2. \A i \in DOMAIN Stream' : i + n \in DOMAIN Stream /\ Stream'[i] = Stream[i + n]
  BY <1>1 DEF Rest
<1>3. Handled'
  <2>1. \A i \in DOMAIN handled' : handled'[i].id \in 1..Len(sent')
    BY DEF Inv, Handled
  <2>2. \A i \in DOMAIN handled' : \A j \in DOMAIN Stream' :
          Stream'[j].part # "data" => handled'[i].id < Stream'[j].of
    BY <1>2 DEF Inv, Handled
  <2>3. \A i \in 2..Len(handled') : handled'[i - 1].id < handled'[i].id
    BY DEF Inv, Handled
  <2> QED BY <2>1, <2>2, <2>3 DEF Handled
<1>4. Answered'
  BY DEF Inv, Answered
<1>5. BodiesShown'
  BY BodiesStay DEF Inv
<1> QED BY <1>3, <1>4, <1>5

\* A refused line stays refused when more arrives behind it.
LEMMA StuckStays ==
  ASSUME Inv, Stuck, state' = state, Len(buf') \in Nat, Len(buf) <= Len(buf'),
         \A i \in 1..Len(buf) : buf'[i] = buf[i],
         \A r \in 1..Len(sent) : sent'[r] = sent[r]
  PROVE  Stuck'
<1> DEFINE n == LineEnd
           m == LineEnd'
<1>1. TypeOK /\ HasLine
  BY DEF Inv, Stuck
<1>2. n \in 1..Len(buf) /\ buf[n].part # "data" /\ \A j \in 1..(n - 1) : buf[j].part = "data"
  BY <1>1, LineEndProperties
<1>3. Len(buf) \in Nat
  BY <1>1, Typed
<1>4. /\ n \in 1..Len(buf') /\ buf'[n].part # "data"
      /\ \A j \in 1..(n - 1) : buf'[j].part = "data" /\ buf'[j] = buf[j] /\ j \in 1..Len(buf)
  <2>1. n \in 1..Len(buf')
    BY <1>2, <1>3
  <2>2. \A j \in 1..(n - 1) : j \in 1..Len(buf)
    BY <1>2, <1>3
  <2> QED BY <1>2, <2>1, <2>2
<1>5. m \in 1..Len(buf') /\ buf'[m].part # "data" /\ \A j \in 1..(m - 1) : buf'[j].part = "data"
  <2> HIDE DEF n
  <2> QED BY <1>4 DEF LineEnd
<1>6. m = n
  <2> HIDE DEF m, n
  <2>1. m \in Int /\ n \in Int /\ m >= 1 /\ n >= 1
    BY <1>3, <1>4, <1>5
  <2>2. ~(m < n)
    BY <1>4, <1>5, <2>1
  <2>3. ~(n < m)
    BY <1>4, <1>5, <2>1
  <2> QED BY <2>1, <2>2, <2>3
<1>7. buf'[m] = buf[n]
  BY <1>2, <1>6
<1>8. HasLine'
  BY <1>4 DEF HasLine
<1>9. Glued' = Glued
  BY <1>6 DEF Glued
<1>10. \A i \in 1..Len(buf) : buf[i].of \in 1..Len(sent)
  BY <1>1, Typed DEF Inv, Framed, OfSent
<1>11. LineOK' = LineOK
  <2>1. sent'[buf'[m].of] = sent[buf[n].of]
    BY <1>2, <1>7, <1>10
  <2>2. (buf[LineEnd].part = "line" /\ ~Glued)' = (buf[LineEnd].part = "line" /\ ~Glued)
    BY <1>7, <1>9
  <2> QED BY <2>1, <2>2 DEF LineOK, LineHasMethod
<1>12. HasColon' = HasColon
  <2>1. \A j \in 1..(n - 1) : sent'[buf'[j].of].colons = sent[buf[j].of].colons
    BY <1>4, <1>10
  <2> QED BY <1>6, <1>7, <2>1 DEF HasColon
<1>13. buf'[1] = buf[1]
  BY <1>2, <1>3
<1> QED BY <1>8, <1>9, <1>11, <1>12, <1>13 DEF Stuck

LEMMA SameStream ==
  ASSUME Inv, UNCHANGED <<buf, wire, sent, handled>>, open' => open
  PROVE  /\ Stream' = Stream /\ Framed(Stream', sent') /\ Handled' /\ BodiesShown'
         /\ state' = state => (Stuck => Stuck')
<1>1. Stream' = Stream
  BY DEF Stream
<1>2. Handled'
  BY <1>1 DEF Inv, Handled
<1>3. BodiesShown'
  BY BodiesStay DEF Inv
<1>4. ASSUME state' = state, Stuck PROVE Stuck'
  <2>1. Len(buf') \in Nat /\ Len(buf) <= Len(buf')
    BY Typed DEF Inv
  <2> QED BY <1>4, <2>1, StuckStays
<1> QED BY <1>1, <1>2, <1>3, <1>4 DEF Inv

\* The pieces of the current request that come before its blank line are in front.
LEMMA AtHeader ==
  ASSUME Inv, state = "ExpectHeaders", HasLine, In(Stream, request.line, "blank")
  PROVE  /\ LineEnd = 1 /\ 1 \in 1..Len(buf) /\ Stream[1] = buf[1] /\ 1 \in DOMAIN Stream
         /\ buf[1].of = request.line
         /\ buf[1].part \in {"connection", "length", "bad", "blank"}
<1> DEFINE r == request.line
<1>1. TypeOK /\ LineEnd \in 1..Len(buf) /\ buf[LineEnd].part # "data" /\ Len(buf) \in Nat
      /\ \A j \in 1..(LineEnd - 1) : buf[j].part = "data"
  BY LineEndProperties, Typed DEF Inv
<1>2. 1 \in 1..Len(buf)
  BY <1>1
<1>3. Stream[1] = buf[1] /\ 1 \in DOMAIN Stream /\ buf[1] \in PieceType
  BY <1>1, <1>2, Typed
<1>4. PICK b \in DOMAIN Stream : Stream[b] = Piece(r, "blank")
  BY DEF In
<1>5. b \in Int /\ b >= 1 /\ r \in Int
  <2>1. DOMAIN Stream = 1..Len(Stream)
    BY <1>1, Typed, LenProperties
  <2> QED BY <1>1, <2>1 DEF TypeOK, Ids
<1>6. buf[1].of > r \/ (buf[1].of = r /\ buf[1].part # "line")
  BY <1>3 DEF Inv, Current, MayFollow
<1>7. buf[1].of \in Int /\ buf[1].part \in Parts
  BY <1>3 DEF PieceType
<1>8. b = 1 \/ Before(buf[1], Piece(r, "blank"))
  <2>1. b # 1 => 1 < b
    BY <1>5
  <2> QED BY <1>3, <1>4, <2>1 DEF Inv, Framed, InOrder
<1>9. buf[1].of = r /\ buf[1].part # "data"
  <2>1. CASE b = 1
    BY <1>3, <1>4, <2>1 DEF Piece
  <2>2. CASE Before(buf[1], Piece(r, "blank"))
    <3>1. Piece(r, "blank").of = r /\ Piece(r, "blank").part = "blank"
      BY DEF Piece
    <3>2. buf[1].of = r /\ Rank(buf[1].part) < Rank("blank")
      BY <1>5, <1>6, <1>7, <2>2, <3>1 DEF Before
    <3>3. buf[1].part # "data"
      BY <3>2 DEF Rank
    <3> QED BY <3>2, <3>3
  <2> QED BY <1>8, <2>1, <2>2
<1>10. LineEnd = 1
  <2>1. ~(LineEnd > 1)
    <3> SUFFICES ASSUME LineEnd > 1 PROVE FALSE
      OBVIOUS
    <3>1. 1 \in 1..(LineEnd - 1)
      BY <1>1
    <3> QED BY <1>1, <1>9, <3>1
  <2> QED BY <1>1, <2>1
<1>11. buf[1].part \in {"connection", "length", "bad", "blank"}
  BY <1>5, <1>6, <1>7, <1>9 DEF Parts
<1> QED BY <1>2, <1>3, <1>9, <1>10, <1>11

-----------------------------------------------------------------------------
(* parseRequest(), one iteration after the other.                          *)

\* The request line: its request is the next one as long as the connection is open.
LEMMA RequestLineKeeps ==
  ASSUME Inv, RequestLine
  PROVE  Inv'
<1> DEFINE r == buf[1].of
<1>1. /\ loop = "parsing" /\ alive /\ state = "ExpectRequestLine" /\ HasLine
      /\ request.line = 0 /\ LineOK
      /\ request' = [request EXCEPT !.line = buf[LineEnd].of]
      /\ state' = "ExpectHeaders" /\ buf' = SubSeq(buf, LineEnd + 1, Len(buf))
      /\ UNCHANGED <<habit, sent, wire, content, loop, alive, open, handled, answers>>
  BY DEF RequestLine, Parsing, client, output, AfterLine
<1>2. TypeOK /\ Len(buf) \in Nat
  BY Typed DEF Inv
<1>3. LineEnd = 1
  BY <1>1, <1>2, LineEndProperties DEF LineOK, LineHasMethod, Glued
<1>4. /\ 1 \in 1..Len(buf) /\ 1 \in DOMAIN Stream /\ Stream[1] = buf[1]
      /\ buf[1].part = "line" /\ buf[1] \in PieceType
      /\ sent[r].method # "junk" /\ sent[r].version # "junk"
  <2>1. 1 \in 1..Len(buf)
    BY <1>1, <1>2, <1>3, LineEndProperties
  <2> QED BY <1>1, <1>2, <1>3, <2>1, Typed DEF LineOK, LineHasMethod
<1>5. r \in 1..MaxRequests /\ r \in 1..Len(sent) /\ r \in Int
  <2>1. r \in 1..Len(sent)
    BY <1>4 DEF Inv, Framed, OfSent
  <2>2. r \in 1..MaxRequests
    BY <1>4 DEF PieceType
  <2> QED BY <2>1, <2>2
<1>6. Stream[1] = Piece(r, "line")
  BY <1>4 DEF Piece, PieceType
<1>7. /\ request' = [request EXCEPT !.line = r] /\ request'.line = r /\ request'.length = 0
      /\ request'.connection = request.connection
  BY <1>1, <1>2, <1>3 DEF Inv, Fresh, TypeOK
<1> HIDE DEF r
<1>8. Rest(Stream', Stream, 1) /\ Framed(Stream', sent') /\ buf' \in Seq(PieceType)
  <2>1. 1 \in 0..Len(buf)
    BY <1>4
  <2> QED BY <1>1, <1>3, <2>1, Taken
<1>9. Handled' /\ Answered' /\ BodiesShown'
  <2>1. ~Stuck
    BY <1>1 DEF Stuck
  <2>2. 1 \in 0..Len(buf)
    BY <1>4
  <2> QED BY <1>1, <1>3, <2>1, <2>2, TakenKeeps
<1>10. TypeOK'
  <2>1. r \in Ids /\ r # 0
    BY <1>5 DEF Ids
  <2> QED BY <1>1, <1>2, <1>7, <1>8, <2>1 DEF TypeOK
<1>11. \A i \in DOMAIN handled : handled[i].id < r
  BY <1>4 DEF Inv, Handled, r
<1>12. ASSUME NEW q, NEW part, q # r \/ part # "line", In(Stream, q, part)
       PROVE  In(Stream', q, part)
  <2>1. \A i \in 1..1 : Stream[i] # Piece(q, part)
    BY <1>6, <1>12 DEF Piece
  <2> QED BY <1>2, <1>8, <1>12, <2>1, InRest, Typed
<1>13. ASSUME NEW part \in HeaderParts \ {"line"}, Has(sent[r], part)
       PROVE  In(Stream', r, part)
  <2>1. In(Stream, r, "line")
    BY <1>4, <1>6 DEF In
  <2>2. In(Stream, r, part)
    BY <1>5, <1>13, <2>1 DEF Inv, Framed, Whole
  <2> QED BY <1>12, <1>13, <2>2
<1>14. In(Stream', r, "blank")
  BY <1>13 DEF HeaderParts, Parts, Has
<1>15. \A i \in DOMAIN Stream' :
         Stream'[i].of > r \/ (Stream'[i].of = r /\ MayFollow(state', Stream'[i].part))
  <2> TAKE i \in DOMAIN Stream'
  <2>1. i + 1 \in DOMAIN Stream /\ Stream'[i] = Stream[i + 1] /\ 1 < i + 1
    BY <1>8 DEF Rest
  <2>2. Before(Piece(r, "line"), Stream[i + 1])
    BY <1>4, <1>6, <2>1 DEF Inv, Framed, InOrder
  <2>3. Stream[i + 1] \in PieceType
    BY <1>2, <2>1, Typed
  <2> QED BY <1>1, <1>5, <2>1, <2>2, <2>3 DEF Before, Piece, Rank, PieceType, MayFollow
<1>16. Current'
  <2>1. ASSUME ExactPost(sent[r]) PROVE OwnParts'
    <3>1. In(Stream', r, "length")
      BY <1>13, <2>1 DEF ExactPost, Has, HeaderParts, Parts
    <3> QED BY <1>1, <1>7, <1>14, <3>1 DEF OwnParts
  <2> QED BY <1>1, <1>4, <1>5, <1>7, <1>11, <1>15, <2>1 DEF Current, r
<1>17. Aligned'
  <2> SUFFICES ASSUME open PROVE Aligned'
    BY <1>1 DEF Aligned
  <2>1. /\ Len(answers) = Len(handled) /\ \A i \in DOMAIN handled : handled[i].id = i
        /\ \A q \in 1..Len(sent) : q >= NextId => In(Stream, q, "line")
    BY <1>1 DEF Inv, Aligned
  <2>2. Len(handled) \in Nat /\ DOMAIN handled = 1..Len(handled)
    BY <1>2, Typed
  <2>3. r >= NextId
    <3>1. CASE Len(handled) = 0
      BY <1>5, <3>1 DEF NextId
    <3>2. CASE Len(handled) # 0
      <4>1. Len(handled) \in DOMAIN handled
        BY <2>2, <3>2
      <4>2. Len(handled) < r
        BY <1>11, <2>1, <4>1
      <4> QED BY <1>5, <2>2, <4>2 DEF NextId
    <3> QED BY <3>1, <3>2
  <2>4. r = NextId
    <3> SUFFICES ASSUME r > NextId PROVE FALSE
      BY <1>5, <2>2, <2>3 DEF NextId
    <3>1. NextId \in 1..Len(sent) /\ NextId \in Int
      BY <1>5, <2>2 DEF NextId
    <3>2. PICK i \in DOMAIN Stream : Stream[i] = Piece(NextId, "line")
      BY <2>1, <3>1 DEF In
    <3>3. i \in Int /\ i >= 1
      BY <1>2, Typed, LenProperties
    <3>4. i # 1
      BY <1>5, <1>6, <3>2 DEF Piece
    <3>5. Before(Piece(r, "line"), Piece(NextId, "line"))
      BY <1>4, <1>6, <3>2, <3>3, <3>4 DEF Inv, Framed, InOrder
    <3> QED BY <1>5, <3>1, <3>5 DEF Before, Piece, Rank
  <2>5. NextId' = NextId
    BY <1>1 DEF NextId
  <2>6. \A q \in 1..Len(sent) : q > NextId => In(Stream', q, "line")
    <3> TAKE q \in 1..Len(sent)
    <3> HAVE q > NextId
    <3>1. q # r /\ q >= NextId
      BY <1>5, <2>4
    <3> QED BY <1>12, <2>1, <3>1
  <2>7. sent[NextId].badHeader => In(Stream', NextId, "bad")
    BY <1>13, <2>4 DEF Has, HeaderParts, Parts
  <2> QED BY <1>1, <1>7, <1>14, <2>1, <2>4, <2>5, <2>6, <2>7 DEF Aligned
<1>18. Fresh'
  BY <1>1, <1>7 DEF Inv, Fresh
<1>19. Contents'
  BY <1>1, ContentsStay
<1> QED BY <1>8, <1>9, <1>10, <1>16, <1>17, <1>18, <1>19 DEF Inv

\* A header line: Connection, Content-Length, or any line with a colon in it.
LEMMA HeaderLineKeeps ==
  ASSUME Inv, HeaderLine
  PROVE  Inv'
<1> DEFINE n == LineEnd
           r == request.line
<1>1. /\ loop = "parsing" /\ alive /\ state = "ExpectHeaders" /\ HasLine /\ HasColon
      /\ request' = IF Glued THEN request ELSE [request EXCEPT ![buf[1].part] = buf[1].of]
      /\ buf' = SubSeq(buf, n + 1, Len(buf))
      /\ UNCHANGED <<habit, sent, wire, state, content, loop, alive, open, handled, answers>>
  BY DEF HeaderLine, Parsing, client, output, AfterLine
<1>2. /\ TypeOK /\ Len(buf) \in Nat /\ n \in 1..Len(buf) /\ n \in 0..Len(buf)
      /\ request \in [line : Ids, connection : Ids, length : Ids]
  <2>1. TypeOK
    BY DEF Inv
  <2>2. Len(buf) \in Nat /\ n \in 1..Len(buf)
    BY <1>1, <2>1, Typed, LineEndProperties
  <2> HIDE DEF n
  <2>3. n \in 0..Len(buf)
    BY <2>2
  <2>4. request \in [line : Ids, connection : Ids, length : Ids]
    BY <2>1 DEF TypeOK
  <2> QED BY <2>1, <2>2, <2>3, <2>4
<1>3. ASSUME ~Glued
      PROVE  /\ n = 1 /\ buf[1].part \in {"connection", "length"}
             /\ buf[1].of \in 1..Len(sent) /\ buf[1].of \in Ids
  <2>1. n = 1
    BY <1>2, <1>3 DEF Glued
  <2>2. buf[1].part \in {"connection", "length"}
    <3>1. 1..(n - 1) = {}
      BY <2>1
    <3> QED BY <1>1, <2>1, <3>1 DEF HasColon
  <2>3. 1 \in 1..Len(buf)
    BY <1>2, <2>1
  <2>4. 1 \in DOMAIN Stream /\ Stream[1] = buf[1] /\ buf[1] \in PieceType
    BY <1>2, <2>3, Typed
  <2> QED BY <2>1, <2>2, <2>4 DEF Inv, Framed, OfSent, PieceType, Ids
<1>4. /\ request' \in [line : Ids, connection : Ids, length : Ids]
      /\ request'.line = r
      /\ request'.length \in 0..Len(sent) /\ request'.connection \in 0..Len(sent)
      /\ request.length # 0 => request'.length # 0
  <2>1. request.length \in 0..Len(sent) /\ request.connection \in 0..Len(sent)
    BY DEF Inv, Fresh
  <2>2. CASE Glued
    <3>1. request' = request
      BY <1>1, <2>2
    <3> QED BY <1>2, <2>1, <3>1
  <2>3. CASE ~Glued
    <3> DEFINE i == buf[1].of
    <3>1. i \in 1..Len(sent) /\ i \in Ids /\ i # 0 /\ i \in 0..Len(sent)
      BY <1>2, <1>3, <2>3, Typed
    <3>2. CASE buf[1].part = "connection"
      <4>1. request' = [request EXCEPT !["connection"] = i]
        BY <1>1, <2>3, <3>2
      <4> HIDE DEF i
      <4> QED BY <1>2, <2>1, <3>1, <4>1
    <3>3. CASE buf[1].part = "length"
      <4>1. request' = [request EXCEPT !["length"] = i]
        BY <1>1, <2>3, <3>3
      <4> HIDE DEF i
      <4> QED BY <1>2, <2>1, <3>1, <4>1
    <3> QED BY <1>3, <2>3, <3>2, <3>3
  <2> QED BY <2>2, <2>3
<1> HIDE DEF n
<1>5. Rest(Stream', Stream, n) /\ Framed(Stream', sent') /\ buf' \in Seq(PieceType)
  BY <1>1, <1>2, Taken
<1>6. Handled' /\ Answered' /\ BodiesShown'
  <2>1. ~Stuck
    BY <1>1 DEF Stuck
  <2> QED BY <1>1, <1>2, <2>1, TakenKeeps
<1>7. TypeOK'
  BY <1>1, <1>2, <1>4, <1>5 DEF TypeOK
<1>8. ASSUME In(Stream, r, "blank")
      PROVE  /\ n = 1 /\ Stream[1] = buf[1] /\ buf[1].of = r
             /\ buf[1].part \in {"connection", "length"}
             /\ request' = [request EXCEPT ![buf[1].part] = r]
  <2>1. n = 1 /\ Stream[1] = buf[1] /\ buf[1].of = r
    BY <1>1, <1>8, AtHeader DEF n
  <2>2. ~Glued
    BY <2>1 DEF Glued, n
  <2> QED BY <1>1, <1>3, <2>1, <2>2
<1>9. ASSUME In(Stream, r, "blank"), NEW q, NEW part, In(Stream, q, part),
             q # r \/ part # buf[1].part
      PROVE  In(Stream', q, part)
  <2>1. \A i \in 1..n : Stream[i] # Piece(q, part)
    <3>1. \A i \in 1..n : i = 1
      BY <1>8, <1>9
    <3> QED BY <1>8, <1>9, <3>1 DEF Piece
  <2> QED BY <1>2, <1>5, <1>9, <2>1, InRest, Typed
<1>10. Current'
  <2>1. /\ r \in 1..Len(sent) /\ sent[r].method # "junk" /\ sent[r].version # "junk"
        /\ \A i \in DOMAIN Stream :
             Stream[i].of > r \/ (Stream[i].of = r /\ MayFollow(state, Stream[i].part))
        /\ \A i \in DOMAIN handled : handled[i].id < r
        /\ ExactPost(sent[r]) => OwnParts
    BY <1>1 DEF Inv, Current
  <2>2. \A i \in DOMAIN Stream' :
           Stream'[i].of > r \/ (Stream'[i].of = r /\ MayFollow(state', Stream'[i].part))
    BY <1>1, <1>5, <2>1 DEF Rest, MayFollow
  <2>3. ASSUME ExactPost(sent[r]) PROVE OwnParts'
    <3>1. In(Stream, r, "blank") /\ (request.length = r \/ In(Stream, r, "length"))
      BY <1>1, <2>1, <2>3 DEF OwnParts
    <3>2. In(Stream', r, "blank")
      BY <1>8, <1>9, <3>1
    <3>3. request'.length = r \/ In(Stream', r, "length")
      <4>1. CASE buf[1].part = "length"
        BY <1>2, <1>8, <3>1, <4>1
      <4>2. CASE buf[1].part = "connection"
        <5>1. request'.length = request.length
          BY <1>2, <1>8, <3>1, <4>2
        <5> QED BY <1>9, <3>1, <4>2, <5>1
      <4> QED BY <1>8, <3>1, <4>1, <4>2
    <3> QED BY <1>1, <1>4, <3>2, <3>3 DEF OwnParts
  <2> QED BY <1>1, <1>4, <2>1, <2>2, <2>3 DEF Current
<1>11. Aligned'
  <2> SUFFICES ASSUME open PROVE Aligned'
    BY <1>1 DEF Aligned
  <2>1. /\ Len(answers) = Len(handled) /\ \A i \in DOMAIN handled : handled[i].id = i
        /\ r = NextId /\ request.length \in {0, NextId}
        /\ \A q \in 1..Len(sent) : q > NextId => In(Stream, q, "line")
        /\ In(Stream, NextId, "blank")
        /\ sent[NextId].badHeader => In(Stream, NextId, "bad")
    BY <1>1 DEF Inv, Aligned
  <2>2. NextId' = NextId
    BY <1>1 DEF NextId
  <2>3. request'.length \in {0, NextId}
    <3>1. buf[1].part \in {"connection", "length"} /\ request' = [request EXCEPT ![buf[1].part] = NextId]
      BY <1>8, <2>1
    <3> QED BY <1>2, <2>1, <3>1
  <2>4. \A q \in 1..Len(sent) : q > NextId => In(Stream', q, "line")
    BY <1>8, <1>9, <2>1
  <2>5. In(Stream', NextId, "blank") /\ (sent[NextId].badHeader => In(Stream', NextId, "bad"))
    BY <1>8, <1>9, <2>1
  <2> QED BY <1>1, <1>4, <2>1, <2>2, <2>3, <2>4, <2>5 DEF Aligned
<1>12. Fresh'
  BY <1>1, <1>4 DEF Fresh
<1>13. Contents'
  BY <1>1, ContentsStay
<1> QED BY <1>5, <1>6, <1>7, <1>10, <1>11, <1>12, <1>13 DEF Inv

\* The blank line.  Behind it is the body of its request; if it is the blank line of the
\* current one, all of the request's header lines have been taken.
LEMMA BlankTaken ==
  ASSUME Inv, BlankLine, UNCHANGED <<sent, wire, handled, answers>>, open' => open
  PROVE  LET r == request.line
         IN  /\ state = "ExpectHeaders" /\ loop = "parsing" /\ ~Stuck
             /\ Framed(Stream', sent') /\ buf' \in Seq(PieceType)
             /\ Handled' /\ Answered' /\ BodiesShown'
             /\ r \in 1..Len(sent) /\ sent[r].method # "junk" /\ sent[r].version # "junk"
             /\ \A i \in DOMAIN handled : handled[i].id < r
             /\ \A i \in DOMAIN Stream' : \/ Stream'[i].of > r
                                          \/ Stream'[i].of = r /\ Stream'[i].part = "data"
             /\ \A q : In(Stream, q, "line") => In(Stream', q, "line")
             /\ In(Stream, r, "blank") => /\ BodyAt(Stream', 0, r, sent[r].body)
                                          /\ ~In(Stream, r, "length") /\ ~In(Stream, r, "bad")
<1> DEFINE r == request.line
           b == buf[1].of
<1>1. /\ loop = "parsing" /\ alive /\ state = "ExpectHeaders" /\ HasLine /\ ~Glued
      /\ buf[1].part = "blank" /\ buf' = SubSeq(buf, LineEnd + 1, Len(buf))
  BY DEF BlankLine, Parsing, AfterLine
<1>2. TypeOK /\ Len(buf) \in Nat
  BY Typed DEF Inv
<1>3. LineEnd = 1 /\ 1 \in 1..Len(buf) /\ 1 \in 0..Len(buf)
  <2>1. LineEnd \in 1..Len(buf)
    BY <1>1, <1>2, LineEndProperties
  <2>2. ~(LineEnd > 1)
    BY <1>1 DEF Glued
  <2> QED BY <1>2, <2>1, <2>2
<1>4. 1 \in DOMAIN Stream /\ Stream[1] = buf[1] /\ buf[1] \in PieceType
  BY <1>2, <1>3, Typed
<1>5. Stream[1] = Piece(b, "blank") /\ b \in Int
  BY <1>1, <1>4 DEF Piece, PieceType
<1>6. Rest(Stream', Stream, 1) /\ Framed(Stream', sent') /\ buf' \in Seq(PieceType)
  BY <1>1, <1>3, Taken
<1>7. ~Stuck
  BY <1>1 DEF Stuck
<1>8. Handled' /\ Answered' /\ BodiesShown'
  BY <1>1, <1>3, <1>7, TakenKeeps
<1>9. /\ r \in 1..Len(sent) /\ sent[r].method # "junk" /\ sent[r].version # "junk"
      /\ \A i \in DOMAIN handled : handled[i].id < r
      /\ \A i \in DOMAIN Stream :
           Stream[i].of > r \/ (Stream[i].of = r /\ MayFollow(state, Stream[i].part))
  BY <1>1 DEF Inv, Current
<1>10. r \in Int
  BY <1>9
<1> HIDE DEF r, b
<1>11. b >= r
  <2>1. b > r \/ b = r
    BY <1>4, <1>5, <1>9 DEF Piece
  <2> QED BY <1>5, <1>10, <2>1
<1>12. ASSUME NEW i \in DOMAIN Stream, i # 1
       PROVE  Stream[i].of > b \/ (Stream[i].of = b /\ Stream[i].part = "data")
  <2>1. i \in Int /\ 1 < i
    <3>1. DOMAIN Stream = 1..Len(Stream)
      BY <1>2, Typed, LenProperties
    <3> QED BY <1>12, <3>1
  <2>2. Before(Piece(b, "blank"), Stream[i])
    BY <1>4, <1>5, <1>12, <2>1 DEF Inv, Framed, InOrder
  <2>3. Stream[i] \in PieceType
    BY <1>2, Typed
  <2> QED BY <1>5, <2>2, <2>3 DEF Before, Piece, Rank, PieceType, Parts
<1>13. \A i \in DOMAIN Stream' : i + 1 \in DOMAIN Stream /\ Stream'[i] = Stream[i + 1] /\ i + 1 # 1
  BY <1>6 DEF Rest
<1>14. ASSUME NEW i \in DOMAIN Stream'
       PROVE  Stream'[i].of > r \/ (Stream'[i].of = r /\ Stream'[i].part = "data")
  <2>1. Stream'[i].of > b \/ (Stream'[i].of = b /\ Stream'[i].part = "data")
    BY <1>12, <1>13
  <2>2. Stream'[i].of \in Int
    <3>1. Stream'[i] \in PieceType
      BY <1>2, <1>13, Typed
    <3> QED BY <3>1 DEF PieceType
  <2> QED BY <1>5, <1>10, <1>11, <2>1, <2>2
<1>15. ASSUME NEW q, In(Stream, q, "line")
       PROVE  In(Stream', q, "line")
  <2>1. \A i \in 1..1 : Stream[i] # Piece(q, "line")
    BY <1>5 DEF Piece
  <2> QED BY <1>2, <1>6, <1>15, <2>1, InRest, Typed
<1>16. ASSUME In(Stream, r, "blank")
       PROVE  /\ BodyAt(Stream', 0, r, sent[r].body)
              /\ ~In(Stream, r, "length") /\ ~In(Stream, r, "bad")
  <2>1. b = r
    BY <1>1, <1>16, AtHeader DEF b, r
  <2>2. ASSUME NEW part \in {"length", "bad"}, In(Stream, r, part) PROVE FALSE
    <3>1. PICK i \in DOMAIN Stream : Stream[i] = Piece(r, part)
      BY <2>2 DEF In
    <3>2. i # 1
      BY <1>5, <3>1 DEF Piece
    <3> QED BY <1>10, <1>12, <2>1, <3>1, <3>2 DEF Piece
  <2>3. BodyAt(Stream, 1, r, sent[r].body)
    BY <1>4, <1>5, <2>1 DEF Inv, Framed, Bodies, Piece
  <2>4. sent[r].body \in Nat
    <3>1. sent[r] \in KindType
      BY <1>2, <1>9, Typed
    <3>2. sent[r].body \in 0..2
      BY <3>1 DEF KindType
    <3> QED BY <3>2
  <2>5. ASSUME NEW d \in 1..sent[r].body
        PROVE  0 + d \in DOMAIN Stream' /\ Stream'[0 + d] = Piece(r, "data")
    <3>1. 1 + d \in DOMAIN Stream /\ Stream[1 + d] = Piece(r, "data") /\ d \in Nat \ {0}
      BY <2>3, <2>4 DEF BodyAt
    <3>2. 1 + d = d + 1 /\ 0 + d = d
      BY <3>1
    <3>3. d \in DOMAIN Stream'
      <4>1. DOMAIN Stream = 1..Len(Stream) /\ Len(Stream) \in Nat
        BY <1>2, Typed, LenProperties
      <4>2. DOMAIN Stream' = 1..(Len(Stream) - 1)
        BY <1>6 DEF Rest
      <4> QED BY <3>1, <4>1, <4>2
    <3> QED BY <1>13, <3>1, <3>2, <3>3
  <2>6. BodyAt(Stream', 0, r, sent[r].body)
    BY <2>5 DEF BodyAt
  <2> QED BY <2>2, <2>6
<1> QED BY <1>1, <1>6, <1>7, <1>8, <1>9, <1>14, <1>15, <1>16 DEF r

\* transitionAfterHeaders(): the request is complete, has a body, or is refused.
LEMMA BlankLineKeeps ==
  ASSUME Inv, HeadersWithoutBody \/ HeadersWithoutLength \/ HeadersWithLength
  PROVE  Inv'
<1> DEFINE r == request.line
<1>1. /\ BlankLine
      /\ UNCHANGED <<habit, sent, wire, request, content, alive, open, handled, answers>>
      /\ \/ Method # "POST" /\ state' = "GotAll" /\ loop' = "complete"
         \/ /\ Method = "POST" /\ Length \in {"absent", "garbage"}
            /\ state' = state /\ loop' = "rejecting"
         \/ /\ Method = "POST" /\ Length \in {"exact", "negative"}
            /\ state' = IF EmptyBody THEN "GotAll" ELSE "ExpectBody"
            /\ loop' = IF EmptyBody THEN "complete" ELSE "parsing"
  BY DEF HeadersWithoutBody, HeadersWithoutLength, HeadersWithLength, client, context, output
<1>2. /\ state = "ExpectHeaders" /\ loop = "parsing" /\ ~Stuck
      /\ Framed(Stream', sent') /\ buf' \in Seq(PieceType)
      /\ Handled' /\ Answered' /\ BodiesShown'
      /\ r \in 1..Len(sent) /\ sent[r].method # "junk" /\ sent[r].version # "junk"
      /\ \A i \in DOMAIN handled : handled[i].id < r
      /\ \A i \in DOMAIN Stream' : \/ Stream'[i].of > r
                                   \/ Stream'[i].of = r /\ Stream'[i].part = "data"
      /\ \A q : In(Stream, q, "line") => In(Stream', q, "line")
      /\ In(Stream, r, "blank") => /\ BodyAt(Stream', 0, r, sent[r].body)
                                   /\ ~In(Stream, r, "length") /\ ~In(Stream, r, "bad")
  BY <1>1, BlankTaken
<1>3. TypeOK
  BY DEF Inv
<1>4. r # 0
  BY <1>2
<1>5. /\ \/ state' = "GotAll" /\ loop' = "complete"
         \/ state' = "ExpectHeaders" /\ loop' = "rejecting"
         \/ state' = "ExpectBody" /\ loop' = "parsing"
      /\ state' = "ExpectBody" => Method = "POST" /\ request.length # 0 /\ ~EmptyBody
      /\ state' = "ExpectHeaders" => Method = "POST" /\ Length \in {"absent", "garbage"}
      /\ state' = "GotAll" => Method # "POST" \/ EmptyBody
  BY <1>1, <1>2 DEF Length
<1>6. TypeOK'
  BY <1>1, <1>2, <1>3, <1>4, <1>5 DEF TypeOK
<1>7. ASSUME ExactPost(sent[r])
      PROVE  request.length = r /\ BodyAt(Stream', 0, r, sent[r].body)
  <2>1. OwnParts
    BY <1>2, <1>7 DEF Inv, Current
  <2>2. In(Stream, r, "blank") /\ (request.length = r \/ In(Stream, r, "length"))
    BY <1>2, <2>1 DEF OwnParts
  <2> QED BY <1>2, <2>2
<1>8. Current'
  <2>1. ASSUME ExactPost(sent[r]) PROVE OwnParts'
    <3>1. Method = "POST" /\ Length = "exact"
      BY <1>4, <1>7, <2>1 DEF ExactPost, Method, Length
    <3>2. state' # "ExpectHeaders"
      BY <1>5, <3>1
    <3> QED BY <1>1, <1>7, <2>1, <3>2 DEF OwnParts
  <2>2. \A i \in DOMAIN Stream' :
           Stream'[i].of > r \/ (Stream'[i].of = r /\ MayFollow(state', Stream'[i].part))
    BY <1>2 DEF MayFollow
  <2> QED BY <1>1, <1>2, <2>1, <2>2 DEF Current
<1>9. Aligned'
  <2> SUFFICES ASSUME open PROVE Aligned'
    BY <1>1 DEF Aligned
  <2>1. /\ Len(answers) = Len(handled) /\ \A i \in DOMAIN handled : handled[i].id = i
        /\ r = NextId /\ request.length \in {0, NextId}
        /\ \A q \in 1..Len(sent) : q > NextId => In(Stream, q, "line")
        /\ In(Stream, NextId, "blank")
        /\ sent[NextId].badHeader => In(Stream, NextId, "bad")
    BY <1>2 DEF Inv, Aligned
  <2>2. NextId' = NextId
    BY <1>1 DEF NextId
  <2>3. NextId <= Len(sent) /\ ~BadLine(sent[NextId])
    BY <1>2, <1>3, <2>1, Typed DEF BadLine
  <2>4. state' = "ExpectBody" => sent[NextId].method = "POST" /\ request.length = NextId
    BY <1>5, <2>1 DEF Method
  <2> QED BY <1>1, <1>2, <1>5, <2>1, <2>2, <2>3, <2>4 DEF Aligned
<1>10. Fresh'
  BY <1>1, <1>5 DEF Inv, Fresh
<1>11. Contents'
  <2>1. CASE state' # "GotAll"
    <3>1. state' = "ExpectBody" => sent'[request'.line].method = "POST" /\ ~EmptyBody'
      BY <1>1, <1>5 DEF Method, EmptyBody, Length
    <3> QED BY <1>1, <1>2, <2>1, <3>1, ContentsStay
  <2>2. CASE state' = "GotAll"
    <3>1. content = Latest /\ Latest' = Latest /\ content' = content /\ request' = request
          /\ sent' = sent /\ open' = open
      BY <1>1, <1>2 DEF Inv, Contents, Latest, ShownBefore
    <3>2. ASSUME ExactPost(sent[r]) PROVE sent[r].body = 0
      <4>1. EmptyBody
        BY <1>5, <2>2, <3>2 DEF ExactPost, Method
      <4> QED BY <1>7, <3>2, <4>1 DEF EmptyBody
    <3>3. ASSUME sent[r].method = "POST", sent[r].length # "exact" PROVE ~open
      <4>1. EmptyBody
        BY <1>5, <2>2, <3>3 DEF Method
      <4>2. request.length # 0 /\ request.length # r
        BY <3>3, <4>1 DEF EmptyBody, Length
      <4> QED BY <1>2, <4>2 DEF Inv, Aligned
    <3>4. sent[r].body \in 0..2
      <4>1. sent[r] \in KindType
        BY <1>2, <1>3, Typed
      <4> QED BY <4>1 DEF KindType
    <3>5. BodyShown(r, content, Latest)'
      BY <3>1, <3>2, <3>3, <3>4 DEF BodyShown
    <3> QED BY <2>2, <3>1, <3>5 DEF Contents
  <2> QED BY <2>1, <2>2
<1> QED BY <1>2, <1>6, <1>8, <1>9, <1>10, <1>11 DEF Inv

\* The body: with a POST that declared its length, the request's own data.
LEMMA BodyKeeps ==
  ASSUME Inv, Body
  PROVE  Inv'
<1> DEFINE r == request.line
           n == sent[request.length].body
<1>1. /\ loop = "parsing" /\ alive /\ state = "ExpectBody"
      /\ Length = "exact" /\ Len(buf) >= n
      /\ content' = {buf[i].of : i \in 1..n}
      /\ buf' = SubSeq(buf, n + 1, Len(buf))
      /\ state' = "GotAll" /\ loop' = "complete"
      /\ UNCHANGED <<habit, sent, wire, request, alive, open, handled, answers>>
  BY DEF Body, Parsing, BodyArrived, client, output
<1>2. TypeOK /\ Len(buf) \in Nat
  BY LenProperties DEF Inv, TypeOK
<1>3. n \in 0..2
  <2>1. request.length \in 1..Len(sent)
    BY <1>1, <1>2, Typed DEF Inv, Fresh, TypeOK, Ids
  <2> QED BY <1>2, <2>1, Typed DEF KindType
<1>4. n \in 0..Len(buf)
  BY <1>1, <1>2, <1>3
<1> HIDE DEF n
<1>5. Rest(Stream', Stream, n) /\ Framed(Stream', sent') /\ buf' \in Seq(PieceType)
  BY <1>1, <1>4, Taken
<1>6. ~Stuck
  BY <1>1 DEF Stuck
<1>7. Handled' /\ Answered' /\ BodiesShown'
  BY <1>1, <1>4, <1>6, TakenKeeps
<1>8. \A i \in 1..n : i \in 1..Len(buf) /\ buf[i] \in PieceType /\ buf[i] = Stream[i] /\ i \in DOMAIN Stream
  BY <1>2, <1>3, <1>4, Typed
<1>9. TypeOK'
  <2>1. content' \subseteq 1..MaxRequests
    BY <1>1, <1>8 DEF PieceType
  <2>2. request.line # 0
    BY <1>1, <1>2 DEF TypeOK
  <2> QED BY <1>1, <1>2, <1>5, <2>1, <2>2 DEF TypeOK
<1>10. ASSUME ExactPost(sent[r])
       PROVE  /\ n = sent[r].body /\ \A i \in 1..n : Stream[i] = Piece(r, "data")
  <2>1. request.length = r /\ BodyAt(Stream, 0, r, sent[r].body)
    BY <1>1, <1>10 DEF Inv, Current, OwnParts
  <2>2. n = sent[r].body
    BY <2>1 DEF n
  <2>3. ASSUME NEW i \in 1..n PROVE Stream[i] = Piece(r, "data")
    <3>1. Stream[0 + i] = Piece(r, "data")
      BY <2>1, <2>2 DEF BodyAt
    <3>2. 0 + i = i
      BY <1>3
    <3> QED BY <3>1, <3>2
  <2> QED BY <2>2, <2>3
<1>11. Current'
  <2>1. /\ r \in 1..Len(sent) /\ sent[r].method # "junk" /\ sent[r].version # "junk"
        /\ \A i \in DOMAIN Stream :
             Stream[i].of > r \/ (Stream[i].of = r /\ MayFollow(state, Stream[i].part))
        /\ \A i \in DOMAIN handled : handled[i].id < r
    BY <1>1 DEF Inv, Current
  <2>2. \A i \in DOMAIN Stream' :
           Stream'[i].of > r \/ (Stream'[i].of = r /\ MayFollow(state', Stream'[i].part))
    BY <1>1, <1>5, <2>1 DEF Rest, MayFollow
  <2>3. OwnParts'
    BY <1>1 DEF OwnParts
  <2> QED BY <1>1, <2>1, <2>2, <2>3 DEF Current
<1>12. Aligned'
  <2> SUFFICES ASSUME open PROVE Aligned'
    BY <1>1 DEF Aligned
  <2>1. /\ Len(answers) = Len(handled) /\ \A i \in DOMAIN handled : handled[i].id = i
        /\ r = NextId /\ request.length = NextId /\ sent[NextId].method = "POST"
        /\ \A q \in 1..Len(sent) : q > NextId => In(Stream, q, "line")
    BY <1>1 DEF Inv, Aligned
  <2>2. request.length # 0
    BY <1>1, <1>2 DEF TypeOK
  <2>3. ExactPost(sent[r])
    BY <1>1, <2>1, <2>2 DEF ExactPost, Length
  <2>4. ASSUME NEW q, In(Stream, q, "line") PROVE In(Stream', q, "line")
    <3>1. \A i \in 1..n : Stream[i] # Piece(q, "line")
      BY <1>10, <2>3 DEF Piece
    <3> QED BY <1>2, <1>5, <2>4, <3>1, InRest, Typed
  <2>5. NextId' = NextId
    BY <1>1 DEF NextId
  <2> QED BY <1>1, <2>1, <2>4, <2>5 DEF Aligned
<1>13. Fresh'
  BY <1>1 DEF Inv, Fresh
<1>14. Contents'
  <2>1. /\ Latest' = Latest /\ request' = request /\ sent' = sent /\ open' = open
        /\ sent[r].method = "POST" /\ ~EmptyBody
    BY <1>1 DEF Inv, Contents, Latest, ShownBefore
  <2>2. ASSUME ExactPost(sent[r]), sent[r].body > 0 PROVE content' = {r}
    <3>1. n > 0 /\ \A i \in 1..n : buf[i].of = r
      BY <1>8, <1>10, <2>2 DEF Piece
    <3>2. 1 \in 1..n
      BY <1>3, <3>1
    <3> QED BY <1>1, <3>1, <3>2
  <2>3. ASSUME ExactPost(sent[r]) PROVE sent[r].body # 0
    <3>1. request.length = r
      BY <1>1, <2>3 DEF Inv, Current, OwnParts
    <3> QED BY <1>1, <2>1, <3>1 DEF EmptyBody
  <2>4. ASSUME sent[r].length # "exact" PROVE ~open /\ content' \subseteq r..MaxRequests
    <3>1. request.length # r
      BY <1>1, <2>4 DEF Length
    <3>2. ~open
      BY <1>1, <3>1 DEF Inv, Aligned
    <3>3. ASSUME NEW i \in 1..n PROVE buf[i].of \in r..MaxRequests
      <4>1. Stream[i].of > r \/ Stream[i].of = r
        BY <1>1, <1>8 DEF Inv, Current
      <4>2. buf[i].of \in 1..MaxRequests /\ buf[i].of = Stream[i].of
        BY <1>8 DEF PieceType
      <4>3. r \in Int
        BY <1>1 DEF Inv, Current
      <4> QED BY <4>1, <4>2, <4>3
    <3> QED BY <1>1, <3>2, <3>3
  <2>5. BodyShown(r, content, Latest)'
    BY <2>1, <2>2, <2>3, <2>4 DEF BodyShown, ExactPost
  <2> QED BY <1>1, <2>1, <2>5 DEF Contents
<1> QED BY <1>5, <1>7, <1>9, <1>11, <1>12, <1>13, <1>14 DEF Inv

-----------------------------------------------------------------------------
(* parseRequest() returns without taking anything, or the process ends.    *)
LEMMA NothingTakenKeeps ==
  ASSUME Inv, AwaitLine \/ AwaitBody \/ AssertionFails
  PROVE  Inv'
<1>1. /\ UNCHANGED <<habit, sent, wire, buf, state, request, content, open, handled, answers>>
      /\ loop = "parsing" /\ loop' \in {"parsing", "idle"} /\ alive' \in BOOLEAN
  BY DEF AwaitLine, AwaitBody, AssertionFails, Parsing, client, context, output, Inv, TypeOK
<1>2. Stream' = Stream /\ Framed(Stream', sent') /\ Handled' /\ BodiesShown' /\ (Stuck => Stuck')
  BY <1>1, SameStream
<1>3. TypeOK'
  BY <1>1 DEF Inv, TypeOK
<1>4. Current'
  BY <1>1, <1>2 DEF Inv, Current, OwnParts
<1>5. Aligned'
  <2>1. NextId' = NextId
    BY <1>1 DEF NextId
  <2> QED BY <1>1, <1>2, <2>1 DEF Inv, Aligned
<1>6. Answered'
  BY <1>1, <1>2 DEF Inv, Answered
<1>7. Fresh'
  BY <1>1 DEF Inv, Fresh
<1>8. Contents'
  <2>1. state # "GotAll" /\ state' = state /\ EmptyBody' = EmptyBody
    BY <1>1 DEF Inv, TypeOK, EmptyBody, Length
  <2> QED BY <1>1, <2>1, ContentsStay DEF Inv, Contents
<1> QED BY <1>2, <1>3, <1>4, <1>5, <1>6, <1>7, <1>8 DEF Inv

\* A request line that is no request line; it stays in the buffer.
LEMMA BadRequestLineKeeps ==
  ASSUME Inv, BadRequestLine
  PROVE  Inv'
<1> DEFINE n == LineEnd
           r == buf[n].of
<1>1. /\ loop = "parsing" /\ state = "ExpectRequestLine" /\ HasLine /\ ~LineOK
      /\ request' = IF LineHasMethod THEN [request EXCEPT !.line = buf[LineEnd].of] ELSE request
      /\ loop' = "rejecting"
      /\ UNCHANGED <<habit, sent, wire, buf, state, content, alive, open, handled, answers>>
  BY DEF BadRequestLine, Parsing, client, output
<1>2. TypeOK /\ n \in 1..Len(buf) /\ buf[n].part # "data"
  BY <1>1, LineEndProperties DEF Inv
<1>3. n \in DOMAIN Stream /\ Stream[n] = buf[n] /\ buf[n] \in PieceType
  BY <1>2, Typed
<1>4. r \in 1..Len(sent) /\ r \in 1..MaxRequests /\ \A i \in DOMAIN handled : handled[i].id < r
  BY <1>2, <1>3 DEF Inv, Framed, OfSent, PieceType, Handled
<1>5. /\ Stream' = Stream /\ Framed(Stream', sent') /\ Handled' /\ BodiesShown'
      /\ (Stuck => Stuck') /\ Stuck
  <2>1. Stuck
    BY <1>1 DEF Stuck
  <2> QED BY <1>1, <2>1, SameStream
<1>6. /\ request' \in [line : Ids, connection : Ids, length : Ids]
      /\ request'.length = request.length /\ request'.connection = request.connection
  <2>1. r \in Ids /\ request \in [line : Ids, connection : Ids, length : Ids]
    BY <1>2, <1>4 DEF Ids, TypeOK
  <2>2. CASE LineHasMethod
    BY <1>1, <2>1, <2>2
  <2>3. CASE ~LineHasMethod
    BY <1>1, <2>1, <2>3
  <2> QED BY <2>2, <2>3
<1>7. TypeOK'
  BY <1>1, <1>2, <1>6 DEF TypeOK
<1>8. Current'
  BY <1>1 DEF Current
<1>9. Aligned'
  <2> SUFFICES ASSUME open PROVE Aligned'
    BY <1>1 DEF Aligned
  <2>1. /\ Len(answers) = Len(handled) /\ \A i \in DOMAIN handled : handled[i].id = i
        /\ \A q \in 1..Len(sent) : q >= NextId => In(Stream, q, "line")
    BY <1>1 DEF Inv, Aligned
  <2>2. Len(handled) \in Nat /\ DOMAIN handled = 1..Len(handled) /\ Len(sent) \in Nat
    BY <1>2, Typed
  <2>3. NextId <= Len(sent)
    <3>1. CASE Len(handled) = 0
      BY <1>4, <2>2, <3>1 DEF NextId
    <3>2. CASE Len(handled) # 0
      <4>1. Len(handled) \in DOMAIN handled
        BY <2>2, <3>2
      <4>2. Len(handled) < r
        BY <1>4, <2>1, <4>1
      <4> QED BY <1>4, <2>2, <4>2 DEF NextId
    <3> QED BY <3>1, <3>2
  <2>4. NextId' = NextId
    BY <1>1 DEF NextId
  <2> QED BY <1>1, <1>5, <2>1, <2>3, <2>4 DEF Aligned
<1>10. Answered'
  BY <1>1, <1>5 DEF Inv, Answered
<1>11. Fresh'
  BY <1>1, <1>6 DEF Inv, Fresh
<1>12. Contents'
  BY <1>1, ContentsStay
<1> QED BY <1>5, <1>7, <1>8, <1>9, <1>10, <1>11, <1>12 DEF Inv

\* A line without a colon that is not blank; it stays too.
LEMMA BadHeaderLineKeeps ==
  ASSUME Inv, BadHeaderLine
  PROVE  Inv'
<1>1. /\ loop = "parsing" /\ state = "ExpectHeaders" /\ HasLine /\ ~HasColon
      /\ Glued \/ buf[1].part # "blank"
      /\ loop' = "rejecting"
      /\ UNCHANGED <<habit, sent, wire, buf, state, request, content, alive, open, handled, answers>>
  BY DEF BadHeaderLine, Parsing, client, context, output
<1>2. /\ Stream' = Stream /\ Framed(Stream', sent') /\ Handled' /\ BodiesShown'
      /\ (Stuck => Stuck') /\ Stuck
  <2>1. Stuck
    BY <1>1 DEF Stuck
  <2> QED BY <1>1, <2>1, SameStream
<1>3. TypeOK'
  BY <1>1 DEF Inv, TypeOK
<1>4. Current'
  BY <1>1, <1>2 DEF Inv, Current, OwnParts
<1>5. Aligned'
  <2>1. NextId' = NextId
    BY <1>1 DEF NextId
  <2>2. open => NextId <= Len(sent)
    <3> SUFFICES ASSUME open PROVE NextId <= Len(sent)
      OBVIOUS
    <3>1. request.line = NextId /\ request.line \in 1..Len(sent)
      BY <1>1 DEF Inv, Aligned, Current
    <3>2. Len(sent) \in Int
      BY Typed DEF Inv
    <3> QED BY <3>1, <3>2
  <2> QED BY <1>1, <1>2, <2>1, <2>2 DEF Inv, Aligned
<1>6. Answered'
  BY <1>1, <1>2 DEF Inv, Answered
<1>7. Fresh'
  BY <1>1 DEF Inv, Fresh
<1>8. Contents'
  <2>1. state # "GotAll" /\ state' = state /\ EmptyBody' = EmptyBody
    BY <1>1 DEF Inv, TypeOK, EmptyBody, Length
  <2> QED BY <1>1, <2>1, ContentsStay DEF Inv, Contents
<1> QED BY <1>2, <1>3, <1>4, <1>5, <1>6, <1>7, <1>8 DEF Inv

-----------------------------------------------------------------------------
(* onMessage() after parseRequest().                                       *)

\* What the answers look like with one more.
LEMMA OneMoreAnswer ==
  ASSUME TypeOK, NEW id \in 1..MaxRequests, NEW status \in {"200", "204", "400", "404", "500"},
         SendAnswer(id, status)
  PROVE  /\ answers' \in Seq([id : 1..MaxRequests,
                              status : {"200", "204", "400", "404", "500"}])
         /\ ~open => answers' = answers
         /\ open => /\ Len(answers') = Len(answers) + 1
                    /\ DOMAIN answers' = 1..(Len(answers) + 1)
                    /\ answers'[Len(answers) + 1] = [id |-> id, status |-> status]
                    /\ \A i \in 1..Len(answers) : answers'[i] = answers[i]
<1> DEFINE T == [id : 1..MaxRequests, status : {"200", "204", "400", "404", "500"}]
           e == [id |-> id, status |-> status]
<1>1. answers \in Seq(T)
  BY DEF TypeOK
<1>2. e \in T
  OBVIOUS
<1>3. answers' = IF open THEN Append(answers, e) ELSE answers
  BY DEF SendAnswer
<1> HIDE DEF e, T
<1>4. CASE open
  <2>1. answers' = Append(answers, e)
    BY <1>3, <1>4
  <2>2. /\ answers' \in Seq(T) /\ Len(answers') = Len(answers) + 1
        /\ answers'[Len(answers) + 1] = e
        /\ \A i \in 1..Len(answers) : answers'[i] = answers[i]
    BY <1>1, <1>2, <2>1, AppendProperties
  <2>3. DOMAIN answers' = 1..(Len(answers) + 1)
    BY <2>2, LenProperties
  <2> QED BY <1>4, <2>2, <2>3 DEF e, T
<1>5. CASE ~open
  BY <1>1, <1>3, <1>5 DEF T
<1> QED BY <1>4, <1>5

\* 400, and the connection is shut down.
LEMMA RejectKeeps ==
  ASSUME Inv, Reject
  PROVE  Inv'
<1>1. /\ loop = "rejecting" /\ SendAnswer(Len(handled) + 1, "400")
      /\ open' = FALSE /\ loop' = "idle"
      /\ UNCHANGED <<habit, sent, wire, buf, state, request, content, alive, handled>>
  BY DEF Reject, client, context
<1>2. /\ TypeOK /\ Len(handled) \in Nat /\ Len(answers) \in Nat /\ Len(sent) \in 0..MaxRequests
      /\ DOMAIN answers = 1..Len(answers)
  BY Typed DEF Inv
<1>3. /\ Stream' = Stream /\ Framed(Stream', sent') /\ Handled' /\ BodiesShown'
      /\ (Stuck => Stuck')
  BY <1>1, SameStream
<1>4. Aligned'
  BY <1>1 DEF Aligned
<1>5. Fresh'
  BY <1>1 DEF Inv, Fresh
<1>6. Current'
  BY <1>1, <1>3 DEF Inv, Current, OwnParts
<1>7. state # "GotAll"
  BY <1>1, <1>2 DEF TypeOK
<1>8. Contents'
  <2>1. state # "GotAll" /\ state' = state /\ EmptyBody' = EmptyBody
    BY <1>1 DEF Inv, TypeOK, EmptyBody, Length
  <2> QED BY <1>1, <2>1, ContentsStay DEF Inv, Contents
<1>9. CASE ~open
  <2>1. answers' = answers
    BY <1>1, <1>9 DEF SendAnswer
  <2>2. TypeOK'
    BY <1>1, <1>2, <1>7, <2>1 DEF TypeOK
  <2>3. Answered'
    BY <1>1, <1>3, <2>1 DEF Inv, Answered
  <2> QED BY <1>3, <1>4, <1>5, <1>6, <1>8, <2>2, <2>3 DEF Inv
<1>10. CASE open
  <2>1. /\ Len(answers) = Len(handled) /\ NextId <= Len(sent)
        /\ BadLine(sent[NextId]) => Stuck
    BY <1>1, <1>10 DEF Inv, Aligned
  <2>2. Len(handled) + 1 \in 1..MaxRequests /\ NextId = Len(answers) + 1
    BY <1>2, <2>1, HttpAssumption DEF NextId
  <2>3. /\ answers' \in Seq([id : 1..MaxRequests,
                              status : {"200", "204", "400", "404", "500"}])
        /\ DOMAIN answers' = 1..(Len(answers) + 1)
        /\ answers'[Len(answers) + 1] = [id |-> Len(handled) + 1, status |-> "400"]
        /\ \A i \in 1..Len(answers) : answers'[i] = answers[i]
    BY <1>1, <1>2, <1>10, <2>2, OneMoreAnswer
  <2>4. TypeOK'
    BY <1>1, <1>2, <1>7, <2>3 DEF TypeOK
  <2>5. ASSUME NEW i \in DOMAIN answers'
        PROVE  /\ answers'[i].id = i /\ i <= Len(sent)
               /\ answers'[i].status = "400" /\ BadLine(sent[i]) => Stuck
    <3>1. CASE i \in DOMAIN answers
      BY <1>2, <2>3, <3>1 DEF Inv, Answered
    <3>2. CASE i = Len(answers) + 1
      BY <2>1, <2>2, <2>3, <3>2 DEF NextId
    <3> QED BY <1>2, <2>3, <3>1, <3>2
  <2>6. Answered'
    <3>1. \A i \in DOMAIN answers' : answers'[i].id = i /\ i <= Len(sent')
      BY <1>1, <2>5
    <3>2. \A i \in DOMAIN answers' : answers'[i].status = "400" /\ BadLine(sent'[i]) => Stuck'
      BY <1>1, <1>3, <2>5
    <3> QED BY <3>1, <3>2 DEF Answered, BadLine
  <2> QED BY <1>3, <1>4, <1>5, <1>6, <1>8, <2>4, <2>6 DEF Inv
<1> QED BY <1>9, <1>10

\* The handler runs and its answer is sent; the parser starts over.
LEMMA OnRequestKeeps ==
  ASSUME Inv, OnRequest
  PROVE  Inv'
<1> DEFINE r == request.line
           H == [id : 1..MaxRequests, body : SUBSET (1..MaxRequests)]
           e == [id |-> r, body |-> content]
           N == Len(handled)
<1>1. /\ loop = "complete" /\ handled' = Append(handled, e)
      /\ \E status \in Outcomes : SendAnswer(r, status) /\ open' = (open /\ ~Closes(status))
      /\ state' = "ExpectRequestLine" /\ request' = NoRequest /\ loop' = "idle"
      /\ UNCHANGED <<habit, sent, wire, buf, content, alive>>
  BY DEF OnRequest, ResetContext, client
<1>2. /\ TypeOK /\ N \in Nat /\ Len(answers) \in Nat /\ Len(sent) \in 0..MaxRequests
      /\ DOMAIN handled = 1..N /\ DOMAIN answers = 1..Len(answers)
  BY Typed DEF Inv
<1>3. state = "GotAll"
  BY <1>1, <1>2 DEF TypeOK
<1>4. /\ r \in 1..Len(sent)
      /\ \A i \in DOMAIN Stream :
           Stream[i].of > r \/ (Stream[i].of = r /\ MayFollow(state, Stream[i].part))
      /\ \A i \in DOMAIN handled : handled[i].id < r
  BY <1>3 DEF Inv, Current
<1>5. r \in 1..MaxRequests /\ r \in Int
  BY <1>2, <1>4, HttpAssumption
<1>6. PICK status \in {"200", "204", "404", "500"} :
        SendAnswer(r, status) /\ open' = (open /\ ~Closes(status))
  <2>1. Outcomes \subseteq {"200", "204", "404", "500"}
    BY DEF Outcomes
  <2> QED BY <1>1, <2>1
<1>7. /\ answers' \in Seq([id : 1..MaxRequests, status : {"200", "204", "400", "404", "500"}])
      /\ ~open => answers' = answers
      /\ open => /\ Len(answers') = Len(answers) + 1
                 /\ DOMAIN answers' = 1..(Len(answers) + 1)
                 /\ answers'[Len(answers) + 1] = [id |-> r, status |-> status]
                 /\ \A i \in 1..Len(answers) : answers'[i] = answers[i]
  <2>1. status \in {"200", "204", "400", "404", "500"}
    OBVIOUS
  <2> QED BY <1>2, <1>5, <1>6, <2>1, OneMoreAnswer
<1>8. open' \in BOOLEAN /\ (open' => open)
  BY <1>2, <1>6 DEF TypeOK
<1>9. /\ handled' \in Seq(H) /\ Len(handled') = N + 1 /\ DOMAIN handled' = 1..(N + 1)
      /\ handled'[N + 1].id = r /\ handled'[N + 1].body = content
      /\ \A i \in 1..N : handled'[i] = handled[i]
  <2>1. e \in H
    BY <1>2, <1>5 DEF TypeOK
  <2>2. handled \in Seq(H)
    BY <1>2 DEF TypeOK
  <2>3. e.id = r /\ e.body = content
    OBVIOUS
  <2> HIDE DEF e, H
  <2>4. /\ handled' \in Seq(H) /\ Len(handled') = Len(handled) + 1
        /\ handled'[Len(handled) + 1] = e
        /\ \A i \in 1..Len(handled) : handled'[i] = handled[i]
    BY <1>1, <2>1, <2>2, AppendProperties
  <2>5. DOMAIN handled' = 1..Len(handled')
    BY <2>4, LenProperties
  <2> QED BY <2>3, <2>4, <2>5
<1>10. Stream' = Stream /\ Framed(Stream', sent')
  BY <1>1 DEF Stream, Inv
<1>11. TypeOK'
  <2>1. request' \in [line : Ids, connection : Ids, length : Ids]
    BY <1>1, HttpAssumption DEF NoRequest, Ids
  <2> QED BY <1>1, <1>2, <1>7, <1>8, <1>9, <2>1 DEF TypeOK
<1> HIDE DEF r, e, H, N
<1>12. N + 1 \in Nat /\ \A i \in 1..(N + 1) : i \in 1..N \/ i = N + 1
  BY <1>2
<1>13. \A i \in DOMAIN handled' :
         \/ i \in DOMAIN handled /\ handled'[i] = handled[i]
         \/ i = N + 1 /\ handled'[i].id = r /\ handled'[i].body = content
  BY <1>2, <1>9, <1>12
<1>14. Handled'
  <2>1. \A i \in DOMAIN handled' : handled'[i].id \in 1..Len(sent')
    BY <1>1, <1>4, <1>13 DEF Inv, Handled
  <2>2. ASSUME NEW j \in DOMAIN Stream, Stream[j].part # "data" PROVE r < Stream[j].of
    <3>1. Stream[j].of > r
      BY <1>3, <1>4, <2>2 DEF MayFollow
    <3>2. Stream[j].of \in Int
      BY <1>2, Typed DEF PieceType
    <3> QED BY <1>5, <3>1, <3>2
  <2>3. \A i \in DOMAIN handled' : \A j \in DOMAIN Stream' :
          Stream'[j].part # "data" => handled'[i].id < Stream'[j].of
    BY <1>10, <1>13, <2>2 DEF Inv, Handled
  <2>4. ASSUME NEW i \in 2..(N + 1) PROVE handled'[i - 1].id < handled'[i].id
    <3>1. i - 1 \in 1..N
      BY <1>2
    <3>2. handled'[i - 1] = handled[i - 1]
      BY <1>9, <3>1
    <3>3. CASE i \in 2..N
      <4>1. i \in 1..N
        BY <1>2, <3>3
      <4>2. handled[i - 1].id < handled[i].id
        BY <3>3 DEF Inv, Handled, N
      <4> QED BY <1>9, <3>2, <4>1, <4>2
    <3>4. CASE i = N + 1
      BY <1>2, <1>4, <1>9, <3>1, <3>2, <3>4
    <3> QED BY <1>2, <3>3, <3>4
  <2> QED BY <1>9, <2>1, <2>3, <2>4 DEF Handled
<1>15. Current'
  BY <1>1 DEF Current
<1>16. Fresh'
  BY <1>1, <1>2 DEF Fresh, NoRequest
<1>17. BodiesShown'
  <2>1. ASSUME NEW i \in 1..N, NEW h, h = handled'[i]
        PROVE  BodyShown(h.id, h.body, ShownBefore(i))'
    <3>1. BodyShown(handled[i].id, handled[i].body, ShownBefore(i))
      BY DEF Inv, BodiesShown, N
    <3>2. ShownBefore(i)' = ShownBefore(i)
      <4>1. i # 1 => i - 1 \in 1..N
        BY <1>2
      <4> QED BY <1>9, <4>1 DEF ShownBefore
    <3>3. h = handled[i]
      BY <1>9, <2>1
    <3> QED BY <1>1, <1>8, <3>1, <3>2, <3>3 DEF BodyShown
  <2>2. BodyShown(r, content, Latest)
    BY <1>3 DEF Inv, Contents, r
  <2>3. ASSUME NEW m, m = N + 1 PROVE ShownBefore(m)' = Latest
    <3>1. m # 1 => m - 1 \in 1..N
      BY <1>2, <2>3
    <3>2. ShownBefore(m)' = ShownBefore(m)
      BY <1>9, <3>1 DEF ShownBefore
    <3> QED BY <2>3, <3>2 DEF Latest, N
  <2>4. ASSUME NEW i \in 1..Len(handled'), NEW h, h = handled'[i]
        PROVE  BodyShown(h.id, h.body, ShownBefore(i))'
    <3>1. CASE i \in 1..N
      BY <2>1, <2>4, <3>1
    <3>2. CASE i = N + 1
      <4>1. h.id = r /\ h.body = content /\ ShownBefore(i)' = Latest
        BY <1>9, <2>3, <2>4, <3>2
      <4>2. sent' = sent /\ (open' => open)
        BY <1>1, <1>8
      <4> QED BY <2>2, <4>1, <4>2 DEF BodyShown
    <3> QED BY <1>9, <1>12, <3>1, <3>2
  <2>5. ASSUME NEW i \in 1..Len(handled')
        PROVE  BodyShown(handled[i].id, handled[i].body, ShownBefore(i))'
    <3>1. PICK h : h = handled'[i]
      OBVIOUS
    <3>2. BodyShown(h.id, h.body, ShownBefore(i))'
      BY <2>4, <3>1
    <3> QED BY <3>1, <3>2 DEF BodyShown
  <2> QED BY <2>5 DEF BodiesShown
<1>18. ~Stuck
  BY <1>3 DEF Stuck
<1>19. open => r = NextId /\ Len(answers) = N /\ NextId = N + 1
  BY <1>3 DEF Inv, Aligned, NextId, r, N
<1>20. Answered'
  <2>1. CASE ~open
    BY <1>1, <1>7, <1>18, <2>1 DEF Inv, Answered, BadLine
  <2>2. CASE open
    <3>1. ASSUME NEW i \in DOMAIN answers'
          PROVE  /\ answers'[i].id = i /\ i <= Len(sent)
                 /\ ~(answers'[i].status = "400" /\ BadLine(sent[i]))
      <4>1. CASE i \in DOMAIN answers
        BY <1>2, <1>7, <1>18, <2>2, <4>1 DEF Inv, Answered
      <4>2. CASE i = N + 1
        <5>1. answers'[i].id = r /\ answers'[i].status = status
          BY <1>7, <1>19, <2>2, <4>2
        <5> QED BY <1>2, <1>4, <1>19, <2>2, <4>2, <5>1
      <4> QED BY <1>2, <1>7, <1>12, <1>19, <2>2, <4>1, <4>2
    <3> QED BY <1>1, <3>1 DEF Answered, BadLine
  <2> QED BY <2>1, <2>2
<1>21. Aligned'
  <2> SUFFICES ASSUME open, open' PROVE Aligned'
    BY <1>8 DEF Aligned
  <2>1. /\ \A i \in DOMAIN handled : handled[i].id = i
        /\ \A q \in 1..Len(sent) : q > NextId => In(Stream, q, "line")
    BY <1>3 DEF Inv, Aligned
  <2>2. NextId' = NextId + 1
    BY <1>9, <1>19 DEF NextId
  <2>3. Len(answers') = Len(handled')
    BY <1>7, <1>9, <1>19
  <2>4. \A i \in DOMAIN handled' : handled'[i].id = i
    BY <1>13, <1>19, <2>1
  <2>5. \A q \in 1..Len(sent) : q >= NextId + 1 => q > NextId
    BY <1>12, <1>19
  <2> QED BY <1>1, <1>10, <2>1, <2>2, <2>3, <2>4, <2>5 DEF Aligned
<1>22. Contents'
  <2>1. Latest' = content
    <3>1. Len(handled') + 1 # 1 /\ (Len(handled') + 1) - 1 = N + 1
      BY <1>2, <1>9
    <3> QED BY <1>9, <3>1 DEF Latest, ShownBefore
  <2> QED BY <1>1, <2>1 DEF Contents
<1> QED BY <1>10, <1>11, <1>14, <1>15, <1>16, <1>17, <1>20, <1>21, <1>22 DEF Inv

-----------------------------------------------------------------------------
(* The client and the network.                                             *)

\* Data arrive: the buffer grows, the stream stays as it is.
LEMMA DeliverKeeps ==
  ASSUME Inv, NEW n \in 0..Len(wire), Deliver(n)
  PROVE  Inv'
<1> DEFINE front == SubSeq(wire, 1, n)
           back == SubSeq(wire, n + 1, Len(wire))
<1>1. /\ loop = "idle" /\ alive /\ buf' = buf \o front /\ wire' = back /\ loop' = "parsing"
      /\ UNCHANGED <<habit, sent, state, request, content, alive, open, handled, answers>>
  BY DEF Deliver, context, output
<1>2. TypeOK /\ wire \in Seq(PieceType) /\ buf \in Seq(PieceType) /\ Len(wire) \in Nat /\ Len(buf) \in Nat
  BY LenProperties DEF Inv, TypeOK
<1>3. front \in Seq(PieceType) /\ back \in Seq(PieceType) /\ front \o back = wire
  <2>1. \A i \in 1..Len(wire) : wire[i] \in PieceType
    BY <1>2, ElementOfSeq
  <2>2. front \in Seq(PieceType)
    <3>1. \A i \in 1..n : wire[i] \in PieceType
      BY <1>2, <2>1
    <3>2. 1 \in Int /\ n \in Int
      OBVIOUS
    <3> QED BY <3>1, <3>2, SubSeqProperties
  <2>3. back \in Seq(PieceType)
    <3>1. \A i \in (n + 1)..Len(wire) : wire[i] \in PieceType
      BY <1>2, <2>1
    <3>2. n + 1 \in Int /\ Len(wire) \in Int
      BY <1>2
    <3> QED BY <3>1, <3>2, SubSeqProperties
  <2>4. front \o back = SubSeq(wire, 1, Len(wire))
    <3>1. 1 \in 1..(Len(wire) + 1) /\ n \in (1 - 1)..Len(wire) /\ Len(wire) \in n..Len(wire)
      BY <1>2
    <3> QED BY <1>2, <3>1, ConcatAdjacentSubSeq
  <2> QED BY <1>2, <2>2, <2>3, <2>4, SubSeqFull
<1> HIDE DEF front, back
<1>4. Stream' = Stream
  <2>1. buf \in Seq(PieceType) /\ front \in Seq(PieceType) /\ back \in Seq(PieceType)
    BY <1>2, <1>3
  <2>2. (buf \o front) \o back = buf \o (front \o back)
    BY <2>1, ConcatAssociative
  <2> QED BY <1>1, <1>3, <2>2 DEF Stream
<1>5. /\ buf' \in Seq(PieceType) /\ Len(buf') \in Nat /\ Len(buf) <= Len(buf')
      /\ \A i \in 1..Len(buf) : buf'[i] = buf[i]
  <2>1. /\ buf' \in Seq(PieceType) /\ Len(buf') = Len(buf) + Len(front)
        /\ \A i \in 1..(Len(buf) + Len(front)) :
             buf'[i] = IF i <= Len(buf) THEN buf[i] ELSE front[i - Len(buf)]
    BY <1>1, <1>2, <1>3, ConcatProperties
  <2>2. Len(front) \in Nat
    BY <1>3, LenProperties
  <2> QED BY <1>2, <2>1, <2>2
<1>6. Stuck => Stuck'
  <2>1. \A r \in 1..Len(sent) : sent'[r] = sent[r]
    BY <1>1
  <2> QED BY <1>1, <1>5, <2>1, StuckStays
<1>7. TypeOK'
  BY <1>1, <1>2, <1>3, <1>5 DEF TypeOK
<1>8. Framed(Stream', sent') /\ Handled' /\ BodiesShown' /\ Fresh'
  BY <1>1, <1>4, BodiesStay DEF Inv, Handled, Fresh
<1>9. Current'
  BY <1>1, <1>4 DEF Inv, Current, OwnParts
<1>10. Aligned'
  <2>1. NextId' = NextId
    BY <1>1 DEF NextId
  <2> QED BY <1>1, <1>4, <1>6, <2>1 DEF Inv, Aligned
<1>11. Answered'
  BY <1>1, <1>6 DEF Inv, Answered
<1>12. Contents'
  <2>1. state # "GotAll" /\ state' = state /\ EmptyBody' = EmptyBody
    BY <1>1 DEF Inv, TypeOK, EmptyBody, Length
  <2> QED BY <1>1, <2>1, ContentsStay DEF Inv, Contents
<1> QED BY <1>7, <1>8, <1>9, <1>10, <1>11, <1>12 DEF Inv

LEMMA SendKeeps ==
  ASSUME Inv, NEW k \in Kinds, Send(k)
  PROVE  Inv'
<1> DEFINE new == Len(sent) + 1
           p == Pieces(k, new)
<1>1. /\ Len(sent) < MaxRequests /\ sent' = Append(sent, k) /\ wire' = wire \o p
      /\ UNCHANGED <<habit, buf, state, request, content, loop, alive, open, handled, answers>>
  BY DEF Send, context, output
<1>2. /\ TypeOK /\ sent \in Seq(Kinds) /\ Len(sent) \in 0..MaxRequests /\ Len(sent) \in Nat
      /\ wire \in Seq(PieceType) /\ buf \in Seq(PieceType) /\ Stream \in Seq(PieceType)
      /\ Len(buf) \in Nat /\ DOMAIN handled = 1..Len(handled) /\ DOMAIN answers = 1..Len(answers)
  BY Typed, LenProperties DEF Inv, TypeOK
<1>3. /\ sent' \in Seq(Kinds) /\ Len(sent') = new /\ new \in 1..MaxRequests
      /\ \A r \in 1..Len(sent) : sent'[r] = sent[r] /\ r \in 1..Len(sent')
  BY <1>1, <1>2, AppendProperties, HttpAssumption
<1>4. p \in Seq(PieceType)
  BY <1>3, PiecesProperties
<1>5. wire' \in Seq(PieceType) /\ Stream' = Stream \o p
  <2> HIDE DEF p
  <2>1. buf \in Seq(PieceType) /\ wire \in Seq(PieceType) /\ p \in Seq(PieceType)
    BY <1>2, <1>4
  <2>2. (buf \o wire) \o p = buf \o (wire \o p)
    BY <2>1, ConcatAssociative
  <2>3. wire \o p \in Seq(PieceType)
    BY <2>1, ConcatProperties
  <2> QED BY <1>1, <2>2, <2>3 DEF Stream
<1>6. /\ Framed(Stream', sent')
      /\ \A i \in DOMAIN Stream : i \in DOMAIN Stream' /\ Stream'[i] = Stream[i]
      /\ \A i \in DOMAIN Stream' : i \in DOMAIN Stream \/ Stream'[i].of = new
      /\ In(Stream', new, "line")
  <2>1. Sent(Stream', Stream, sent, k, new)
    BY <1>1, <1>2, <1>5 DEF Sent, Inv
  <2>2. /\ Framed(Stream', Append(sent, k))
        /\ \A i \in DOMAIN Stream : i \in DOMAIN Stream' /\ Stream'[i] = Stream[i]
        /\ \A i \in DOMAIN Stream' : i \in DOMAIN Stream \/ Stream'[i].of = new
        /\ In(Stream', new, "line")
    BY <2>1, FramedSent
  <2> QED BY <1>1, <2>2
<1> HIDE DEF p, new
<1>7. /\ \A q, part : In(Stream, q, part) => In(Stream', q, part)
      /\ \A i, r, m : BodyAt(Stream, i, r, m) => BodyAt(Stream', i, r, m)
  BY <1>6 DEF In, BodyAt
<1>8. new \in Int /\ \A r \in 1..Len(sent) : r < new
  BY <1>2 DEF new
<1>9. Stuck => Stuck'
  <2>1. Len(buf') \in Nat /\ Len(buf) <= Len(buf') /\ \A i \in 1..Len(buf) : buf'[i] = buf[i]
    BY <1>1, <1>2
  <2> QED BY <1>1, <1>3, <2>1, StuckStays
<1>10. TypeOK'
  BY <1>1, <1>2, <1>3, <1>5, <1>8 DEF TypeOK
<1>11. Handled'
  <2>1. \A i \in DOMAIN handled : handled[i].id \in 1..Len(sent)
    BY DEF Inv, Handled
  <2>2. \A i \in DOMAIN handled' : \A j \in DOMAIN Stream' :
          Stream'[j].part # "data" => handled'[i].id < Stream'[j].of
    BY <1>1, <1>6, <1>8, <2>1 DEF Inv, Handled
  <2>3. \A i \in DOMAIN handled' : handled'[i].id \in 1..Len(sent')
    BY <1>1, <1>3, <2>1
  <2>4. \A i \in 2..Len(handled') : handled'[i - 1].id < handled'[i].id
    BY <1>1 DEF Inv, Handled
  <2> QED BY <2>2, <2>3, <2>4 DEF Handled
<1>12. BodiesShown'
  <2>1. \A i \in 1..Len(handled) : sent'[handled[i].id] = sent[handled[i].id]
    BY <1>2, <1>3 DEF Inv, Handled
  <2>2. ASSUME NEW i \in 1..Len(handled)
        PROVE  BodyShown(handled[i].id, handled[i].body, ShownBefore(i))'
    <3>1. BodyShown(handled[i].id, handled[i].body, ShownBefore(i))
      BY DEF Inv, BodiesShown
    <3>2. /\ handled' = handled /\ open' = open /\ ShownBefore(i)' = ShownBefore(i)
          /\ sent'[handled[i].id] = sent[handled[i].id]
      BY <1>1, <2>1 DEF ShownBefore
    <3> QED BY <3>1, <3>2 DEF BodyShown
  <2> QED BY <1>1, <2>2 DEF BodiesShown
<1>13. Current'
  <2> DEFINE r == request.line
  <2> SUFFICES ASSUME state # "ExpectRequestLine" PROVE Current'
    BY <1>1 DEF Current
  <2>1. /\ r \in 1..Len(sent) /\ sent[r].method # "junk" /\ sent[r].version # "junk"
        /\ \A i \in DOMAIN Stream :
             Stream[i].of > r \/ (Stream[i].of = r /\ MayFollow(state, Stream[i].part))
        /\ \A i \in DOMAIN handled : handled[i].id < r
        /\ ExactPost(sent[r]) => OwnParts
    BY DEF Inv, Current
  <2>2. sent'[r] = sent[r] /\ r \in 1..Len(sent') /\ new > r
    BY <1>3, <1>8, <2>1
  <2>3. \A i \in DOMAIN Stream' :
           Stream'[i].of > r \/ (Stream'[i].of = r /\ MayFollow(state, Stream'[i].part))
    BY <1>6, <2>1, <2>2
  <2>4. ExactPost(sent[r]) => OwnParts'
    BY <1>1, <1>7, <2>1, <2>2 DEF OwnParts
  <2> QED BY <1>1, <2>1, <2>2, <2>3, <2>4 DEF Current
<1>14. Aligned'
  <2> SUFFICES ASSUME open PROVE Aligned'
    BY <1>1 DEF Aligned
  <2>1. NextId' = NextId /\ NextId \in Int
    BY <1>1, <1>2, Typed DEF NextId
  <2>2. \A q \in 1..Len(sent') : q \in 1..Len(sent) \/ q = new
    BY <1>2, <1>3 DEF new
  <2>3. \A q \in 1..Len(sent') :
          (IF state = "ExpectRequestLine" THEN q >= NextId ELSE q > NextId) => In(Stream', q, "line")
    BY <1>6, <1>7, <2>2 DEF Inv, Aligned
  <2>4. ASSUME state # "ExpectRequestLine" \/ loop = "rejecting"
        PROVE  NextId <= Len(sent) /\ sent'[NextId] = sent[NextId] /\ NextId <= Len(sent')
    <3>1. NextId <= Len(sent)
      <4>1. CASE loop = "rejecting"
        BY <4>1 DEF Inv, Aligned
      <4>2. CASE state # "ExpectRequestLine"
        <5>1. request.line = NextId /\ request.line \in 1..Len(sent)
          BY <4>2 DEF Inv, Aligned, Current
        <5> QED BY <1>2, <5>1
      <4> QED BY <2>4, <4>1, <4>2
    <3>2. NextId >= 1
      BY <1>2, Typed DEF NextId
    <3> QED BY <1>2, <1>3, <2>1, <3>1, <3>2 DEF new
  <2>5. state = "ExpectBody" => sent'[NextId].method = "POST" /\ request.length = NextId
    BY <2>4 DEF Inv, Aligned
  <2>6. state = "ExpectHeaders" /\ loop # "rejecting" =>
          In(Stream', NextId, "blank") /\ (sent'[NextId].badHeader => In(Stream', NextId, "bad"))
    BY <1>7, <2>4 DEF Inv, Aligned
  <2>7. loop = "rejecting" => NextId <= Len(sent') /\ (BadLine(sent'[NextId]) => Stuck')
    BY <1>9, <2>4 DEF Inv, Aligned
  <2>8. /\ Len(answers) = Len(handled) /\ \A i \in DOMAIN handled : handled[i].id = i
        /\ state # "ExpectRequestLine" => request.line = NextId /\ request.length \in {0, NextId}
    BY DEF Inv, Aligned
  <2> QED BY <1>1, <2>1, <2>3, <2>5, <2>6, <2>7, <2>8 DEF Aligned
<1>15. Answered'
  <2>1. \A i \in DOMAIN answers : i \in 1..Len(sent) /\ answers[i].id = i
    BY <1>2 DEF Inv, Answered
  <2>2. \A i \in DOMAIN answers : sent'[i] = sent[i] /\ i <= Len(sent')
    BY <1>2, <1>3, <2>1
  <2>3. \A i \in DOMAIN answers : answers[i].status = "400" /\ BadLine(sent[i]) => Stuck'
    BY <1>9 DEF Inv, Answered
  <2> QED BY <1>1, <2>1, <2>2, <2>3 DEF Answered
<1>16. Fresh'
  BY <1>1, <1>2, <1>3 DEF Inv, Fresh, new
<1>17. Contents'
  <2>1. Latest' = Latest
    BY <1>1 DEF Latest, ShownBefore
  <2>2. state \in {"GotAll", "ExpectBody"} => sent'[request.line] = sent[request.line]
    <3>1. state \in {"GotAll", "ExpectBody"} => request.line \in 1..Len(sent)
      BY DEF Inv, Current
    <3> QED BY <1>3, <3>1
  <2>3. state = "GotAll" => BodyShown(request.line, content, Latest)'
    BY <1>1, <2>1, <2>2 DEF Inv, Contents, BodyShown
  <2>4. EmptyBody' = EmptyBody
    <3>1. request.length # 0 => sent'[request.length] = sent[request.length]
      <4>1. request.length \in 0..Len(sent)
        BY DEF Inv, Fresh
      <4>2. request.length # 0 => request.length \in 1..Len(sent)
        BY <1>2, <4>1
      <4> QED BY <1>3, <4>2
    <3> QED BY <1>1, <3>1 DEF EmptyBody, Length
  <2> QED BY <1>1, <2>1, <2>2, <2>3, <2>4 DEF Inv, Contents
<1> QED BY <1>6, <1>10, <1>11, <1>12, <1>13, <1>14, <1>15, <1>16, <1>17 DEF Inv

-----------------------------------------------------------------------------
LEMMA InitInv == Init => Inv
<1> SUFFICES ASSUME Init PROVE Inv
  OBVIOUS
<1>1. /\ Stream = <<>> /\ Len(sent) = 0 /\ Len(handled) = 0 /\ Len(answers) = 0
      /\ DOMAIN Stream = {} /\ DOMAIN handled = {} /\ DOMAIN answers = {}
  BY DEF Init, Stream
<1>2. Framed(Stream, sent)
  <2>1. 1..Len(sent) = {}
    BY <1>1
  <2> QED BY <1>1, <2>1 DEF Framed, InOrder, OfSent, Whole, Bodies
<1>3. Current /\ Fresh
  BY <1>1 DEF Init, Current, Fresh, NoRequest
<1>4. Handled
  <2>1. 2..Len(handled) = {}
    BY <1>1
  <2> QED BY <1>1, <2>1 DEF Handled
<1>5. Aligned
  <2>1. 1..Len(sent) = {}
    BY <1>1
  <2> QED BY <1>1, <2>1 DEF Init, Aligned
<1>6. Answered
  BY <1>1 DEF Answered
<1>7. BodiesShown
  <2>1. 1..Len(handled) = {}
    BY <1>1
  <2> QED BY <2>1 DEF BodiesShown
<1>8. TypeOK
  BY <1>1, HttpAssumption DEF Init, TypeOK, NoRequest, Ids
<1>9. Contents
  BY <1>1 DEF Init, Contents, Latest, ShownBefore
<1> QED BY <1>2, <1>3, <1>4, <1>5, <1>6, <1>7, <1>8, <1>9 DEF Inv

LEMMA NextInv == Inv /\ [Next]_vars => Inv'
<1> SUFFICES ASSUME Inv, [Next]_vars PROVE Inv'
  OBVIOUS
<1>1. CASE \E k \in Kinds : Send(k)
  BY <1>1, SendKeeps
<1>2. CASE \E n \in 0..Len(wire) : Deliver(n)
  BY <1>2, DeliverKeeps
<1>3. CASE AwaitLine \/ AwaitBody \/ AssertionFails
  BY <1>3, NothingTakenKeeps
<1>4. CASE RequestLine
  BY <1>4, RequestLineKeeps
<1>5. CASE BadRequestLine
  BY <1>5, BadRequestLineKeeps
<1>6. CASE HeaderLine
  BY <1>6, HeaderLineKeeps
<1>7. CASE BadHeaderLine
  BY <1>7, BadHeaderLineKeeps
<1>8. CASE HeadersWithoutBody \/ HeadersWithoutLength \/ HeadersWithLength
  BY <1>8, BlankLineKeeps
<1>9. CASE Body
  BY <1>9, BodyKeeps
<1>10. CASE Reject
  BY <1>10, RejectKeeps
<1>11. CASE OnRequest
  BY <1>11, OnRequestKeeps
<1>12. CASE UNCHANGED vars
  <2>1. /\ UNCHANGED <<habit, sent, wire, buf, state, request, content, loop>>
        /\ UNCHANGED <<open, alive, handled, answers>>
    BY <1>12 DEF vars
  <2>2. /\ Stream' = Stream /\ Framed(Stream', sent') /\ Handled' /\ BodiesShown' /\ (Stuck => Stuck')
        /\ NextId' = NextId
    BY <2>1, SameStream DEF NextId
  <2>3. TypeOK' /\ Fresh'
    BY <2>1 DEF Inv, TypeOK, Fresh
  <2>4. Current'
    BY <2>1, <2>2 DEF Inv, Current, OwnParts
  <2>5. Aligned' /\ Answered'
    BY <2>1, <2>2 DEF Inv, Aligned, Answered
  <2>6. Contents'
    BY <2>1 DEF Inv, Contents, Latest, ShownBefore, BodyShown, EmptyBody, Length
  <2> QED BY <2>2, <2>3, <2>4, <2>5, <2>6 DEF Inv
<1> QED BY <1>1, <1>2, <1>3, <1>4, <1>5, <1>6, <1>7, <1>8, <1>9, <1>10, <1>11, <1>12
        DEF Next, ServerStep

\* The invariant of the connection holds in every state.
THEOREM InvHolds == Spec => []Inv
BY InitInv, NextInv, PTL DEF Spec

\* The parser's state, its line numbers and what was handled and answered keep their
\* types: state_ is kGotAll only while the request is handed to onRequest().
THEOREM TypeCorrect == Spec => []TypeOK
<1>1. Inv => TypeOK
  BY DEF Inv
<1> QED BY <1>1, InvHolds, PTL

\* Answers come in the order of the requests, and no request reaches its handler twice or
\* after a later one; none is skipped as long as onMessage() has not shut the connection.
THEOREM AnswersInOrder == Spec => []HandledInOrder
<1>1. Inv => HandledInOrder
  <2> SUFFICES ASSUME Inv PROVE HandledInOrder
    OBVIOUS
  <2>1. DOMAIN handled = 1..Len(handled) /\ DOMAIN answers = 1..Len(answers)
    BY Typed DEF Inv
  <2>2. \A i \in 1..Len(answers) : answers[i].id = i
    BY <2>1 DEF Inv, Answered
  <2>3. \A i \in 2..Len(handled) : handled[i - 1].id < handled[i].id
    BY DEF Inv, Handled
  <2>4. open => \A i \in 1..Len(handled) : handled[i].id = i
    BY <2>1 DEF Inv, Aligned
  <2> QED BY <2>2, <2>3, <2>4 DEF HandledInOrder
<1> QED BY <1>1, InvHolds, PTL

\* A POST that declares a length and carries a body is shown its own data, in every chunking
\* and after every shutdown; a request that carries none, `Content-Length: 0' included, is
\* shown exactly what the request before it was shown, since the connection's HttpRequest
\* keeps its content_; and no POST without a usable length is handled before the shutdown.
THEOREM BodiesAreExplained == Spec => []BodiesShown
<1>1. Inv => BodiesShown
  BY DEF Inv
<1> QED BY <1>1, InvHolds, PTL

\* After a 400 to a line that parseRequest() refused the same line is refused each time
\* data arrive: no handler runs any more.
THEOREM BadLineIsTheEnd == Spec => NothingAfterBadLine
<1> DEFINE Refused == \E i \in 1..Len(answers) : answers[i].status = "400" /\ BadLine(sent[answers[i].id])
<1>1. Inv /\ [Next]_vars => (Refused => UNCHANGED handled)
  <2> SUFFICES ASSUME Inv, [Next]_vars, Refused PROVE UNCHANGED handled
    OBVIOUS
  <2>1. Stuck
    <3>1. PICK i \in 1..Len(answers) : answers[i].status = "400" /\ BadLine(sent[answers[i].id])
      OBVIOUS
    <3>2. DOMAIN answers = 1..Len(answers)
      BY Typed DEF Inv
    <3>3. answers[i].id = i
      BY <3>2 DEF Inv, Answered
    <3> QED BY <3>1, <3>2, <3>3 DEF Inv, Answered
  <2>2. loop # "complete"
    BY <2>1 DEF Stuck, Inv, TypeOK
  <2>3. CASE Next
    BY <2>2, <2>3
       DEF Next, ServerStep, Send, Deliver, AwaitLine, RequestLine, BadRequestLine,
           AssertionFails, HeaderLine, BadHeaderLine, HeadersWithoutBody, HeadersWithoutLength,
           HeadersWithLength, AwaitBody, Body, Reject, OnRequest, output
  <2>4. CASE UNCHANGED vars
    BY <2>4 DEF vars
  <2> QED BY <2>3, <2>4
<1>2. Inv /\ [Next]_vars => [Refused => UNCHANGED handled]_vars
  BY <1>1
<1> QED BY <1>2, InvHolds, PTL DEF Spec, NothingAfterBadLine
=============================================================================
