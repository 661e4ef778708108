------------------------- MODULE SslConnection_proofs -------------------------
(***************************************************************************)
(* That responses never overtake each other, and that a client gets those  *)
(* of its requests, none skipped, as long as no chunk was torn, for any    *)
(* number of pieces, requests and chunks.                                  *)
(*                                                                         *)
(* The argument: the pieces that the server has not read are in order, so  *)
(* that a response is for a later request than those sent before it, and   *)
(* a chunk which is not torn adds at most one request to those read, and   *)
(* one response to what is on its way.  What is on its way, or pending, is *)
(* flights of the handshake and behind them responses, as many as requests *)
(* that were read and not yet answered, and last the 400 of a malformed    *)
(* line, with which the connection is shut down.                           *)
(***************************************************************************)
EXTENDS SslConnection, FiniteSetTheorems, SequenceTheorems, WellFoundedInduction, TLAPS

Parts == {"flight", "finished", "tickets", "plaintext", "whole", "beginning"}
FlightParts == {"flight", "finished", "tickets"}
RecordType == [type : {"hello", "finish", "bad", "data"}, piece : 0..Pieces]
Item == [request : RequestEnds \union {0}, part : Parts]

Incoming == readBio \o toServer

\* What will come: what is pending is lost with the connection.
Pending == IF connected THEN writeBio ELSE <<>>
Out == toClient \o Pending

\* The handshake has not failed, and neither has a record since.
Alive == ssl # "failed" /\ state # "ERROR"

Sequenced == /\ toServer \in Seq(RecordType) /\ readBio \in Seq(RecordType)
             /\ toClient \in Seq(Item) /\ writeBio \in Seq(Item) /\ received \in Seq(Item)

\* The data among the records s are pieces after from, each behind those before it.
Ordered(s, from, to) ==
  \A i \in DOMAIN s : s[i].type = "data" =>
    /\ s[i].piece \in from + 1..to
    /\ \A j \in DOMAIN s : i < j /\ s[j].type = "data" => s[i].piece < s[j].piece

Handshaking == state = "HANDSHAKE" => read = 0 /\ writeBio = <<>> /\ (Alive => connected)

IsResponse(item) == item.part \in {"whole", "beginning"}

\* The item y may follow x: a response of a request only those of earlier ones.
Below(x, y) == y.request > 0 => x.request < y.request /\ (IsResponse(x) => x.request > 0)

\* The client got the items in a, and those in b are on their way.
Rising(a, b) == /\ \A i, j \in DOMAIN a : i < j => Below(a[i], a[j])
                /\ \A i, j \in DOMAIN b : i < j => Below(b[i], b[j])
                /\ \A i \in DOMAIN a, j \in DOMAIN b : Below(a[i], b[j])

\* What the server sends.
Sound(item) == /\ item.request <= read
               /\ IsResponse(item) /\ ~garbled => item.request > 0
               /\ IsResponse(item) /\ ~torn => Served(item.request)

AllSound(s) == \A i \in DOMAIN s : Sound(s[i])

InOrder == /\ Rising(received, toClient)
           /\ AllSound(received) /\ AllSound(toClient)
           /\ \A i \in DOMAIN received : IsResponse(received[i])

RightAnswer(item, n) == /\ IsResponse(item)
                        /\ item.request \in RequestEnds /\ Nth(item.request) = n
                        /\ item.part = "beginning" => item.request \in Large

\* Of what is on its way, the first k are flights; the others are the n + 1st response and later ones.
Answers(out, k, n) == /\ k \in 0..Len(out)
                      /\ \A i \in 1..k : out[i].part \in FlightParts
                      /\ \A i \in k + 1..Len(out) :
                           RightAnswer(out[i], n + i - k) \/ out[i].part = "plaintext"

\* The first malformed line was read, and m requests came before it.
GivenUp(m) == \E p \in 1..read : Refused(p) /\ m = Nth(p - 1)

\* The responses that are on their way behind k flights.
OnTheirWay(out, k) ==
  /\ k > 0 => received = <<>>
  /\ Answers(out, k, Len(received))
  /\ connected => Nth(read) = Len(received) + Len(out) - k
  /\ \A i \in DOMAIN out : out[i].part = "plaintext" =>
       i = Len(out) /\ ~connected /\ GivenUp(Len(received) + Len(out) - 1 - k)

\* No response up to p closes the connection, and no line is malformed.
Undisturbed(p) == \A q \in stream.closing \union stream.malformed : p < q

InStep == ~torn => /\ connected => ~garbled /\ parsed = read /\ Undisturbed(read)
                   /\ client = "broken" => ~connected /\ Out = <<>> /\ GivenUp(Len(received))
                   /\ \A i \in DOMAIN received : RightAnswer(received[i], i)
                   /\ \E k \in 0..Len(Out) : OnTheirWay(Out, k)

Inv == /\ TypeOK /\ Sequenced /\ (Alive => Ordered(Incoming, read, sent)) /\ Handshaking
       /\ (connected => Alive) /\ InOrder /\ InStep

-----------------------------------------------------------------------------
(* Least and greatest elements; the numbers of requests.                   *)
LEMMA Least ==
  ASSUME NEW S \in SUBSET Nat, S # {}
  PROVE  \E n \in S : \A m \in S : n <= m
<1> DEFINE R == {p \in Nat \X Nat : p[1] < p[2]}
<1>1. IsWellFoundedOn(R, Nat)
  BY NatLessThanWellFounded DEF OpToRel
<1> HIDE DEF R
<1>2. PICK n \in S : \A m \in S : <<m, n>> \notin R
  BY <1>1, WFMin
<1>3. ASSUME NEW m \in S PROVE n <= m
  <2>1. m \in Nat /\ n \in Nat /\ <<m, n>> \notin R
    BY <1>2
  <2>2. ~(m < n)
    BY <2>1 DEF R
  <2> QED BY <2>1, <2>2
<1> QED BY <1>3

LEMMA MinIsLeast ==
  ASSUME NEW S \in SUBSET Nat, S # {}
  PROVE  Min(S) \in S /\ \A m \in S : Min(S) <= m
BY Least DEF Min

LEMMA MaxIsMember ==
  ASSUME NEW a \in Nat, NEW b \in Nat, NEW S \in SUBSET (a..b), S # {}
  PROVE  Max(S) \in S /\ \A x \in S : x <= Max(S)
<1> DEFINE D == {d \in Nat : b - d \in S}
<1>1. \A x \in S : x \in Int /\ x <= b /\ b - x \in D
  <2> TAKE x \in S
  <2>1. x \in Int /\ x <= b /\ b - x \in Nat /\ b - (b - x) = x
    OBVIOUS
  <2> QED BY <2>1
<1>2. D \in SUBSET Nat /\ D # {}
  BY <1>1
<1> HIDE DEF D
<1>3. PICK d \in D : \A e \in D : d <= e
  BY <1>2, Least
<1>4. d \in Nat /\ b - d \in S
  BY <1>3 DEF D
<1>5. ASSUME NEW x \in S PROVE b - d >= x
  <2>1. d <= b - x /\ x \in Int
    BY <1>1, <1>3
  <2> QED BY <1>4, <2>1
<1>6. \E m \in S : \A x \in S : m >= x
  BY <1>4, <1>5
<1>7. Max(S) \in S /\ \A x \in S : Max(S) >= x
  BY <1>6 DEF Max
<1> QED BY <1>1, <1>7

LEMMA NotEmpty ==
  ASSUME NEW S, NEW s \in Seq(S), Len(s) = 0
  PROVE  s = <<>>
BY EmptySeq

LEMMA EndsArePieces ==
  /\ Pieces \in Nat
  /\ \A q \in RequestEnds : q \in Nat /\ 1 <= q /\ q <= Pieces
  /\ \A q \in LineEnds : q \in Nat /\ 1 <= q /\ q <= Pieces
  /\ RequestEnds \subseteq LineEnds
BY SslAssumption

LEMMA StreamTyped == ASSUME TypeOK
                     PROVE  stream.closing \subseteq RequestEnds /\ stream.malformed \subseteq LineEnds
BY SslAssumption DEF TypeOK

LEMMA NthProperties ==
  ASSUME NEW r \in 0..Pieces
  PROVE  IsFiniteSet(UpTo(r)) /\ Nth(r) \in Nat
<1>1. UpTo(r) \subseteq 1..Pieces
  BY EndsArePieces DEF UpTo
<1>2. IsFiniteSet(1..Pieces)
  BY EndsArePieces, FS_Interval
<1>3. IsFiniteSet(UpTo(r))
  BY <1>1, <1>2, FS_Subset
<1> QED BY <1>3, FS_CardinalityType DEF Nth

LEMMA NthOfNone == Nth(0) = 0
<1>1. UpTo(0) = {}
  BY EndsArePieces DEF UpTo
<1> QED BY <1>1, FS_EmptySet DEF Nth

\* The pieces from..upto end no request, or the last one does.
LEMMA NthNext ==
  ASSUME NEW from \in 0..Pieces, NEW upto \in from + 1..Pieces
  PROVE  /\ (\A p \in RequestEnds : p \notin from + 1..upto) => Nth(upto) = Nth(from)
         /\ (upto \in RequestEnds /\ \A p \in RequestEnds : p \in from + 1..upto => p = upto)
              => Nth(upto) = Nth(from) + 1
<1>1. ASSUME \A p \in RequestEnds : p \notin from + 1..upto PROVE UpTo(upto) = UpTo(from)
  BY <1>1, EndsArePieces DEF UpTo
<1>2. ASSUME upto \in RequestEnds, \A p \in RequestEnds : p \in from + 1..upto => p = upto
      PROVE  Nth(upto) = Nth(from) + 1
  <2>1. \A q \in RequestEnds : q <= upto <=> q <= from \/ q = upto
    BY <1>2, EndsArePieces
  <2>2. UpTo(upto) = UpTo(from) \union {upto}
    BY <1>2, <2>1 DEF UpTo
  <2>3. upto \notin UpTo(from)
    BY EndsArePieces DEF UpTo
  <2>4. IsFiniteSet(UpTo(from))
    BY NthProperties
  <2> QED BY <2>2, <2>3, <2>4, FS_AddElement DEF Nth
<1> QED BY <1>1, <1>2 DEF Nth

-----------------------------------------------------------------------------
(* Sequences.                                                              *)

\* Readable(bio) is a beginning of bio, of data, and as long as can be.
LEMMA ReadableIsPrefix ==
  ASSUME NEW bio \in Seq(RecordType)
  PROVE  \E m \in 0..Len(bio) : /\ Readable(bio) = SubSeq(bio, 1, m)
                                /\ \A i \in 1..m : bio[i].type = "data"
<1> DEFINE I == {i \in 1..Len(bio) : bio[i].type # "data"}
<1>1. Len(bio) \in Nat
  BY LenProperties
<1>2. CASE I = {}
  <2>1. Readable(bio) = bio /\ bio = SubSeq(bio, 1, Len(bio))
    BY <1>2, SubSeqFull DEF Readable, SelectInSeq
  <2>2. Len(bio) \in 0..Len(bio) /\ \A i \in 1..Len(bio) : bio[i].type = "data"
    BY <1>1, <1>2
  <2> QED BY <2>1, <2>2
<1>3. CASE I # {}
  <2>1. I \in SUBSET Nat /\ \A i \in I : i \in 1..Len(bio)
    BY <1>1
  <2>2. Min(I) \in I /\ \A i \in I : Min(I) <= i
    BY <1>3, <2>1, MinIsLeast
  <2>3. Readable(bio) = SubSeq(bio, 1, Min(I) - 1)
    <3>1. Min(I) # 0
      BY <1>1, <2>1, <2>2
    <3> QED BY <1>3, <3>1 DEF Readable, SelectInSeq
  <2>4. PICK n \in 1..Len(bio) : n = Min(I)
    BY <2>1, <2>2
  <2>5. n - 1 \in 0..Len(bio) /\ \A i \in 1..(n - 1) : i \in 1..Len(bio) /\ i < n
    BY <1>1
  <2>6. ASSUME NEW i \in 1..(n - 1), bio[i].type # "data" PROVE FALSE
    <3>1. i \in 1..Len(bio) /\ i < n
      BY <2>5
    <3>2. i \in I /\ n <= i
      BY <2>2, <2>4, <2>6, <3>1
    <3> QED BY <3>1, <3>2
  <2> QED BY <2>3, <2>4, <2>5, <2>6
<1> QED BY <1>2, <1>3

\* t is s without its first m elements.
Shifted(t, s, m) == /\ m \in 0..Len(s) /\ Len(t) = Len(s) - m
                    /\ \A i \in 1..Len(t) : i + m \in 1..Len(s) /\ t[i] = s[i + m]

LEMMA SuffixShifted ==
  ASSUME NEW S, NEW s \in Seq(S), NEW m \in 0..Len(s)
  PROVE  SubSeq(s, m + 1, Len(s)) \in Seq(S) /\ Shifted(SubSeq(s, m + 1, Len(s)), s, m)
<1> DEFINE L == Len(s)
           t == SubSeq(s, m + 1, L)
<1>1. L \in Nat /\ m \in Nat /\ m <= L
  BY LenProperties
<1>2. \A i \in m + 1..L : s[i] \in S
  BY <1>1, ElementOfSeq
<1>3. /\ t \in Seq(S) /\ Len(t) = IF m + 1 <= L THEN L - (m + 1) + 1 ELSE 0
      /\ \A i \in 1..L - (m + 1) + 1 : t[i] = s[(m + 1) + i - 1]
  BY <1>1, <1>2, SubSeqProperties
<1>4. Len(t) = L - m
  BY <1>1, <1>3
<1>5. ASSUME NEW i \in 1..Len(t)
      PROVE  i + m \in 1..L /\ t[i] = s[i + m]
  <2>1. i \in Int /\ 1 <= i /\ i <= L - m
    BY <1>1, <1>4
  <2>2. i \in 1..L - (m + 1) + 1 /\ (m + 1) + i - 1 = i + m /\ i + m \in 1..L
    BY <1>1, <2>1
  <2> QED BY <1>3, <2>2
<1> HIDE DEF t
<1> QED BY <1>3, <1>4, <1>5 DEF Shifted, t

\* Records come from TCP, and a beginning of those in the BIO is read.
LEMMA RecordsRead ==
  ASSUME Sequenced, NEW n \in 1..Len(toServer), NEW bio, bio = readBio \o SubSeq(toServer, 1, n),
         NEW m \in 0..Len(bio), readBio' = SubSeq(bio, m + 1, Len(bio)),
         toServer' = SubSeq(toServer, n + 1, Len(toServer))
  PROVE  /\ readBio' \in Seq(RecordType) /\ toServer' \in Seq(RecordType)
         /\ Incoming \in Seq(RecordType) /\ Incoming' \in Seq(RecordType)
         /\ Shifted(Incoming', Incoming, m)
<1> DEFINE T == Len(toServer)
           R == Len(readBio)
           part == SubSeq(toServer, 1, n)
           rest == SubSeq(toServer, n + 1, T)
           kept == SubSeq(bio, m + 1, Len(bio))
<1>1. T \in Nat /\ R \in Nat /\ n \in Nat /\ 1 <= n /\ n <= T
  BY LenProperties DEF Sequenced
<1>2. part \in Seq(RecordType) /\ Len(part) = n /\ \A i \in 1..n : part[i] = toServer[i]
  <2>1. \A i \in 1..n : toServer[i] \in RecordType
    BY <1>1, ElementOfSeq DEF Sequenced
  <2>2. /\ part \in Seq(RecordType) /\ Len(part) = IF 1 <= n THEN n - 1 + 1 ELSE 0
        /\ \A i \in 1..n - 1 + 1 : part[i] = toServer[1 + i - 1]
    BY <1>1, <2>1, SubSeqProperties
  <2>3. n - 1 + 1 = n /\ \A i \in 1..n : 1 + i - 1 = i
    BY <1>1
  <2> QED BY <1>1, <2>2, <2>3
<1>3. rest \in Seq(RecordType) /\ Shifted(rest, toServer, n)
  BY <1>1, SuffixShifted DEF Sequenced
<1>4. /\ Incoming \in Seq(RecordType) /\ Len(Incoming) = R + T
      /\ \A i \in 1..R + T : Incoming[i] = IF i <= R THEN readBio[i] ELSE toServer[i - R]
  BY ConcatProperties DEF Sequenced, Incoming
<1>5. /\ bio \in Seq(RecordType) /\ Len(bio) = R + n
      /\ \A i \in 1..R + n : bio[i] = IF i <= R THEN readBio[i] ELSE part[i - R]
  BY <1>2, ConcatProperties DEF Sequenced
<1>6. kept \in Seq(RecordType) /\ Shifted(kept, bio, m)
  BY <1>5, SuffixShifted
<1> HIDE DEF T, R, part, rest, kept
<1> DEFINE new == kept \o rest
<1>7. Incoming' = new /\ readBio' = kept /\ toServer' = rest
  BY DEF Incoming, kept, rest, T
<1>8. /\ new \in Seq(RecordType) /\ Len(new) = Len(kept) + Len(rest)
      /\ \A i \in 1..Len(kept) + Len(rest) :
           new[i] = IF i <= Len(kept) THEN kept[i] ELSE rest[i - Len(kept)]
  BY <1>3, <1>6, ConcatProperties
<1> HIDE DEF new
<1>9. /\ m \in Nat /\ m <= R + n /\ Len(kept) = R + n - m /\ Len(rest) = T - n
      /\ Len(new) = R + T - m
  <2>1. m \in Nat /\ m <= R + n
    BY <1>1, <1>5
  <2>2. Len(kept) = R + n - m /\ Len(rest) = T - n
    BY <1>1, <1>3, <1>5, <1>6 DEF Shifted, T
  <2> QED BY <1>1, <1>8, <2>1, <2>2
<1>10. ASSUME NEW i \in 1..Len(new)
       PROVE  i + m \in 1..R + T /\ new[i] = Incoming[i + m]
  <2>1. i \in Nat /\ 1 <= i /\ i <= R + T - m /\ i + m \in 1..R + T
    BY <1>1, <1>9
  <2>2. CASE i <= R + n - m
    <3>1. i \in 1..Len(kept) /\ i + m \in 1..R + n
      BY <1>1, <1>9, <2>1, <2>2
    <3>2. new[i] = kept[i] /\ kept[i] = bio[i + m]
      <4>1. i \in 1..Len(kept) + Len(rest) /\ i <= Len(kept)
        BY <1>1, <1>9, <2>1, <2>2
      <4>2. new[i] = kept[i]
        BY <1>8, <4>1
      <4>3. kept[i] = bio[i + m]
        BY <1>6, <3>1 DEF Shifted
      <4> QED BY <4>2, <4>3
    <3>3. CASE i + m <= R
      <4>1. bio[i + m] = readBio[i + m]
        BY <1>5, <3>1, <3>3
      <4>2. Incoming[i + m] = readBio[i + m]
        BY <1>4, <2>1, <3>3
      <4> QED BY <2>1, <3>2, <4>1, <4>2
    <3>4. CASE ~(i + m <= R)
      <4>1. i + m - R \in 1..n
        <5>1. i + m \in Int /\ R \in Int /\ n \in Nat /\ i + m <= R + n
          BY <1>1, <3>1
        <5> QED BY <3>4, <5>1
      <4>2. bio[i + m] = part[i + m - R]
        <5>1. PICK x \in 1..R + n : x = i + m
          BY <3>1
        <5>2. bio[x] = part[x - R]
          BY <1>5, <3>4, <5>1
        <5>3. x - R = i + m - R
          BY <1>1, <1>9, <5>1
        <5> QED BY <5>1, <5>2, <5>3, Zenon
      <4>3. part[i + m - R] = toServer[i + m - R]
        BY <1>2, <4>1
      <4>4. Incoming[i + m] = toServer[i + m - R]
        <5>1. PICK x \in 1..R + T : x = i + m
          BY <2>1
        <5>2. Incoming[x] = toServer[x - R]
          BY <1>4, <3>4, <5>1
        <5>3. x - R = i + m - R
          BY <1>1, <1>9, <5>1
        <5> QED BY <5>1, <5>2, <5>3, Zenon
      <4> QED BY <2>1, <3>2, <4>2, <4>3, <4>4
    <3> QED BY <3>3, <3>4
  <2>3. CASE ~(i <= R + n - m)
    <3>1. /\ i - (R + n - m) \in 1..Len(rest) /\ ~(i + m <= R)
          /\ (i - (R + n - m)) + n = i + m - R
      BY <1>1, <1>9, <2>1, <2>3
    <3>2. new[i] = rest[i - (R + n - m)]
      BY <1>8, <1>9, <2>1, <2>3
    <3>3. rest[i - (R + n - m)] = toServer[(i - (R + n - m)) + n]
      BY <1>3, <3>1 DEF Shifted
    <3>4. Incoming[i + m] = toServer[i + m - R]
      BY <1>1, <1>4, <2>1, <3>1
    <3> QED BY <2>1, <3>1, <3>2, <3>3, <3>4
  <2> QED BY <2>2, <2>3
<1>11. Shifted(new, Incoming, m)
  BY <1>1, <1>4, <1>9, <1>10 DEF Shifted
<1> QED BY <1>3, <1>4, <1>6, <1>7, <1>8, <1>11

-----------------------------------------------------------------------------
(* What is in order stays so.                                              *)
LEMMA OrderedShifted ==
  ASSUME NEW s \in Seq(RecordType), NEW t \in Seq(RecordType), NEW m, Shifted(t, s, m),
         NEW from \in Nat, NEW to \in Nat, Ordered(s, from, to)
  PROVE  /\ Ordered(t, from, to)
         /\ m > 0 /\ s[m].type = "data" => s[m].piece \in from + 1..to /\ Ordered(t, s[m].piece, to)
<1>1. /\ DOMAIN s = 1..Len(s) /\ DOMAIN t = 1..Len(t) /\ Len(s) \in Nat /\ Len(t) \in Nat
      /\ m \in Nat /\ m <= Len(s)
  BY LenProperties DEF Shifted
<1>2. \A i \in DOMAIN t : i + m \in DOMAIN s /\ t[i] = s[i + m] /\ i \in Int
  BY <1>1 DEF Shifted
<1>3. \A i, j \in DOMAIN t : i < j => i + m < j + m
  BY <1>1, <1>2
<1>4. Ordered(t, from, to)
  BY <1>2, <1>3 DEF Ordered
<1>5. ASSUME m > 0, s[m].type = "data"
      PROVE  s[m].piece \in from + 1..to /\ Ordered(t, s[m].piece, to)
  <2>1. m \in DOMAIN s /\ s[m].piece \in from + 1..to
    BY <1>1, <1>5 DEF Ordered
  <2>2. ASSUME NEW i \in DOMAIN t, t[i].type = "data"
        PROVE  t[i].piece \in s[m].piece + 1..to
    <3>1. i + m \in DOMAIN s /\ m < i + m /\ t[i] = s[i + m]
      BY <1>1, <1>2
    <3>2. s[m].piece < s[i + m].piece /\ s[i + m].piece \in from + 1..to
      BY <1>5, <2>1, <2>2, <3>1 DEF Ordered
    <3> QED BY <2>1, <3>1, <3>2
  <2> QED BY <1>4, <2>1, <2>2 DEF Ordered
<1> QED BY <1>4, <1>5

LEMMA OrderedAppended ==
  ASSUME NEW s \in Seq(RecordType), NEW r \in RecordType, NEW from \in Nat, NEW to \in Nat,
         Ordered(s, from, to), from <= to
  PROVE  /\ r.type # "data" => Ordered(Append(s, r), from, to)
         /\ r.type = "data" /\ r.piece = to + 1 => Ordered(Append(s, r), from, to + 1)
<1> DEFINE t == Append(s, r)
<1>1. /\ Len(s) \in Nat /\ DOMAIN s = 1..Len(s) /\ DOMAIN t = 1..Len(t) /\ Len(t) = Len(s) + 1
      /\ t[Len(s) + 1] = r /\ \A i \in 1..Len(s) : t[i] = s[i]
  BY LenProperties, AppendProperties
<1> HIDE DEF t
<1>2. \A i \in DOMAIN t : (i \in DOMAIN s /\ t[i] = s[i]) \/ (i = Len(s) + 1 /\ t[i] = r)
  BY <1>1
<1>3. \A i \in DOMAIN s : i < Len(s) + 1
  BY <1>1
<1>4. ASSUME r.type # "data" PROVE Ordered(t, from, to)
  BY <1>2, <1>4 DEF Ordered
<1>5. ASSUME r.type = "data", r.piece = to + 1 PROVE Ordered(t, from, to + 1)
  <2>1. ASSUME NEW i \in DOMAIN t, t[i].type = "data"
        PROVE  /\ t[i].piece \in from + 1..to + 1
               /\ \A j \in DOMAIN t : i < j /\ t[j].type = "data" => t[i].piece < t[j].piece
    <3>1. CASE i \in DOMAIN s /\ t[i] = s[i]
      <4>1. s[i].piece \in from + 1..to
        BY <2>1, <3>1 DEF Ordered
      <4>2. \A j \in DOMAIN s : i < j /\ s[j].type = "data" => s[i].piece < s[j].piece
        BY <2>1, <3>1 DEF Ordered
      <4> QED BY <1>2, <1>5, <3>1, <4>1, <4>2
    <3>2. CASE i = Len(s) + 1 /\ t[i] = r
      <4>1. \A j \in DOMAIN t : ~(i < j)
        BY <1>1, <3>2
      <4> QED BY <1>5, <3>2, <4>1
    <3> QED BY <1>2, <3>1, <3>2
  <2> QED BY <2>1 DEF Ordered
<1> QED BY <1>4, <1>5 DEF t

-----------------------------------------------------------------------------
(* What is on its way.                                                     *)
LEMMA AppendedBehind ==
  ASSUME NEW S, NEW c \in Seq(S), NEW w \in Seq(S), NEW x \in S
  PROVE  c \o Append(w, x) = Append(c \o w, x)
<1> DEFINE a == Append(w, x)
           p == c \o a
           q == c \o w
           b == Append(q, x)
<1>1. Len(c) \in Nat /\ Len(w) \in Nat
  BY LenProperties
<1>2. a \in Seq(S) /\ Len(a) = Len(w) + 1 /\ a[Len(w) + 1] = x /\ \A i \in 1..Len(w) : a[i] = w[i]
  BY AppendProperties
<1> HIDE DEF a
<1>3. /\ p \in Seq(S) /\ Len(p) = Len(c) + Len(a)
      /\ \A i \in 1..Len(c) + Len(a) : p[i] = IF i <= Len(c) THEN c[i] ELSE a[i - Len(c)]
  BY <1>2, ConcatProperties
<1> HIDE DEF p
<1>4. /\ q \in Seq(S) /\ Len(q) = Len(c) + Len(w)
      /\ \A i \in 1..Len(c) + Len(w) : q[i] = IF i <= Len(c) THEN c[i] ELSE w[i - Len(c)]
  BY ConcatProperties
<1> HIDE DEF q
<1>5. b \in Seq(S) /\ Len(b) = Len(q) + 1 /\ b[Len(q) + 1] = x /\ \A i \in 1..Len(q) : b[i] = q[i]
  BY <1>4, AppendProperties
<1> HIDE DEF b
<1>6. Len(p) = Len(b)
  BY <1>1, <1>2, <1>3, <1>4, <1>5
<1>7. ASSUME NEW i \in 1..Len(p) PROVE p[i] = b[i]
  <2>1. i \in Nat /\ 1 <= i /\ i <= Len(c) + Len(w) + 1
    BY <1>1, <1>2, <1>3
  <2>2. CASE i <= Len(c)
    <3>1. p[i] = c[i]
      BY <1>1, <1>2, <1>3, <2>1, <2>2
    <3>2. b[i] = q[i] /\ q[i] = c[i]
      BY <1>1, <1>4, <1>5, <2>1, <2>2
    <3> QED BY <3>1, <3>2
  <2>3. CASE Len(c) < i /\ i <= Len(c) + Len(w)
    <3>1. p[i] = a[i - Len(c)] /\ i - Len(c) \in 1..Len(w)
      BY <1>1, <1>2, <1>3, <2>1, <2>3
    <3>2. b[i] = q[i] /\ q[i] = w[i - Len(c)]
      BY <1>1, <1>4, <1>5, <2>1, <2>3
    <3> QED BY <1>2, <3>1, <3>2
  <2>4. CASE i = Len(c) + Len(w) + 1
    <3>1. p[i] = a[i - Len(c)] /\ i - Len(c) = Len(w) + 1
      BY <1>1, <1>2, <1>3, <2>1, <2>4
    <3>2. b[i] = x
      BY <1>1, <1>4, <1>5, <2>4
    <3> QED BY <1>2, <3>1, <3>2
  <2> QED BY <1>1, <2>1, <2>2, <2>3, <2>4
<1>8. p = b
  BY <1>3, <1>5, <1>6, <1>7, SeqEqual
<1> QED BY <1>8 DEF p, b, a, q

LEMMA AnswerAdded ==
  ASSUME NEW out \in Seq(Item), NEW x \in Item, NEW k, NEW n \in Nat, Answers(out, k, n),
         RightAnswer(x, n + Len(out) - k + 1) \/ x.part = "plaintext"
  PROVE  Answers(Append(out, x), k, n)
<1> DEFINE t == Append(out, x)
<1>1. /\ Len(out) \in Nat /\ Len(t) = Len(out) + 1 /\ t[Len(out) + 1] = x
      /\ \A i \in 1..Len(out) : t[i] = out[i]
  BY LenProperties, AppendProperties
<1> HIDE DEF t
<1>2. k \in Nat /\ k <= Len(out)
  BY <1>1 DEF Answers
<1>3. \A i \in 1..k : i \in 1..Len(out)
  BY <1>1, <1>2
<1>4. ASSUME NEW i \in k + 1..Len(t) PROVE RightAnswer(t[i], n + i - k) \/ t[i].part = "plaintext"
  <2>1. CASE i \in k + 1..Len(out)
    <3>1. i \in 1..Len(out)
      BY <1>1, <1>2, <2>1
    <3>2. RightAnswer(out[i], n + i - k) \/ out[i].part = "plaintext"
      BY <2>1 DEF Answers
    <3> QED BY <1>1, <3>1, <3>2, Zenon
  <2>2. CASE i = Len(out) + 1
    <3>1. n + i - k = n + Len(out) - k + 1
      BY <1>1, <1>2, <2>2
    <3> QED BY <1>1, <2>2, <3>1
  <2> QED BY <1>1, <1>2, <2>1, <2>2
<1>5. \A i \in 1..k : t[i].part \in FlightParts
  BY <1>1, <1>3 DEF Answers
<1>6. k \in 0..Len(t)
  BY <1>1, <1>2
<1> QED BY <1>4, <1>5, <1>6 DEF Answers, t

LEMMA FlightAdded ==
  ASSUME NEW out \in Seq(Item), NEW x \in Item, NEW n \in Nat, Answers(out, Len(out), n),
         x.part \in FlightParts
  PROVE  Answers(Append(out, x), Len(out) + 1, n)
<1> DEFINE t == Append(out, x)
<1>1. /\ Len(out) \in Nat /\ Len(t) = Len(out) + 1 /\ t[Len(out) + 1] = x
      /\ \A i \in 1..Len(out) : t[i] = out[i]
  BY LenProperties, AppendProperties
<1> HIDE DEF t
<1>2. \A i \in 1..Len(out) + 1 : i \in 1..Len(out) \/ i = Len(out) + 1
  BY <1>1
<1>3. \A i \in 1..Len(out) + 1 : t[i].part \in FlightParts
  BY <1>1, <1>2 DEF Answers
<1>4. \A i \in (Len(out) + 1) + 1..Len(t) : FALSE
  BY <1>1
<1> QED BY <1>1, <1>3, <1>4 DEF Answers, t

LEMMA FirstTaken ==
  ASSUME NEW out \in Seq(Item), NEW k, NEW n \in Nat, Answers(out, k, n), NEW t \in Seq(Item),
         Shifted(t, out, 1)
  PROVE  /\ k > 0 => out[1].part \in FlightParts /\ Answers(t, k - 1, n)
         /\ k = 0 => /\ RightAnswer(out[1], n + 1) \/ out[1].part = "plaintext"
                     /\ Answers(t, 0, n + 1)
<1>1. /\ Len(out) \in Nat /\ Len(out) >= 1 /\ Len(t) = Len(out) - 1
      /\ \A i \in 1..Len(t) : i + 1 \in 1..Len(out) /\ t[i] = out[i + 1]
  BY LenProperties DEF Shifted
<1>2. k \in Nat /\ k <= Len(out)
  BY <1>1 DEF Answers
<1>3. ASSUME k > 0 PROVE out[1].part \in FlightParts /\ Answers(t, k - 1, n)
  <2>1. 1 \in 1..k /\ k - 1 \in 0..Len(t)
    BY <1>1, <1>2, <1>3
  <2>2. ASSUME NEW i \in 1..k - 1 PROVE t[i].part \in FlightParts
    <3>1. i \in 1..Len(t) /\ i + 1 \in 1..k
      BY <1>1, <1>2, <1>3
    <3> QED BY <1>1, <3>1 DEF Answers
  <2>3. ASSUME NEW i \in (k - 1) + 1..Len(t)
        PROVE  RightAnswer(t[i], n + i - (k - 1)) \/ t[i].part = "plaintext"
    <3>1. i \in 1..Len(t) /\ i + 1 \in k + 1..Len(out) /\ n + (i + 1) - k = n + i - (k - 1)
      BY <1>1, <1>2, <1>3
    <3>2. RightAnswer(out[i + 1], n + (i + 1) - k) \/ out[i + 1].part = "plaintext"
      BY <3>1 DEF Answers
    <3> QED BY <1>1, <3>1, <3>2
  <2> QED BY <2>1, <2>2, <2>3 DEF Answers
<1>4. ASSUME k = 0
      PROVE  (RightAnswer(out[1], n + 1) \/ out[1].part = "plaintext") /\ Answers(t, 0, n + 1)
  <2>1. \A i \in 1..Len(out) : RightAnswer(out[i], n + i) \/ out[i].part = "plaintext"
    <3> TAKE i \in 1..Len(out)
    <3>1. i \in k + 1..Len(out) /\ n + i - k = n + i
      BY <1>1, <1>4
    <3> QED BY <3>1 DEF Answers
  <2>2. 0 \in 0..Len(t) /\ 1 \in 1..Len(out)
    BY <1>1
  <2>3. ASSUME NEW i \in 0 + 1..Len(t)
        PROVE  RightAnswer(t[i], (n + 1) + i - 0) \/ t[i].part = "plaintext"
    <3>1. i \in 1..Len(t) /\ i + 1 \in 1..Len(out) /\ (n + 1) + i - 0 = n + (i + 1)
      BY <1>1
    <3>2. RightAnswer(out[i + 1], n + (i + 1)) \/ out[i + 1].part = "plaintext"
      BY <2>1, <3>1
    <3> QED BY <1>1, <3>1, <3>2
  <2>4. \A i \in 1..0 : FALSE
    OBVIOUS
  <2> QED BY <2>1, <2>2, <2>3, <2>4 DEF Answers
<1> QED BY <1>3, <1>4

\* A flight at the end is behind flights only.
LEMMA FlightDropped ==
  ASSUME NEW c \in Seq(Item), NEW x \in Item, x.part \in FlightParts, NEW k, NEW n \in Nat,
         Answers(Append(c, x), k, n)
  PROVE  k = Len(c) + 1 /\ Answers(c, Len(c), n)
<1> DEFINE t == Append(c, x)
<1>1. /\ Len(c) \in Nat /\ Len(t) = Len(c) + 1 /\ t[Len(c) + 1] = x
      /\ \A i \in 1..Len(c) : t[i] = c[i]
  BY LenProperties, AppendProperties
<1>2. /\ k \in 0..Len(t) /\ \A i \in 1..k : t[i].part \in FlightParts
      /\ \A i \in k + 1..Len(t) : RightAnswer(t[i], n + i - k) \/ t[i].part = "plaintext"
  BY DEF Answers
<1> HIDE DEF t
<1>3. k = Len(c) + 1
  <2>1. ASSUME k # Len(c) + 1 PROVE FALSE
    <3>1. Len(c) + 1 \in k + 1..Len(t)
      BY <1>1, <1>2, <2>1
    <3>2. RightAnswer(x, n + (Len(c) + 1) - k) \/ x.part = "plaintext"
      BY <1>1, <1>2, <3>1
    <3> QED BY <3>2 DEF RightAnswer, IsResponse, FlightParts
  <2> QED BY <2>1
<1>4. \A i \in 1..Len(c) : c[i].part \in FlightParts
  BY <1>1, <1>2, <1>3
<1>5. Len(c) \in 0..Len(c) /\ \A i \in Len(c) + 1..Len(c) : FALSE
  BY <1>1
<1> QED BY <1>3, <1>4, <1>5 DEF Answers

LEMMA OutIsSeq == ASSUME Sequenced
                  PROVE  /\ Pending \in Seq(Item) /\ Out \in Seq(Item) /\ toClient \in Seq(Item)
                         /\ Len(Out) \in Nat /\ Len(received) \in Nat
                         /\ Pending = <<>> => Out = toClient
<1>1. Pending \in Seq(Item) /\ toClient \in Seq(Item) /\ received \in Seq(Item)
  BY EmptySeq DEF Sequenced, Pending
<1>2. Out \in Seq(Item)
  BY <1>1, ConcatProperties DEF Out
<1>3. Pending = <<>> => Out = toClient
  BY <1>1, ConcatEmptySeq DEF Out
<1> QED BY <1>1, <1>2, <1>3, LenProperties

LEMMA NumbersTyped == ASSUME TypeOK PROVE /\ read \in Nat /\ sent \in Nat /\ parsed \in Nat
                                          /\ read <= sent /\ sent <= Pieces /\ parsed <= read
                                          /\ read \in 0..Pieces
BY EndsArePieces DEF TypeOK

LEMMA LastFlightIs ==
  \E x \in Item : x.part \in FlightParts /\ x.request = 0 /\ LastFlight \in {<<>>, <<x>>}
<1>1. \A f \in FlightParts : /\ Flight(f) \in Item /\ Flight(f).part \in FlightParts
                            /\ Flight(f).request = 0
  BY DEF Flight, Response, Item, Parts, FlightParts
<1> QED BY <1>1 DEF LastFlight, FlightParts

\* What is on its way when nothing is pending, or no longer.
LEMMA WithoutPending ==
  ASSUME Inv, ~torn
  PROVE  \E k \in 0..Len(toClient) : OnTheirWay(toClient, k)
<1>1. Sequenced /\ writeBio \in {<<>>, LastFlight}
  BY DEF Inv, TypeOK
<1>2. /\ Out \in Seq(Item) /\ toClient \in Seq(Item) /\ Len(toClient) \in Nat
      /\ Len(received) \in Nat /\ (Pending = <<>> => Out = toClient)
  BY <1>1, OutIsSeq, LenProperties
<1>3. PICK k \in 0..Len(Out) : OnTheirWay(Out, k)
  BY DEF Inv, InStep
<1>4. CASE Pending = <<>>
  BY <1>2, <1>3, <1>4
<1>5. CASE Pending # <<>>
  <2>1. PICK x \in Item : x.part \in FlightParts /\ LastFlight \in {<<>>, <<x>>}
    BY LastFlightIs
  <2>2. connected /\ Pending = <<x>>
    BY <1>1, <1>5, <2>1 DEF Pending
  <2>3. Out = Append(toClient, x)
    BY <1>2, <2>2, AppendIsConcat DEF Out
  <2>4. k = Len(toClient) + 1 /\ Answers(toClient, Len(toClient), Len(received))
    BY <1>2, <1>3, <2>1, <2>3, FlightDropped DEF OnTheirWay
  <2>5. /\ Len(Out) = Len(toClient) + 1 /\ DOMAIN toClient = 1..Len(toClient)
        /\ DOMAIN Out = 1..Len(toClient) + 1
        /\ \A i \in 1..Len(toClient) : Out[i] = toClient[i]
    BY <1>2, <2>3, AppendProperties, LenProperties
  <2>6. \A i \in DOMAIN toClient : toClient[i].part # "plaintext"
    <3> SUFFICES ASSUME NEW i \in DOMAIN toClient, toClient[i].part = "plaintext" PROVE FALSE
      OBVIOUS
    <3>1. i \in DOMAIN Out /\ Out[i].part = "plaintext"
      BY <1>2, <2>5
    <3> QED BY <1>3, <2>2, <3>1 DEF OnTheirWay
  <2>7. received = <<>>
    BY <1>2, <1>3, <2>4 DEF OnTheirWay
  <2>8. Nth(read) = Len(received) + Len(toClient) - Len(toClient)
    BY <1>2, <1>3, <2>2, <2>4, <2>5 DEF OnTheirWay
  <2>9. OnTheirWay(toClient, Len(toClient))
    BY <2>4, <2>6, <2>7, <2>8 DEF OnTheirWay
  <2> QED BY <1>2, <2>9
<1> QED BY <1>4, <1>5

LEMMA GivenUpStays ==
  ASSUME stream' = stream, read \in Nat, read' \in Nat, read <= read', NEW m, GivenUp(m)
  PROVE  \E p \in 1..read' : Refused(p)' /\ m = Nth(p - 1)
<1>1. PICK p \in 1..read : Refused(p) /\ m = Nth(p - 1)
  BY DEF GivenUp
<1>2. p \in 1..read'
  BY <1>1
<1>3. Refused(p)'
  BY <1>1 DEF Refused
<1> QED BY <1>1, <1>2, <1>3

-----------------------------------------------------------------------------
(* The order of responses.                                                 *)
LEMMA RisingAppended ==
  ASSUME NEW a \in Seq(Item), NEW b \in Seq(Item), NEW x \in Item, Rising(a, b),
         \A i \in DOMAIN a : Below(a[i], x), \A i \in DOMAIN b : Below(b[i], x)
  PROVE  Rising(a, Append(b, x))
<1> DEFINE t == Append(b, x)
<1>1. /\ Len(b) \in Nat /\ DOMAIN b = 1..Len(b) /\ DOMAIN t = 1..Len(b) + 1
      /\ t[Len(b) + 1] = x /\ \A i \in 1..Len(b) : t[i] = b[i]
  BY LenProperties, AppendProperties
<1> HIDE DEF t
<1>2. \A i \in DOMAIN t : (i \in DOMAIN b /\ t[i] = b[i]) \/ (i = Len(b) + 1 /\ t[i] = x)
  BY <1>1
<1>3. \A i, j \in DOMAIN t : i < j => i \in DOMAIN b /\ t[i] = b[i]
  BY <1>1
<1>4. \A i, j \in DOMAIN t : i < j => Below(t[i], t[j])
  BY <1>2, <1>3 DEF Rising
<1>5. \A i \in DOMAIN a, j \in DOMAIN t : Below(a[i], t[j])
  BY <1>2 DEF Rising
<1> QED BY <1>4, <1>5 DEF Rising, t

LEMMA RisingTaken ==
  ASSUME NEW a \in Seq(Item), NEW b \in Seq(Item), b # <<>>, Rising(a, b)
  PROVE  Rising(a, Tail(b)) /\ Rising(Append(a, Head(b)), Tail(b))
<1> DEFINE t == Tail(b)
           x == Head(b)
           c == Append(a, x)
<1>1. /\ Len(b) \in Nat /\ Len(b) >= 1 /\ DOMAIN b = 1..Len(b) /\ x \in Item /\ x = b[1]
      /\ DOMAIN t = 1..Len(b) - 1 /\ \A i \in 1..Len(b) - 1 : t[i] = b[i + 1]
  <2>1. Len(b) \in Nat /\ Len(b) >= 1 /\ DOMAIN b = 1..Len(b)
    BY LenProperties, EmptySeq
  <2>2. /\ x \in Item /\ t \in Seq(Item) /\ Len(t) = Len(b) - 1
        /\ \A i \in 1..Len(t) : t[i] = b[i + 1]
    BY HeadTailProperties
  <2>3. DOMAIN t = 1..Len(t)
    BY <2>2, LenProperties
  <2> QED BY <2>1, <2>2, <2>3
<1>2. /\ Len(a) \in Nat /\ DOMAIN a = 1..Len(a) /\ DOMAIN c = 1..Len(a) + 1
      /\ c[Len(a) + 1] = x /\ \A i \in 1..Len(a) : c[i] = a[i]
  BY <1>1, LenProperties, AppendProperties
<1> HIDE DEF t, x, c
<1>3. \A i \in DOMAIN t : i + 1 \in DOMAIN b /\ t[i] = b[i + 1] /\ 1 < i + 1 /\ i \in Int
  BY <1>1
<1>4. 1 \in DOMAIN b /\ \A i, j \in DOMAIN t : i < j => i + 1 < j + 1
  BY <1>1, <1>3
<1>5. \A i, j \in DOMAIN t : i < j => Below(t[i], t[j])
  BY <1>3, <1>4 DEF Rising
<1>6. \A i \in DOMAIN a, j \in DOMAIN t : Below(a[i], t[j])
  BY <1>3 DEF Rising
<1>7. \A i \in DOMAIN c : (i \in DOMAIN a /\ c[i] = a[i]) \/ (i = Len(a) + 1 /\ c[i] = x)
  BY <1>2
<1>8. \A i, j \in DOMAIN c : i < j => i \in DOMAIN a /\ c[i] = a[i]
  BY <1>2
<1>9. \A i \in DOMAIN a : Below(a[i], x)
  BY <1>1, <1>4 DEF Rising
<1>10. \A j \in DOMAIN t : Below(x, t[j])
  BY <1>1, <1>3, <1>4 DEF Rising
<1>11. \A i, j \in DOMAIN c : i < j => Below(c[i], c[j])
  BY <1>7, <1>8, <1>9 DEF Rising
<1>12. \A i \in DOMAIN c, j \in DOMAIN t : Below(c[i], t[j])
  BY <1>6, <1>7, <1>10
<1> QED BY <1>5, <1>6, <1>11, <1>12 DEF Rising, t, x, c

\* The server reads on; nothing becomes better.
Onwards == /\ stream' = stream
           /\ read \in Nat /\ read' \in Nat /\ read <= read'
           /\ garbled' \in {garbled, TRUE} /\ (torn => torn')

LEMMA SoundStays ==
  ASSUME Onwards
  PROVE  \A x \in Item : Sound(x) => Sound(x)'
<1> TAKE x \in Item
<1> HAVE Sound(x)
<1>1. x.request \in Int
  BY EndsArePieces DEF Item
<1>2. x.request <= read'
  BY <1>1 DEF Onwards, Sound
<1>3. Served(x.request) => Served(x.request)'
  BY DEF Onwards, Served
<1>4. IsResponse(x) /\ ~garbled' => x.request > 0
  BY DEF Onwards, Sound
<1>5. IsResponse(x) /\ ~torn' => Served(x.request)'
  BY <1>3 DEF Onwards, Sound
<1> QED BY <1>2, <1>4, <1>5 DEF Sound, IsResponse

LEMMA AllSoundStays ==
  ASSUME Onwards, NEW s \in Seq(Item), AllSound(s)
  PROVE  AllSound(s)'
<1>1. \A i \in DOMAIN s : s[i] \in Item /\ Sound(s[i])
  BY ElementOfSeq, LenProperties DEF AllSound
<1>2. \A i \in DOMAIN s : Sound(s[i])'
  BY <1>1, SoundStays
<1> QED BY <1>2 DEF AllSound

LEMMA InOrderStays ==
  ASSUME InOrder, Sequenced, Onwards, received' = received, toClient' = toClient
  PROVE  InOrder'
<1>1. PICK a \in Seq(Item), b \in Seq(Item) : a = received /\ b = toClient
  BY DEF Sequenced
<1>2. AllSound(a)' /\ AllSound(b)'
  BY <1>1, AllSoundStays DEF InOrder
<1>3. AllSound(received)' /\ AllSound(toClient)'
  BY <1>1, <1>2 DEF AllSound, Sound, Served
<1> QED BY <1>3 DEF InOrder

-----------------------------------------------------------------------------
(* The client.                                                             *)

\* A record more is on its way to the server.
LEMMA RecordSent ==
  ASSUME Inv, NEW r \in RecordType, toServer' = Append(toServer, r),
         UNCHANGED <<read, state, ssl, readBio>>,
         \/ r.type # "data" /\ sent' = sent
         \/ r.type = "data" /\ r.piece = sent + 1 /\ sent' = sent + 1
  PROVE  toServer' \in Seq(RecordType) /\ (Alive => Ordered(Incoming, read, sent))'
<1>1. /\ toServer \in Seq(RecordType) /\ readBio \in Seq(RecordType)
      /\ read \in Nat /\ sent \in Nat /\ read <= sent
  BY NumbersTyped DEF Inv, Sequenced
<1>2. Incoming' = Append(Incoming, r) /\ Incoming \in Seq(RecordType)
  BY <1>1, AppendedBehind, ConcatProperties DEF Incoming
<1>3. toServer' \in Seq(RecordType)
  BY <1>1, AppendProperties
<1>4. ASSUME Alive'
      PROVE  Ordered(Incoming', read', sent')
  <2>1. Ordered(Incoming, read, sent)
    BY <1>4 DEF Inv, Alive
  <2> QED BY <1>1, <1>2, <2>1, OrderedAppended
<1> QED BY <1>3, <1>4

LEMMA WayStays ==
  ASSUME UNCHANGED <<stream, read, received, connected>>, NEW out, out = Out', NEW k,
         OnTheirWay(out, k)
  PROVE  OnTheirWay(Out, k)'
<1>1. \A i \in DOMAIN out : out[i].part = "plaintext" =>
        i = Len(out) /\ ~connected /\ GivenUp(Len(received) + Len(out) - 1 - k)
  BY DEF OnTheirWay
<1>2. \A m : GivenUp(m) => GivenUp(m)'
  BY DEF GivenUp, Refused
<1>3. GivenUp(Len(received) + Len(out) - 1 - k) => GivenUp(Len(received) + Len(Out) - 1 - k)'
  BY DEF GivenUp, Refused
<1>4. Nth(read)' = Nth(read)
  BY DEF Nth, UpTo
<1> QED BY <1>1, <1>3, <1>4 DEF OnTheirWay

LEMMA ClientSpeaks ==
  ASSUME Inv, ClientHello \/ ClientSend \/ ClientSendsBad
  PROVE  Inv'
<1>1. PICK r \in RecordType :
        /\ toServer' = Append(toServer, r)
        /\ \/ r.type # "data" /\ sent' = sent
           \/ r.type = "data" /\ r.piece = sent + 1 /\ sent' = sent + 1 /\ sent + 1 <= Pieces
  <2>1. CASE ClientHello
    <3>1. Record("hello") \in RecordType /\ Record("hello").type # "data"
      BY EndsArePieces DEF Record, RecordType
    <3> QED BY <2>1, <3>1 DEF ClientHello
  <2>2. CASE ClientSend
    <3>1. sent' = sent + 1 /\ sent + 1 \in 0..Pieces /\ sent + 1 <= Pieces
      BY <2>2, NumbersTyped, EndsArePieces DEF ClientSend, Inv
    <3>2. Data(sent + 1) \in RecordType /\ Data(sent + 1).type = "data" /\ Data(sent + 1).piece = sent + 1
      BY <3>1 DEF Data, RecordType
    <3>3. toServer' = Append(toServer, Data(sent + 1))
      BY <2>2, <3>1 DEF ClientSend
    <3> QED BY <3>1, <3>2, <3>3
  <2>3. CASE ClientSendsBad
    <3>1. Record("bad") \in RecordType /\ Record("bad").type # "data"
      BY EndsArePieces DEF Record, RecordType
    <3> QED BY <2>3, <3>1 DEF ClientSendsBad
  <2> QED BY <2>1, <2>2, <2>3
<1>2. /\ UNCHANGED <<kind, stream, received, toClient, state, ssl, readBio, writeBio, connected, read,
                     parsed, garbled, torn>>
      /\ client' \in {client, "waiting"} /\ badSent' \in {badSent, TRUE}
  BY DEF ClientHello, ClientSend, ClientSendsBad, httpVars
<1>3. toServer' \in Seq(RecordType) /\ (Alive => Ordered(Incoming, read, sent))'
  BY <1>1, <1>2, RecordSent
<1>9. Out' = Out /\ (Alive' <=> Alive) /\ \A m : GivenUp(m)' <=> GivenUp(m)
  BY <1>2 DEF Out, Pending, Alive, GivenUp, Refused
<1>4. read' \in 0..sent' /\ sent' \in 0..Pieces /\ parsed' \in 0..read'
  BY <1>1, <1>2, NumbersTyped DEF Inv
<1>5. LastFlight' = LastFlight
  BY <1>2 DEF LastFlight
<1>6. TypeOK'
  BY <1>2, <1>4, <1>5 DEF Inv, TypeOK
<1>7. Sequenced' /\ Handshaking' /\ (connected => Alive)'
  BY <1>2, <1>3, <1>9 DEF Inv, Sequenced, Handshaking
<1>8. InStep'
  <2> SUFFICES ASSUME ~torn PROVE InStep'
    BY <1>2 DEF InStep
  <2>1. PICK k \in 0..Len(Out) : OnTheirWay(Out, k)
    BY DEF Inv, InStep
  <2>2. OnTheirWay(Out, k)'
    BY <1>2, <1>9, <2>1, WayStays
  <2>3. /\ connected' => ~garbled' /\ parsed' = read' /\ Undisturbed(read)'
        /\ \A i \in DOMAIN received' : RightAnswer(received'[i], i)
    BY <1>2 DEF Inv, InStep, Undisturbed
  <2>4. client' = "broken" => ~connected' /\ Out' = <<>> /\ GivenUp(Len(received))'
    <3>1. client' = "broken" => client = "broken"
      BY <1>2
    <3>2. client = "broken" => ~connected /\ Out = <<>> /\ GivenUp(Len(received))
      BY DEF Inv, InStep
    <3>3. GivenUp(Len(received)) => GivenUp(Len(received))'
      BY <1>2 DEF GivenUp, Refused
    <3> QED BY <1>2, <1>9, <3>1, <3>2, <3>3
  <2> QED BY <1>9, <2>1, <2>2, <2>3, <2>4 DEF InStep
<1>10. InOrder'
  <2>1. Onwards
    BY <1>2, NumbersTyped DEF Inv, Onwards
  <2> QED BY <1>2, <2>1, InOrderStays DEF Inv
<1> QED BY <1>3, <1>6, <1>7, <1>8, <1>10 DEF Inv

LEMMA TailShifted ==
  ASSUME Sequenced, toClient # <<>>, toClient' = Tail(toClient), UNCHANGED <<writeBio, connected>>
  PROVE  /\ toClient' \in Seq(Item) /\ Out' \in Seq(Item) /\ Shifted(Out', Out, 1)
         /\ Out[1] = Head(toClient) /\ Head(toClient) \in Item
<1> DEFINE L == Len(toClient)
           w == Pending
           W == Len(w)
           tail == Tail(toClient)
           new == tail \o w
<1>0. w \in Seq(Item) /\ Pending' = w
  BY OutIsSeq DEF Pending
<1>1. L \in Nat /\ W \in Nat /\ L >= 1
  BY <1>0, LenProperties, EmptySeq DEF Sequenced
<1>2. /\ Head(toClient) \in Item /\ tail \in Seq(Item) /\ Len(tail) = L - 1
      /\ \A i \in 1..Len(tail) : tail[i] = toClient[i + 1]
  BY HeadTailProperties DEF Sequenced
<1>3. Head(toClient) = toClient[1]
  BY <1>1 DEF Sequenced
<1>4. /\ Out \in Seq(Item) /\ Len(Out) = L + W
      /\ \A i \in 1..L + W : Out[i] = IF i <= L THEN toClient[i] ELSE w[i - L]
  BY <1>0, ConcatProperties DEF Sequenced, Out
<1> HIDE DEF tail, w
<1>5. /\ new \in Seq(Item) /\ Len(new) = Len(tail) + W
      /\ \A i \in 1..Len(tail) + W : new[i] = IF i <= Len(tail) THEN tail[i] ELSE w[i - Len(tail)]
  BY <1>0, <1>2, ConcatProperties
<1>6. Out' = new
  BY <1>0 DEF Out, tail
<1> HIDE DEF L, W, new
<1>7. Out[1] = toClient[1]
  BY <1>1, <1>4
<1>8. ASSUME NEW i \in 1..Len(new) PROVE i + 1 \in 1..Len(Out) /\ new[i] = Out[i + 1]
  <2>1. i \in Nat /\ 1 <= i /\ i <= L - 1 + W
    BY <1>1, <1>2, <1>5
  <2>2. i + 1 \in 1..L + W
    BY <1>1, <2>1
  <2>3. CASE i <= L - 1
    <3>1. new[i] = tail[i] /\ tail[i] = toClient[i + 1]
      BY <1>1, <1>2, <1>5, <2>1, <2>3
    <3>2. Out[i + 1] = toClient[i + 1]
      BY <1>1, <1>4, <2>1, <2>2, <2>3
    <3> QED BY <1>4, <2>2, <3>1, <3>2
  <2>4. CASE ~(i <= L - 1)
    <3>1. new[i] = w[i - (L - 1)] /\ ~(i + 1 <= L)
      BY <1>1, <1>2, <1>5, <2>1, <2>4
    <3>2. Out[i + 1] = w[i + 1 - L] /\ i + 1 - L = i - (L - 1)
      BY <1>1, <1>4, <2>1, <2>2, <3>1
    <3> QED BY <1>4, <2>2, <3>1, <3>2
  <2> QED BY <2>3, <2>4
<1>9. Shifted(new, Out, 1)
  BY <1>1, <1>2, <1>4, <1>5, <1>8 DEF Shifted
<1> QED BY <1>2, <1>3, <1>5, <1>6, <1>7, <1>9 DEF tail

\* What arrives is a flight, or the response that comes next.
LEMMA ClientReceiveKeeps ==
  ASSUME Inv, ClientReceive
  PROVE  Inv'
<1> DEFINE item == Head(toClient)
<1>1. /\ toClient # <<>> /\ toClient' = Tail(toClient)
      /\ UNCHANGED <<kind, stream, sent, badSent, state, ssl, readBio, writeBio, connected, read,
                     parsed, garbled, torn>>
  BY DEF ClientReceive, httpVars
<1>2. \/ /\ item.part \in FlightParts /\ received' = received /\ client' \in {client, "finished", "open"}
         /\ toServer' = toServer \/ toServer' = Append(toServer, Record("finish"))
      \/ /\ item.part \in {"whole", "beginning"} /\ received' = Append(received, item)
         /\ client' = client /\ toServer' = toServer
      \/ /\ item.part = "plaintext" /\ received' = received /\ client' = "broken" /\ toServer' = toServer
  BY DEF ClientReceive, FlightParts
<1>3. Sequenced
  BY DEF Inv
<1>4. /\ toClient' \in Seq(Item) /\ Out' \in Seq(Item) /\ Shifted(Out', Out, 1)
      /\ Out[1] = item /\ item \in Item
  BY <1>1, <1>3, TailShifted
<1> HIDE DEF item
<1>5. toServer' \in Seq(RecordType) /\ (Alive => Ordered(Incoming, read, sent))'
  <2>1. CASE toServer' = toServer
    <3>1. Incoming' = Incoming
      BY <1>1, <2>1 DEF Incoming
    <3> QED BY <1>1, <2>1, <3>1 DEF Inv, Sequenced, Alive
  <2>2. CASE toServer' = Append(toServer, Record("finish"))
    <3>1. Record("finish") \in RecordType /\ Record("finish").type # "data"
      BY EndsArePieces DEF Record, RecordType
    <3> QED BY <1>1, <2>2, <3>1, RecordSent
  <2> QED BY <1>2, <2>1, <2>2
<1>6. received' \in Seq(Item)
  <2>1. received \in Seq(Item) /\ Append(received, item) \in Seq(Item)
    BY <1>3, <1>4, AppendProperties DEF Sequenced
  <2> QED BY <1>2, <2>1
<1>7. LastFlight' = LastFlight
  BY <1>1 DEF LastFlight
<1>8. TypeOK'
  BY <1>1, <1>2, <1>7 DEF Inv, TypeOK
<1>9. Sequenced' /\ Handshaking' /\ (connected => Alive)'
  BY <1>1, <1>4, <1>5, <1>6 DEF Inv, Sequenced, Handshaking, Alive
<1>10. ASSUME ~torn
       PROVE  /\ client' = "broken" => ~connected' /\ Out' = <<>> /\ GivenUp(Len(received))'
              /\ \A i \in DOMAIN received' : RightAnswer(received'[i], i)
              /\ \E k \in 0..Len(Out') : OnTheirWay(Out, k)'
  <2>1. PICK k \in 0..Len(Out) : OnTheirWay(Out, k)
    BY <1>10 DEF Inv, InStep
  <2>2. /\ client = "broken" => Out = <<>>
        /\ \A i \in DOMAIN received : RightAnswer(received[i], i)
    BY <1>10 DEF Inv, InStep
  <2>3. /\ Len(Out) \in Nat /\ Len(received) \in Nat /\ Len(Out') = Len(Out) - 1 /\ Out \in Seq(Item)
        /\ DOMAIN received = 1..Len(received) /\ Len(Out) >= 1
        /\ DOMAIN Out = 1..Len(Out) /\ DOMAIN Out' = 1..Len(Out')
        /\ \A i \in 1..Len(Out') : i + 1 \in 1..Len(Out) /\ Out'[i] = Out[i + 1]
    BY <1>3, <1>4, OutIsSeq, LenProperties DEF Shifted, Sequenced
  <2>4. /\ k > 0 => item.part \in FlightParts /\ Answers(Out', k - 1, Len(received))
        /\ k = 0 => /\ RightAnswer(item, Len(received) + 1) \/ item.part = "plaintext"
                    /\ Answers(Out', 0, Len(received) + 1)
    BY <1>4, <2>1, <2>3, FirstTaken DEF OnTheirWay
  <2>5. client # "broken"
    <3>1. Out # <<>>
      BY <2>3
    <3> QED BY <2>2, <3>1
  <2>6. PICK m : m = Len(received) + Len(Out) - 1 - k
    OBVIOUS
  <2>7. \A i \in 1..Len(Out) : Out[i].part = "plaintext" => i = Len(Out) /\ ~connected /\ GivenUp(m)
    BY <2>1, <2>3, <2>6 DEF OnTheirWay
  <2>8. GivenUp(m) => \E p \in 1..read' : Refused(p)' /\ m = Nth(p - 1)
    BY <1>1, GivenUpStays, NumbersTyped DEF Inv
  <2>9. \A i \in 1..Len(Out') : Out'[i].part = "plaintext" => i = Len(Out') /\ ~connected' /\ GivenUp(m)
    BY <1>1, <2>3, <2>7
  <2>10. Nth(read)' = Nth(read)
    BY <1>1 DEF Nth, UpTo
  <2>11. CASE k > 0
    <3>1. received' = received /\ client' # "broken" /\ received = <<>>
      BY <1>2, <2>1, <2>4, <2>5, <2>11 DEF FlightParts, OnTheirWay
    <3>2. k - 1 \in 0..Len(Out') /\ m = Len(received) + Len(Out') - 1 - (k - 1)
      BY <2>3, <2>6, <2>11
    <3>3. connected => Nth(read) = Len(received) + Len(Out') - (k - 1)
      BY <2>1, <2>3 DEF OnTheirWay
    <3>4. GivenUp(m) => GivenUp(Len(received) + Len(Out) - 1 - (k - 1))'
      BY <2>8, <3>1, <3>2 DEF GivenUp
    <3>5. OnTheirWay(Out, k - 1)'
      BY <1>1, <2>3, <2>4, <2>9, <2>10, <2>11, <3>1, <3>3, <3>4 DEF OnTheirWay
    <3> QED BY <2>2, <3>1, <3>2, <3>5
  <2>12. CASE k = 0 /\ item.part # "plaintext"
    <3>1. received' = Append(received, item) /\ client' # "broken" /\ RightAnswer(item, Len(received) + 1)
      BY <1>2, <2>4, <2>5, <2>12 DEF FlightParts, RightAnswer, IsResponse
    <3>2. /\ Len(received') = Len(received) + 1 /\ DOMAIN received' = 1..Len(received')
          /\ received'[Len(received) + 1] = item
          /\ \A i \in 1..Len(received) : received'[i] = received[i]
      BY <1>3, <1>4, <1>6, <3>1, AppendProperties, LenProperties DEF Sequenced
    <3>3. \A i \in DOMAIN received' : i \in DOMAIN received \/ i = Len(received) + 1
      BY <2>3, <3>2
    <3>4. \A i \in DOMAIN received' : RightAnswer(received'[i], i)
      BY <2>2, <2>3, <3>1, <3>2, <3>3
    <3>5. /\ connected => Nth(read) = Len(received') + Len(Out') - 0
          /\ m = Len(received') + Len(Out') - 1 - 0
      BY <2>1, <2>3, <2>6, <2>12, <3>2 DEF OnTheirWay
    <3>6. 0 \in 0..Len(Out')
      BY <2>3
    <3>7. GivenUp(m) => GivenUp(Len(received) + Len(Out) - 1 - 0)'
      BY <2>8, <3>5 DEF GivenUp
    <3>8. Answers(Out', 0, Len(received')) /\ DOMAIN Out' = 1..Len(Out')
      BY <2>3, <2>4, <2>12, <3>2
    <3>9. \A i \in DOMAIN Out' : Out'[i].part = "plaintext" =>
            i = Len(Out') /\ ~connected' /\ GivenUp(Len(received) + Len(Out) - 1 - 0)'
      BY <2>9, <3>7, <3>8
    <3>10. connected' => Nth(read)' = Len(received') + Len(Out') - 0
      BY <1>1, <2>10, <3>5
    <3>11. OnTheirWay(Out, 0)'
      BY <3>8, <3>9, <3>10 DEF OnTheirWay
    <3> QED BY <3>1, <3>4, <3>6, <3>11
  <2>13. CASE k = 0 /\ item.part = "plaintext"
    <3>1. received' = received
      BY <1>2, <2>13 DEF FlightParts
    <3>2. 1 \in 1..Len(Out) /\ Out[1].part = "plaintext"
      BY <1>4, <2>3, <2>13
    <3>3. 1 = Len(Out) /\ ~connected /\ GivenUp(m)
      BY <2>7, <3>2
    <3>4. Len(Out') = 0 /\ m = Len(received) /\ 0 \in 0..Len(Out')
      <4>1. Len(Out) = 1 /\ Len(Out') = Len(Out) - 1 /\ Len(received) \in Nat
        BY <2>3, <3>3
      <4>2. m = Len(received) + Len(Out) - 1 - 0
        BY <2>6, <2>13
      <4> QED BY <4>1, <4>2
    <3>5. Out' = <<>>
      BY <1>4, <3>4, NotEmpty
    <3>6. GivenUp(Len(received))'
      BY <2>8, <3>1, <3>3, <3>4 DEF GivenUp
    <3>7. Answers(<<>>, 0, Len(received))
      BY DEF Answers
    <3>8. OnTheirWay(Out, 0)'
      BY <1>1, <3>1, <3>3, <3>5, <3>7 DEF OnTheirWay
    <3> QED BY <1>1, <2>2, <3>1, <3>3, <3>4, <3>5, <3>6, <3>8
  <2> QED BY <2>1, <2>3, <2>11, <2>12, <2>13
<1>11. ASSUME ~torn PROVE connected' => ~garbled' /\ parsed' = read' /\ Undisturbed(read)'
  BY <1>1, <1>11 DEF Inv, InStep, Undisturbed
<1>12. InStep'
  <2>1. torn' = torn
    BY <1>1
  <2> QED BY <1>10, <1>11, <2>1 DEF InStep
<1>13. InOrder'
  <2>1. Onwards
    BY <1>1, NumbersTyped DEF Inv, Onwards
  <2>2. \A x \in Item : Sound(x) => Sound(x)'
    BY <2>1, SoundStays
  <2>3. received \in Seq(Item) /\ toClient \in Seq(Item) /\ Rising(received, toClient)
    BY <1>3 DEF Inv, InOrder, Sequenced
  <2>4. Rising(received, toClient') /\ Rising(Append(received, item), toClient')
    BY <1>1, <2>3, RisingTaken DEF item
  <2>5. /\ DOMAIN toClient' = 1..Len(toClient) - 1 /\ Len(toClient) \in Nat
        /\ DOMAIN toClient = 1..Len(toClient) /\ Len(toClient) >= 1 /\ item = toClient[1]
        /\ \A i \in 1..Len(toClient) - 1 : toClient'[i] = toClient[i + 1]
    <3>1. Len(toClient) \in Nat /\ DOMAIN toClient = 1..Len(toClient) /\ Len(toClient) >= 1
      BY <1>1, <2>3, LenProperties, EmptySeq
    <3>2. /\ Tail(toClient) \in Seq(Item) /\ Len(Tail(toClient)) = Len(toClient) - 1
          /\ \A i \in 1..Len(Tail(toClient)) : Tail(toClient)[i] = toClient[i + 1]
      BY <1>1, <2>3, HeadTailProperties
    <3>3. DOMAIN toClient' = 1..Len(toClient) - 1
      BY <1>1, <3>2, LenProperties
    <3>4. item = toClient[1]
      BY <2>3, <3>1 DEF item
    <3> QED BY <1>1, <3>1, <3>2, <3>3, <3>4
  <2>6. \A i \in DOMAIN toClient : toClient[i] \in Item /\ Sound(toClient[i])
    BY <2>3, <2>5, ElementOfSeq DEF Inv, InOrder, AllSound
  <2>7. PICK t : t = toClient'
    OBVIOUS
  <2>8. AllSound(t)
    BY <2>5, <2>6, <2>7 DEF AllSound
  <2>9. AllSound(t)'
    BY <1>4, <2>1, <2>7, <2>8, AllSoundStays
  <2>10. PICK a : a = received'
    OBVIOUS
  <2>11. AllSound(a) /\ \A i \in DOMAIN a : IsResponse(a[i])
    <3>1. AllSound(received) /\ \A i \in DOMAIN received : IsResponse(received[i])
      BY DEF Inv, InOrder
    <3>2. CASE received' = received
      BY <2>10, <3>1, <3>2
    <3>3. CASE received' = Append(received, item) /\ item.part \in {"whole", "beginning"}
      <4>1. \A i \in DOMAIN a : (i \in DOMAIN received /\ a[i] = received[i]) \/ a[i] = item
        BY <1>4, <2>3, <2>10, <3>3, AppendProperties, LenProperties
      <4>2. Sound(item) /\ IsResponse(item)
        <5>1. 1 \in DOMAIN toClient
          BY <2>5
        <5> QED BY <2>5, <2>6, <3>3, <5>1 DEF IsResponse
      <4> QED BY <3>1, <4>1, <4>2 DEF AllSound
    <3> QED BY <1>2, <3>2, <3>3
  <2>12. AllSound(a)'
    BY <1>6, <2>1, <2>10, <2>11, AllSoundStays
  <2>13. Rising(received', toClient')
    BY <1>2, <2>4
  <2>14. AllSound(toClient)' /\ AllSound(received)'
    BY <2>7, <2>9, <2>10, <2>12 DEF AllSound, Sound, Served
  <2> QED BY <2>10, <2>11, <2>13, <2>14 DEF InOrder
<1> QED BY <1>5, <1>8, <1>9, <1>12, <1>13 DEF Inv

-----------------------------------------------------------------------------
(* The server.                                                             *)

\* send() puts one response behind all that is on its way.
LEMMA ResponseSent ==
  ASSUME Sequenced, connected, NEW r \in RequestEnds \union {0}, send(r)
  PROVE  \E part \in {"whole", "beginning"} :
           /\ part = "beginning" => r \in Large
           /\ Response(r, part) \in Item
           /\ Out' = Append(Out, Response(r, part))
           /\ toClient' \in Seq(Item) /\ writeBio' = <<>>
<1> DEFINE part == IF r \in Large THEN "beginning" ELSE "whole"
           x == Response(r, part)
<1>1. toClient \in Seq(Item) /\ writeBio \in Seq(Item)
  BY DEF Sequenced
<1>2. x \in Item
  BY DEF Item, Response, Parts
<1>3. toClient' = toClient \o Append(writeBio, x) /\ writeBio' = <<>>
  BY DEF send, sendPendingData
<1>4. part \in {"whole", "beginning"} /\ (part = "beginning" => r \in Large)
  OBVIOUS
<1> HIDE DEF x, part
<1>5. Append(writeBio, x) \in Seq(Item)
  BY <1>1, <1>2, AppendProperties
<1>6. toClient' \in Seq(Item)
  BY <1>1, <1>3, <1>5, ConcatProperties
<1>7. Out' = toClient'
  <2>1. Pending' = <<>>
    BY <1>3 DEF Pending
  <2> QED BY <1>6, <2>1, ConcatEmptySeq DEF Out
<1>8. toClient \o Append(writeBio, x) = Append(toClient \o writeBio, x)
  BY <1>1, <1>2, AppendedBehind
<1>9. Out = toClient \o writeBio
  BY DEF Out, Pending
<1> QED BY <1>2, <1>3, <1>4, <1>6, <1>7, <1>8, <1>9 DEF x

\* The response of the one request that a chunk ends.
LEMMA ResponseInStep ==
  ASSUME Inv, ~torn, connected, received' = received, NEW r \in RequestEnds, send(r),
         Nth(r) = Nth(read) + 1, read' = r
  PROVE  \E k \in 0..Len(Out') : OnTheirWay(Out, k)'
<1>1. Sequenced
  BY DEF Inv
<1>2. PICK part \in {"whole", "beginning"} :
           /\ part = "beginning" => r \in Large
           /\ Response(r, part) \in Item
           /\ Out' = Append(Out, Response(r, part))
  BY <1>1, ResponseSent
<1>3. PICK k \in 0..Len(Out) : OnTheirWay(Out, k)
  BY DEF Inv, InStep
<1>4. /\ Out \in Seq(Item) /\ Len(Out) \in Nat /\ Len(received) \in Nat /\ Len(Out') = Len(Out) + 1
      /\ DOMAIN Out = 1..Len(Out) /\ DOMAIN Out' = 1..Len(Out) + 1
      /\ Out'[Len(Out) + 1] = Response(r, part) /\ \A i \in 1..Len(Out) : Out'[i] = Out[i]
  BY <1>1, <1>2, OutIsSeq, AppendProperties, LenProperties
<1>5. Nth(read) = Len(received) + Len(Out) - k
  BY <1>3 DEF OnTheirWay
<1>6. Nth(r) = Len(received) + Len(Out) - k + 1
  BY <1>5
<1>7. RightAnswer(Response(r, part), Len(received) + Len(Out) - k + 1)
  BY <1>2, <1>6 DEF RightAnswer, IsResponse, Response
<1>8. Answers(Out', k, Len(received))
  BY <1>2, <1>3, <1>4, <1>7, AnswerAdded DEF OnTheirWay
<1>9. k \in 0..Len(Out') /\ Len(received) + Len(Out) - k + 1 = Len(received) + Len(Out') - k
  BY <1>4
<1>10. Nth(read)' = Len(received) + Len(Out') - k
  <2>1. Nth(read)' = Nth(r)
    BY DEF Nth, UpTo
  <2> QED BY <1>6, <1>9, <2>1
<1>11. \A i \in DOMAIN Out' : Out'[i].part # "plaintext"
  <2>1. \A i \in 1..Len(Out) : Out[i].part # "plaintext"
    BY <1>3, <1>4 DEF OnTheirWay
  <2>2. Response(r, part).part # "plaintext"
    BY <1>2 DEF Response
  <2>3. \A i \in DOMAIN Out' : i \in 1..Len(Out) \/ i = Len(Out) + 1
    BY <1>4
  <2> QED BY <1>4, <2>1, <2>2, <2>3
<1>12. OnTheirWay(Out, k)'
  BY <1>3, <1>8, <1>10, <1>11 DEF OnTheirWay
<1> QED BY <1>9, <1>12

\* The 400 of the first malformed line.
LEMMA BadRequestInStep ==
  ASSUME Inv, ~torn, connected, received' = received, BadRequest,
         NEW m, m = Nth(read), \E p \in 1..read' : Refused(p)' /\ m = Nth(p - 1)
  PROVE  \E k \in 0..Len(Out') : OnTheirWay(Out, k)'
<1> DEFINE x == Flight("plaintext")
<1>1. x \in Item /\ x.part = "plaintext"
  BY DEF Flight, Response, Item, Parts
<1>2. PICK k \in 0..Len(toClient) : OnTheirWay(toClient, k)
  BY WithoutPending
<1>3. toClient \in Seq(Item) /\ Len(received) \in Nat
  BY LenProperties DEF Inv, Sequenced
<1> HIDE DEF x
<1>4. Out' = Append(toClient, x)
  <2>1. toClient' = Append(toClient, x) /\ Pending' = <<>>
    BY DEF BadRequest, Pending, x
  <2>2. Append(toClient, x) \in Seq(Item)
    BY <1>1, <1>3, AppendProperties
  <2> QED BY <2>1, <2>2, ConcatEmptySeq DEF Out
<1>5. /\ Len(toClient) \in Nat /\ Len(Out') = Len(toClient) + 1
      /\ DOMAIN toClient = 1..Len(toClient) /\ DOMAIN Out' = 1..Len(toClient) + 1
      /\ \A i \in 1..Len(toClient) : Out'[i] = toClient[i]
  BY <1>1, <1>3, <1>4, LenProperties, AppendProperties
<1>6. Answers(Out', k, Len(received))
  BY <1>1, <1>2, <1>3, <1>4, AnswerAdded DEF OnTheirWay
<1>7. m = Len(received) + Len(Out') - 1 - k
  BY <1>2, <1>3, <1>5 DEF OnTheirWay
<1>8. \A i \in DOMAIN Out' : Out'[i].part = "plaintext" => i = Len(Out')
  <2>1. \A i \in 1..Len(toClient) : toClient[i].part # "plaintext"
    BY <1>2, <1>5 DEF OnTheirWay
  <2>2. \A i \in DOMAIN Out' : i \in 1..Len(toClient) \/ i = Len(Out')
    BY <1>5
  <2> QED BY <1>5, <2>1, <2>2
<1>9. GivenUp(Len(received) + Len(Out) - 1 - k)'
  BY <1>7 DEF GivenUp
<1>10. k \in 0..Len(Out')
  BY <1>5
<1>11. ~connected'
  BY DEF BadRequest
<1>12. OnTheirWay(Out, k)'
  BY <1>2, <1>6, <1>8, <1>9, <1>11 DEF OnTheirWay
<1> QED BY <1>10, <1>12

\* The server reads on, or the connection is lost, and nothing is sent.
LEMMA NothingSent ==
  ASSUME Inv, ~torn, stream' = stream, received' = received, toClient' = toClient,
         read' \in Nat, read <= read',
         \/ connected' = FALSE
         \/ connected' = connected /\ writeBio' = writeBio /\ Nth(read') = Nth(read)
  PROVE  \E k \in 0..Len(Out') : OnTheirWay(Out, k)'
<1>0. PICK out : out = Out' /\ \E k \in 0..Len(out) : OnTheirWay(out, k)
  <2>1. Sequenced
    BY DEF Inv
  <2>2. CASE connected' = FALSE
    <3>1. Out' = toClient
      BY <2>1, <2>2, ConcatEmptySeq DEF Out, Pending, Sequenced
    <3> QED BY <3>1, WithoutPending
  <2>3. CASE connected' = connected /\ writeBio' = writeBio
    <3>1. Out' = Out
      BY <2>3 DEF Out, Pending
    <3> QED BY <3>1 DEF Inv, InStep
  <2> QED BY <2>2, <2>3
<1>1. PICK k \in 0..Len(out) : out = Out' /\ OnTheirWay(out, k)
  BY <1>0
<1>2. Nth(read)' = Nth(read')
  BY DEF Nth, UpTo
<1>3. connected' => /\ connected /\ Nth(read)' = Len(received) + Len(out) - k
                    /\ \A i \in DOMAIN out : out[i].part # "plaintext"
  BY <1>1, <1>2 DEF OnTheirWay
<1>4. PICK m : m = Len(received) + Len(out) - 1 - k
  OBVIOUS
<1>5. \A i \in DOMAIN out : out[i].part = "plaintext" => i = Len(out) /\ ~connected' /\ GivenUp(m)
  BY <1>1, <1>3, <1>4 DEF OnTheirWay
<1>6. GivenUp(m) => GivenUp(Len(received) + Len(Out) - 1 - k)'
  <2>1. GivenUp(m) => \E p \in 1..read' : Refused(p)' /\ m = Nth(p - 1)
    BY GivenUpStays, NumbersTyped DEF Inv
  <2> QED BY <1>1, <1>4, <2>1 DEF GivenUp
<1>7. OnTheirWay(Out, k)'
  BY <1>1, <1>3, <1>5, <1>6 DEF OnTheirWay
<1> QED BY <1>1, <1>7

\* A client that got plaintext gets nothing more.
LEMMA BrokenStays ==
  ASSUME Inv, ~torn, client = "broken", UNCHANGED <<stream, received, toClient>>,
         connected' => connected, read' \in Nat, read <= read'
  PROVE  ~connected' /\ Out' = <<>> /\ GivenUp(Len(received))'
<1>1. ~connected /\ Out = <<>> /\ GivenUp(Len(received)) /\ Sequenced
  BY DEF Inv, InStep
<1>2. Out' = toClient /\ Out = toClient
  BY <1>1, ConcatEmptySeq DEF Out, Pending, Sequenced
<1>3. PICK m : m = Len(received)
  OBVIOUS
<1>4. \E p \in 1..read' : Refused(p)' /\ m = Nth(p - 1)
  BY <1>1, <1>3, GivenUpStays, NumbersTyped DEF Inv
<1>5. GivenUp(Len(received))'
  BY <1>3, <1>4 DEF GivenUp
<1> QED BY <1>1, <1>2, <1>5

\* One item more is on its way: a response behind those of earlier requests, or anything else.
LEMMA ItemInOrder ==
  ASSUME InOrder, NEW a \in Seq(Item), NEW b \in Seq(Item), a = received, NEW x \in Item,
         Rising(a, b), AllSound(b), x.request = 0 \/ (~garbled /\ read < x.request), read \in Nat
  PROVE  Rising(a, Append(b, x))
<1>1. \A y \in Item : Sound(y) => Below(y, x)
  <2> TAKE y \in Item
  <2> HAVE Sound(y)
  <2>1. y.request \in Nat /\ x.request \in Nat
    BY EndsArePieces DEF Item
  <2>2. CASE x.request = 0
    BY <2>2 DEF Below
  <2>3. CASE ~garbled /\ read < x.request
    <3>1. y.request <= read /\ (IsResponse(y) => y.request > 0)
      BY <2>3 DEF Sound
    <3> QED BY <2>1, <2>3, <3>1 DEF Below
  <2> QED BY <2>2, <2>3
<1>2. \A i \in DOMAIN a : Below(a[i], x)
  BY <1>1, ElementOfSeq, LenProperties DEF InOrder, AllSound
<1>3. \A i \in DOMAIN b : Below(b[i], x)
  BY <1>1, ElementOfSeq, LenProperties DEF AllSound
<1> QED BY <1>2, <1>3, RisingAppended

LEMMA AllSoundAppended ==
  ASSUME NEW s \in Seq(Item), NEW x \in Item, AllSound(s), Sound(x)
  PROVE  AllSound(Append(s, x))
<1> DEFINE t == Append(s, x)
<1>1. /\ Len(s) \in Nat /\ DOMAIN s = 1..Len(s) /\ DOMAIN t = 1..Len(s) + 1
      /\ t[Len(s) + 1] = x /\ \A i \in 1..Len(s) : t[i] = s[i]
  BY LenProperties, AppendProperties
<1> HIDE DEF t
<1>2. \A i \in DOMAIN t : (i \in DOMAIN s /\ t[i] = s[i]) \/ t[i] = x
  BY <1>1
<1> QED BY <1>2 DEF AllSound, t

\* The same, when it is sent.
LEMMA SentInOrder ==
  ASSUME Inv, Onwards, received' = received, NEW b \in Seq(Item), Rising(received, b), AllSound(b),
         NEW x \in Item, x.request = 0 \/ (~garbled /\ read < x.request), Sound(x)',
         toClient' = Append(b, x)
  PROVE  InOrder'
<1>1. InOrder /\ read \in Nat /\ received \in Seq(Item)
  BY NumbersTyped DEF Inv, Sequenced
<1>2. PICK a \in Seq(Item) : a = received
  BY <1>1
<1>3. Rising(a, Append(b, x))
  BY <1>1, <1>2, ItemInOrder
<1>4. AllSound(a)' /\ AllSound(b)'
  BY <1>1, <1>2, AllSoundStays DEF InOrder
<1> DEFINE t == Append(b, x)
<1>5. /\ Len(b) \in Nat /\ DOMAIN b = 1..Len(b) /\ DOMAIN t = 1..Len(b) + 1
      /\ t[Len(b) + 1] = x /\ \A i \in 1..Len(b) : t[i] = b[i]
  BY LenProperties, AppendProperties
<1> HIDE DEF t
<1>6. \A i \in DOMAIN t : (i \in DOMAIN b /\ t[i] = b[i]) \/ t[i] = x
  BY <1>5
<1>7. AllSound(t)'
  BY <1>4, <1>6 DEF AllSound, Sound, Served
<1>8. toClient' = t
  BY DEF t
<1>9. AllSound(toClient)' /\ AllSound(received)'
  BY <1>2, <1>4, <1>7, <1>8 DEF AllSound, Sound, Served
<1>10. Rising(received', toClient') /\ \A i \in DOMAIN received : IsResponse(received[i])
  BY <1>1, <1>2, <1>3 DEF InOrder
<1> QED BY <1>9, <1>10 DEF InOrder

\* A response is sent, behind a flight if one is pending.
LEMMA ResponseInOrder ==
  ASSUME Inv, Onwards, received' = received, connected, NEW r \in RequestEnds \union {0}, send(r),
         r = 0 \/ (~garbled /\ read < r), r <= read', r = 0 => garbled', ~torn' => Served(r)'
  PROVE  InOrder'
<1>1. PICK x \in Item : IsResponse(x) /\ x.request = r /\ toClient' = toClient \o Append(writeBio, x)
  <2>1. PICK part \in {"whole", "beginning"} : toClient' = toClient \o Append(writeBio, Response(r, part))
    BY DEF send, sendPendingData
  <2>2. /\ Response(r, part) \in Item /\ IsResponse(Response(r, part))
        /\ Response(r, part).request = r
    BY DEF Item, Response, Parts, IsResponse
  <2> QED BY <2>1, <2>2
<1>2. PICK f \in Item : f.part \in FlightParts /\ f.request = 0 /\ writeBio \in {<<>>, <<f>>}
  BY LastFlightIs DEF Inv, TypeOK
<1>3. /\ toClient \in Seq(Item) /\ writeBio \in Seq(Item) /\ InOrder /\ read \in Nat
      /\ received \in Seq(Item) /\ Rising(received, toClient) /\ AllSound(toClient)
  BY NumbersTyped DEF Inv, Sequenced, InOrder
<1>4. toClient' = Append(toClient \o writeBio, x)
  BY <1>1, <1>3, AppendedBehind
<1>5. Sound(x)'
  <2>1. Served(x.request)' <=> Served(r)'
    BY <1>1 DEF Served
  <2>2. r # 0 => r > 0
    BY EndsArePieces
  <2> QED BY <1>1, <2>1, <2>2 DEF Sound, IsResponse
<1>6. CASE writeBio = <<>>
  <2>1. toClient' = Append(toClient, x)
    BY <1>3, <1>4, <1>6, ConcatEmptySeq
  <2> QED BY <1>1, <1>3, <1>5, <2>1, SentInOrder
<1>7. CASE writeBio = <<f>>
  <2> DEFINE b == Append(toClient, f)
  <2>1. toClient' = Append(b, x) /\ b \in Seq(Item)
    BY <1>3, <1>4, <1>7, AppendIsConcat, AppendProperties
  <2>2. Rising(received, b)
    BY <1>2, <1>3, ItemInOrder
  <2>3. Sound(f)
    BY <1>2, <1>3 DEF Sound, IsResponse, FlightParts
  <2>4. AllSound(b)
    BY <1>3, <2>3, AllSoundAppended
  <2> HIDE DEF b
  <2> QED BY <1>1, <1>5, <2>1, <2>2, <2>4, SentInOrder
<1> QED BY <1>2, <1>6, <1>7

\* A 400, or a flight.
LEMMA OtherInOrder ==
  ASSUME Inv, Onwards, received' = received, NEW x \in Item, x.request = 0, ~IsResponse(x),
         toClient' \in {toClient, Append(toClient, x)}
  PROVE  InOrder'
<1>1. /\ toClient \in Seq(Item) /\ InOrder /\ read' \in Nat /\ Sequenced
      /\ Rising(received, toClient) /\ AllSound(toClient)
  BY DEF Inv, Sequenced, InOrder, Onwards
<1>2. Sound(x)'
  BY <1>1 DEF Sound, IsResponse
<1>3. CASE toClient' = toClient
  BY <1>1, <1>3, InOrderStays
<1>4. CASE toClient' = Append(toClient, x)
  BY <1>1, <1>2, <1>4, SentInOrder
<1> QED BY <1>3, <1>4

-----------------------------------------------------------------------------
(* HttpServer::onMessage.                                                  *)
Stops(upto) == {p \in read + 1..upto : p \in RequestEnds \/ p \in stream.malformed}
Lines(upto) == {p \in read + 1..upto :
                  p \in LineEnds \ stream.malformed /\ \A q \in Stops(upto) : p <= q}
Taken(upto) == IF Lines(upto) = {} THEN read ELSE Max(Lines(upto))
Complete(upto) == Stops(upto) # {} /\ Min(Stops(upto)) \notin stream.malformed
Refuses(upto) == Stops(upto) # {} /\ Min(Stops(upto)) \in stream.malformed
ParserInStep == ~garbled /\ (read = parsed \/ (Boundary(read) /\ Boundary(parsed)))

LEMMA OnMessageUnfolded ==
  ASSUME NEW upto, onMessage(upto)
  PROVE  /\ read' = upto
         /\ \/ /\ ParserInStep /\ Refuses(upto)
               /\ garbled' = TRUE /\ BadRequest /\ UNCHANGED <<parsed, torn>>
            \/ /\ ParserInStep /\ ~Refuses(upto)
               /\ parsed' = Taken(upto)
               /\ torn' = (torn \/ Taken(upto) # upto)
               /\ UNCHANGED garbled
               /\ IF Complete(upto) THEN onRequest(Taken(upto))
                                    ELSE UNCHANGED <<toClient, writeBio, connected>>
            \/ /\ ~ParserInStep
               /\ garbled' = TRUE
               /\ UNCHANGED <<parsed, torn>>
               /\ \/ UNCHANGED <<toClient, writeBio, connected>>
                  \/ send(0) /\ connected' \in {connected, FALSE}
                  \/ BadRequest
BY DEF onMessage, Stops, Lines, Taken, Complete, Refuses, ParserInStep

\* Where the parser stops in a chunk: what is behind read, and first.
LEMMA FirstStop ==
  ASSUME TypeOK, NEW upto \in read + 1..sent
  PROVE  /\ Stops(upto) = {} => \A q \in RequestEnds \union stream.malformed : q \notin read + 1..upto
         /\ Stops(upto) # {} =>
              /\ Min(Stops(upto)) \in read + 1..upto
              /\ Min(Stops(upto)) \in RequestEnds \union stream.malformed
              /\ \A q \in RequestEnds \union stream.malformed :
                   q \in read + 1..upto => Min(Stops(upto)) <= q
<1>1. read \in Nat /\ sent \in Nat
  BY NumbersTyped
<1>2. Stops(upto) \in SUBSET Nat
  BY <1>1 DEF Stops
<1>3. ASSUME Stops(upto) # {}
      PROVE  Min(Stops(upto)) \in Stops(upto) /\ \A q \in Stops(upto) : Min(Stops(upto)) <= q
  BY <1>2, <1>3, MinIsLeast
<1> QED BY <1>3 DEF Stops

LEMMA TakenIsBetween ==
  ASSUME TypeOK, NEW upto \in read + 1..sent
  PROVE  /\ Taken(upto) \in read..upto /\ upto \in Nat
         /\ Complete(upto) => Taken(upto) = Min(Stops(upto))
<1>1. /\ read \in Nat /\ sent \in Nat /\ upto \in Nat
  BY NumbersTyped
<1>2. Lines(upto) \in SUBSET (read + 1..upto) /\ read + 1 \in Nat
  BY <1>1 DEF Lines
<1>3. ASSUME Lines(upto) # {}
      PROVE  Max(Lines(upto)) \in Lines(upto) /\ \A p \in Lines(upto) : p <= Max(Lines(upto))
  BY <1>1, <1>2, <1>3, MaxIsMember
<1>4. Taken(upto) \in read..upto
  <2>1. CASE Lines(upto) = {}
    BY <1>1, <2>1 DEF Taken
  <2>2. CASE Lines(upto) # {}
    <3>1. Taken(upto) \in read + 1..upto
      BY <1>2, <1>3, <2>2 DEF Taken
    <3> QED BY <1>1, <3>1
  <2> QED BY <2>1, <2>2
<1>5. ASSUME Complete(upto) PROVE Taken(upto) = Min(Stops(upto))
  <2> DEFINE r == Min(Stops(upto))
  <2>1. /\ r \in read + 1..upto /\ r \in RequestEnds \union stream.malformed
        /\ \A q \in RequestEnds \union stream.malformed : q \in read + 1..upto => r <= q
    BY <1>5, FirstStop DEF Complete
  <2>2. r \notin stream.malformed /\ r \in LineEnds /\ r \in Stops(upto)
    BY <1>5, <2>1, EndsArePieces DEF Complete, Stops
  <2> HIDE DEF r
  <2>3. r \in Lines(upto)
    BY <2>1, <2>2 DEF Lines, Stops
  <2>4. \A p \in Lines(upto) : p <= r
    BY <2>2 DEF Lines
  <2>5. Max(Lines(upto)) \in read + 1..upto /\ Max(Lines(upto)) <= r /\ r <= Max(Lines(upto))
    BY <1>2, <1>3, <2>3, <2>4
  <2>6. Max(Lines(upto)) = r
    BY <1>1, <2>1, <2>5
  <2> QED BY <2>3, <2>6 DEF Taken, r
<1> QED BY <1>1, <1>4, <1>5

\* The requests up to the first stop.
LEMMA StopCounted ==
  ASSUME TypeOK, NEW upto \in read + 1..sent, Undisturbed(read)
  PROVE  /\ Stops(upto) = {} => Nth(upto) = Nth(read) /\ Undisturbed(upto)
         /\ Complete(upto) => LET r == Min(Stops(upto))
                              IN  /\ r \in RequestEnds /\ Nth(r) = Nth(read) + 1 /\ Served(r)
                                  /\ r \notin stream.closing => Undisturbed(r)
         /\ Refuses(upto) => \E p \in read + 1..upto : Refused(p) /\ Nth(read) = Nth(p - 1)
<1>1. /\ read \in 0..Pieces /\ read \in Nat /\ sent \in Nat /\ upto \in read + 1..Pieces /\ upto \in Nat
      /\ Pieces \in Nat
  BY NumbersTyped, EndsArePieces
<1> DEFINE both == stream.closing \union stream.malformed
<1>2. /\ \A q \in both : q \in Nat /\ read < q /\ q \in RequestEnds \union stream.malformed
      /\ \A q \in both : q \notin read + 1..upto => upto < q
  <2>1. \A q \in both : q \in Nat /\ read < q /\ q \in RequestEnds \union stream.malformed
    BY StreamTyped, EndsArePieces DEF Undisturbed
  <2> QED BY <1>1, <2>1
<1>3. ASSUME Stops(upto) = {} PROVE Nth(upto) = Nth(read) /\ Undisturbed(upto)
  <2>1. \A q \in RequestEnds \union stream.malformed : q \notin read + 1..upto
    BY <1>3, FirstStop
  <2>2. Nth(upto) = Nth(read)
    BY <1>1, <2>1, NthNext
  <2> QED BY <1>2, <2>1, <2>2 DEF Undisturbed
<1>4. ASSUME Stops(upto) # {}, NEW r, r = Min(Stops(upto))
      PROVE  /\ r \in read + 1..upto /\ r \in Nat /\ r \in read + 1..Pieces
             /\ r \in RequestEnds \union stream.malformed
             /\ \A q \in RequestEnds \union stream.malformed : q \in read + 1..upto => r <= q
             /\ \A q \in both : r <= q
  <2>1. /\ r \in read + 1..upto /\ r \in RequestEnds \union stream.malformed
        /\ \A q \in RequestEnds \union stream.malformed : q \in read + 1..upto => r <= q
    BY <1>4, FirstStop
  <2>2. r \in Nat /\ r \in read + 1..Pieces
    BY <1>1, <2>1
  <2>3. ASSUME NEW q \in both PROVE r <= q
    <3>1. CASE q \in read + 1..upto
      BY <1>2, <2>1, <3>1
    <3>2. CASE q \notin read + 1..upto
      <4>1. upto < q /\ q \in Nat
        BY <1>2, <3>2
      <4> QED BY <1>1, <2>1, <2>2, <4>1
    <3> QED BY <3>1, <3>2
  <2> QED BY <2>1, <2>2, <2>3
<1>5. ASSUME Complete(upto), NEW r, r = Min(Stops(upto))
      PROVE  /\ r \in RequestEnds /\ Nth(r) = Nth(read) + 1 /\ Served(r)
             /\ r \notin stream.closing => Undisturbed(r)
  <2>1. /\ r \in read + 1..upto /\ r \in Nat /\ r \in read + 1..Pieces /\ r \in RequestEnds
        /\ r \notin stream.malformed /\ \A q \in both : r <= q
        /\ \A q \in RequestEnds \union stream.malformed : q \in read + 1..upto => r <= q
    BY <1>4, <1>5 DEF Complete
  <2>2. ASSUME NEW p \in RequestEnds, p \in read + 1..r PROVE p = r
    <3>1. p \in Int /\ p <= r /\ p \in read + 1..upto
      BY <1>1, <2>1, <2>2
    <3> QED BY <2>1, <3>1
  <2>3. Nth(r) = Nth(read) + 1
    BY <1>1, <2>1, <2>2, NthNext
  <2>4. \A q \in both : q \in Nat /\ r <= q /\ (q # r => r < q)
    BY <1>2, <2>1
  <2>5. Served(r)
    BY <2>1, <2>4 DEF Served
  <2>6. r \notin stream.closing => Undisturbed(r)
    BY <2>1, <2>4 DEF Undisturbed
  <2> QED BY <2>1, <2>3, <2>5, <2>6
<1>6. ASSUME Refuses(upto), NEW r, r = Min(Stops(upto))
      PROVE  r \in read + 1..upto /\ Refused(r) /\ Nth(read) = Nth(r - 1)
  <2>1. /\ r \in read + 1..upto /\ r \in Nat /\ r \in read + 1..Pieces /\ r \in stream.malformed
        /\ \A q \in both : r <= q
        /\ \A q \in RequestEnds \union stream.malformed : q \in read + 1..upto => r <= q
    BY <1>4, <1>6 DEF Refuses
  <2>2. Refused(r)
    BY <2>1 DEF Refused
  <2>3. CASE r - 1 = read
    BY <2>1, <2>2, <2>3
  <2>4. CASE r - 1 # read
    <3>1. r - 1 \in read + 1..Pieces
      BY <1>1, <2>1, <2>4
    <3>2. ASSUME NEW p \in RequestEnds, p \in read + 1..r - 1 PROVE FALSE
      <4>1. p \in Int /\ p <= r - 1 /\ p \in read + 1..upto
        BY <1>1, <2>1, <3>2
      <4>2. r <= p
        BY <2>1, <4>1
      <4> QED BY <2>1, <4>1, <4>2
    <3>3. Nth(r - 1) = Nth(read)
      BY <1>1, <3>1, <3>2, NthNext
    <3> QED BY <2>1, <2>2, <3>3
  <2> QED BY <2>3, <2>4
<1> QED BY <1>3, <1>5, <1>6

\* What each outcome of onMessage changes.
LEMMA OnMessageTyped ==
  ASSUME Inv, NEW upto \in read + 1..sent, onMessage(upto)
  PROVE  /\ read' = upto /\ parsed' \in 0..upto /\ torn' \in BOOLEAN /\ (torn => torn')
         /\ garbled' \in {garbled, TRUE} /\ connected' \in {connected, FALSE}
         /\ toClient' \in Seq(Item) /\ writeBio' \in {writeBio, <<>>}
         /\ ~connected => toClient' = toClient
<1>1. /\ TypeOK /\ Sequenced /\ toClient \in Seq(Item)
      /\ read \in Nat /\ sent \in Nat /\ parsed \in Nat /\ parsed <= read
  BY NumbersTyped DEF Inv, Sequenced
<1>2. Taken(upto) \in read..upto /\ upto \in Nat
  BY <1>1, TakenIsBetween
<1>3. read' = upto /\ parsed' \in {parsed, Taken(upto)}
  BY OnMessageUnfolded
<1>4. torn' \in BOOLEAN /\ (torn => torn')
  BY <1>1, OnMessageUnfolded DEF TypeOK
<1>5. ASSUME NEW r \in RequestEnds \union {0}, send(r)
      PROVE  /\ toClient' \in Seq(Item) /\ writeBio' = <<>> /\ (~connected => toClient' = toClient)
  <2>1. CASE connected
    BY <1>1, <1>5, <2>1, ResponseSent
  <2>2. CASE ~connected
    BY <1>1, <1>5, <2>2 DEF send, sendPendingData
  <2> QED BY <2>1, <2>2
<1>6. ASSUME BadRequest
      PROVE  /\ toClient' \in Seq(Item) /\ writeBio' = writeBio /\ connected' = FALSE
             /\ ~connected => toClient' = toClient
  <2>1. Flight("plaintext") \in Item
    BY DEF Flight, Response, Item, Parts
  <2>2. Append(toClient, Flight("plaintext")) \in Seq(Item)
    BY <1>1, <2>1, AppendProperties
  <2> QED BY <1>1, <1>6, <2>2 DEF BadRequest
<1>7. Complete(upto) => Taken(upto) \in RequestEnds
  BY <1>1, TakenIsBetween, FirstStop DEF Complete
<1>8. \/ UNCHANGED <<toClient, writeBio, connected>>
      \/ \E r \in RequestEnds \union {0} : send(r) /\ connected' \in {connected, FALSE}
      \/ BadRequest
  <2>1. ASSUME Complete(upto), onRequest(Taken(upto))
        PROVE  \E r \in RequestEnds \union {0} : send(r) /\ connected' \in {connected, FALSE}
    <3>1. connected \in BOOLEAN
      BY <1>1 DEF TypeOK
    <3>2. send(Taken(upto)) /\ connected' \in {connected, FALSE}
      BY <2>1, <3>1 DEF onRequest
    <3> QED BY <1>7, <2>1, <3>2
  <2> QED BY <2>1, OnMessageUnfolded
<1>9. parsed' \in 0..upto
  BY <1>1, <1>2, <1>3
<1>10. garbled' \in {garbled, TRUE}
  BY OnMessageUnfolded
<1>11. /\ connected' \in {connected, FALSE} /\ toClient' \in Seq(Item)
       /\ writeBio' \in {writeBio, <<>>} /\ (~connected => toClient' = toClient)
  BY <1>1, <1>5, <1>6, <1>8
<1> QED BY <1>3, <1>4, <1>9, <1>10, <1>11

LEMMA OnMessageInOrder ==
  ASSUME Inv, NEW upto \in read + 1..sent, onMessage(upto), UNCHANGED <<stream, received>>
  PROVE  InOrder'
<1>1. /\ read' = upto /\ garbled' \in {garbled, TRUE} /\ (torn => torn')
      /\ ~connected => toClient' = toClient
  BY OnMessageTyped
<1>2. TypeOK /\ read \in Nat /\ upto \in Nat /\ read < upto /\ InOrder /\ Sequenced
  BY NumbersTyped DEF Inv
<1>3. Onwards
  <2>1. read' \in Nat /\ read <= read'
    BY <1>1, <1>2
  <2>2. stream' = stream
    OBVIOUS
  <2> QED BY <1>1, <1>2, <2>1, <2>2, Zenon DEF Onwards
<1>4. CASE toClient' = toClient
  BY <1>2, <1>3, <1>4, InOrderStays
<1>5. ASSUME connected, ~torn' PROVE ParserInStep /\ Undisturbed(read)
  BY <1>1, <1>5 DEF Inv, InStep, ParserInStep
<1>6. CASE connected /\ BadRequest
  <2>1. Flight("plaintext") \in Item /\ Flight("plaintext").request = 0 /\ ~IsResponse(Flight("plaintext"))
    BY DEF Flight, Response, Item, Parts, IsResponse
  <2>2. toClient' = Append(toClient, Flight("plaintext"))
    BY <1>6 DEF BadRequest
  <2> QED BY <1>3, <2>1, <2>2, OtherInOrder
<1>7. CASE connected /\ ParserInStep /\ Complete(upto) /\ onRequest(Taken(upto))
  <2>1. /\ Taken(upto) = Min(Stops(upto)) /\ Taken(upto) \in read + 1..upto
        /\ Taken(upto) \in RequestEnds
    BY <1>2, <1>7, TakenIsBetween, FirstStop DEF Complete
  <2>2. PICK r \in RequestEnds : r = Taken(upto)
    BY <2>1
  <2>3. read < r /\ r <= read'
    BY <1>1, <1>2, <2>1, <2>2
  <2>4. ~torn' => Served(r)'
    <3>1. ~torn' => Served(Taken(upto))
      BY <1>2, <1>5, <1>7, <2>1, StopCounted
    <3>2. Served(r) => Served(r)'
      BY DEF Served
    <3> QED BY <2>2, <3>1, <3>2
  <2>5. send(r)
    BY <1>7, <2>2 DEF onRequest
  <2>6. ~garbled /\ r # 0
    BY <1>7, <1>2, <2>3 DEF ParserInStep
  <2> QED BY <1>3, <1>7, <2>3, <2>4, <2>5, <2>6, ResponseInOrder
<1>8. CASE connected /\ ~ParserInStep /\ send(0) /\ garbled' = TRUE
  <2>1. torn'
    BY <1>5, <1>8
  <2>2. 0 <= read'
    BY <1>1, <1>2
  <2> QED BY <1>3, <1>8, <2>1, <2>2, ResponseInOrder
<1> QED BY <1>1, <1>4, <1>6, <1>7, <1>8, OnMessageUnfolded

LEMMA OnMessageInStep ==
  ASSUME Inv, NEW upto \in read + 1..sent, onMessage(upto), UNCHANGED <<stream, client, received>>
  PROVE  InStep'
<1> SUFFICES ASSUME ~torn' PROVE InStep'
  BY DEF InStep
<1>1. /\ read' = upto /\ (torn => torn') /\ connected' \in {connected, FALSE}
      /\ ~connected => toClient' = toClient
  BY OnMessageTyped
<1>2. TypeOK /\ read \in Nat /\ upto \in Nat /\ read <= upto /\ ~torn
  BY <1>1, NumbersTyped DEF Inv
<1>3. \A i \in DOMAIN received' : RightAnswer(received'[i], i)
  BY <1>2 DEF Inv, InStep
<1>4. CASE ~connected
  <2>1. connected' = FALSE /\ toClient' = toClient
    <3>1. connected \in BOOLEAN
      BY <1>2 DEF TypeOK
    <3> QED BY <1>1, <1>4, <3>1
  <2>2. client' = "broken" => ~connected' /\ Out' = <<>> /\ GivenUp(Len(received))'
    <3> SUFFICES ASSUME client = "broken"
                 PROVE  ~connected' /\ Out' = <<>> /\ GivenUp(Len(received))'
      OBVIOUS
    <3> QED BY <1>1, <1>2, <2>1, BrokenStays
  <2>3. \E k \in 0..Len(Out') : OnTheirWay(Out, k)'
    BY <1>1, <1>2, <2>1, NothingSent
  <2> QED BY <1>3, <2>1, <2>2, <2>3 DEF InStep
<1>5. CASE connected
  <2>1. ~garbled /\ parsed = read /\ Undisturbed(read) /\ client # "broken"
    BY <1>2, <1>5 DEF Inv, InStep
  <2>2. ParserInStep
    BY <2>1 DEF ParserInStep
  <2>3. CASE Refuses(upto)
    <3>1. BadRequest /\ ~connected'
      BY <2>2, <2>3, OnMessageUnfolded DEF BadRequest
    <3>2. PICK p \in read + 1..upto : Refused(p) /\ Nth(read) = Nth(p - 1)
      BY <1>2, <2>1, <2>3, StopCounted
    <3>3. p \in 1..read' /\ Refused(p)'
      <4>1. p \in 1..read'
        BY <1>1, <1>2
      <4> QED BY <3>2, <4>1 DEF Refused
    <3>4. PICK m : m = Nth(read)
      OBVIOUS
    <3>5. \E q \in 1..read' : Refused(q)' /\ m = Nth(q - 1)
      BY <3>2, <3>3, <3>4
    <3>6. \E k \in 0..Len(Out') : OnTheirWay(Out, k)'
      BY <1>2, <1>5, <3>1, <3>4, <3>5, BadRequestInStep
    <3> QED BY <1>3, <2>1, <3>1, <3>6 DEF InStep
  <2>4. CASE Complete(upto)
    <3>1. ~Refuses(upto)
      BY <2>4 DEF Complete, Refuses
    <3>2. /\ parsed' = Taken(upto) /\ torn' = (torn \/ Taken(upto) # upto) /\ garbled' = garbled
          /\ onRequest(Taken(upto))
      BY <2>2, <2>4, <3>1, OnMessageUnfolded
    <3>3. Taken(upto) = upto
      BY <3>2
    <3>4. /\ upto \in RequestEnds /\ Nth(upto) = Nth(read) + 1
          /\ upto \notin stream.closing => Undisturbed(upto)
      <4>1. upto = Min(Stops(upto))
        BY <1>2, <2>4, <3>3, TakenIsBetween
      <4> QED BY <1>2, <2>1, <2>4, <4>1, StopCounted
    <3>5. send(upto) /\ connected' = (connected /\ upto \notin stream.closing)
      BY <3>2, <3>3 DEF onRequest
    <3>6. \E k \in 0..Len(Out') : OnTheirWay(Out, k)'
      BY <1>1, <1>2, <1>5, <3>4, <3>5, ResponseInStep
    <3>7. connected' => ~garbled' /\ parsed' = read' /\ Undisturbed(read)'
      BY <1>1, <2>1, <3>2, <3>3, <3>4, <3>5 DEF Undisturbed
    <3> QED BY <1>3, <2>1, <3>6, <3>7 DEF InStep
  <2>5. CASE Stops(upto) = {}
    <3>1. ~Refuses(upto) /\ ~Complete(upto)
      BY <2>5 DEF Complete, Refuses
    <3>2. /\ parsed' = Taken(upto) /\ torn' = (torn \/ Taken(upto) # upto) /\ garbled' = garbled
          /\ UNCHANGED <<toClient, writeBio, connected>>
      BY <2>2, <3>1, OnMessageUnfolded
    <3>3. Taken(upto) = upto
      BY <3>2
    <3>4. Nth(upto) = Nth(read) /\ Undisturbed(upto)
      BY <1>2, <2>1, <2>5, StopCounted
    <3>5. \E k \in 0..Len(Out') : OnTheirWay(Out, k)'
      BY <1>1, <1>2, <3>2, <3>4, NothingSent
    <3>6. ~garbled' /\ parsed' = read' /\ Undisturbed(read)'
      BY <1>1, <2>1, <3>2, <3>3, <3>4 DEF Undisturbed
    <3> QED BY <1>3, <2>1, <3>5, <3>6 DEF InStep
  <2> QED BY <2>3, <2>4, <2>5 DEF Complete, Refuses
<1> QED BY <1>4, <1>5

\* A chunk of plaintext is parsed.
LEMMA OnMessageKeeps ==
  ASSUME Inv, state = "ESTABLISHED", NEW upto \in read + 1..sent, onMessage(upto),
         UNCHANGED <<kind, stream, client, sent, badSent, received, state, ssl>>,
         readBio' \in Seq(RecordType), toServer' \in Seq(RecordType),
         Ordered(Incoming', upto, sent)
  PROVE  Inv'
<1>1. TypeOK /\ Sequenced /\ ssl = "done" /\ Alive /\ Alive'
  BY DEF Inv, TypeOK, Alive
<1>2. /\ read' = upto /\ parsed' \in 0..upto /\ torn' \in BOOLEAN
      /\ garbled' \in {garbled, TRUE} /\ connected' \in {connected, FALSE}
      /\ toClient' \in Seq(Item) /\ writeBio' \in {writeBio, <<>>}
  BY OnMessageTyped
<1>3. read \in Nat /\ sent \in Nat /\ upto \in 0..sent
  BY <1>1, NumbersTyped
<1>4. LastFlight' = LastFlight /\ writeBio' \in {<<>>, LastFlight}
  BY <1>1, <1>2 DEF LastFlight, TypeOK
<1>5. connected' \in BOOLEAN /\ garbled' \in BOOLEAN
  BY <1>1, <1>2 DEF TypeOK
<1>6. TypeOK'
  BY <1>1, <1>2, <1>3, <1>4, <1>5 DEF TypeOK
<1>7. Sequenced' /\ Handshaking' /\ (connected => Alive)'
  BY <1>1, <1>2, EmptySeq DEF Sequenced, Handshaking
<1>8. (Alive => Ordered(Incoming, read, sent))'
  BY <1>2
<1>9. InOrder' /\ InStep'
  BY OnMessageInOrder, OnMessageInStep
<1> QED BY <1>6, <1>7, <1>8, <1>9 DEF Inv

-----------------------------------------------------------------------------
(* SslConnection::onRead.                                                  *)

\* Until the handshake is complete nothing but flights is on its way.
LEMMA FlightInStep ==
  ASSUME Inv, ~torn, state = "HANDSHAKE", connected, NEW x \in Item, x.part \in FlightParts,
         Out' = Out \/ Out' = Append(Out, x), UNCHANGED <<received, read, stream, connected>>
  PROVE  \E k \in 0..Len(Out') : OnTheirWay(Out, k)'
<1>1. Sequenced /\ read = 0
  BY DEF Inv, Handshaking
<1>2. Out \in Seq(Item) /\ Len(Out) \in Nat /\ Len(received) \in Nat /\ DOMAIN Out = 1..Len(Out)
  BY <1>1, OutIsSeq, LenProperties
<1>3. PICK k \in 0..Len(Out) : OnTheirWay(Out, k)
  BY DEF Inv, InStep
<1>4. 0 = Len(received) + Len(Out) - k
  BY <1>1, <1>3, NthOfNone DEF OnTheirWay
<1>5. k = Len(Out) /\ Len(received) = 0
  <2>1. Len(Out) \in Nat /\ Len(received) \in Nat
    BY <1>2
  <2>2. k \in Int /\ k <= Len(Out)
    BY <1>3, <2>1
  <2> QED BY <1>4, <2>1, <2>2
<1>6. received = <<>>
  BY <1>1, <1>5, EmptySeq DEF Sequenced
<1>7. Nth(read)' = 0
  <2>1. Nth(read)' = Nth(0)
    BY <1>1 DEF Nth, UpTo
  <2> QED BY <2>1, NthOfNone
<1>8. Answers(Out, Len(Out), 0) /\ \A i \in DOMAIN Out : Out[i].part # "plaintext"
  BY <1>3, <1>5 DEF OnTheirWay
<1>9. CASE Out' = Out
  <2>1. OnTheirWay(Out, Len(Out))'
    BY <1>2, <1>5, <1>6, <1>7, <1>8, <1>9 DEF OnTheirWay
  <2> QED BY <1>2, <1>9, <2>1
<1>10. CASE Out' = Append(Out, x)
  <2>1. Answers(Out', Len(Out) + 1, 0) /\ Len(Out') = Len(Out) + 1
    BY <1>2, <1>8, <1>10, FlightAdded, AppendProperties
  <2>2. PICK l \in Nat : l = Len(Out) + 1
    BY <1>2
  <2>3. l \in 0..Len(Out') /\ Nth(read)' = Len(received') + Len(Out') - l /\ Len(received') = 0
    BY <1>2, <1>5, <1>7, <2>1, <2>2
  <2>4. \A i \in DOMAIN Out' : Out'[i].part # "plaintext"
    <3>1. /\ DOMAIN Out' = 1..Len(Out) + 1 /\ Out'[Len(Out) + 1] = x
          /\ \A i \in 1..Len(Out) : Out'[i] = Out[i]
      BY <1>2, <1>10, AppendProperties, LenProperties
    <3>2. \A i \in DOMAIN Out' : (i \in DOMAIN Out /\ Out'[i] = Out[i]) \/ Out'[i] = x
      BY <1>2, <3>1
    <3> QED BY <1>8, <3>2 DEF FlightParts
  <2>5. OnTheirWay(Out, l)'
    BY <1>6, <2>1, <2>2, <2>3, <2>4 DEF OnTheirWay
  <2> QED BY <2>3, <2>5
<1> QED BY <1>9, <1>10

\* What onRead finds in the BIO is a beginning of what has not been read.
LEMMA BioIsBeginning ==
  ASSUME Sequenced, NEW n \in 1..Len(toServer), NEW bio, bio = readBio \o SubSeq(toServer, 1, n)
  PROVE  /\ bio \in Seq(RecordType) /\ Len(bio) \in Nat \ {0} /\ bio # <<>>
         /\ \A i \in 1..Len(bio) : bio[i] = Incoming[i]
<1> DEFINE T == Len(toServer)
           R == Len(readBio)
           part == SubSeq(toServer, 1, n)
<1>1. T \in Nat /\ R \in Nat /\ n \in Nat /\ 1 <= n /\ n <= T
  BY LenProperties DEF Sequenced
<1>2. part \in Seq(RecordType) /\ Len(part) = n /\ \A i \in 1..n : part[i] = toServer[i]
  <2>1. \A i \in 1..n : toServer[i] \in RecordType
    BY <1>1, ElementOfSeq DEF Sequenced
  <2>2. /\ part \in Seq(RecordType) /\ Len(part) = IF 1 <= n THEN n - 1 + 1 ELSE 0
        /\ \A i \in 1..n - 1 + 1 : part[i] = toServer[1 + i - 1]
    BY <1>1, <2>1, SubSeqProperties
  <2>3. n - 1 + 1 = n /\ \A i \in 1..n : 1 + i - 1 = i
    BY <1>1
  <2> QED BY <1>1, <2>2, <2>3
<1>3. \A i \in 1..R + T : Incoming[i] = IF i <= R THEN readBio[i] ELSE toServer[i - R]
  BY ConcatProperties DEF Sequenced, Incoming
<1>4. /\ bio \in Seq(RecordType) /\ Len(bio) = R + n
      /\ \A i \in 1..R + n : bio[i] = IF i <= R THEN readBio[i] ELSE part[i - R]
  BY <1>2, ConcatProperties DEF Sequenced
<1> HIDE DEF T, R, part
<1>5. ASSUME NEW i \in 1..Len(bio) PROVE bio[i] = Incoming[i]
  <2>1. i \in 1..R + n /\ i \in 1..R + T /\ i \in Nat
    BY <1>1, <1>4
  <2>2. CASE i <= R
    BY <1>3, <1>4, <2>1, <2>2
  <2>3. CASE R < i
    <3>1. i - R \in 1..n /\ ~(i <= R)
      BY <1>1, <2>1, <2>3
    <3>2. bio[i] = part[i - R]
      BY <1>1, <1>4, <2>1, <3>1
    <3>3. Incoming[i] = toServer[i - R]
      BY <1>1, <1>3, <2>1, <3>1
    <3> QED BY <1>2, <3>1, <3>2, <3>3
  <2>4. i <= R \/ R < i
    BY <1>1, <2>1
  <2> QED BY <2>2, <2>3, <2>4
<1>6. Len(bio) \in Nat \ {0}
  BY <1>1, <1>4
<1>7. bio # <<>>
  BY <1>4, <1>6, EmptySeq
<1> QED BY <1>4, <1>5, <1>6, <1>7

\* What each flight needs: what was read is gone, the handshake has not read data.
LEMMA HandshakeKeeps ==
  ASSUME Inv, state = "HANDSHAKE", NEW n \in 1..Len(toServer), NEW bio,
         bio = readBio \o SubSeq(toServer, 1, n),
         toServer' = SubSeq(toServer, n + 1, Len(toServer)),
         handleHandshake(bio), UNCHANGED <<clientVars, httpVars>>
  PROVE  Inv'
<1>1. TypeOK /\ Sequenced /\ read = 0 /\ writeBio = <<>>
  BY DEF Inv, Handshaking
<1>2. /\ bio \in Seq(RecordType) /\ Len(bio) \in Nat \ {0} /\ bio # <<>>
      /\ SubSeq(bio, Len(bio) + 1, Len(bio)) = <<>> /\ Tail(bio) = SubSeq(bio, 1 + 1, Len(bio))
  <2>1. bio \in Seq(RecordType) /\ Len(bio) \in Nat \ {0} /\ bio # <<>>
    BY <1>1, BioIsBeginning
  <2>2. SubSeq(bio, Len(bio) + 1, Len(bio)) = <<>>
    BY <2>1, SubSeqEmpty
  <2>3. Tail(bio) = SubSeq(bio, 2, Len(bio)) /\ 1 + 1 = 2
    BY <2>1, TailIsSubSeq
  <2> QED BY <2>1, <2>2, <2>3
<1>3. UNCHANGED <<kind, stream, client, sent, badSent, received, read, parsed, garbled, torn>> /\ Onwards
  <2>1. UNCHANGED <<kind, stream, client, sent, badSent, received, read, parsed, garbled, torn>>
    BY DEF clientVars, httpVars
  <2> QED BY <1>1, <2>1, NumbersTyped DEF Onwards
<1>4. PICK m \in {1, Len(bio)} : readBio' = SubSeq(bio, m + 1, Len(bio))
  BY <1>2 DEF handleHandshake
<1>5. /\ readBio' \in Seq(RecordType) /\ toServer' \in Seq(RecordType)
      /\ Incoming \in Seq(RecordType) /\ Incoming' \in Seq(RecordType)
      /\ Shifted(Incoming', Incoming, m)
  <2>1. m \in 0..Len(bio)
    BY <1>2
  <2> QED BY <1>1, <1>4, <2>1, RecordsRead
<1>6. ASSUME Alive PROVE Ordered(Incoming', read', sent')
  <2>1. read \in Nat /\ sent \in Nat /\ Ordered(Incoming, read, sent)
    BY <1>1, <1>6, NumbersTyped DEF Inv
  <2> QED BY <1>3, <1>5, <2>1, OrderedShifted
<1>7. LastFlight' = LastFlight
  BY <1>3 DEF LastFlight
<1>8. \A f \in FlightParts : /\ Flight(f) \in Item /\ Flight(f).part \in FlightParts
                            /\ Flight(f).request = 0
  BY DEF Flight, Response, Item, Parts, FlightParts
<1>9. Len(toClient) \in Nat /\ toClient \in Seq(Item) /\ Out = toClient
  <2>1. Pending = <<>>
    BY <1>1 DEF Pending
  <2> QED BY <1>1, <2>1, ConcatEmptySeq, LenProperties DEF Sequenced, Out
<1>13. \A y \in Item : y.part \in FlightParts => ~IsResponse(y)
  BY DEF IsResponse, FlightParts
<1>14. ASSUME ~torn, client = "broken", toClient' = toClient, connected' \in {connected, FALSE}
       PROVE  ~connected' /\ Out' = <<>> /\ GivenUp(Len(received))'
  <2>1. ~connected
    BY <1>14 DEF Inv, InStep
  <2>2. read' \in Nat /\ read <= read'
    BY <1>3 DEF Onwards
  <2>3. connected' => connected
    BY <1>14
  <2>4. UNCHANGED <<stream, received, toClient>>
    BY <1>3, <1>14
  <2> QED BY <1>14, <2>2, <2>3, <2>4, BrokenStays
<1>10. CASE ssl = "accept" /\ ssl' = "flight" /\ sendPendingData(Append(writeBio, Flight("flight")))
             /\ UNCHANGED <<state, connected>>
  <2>1. /\ toClient' = IF connected THEN toClient \o Append(writeBio, Flight("flight")) ELSE toClient
        /\ writeBio' = <<>>
    BY <1>10 DEF sendPendingData
  <2>2. Flight("flight") \in Item /\ Flight("flight").part \in FlightParts
    BY <1>8 DEF FlightParts
  <2>3. toClient \o Append(writeBio, Flight("flight")) = Append(Out, Flight("flight"))
    <3>1. toClient \o Append(writeBio, Flight("flight")) = Append(toClient \o writeBio, Flight("flight"))
      BY <1>1, <1>9, <2>2, AppendedBehind DEF Sequenced
    <3>2. toClient \o writeBio = Out
      BY <1>1, <1>9, ConcatEmptySeq
    <3> QED BY <3>1, <3>2
  <2>4. Append(Out, Flight("flight")) \in Seq(Item)
    BY <1>9, <2>2, AppendProperties
  <2>5. toClient' \in Seq(Item) /\ Out' = toClient'
    <3>1. toClient' \in Seq(Item)
      BY <1>9, <2>1, <2>3, <2>4
    <3>2. Pending' = <<>>
      BY <2>1 DEF Pending
    <3> QED BY <3>1, <3>2, ConcatEmptySeq DEF Out
  <2>6. Alive /\ Alive' /\ connected
    BY <1>10 DEF Alive, Inv, Handshaking
  <2>7. Out' = Append(Out, Flight("flight"))
    BY <2>1, <2>3, <2>5, <2>6
  <2>8. TypeOK'
    BY <1>1, <1>3, <1>7, <1>10, <2>1 DEF TypeOK
  <2>9. Sequenced' /\ Handshaking' /\ (connected => Alive)'
    BY <1>1, <1>3, <1>5, <1>10, <2>1, <2>5, <2>6, EmptySeq DEF Sequenced, Handshaking
  <2>10. ASSUME ~torn PROVE \E k \in 0..Len(Out') : OnTheirWay(Out, k)'
    BY <1>3, <1>10, <2>2, <2>6, <2>7, <2>10, FlightInStep
  <2>11. InStep'
    BY <1>3, <1>10, <2>6, <2>10 DEF Inv, InStep, Undisturbed
  <2>12. InOrder'
    <3>1. toClient' = Append(toClient, Flight("flight"))
      BY <1>9, <2>5, <2>7
    <3>2. Flight("flight").request = 0 /\ ~IsResponse(Flight("flight"))
      BY DEF Flight, Response, IsResponse
    <3> QED BY <1>3, <2>2, <3>1, <3>2, OtherInOrder
  <2> QED BY <1>6, <2>6, <2>8, <2>9, <2>11, <2>12 DEF Inv
<1>11. CASE ssl = "flight" /\ ssl' = "done" /\ state' = "ESTABLISHED"
             /\ writeBio' = writeBio \o LastFlight /\ UNCHANGED <<toClient, connected>>
  <2>1. PICK x \in Item : x.part \in FlightParts /\ LastFlight \in {<<>>, <<x>>}
    BY LastFlightIs
  <2>2. LastFlight \in Seq(Item)
    <3>1. <<>> \in Seq(Item) /\ <<x>> \in Seq(Item)
      OBVIOUS
    <3> QED BY <2>1, <3>1
  <2>3. writeBio' = LastFlight
    BY <1>1, <1>11, <2>2, ConcatEmptySeq
  <2>4. Alive /\ Alive' /\ connected
    BY <1>11 DEF Alive, Inv, Handshaking
  <2>5. Out' = toClient \o LastFlight
    BY <1>11, <2>3, <2>4 DEF Out, Pending
  <2>6. Out' = Out \/ Out' = Append(Out, x)
    <3>1. toClient \o <<>> = toClient /\ toClient \o <<x>> = Append(toClient, x)
      BY <1>9, ConcatEmptySeq, AppendIsConcat
    <3> QED BY <1>9, <2>1, <2>5, <3>1
  <2>7. TypeOK'
    BY <1>1, <1>3, <1>7, <1>11, <2>3 DEF TypeOK
  <2>8. Sequenced' /\ Handshaking' /\ (connected => Alive)'
    BY <1>1, <1>3, <1>5, <1>11, <2>2, <2>3, <2>4 DEF Sequenced, Handshaking
  <2>9. ASSUME ~torn PROVE \E k \in 0..Len(Out') : OnTheirWay(Out, k)'
    BY <1>3, <1>11, <2>1, <2>4, <2>6, <2>9, FlightInStep
  <2>10. InStep'
    BY <1>3, <1>11, <2>4, <2>9 DEF Inv, InStep, Undisturbed
  <2>11. InOrder'
    BY <1>1, <1>3, <1>11, InOrderStays DEF Inv
  <2> QED BY <1>6, <2>4, <2>7, <2>8, <2>10, <2>11 DEF Inv
<1>12. CASE ssl' = "failed" /\ writeBio' = <<>> /\ connected' = FALSE /\ UNCHANGED <<state, toClient>>
  <2>1. ~Alive'
    BY <1>12 DEF Alive
  <2>2. TypeOK'
    BY <1>1, <1>3, <1>7, <1>12 DEF TypeOK
  <2>3. Sequenced' /\ Handshaking' /\ (connected => Alive)'
    BY <1>1, <1>3, <1>5, <1>12, <2>1, EmptySeq DEF Sequenced, Handshaking
  <2>4. ASSUME ~torn PROVE \E k \in 0..Len(Out') : OnTheirWay(Out, k)'
    BY <1>3, <1>12, <2>4, NothingSent DEF Onwards
  <2>5. InStep'
    BY <1>3, <1>12, <1>14, <2>4 DEF Inv, InStep
  <2>6. InOrder'
    BY <1>1, <1>3, <1>12, InOrderStays DEF Inv
  <2> QED BY <2>1, <2>2, <2>3, <2>5, <2>6 DEF Inv
<1> QED BY <1>10, <1>11, <1>12 DEF handleHandshake

\* All the data that can be read is given to the parser, or the first record is an error.
LEMMA ReadAllKeeps ==
  ASSUME Inv, state = "ESTABLISHED", NEW n \in 1..Len(toServer), NEW bio,
         bio = readBio \o SubSeq(toServer, 1, n),
         toServer' = SubSeq(toServer, n + 1, Len(toServer)),
         readAll(bio), UNCHANGED <<clientVars, ssl>>
  PROVE  Inv'
<1>1. TypeOK /\ Sequenced /\ Alive /\ Ordered(Incoming, read, sent)
  BY DEF Inv, TypeOK, Alive
<1>2. /\ bio \in Seq(RecordType) /\ Len(bio) \in Nat
      /\ \A i \in 1..Len(bio) : bio[i] = Incoming[i]
  BY <1>1, BioIsBeginning
<1>3. UNCHANGED <<kind, stream, client, sent, badSent, received, ssl>>
  BY DEF clientVars
<1>4. PICK m \in 0..Len(bio) : /\ Readable(bio) = SubSeq(bio, 1, m)
                               /\ \A i \in 1..m : bio[i].type = "data"
  BY <1>2, ReadableIsPrefix
<1> DEFINE plain == SubSeq(bio, 1, m)
<1>5. /\ Len(plain) = m /\ (m > 0 => Last(plain) = bio[m]) /\ (plain # <<>> <=> m > 0)
  <2>1. \A i \in 1..m : bio[i] \in RecordType
    <3>1. \A i \in 1..m : i \in 1..Len(bio)
      BY <1>2
    <3>2. \A i \in 1..Len(bio) : bio[i] \in RecordType
      BY <1>2, ElementOfSeq
    <3> QED BY <3>1, <3>2, Zenon
  <2>2. /\ plain \in Seq(RecordType) /\ Len(plain) = IF 1 <= m THEN m - 1 + 1 ELSE 0
        /\ \A i \in 1..m - 1 + 1 : plain[i] = bio[1 + i - 1]
    <3>1. 1 \in Int /\ m \in Int
      BY <1>2
    <3> HIDE DEF plain
    <3>2. plain = SubSeq(bio, 1, m)
      BY DEF plain
    <3> QED BY <2>1, <3>1, <3>2, SubSeqProperties
  <2>3. m \in Nat /\ m - 1 + 1 = m /\ Len(plain) = m
    BY <1>2, <2>2
  <2>4. m > 0 => Last(plain) = bio[m]
    <3> SUFFICES ASSUME m > 0 PROVE Last(plain) = bio[m]
      OBVIOUS
    <3>1. m \in 1..m - 1 + 1 /\ 1 + m - 1 = m
      BY <2>3
    <3>2. plain[m] = bio[m]
      BY <2>2, <3>1
    <3> QED BY <2>3, <3>2 DEF Last
  <2>5. plain # <<>> <=> m > 0
    <3>1. plain \in Seq(RecordType) /\ Len(plain) = m
      BY <2>2, <2>3
    <3> HIDE DEF plain
    <3>2. plain = <<>> <=> Len(plain) = 0
      BY <3>1, NotEmpty
    <3> QED BY <2>3, <3>1, <3>2
  <2> QED BY <2>3, <2>4, <2>5
<1> HIDE DEF plain
<1>6. /\ readBio' = SubSeq(bio, m + 1, Len(bio))
      /\ \/ m > 0 /\ onMessage(bio[m].piece) /\ UNCHANGED state
         \/ /\ m = 0 /\ state' = "ERROR" /\ connected' = FALSE
            /\ UNCHANGED <<toClient, writeBio, httpVars>>
  <2>1. Readable(bio) = plain /\ m \in Nat
    BY <1>2, <1>4 DEF plain
  <2> QED BY <1>5, <2>1 DEF readAll
<1>7. /\ readBio' \in Seq(RecordType) /\ toServer' \in Seq(RecordType)
      /\ Incoming \in Seq(RecordType) /\ Incoming' \in Seq(RecordType)
      /\ Shifted(Incoming', Incoming, m)
  BY <1>1, <1>6, RecordsRead
<1>8. CASE m > 0 /\ onMessage(bio[m].piece) /\ UNCHANGED state
  <2>1. m \in 1..Len(bio) /\ m \in 1..m
    BY <1>2, <1>8
  <2>2. Incoming[m] = bio[m] /\ bio[m].type = "data"
    BY <1>2, <1>4, <2>1
  <2>3. read \in Nat /\ sent \in Nat
    BY <1>1, NumbersTyped
  <2>4. bio[m].piece \in read + 1..sent /\ Ordered(Incoming', bio[m].piece, sent)
    BY <1>1, <1>7, <1>8, <2>2, <2>3, OrderedShifted
  <2> QED BY <1>3, <1>7, <1>8, <2>4, OnMessageKeeps
<1>9. CASE /\ m = 0 /\ state' = "ERROR" /\ connected' = FALSE
           /\ UNCHANGED <<toClient, writeBio, httpVars>>
  <2>1. UNCHANGED <<read, parsed, garbled, torn>> /\ ~Alive'
    BY <1>9 DEF httpVars, Alive
  <2>2. LastFlight' = LastFlight /\ ssl = "done"
    BY <1>1, <1>3 DEF LastFlight, TypeOK
  <2>3. TypeOK'
    BY <1>1, <1>3, <1>9, <2>1, <2>2 DEF TypeOK
  <2>4. Sequenced' /\ Handshaking' /\ (connected => Alive)'
    BY <1>1, <1>3, <1>7, <1>9 DEF Sequenced, Handshaking
  <2>5. InOrder' /\ Onwards
    <3>1. Onwards
      BY <1>1, <1>3, <2>1, NumbersTyped DEF Onwards
    <3> QED BY <1>1, <1>3, <1>9, <3>1, InOrderStays DEF Inv
  <2>6. InStep'
    <3> SUFFICES ASSUME ~torn PROVE InStep'
      BY <2>1 DEF InStep
    <3>1. \E k \in 0..Len(Out') : OnTheirWay(Out, k)'
      BY <1>3, <1>9, <2>5, NothingSent DEF Onwards
    <3>2. client = "broken" => ~connected' /\ Out' = <<>> /\ GivenUp(Len(received))'
      BY <1>3, <1>9, <2>5, BrokenStays DEF Onwards
    <3>3. \A i \in DOMAIN received' : RightAnswer(received'[i], i)
      BY <1>3 DEF Inv, InStep
    <3> QED BY <1>3, <1>9, <3>1, <3>2, <3>3 DEF InStep
  <2> QED BY <2>1, <2>3, <2>4, <2>5, <2>6 DEF Inv
<1> QED BY <1>6, <1>8, <1>9

LEMMA DeliverKeeps ==
  ASSUME Inv, Deliver
  PROVE  Inv'
<1>1. PICK n : onRead(n)
  BY DEF Deliver
<1> DEFINE bio == readBio \o SubSeq(toServer, 1, n)
<1>2. /\ n \in 1..Len(toServer) /\ toServer' = SubSeq(toServer, n + 1, Len(toServer))
      /\ UNCHANGED clientVars
      /\ \/ state = "HANDSHAKE" /\ handleHandshake(bio) /\ UNCHANGED httpVars
         \/ state = "ESTABLISHED" /\ readAll(bio) /\ UNCHANGED ssl
         \/ /\ state = "ERROR"
            /\ UNCHANGED <<state, ssl, readBio, writeBio, connected, toClient, httpVars>>
  BY <1>1 DEF onRead
<1>3. bio = readBio \o SubSeq(toServer, 1, n)
  OBVIOUS
<1> HIDE DEF bio
<1>4. CASE state = "HANDSHAKE" /\ handleHandshake(bio) /\ UNCHANGED httpVars
  BY <1>2, <1>3, <1>4, HandshakeKeeps
<1>5. CASE state = "ESTABLISHED" /\ readAll(bio) /\ UNCHANGED ssl
  BY <1>2, <1>3, <1>5, ReadAllKeeps
<1>6. CASE state = "ERROR"
             /\ UNCHANGED <<state, ssl, readBio, writeBio, connected, toClient, httpVars>>
  <2>1. /\ UNCHANGED <<kind, stream, client, sent, badSent, received, read, parsed, garbled, torn>>
        /\ ~Alive' /\ ~Alive
        /\ UNCHANGED <<state, ssl, readBio, writeBio, connected, toClient>>
    BY <1>2, <1>6 DEF clientVars, httpVars, Alive
  <2>2. toServer' \in Seq(RecordType)
    <3>1. toServer \in Seq(RecordType) /\ Len(toServer) \in Nat /\ n \in 0..Len(toServer)
      BY <1>2, LenProperties DEF Inv, Sequenced
    <3> QED BY <1>2, <3>1, SuffixShifted
  <2>3. LastFlight' = LastFlight
    BY <2>1 DEF LastFlight
  <2>4. TypeOK'
    BY <2>1, <2>3 DEF Inv, TypeOK
  <2>5. Sequenced' /\ Handshaking' /\ (connected => Alive)'
    BY <2>1, <2>2 DEF Inv, Sequenced, Handshaking
  <2>6. Onwards /\ Sequenced /\ InOrder /\ ~connected
    BY <2>1, NumbersTyped DEF Inv, Onwards
  <2>7. InOrder'
    BY <2>1, <2>6, InOrderStays
  <2>8. InStep'
    <3> SUFFICES ASSUME ~torn PROVE InStep'
      BY <2>1 DEF InStep
    <3>1. \E k \in 0..Len(Out') : OnTheirWay(Out, k)'
      BY <2>1, <2>6, NothingSent DEF Onwards
    <3>2. client = "broken" => ~connected' /\ Out' = <<>> /\ GivenUp(Len(received))'
      BY <2>1, <2>6, BrokenStays DEF Onwards
    <3>3. \A i \in DOMAIN received' : RightAnswer(received'[i], i)
      BY <2>1 DEF Inv, InStep
    <3> QED BY <2>1, <2>6, <3>1, <3>2, <3>3 DEF InStep
  <2> QED BY <2>1, <2>4, <2>5, <2>7, <2>8 DEF Inv
<1> QED BY <1>2, <1>4, <1>5, <1>6

-----------------------------------------------------------------------------
LEMMA InitInv == Init => Inv
<1> SUFFICES ASSUME Init PROVE Inv
  OBVIOUS
<1>1. TypeOK /\ Handshaking
  <2>1. Pieces \in Nat /\ sent = 0 /\ read = 0 /\ parsed = 0
    BY EndsArePieces DEF Init
  <2>2. sent \in 0..Pieces /\ read \in 0..sent /\ parsed \in 0..read
    <3>1. 0 \in 0..Pieces /\ 0 \in 0..0
      BY <2>1
    <3> QED BY <2>1, <3>1
  <2>3. /\ kind \in Kinds /\ stream \in Streams /\ client = "start" /\ badSent = FALSE /\ connected = TRUE
        /\ garbled = FALSE /\ torn = FALSE /\ state = "HANDSHAKE" /\ ssl = "accept" /\ writeBio = <<>>
    BY DEF Init
  <2> QED BY <2>1, <2>2, <2>3 DEF TypeOK, Handshaking
<1>2. Sequenced
  BY EmptySeq DEF Init, Sequenced
<1>3. Incoming = <<>> /\ Out = <<>> /\ received = <<>> /\ toClient = <<>> /\ Len(<<>>) = 0
  BY DEF Init, Incoming, Out, Pending
<1>4. Ordered(Incoming, read, sent)
  <2>1. DOMAIN Incoming = {}
    BY <1>3
  <2> QED BY <2>1 DEF Ordered
<1>5. OnTheirWay(Out, 0)
  <2>1. Nth(read) = 0
    BY NthOfNone DEF Init
  <2>2. Answers(Out, 0, 0)
    BY <1>3 DEF Answers
  <2> QED BY <1>3, <2>1, <2>2 DEF OnTheirWay
<1>6. DOMAIN received = {} /\ DOMAIN toClient = {} /\ 0 \in 0..Len(Out)
  BY <1>3
<1>7. InStep
  <2>1. Undisturbed(read)
    <3>1. \A q \in stream.closing \union stream.malformed : q \in Nat /\ 1 <= q
      BY <1>1, StreamTyped, EndsArePieces
    <3> QED BY <3>1 DEF Init, Undisturbed
  <2> QED BY <1>5, <1>6, <2>1 DEF Init, InStep
<1>8. InOrder
  BY <1>6 DEF InOrder, Rising, AllSound
<1>9. Alive
  BY DEF Init, Alive
<1> QED BY <1>1, <1>2, <1>4, <1>7, <1>8, <1>9 DEF Inv

LEMMA NextInv == Inv /\ [Next]_vars => Inv'
<1> SUFFICES ASSUME Inv, [Next]_vars PROVE Inv'
  OBVIOUS
<1>1. CASE UNCHANGED vars
  <2>1. /\ UNCHANGED <<kind, stream, client, sent, badSent, received, toServer, toClient, state, ssl,
                       readBio, writeBio, connected, read, parsed, garbled, torn>>
    BY <1>1 DEF vars, clientVars, httpVars
  <2>2. LastFlight' = LastFlight
    BY <2>1 DEF LastFlight
  <2>3. TypeOK' /\ Sequenced' /\ Handshaking' /\ (connected => Alive)'
    BY <2>1, <2>2 DEF Inv, TypeOK, Sequenced, Handshaking, Alive
  <2>4. (Alive => Ordered(Incoming, read, sent))'
    BY <2>1 DEF Inv, Alive, Incoming
  <2>5. Onwards /\ Sequenced /\ InOrder
    BY <2>1, NumbersTyped DEF Inv, Onwards
  <2>6. InOrder'
    BY <2>1, <2>5, InOrderStays
  <2>7. InStep'
    BY <2>1 DEF Inv, InStep, OnTheirWay, Out, Pending, GivenUp, Refused, Undisturbed
  <2> QED BY <2>3, <2>4, <2>6, <2>7 DEF Inv
<1> QED BY <1>1, ClientSpeaks, ClientReceiveKeeps, DeliverKeeps DEF Next

LEMMA Invariant == Spec => []Inv
BY InitInv, NextInv, PTL DEF Spec

(* Every variable keeps its type: what the parser took was read, what was  *)
(* read was sent, and what waits in writeBio_ is never more than the last  *)
(* flight of the handshake (SslConnection::handleHandshake).               *)
THEOREM TypeCorrect == Spec => []TypeOK
<1>1. Inv => TypeOK
  BY DEF Inv
<1> QED BY Invariant, <1>1, PTL

(* Responses never overtake each other, and until a chunk was torn the     *)
(* client gets those of its requests, none skipped, none behind one that   *)
(* closes the connection or behind a malformed line, and plaintext only as *)
(* the 400 of that line (HttpServer::onMessage, SslConnection::send).      *)
THEOREM ResponsesInOrder == Spec => []AnswersInOrder
<1> SUFFICES ASSUME Inv PROVE AnswersInOrder
  BY Invariant, PTL
<1>1. ASSUME NEW i \in DOMAIN received, NEW j \in DOMAIN received, i < j, received[j].request > 0
      PROVE  received[i].request \in 1..received[j].request - 1
  <2>1. \A l \in DOMAIN received : received[l] \in Item /\ received[l].request \in Nat
    <3>1. \A l \in DOMAIN received : received[l] \in Item
      BY ElementOfSeq, LenProperties DEF Inv, Sequenced
    <3> QED BY <3>1, EndsArePieces DEF Item
  <2>2. Below(received[i], received[j]) /\ IsResponse(received[i])
    BY <1>1 DEF Inv, InOrder, Rising
  <2> QED BY <1>1, <2>1, <2>2 DEF Below
<1>2. ASSUME ~torn, NEW i \in DOMAIN received
      PROVE  LET r == received[i].request
             IN  /\ r \in RequestEnds /\ Nth(r) = i /\ Served(r)
                 /\ received[i].part = "beginning" => r \in Large
  BY <1>2 DEF Inv, InStep, InOrder, AllSound, Sound, RightAnswer
<1>3. ASSUME ~torn, client = "broken"
      PROVE  \E p \in 1..read : Refused(p) /\ Len(received) = Nth(p - 1)
  BY <1>3 DEF Inv, InStep, GivenUp
<1> QED BY <1>1, <1>2, <1>3 DEF AnswersInOrder
=============================================================================
