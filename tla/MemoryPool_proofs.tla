--------------------------- MODULE MemoryPool_proofs ---------------------------
(***************************************************************************)
(* Proofs about ThreadCache on CentralCache on PageCache, for any threads, *)
(* size classes, span sizes and placements of what mmap() returns.         *)
(*                                                                         *)
(* The first part says what the operations on lists of blocks do to the    *)
(* set of blocks in them.  The invariant comes in parts, each of which     *)
(* needs few variables; for each operation of CentralCache there is a      *)
(* lemma, and for each of a thread's cache.                                *)
(***************************************************************************)
EXTENDS MemoryPool, FiniteSetTheorems, SequenceTheorems, WellFoundedInduction, TLAPS

\* What is proved of PageCache.
Proved == INSTANCE PageCache_proofs WITH Sizes <- {SpanPages[c] : c \in Classes}

LEMMA PageAssumption == Proved!PageCacheAssumption /\ Proved!Pages = 1..LastPage
BY MemoryPoolAssumption DEF Proved!PageCacheAssumption, Proved!Pages

-----------------------------------------------------------------------------
(* PageCache under CentralCache is PageCache.                              *)

Span(a, n) == [addr |-> a, pages |-> n]

LEMMA SameSpans ==
  /\ \A a, n : Central!Page!Span(a, n) = Span(a, n)
  /\ \A a, n : Proved!Span(a, n) = Span(a, n)
  /\ \A s : Central!Page!PagesOf(s) = s.addr..(s.addr + s.pages - 1)
BY DEF Central!Page!Span, Proved!Span, Span, Central!Page!PagesOf

LEMMA SameInvariants ==
  Proved!Inv => /\ Central!Page!TypeOK
                /\ Central!Page!PagesConserved
                /\ Central!Page!SpanMapCurrent
                /\ held \subseteq [addr : 1..LastPage, pages : {SpanPages[c] : c \in Classes}]
BY PageAssumption
   DEF Proved!Inv, Proved!TypeOK, Proved!PagesConserved, Proved!SpanMapCurrent, Proved!FreeSpans,
       Proved!SpansIn, Proved!Span, Proved!PagesOf, Proved!Pages,
       Central!Page!TypeOK, Central!Page!PagesConserved, Central!Page!SpanMapCurrent,
       Central!Page!FreeSpans, Central!Page!SpansIn, Central!Page!Span, Central!Page!PagesOf,
       Central!Page!Pages

\* At the start nothing is mapped.
LEMMA PagesAtStart ==
  ASSUME Central!Page!Init
  PROVE  Proved!Inv
<1>1. Proved!Init
  BY DEF Central!Page!Init, Proved!Init
<1> QED
  BY <1>1, PageAssumption, Proved!InitInv

\* allocateSpan(): a span that starts where no other does.
LEMMA PagesAllocated ==
  ASSUME Proved!Inv, NEW c \in Classes,
         Central!Page!SystemAlloc(SpanPages[c]) \/ Central!Page!TakeSpan(SpanPages[c])
  PROVE  /\ Proved!Inv'
         /\ \E a \in 1..LastPage : /\ held' = held \cup {Span(a, SpanPages[c])}
                                   /\ \A r \in held : r.addr # a
<1> DEFINE n == SpanPages[c]
<1>1. n \in {SpanPages[d] : d \in Classes}
  OBVIOUS
<1> HIDE DEF n
<1>2. Central!Page!SystemAlloc(n) => Proved!SystemAlloc(n)
  BY DEF Central!Page!SystemAlloc, Proved!SystemAlloc, Central!Page!Fitting, Proved!Fitting,
         Central!Page!Span, Proved!Span, Central!Page!PagesOf, Proved!PagesOf,
         Central!Page!Pages, Proved!Pages, Central!Page!Put, Proved!Put
<1>3. Central!Page!TakeSpan(n) => Proved!TakeSpan(n)
  BY DEF Central!Page!TakeSpan, Proved!TakeSpan, Central!Page!LowerBound, Proved!LowerBound,
         Central!Page!Fitting, Proved!Fitting, Central!Page!Split, Proved!Split,
         Central!Page!PushSpan, Proved!PushSpan, Central!Page!List, Proved!List,
         Central!Page!Put, Proved!Put, Central!Page!Drop, Proved!Drop,
         Central!Page!Span, Proved!Span
<1>4. Proved!SystemAlloc(n) \/ Proved!TakeSpan(n)
  BY <1>2, <1>3 DEF n
<1>5. /\ Proved!Inv'
      /\ \E a \in Proved!Pages : /\ held' = held \cup {Proved!Span(a, n)}
                                 /\ \A r \in held : r.addr # a
  BY <1>1, <1>4, PageAssumption, Proved!FreshSpan
<1> QED
  BY <1>5, PageAssumption, SameSpans DEF n

\* allocateSpan() that finds a null head.
LEMMA PagesCrashed ==
  ASSUME Proved!Inv, NEW n, Central!Page!NullSpan(n)
  PROVE  Proved!Inv' /\ held' = held
<1>1. UNCHANGED <<freeSpans, spanMap, mapped, held>> /\ crashed' \in BOOLEAN
  BY DEF Central!Page!NullSpan
<1>2. (Proved!Inv <=> Proved!Parts) /\ (Proved!Inv' <=> Proved!Parts')
  BY PageAssumption, Proved!InvParts
<1> QED
  BY <1>1, <1>2 DEF Proved!Parts, Proved!Spans, Proved!FreeSpans

\* deallocateSpan(): whether it merges or not, one span is no longer out.
LEMMA PagesReturned ==
  ASSUME Proved!Inv, NEW s \in held, NEW n \in 1..s.pages,
         Central!Page!GiveBack(s, n) \/ Central!Page!GiveBackAndMerge(s, n)
  PROVE  Proved!Inv' /\ held' = held \ {s}
<1>1. Central!Page!GiveBack(s, n) => Proved!GiveBack(s, n)
  BY DEF Central!Page!GiveBack, Proved!GiveBack, Central!Page!List, Proved!List,
         Central!Page!PushSpan, Proved!PushSpan, Central!Page!Put, Proved!Put
<1>2. Central!Page!GiveBackAndMerge(s, n) => Proved!GiveBackAndMerge(s, n)
  BY DEF Central!Page!GiveBackAndMerge, Proved!GiveBackAndMerge, Central!Page!List, Proved!List,
         Central!Page!PushSpan, Proved!PushSpan, Central!Page!Put, Proved!Put,
         Central!Page!Unlink, Proved!Unlink, Central!Page!Forget, Proved!Forget,
         Central!Page!Drop, Proved!Drop
<1> QED
  BY <1>1, <1>2, PageAssumption, Proved!GiveBackPart

LEMMA PagesUnchanged ==
  ASSUME Proved!Inv, UNCHANGED Central!pages
  PROVE  Proved!Inv'
<1>1. (Proved!Inv <=> Proved!Parts) /\ (Proved!Inv' <=> Proved!Parts')
  BY PageAssumption, Proved!InvParts
<1> QED
  BY <1>1 DEF Proved!Parts, Proved!Spans, Proved!FreeSpans, Central!pages

-----------------------------------------------------------------------------
(* Blocks and lists of blocks.                                             *)

Blocks == {b \in [span : 1..LastPage, class : Classes, no : Nat] : b.no \in 1..BlockNum[b.class]}

\* A list of blocks of class c, no block twice.
ListOf(l, c) == /\ l \in Seq(Blocks)
                /\ \A i \in DOMAIN l : l[i].class = c
                /\ \A i \in DOMAIN l : \A j \in DOMAIN l : l[i] = l[j] => i = j

LEMMA BlockFields ==
  ASSUME NEW b \in Blocks
  PROVE  /\ b.span \in 1..LastPage /\ b.class \in Classes /\ b.no \in 1..BlockNum[b.class]
         /\ Central!SpanOf(b) = Span(b.span, SpanPages[b.class])
BY SameSpans DEF Blocks, Central!SpanOf

LEMMA NewBlock ==
  ASSUME NEW p \in 1..LastPage, NEW c \in Classes, NEW n \in 1..BlockNum[c]
  PROVE  LET b == Central!Block(p, c, n)
         IN  b \in Blocks /\ b.span = p /\ b.class = c /\ b.no = n
BY MemoryPoolAssumption DEF Blocks, Central!Block

\* A block starts in the pages of its span.
LEMMA BlockInside ==
  ASSUME NEW b \in Blocks
  PROVE  Central!Addr(b) \in b.span..(b.span + SpanPages[b.class] - 1)
<1> DEFINE N == BlockNum[b.class]
           P == SpanPages[b.class]
           x == (b.no - 1) * P
           q == x \div N
<1>1. N \in Nat \ {0} /\ P \in Nat \ {0} /\ b.no \in 1..N /\ b.span \in Int
  BY BlockFields, MemoryPoolAssumption
<1> HIDE DEF N, P
<1>2. x \in Nat /\ x <= (N - 1) * P
  BY <1>1
<1>3. (N - 1) * P < N * P
  BY <1>1
<1>4. x < N * P
  <2>1. (N - 1) * P \in Int /\ N * P \in Int
    BY <1>1
  <2> HIDE DEF x
  <2> QED
    BY <1>2, <1>3, <2>1
<1> HIDE DEF x
<1>5. q \in Nat /\ q * N <= x
  BY <1>1, <1>2
<1> HIDE DEF q
<1>6. q < P
  <2> SUFFICES ASSUME q >= P PROVE FALSE
    BY <1>1, <1>5
  <2>1. N * P <= q * N
    BY <1>1, <1>5
  <2>2. q * N \in Int /\ N * P \in Int
    BY <1>1, <1>5
  <2> QED
    BY <1>2, <1>4, <1>5, <2>1, <2>2
<1>7. Central!Addr(b) = b.span + q
  BY DEF Central!Addr, q, x, N, P
<1> QED
  BY <1>1, <1>5, <1>6, <1>7 DEF P

LEMMA ListLength ==
  ASSUME NEW c, NEW l, ListOf(l, c)
  PROVE  /\ DOMAIN l = 1..Len(l) /\ Len(l) \in Nat
         /\ l \in Seq(Central!Elements(l))
         /\ Central!Elements(l) \subseteq Blocks
         /\ \A b \in Central!Elements(l) : b.class = c
<1>1. DOMAIN l = 1..Len(l) /\ Len(l) \in Nat /\ \A i \in DOMAIN l : l[i] \in Blocks
  BY LenProperties, ElementOfSeq DEF ListOf
<1>2. l = [i \in 1..Len(l) |-> l[i]]
  BY <1>1 DEF ListOf
<1> QED
  BY <1>1, <1>2 DEF ListOf, Central!Elements

\* CentralCache counts with an operator of its own.
LEMMA SameCardinality == \A S : Central!Cardinality(S) = Cardinality(S)
BY DEF Central!Cardinality, Cardinality

\* A list without repetitions has as many elements as places.
LEMMA ListCardinality ==
  ASSUME NEW c, NEW l, ListOf(l, c)
  PROVE  Cardinality(Central!Elements(l)) = Len(l)
<1>1. DOMAIN l = 1..Len(l) /\ Len(l) \in Nat
  BY ListLength
<1>2. l \in Bijection(1..Len(l), Central!Elements(l))
  BY <1>1, ListLength DEF ListOf, Central!Elements, Bijection, Injection, Surjection, IsInjective
<1>3. ExistsBijection(1..Len(l), Central!Elements(l))
  BY <1>2 DEF ExistsBijection
<1> QED
  BY <1>1, <1>3, FS_CountingElements

LEMMA EmptyList ==
  \A c : ListOf(<<>>, c) /\ Central!Elements(<<>>) = {} /\ Len(<<>>) = 0
<1>1. <<>> \in Seq(Blocks) /\ DOMAIN <<>> = {} /\ Len(<<>>) = 0
  OBVIOUS
<1> QED
  BY <1>1 DEF ListOf, Central!Elements

LEMMA ListHead ==
  ASSUME NEW c, NEW l, ListOf(l, c), l # <<>>
  PROVE  /\ ListOf(Tail(l), c) /\ Len(Tail(l)) = Len(l) - 1 /\ Len(l) > 0
         /\ Head(l) \in Central!Elements(l)
         /\ Central!Elements(Tail(l)) = Central!Elements(l) \ {Head(l)}
<1>1. DOMAIN l = 1..Len(l) /\ Len(l) \in Nat /\ Len(l) > 0 /\ Head(l) = l[1]
  BY ListLength DEF ListOf
<1>2. /\ Tail(l) \in Seq(Blocks) /\ Len(Tail(l)) = Len(l) - 1
      /\ \A i \in 1..(Len(l) - 1) : Tail(l)[i] = l[i + 1]
  BY <1>1, HeadTailProperties DEF ListOf
<1>3. DOMAIN Tail(l) = 1..(Len(l) - 1)
  BY <1>2, LenProperties
<1> DEFINE m == Tail(l)
<1> HIDE DEF m
<1>4. DOMAIN m = 1..(Len(l) - 1) /\ \A i \in DOMAIN m : i + 1 \in DOMAIN l /\ m[i] = l[i + 1]
  BY <1>1, <1>2, <1>3 DEF m
<1>5. ListOf(m, c)
  <2>1. \A i \in DOMAIN m : m[i].class = c
    BY <1>4 DEF ListOf
  <2>2. ASSUME NEW i \in DOMAIN m, NEW j \in DOMAIN m, m[i] = m[j] PROVE i = j
    <3>1. i + 1 = j + 1
      BY <1>4, <2>2 DEF ListOf
    <3> QED
      BY <1>1, <1>4, <3>1
  <2> QED
    BY <1>2, <2>1, <2>2 DEF ListOf, m
<1>6. ASSUME NEW b
      PROVE  b \in Central!Elements(m) <=> b \in Central!Elements(l) /\ b # l[1]
  <2>1. ASSUME NEW i \in DOMAIN m, b = m[i] PROVE b \in Central!Elements(l) /\ b # l[1]
    <3>1. i + 1 \in DOMAIN l /\ i + 1 # 1 /\ 1 \in DOMAIN l /\ b = l[i + 1]
      BY <1>1, <1>4, <2>1
    <3> QED
      BY <3>1 DEF ListOf, Central!Elements
  <2>2. ASSUME NEW i \in DOMAIN l, b = l[i], b # l[1] PROVE \E j \in DOMAIN m : b = m[j]
    <3>1. i - 1 \in DOMAIN m /\ (i - 1) + 1 = i
      BY <1>1, <1>4, <2>2
    <3> QED
      BY <1>4, <2>2, <3>1
  <2> QED
    BY <2>1, <2>2 DEF Central!Elements
<1> QED
  <2>1. Head(l) \in Central!Elements(l)
    BY <1>1 DEF Central!Elements
  <2>2. Central!Elements(m) = Central!Elements(l) \ {Head(l)}
    BY <1>1, <1>6
  <2> QED
    BY <1>1, <1>2, <1>5, <2>1, <2>2 DEF m

\* Two lists with nothing in common.
Joins(m, k, l, c) == /\ ListOf(m, c) /\ Len(m) = Len(k) + Len(l)
                     /\ Central!Elements(m) = Central!Elements(k) \cup Central!Elements(l)

LEMMA ListConcat ==
  ASSUME NEW c, NEW k, NEW l, ListOf(k, c), ListOf(l, c),
         Central!Elements(k) \cap Central!Elements(l) = {}
  PROVE  Joins(k \o l, k, l, c)
<1> DEFINE m == k \o l
<1>1. /\ DOMAIN k = 1..Len(k) /\ Len(k) \in Nat
      /\ DOMAIN l = 1..Len(l) /\ Len(l) \in Nat
      /\ k \in Seq(Blocks) /\ l \in Seq(Blocks)
  BY ListLength DEF ListOf
<1>2. /\ m \in Seq(Blocks) /\ Len(m) = Len(k) + Len(l)
      /\ \A i \in 1..(Len(k) + Len(l)) : m[i] = IF i <= Len(k) THEN k[i] ELSE l[i - Len(k)]
  BY <1>1, ConcatProperties
<1>3. DOMAIN m = 1..(Len(k) + Len(l))
  BY <1>2, LenProperties
<1> HIDE DEF m
<1>4. \A i \in DOMAIN m : \/ i \in DOMAIN k /\ m[i] = k[i]
                          \/ /\ i - Len(k) \in DOMAIN l /\ m[i] = l[i - Len(k)]
                             /\ i \notin DOMAIN k
  BY <1>1, <1>2, <1>3
<1>5. \A i \in DOMAIN k : i \in DOMAIN m /\ m[i] = k[i]
  BY <1>1, <1>2, <1>3
<1>6. \A i \in DOMAIN l : i + Len(k) \in DOMAIN m /\ m[i + Len(k)] = l[i]
  <2> SUFFICES ASSUME NEW i \in DOMAIN l PROVE i + Len(k) \in DOMAIN m /\ m[i + Len(k)] = l[i]
    OBVIOUS
  <2>1. i + Len(k) \in 1..(Len(k) + Len(l)) /\ ~(i + Len(k) <= Len(k)) /\ (i + Len(k)) - Len(k) = i
    BY <1>1
  <2> QED
    BY <1>2, <1>3, <2>1
<1>7. ASSUME NEW i \in DOMAIN m, NEW j \in DOMAIN m, m[i] = m[j] PROVE i = j
  <2>0. \A p \in DOMAIN k, q \in DOMAIN l : k[p] # l[q]
    BY DEF Central!Elements
  <2>1. \/ i \in DOMAIN k /\ j \in DOMAIN k /\ k[i] = k[j]
        \/ /\ i - Len(k) \in DOMAIN l /\ j - Len(k) \in DOMAIN l
           /\ l[i - Len(k)] = l[j - Len(k)]
    BY <1>4, <1>7, <2>0
  <2>2. i = j \/ i - Len(k) = j - Len(k)
    BY <2>1 DEF ListOf
  <2> QED
    BY <1>1, <1>3, <2>2
<1>8. \A i \in DOMAIN m : m[i].class = c
  BY <1>4 DEF ListOf
<1>9. ListOf(m, c)
  BY <1>2, <1>7, <1>8 DEF ListOf
<1>10. ASSUME NEW b
       PROVE  b \in Central!Elements(m) <=> b \in Central!Elements(k) \/ b \in Central!Elements(l)
  BY <1>4, <1>5, <1>6 DEF Central!Elements
<1> QED
  BY <1>2, <1>9, <1>10 DEF m, Joins, Central!Elements

\* The first n blocks of a list and the others.
LEMMA ListCut ==
  ASSUME NEW c, NEW l, ListOf(l, c), NEW n \in 0..Len(l)
  PROVE  LET k == SubSeq(l, 1, n)
             m == SubSeq(l, n + 1, Len(l))
         IN  /\ ListOf(k, c) /\ Len(k) = n
             /\ ListOf(m, c) /\ Len(m) = Len(l) - n
             /\ Central!Elements(k) \cup Central!Elements(m) \subseteq Central!Elements(l)
             /\ Central!Elements(k) \cap Central!Elements(m) = {}
<1> DEFINE k == SubSeq(l, 1, n)
           m == SubSeq(l, n + 1, Len(l))
<1>0. Len(l) \in Nat /\ n \in Nat /\ n <= Len(l)
  BY ListLength
<1>1. DOMAIN l = 1..Len(l) /\ Len(l) \in Nat /\ n \in Nat /\ n <= Len(l)
  BY <1>0, ListLength
<1>2. \A i \in 1..Len(l) : l[i] \in Blocks
  BY <1>1, ElementOfSeq DEF ListOf
<1>3. k \in Seq(Blocks) /\ Len(k) = n /\ \A i \in 1..n : k[i] = l[i]
  <2>1. \A i \in 1..n : l[i] \in Blocks
    BY <1>1, <1>2
  <2>2. /\ k \in Seq(Blocks)
        /\ Len(k) = IF 1 <= n THEN n - 1 + 1 ELSE 0
        /\ \A i \in 1..(n - 1 + 1) : k[i] = l[1 + i - 1]
    BY <1>1, <2>1, SubSeqProperties, n \in Int
  <2> QED
    BY <1>1, <2>2
<1>4. m \in Seq(Blocks) /\ Len(m) = Len(l) - n /\ \A i \in 1..(Len(l) - n) : m[i] = l[n + i]
  <2>1. \A i \in (n + 1)..Len(l) : l[i] \in Blocks
    BY <1>1, <1>2
  <2>2. /\ m \in Seq(Blocks)
        /\ Len(m) = IF n + 1 <= Len(l) THEN Len(l) - (n + 1) + 1 ELSE 0
        /\ \A i \in 1..(Len(l) - (n + 1) + 1) : m[i] = l[(n + 1) + i - 1]
    BY <1>1, <2>1, SubSeqProperties, n + 1 \in Int
  <2> HIDE DEF m
  <2>3. Len(m) = Len(l) - n
    <3>1. CASE n + 1 <= Len(l)
      <4>1. Len(m) = Len(l) - (n + 1) + 1
        BY <2>2, <3>1
      <4> QED
        BY <1>1, <4>1
    <3>2. CASE ~(n + 1 <= Len(l))
      <4>1. Len(m) = 0
        BY <2>2, <3>2
      <4>2. Len(l) = n /\ n - n = 0
        BY <1>0, <3>2
      <4> QED
        BY <4>1, <4>2
    <3> QED
      BY <3>1, <3>2
  <2>4. \A i \in 1..(Len(l) - n) : i \in 1..(Len(l) - (n + 1) + 1) /\ (n + 1) + i - 1 = n + i
    BY <1>1
  <2> QED
    BY <2>2, <2>3, <2>4
<1>5. DOMAIN k = 1..n /\ DOMAIN m = 1..(Len(l) - n)
  BY <1>3, <1>4, LenProperties
<1> HIDE DEF k, m
<1>6. \A i \in DOMAIN k : i \in DOMAIN l /\ k[i] = l[i] /\ i <= n
  BY <1>1, <1>3, <1>5
<1>7. \A i \in DOMAIN m : n + i \in DOMAIN l /\ m[i] = l[n + i] /\ ~(n + i <= n)
  BY <1>1, <1>4, <1>5
<1>8. ListOf(k, c)
  BY <1>3, <1>6 DEF ListOf
<1>9. ListOf(m, c)
  <2>1. ASSUME NEW i \in DOMAIN m, NEW j \in DOMAIN m, m[i] = m[j] PROVE i = j
    <3>1. n + i = n + j
      BY <1>7, <2>1 DEF ListOf
    <3> QED
      BY <1>1, <1>5, <3>1
  <2>2. \A i \in DOMAIN m : m[i].class = c
    BY <1>7 DEF ListOf
  <2> QED
    BY <1>4, <2>1, <2>2 DEF ListOf
<1>10. \A i \in DOMAIN k, j \in DOMAIN m : k[i] # m[j]
  BY <1>6, <1>7 DEF ListOf
<1>11. Central!Elements(k) \cap Central!Elements(m) = {}
  BY <1>10 DEF Central!Elements
<1>12. Central!Elements(k) \cup Central!Elements(m) \subseteq Central!Elements(l)
  BY <1>6, <1>7 DEF Central!Elements
<1> QED
  BY <1>3, <1>4, <1>8, <1>9, <1>11, <1>12 DEF k, m

LEMMA OneBlock ==
  ASSUME NEW b \in Blocks
  PROVE  ListOf(<<b>>, b.class) /\ Central!Elements(<<b>>) = {b} /\ Len(<<b>>) = 1
<1>1. <<b>> \in Seq(Blocks) /\ DOMAIN <<b>> = {1} /\ <<b>>[1] = b /\ Len(<<b>>) = 1
  OBVIOUS
<1> QED
  BY <1>1 DEF ListOf, Central!Elements

-----------------------------------------------------------------------------
(* The list without the blocks of some pages.  The function that builds it *)
(* exists, and keeps what is said of it, by the least counterexample.      *)

LEMMA Least ==
  ASSUME NEW S \in SUBSET Nat, S # {}
  PROVE  \E n \in S : \A m \in S : n <= m
<1> DEFINE R == {p \in Nat \X Nat : p[1] < p[2]}
<1>1. IsWellFoundedOn(R, Nat)
  BY NatLessThanWellFounded DEF OpToRel
<1> HIDE DEF R
<1>2. PICK n \in S : \A m \in S : <<m, n>> \notin R
  BY <1>1, WFMin
<1>3. ASSUME NEW m \in S PROVE n <= m
  <2>1. m \in Nat /\ n \in Nat /\ <<m, n>> \notin R
    BY <1>2
  <2>2. ~(m < n)
    BY <2>1 DEF R
  <2> QED BY <2>1, <2>2
<1> QED BY <1>3

Keeps(l, ps, n, f) == f = [i \in 0..n |-> IF i = 0 THEN <<>>
                                           ELSE IF Central!Addr(l[i]) \in ps THEN f[i - 1]
                                           ELSE Append(f[i - 1], l[i])]

Unfolded(l, ps, n, f) ==
  \A i \in 1..n : f[i] = IF Central!Addr(l[i]) \in ps THEN f[i - 1] ELSE Append(f[i - 1], l[i])

LEMMA KeepsUnfolded ==
  ASSUME NEW l, NEW ps, NEW n \in Nat, NEW f, Keeps(l, ps, n, f)
  PROVE  f[0] = <<>> /\ Unfolded(l, ps, n, f)
<1>1. 0 \in 0..n /\ \A i \in 1..n : i \in 0..n /\ i # 0
  OBVIOUS
<1> QED
  BY <1>1 DEF Keeps, Unfolded

LEMMA KeepsExists ==
  ASSUME NEW l, NEW ps
  PROVE  \A n \in Nat : \E f : Keeps(l, ps, n, f)
<1> DEFINE Bad == {n \in Nat : ~ \E f : Keeps(l, ps, n, f)}
<1> SUFFICES ASSUME Bad # {} PROVE FALSE
  OBVIOUS
<1>1. PICK n \in Bad : \A m \in Bad : n <= m
  BY Least
<1>2. n # 0
  <2> DEFINE f == [i \in 0..0 |-> <<>>]
  <2>1. 0..0 = {0}
    OBVIOUS
  <2>2. Keeps(l, ps, 0, f)
    BY <2>1 DEF Keeps
  <2> QED
    BY <2>2
<1>3. n - 1 \in Nat /\ n \in Nat
  BY <1>2
<1>4. n - 1 \notin Bad
  BY <1>1, <1>3
<1>5. PICK f : Keeps(l, ps, n - 1, f)
  BY <1>3, <1>4
<1> DEFINE last == IF Central!Addr(l[n]) \in ps THEN f[n - 1] ELSE Append(f[n - 1], l[n])
           g == [i \in 0..n |-> IF i = n THEN last ELSE f[i]]
<1>6. Keeps(l, ps, n, g)
  <2>1. \A i \in 0..n : i = n \/ i \in 0..(n - 1)
    BY <1>3
  <2>2. f[0] = <<>> /\ \A i \in 1..(n - 1) :
                         f[i] = IF Central!Addr(l[i]) \in ps THEN f[i - 1] ELSE Append(f[i - 1], l[i])
    BY <1>3, <1>5, KeepsUnfolded DEF Unfolded
  <2>3. \A i \in 0..(n - 1) : g[i] = f[i]
    BY <1>3
  <2>4. g[n] = last
    BY <1>3
  <2>5. g = [i \in 0..n |-> g[i]]
    OBVIOUS
  <2> HIDE DEF g
  <2>6. \A i \in 0..n : g[i] = IF i = 0 THEN <<>>
                               ELSE IF Central!Addr(l[i]) \in ps THEN g[i - 1]
                               ELSE Append(g[i - 1], l[i])
    <3> SUFFICES ASSUME NEW i \in 0..n
                 PROVE  g[i] = IF i = 0 THEN <<>>
                               ELSE IF Central!Addr(l[i]) \in ps THEN g[i - 1]
                               ELSE Append(g[i - 1], l[i])
      OBVIOUS
    <3>1. CASE i = 0
      BY <1>2, <1>3, <2>2, <2>3, <3>1
    <3>2. CASE i = n
      <4>1. n - 1 \in 0..(n - 1)
        BY <1>3
      <4> QED
        BY <1>2, <2>3, <2>4, <3>2, <4>1
    <3>3. CASE i # 0 /\ i # n
      <4>1. i \in 1..(n - 1) /\ i \in 0..(n - 1) /\ i - 1 \in 0..(n - 1)
        BY <1>3, <3>3
      <4> QED
        BY <2>2, <2>3, <3>3, <4>1
    <3> QED
      BY <3>1, <3>2, <3>3
  <2> QED
    BY <2>5, <2>6 DEF Keeps
<1> HIDE DEF g
<1> QED
  BY <1>1, <1>6


Kept(m, l, c, ps, n) ==
  ListOf(m, c) /\ \A b \in Central!Elements(m) : /\ Central!Addr(b) \notin ps
                                                 /\ \E j \in 1..n : b = l[j]

LEMMA KeptStep ==
  ASSUME NEW c, NEW l, ListOf(l, c), NEW ps, NEW n \in 1..Len(l), NEW m, Kept(m, l, c, ps, n - 1)
  PROVE  Kept(IF Central!Addr(l[n]) \in ps THEN m ELSE Append(m, l[n]), l, c, ps, n)
<1>1. n \in Int /\ 1..(n - 1) \subseteq 1..n /\ n \in 1..n /\ n \notin 1..(n - 1)
  OBVIOUS
<1>2. n \in DOMAIN l /\ 1..(n - 1) \subseteq DOMAIN l
  <2>1. DOMAIN l = 1..Len(l) /\ Len(l) \in Nat
    BY ListLength
  <2>2. 1..(n - 1) \subseteq 1..Len(l)
    BY <2>1
  <2> QED
    BY <2>1, <2>2
<1>3. CASE Central!Addr(l[n]) \in ps
  BY <1>1, <1>3 DEF Kept
<1>4. CASE Central!Addr(l[n]) \notin ps
  <2> DEFINE x == l[n]
  <2>1. x \in Blocks /\ x.class = c
    BY <1>2, ElementOfSeq DEF ListOf
  <2>2. x \notin Central!Elements(m)
    BY <1>1, <1>2 DEF Kept, ListOf
  <2> HIDE DEF x
  <2>3. ListOf(<<x>>, c) /\ Central!Elements(<<x>>) = {x}
    BY <2>1, OneBlock
  <2>4. /\ ListOf(m \o <<x>>, c)
        /\ Central!Elements(m \o <<x>>) = Central!Elements(m) \cup {x}
    <3>1. ListOf(m, c) /\ Central!Elements(m) \cap Central!Elements(<<x>>) = {}
      BY <2>2, <2>3 DEF Kept
    <3>2. Joins(m \o <<x>>, m, <<x>>, c)
      BY <2>3, <3>1, ListConcat
    <3> QED
      BY <2>3, <3>2 DEF Joins
  <2>5. Append(m, x) = m \o <<x>>
    <3>1. m \in Seq(Blocks)
      BY DEF Kept, ListOf
    <3> QED
      BY <2>1, <3>1
  <2>6. Kept(Append(m, x), l, c, ps, n)
    BY <1>1, <1>4, <2>4, <2>5 DEF Kept, x
  <2> QED
    BY <1>4, <2>6 DEF x
<1> QED
  BY <1>3, <1>4

LEMMA KeepsKept ==
  ASSUME NEW c, NEW l, ListOf(l, c), NEW ps, NEW f, Keeps(l, ps, Len(l), f)
  PROVE  Kept(f[Len(l)], l, c, ps, Len(l))
<1> DEFINE L == Len(l)
           Bad == {n \in 0..L : ~ Kept(f[n], l, c, ps, n)}
<1>0. L \in Nat /\ Keeps(l, ps, L, f)
  BY ListLength
<1> HIDE DEF L
<1>1. /\ f[0] = <<>>
      /\ \A i \in 1..L : f[i] = IF Central!Addr(l[i]) \in ps THEN f[i - 1]
                                                           ELSE Append(f[i - 1], l[i])
  <2> HIDE DEF Bad
  <2>1. f[0] = <<>> /\ Unfolded(l, ps, L, f)
    BY <1>0, KeepsUnfolded
  <2> QED
    BY <2>1 DEF Unfolded
<1>2. Bad = {}
  <2> SUFFICES ASSUME Bad # {} PROVE FALSE
    OBVIOUS
  <2>1. Bad \in SUBSET Nat
    BY <1>0
  <2>2. PICK n \in Bad : \A m \in Bad : n <= m
    BY <2>1, Least
  <2>3. n \in 0..L /\ n \in Nat
    BY <1>0, <2>2
  <2>4. n # 0
    <3>1. Kept(<<>>, l, c, ps, 0)
      BY EmptyList DEF Kept
    <3> QED
      BY <1>1, <2>2, <3>1
  <2>5. n \in 1..L /\ n - 1 \in 0..L /\ ~(n <= n - 1)
    BY <1>0, <2>3, <2>4
  <2>6. Kept(f[n - 1], l, c, ps, n - 1)
    BY <2>2, <2>5
  <2>7. f[n] = IF Central!Addr(l[n]) \in ps THEN f[n - 1] ELSE Append(f[n - 1], l[n])
    BY <1>1, <2>5
  <2>8. n \in 1..Len(l)
    BY <2>5 DEF L
  <2>9. Kept(f[n], l, c, ps, n)
    BY <2>6, <2>7, <2>8, KeptStep
  <2> QED
    BY <2>2, <2>9
<1> QED
  BY <1>0, <1>2 DEF L

\* updateSpanFreeCount() leaves no block of the span's pages in the list.
LEMMA ListUnlinked ==
  ASSUME NEW c, NEW l, ListOf(l, c), NEW tracker
  PROVE  LET m == Central!Unlink(l, tracker)
         IN  /\ ListOf(m, c)
             /\ Central!Elements(m) \subseteq Central!Elements(l)
             /\ \A b \in Central!Elements(m) : Central!Addr(b) \notin Central!PagesOf(tracker)
<1> DEFINE ps == Central!PagesOf(tracker)
           m == Central!Unlink(l, tracker)
<1>1. CASE m = <<>>
  BY <1>1, EmptyList
<1>2. CASE m = Central!Without(l, ps)
  <2>1. Len(l) \in Nat /\ DOMAIN l = 1..Len(l)
    BY ListLength
  <2> DEFINE f == CHOOSE f : Keeps(l, ps, Len(l), f)
  <2>2. Keeps(l, ps, Len(l), f)
    BY <2>1, KeepsExists
  <2>3. Central!Without(l, ps) = f[Len(l)]
    BY DEF Central!Without, Keeps
  <2> HIDE DEF f, ps
  <2>4. Kept(m, l, c, ps, Len(l))
    BY <1>2, <2>2, <2>3, KeepsKept
  <2> HIDE DEF m
  <2>5. \A b \in Central!Elements(m) : b \in Central!Elements(l)
    BY <2>1, <2>4 DEF Kept, Central!Elements
  <2> QED
    BY <2>4, <2>5 DEF Kept, m, ps
<1> QED
  BY <1>1, <1>2 DEF Central!Unlink

-----------------------------------------------------------------------------
(* The invariant.                                                          *)

\* A tracker is that of a span with several blocks.
TrackerType ==
  {tr \in [page : 1..LastPage, pages : 1..LastPage, blockCount : Nat,
           freeCount : -MaxFreeCount..MaxFreeCount] :
     \E c \in Classes : BlockNum[c] > 1 /\ tr.pages = SpanPages[c]}

\* What is left to do for the tracker of one span, of n trackers.
Counts(n) == [tracker : 1..n, free : Nat]

\* What the thread that holds a lock has to do yet.
Section(l, n) == \/ l = Central!Unlocked
                 \/ \E p \in 1..LastPage : \E u \in BOOLEAN :
                      l = [step |-> "cut", page |-> p, used |-> u]
                 \/ \E T \in SUBSET Counts(n) : l = [step |-> "settle", todo |-> T]

CentralTyped ==
  /\ list \in [Classes -> Seq(Blocks)] /\ \A c \in Classes : ListOf(list[c], c)
  /\ users \subseteq Blocks
  /\ trackers \in Seq(TrackerType)
  /\ delayCount \in [Classes -> 0..(MaxDelayCount - 1)]
  /\ DOMAIN lock = Classes /\ \A c \in Classes : Section(lock[c], Len(trackers))
  /\ corrupted \in {"no", "freed", "link"}

\* A lock is held as long as its one holder is in CentralCache for this class.
Holding == /\ inside \in [Threads -> Classes \cup {NoClass}]
           /\ \A c \in Classes : lock[c] # Central!Unlocked <=> \E t \in Threads : inside[t] = c
           /\ \A t, u \in Threads : inside[t] \in Classes /\ inside[t] = inside[u] => t = u

\* The blocks of spans that CentralCache has cut and holds.
Out == users \cup Central!InLists

Backed ==
  /\ corrupted = "no" => \A b \in Out : Span(b.span, SpanPages[b.class]) \in held
  /\ users \cap Central!InLists = {}
  /\ \A b, d \in Out : b.span = d.span => b.class = d.class

\* A span that is about to be cut has no blocks yet, and no other thread cuts it.
BeingCut(c) == lock[c].step = "cut"
Cuts == \A c \in Classes : BeingCut(c) =>
          /\ list[c] = <<>>
          /\ corrupted = "no" => Span(lock[c].page, SpanPages[c]) \in held
          /\ \A b \in Out : b.span # lock[c].page
          /\ \A d \in Classes : BeingCut(d) /\ lock[d].page = lock[c].page => c = d

\* What a thread's cache has is out, and nobody else has it.
Caches ==
  /\ freeList \in [Threads -> [Classes -> Seq(Blocks)]]
  /\ \A t \in Threads, c \in Classes : ListOf(freeList[t][c], c)
  /\ \A t \in Threads : Cached(t) \subseteq users
  /\ \A t, u \in Threads : t # u => Cached(t) \cap Cached(u) = {}

\* The counter of a list of n blocks, when failed fetches have taken k from it.
Short(n, k) == IF n >= k THEN n - k ELSE n - k + SizeMod

\* A counter is off by no more than the failed fetches of its thread.
Counted ==
  /\ failures \in [Threads -> 0..MaxFailures]
  /\ freeListSize \in [Threads -> [Classes -> 0..(SizeMod - 1)]]
  /\ \A t \in Threads, c \in Classes :
       /\ \E k \in 0..failures[t] : freeListSize[t][c] = Short(Len(freeList[t][c]), k)
       /\ Len(freeList[t][c]) <= Threshold + failures[t]

CentralInv == Proved!Inv /\ CentralTyped /\ Backed /\ Cuts
Inv == CentralInv /\ Holding /\ Caches /\ Counted

-----------------------------------------------------------------------------
(* Sections and trackers.                                                  *)

LEMMA SectionCases ==
  ASSUME NEW n, NEW l, Section(l, n)
  PROVE  /\ l = Central!Unlocked => l.step = "unlocked"
         /\ l.step = "cut" => l.page \in 1..LastPage /\ l.used \in BOOLEAN
         /\ l.step = "settle" => l.todo \in SUBSET Counts(n)
         /\ l.step \in {"unlocked", "cut", "settle"}
BY DEF Section, Central!Unlocked

LEMMA SectionUnlocked ==
  /\ Central!Unlocked.step = "unlocked"
  /\ \A n : Section(Central!Unlocked, n)
BY DEF Section, Central!Unlocked

LEMMA SectionCut ==
  ASSUME NEW n, NEW p \in 1..LastPage, NEW u \in BOOLEAN
  PROVE  LET l == [step |-> "cut", page |-> p, used |-> u]
         IN  Section(l, n) /\ l.step = "cut" /\ l.page = p /\ l # Central!Unlocked
BY DEF Section, Central!Unlocked

LEMMA SectionSettle ==
  ASSUME NEW n, NEW T \in SUBSET Counts(n)
  PROVE  LET l == Central!Settle(T)
         IN  Section(l, n) /\ l.step # "cut"
BY DEF Section, Central!Unlocked, Central!Settle

LEMMA SectionGrows ==
  ASSUME NEW n \in Nat, NEW m \in Nat, n <= m, NEW l, Section(l, n)
  PROVE  Section(l, m)
<1>1. Counts(n) \subseteq Counts(m)
  BY DEF Counts
<1>2. SUBSET Counts(n) \subseteq SUBSET Counts(m)
  BY <1>1
<1> QED
  BY <1>2 DEF Section

\* The lock of one class changes.
LEMMA LocksAfter ==
  ASSUME CentralTyped, NEW c \in Classes, NEW l, NEW n \in Nat, Len(trackers) <= n,
         Section(l, n), lock' = [lock EXCEPT ![c] = l]
  PROVE  /\ DOMAIN lock' = Classes /\ \A d \in Classes : Section(lock'[d], n)
         /\ lock'[c] = l /\ \A d \in Classes \ {c} : lock'[d] = lock[d]
<1>1. DOMAIN lock = Classes /\ Len(trackers) \in Nat
      /\ \A d \in Classes : Section(lock[d], Len(trackers))
  BY LenProperties DEF CentralTyped
<1>2. \A d \in Classes : Section(lock[d], n)
  BY <1>1, SectionGrows
<1> QED
  BY <1>1, <1>2

LEMMA TrackerFields ==
  ASSUME NEW tr \in TrackerType
  PROVE  /\ tr.page \in 1..LastPage /\ tr.pages \in 1..LastPage /\ tr.blockCount \in Nat
         /\ tr.freeCount \in -MaxFreeCount..MaxFreeCount
         /\ \E c \in Classes : BlockNum[c] > 1 /\ tr.pages = SpanPages[c]
BY DEF TrackerType

\* A counter of a tracker changes.
LEMMA TrackersAfter ==
  ASSUME trackers \in Seq(TrackerType), NEW k \in DOMAIN trackers,
         NEW v \in -MaxFreeCount..MaxFreeCount,
         trackers' = [trackers EXCEPT ![k].freeCount = v]
  PROVE  trackers' \in Seq(TrackerType) /\ Len(trackers') = Len(trackers)
<1>1. trackers[k] \in TrackerType
  BY ElementOfSeq, LenProperties
<1> DEFINE tr == [trackers[k] EXCEPT !.freeCount = v]
<1>2. tr \in TrackerType
  BY <1>1 DEF TrackerType
<1>3. trackers' = [trackers EXCEPT ![k] = tr]
  OBVIOUS
<1> HIDE DEF tr
<1>4. k \in 1..Len(trackers)
  BY LenProperties
<1> QED
  BY <1>2, <1>3, <1>4, ExceptSeq

\* getSpanTracker() finds one of the trackers.
LEMMA TrackerFound ==
  ASSUME trackers \in Seq(TrackerType), NEW b, Central!Tracking(b) # {}
  PROVE  Central!Tracker(b) \in DOMAIN trackers
<1> DEFINE S == Central!Tracking(b)
<1>1. S \subseteq DOMAIN trackers
  BY DEF Central!Tracking
<1>2. S \in SUBSET Nat
  BY <1>1, LenProperties
<1> HIDE DEF S
<1>3. \E i \in S : \A j \in S : i <= j
  BY <1>2, Least DEF S
<1>4. Central!Tracker(b) \in S
  BY <1>3 DEF Central!Tracker, S
<1> QED
  BY <1>1, <1>4

\* performDelayedReturn() counts blocks of existing trackers.
LEMMA FreeBlocksCounted ==
  ASSUME trackers \in Seq(TrackerType), NEW c, NEW l, ListOf(l, c)
  PROVE  Central!FreeBlocks(l) \in SUBSET Counts(Len(trackers))
<1>1. ASSUME NEW i \in Central!Tracked(l) PROVE Central!Tracker(l[i]) \in 1..Len(trackers)
  BY TrackerFound, LenProperties DEF Central!Tracked
<1>2. ASSUME NEW k PROVE Cardinality(Central!TrackedBy(k, l)) \in Nat
  <2>1. IsFiniteSet(DOMAIN l)
    BY ListLength, FS_Interval
  <2>2. Central!TrackedBy(k, l) \subseteq DOMAIN l
    BY DEF Central!TrackedBy, Central!Tracked
  <2> QED
    BY <2>1, <2>2, FS_Subset, FS_CardinalityType
<1> QED
  BY <1>1, <1>2, SameCardinality DEF Counts, Central!FreeBlocks

-----------------------------------------------------------------------------
(* The free lists of CentralCache, all classes together.                   *)

LEMMA InListsMember ==
  ASSUME NEW b
  PROVE  b \in Central!InLists <=> \E c \in Classes : b \in Central!Elements(list[c])
BY DEF Central!InLists

\* A list has blocks of its class only.
LEMMA OwnList ==
  ASSUME CentralTyped, NEW b \in Central!InLists
  PROVE  /\ b \in Blocks /\ b.class \in Classes
         /\ b \in Central!Elements(list[b.class])
<1>1. PICK c \in Classes : b \in Central!Elements(list[c])
  BY InListsMember
<1>2. ListOf(list[c], c)
  BY DEF CentralTyped
<1>3. b \in Blocks /\ b.class = c
  BY <1>1, <1>2, ListLength
<1> QED
  BY <1>1, <1>3

LEMMA OutBlocks == CentralTyped => Out \subseteq Blocks
BY OwnList DEF Out, CentralTyped

\* The list of one class changes.
LEMMA ListsAfter ==
  ASSUME CentralTyped, NEW c \in Classes, NEW m, ListOf(m, c), list' = [list EXCEPT ![c] = m]
  PROVE  /\ list' \in [Classes -> Seq(Blocks)] /\ \A d \in Classes : ListOf(list'[d], d)
         /\ list'[c] = m /\ \A d \in Classes \ {c} : list'[d] = list[d]
         /\ Central!InLists' = (Central!InLists \ Central!Elements(list[c]))
                                 \cup Central!Elements(m)
<1>1. /\ list'[c] = m /\ \A d \in Classes \ {c} : list'[d] = list[d]
      /\ list' \in [Classes -> Seq(Blocks)]
  BY DEF CentralTyped, ListOf
<1>2. \A d \in Classes : ListOf(list'[d], d)
  BY <1>1 DEF CentralTyped
<1>3. \A b : b \in Central!InLists' <=> \E d \in Classes : b \in Central!Elements(list'[d])
  BY DEF Central!InLists, Central!Elements
<1>4. \A d \in Classes \ {c} : \A b \in Central!Elements(list[d]) :
        b \notin Central!Elements(list[c])
  <2> SUFFICES ASSUME NEW d \in Classes \ {c}, NEW b \in Central!Elements(list[d]),
                      b \in Central!Elements(list[c])
               PROVE  FALSE
    OBVIOUS
  <2>1. ListOf(list[c], c) /\ ListOf(list[d], d)
    BY DEF CentralTyped
  <2>2. b.class = c /\ b.class = d
    BY <2>1, ListLength
  <2> QED
    BY <2>2
<1>5. ASSUME NEW b
      PROVE  b \in Central!InLists' <=> \/ b \in Central!InLists /\ b \notin Central!Elements(list[c])
                                        \/ b \in Central!Elements(m)
  BY <1>1, <1>3, <1>4, InListsMember
<1> QED
  BY <1>1, <1>2, <1>5

\* Blocks leave Out, and pages stay as they are.
LEMMA BackedShrinks ==
  ASSUME Backed, Out' \subseteq Out, (users \cap Central!InLists)' = {}, held' = held,
         corrupted' = "no" => corrupted = "no"
  PROVE  Backed'
BY DEF Backed

LEMMA CutsShrink ==
  ASSUME Cuts, Out' \subseteq Out, held' = held, corrupted' = "no" => corrupted = "no",
         \A c \in Classes : BeingCut(c)' => lock'[c] = lock[c] /\ list'[c] = list[c]
  PROVE  Cuts'
BY DEF Cuts, BeingCut

-----------------------------------------------------------------------------
(* The operations of CentralCache.  Each keeps CentralInv; what it does to *)
(* the lock and the blocks that are out is what the threads' part needs.   *)

\* What the thread that works on class c may do to the other locks: nothing.
OthersKept(c) == /\ DOMAIN lock = Classes /\ DOMAIN lock' = Classes
                 /\ \A d \in Classes \ {c} : lock'[d] = lock[d]

LEMMA FetchFromListCentral ==
  ASSUME CentralInv, NEW c \in Classes, Central!FetchFromList(c)
  PROVE  CentralInv' /\ OthersKept(c) /\ users \subseteq users' /\ lock'[c] = Central!Unlocked
<1> DEFINE b == Head(list[c])
           m == Tail(list[c])
<1>1. /\ Proved!Inv /\ CentralTyped /\ Backed /\ Cuts
      /\ corrupted = "no" /\ lock[c] = Central!Unlocked /\ list[c] # <<>>
      /\ users' = users \cup {b} /\ list' = [list EXCEPT ![c] = m]
      /\ UNCHANGED <<Central!pages, delayCount, lock, corrupted>>
      /\ UNCHANGED held
  BY DEF CentralInv, Central!FetchFromList, Central!Sound, Central!pages
<1>2. /\ ListOf(m, c) /\ b \in Central!Elements(list[c]) /\ b \in Blocks
      /\ Central!Elements(m) = Central!Elements(list[c]) \ {b}
  <2>1. ListOf(list[c], c)
    BY <1>1 DEF CentralTyped
  <2> QED
    BY <1>1, <2>1, ListHead, ListLength
<1>3. trackers' \in Seq(TrackerType) /\ Len(trackers') = Len(trackers)
  <2>1. CASE UNCHANGED trackers
    BY <1>1, <2>1 DEF CentralTyped
  <2>2. CASE /\ Central!Tracking(b) # {}
             /\ trackers[Central!Tracker(b)].freeCount > -MaxFreeCount
             /\ trackers' = [trackers EXCEPT ![Central!Tracker(b)].freeCount = @ - 1]
    <3> DEFINE k == Central!Tracker(b)
    <3>1. trackers \in Seq(TrackerType) /\ k \in DOMAIN trackers
      BY <1>1, <2>2, TrackerFound DEF CentralTyped
    <3> HIDE DEF k, b
    <3>2. trackers[k] \in TrackerType
      BY <3>1, ElementOfSeq, LenProperties
    <3>3. trackers[k].freeCount - 1 \in -MaxFreeCount..MaxFreeCount
      BY <2>2, <3>2, TrackerFields, MemoryPoolAssumption DEF k
    <3>4. trackers' = [trackers EXCEPT ![k].freeCount = trackers[k].freeCount - 1]
      BY <2>2 DEF k
    <3> QED
      BY <3>1, <3>3, <3>4, TrackersAfter
  <2> QED
    BY <2>1, <2>2 DEF Central!FetchFromList
<1> HIDE DEF b, m
<1>4. /\ list' \in [Classes -> Seq(Blocks)] /\ \A d \in Classes : ListOf(list'[d], d)
      /\ \A d \in Classes \ {c} : list'[d] = list[d]
      /\ Central!InLists' = Central!InLists \ {b}
      /\ b \in Central!InLists
  BY <1>1, <1>2, ListsAfter, InListsMember, ZenonT(60)
<1>5. CentralTyped'
  BY <1>1, <1>2, <1>3, <1>4 DEF CentralTyped
<1>6. Out' = Out /\ users' \cap Central!InLists' = {}
  BY <1>1, <1>4 DEF Out, Backed
<1>7. Backed'
  BY <1>1, <1>6, BackedShrinks
<1>8. Cuts'
  <2>1. ~BeingCut(c)
    BY <1>1, SectionUnlocked DEF BeingCut
  <2> QED
    BY <1>1, <1>4, <1>6, <2>1, CutsShrink DEF BeingCut
<1>9. Proved!Inv'
  BY <1>1, PagesUnchanged
<1> QED
  BY <1>1, <1>5, <1>7, <1>8, <1>9 DEF CentralInv, OthersKept, CentralTyped

\* allocateSpan() of the right size, with the class locked.
LEMMA FetchSpanCentral ==
  ASSUME CentralInv, NEW c \in Classes, Central!FetchSpan(c)
  PROVE  CentralInv' /\ OthersKept(c) /\ users \subseteq users' /\ lock'[c] # Central!Unlocked
<1>1. /\ Proved!Inv /\ CentralTyped /\ Backed /\ Cuts
      /\ corrupted = "no" /\ lock[c] = Central!Unlocked /\ list[c] = <<>>
      /\ Central!Page!SystemAlloc(SpanPages[c]) \/ Central!Page!TakeSpan(SpanPages[c])
      /\ UNCHANGED <<list, trackers, delayCount, users, corrupted>>
  BY DEF CentralInv, Central!FetchSpan, Central!Sound
<1>2. PICK a \in 1..LastPage : /\ held' = held \cup {Span(a, SpanPages[c])}
                               /\ \A r \in held : r.addr # a
  BY <1>1, PagesAllocated
<1>3. Span(a, SpanPages[c]) \notin held /\ Span(a, SpanPages[c]).addr = a
  BY <1>2 DEF Span
<1> DEFINE u == a \in mapped
           l == [step |-> "cut", page |-> a, used |-> u]
<1>4. lock' = [lock EXCEPT ![c] = l]
  <2>1. PICK s \in held' \ held :
          lock' = [lock EXCEPT ![c] = [step |-> "cut", page |-> s.addr, used |-> s.addr \in mapped]]
    BY DEF Central!FetchSpan
  <2>2. s = Span(a, SpanPages[c])
    BY <1>2, <2>1
  <2> QED
    BY <1>3, <2>1, <2>2
<1>5. /\ \A n : Section(l, n)
      /\ l.step = "cut" /\ l.page = a /\ l # Central!Unlocked
  <2>1. u \in BOOLEAN
    OBVIOUS
  <2> HIDE DEF u
  <2> QED
    BY <2>1, SectionCut
<1> HIDE DEF l
<1>6. /\ DOMAIN lock' = Classes /\ \A d \in Classes : Section(lock'[d], Len(trackers))
      /\ lock'[c] = l /\ \A d \in Classes \ {c} : lock'[d] = lock[d]
  BY <1>1, <1>4, <1>5, LocksAfter, LenProperties DEF CentralTyped
<1>7. CentralTyped'
  BY <1>1, <1>6 DEF CentralTyped
<1>8. Out' = Out /\ Central!InLists' = Central!InLists
  BY <1>1 DEF Out, Central!InLists, Central!Elements
<1>9. Backed'
  BY <1>1, <1>2, <1>8 DEF Backed
<1>10. ASSUME NEW b \in Out PROVE b.span # a
  <2>1. Span(b.span, SpanPages[b.class]) \in held
    BY <1>1 DEF Backed
  <2> QED
    BY <1>2, <2>1 DEF Span
<1>11. ASSUME NEW d \in Classes, d # c, BeingCut(d) PROVE lock[d].page # a
  <2>1. Span(lock[d].page, SpanPages[d]) \in held
    BY <1>1, <1>11 DEF Cuts
  <2> QED
    BY <1>2, <2>1 DEF Span
<1>12. Cuts'
  <2> SUFFICES ASSUME NEW d \in Classes, BeingCut(d)'
               PROVE  /\ list'[d] = <<>>
                      /\ corrupted' = "no" => Span(lock'[d].page, SpanPages[d]) \in held'
                      /\ \A b \in Out' : b.span # lock'[d].page
                      /\ \A e \in Classes : BeingCut(e)' /\ lock'[e].page = lock'[d].page => d = e
    BY DEF Cuts
  <2>1. CASE d = c
    BY <1>1, <1>2, <1>5, <1>6, <1>8, <1>10, <1>11, <2>1 DEF BeingCut
  <2>2. CASE d # c
    <3>1. BeingCut(d) /\ lock'[d] = lock[d]
      BY <1>6, <2>2 DEF BeingCut
    <3>2. /\ list[d] = <<>> /\ Span(lock[d].page, SpanPages[d]) \in held
          /\ \A b \in Out : b.span # lock[d].page
          /\ \A e \in Classes : BeingCut(e) /\ lock[e].page = lock[d].page => d = e
      BY <1>1, <3>1 DEF Cuts
    <3>3. \A e \in Classes : BeingCut(e)' /\ lock'[e].page = lock'[d].page => d = e
      <4> SUFFICES ASSUME NEW e \in Classes, BeingCut(e)', lock'[e].page = lock'[d].page
                   PROVE  d = e
        OBVIOUS
      <4>1. e # c
        BY <1>5, <1>6, <1>11, <2>2, <3>1
      <4> QED
        BY <1>6, <3>1, <3>2, <4>1 DEF BeingCut
    <3> QED
      BY <1>1, <1>2, <1>8, <3>1, <3>2, <3>3
  <2> QED
    BY <2>1, <2>2
<1>13. Proved!Inv'
  BY <1>1, PagesAllocated
<1> QED
  BY <1>1, <1>5, <1>6, <1>7, <1>9, <1>12, <1>13 DEF CentralInv, OthersKept, CentralTyped

\* allocateSpan() that reads through a null head.
LEMMA FetchNullSpanCentral ==
  ASSUME CentralInv, NEW c \in Classes, Central!FetchNullSpan(c)
  PROVE  CentralInv' /\ OthersKept(c) /\ users \subseteq users' /\ lock'[c] = Central!Unlocked
<1>1. /\ Proved!Inv /\ CentralTyped /\ Backed /\ Cuts /\ lock[c] = Central!Unlocked
      /\ Central!Page!NullSpan(SpanPages[c])
      /\ UNCHANGED <<list, trackers, delayCount, lock, users, corrupted>>
  BY DEF CentralInv, Central!FetchNullSpan
<1>2. Proved!Inv' /\ held' = held
  BY <1>1, PagesCrashed
<1>3. Out' = Out /\ Central!InLists' = Central!InLists
  BY <1>1 DEF Out, Central!InLists, Central!Elements
<1>4. CentralTyped' /\ Backed' /\ Cuts'
  BY <1>1, <1>2, <1>3 DEF CentralTyped, Backed, Cuts, BeingCut
<1> QED
  BY <1>1, <1>2, <1>4 DEF CentralInv, OthersKept, CentralTyped

\* The blocks of a span but the first.
LEMMA RestList ==
  ASSUME NEW p \in 1..LastPage, NEW c \in Classes
  PROVE  LET m == Central!RestOfSpan(p, c)
         IN  ListOf(m, c) /\ \A b \in Central!Elements(m) : b.span = p /\ b.no # 1
<1> DEFINE m == Central!RestOfSpan(p, c)
           n == BlockNum[c] - 1
<1>1. n \in Nat
  BY MemoryPoolAssumption
<1>2. /\ m = [i \in 1..n |-> Central!Block(p, c, i + 1)]
      /\ DOMAIN m = 1..n
  BY DEF Central!RestOfSpan
<1>3. ASSUME NEW i \in 1..n
      PROVE  /\ m[i] \in Blocks /\ m[i].span = p /\ m[i].class = c /\ m[i].no = i + 1
  <2>1. i + 1 \in 1..BlockNum[c]
    BY <1>1, MemoryPoolAssumption
  <2>2. m[i] = Central!Block(p, c, i + 1)
    BY <1>2
  <2> HIDE DEF m
  <2> QED
    BY <2>1, <2>2, NewBlock
<1> HIDE DEF m, n
<1>4. m \in Seq(Blocks)
  BY <1>1, <1>2, <1>3
<1>5. ASSUME NEW i \in DOMAIN m, NEW j \in DOMAIN m, m[i] = m[j] PROVE i = j
  <2>1. i + 1 = j + 1 /\ i \in Int /\ j \in Int
    BY <1>1, <1>2, <1>3, <1>5
  <2> QED
    BY <2>1
<1>6. ListOf(m, c)
  BY <1>2, <1>3, <1>4, <1>5 DEF ListOf
<1>7. \A i \in 1..n : i + 1 # 1
  BY <1>1
<1>8. \A b \in Central!Elements(m) : b.span = p /\ b.no # 1
  BY <1>2, <1>3, <1>7 DEF Central!Elements
<1> QED
  BY <1>6, <1>8 DEF m

\* fetchRange() cuts the span: all its blocks are new, and in no other span.
LEMMA CutSpanCentral ==
  ASSUME CentralInv, NEW c \in Classes, Central!CutSpan(c)
  PROVE  CentralInv' /\ OthersKept(c) /\ users \subseteq users' /\ lock'[c] = Central!Unlocked
<1> DEFINE page == lock[c].page
           n == BlockNum[c]
           b == Central!Block(page, c, 1)
           m == Central!RestOfSpan(page, c)
           tr == [page |-> page, pages |-> SpanPages[c], blockCount |-> n, freeCount |-> n - 1]
<1>1. /\ Proved!Inv /\ CentralTyped /\ Backed /\ Cuts
      /\ corrupted = "no" /\ BeingCut(c)
      /\ users' = users \cup {b} /\ list' = [list EXCEPT ![c] = m]
      /\ trackers' = IF n = 1 THEN trackers ELSE Append(trackers, tr)
      /\ corrupted' \in {"no", "link"}
      /\ lock' = [lock EXCEPT ![c] = Central!Unlocked]
      /\ UNCHANGED <<Central!pages, delayCount>> /\ UNCHANGED held
  BY DEF CentralInv, Central!CutSpan, Central!Sound, Central!pages, BeingCut
<1>2. page \in 1..LastPage
  BY <1>1, SectionCases DEF CentralTyped, BeingCut
<1>3. n \in Nat \ {0} /\ n - 1 \in -MaxFreeCount..MaxFreeCount /\ SpanPages[c] \in 1..LastPage
  BY MemoryPoolAssumption
<1>4. /\ list[c] = <<>> /\ Span(page, SpanPages[c]) \in held
      /\ \A d \in Out : d.span # page
      /\ \A d \in Classes : BeingCut(d) /\ lock[d].page = page => c = d
  BY <1>1 DEF Cuts
<1>5. trackers' \in Seq(TrackerType) /\ Len(trackers') \in Nat /\ Len(trackers) <= Len(trackers')
  <2>1. trackers \in Seq(TrackerType) /\ Len(trackers) \in Nat
    BY <1>1, LenProperties DEF CentralTyped
  <2>2. CASE n = 1
    BY <1>1, <2>1, <2>2
  <2>3. CASE n # 1
    <3>1. tr \in TrackerType
      BY <1>2, <1>3, <2>3 DEF TrackerType
    <3> HIDE DEF tr
    <3>2. Append(trackers, tr) \in Seq(TrackerType) /\ Len(Append(trackers, tr)) = Len(trackers) + 1
      BY <2>1, <3>1
    <3> QED
      BY <1>1, <2>1, <2>3, <3>2
  <2> QED
    BY <2>2, <2>3
<1>6. b \in Blocks /\ b.span = page /\ b.class = c /\ b.no = 1
  BY <1>2, <1>3, NewBlock
<1>7. ListOf(m, c) /\ \A d \in Central!Elements(m) : d.span = page /\ d.no # 1 /\ d.class = c
  BY <1>2, RestList, ListLength
<1> HIDE DEF b, m, n, tr
<1>8. /\ list' \in [Classes -> Seq(Blocks)] /\ \A d \in Classes : ListOf(list'[d], d)
      /\ \A d \in Classes \ {c} : list'[d] = list[d]
      /\ Central!InLists' = Central!InLists \cup Central!Elements(m)
  BY <1>1, <1>4, <1>7, ListsAfter, EmptyList
<1>9. /\ DOMAIN lock' = Classes /\ \A d \in Classes : Section(lock'[d], Len(trackers'))
      /\ lock'[c] = Central!Unlocked /\ \A d \in Classes \ {c} : lock'[d] = lock[d]
  BY <1>1, <1>5, SectionUnlocked, LocksAfter
<1> HIDE DEF page
<1>10. CentralTyped'
  BY <1>1, <1>5, <1>6, <1>8, <1>9 DEF CentralTyped
<1>11. /\ Out' = Out \cup {b} \cup Central!Elements(m)
       /\ \A d \in Out' \ Out : d.span = page /\ d.class = c
  BY <1>1, <1>6, <1>7, <1>8 DEF Out
<1>12. Backed'
  <2>1. \A d \in Out' : Span(d.span, SpanPages[d.class]) \in held'
    BY <1>1, <1>4, <1>11 DEF Backed
  <2>2. (users \cap Central!InLists)' = {}
    <3>1. b \notin Central!Elements(m) /\ users \cap Central!Elements(m) = {}
      BY <1>4, <1>6, <1>7 DEF Out
    <3>2. b \notin Central!InLists
      BY <1>4, <1>6 DEF Out
    <3> QED
      BY <1>1, <1>8, <3>1, <3>2 DEF Backed
  <2>3. \A d, e \in Out' : d.span = e.span => d.class = e.class
    BY <1>1, <1>4, <1>11 DEF Backed
  <2> QED
    BY <2>1, <2>2, <2>3 DEF Backed
<1>13. Cuts'
  <2> SUFFICES ASSUME NEW d \in Classes, BeingCut(d)'
               PROVE  /\ list'[d] = <<>>
                      /\ corrupted' = "no" => Span(lock'[d].page, SpanPages[d]) \in held'
                      /\ \A e \in Out' : e.span # lock'[d].page
                      /\ \A e \in Classes : BeingCut(e)' /\ lock'[e].page = lock'[d].page => d = e
    BY DEF Cuts
  <2>1. \A e \in Classes : BeingCut(e)' => e # c /\ BeingCut(e) /\ lock'[e] = lock[e]
    BY <1>9, SectionUnlocked DEF BeingCut
  <2>2. /\ list[d] = <<>> /\ Span(lock[d].page, SpanPages[d]) \in held
        /\ \A e \in Out : e.span # lock[d].page
        /\ \A e \in Classes : BeingCut(e) /\ lock[e].page = lock[d].page => d = e
    BY <1>1, <2>1 DEF Cuts
  <2>3. lock[d].page # page
    BY <1>4, <2>1
  <2> QED
    BY <1>1, <1>8, <1>11, <2>1, <2>2, <2>3
<1>14. Proved!Inv'
  BY <1>1, PagesUnchanged
<1> QED
  BY <1>1, <1>9, <1>10, <1>12, <1>13, <1>14 DEF CentralInv, OthersKept, CentralTyped


\* returnRange(): of the chain, some blocks join the list and the others are lost.
LEMMA ReturnRangeCentral ==
  ASSUME CentralInv, NEW c \in Classes, NEW chain, ListOf(chain, c),
         Central!Elements(chain) \subseteq users, NEW count \in Int, NEW elapsed \in BOOLEAN,
         Central!ReturnRange(c, chain, count, elapsed)
  PROVE  CentralInv' /\ OthersKept(c) /\ users' = users \ Central!Elements(chain)
<1> DEFINE k == Central!Accepted(chain, count)
           l == k \o list[c]
           due == elapsed \/ delayCount[c] + 1 >= MaxDelayCount
           after == IF due THEN Central!Settle(Central!FreeBlocks(l)) ELSE Central!Unlocked
<1>1. /\ Proved!Inv /\ CentralTyped /\ Backed /\ Cuts
      /\ corrupted = "no" /\ lock[c] = Central!Unlocked
      /\ users' = users \ Central!Elements(chain) /\ list' = [list EXCEPT ![c] = l]
      /\ delayCount' = [delayCount EXCEPT ![c] = IF due THEN 0 ELSE @ + 1]
      /\ lock' = [lock EXCEPT ![c] = after]
      /\ UNCHANGED <<Central!pages, trackers, corrupted>> /\ UNCHANGED held
  BY DEF CentralInv, Central!ReturnRange, Central!Sound, Central!pages
<1>2. ListOf(k, c) /\ Central!Elements(k) \subseteq Central!Elements(chain)
  <2> DEFINE n == Central!AtMost(Len(chain), Central!AtLeast(count, 1))
  <2>1. Len(chain) \in Nat
    BY ListLength
  <2>2. n \in 0..Len(chain)
    BY <2>1 DEF Central!AtMost, Central!AtLeast
  <2>3. k = SubSeq(chain, 1, n)
    BY DEF Central!Accepted
  <2> HIDE DEF k, n
  <2> QED
    BY <2>2, <2>3, ListCut
<1>3. ListOf(list[c], c) /\ Central!Elements(list[c]) \subseteq Central!InLists
  BY <1>1, InListsMember DEF CentralTyped
<1> HIDE DEF k
<1>4. /\ ListOf(l, c)
      /\ Central!Elements(l) = Central!Elements(k) \cup Central!Elements(list[c])
  <2>1. Central!Elements(k) \cap Central!Elements(list[c]) = {}
    BY <1>1, <1>2, <1>3 DEF Backed
  <2> DEFINE r == list[c]
  <2>2. ListOf(k, c) /\ ListOf(r, c) /\ Central!Elements(k) \cap Central!Elements(r) = {}
    BY <1>2, <1>3, <2>1
  <2> HIDE DEF r, l, due, after
  <2>3. Joins(k \o r, k, r, c)
    BY <2>2, ListConcat
  <2> QED
    BY <2>3 DEF Joins, r, l
<1> HIDE DEF l
<1>5. /\ list' \in [Classes -> Seq(Blocks)] /\ \A d \in Classes : ListOf(list'[d], d)
      /\ \A d \in Classes \ {c} : list'[d] = list[d]
      /\ Central!InLists' = (Central!InLists \ Central!Elements(list[c]))
                              \cup Central!Elements(l)
  BY <1>1, <1>4, ListsAfter
<1>6. Section(after, Len(trackers)) /\ after.step # "cut"
  <2>1. Central!FreeBlocks(l) \in SUBSET Counts(Len(trackers))
    BY <1>1, <1>4, FreeBlocksCounted DEF CentralTyped
  <2> QED
    BY <2>1, SectionSettle, SectionUnlocked
<1>7. delayCount' \in [Classes -> 0..(MaxDelayCount - 1)]
  BY <1>1, MemoryPoolAssumption DEF CentralTyped
<1> HIDE DEF after
<1>8. /\ DOMAIN lock' = Classes /\ \A d \in Classes : Section(lock'[d], Len(trackers))
      /\ lock'[c] = after /\ \A d \in Classes \ {c} : lock'[d] = lock[d]
  BY <1>1, <1>6, LocksAfter, LenProperties DEF CentralTyped
<1>9. CentralTyped'
  BY <1>1, <1>5, <1>7, <1>8 DEF CentralTyped
<1>10. Out' \subseteq Out /\ users' \cap Central!InLists' = {}
  BY <1>1, <1>2, <1>3, <1>4, <1>5 DEF Out, Backed
<1>11. Backed'
  BY <1>1, <1>10, BackedShrinks
<1>12. Cuts'
  <2>1. ~BeingCut(c)'
    BY <1>6, <1>8 DEF BeingCut
  <2> QED
    BY <1>1, <1>5, <1>8, <1>10, <2>1, CutsShrink DEF BeingCut
<1>13. Proved!Inv'
  BY <1>1, PagesUnchanged
<1> QED
  BY <1>1, <1>8, <1>9, <1>11, <1>12, <1>13 DEF CentralInv, OthersKept, CentralTyped

\* What is common to both outcomes of updateSpanFreeCount().
LEMMA SettlingCentral ==
  ASSUME CentralInv, NEW c \in Classes, NEW t, Central!Settling(c, t)
  PROVE  /\ corrupted = "no" /\ ~BeingCut(c)
         /\ t.tracker \in DOMAIN trackers /\ trackers[t.tracker] \in TrackerType
         /\ trackers' \in Seq(TrackerType) /\ Len(trackers') = Len(trackers)
         /\ DOMAIN lock' = Classes /\ \A d \in Classes : Section(lock'[d], Len(trackers))
         /\ \A d \in Classes \ {c} : lock'[d] = lock[d]
         /\ ~BeingCut(c)'
         /\ OthersKept(c)
         /\ UNCHANGED <<delayCount, users>>
<1>1. /\ CentralTyped
      /\ corrupted = "no" /\ lock[c].step = "settle" /\ t \in lock[c].todo
      /\ Central!NewFreeCount(t) <= MaxFreeCount
      /\ trackers' = [trackers EXCEPT ![t.tracker].freeCount = Central!NewFreeCount(t)]
      /\ lock' = [lock EXCEPT ![c] = Central!Settle(lock[c].todo \ {t})]
      /\ UNCHANGED <<delayCount, users>>
  BY DEF CentralInv, Central!Settling, Central!Sound
<1>2. trackers \in Seq(TrackerType) /\ Len(trackers) \in Nat /\ DOMAIN trackers = 1..Len(trackers)
  BY <1>1, LenProperties DEF CentralTyped
<1>3. lock[c].todo \in SUBSET Counts(Len(trackers))
  BY <1>1, SectionCases DEF CentralTyped
<1>4. t.tracker \in DOMAIN trackers /\ t.free \in Nat
  BY <1>1, <1>2, <1>3 DEF Counts
<1>5. trackers[t.tracker] \in TrackerType
  BY <1>2, <1>4, ElementOfSeq
<1>6. Central!NewFreeCount(t) \in -MaxFreeCount..MaxFreeCount
  <2>1. trackers[t.tracker].freeCount \in -MaxFreeCount..MaxFreeCount
    BY <1>5, TrackerFields
  <2>2. Central!NewFreeCount(t) = trackers[t.tracker].freeCount + t.free
    BY DEF Central!NewFreeCount
  <2> QED
    BY <1>1, <1>4, <2>1, <2>2, MemoryPoolAssumption
<1>7. trackers' \in Seq(TrackerType) /\ Len(trackers') = Len(trackers)
  BY <1>1, <1>2, <1>4, <1>6, TrackersAfter
<1> DEFINE l == Central!Settle(lock[c].todo \ {t})
<1>8. Section(l, Len(trackers)) /\ l.step # "cut"
  <2>1. lock[c].todo \ {t} \in SUBSET Counts(Len(trackers))
    BY <1>3
  <2> QED
    BY <2>1, SectionSettle
<1>10. lock' = [lock EXCEPT ![c] = l] /\ Len(trackers) <= Len(trackers)
  BY <1>1, <1>2
<1> HIDE DEF l
<1>9. /\ DOMAIN lock' = Classes /\ \A d \in Classes : Section(lock'[d], Len(trackers))
      /\ lock'[c] = l /\ \A d \in Classes \ {c} : lock'[d] = lock[d]
  BY <1>1, <1>2, <1>8, <1>10, LocksAfter
<1> QED
  BY <1>1, <1>4, <1>5, <1>7, <1>8, <1>9 DEF BeingCut, OthersKept, CentralTyped

LEMMA UpdateFreeCountCentral ==
  ASSUME CentralInv, NEW c \in Classes, NEW t, Central!UpdateFreeCount(c, t)
  PROVE  CentralInv' /\ OthersKept(c) /\ users' = users
<1>1. /\ Proved!Inv /\ CentralTyped /\ Backed /\ Cuts
      /\ Central!Settling(c, t)
      /\ UNCHANGED <<Central!pages, list, corrupted>> /\ UNCHANGED held
  BY DEF CentralInv, Central!UpdateFreeCount, Central!pages
<1>2. /\ trackers' \in Seq(TrackerType) /\ Len(trackers') = Len(trackers)
      /\ DOMAIN lock' = Classes /\ \A d \in Classes : Section(lock'[d], Len(trackers))
      /\ \A d \in Classes \ {c} : lock'[d] = lock[d]
      /\ ~BeingCut(c)' /\ OthersKept(c)
      /\ UNCHANGED <<delayCount, users>>
  BY <1>1, SettlingCentral
<1>3. Out' = Out /\ Central!InLists' = Central!InLists
  BY <1>1, <1>2 DEF Out, Central!InLists, Central!Elements
<1>4. CentralTyped'
  BY <1>1, <1>2 DEF CentralTyped
<1>5. Backed'
  BY <1>1, <1>2, <1>3 DEF Backed
<1>6. Cuts'
  BY <1>1, <1>2, <1>3, CutsShrink DEF BeingCut
<1>7. Proved!Inv'
  BY <1>1, PagesUnchanged
<1> QED
  BY <1>2, <1>4, <1>5, <1>6, <1>7 DEF CentralInv

\* updateSpanFreeCount() returns the pages of a tracker, which may be that of a span that
\* was there before.  The pages it names are those of one span, or fewer; either some of
\* their blocks are in use, or none is left anywhere.
LEMMA ReturnedNotUsed ==
  ASSUME CentralInv, corrupted = "no", NEW c \in Classes, NEW tracker \in TrackerType,
         NEW s \in held, s.addr = tracker.page,
         NEW m, ListOf(m, c), list' = [list EXCEPT ![c] = m],
         Central!Elements(m) \subseteq Central!Elements(list[c]),
         \A b \in Central!Elements(m) : Central!Addr(b) \notin Central!PagesOf(tracker),
         users' = users,
         ~Central!InUse(c, Central!PagesOf(tracker) \cup Central!Page!PagesOf(s))
  PROVE  /\ \A b \in Out' : Span(b.span, SpanPages[b.class]) # s
         /\ \A d \in Classes \ {c} : BeingCut(d) => Span(lock[d].page, SpanPages[d]) # s
<1> DEFINE ps == Central!PagesOf(tracker) \cup Central!Page!PagesOf(s)
<1>1. /\ Proved!Inv /\ CentralTyped /\ Backed /\ Cuts
  BY DEF CentralInv
<1>2. PICK e \in Classes : BlockNum[e] > 1 /\ tracker.pages = SpanPages[e]
  BY TrackerFields
<1>3. s.addr \in 1..LastPage /\ \E d \in Classes : s.pages = SpanPages[d]
  BY <1>1, SameInvariants
<1>4. s.addr \in Central!Page!PagesOf(s)
  BY <1>3, SameSpans, MemoryPoolAssumption
<1>5. s.addr \in ps
  BY <1>4
<1> HIDE DEF ps
<1>6. /\ \A b \in users : Central!Page!PagesOf(Central!SpanOf(b)) \cap ps = {}
      /\ \A d \in Classes \ {c} :
           /\ \A b \in Central!Elements(list[d]) :
                Central!Page!PagesOf(Central!SpanOf(b)) \cap ps = {}
           /\ ~(lock[d].step = "cut" /\ lock[d].page \in ps)
  BY DEF Central!InUse, ps
<1>7. ASSUME NEW d \in Classes \ {c}, BeingCut(d), Span(lock[d].page, SpanPages[d]) = s
      PROVE  FALSE
  <2>1. lock[d].page = s.addr
    BY <1>7 DEF Span
  <2> QED
    BY <1>5, <1>6, <1>7, <2>1 DEF BeingCut
<1>8. ASSUME NEW b \in Out', Span(b.span, SpanPages[b.class]) = s
      PROVE  FALSE
  <2>1. /\ \A d \in Classes \ {c} : list'[d] = list[d]
        /\ list'[c] = m
        /\ Central!InLists' = (Central!InLists \ Central!Elements(list[c]))
                                \cup Central!Elements(m)
    BY <1>1, ListsAfter
  <2>2. b \in Out /\ b \in Blocks
    <3>1. Out' \subseteq Out
      BY <2>1, InListsMember DEF Out
    <3> QED
      BY <1>1, <3>1, OutBlocks
  <2>3. Central!SpanOf(b) = s /\ b.span = s.addr /\ s.pages = SpanPages[b.class]
    BY <1>8, <2>2, BlockFields DEF Span
  <2>4. CASE b \in users
    BY <1>4, <1>5, <1>6, <2>3, <2>4
  <2>5. CASE b \in Central!InLists /\ b.class # c
    <3>1. b.class \in Classes \ {c} /\ b \in Central!Elements(list[b.class])
      BY <1>1, <2>5, OwnList
    <3> QED
      BY <1>4, <1>5, <1>6, <2>3, <3>1
  <2>6. CASE b \notin users /\ b.class = c
    <3>1. b \in Central!InLists'
      BY <2>6 DEF Out
    <3>2. b \in Central!Elements(m)
      <4>1. CASE b \in Central!InLists /\ b \notin Central!Elements(list[c])
        BY <1>1, <2>6, <4>1, OwnList
      <4> QED
        BY <2>1, <3>1, <4>1
    <3>3. Central!Addr(b) \notin tracker.page..(tracker.page + tracker.pages - 1)
      BY <3>2 DEF Central!PagesOf
    <3>4. Central!Addr(b) \in b.span..(b.span + SpanPages[c] - 1)
      BY <2>2, <2>6, BlockInside
    <3>5. BlockNum[c] > 1 => SpanPages[c] <= tracker.pages
      BY <1>2, MemoryPoolAssumption
    <3>6. BlockNum[c] = 1 => Central!Addr(b) = b.span
      <4> SUFFICES ASSUME BlockNum[c] = 1 PROVE Central!Addr(b) = b.span
        OBVIOUS
      <4>1. b.no = 1 /\ b.span \in Int /\ SpanPages[c] \in Int
        BY <2>2, <2>6, BlockFields, MemoryPoolAssumption
      <4>2. Central!Addr(b) = b.span + ((1 - 1) * SpanPages[c]) \div 1
        BY <2>6, <4>1 DEF Central!Addr
      <4>3. ((1 - 1) * SpanPages[c]) \div 1 = 0
        BY <4>1
      <4> QED
        BY <4>1, <4>2, <4>3
    <3>7. /\ tracker.page \in Int /\ tracker.pages \in Int /\ tracker.pages >= 1
          /\ SpanPages[c] \in Int /\ b.span = tracker.page
          /\ BlockNum[c] = 1 \/ BlockNum[c] > 1
      BY <2>3, TrackerFields, MemoryPoolAssumption
    <3>8. Central!Addr(b) \in Int
      BY <3>4, <3>7
    <3>9. CASE BlockNum[c] = 1
      BY <3>3, <3>6, <3>7, <3>8, <3>9
    <3>10. CASE BlockNum[c] > 1
      <4>1. SpanPages[c] <= tracker.pages
        BY <3>5, <3>10
      <4> HIDE DEF ps
      <4>2. /\ Central!Addr(b) >= tracker.page
            /\ Central!Addr(b) <= tracker.page + SpanPages[c] - 1
        BY <3>4, <3>7, <3>8
      <4> QED
        BY <3>3, <3>7, <3>8, <4>1, <4>2
    <3> QED
      BY <3>7, <3>9, <3>10
  <2>7. \/ b.class = c
        \/ b \in users
        \/ b \in Central!InLists /\ b.class # c
    BY <2>2 DEF Out
  <2> QED
    BY <2>4, <2>5, <2>6, <2>7
<1> QED
  BY <1>7, <1>8

LEMMA ReturnSpanCentral ==
  ASSUME CentralInv, NEW c \in Classes, NEW t, Central!ReturnSpan(c, t)
  PROVE  CentralInv' /\ OthersKept(c) /\ users' = users
<1> DEFINE tracker == trackers[t.tracker]
           m == Central!Unlink(list[c], tracker)
           ps(s) == Central!PagesOf(tracker) \cup Central!Page!PagesOf(s)
<1>1. /\ Proved!Inv /\ CentralTyped /\ Backed /\ Cuts
      /\ Central!Settling(c, t)
      /\ list' = [list EXCEPT ![c] = m]
  BY DEF CentralInv, Central!ReturnSpan
<1>2. /\ corrupted = "no" /\ ~BeingCut(c)
      /\ tracker \in TrackerType
      /\ trackers' \in Seq(TrackerType) /\ Len(trackers') = Len(trackers)
      /\ DOMAIN lock' = Classes /\ \A d \in Classes : Section(lock'[d], Len(trackers))
      /\ \A d \in Classes \ {c} : lock'[d] = lock[d]
      /\ ~BeingCut(c)' /\ OthersKept(c)
      /\ UNCHANGED <<delayCount, users>>
  BY <1>1, SettlingCentral
<1>3. \/ UNCHANGED Central!pages /\ corrupted' \in {"no", "freed"}
      \/ \E s \in held :
           /\ s.addr = tracker.page
           /\ \/ Central!Page!GiveBack(s, tracker.pages)
              \/ Central!Page!GiveBackAndMerge(s, tracker.pages)
           /\ corrupted' = Central!Freed(Central!InUse(c, ps(s)))
  <2>1. CASE \E s \in held : s.addr = tracker.page
    <3>1. PICK s \in held :
            /\ s.addr = tracker.page
            /\ \/ Central!Page!GiveBack(s, Central!ReturnedPages(tracker))
               \/ Central!Page!GiveBackAndMerge(s, Central!ReturnedPages(tracker))
            /\ corrupted' = Central!Freed(Central!InUse(c, ps(s)))
      BY <2>1 DEF Central!ReturnSpan
    <3> QED
      BY <3>1 DEF Central!ReturnedPages
  <2>2. CASE ~ \E s \in held : s.addr = tracker.page
    BY <2>2 DEF Central!ReturnSpan, Central!Freed
  <2> QED
    BY <2>1, <2>2
<1>4. /\ ListOf(m, c)
      /\ Central!Elements(m) \subseteq Central!Elements(list[c])
      /\ \A b \in Central!Elements(m) : Central!Addr(b) \notin Central!PagesOf(tracker)
  <2>1. ListOf(list[c], c)
    BY <1>1 DEF CentralTyped
  <2> QED
    BY <2>1, ListUnlinked
<1> HIDE DEF m, tracker
<1>5. /\ list' \in [Classes -> Seq(Blocks)] /\ \A d \in Classes : ListOf(list'[d], d)
      /\ \A d \in Classes \ {c} : list'[d] = list[d]
      /\ Central!InLists' \subseteq Central!InLists
  <2>1. Central!Elements(list[c]) \subseteq Central!InLists
    BY InListsMember
  <2> QED
    BY <1>1, <1>4, <2>1, ListsAfter
<1>6. Out' \subseteq Out /\ (users \cap Central!InLists)' = {}
  BY <1>1, <1>2, <1>5 DEF Out, Backed
<1>7. \A d \in Classes : BeingCut(d)' => d # c /\ BeingCut(d) /\ lock'[d] = lock[d] /\ list'[d] = list[d]
  BY <1>2, <1>5 DEF BeingCut
<1>8. CASE UNCHANGED Central!pages /\ corrupted' \in {"no", "freed"}
  <2>1. held' = held /\ Proved!Inv'
    BY <1>1, <1>8, PagesUnchanged DEF Central!pages
  <2>2. CentralTyped'
    BY <1>1, <1>2, <1>5, <1>8 DEF CentralTyped
  <2>3. Backed'
    BY <1>1, <1>2, <1>6, <2>1, BackedShrinks
  <2>4. Cuts'
    BY <1>1, <1>2, <1>6, <1>7, <2>1, CutsShrink
  <2> QED
    BY <1>2, <2>1, <2>2, <2>3, <2>4 DEF CentralInv
<1>9. ASSUME NEW s \in held, s.addr = tracker.page,
             \/ Central!Page!GiveBack(s, tracker.pages)
             \/ Central!Page!GiveBackAndMerge(s, tracker.pages),
             corrupted' = Central!Freed(Central!InUse(c, ps(s)))
      PROVE  CentralInv'
  <2>1. tracker.pages \in 1..s.pages
    <3>1. PICK e \in Classes : BlockNum[e] > 1 /\ tracker.pages = SpanPages[e]
      BY <1>2, TrackerFields
    <3>2. PICK d \in Classes : s.pages = SpanPages[d]
      BY <1>1, SameInvariants
    <3>3. SpanPages[e] <= SpanPages[d] /\ SpanPages[e] \in 1..LastPage /\ SpanPages[d] \in 1..LastPage
      BY <3>1, MemoryPoolAssumption
    <3> QED
      BY <3>1, <3>2, <3>3
  <2>2. Proved!Inv' /\ held' = held \ {s}
    BY <1>1, <1>9, <2>1, PagesReturned
  <2>3. corrupted' \in {"no", "freed"} /\ (corrupted' = "no" => ~Central!InUse(c, ps(s)))
    BY <1>9 DEF Central!Freed
  <2>4. corrupted' = "no" =>
          /\ \A b \in Out' : Span(b.span, SpanPages[b.class]) # s
          /\ \A d \in Classes \ {c} : BeingCut(d) => Span(lock[d].page, SpanPages[d]) # s
    BY <1>1, <1>2, <1>4, <1>9, <2>3, ReturnedNotUsed
  <2>5. CentralTyped'
    BY <1>1, <1>2, <1>5, <2>3 DEF CentralTyped
  <2>6. Backed'
    <3>1. corrupted' = "no" => \A b \in Out' : Span(b.span, SpanPages[b.class]) \in held'
      BY <1>1, <1>2, <1>6, <2>2, <2>4 DEF Backed
    <3>2. \A b, d \in Out' : b.span = d.span => b.class = d.class
      BY <1>1, <1>6 DEF Backed
    <3> QED
      BY <1>6, <3>1, <3>2 DEF Backed
  <2>7. Cuts'
    <3> SUFFICES ASSUME NEW d \in Classes, BeingCut(d)'
                 PROVE  /\ list'[d] = <<>>
                        /\ corrupted' = "no" => Span(lock'[d].page, SpanPages[d]) \in held'
                        /\ \A b \in Out' : b.span # lock'[d].page
                        /\ \A e \in Classes : BeingCut(e)' /\ lock'[e].page = lock'[d].page => d = e
      BY DEF Cuts
    <3>1. d # c /\ BeingCut(d) /\ lock'[d] = lock[d] /\ list'[d] = list[d]
      BY <1>7
    <3>2. /\ list[d] = <<>> /\ Span(lock[d].page, SpanPages[d]) \in held
          /\ \A b \in Out : b.span # lock[d].page
          /\ \A e \in Classes : BeingCut(e) /\ lock[e].page = lock[d].page => d = e
      BY <1>1, <1>2, <3>1 DEF Cuts
    <3>3. corrupted' = "no" => Span(lock'[d].page, SpanPages[d]) \in held'
      BY <2>2, <2>4, <3>1, <3>2
    <3> QED
      BY <1>6, <1>7, <3>1, <3>2, <3>3
  <2> QED
    BY <2>2, <2>5, <2>6, <2>7 DEF CentralInv
<1> QED
  BY <1>2, <1>3, <1>8, <1>9

-----------------------------------------------------------------------------
(* The threads.                                                            *)

\* A thread enters CentralCache for a class that nobody is in it for, or goes on.
LEMMA HoldingAfter ==
  ASSUME Holding, NEW t \in Threads, NEW c \in Classes, OthersKept(c), EnterFor(t, c),
         (inside[t] = NoClass /\ lock[c] = Central!Unlocked) \/ inside[t] = c
  PROVE  Holding'
<1>1. /\ inside \in [Threads -> Classes \cup {NoClass}]
      /\ \A d \in Classes : lock[d] # Central!Unlocked <=> \E u \in Threads : inside[u] = d
      /\ \A u, v \in Threads : inside[u] \in Classes /\ inside[u] = inside[v] => u = v
  BY DEF Holding
<1>2. NoClass \notin Classes
  BY MemoryPoolAssumption
<1> DEFINE x == IF lock'[c] = Central!Unlocked THEN NoClass ELSE c
<1>3. inside' = [inside EXCEPT ![t] = x]
  BY DEF EnterFor
<1>4. x \in Classes \cup {NoClass} /\ (x = c <=> lock'[c] # Central!Unlocked) /\ x \in {c, NoClass}
  BY <1>2
<1> HIDE DEF x
<1>5. /\ inside' \in [Threads -> Classes \cup {NoClass}]
      /\ inside'[t] = x /\ \A u \in Threads \ {t} : inside'[u] = inside[u]
  BY <1>1, <1>3, <1>4
<1>6. \A u \in Threads \ {t} : inside[u] # c
  BY <1>1, <1>2
<1>7. inside[t] \in {c, NoClass}
  OBVIOUS
<1>8. ASSUME NEW d \in Classes
      PROVE  lock'[d] # Central!Unlocked <=> \E u \in Threads : inside'[u] = d
  <2>1. CASE d = c
    BY <1>2, <1>4, <1>5, <1>6, <2>1
  <2>2. CASE d # c
    <3>1. lock'[d] = lock[d]
      BY <2>2 DEF OthersKept
    <3>2. \A u \in Threads : inside'[u] = d <=> inside[u] = d
      BY <1>2, <1>4, <1>5, <1>7, <2>2
    <3> QED
      BY <1>1, <3>1, <3>2
  <2> QED
    BY <2>1, <2>2
<1>9. ASSUME NEW u \in Threads, NEW v \in Threads, inside'[u] \in Classes, inside'[u] = inside'[v]
      PROVE  u = v
  <2>1. CASE u # t /\ v # t
    BY <1>1, <1>5, <1>9, <2>1
  <2>2. CASE u = t \/ v = t
    BY <1>2, <1>4, <1>5, <1>6, <1>9, <2>2
  <2> QED
    BY <2>1, <2>2
<1> QED
  BY <1>5, <1>8, <1>9 DEF Holding

LEMMA CachedMember ==
  ASSUME NEW t, NEW b
  PROVE  b \in Cached(t) <=> \E c \in Classes : b \in Central!Elements(freeList[t][c])
BY DEF Cached

LEMMA InUseMember ==
  ASSUME NEW b
  PROVE  b \in InUse <=> b \in users /\ \A t \in Threads : b \notin Cached(t)
BY DEF InUse

\* While a thread works on CentralCache the caches stay, and no user loses a block.
LEMMA CachesKept ==
  ASSUME Caches, UNCHANGED freeList, users \subseteq users'
  PROVE  Caches'
<1>1. \A t : Cached(t)' = Cached(t)
  BY DEF Cached
<1> QED
  BY <1>1 DEF Caches

\* A thread's list of one class becomes m: it gets blocks of X, which were in use, and
\* those of Y, which are not in it any more, leave the users.
Exchange(t, c, m, X, Y) ==
  /\ ListOf(m, c) /\ freeList' = [freeList EXCEPT ![t][c] = m]
  /\ X \subseteq InUse /\ \A b \in X : b.class = c
  /\ Central!Elements(m) \subseteq Central!Elements(freeList[t][c]) \cup X
  /\ Y \subseteq Central!Elements(freeList[t][c]) \cup X
  /\ Y \cap Central!Elements(m) = {}
  /\ users' = users \ Y

LEMMA CachesAfter ==
  ASSUME Caches, NEW t \in Threads, NEW c \in Classes, NEW m, NEW X, NEW Y,
         Exchange(t, c, m, X, Y)
  PROVE  Caches'
<1>0. /\ ListOf(m, c) /\ freeList' = [freeList EXCEPT ![t][c] = m]
      /\ X \subseteq InUse /\ \A b \in X : b.class = c
      /\ Central!Elements(m) \subseteq Central!Elements(freeList[t][c]) \cup X
      /\ Y \subseteq Central!Elements(freeList[t][c]) \cup X
      /\ Y \cap Central!Elements(m) = {}
      /\ users' = users \ Y
  BY DEF Exchange
<1>1. /\ freeList \in [Threads -> [Classes -> Seq(Blocks)]]
      /\ \A u \in Threads, d \in Classes : ListOf(freeList[u][d], d)
      /\ \A u \in Threads : Cached(u) \subseteq users
      /\ \A u, v \in Threads : u # v => Cached(u) \cap Cached(v) = {}
  BY DEF Caches
<1>2. m \in Seq(Blocks)
  BY <1>0 DEF ListOf
<1>3. /\ freeList' \in [Threads -> [Classes -> Seq(Blocks)]]
      /\ freeList'[t][c] = m
      /\ \A d \in Classes \ {c} : freeList'[t][d] = freeList[t][d]
      /\ \A u \in Threads \ {t} : freeList'[u] = freeList[u]
  BY <1>0, <1>1, <1>2
<1>4. \A u \in Threads, d \in Classes : ListOf(freeList'[u][d], d)
  BY <1>0, <1>1, <1>3
<1>5. \A u \in Threads \ {t} : Cached(u)' = Cached(u)
  BY <1>3 DEF Cached
<1>6. \A b : b \in Cached(t)' <=> \E d \in Classes : b \in Central!Elements(freeList'[t][d])
  BY DEF Cached, Central!Elements
<1>7. Central!Elements(freeList[t][c]) \subseteq Cached(t)
  BY CachedMember
<1>8. Cached(t)' \subseteq Cached(t) \cup X
  BY <1>0, <1>3, <1>6, CachedMember
<1>9. Y \subseteq Cached(t) \cup X
  BY <1>0, <1>7
<1>10. \A u \in Threads \ {t} : Cached(u) \cap (Cached(t) \cup X) = {}
  BY <1>0, <1>1, InUseMember
<1>11. Cached(t)' \cap Y = {}
  <2> SUFFICES ASSUME NEW b \in Cached(t)', b \in Y PROVE FALSE
    OBVIOUS
  <2>1. PICK d \in Classes : b \in Central!Elements(freeList'[t][d])
    BY <1>6
  <2>2. d # c
    BY <1>0, <1>3, <2>1
  <2>3. b \in Central!Elements(freeList[t][d]) /\ ListOf(freeList[t][d], d)
    BY <1>1, <1>3, <2>1, <2>2
  <2>4. ListOf(freeList[t][c], c)
    BY <1>1
  <2>5. b.class = d
    BY <2>3, ListLength
  <2>6. b.class = c
    BY <1>0, <2>4, ListLength
  <2> QED
    BY <2>2, <2>5, <2>6
<1>12. X \subseteq users
  BY <1>0, InUseMember
<1>13. ASSUME NEW u \in Threads PROVE Cached(u)' \subseteq users'
  <2>1. CASE u = t
    <3>1. Cached(t) \subseteq users
      BY <1>1
    <3>2. Cached(t)' \subseteq users'
      BY <1>0, <1>8, <1>11, <1>12, <3>1
    <3> QED
      BY <2>1, <3>2
  <2>2. CASE u # t
    <3>1. Cached(u)' = Cached(u) /\ Cached(u) \subseteq users
      BY <1>1, <1>5, <2>2
    <3>2. Cached(u) \cap Y = {}
      BY <1>9, <1>10, <2>2
    <3> QED
      BY <1>0, <3>1, <3>2
  <2> QED
    BY <2>1, <2>2
<1>14. ASSUME NEW u \in Threads \ {t} PROVE Cached(u)' \cap Cached(t)' = {}
  <2>1. Cached(u)' = Cached(u) /\ Cached(u) \cap (Cached(t) \cup X) = {}
    BY <1>5, <1>10
  <2> QED
    BY <1>8, <2>1
<1>15. ASSUME NEW u \in Threads, NEW v \in Threads, u # v PROVE Cached(u)' \cap Cached(v)' = {}
  <2>1. CASE u = t
    BY <1>14, <1>15, <2>1
  <2>2. CASE v = t
    BY <1>14, <1>15, <2>2
  <2>3. CASE u # t /\ v # t
    <3>1. Cached(u)' = Cached(u) /\ Cached(v)' = Cached(v)
      BY <1>5, <2>3
    <3>2. Cached(u) \cap Cached(v) = {}
      BY <1>1, <1>15
    <3> QED
      BY <3>1, <3>2
  <2> QED
    BY <2>1, <2>2, <2>3
<1> QED
  BY <1>3, <1>4, <1>13, <1>15 DEF Caches

-----------------------------------------------------------------------------
(* The counters, which wrap around below zero.                             *)

LEMMA Modulo ==
  /\ SizeMod \in Nat /\ SizeMod > Threshold + MaxFailures + 1
  /\ Threshold \in Nat /\ Threshold >= 1 /\ MaxFailures \in Nat
  /\ \A a \in (-SizeMod)..(SizeMod - 1) :
       (a + SizeMod) % SizeMod = IF a >= 0 THEN a ELSE a + SizeMod
  /\ \A a \in 0..(SizeMod - 1) : a % SizeMod = a
  /\ SizeMod % SizeMod = 0
<1>1. /\ SizeMod \in Nat /\ SizeMod > Threshold + MaxFailures + 1
      /\ Threshold \in Nat /\ Threshold >= 1 /\ MaxFailures \in Nat
  BY MemoryPoolAssumption
<1>2. ASSUME NEW a \in (-SizeMod)..(SizeMod - 1)
      PROVE  (a + SizeMod) % SizeMod = IF a >= 0 THEN a ELSE a + SizeMod
  BY <1>1
<1>3. ASSUME NEW a \in 0..(SizeMod - 1) PROVE a % SizeMod = a
  BY <1>1
<1>4. SizeMod % SizeMod = 0
  BY <1>1
<1> QED
  BY <1>1, <1>2, <1>3, <1>4

\* A block is taken from a list, or from a list that has none.
LEMMA CountDown ==
  ASSUME NEW n \in 0..(Threshold + MaxFailures), NEW k \in 0..MaxFailures
  PROVE  /\ Short(n, k) \in 0..(SizeMod - 1)
         /\ Minus(Short(n, k), 1) = Short(n, k + 1)
         /\ Short(n, k + 1) \in 0..(SizeMod - 1)
         /\ n >= 1 => Short(n - 1, k) = Short(n, k + 1)
<1> DEFINE v == Short(n, k)
<1>1. /\ SizeMod \in Nat /\ SizeMod > Threshold + MaxFailures + 1
      /\ Threshold \in Nat /\ MaxFailures \in Nat
  BY Modulo
<1>2. v \in 0..(SizeMod - 1) /\ Short(n, k + 1) = IF v >= 1 THEN v - 1 ELSE v - 1 + SizeMod
  BY <1>1 DEF Short
<1>3. n >= 1 => Short(n - 1, k) = Short(n, k + 1)
  BY <1>1 DEF Short
<1> HIDE DEF v
<1>4. Minus(v, 1) = ((v - 1) + SizeMod) % SizeMod
  BY <1>1, <1>2 DEF Minus
<1>5. v - 1 \in (-SizeMod)..(SizeMod - 1)
  BY <1>1, <1>2
<1>6. Minus(v, 1) = IF v - 1 >= 0 THEN v - 1 ELSE v - 1 + SizeMod
  BY <1>4, <1>5, Modulo
<1>7. v - 1 >= 0 <=> v >= 1
  BY <1>1, <1>2
<1>8. Minus(v, 1) = Short(n, k + 1)
  BY <1>2, <1>6, <1>7
<1>9. Short(n, k + 1) \in 0..(SizeMod - 1)
  BY <1>1, <1>2
<1> QED
  BY <1>2, <1>3, <1>8, <1>9 DEF v

\* A block is put into a list.
LEMMA CountUp ==
  ASSUME NEW n \in 0..(Threshold + MaxFailures), NEW k \in 0..MaxFailures
  PROVE  /\ Plus(Short(n, k), 1) = Short(n + 1, k)
         /\ Short(n + 1, k) \in 0..(SizeMod - 1)
<1> DEFINE v == Short(n, k)
<1>1. /\ SizeMod \in Nat /\ SizeMod > Threshold + MaxFailures + 1
      /\ Threshold \in Nat /\ MaxFailures \in Nat
  BY Modulo
<1>2. v \in 0..(SizeMod - 1)
  BY <1>1 DEF Short
<1>3. Short(n + 1, k) = IF v + 1 = SizeMod THEN 0 ELSE v + 1
  BY <1>1 DEF Short
<1> HIDE DEF v
<1>4. CASE v + 1 = SizeMod
  BY <1>1, <1>3, <1>4, Modulo DEF Plus, v
<1>5. CASE v + 1 # SizeMod
  <2>1. v + 1 \in 0..(SizeMod - 1)
    BY <1>1, <1>2, <1>5
  <2>2. (v + 1) % SizeMod = v + 1
    BY <2>1, Modulo
  <2>3. Plus(v, 1) = v + 1 /\ Short(n + 1, k) = v + 1
    BY <1>3, <1>5, <2>2 DEF Plus
  <2> QED
    BY <2>1, <2>3 DEF v
<1> QED
  BY <1>4, <1>5

LEMMA WithinBound ==
  ASSUME NEW f \in 0..MaxFailures, NEW k \in 0..f, NEW n \in 0..(Threshold + f)
  PROVE  n \in 0..(Threshold + MaxFailures) /\ k \in 0..MaxFailures
BY Modulo

\* deallocate() that keeps the block: the list is not at its bound.
LEMMA KeptWithinBound ==
  ASSUME NEW f \in 0..MaxFailures, NEW k \in 0..f, NEW n \in 0..(Threshold + f),
         LET batchNum == Short(n + 1, k)
         IN  ~(ShouldReturn(batchNum) /\ batchNum > 1 /\ KeepNum(batchNum) <= n + 1)
  PROVE  n + 1 <= Threshold + f
<1> DEFINE batchNum == Short(n + 1, k)
<1>1. /\ SizeMod \in Nat /\ Threshold \in Nat /\ Threshold >= 1 /\ MaxFailures \in Nat
      /\ f \in Nat /\ k \in Nat /\ n \in Nat /\ k <= f /\ n <= Threshold + f
  BY Modulo
<1>2. CASE n + 1 < k
  BY <1>1, <1>2
<1>3. CASE n + 1 >= k
  <2>1. batchNum = n + 1 - k
    BY <1>1, <1>3 DEF Short
  <2> HIDE DEF batchNum
  <2>2. CASE batchNum <= Threshold
    BY <1>1, <2>1, <2>2
  <2>3. CASE batchNum > Threshold
    <3>1. batchNum > 1 /\ batchNum \in Nat
      BY <1>1, <1>3, <2>1, <2>3
    <3>2. ~(KeepNum(batchNum) <= n + 1)
      BY <2>3, <3>1 DEF ShouldReturn, batchNum
    <3>3. KeepNum(batchNum) <= batchNum
      BY <3>1 DEF KeepNum, Central!AtLeast
    <3>4. KeepNum(batchNum) \in Nat
      BY <3>1 DEF KeepNum, Central!AtLeast
    <3> QED
      BY <1>1, <2>1, <3>1, <3>2, <3>3, <3>4
  <2> QED
    BY <1>1, <2>1, <2>2, <2>3
<1> QED
  BY <1>1, <1>2, <1>3

\* returnToCentralCache() keeps fewer blocks than there were.
LEMMA LeftWithinBound ==
  ASSUME NEW f \in 0..MaxFailures, NEW k \in 0..f, NEW n \in 0..(Threshold + f),
         NEW batchNum, batchNum = Short(n + 1, k),
         batchNum > 1, KeepNum(batchNum) <= n + 1
  PROVE  /\ KeepNum(batchNum) \in 1..(n + 1) /\ KeepNum(batchNum) <= Threshold + f
         /\ Short(KeepNum(batchNum), 0) = KeepNum(batchNum)
         /\ KeepNum(batchNum) \in 0..(SizeMod - 1)
         /\ batchNum - KeepNum(batchNum) \in Int
<1> DEFINE m == KeepNum(batchNum)
<1>1. /\ SizeMod \in Nat /\ Threshold \in Nat /\ Threshold >= 1 /\ MaxFailures \in Nat
      /\ SizeMod > Threshold + MaxFailures + 1
      /\ f \in Nat /\ k \in Nat /\ n \in Nat /\ k <= f /\ n <= Threshold + f /\ f <= MaxFailures
  BY Modulo
<1>2. batchNum \in Nat
  BY <1>1 DEF Short
<1>3. m \in Nat /\ m >= 1 /\ (m = 1 \/ m < batchNum)
  BY <1>2 DEF KeepNum, Central!AtLeast
<1>4. n + 1 < k \/ batchNum <= n + 1
  BY <1>1 DEF Short
<1> HIDE DEF m
<1>5. m <= n + 1
  BY DEF m
<1>6. m <= Threshold + f
  BY <1>1, <1>2, <1>3, <1>4, <1>5
<1>7. m \in 0..(SizeMod - 1) /\ m \in 1..(n + 1) /\ batchNum - m \in Int
  BY <1>1, <1>2, <1>3, <1>5, <1>6
<1>8. Short(m, 0) = m
  BY <1>3 DEF Short
<1> QED
  BY <1>6, <1>7, <1>8 DEF m

\* The counter and the list of one class change.
LEMMA CountedAfter ==
  ASSUME Counted, Caches, NEW t \in Threads, NEW c \in Classes, NEW l \in Seq(Blocks),
         NEW v \in 0..(SizeMod - 1),
         freeList' = [freeList EXCEPT ![t][c] = l],
         freeListSize' = [freeListSize EXCEPT ![t][c] = v],
         failures' \in [Threads -> 0..MaxFailures],
         \A u \in Threads : failures[u] <= failures'[u],
         \E k \in 0..failures'[t] : v = Short(Len(l), k),
         Len(l) <= Threshold + failures'[t]
  PROVE  Counted'
<1>1. /\ failures \in [Threads -> 0..MaxFailures]
      /\ freeListSize \in [Threads -> [Classes -> 0..(SizeMod - 1)]]
      /\ \A u \in Threads, d \in Classes :
           /\ \E k \in 0..failures[u] : freeListSize[u][d] = Short(Len(freeList[u][d]), k)
           /\ Len(freeList[u][d]) <= Threshold + failures[u]
      /\ freeList \in [Threads -> [Classes -> Seq(Blocks)]]
  BY DEF Counted, Caches
<1>2. /\ freeListSize' \in [Threads -> [Classes -> 0..(SizeMod - 1)]]
      /\ freeListSize'[t][c] = v /\ freeList'[t][c] = l
  BY <1>1
<1>3. ASSUME NEW u \in Threads, NEW d \in Classes, u # t \/ d # c
      PROVE  freeListSize'[u][d] = freeListSize[u][d] /\ freeList'[u][d] = freeList[u][d]
  BY <1>1, <1>3
<1>4. ASSUME NEW u \in Threads, NEW d \in Classes
      PROVE  /\ \E k \in 0..failures'[u] : freeListSize'[u][d] = Short(Len(freeList'[u][d]), k)
             /\ Len(freeList'[u][d]) <= Threshold + failures'[u]
  <2>1. CASE u = t /\ d = c
    BY <1>2, <2>1
  <2>2. CASE u # t \/ d # c
    <3> DEFINE n == Len(freeList[u][d])
    <3>1. freeListSize'[u][d] = freeListSize[u][d] /\ Len(freeList'[u][d]) = n
      BY <1>3, <2>2
    <3>2. n \in Nat /\ (\E k \in 0..failures[u] : freeListSize[u][d] = Short(n, k))
          /\ n <= Threshold + failures[u]
      BY <1>1, LenProperties
    <3>3. /\ failures[u] \in Nat /\ failures'[u] \in Nat /\ failures[u] <= failures'[u]
          /\ Threshold \in Nat
      BY <1>1, Modulo
    <3> HIDE DEF n
    <3>4. 0..failures[u] \subseteq 0..failures'[u] /\ n <= Threshold + failures'[u]
      BY <3>2, <3>3
    <3> QED
      BY <3>1, <3>2, <3>4
  <2> QED
    BY <2>1, <2>2
<1> QED
  BY <1>2, <1>4 DEF Counted

-----------------------------------------------------------------------------
(* Every step keeps the invariant.                                         *)

LEMMA CacheEntry ==
  ASSUME Caches, Counted, NEW t \in Threads, NEW c \in Classes
  PROVE  /\ ListOf(freeList[t][c], c) /\ freeList[t][c] \in Seq(Blocks)
         /\ failures[t] \in 0..MaxFailures
         /\ Len(freeList[t][c]) \in 0..(Threshold + failures[t])
         /\ \E k \in 0..failures[t] : freeListSize[t][c] = Short(Len(freeList[t][c]), k)
<1>1. /\ ListOf(freeList[t][c], c) /\ failures[t] \in 0..MaxFailures
      /\ \E k \in 0..failures[t] : freeListSize[t][c] = Short(Len(freeList[t][c]), k)
      /\ Len(freeList[t][c]) <= Threshold + failures[t]
  BY DEF Caches, Counted
<1>2. Len(freeList[t][c]) \in Nat /\ freeList[t][c] \in Seq(Blocks)
  BY <1>1, ListLength DEF ListOf
<1>3. failures[t] \in Nat /\ Threshold \in Nat
  BY <1>1, Modulo
<1> QED
  BY <1>1, <1>2, <1>3

\* CentralCache and the locks are left alone.
LEMMA CentralUnchanged ==
  ASSUME CentralInv, Holding, UNCHANGED <<centralVars, inside>>
  PROVE  CentralInv' /\ Holding'
<1>1. UNCHANGED Central!pages /\ Proved!Inv
  BY DEF centralVars, Central!pages, CentralInv
<1>2. Proved!Inv'
  BY <1>1, PagesUnchanged
<1>3. /\ UNCHANGED <<held, list, trackers, delayCount, lock, users, corrupted, inside>>
      /\ CentralTyped /\ Backed /\ Cuts
  BY DEF centralVars, CentralInv
<1>4. Central!InLists' = Central!InLists /\ Out' = Out
  BY <1>3 DEF Out, Central!InLists, Central!Elements
<1>5. CentralTyped' /\ Backed' /\ Cuts'
  BY <1>3, <1>4 DEF CentralTyped, Backed, Cuts, BeingCut
<1> QED
  BY <1>2, <1>3, <1>5 DEF CentralInv, Holding

LEMMA PopBlockInv ==
  ASSUME Inv, NEW t \in Threads, NEW c \in Classes, PopBlock(t, c)
  PROVE  Inv'
<1> DEFINE l == freeList[t][c]
           n == Len(l)
           v == Minus(freeListSize[t][c], 1)
<1>1. /\ CentralInv /\ Holding /\ Caches /\ Counted
      /\ l # <<>> /\ freeList' = [freeList EXCEPT ![t][c] = Tail(l)]
      /\ freeListSize' = [freeListSize EXCEPT ![t][c] = v]
      /\ UNCHANGED <<centralVars, inside, failures>>
      /\ users' = users
  BY DEF Inv, PopBlock, centralVars
<1>2. CentralInv' /\ Holding'
  BY <1>1, CentralUnchanged
<1>3. /\ ListOf(l, c) /\ l \in Seq(Blocks) /\ failures[t] \in 0..MaxFailures
      /\ n \in 0..(Threshold + failures[t])
      /\ \E k \in 0..failures[t] : freeListSize[t][c] = Short(n, k)
  BY <1>1, CacheEntry
<1>4. /\ ListOf(Tail(l), c) /\ Len(Tail(l)) = n - 1 /\ n > 0
      /\ Central!Elements(Tail(l)) \subseteq Central!Elements(l)
      /\ Tail(l) \in Seq(Blocks)
  BY <1>1, <1>3, ListHead DEF ListOf
<1> HIDE DEF l, v, n
<1>5. Caches'
  <2>1. Exchange(t, c, Tail(l), {}, {})
    BY <1>1, <1>4 DEF Exchange, l
  <2> QED
    BY <1>1, <2>1, CachesAfter
<1>6. PICK k \in 0..failures[t] : freeListSize[t][c] = Short(n, k)
  BY <1>3
<1>7. /\ n \in 0..(Threshold + MaxFailures) /\ k \in 0..MaxFailures
      /\ n - 1 <= Threshold + failures[t] /\ n >= 1
  BY <1>3, <1>4, <1>6, Modulo
<1>8. v = Short(n - 1, k) /\ v \in 0..(SizeMod - 1)
  BY <1>6, <1>7, CountDown DEF v
<1>9. /\ failures' \in [Threads -> 0..MaxFailures]
      /\ \A u \in Threads : failures[u] <= failures'[u]
      /\ failures'[t] = failures[t]
  BY <1>1 DEF Counted
<1>10. Counted'
  <2>1. Len(Tail(l)) <= Threshold + failures'[t]
    BY <1>4, <1>7, <1>9
  <2>2. \E j \in 0..failures'[t] : v = Short(Len(Tail(l)), j)
    BY <1>4, <1>6, <1>8, <1>9
  <2> QED
    BY <1>1, <1>4, <1>8, <1>9, <2>1, <2>2, CountedAfter
<1> QED
  BY <1>2, <1>5, <1>10 DEF Inv

LEMMA FetchFailsInv ==
  ASSUME Inv, NEW t \in Threads, NEW c \in Classes, FetchFails(t, c)
  PROVE  Inv'
<1> DEFINE l == freeList[t][c]
           n == Len(l)
           v == Minus(freeListSize[t][c], 1)
<1>1. /\ CentralInv /\ Holding /\ Caches /\ Counted
      /\ failures[t] < MaxFailures
      /\ failures' = [failures EXCEPT ![t] = failures[t] + 1]
      /\ freeListSize' = [freeListSize EXCEPT ![t][c] = v]
      /\ UNCHANGED <<centralVars, freeList, inside>>
      /\ users' = users
  BY DEF Inv, FetchFails, centralVars
<1>2. CentralInv' /\ Holding'
  BY <1>1, CentralUnchanged
<1>3. Caches'
  BY <1>1, CachesKept
<1>4. /\ l \in Seq(Blocks) /\ failures[t] \in 0..MaxFailures
      /\ n \in 0..(Threshold + failures[t])
      /\ \E k \in 0..failures[t] : freeListSize[t][c] = Short(n, k)
  BY <1>1, CacheEntry
<1>5. freeList' = [freeList EXCEPT ![t][c] = l]
  <2>1. freeList \in [Threads -> [Classes -> Seq(Blocks)]]
    BY <1>1 DEF Caches
  <2> QED
    BY <1>1, <2>1
<1>6. /\ failures' \in [Threads -> 0..MaxFailures]
      /\ \A u \in Threads : failures[u] <= failures'[u]
      /\ failures'[t] = failures[t] + 1
  <2>1. failures \in [Threads -> 0..MaxFailures] /\ MaxFailures \in Nat
    BY <1>1, Modulo DEF Counted
  <2>2. failures'[t] = failures[t] + 1 /\ failures[t] + 1 \in 0..MaxFailures
    BY <1>1, <2>1
  <2>3. \A u \in Threads \ {t} : failures'[u] = failures[u]
    BY <1>1, <2>1
  <2>4. \A u \in Threads : failures[u] \in Nat /\ failures[u] <= failures[u]
    BY <2>1
  <2>5. \A u \in Threads : failures[u] <= failures'[u]
    BY <2>1, <2>2, <2>3, <2>4
  <2>6. failures' \in [Threads -> 0..MaxFailures]
    BY <1>1, <2>1, <2>2
  <2> QED
    BY <2>2, <2>5, <2>6
<1> HIDE DEF v, n
<1>7. PICK k \in 0..failures[t] : freeListSize[t][c] = Short(n, k)
  BY <1>4
<1>8. /\ n \in 0..(Threshold + MaxFailures) /\ k \in 0..MaxFailures /\ k + 1 \in 0..failures'[t]
      /\ n <= Threshold + failures'[t]
  <2>1. failures[t] \in Nat /\ Threshold \in Nat /\ n <= Threshold + failures[t] /\ n \in Nat
        /\ k \in Nat /\ k <= failures[t]
    BY <1>4, <1>7, Modulo
  <2>2. k + 1 \in 0..failures'[t] /\ n <= Threshold + failures'[t]
    BY <1>6, <2>1
  <2> QED
    BY <1>4, <1>7, <2>2, WithinBound
<1>9. v = Short(n, k + 1) /\ v \in 0..(SizeMod - 1)
  BY <1>7, <1>8, CountDown DEF v
<1>10. Counted'
  <2>1. /\ \E j \in 0..failures'[t] : v = Short(Len(l), j)
        /\ Len(l) <= Threshold + failures'[t]
    BY <1>8, <1>9 DEF n
  <2>2. /\ Counted /\ Caches /\ l \in Seq(Blocks)
        /\ freeListSize' = [freeListSize EXCEPT ![t][c] = v]
    BY <1>1, <1>4
  <2>3. freeList' = [freeList EXCEPT ![t][c] = l]
    BY <1>5
  <2> HIDE DEF l
  <2> QED
    BY <1>6, <1>9, <2>1, <2>2, <2>3, CountedAfter, ZenonT(60)
<1> QED
  BY <1>2, <1>3, <1>10 DEF Inv

\* A step in CentralCache that only adds users.
LEMMA CentralStepInv ==
  ASSUME Inv, NEW t \in Threads, NEW c \in Classes, UNCHANGED <<cache, failures>>,
         CentralInv', OthersKept(c), users \subseteq users', EnterFor(t, c),
         (inside[t] = NoClass /\ lock[c] = Central!Unlocked) \/ inside[t] = c
  PROVE  Inv'
<1>1. UNCHANGED <<freeList, freeListSize, failures>> /\ Holding /\ Caches /\ Counted
  BY DEF Inv, cache
<1>2. Holding'
  BY <1>1, HoldingAfter
<1>3. Caches'
  BY <1>1, CachesKept
<1>4. Counted'
  BY <1>1 DEF Counted
<1> QED
  BY <1>2, <1>3, <1>4 DEF Inv

LEMMA FetchBlockInv ==
  ASSUME Inv, NEW t \in Threads, NEW c \in Classes, FetchBlock(t, c)
  PROVE  Inv'
<1>1. /\ CentralInv /\ inside[t] = NoClass
      /\ \/ Central!FetchFromList(c)
         \/ Central!FetchSpan(c)
         \/ Central!FetchNullSpan(c)
      /\ EnterFor(t, c)
      /\ UNCHANGED <<cache, failures>>
  BY DEF Inv, FetchBlock, Idle
<1>2. lock[c] = Central!Unlocked
  BY <1>1 DEF Central!FetchFromList, Central!FetchSpan, Central!FetchNullSpan
<1>3. CentralInv' /\ OthersKept(c) /\ users \subseteq users'
  BY <1>1, FetchFromListCentral, FetchSpanCentral, FetchNullSpanCentral
<1> QED
  BY <1>1, <1>2, <1>3, CentralStepInv

LEMMA ContinueInv ==
  ASSUME Inv, NEW t \in Threads, Continue(t)
  PROVE  Inv'
<1> DEFINE c == inside[t]
<1>1. /\ CentralInv /\ c \in Classes
      /\ \/ Central!CutSpan(c)
         \/ \E d \in lock[c].todo : Central!UpdateFreeCount(c, d) \/ Central!ReturnSpan(c, d)
      /\ EnterFor(t, c)
      /\ UNCHANGED <<cache, failures>>
  BY DEF Inv, Continue
<1>2. inside[t] = c
  OBVIOUS
<1> HIDE DEF c
<1>3. CentralInv' /\ OthersKept(c) /\ users \subseteq users'
  BY <1>1, CutSpanCentral, UpdateFreeCountCentral, ReturnSpanCentral
<1> QED
  BY <1>1, <1>2, <1>3, CentralStepInv

\* The list with the freed block in front.
WithFreed(l, t, b) == l = <<b>> \o freeList[t][b.class]

LEMMA FreedBlock ==
  ASSUME Inv, NEW t \in Threads, NEW b \in InUse, NEW l, WithFreed(l, t, b)
  PROVE  LET c == b.class
         IN  /\ b \in Blocks /\ c \in Classes /\ ListOf(l, c)
             /\ Len(l) = Len(freeList[t][c]) + 1
             /\ Central!Elements(l) = {b} \cup Central!Elements(freeList[t][c])
             /\ Central!Elements(l) \subseteq users
<1> DEFINE c == b.class
           r == freeList[t][c]
<1>1. CentralTyped /\ Caches /\ Counted /\ b \in users /\ b \notin Cached(t)
  BY InUseMember DEF Inv, CentralInv
<1>2. b \in Blocks /\ c \in Classes
  BY <1>1, BlockFields DEF CentralTyped
<1>3. ListOf(r, c) /\ Len(r) \in Nat /\ Central!Elements(r) \subseteq Cached(t) /\ Cached(t) \subseteq users
  BY <1>1, <1>2, CachedMember, ListLength DEF Caches
<1>4. ListOf(<<b>>, c) /\ Central!Elements(<<b>>) = {b} /\ Len(<<b>>) = 1
  BY <1>2, OneBlock
<1>5. Central!Elements(<<b>>) \cap Central!Elements(r) = {}
  BY <1>1, <1>3, <1>4
<1> HIDE DEF r
<1>6. Joins(<<b>> \o r, <<b>>, r, c)
  BY <1>3, <1>4, <1>5, ListConcat
<1>7. /\ ListOf(<<b>> \o r, c) /\ Len(<<b>> \o r) = Len(r) + 1
      /\ Central!Elements(<<b>> \o r) = {b} \cup Central!Elements(r)
  BY <1>3, <1>4, <1>6 DEF Joins
<1>8. Central!Elements(<<b>> \o r) \subseteq users
  BY <1>1, <1>3, <1>7
<1>9. l = <<b>> \o r
  BY DEF WithFreed, r
<1> QED
  BY <1>2, <1>7, <1>8, <1>9 DEF r

LEMMA KeepAllInv ==
  ASSUME Inv, NEW t \in Threads, NEW b \in InUse, NEW c \in Classes, c = b.class,
         NEW l, WithFreed(l, t, b),
         NEW batchNum, batchNum = Plus(freeListSize[t][c], 1),
         ~(ShouldReturn(batchNum) /\ batchNum > 1 /\ KeepNum(batchNum) <= Len(l)),
         KeepAll(t, c, l, batchNum), UNCHANGED failures
  PROVE  Inv'
<1> DEFINE n == Len(freeList[t][c])
<1>1. /\ CentralInv /\ Holding /\ Caches /\ Counted
      /\ freeList' = [freeList EXCEPT ![t][c] = l]
      /\ freeListSize' = [freeListSize EXCEPT ![t][c] = batchNum]
      /\ UNCHANGED <<centralVars, inside>>
      /\ users' = users
  BY DEF Inv, KeepAll, centralVars
<1>2. CentralInv' /\ Holding'
  BY <1>1, CentralUnchanged
<1>3. /\ ListOf(l, c) /\ Len(l) = n + 1
      /\ Central!Elements(l) = {b} \cup Central!Elements(freeList[t][c])
      /\ l \in Seq(Blocks)
  BY FreedBlock DEF ListOf
<1>4. Caches'
  <2>1. Exchange(t, c, l, {b}, {})
    BY <1>1, <1>3 DEF Exchange
  <2> QED
    BY <1>1, <2>1, CachesAfter
<1>5. /\ failures[t] \in 0..MaxFailures /\ n \in 0..(Threshold + failures[t])
      /\ \E k \in 0..failures[t] : freeListSize[t][c] = Short(n, k)
  BY <1>1, CacheEntry
<1> HIDE DEF n
<1>6. PICK k \in 0..failures[t] : freeListSize[t][c] = Short(n, k)
  BY <1>5
<1>7. n \in 0..(Threshold + MaxFailures) /\ k \in 0..MaxFailures
  BY <1>5, <1>6, WithinBound
<1>8. batchNum = Short(n + 1, k) /\ batchNum \in 0..(SizeMod - 1)
  BY <1>6, <1>7, CountUp
<1>9. n + 1 <= Threshold + failures[t]
  BY <1>3, <1>5, <1>8, KeptWithinBound
<1>10. /\ failures' \in [Threads -> 0..MaxFailures] /\ failures'[t] = failures[t]
       /\ \A u \in Threads : failures[u] <= failures'[u]
  BY <1>1 DEF Counted
<1>11. Counted'
  <2>1. /\ \E j \in 0..failures'[t] : batchNum = Short(Len(l), j)
        /\ Len(l) <= Threshold + failures'[t]
    BY <1>3, <1>8, <1>9, <1>10
  <2> QED
    BY <1>1, <1>3, <1>8, <1>10, <2>1, CountedAfter
<1> QED
  BY <1>2, <1>4, <1>11 DEF Inv

LEMMA ReturnToCentralInv ==
  ASSUME Inv, NEW t \in Threads, NEW b \in InUse, NEW c \in Classes, c = b.class,
         NEW l, WithFreed(l, t, b), inside[t] = NoClass,
         NEW batchNum, batchNum = Plus(freeListSize[t][c], 1),
         batchNum > 1, KeepNum(batchNum) <= Len(l), NEW size \in 0..1,
         ReturnToCentral(t, c, l, batchNum, size), UNCHANGED failures
  PROVE  Inv'
<1> DEFINE n == Len(freeList[t][c])
           keepNum == KeepNum(batchNum)
           kept == SubSeq(l, 1, keepNum)
           chain == SubSeq(l, keepNum + 1, Len(l))
<1>1. /\ CentralInv /\ Holding /\ Caches /\ Counted
      /\ freeList' = [freeList EXCEPT ![t][c] = kept]
      /\ freeListSize' = [freeListSize EXCEPT ![t][c] = keepNum]
      /\ \/ chain = <<>> /\ UNCHANGED <<centralVars, inside>> /\ users' = users
         \/ /\ \E elapsed \in BOOLEAN :
                 Central!ReturnRange(c, chain, (batchNum - keepNum) * size, elapsed)
            /\ EnterFor(t, c)
  BY DEF Inv, ReturnToCentral, CountAfterReturn, Chain, centralVars
<1>2. /\ ListOf(l, c) /\ Len(l) = n + 1
      /\ Central!Elements(l) = {b} \cup Central!Elements(freeList[t][c])
      /\ Central!Elements(l) \subseteq users
  BY FreedBlock
<1>3. /\ failures[t] \in 0..MaxFailures /\ n \in 0..(Threshold + failures[t])
      /\ \E k \in 0..failures[t] : freeListSize[t][c] = Short(n, k)
  BY <1>1, CacheEntry
<1> HIDE DEF n
<1>4. PICK k \in 0..failures[t] : freeListSize[t][c] = Short(n, k)
  BY <1>3
<1>5. n \in 0..(Threshold + MaxFailures) /\ k \in 0..MaxFailures
  BY <1>3, <1>4, WithinBound
<1>6. batchNum = Short(n + 1, k)
  BY <1>4, <1>5, CountUp
<1>7. /\ keepNum \in 1..(n + 1) /\ keepNum <= Threshold + failures[t]
      /\ Short(keepNum, 0) = keepNum /\ keepNum \in 0..(SizeMod - 1)
      /\ batchNum - keepNum \in Int
  BY <1>2, <1>3, <1>6, LeftWithinBound
<1> HIDE DEF keepNum
<1>8. /\ ListOf(kept, c) /\ Len(kept) = keepNum /\ ListOf(chain, c)
      /\ Central!Elements(kept) \cup Central!Elements(chain) \subseteq Central!Elements(l)
      /\ Central!Elements(kept) \cap Central!Elements(chain) = {}
  <2>1. keepNum \in 0..Len(l)
    BY <1>2, <1>3, <1>7, Modulo
  <2> QED
    BY <1>2, <2>1, ListCut
<1>9. (batchNum - keepNum) * size \in Int
  BY <1>7
<1> HIDE DEF kept, chain
<1>10. CentralInv' /\ Holding' /\ users' = users \ Central!Elements(chain)
  <2>1. CASE chain = <<>> /\ UNCHANGED <<centralVars, inside>> /\ users' = users
    <3>1. CentralInv' /\ Holding'
      BY <1>1, <2>1, CentralUnchanged
    <3>2. Central!Elements(chain) = {}
      BY <2>1, EmptyList
    <3> QED
      BY <2>1, <3>1, <3>2
  <2>2. ASSUME NEW elapsed \in BOOLEAN,
               Central!ReturnRange(c, chain, (batchNum - keepNum) * size, elapsed),
               EnterFor(t, c)
        PROVE  CentralInv' /\ Holding' /\ users' = users \ Central!Elements(chain)
    <3> DEFINE count == (batchNum - keepNum) * size
    <3>1. count \in Int /\ Central!Elements(chain) \subseteq users
      BY <1>2, <1>8, <1>9
    <3>2. Central!ReturnRange(c, chain, count, elapsed)
      BY <2>2
    <3> HIDE DEF count
    <3>3. /\ CentralInv' /\ OthersKept(c) /\ users' = users \ Central!Elements(chain)
      BY <1>1, <1>8, <3>1, <3>2, ReturnRangeCentral
    <3>4. lock[c] = Central!Unlocked
      BY <3>2 DEF Central!ReturnRange
    <3>5. Holding'
      BY <1>1, <2>2, <3>3, <3>4, HoldingAfter
    <3> QED
      BY <3>3, <3>5
  <2> QED
    BY <1>1, <2>1, <2>2
<1>11. Caches'
  <2>1. Exchange(t, c, kept, {b}, Central!Elements(chain))
    BY <1>1, <1>2, <1>8, <1>10 DEF Exchange
  <2> QED
    BY <1>1, <2>1, CachesAfter
<1>12. /\ failures' \in [Threads -> 0..MaxFailures] /\ failures'[t] = failures[t]
       /\ \A u \in Threads : failures[u] <= failures'[u]
  BY <1>1 DEF Counted
<1>13. Counted'
  <2>1. kept \in Seq(Blocks)
    BY <1>8 DEF ListOf
  <2>2. 0 \in 0..failures'[t]
    BY <1>3, <1>12, Modulo
  <2>3. /\ \E j \in 0..failures'[t] : keepNum = Short(Len(kept), j)
        /\ Len(kept) <= Threshold + failures'[t]
    BY <1>7, <1>8, <1>12, <2>2
  <2> QED
    BY <1>1, <1>7, <1>12, <2>1, <2>3, CountedAfter
<1> QED
  BY <1>10, <1>11, <1>13 DEF Inv

LEMMA DeallocateInv ==
  ASSUME Inv, NEW t \in Threads, NEW b \in InUse, NEW size \in 0..1, Deallocate(t, b, size)
  PROVE  Inv'
<1> DEFINE c == b.class
           l == <<b>> \o freeList[t][c]
           batchNum == Plus(freeListSize[t][c], 1)
<1>1. /\ inside[t] = NoClass /\ UNCHANGED failures
      /\ IF ShouldReturn(batchNum) /\ batchNum > 1 /\ KeepNum(batchNum) <= Len(l)
           THEN ReturnToCentral(t, c, l, batchNum, size)
           ELSE KeepAll(t, c, l, batchNum)
  BY DEF Deallocate, Idle
<1>2. c = b.class /\ WithFreed(l, t, b) /\ batchNum = Plus(freeListSize[t][c], 1)
  BY DEF WithFreed
<1>3. c \in Classes
  BY <1>2, FreedBlock
<1> HIDE DEF c, l, batchNum
<1> QED
  BY <1>1, <1>2, <1>3, ReturnToCentralInv, KeepAllInv

LEMMA InitInv == Init => Inv
<1> SUFFICES ASSUME Init PROVE Inv
  OBVIOUS
<1>1. /\ Central!Page!Init
      /\ list = [c \in Classes |-> <<>>] /\ trackers = <<>>
      /\ delayCount = [c \in Classes |-> 0]
      /\ lock = [c \in Classes |-> Central!Unlocked]
      /\ users = {} /\ corrupted = "no"
      /\ freeList = [t \in Threads |-> [c \in Classes |-> <<>>]]
      /\ freeListSize = [t \in Threads |-> [c \in Classes |-> 0]]
      /\ inside = [t \in Threads |-> NoClass]
      /\ failures = [t \in Threads |-> 0]
  BY DEF Init, Central!Init
<1>2. Proved!Inv
  BY <1>1, PagesAtStart
<1>3. CentralTyped
  <2>1. \A c \in Classes : list[c] = <<>> /\ lock[c] = Central!Unlocked
    BY <1>1
  <2>2. \A c \in Classes : ListOf(list[c], c) /\ Section(lock[c], Len(trackers))
    BY <2>1, EmptyList, SectionUnlocked
  <2>3. list \in [Classes -> Seq(Blocks)] /\ trackers \in Seq(TrackerType)
    BY <1>1
  <2>4. delayCount \in [Classes -> 0..(MaxDelayCount - 1)] /\ DOMAIN lock = Classes
    BY <1>1, MemoryPoolAssumption
  <2> QED
    BY <1>1, <2>2, <2>3, <2>4 DEF CentralTyped
<1>4. Out = {}
  <2>1. \A c \in Classes : Central!Elements(list[c]) = {}
    BY <1>1, EmptyList
  <2> QED
    BY <1>1, <2>1 DEF Out, Central!InLists
<1>5. Backed /\ Cuts
  <2>1. \A c \in Classes : ~BeingCut(c)
    BY <1>1, SectionUnlocked DEF BeingCut
  <2> QED
    BY <1>4, <2>1 DEF Backed, Cuts, Out
<1>6. Holding
  BY <1>1, MemoryPoolAssumption DEF Holding
<1>7. \A t \in Threads, c \in Classes : freeList[t][c] = <<>>
  BY <1>1
<1>8. Caches
  <2>1. \A t \in Threads : Cached(t) = {}
    BY <1>7, EmptyList, CachedMember
  <2>2. freeList \in [Threads -> [Classes -> Seq(Blocks)]]
    BY <1>1
  <2> QED
    BY <1>7, <2>1, <2>2, EmptyList DEF Caches
<1>9. Counted
  <2>1. Short(0, 0) = 0 /\ 0 \in 0..(SizeMod - 1) /\ 0 \in 0..MaxFailures /\ 0 \in 0..0
        /\ 0 <= Threshold + 0
    BY Modulo DEF Short
  <2>2. \A t \in Threads, c \in Classes : freeListSize[t][c] = 0 /\ Len(freeList[t][c]) = 0
    BY <1>1, <1>7, EmptyList
  <2>3. \A t \in Threads : failures[t] = 0
    BY <1>1
  <2> QED
    BY <1>1, <2>1, <2>2, <2>3 DEF Counted
<1> QED
  BY <1>2, <1>3, <1>5, <1>6, <1>8, <1>9 DEF Inv, CentralInv

LEMMA NextInv == Inv /\ [Next]_vars => Inv'
<1> SUFFICES ASSUME Inv, [Next]_vars PROVE Inv'
  OBVIOUS
<1>1. CASE UNCHANGED vars
  <2>1. UNCHANGED <<centralVars, inside>> /\ UNCHANGED <<cache, failures>>
    BY <1>1 DEF vars
  <2>2. /\ CentralInv /\ Holding /\ Caches /\ Counted
        /\ UNCHANGED <<freeList, freeListSize, failures, users>>
    BY <2>1 DEF Inv, cache, centralVars
  <2>3. CentralInv' /\ Holding'
    BY <2>1, <2>2, CentralUnchanged
  <2>4. Caches' /\ Counted'
    BY <2>2, CachesKept DEF Counted
  <2> QED
    BY <2>3, <2>4 DEF Inv
<1>2. ASSUME NEW t \in Threads, NEW c \in Classes, PopBlock(t, c) PROVE Inv'
  BY <1>2, PopBlockInv
<1>3. ASSUME NEW t \in Threads, NEW c \in Classes, FetchBlock(t, c) PROVE Inv'
  BY <1>3, FetchBlockInv
<1>4. ASSUME NEW t \in Threads, NEW c \in Classes, FetchFails(t, c) PROVE Inv'
  BY <1>4, FetchFailsInv
<1>5. ASSUME NEW t \in Threads, NEW b \in InUse, NEW size \in 0..1, Deallocate(t, b, size) PROVE Inv'
  BY <1>5, DeallocateInv
<1>6. ASSUME NEW t \in Threads, Continue(t) PROVE Inv'
  BY <1>6, ContinueInv
<1> QED
  <2>1. 0 \in 0..1 /\ 1 \in 0..1
    OBVIOUS
  <2> QED
    BY <1>1, <1>2, <1>3, <1>4, <1>5, <1>6, <2>1 DEF Next

LEMMA AlwaysInv == Spec => []Inv
<1>1. Init => Inv
  BY InitInv
<1>2. Inv /\ [Next]_vars => Inv'
  BY NextInv
<1> QED
  BY <1>1, <1>2, PTL DEF Spec

-----------------------------------------------------------------------------
(* What follows from it.                                                   *)

\* Every list has blocks of its class, a class is locked as long as some thread is in
\* CentralCache for it, and the trackers' counters keep within their bounds.
THEOREM TypeCorrect == Spec => []TypeOK
<1>1. ASSUME Inv PROVE TypeOK
  <2>1. CentralTyped /\ Central!Page!TypeOK /\ Holding /\ Caches /\ Counted
    BY <1>1, SameInvariants DEF Inv, CentralInv
  <2>2. ASSUME NEW c \in Classes, NEW b \in Central!Elements(list[c])
        PROVE  b.class = c /\ b.no \in 1..BlockNum[c]
    <3>1. ListOf(list[c], c)
      BY <2>1 DEF CentralTyped
    <3>2. b \in Blocks /\ b.class = c
      BY <3>1, ListLength
    <3> QED
      BY <3>2, BlockFields
  <2>3. \A b \in users : b.no \in 1..BlockNum[b.class]
    BY <2>1, BlockFields DEF CentralTyped
  <2>4. ASSUME NEW i \in DOMAIN trackers
        PROVE  trackers[i].freeCount \in -MaxFreeCount..MaxFreeCount
    <3>1. trackers[i] \in TrackerType
      BY <2>1, ElementOfSeq, LenProperties DEF CentralTyped
    <3> QED
      BY <3>1, TrackerFields
  <2>5. ASSUME NEW c \in Classes PROVE lock[c].step \in {"unlocked", "cut", "settle"}
    <3>1. Section(lock[c], Len(trackers))
      BY <2>1 DEF CentralTyped
    <3> QED
      BY <3>1, SectionCases
  <2>6. Central!TypeOK
    BY <2>1, <2>2, <2>3, <2>4, <2>5 DEF CentralTyped, Central!TypeOK
  <2>7. ASSUME NEW t \in Threads, NEW c \in Classes
        PROVE  /\ \A b \in Central!Elements(freeList[t][c]) : b.class = c
               /\ freeListSize[t][c] \in 0..(SizeMod - 1)
               /\ (lock[c] # Central!Unlocked) = (\E u \in Threads : inside[u] = c)
    <3>1. ListOf(freeList[t][c], c)
      BY <2>1 DEF Caches
    <3>2. \A b \in Central!Elements(freeList[t][c]) : b.class = c
      BY <3>1, ListLength
    <3>3. freeListSize[t][c] \in 0..(SizeMod - 1)
      BY <2>1 DEF Counted
    <3>4. (lock[c] # Central!Unlocked) <=> (\E u \in Threads : inside[u] = c)
      BY <2>1 DEF Holding
    <3> QED
      BY <3>2, <3>3, <3>4
  <2> QED
    BY <2>6, <2>7 DEF TypeOK
<1> QED
  BY <1>1, AlwaysInv, PTL

\* A block that a thread's cache has is in its list once, in no other thread's, and out of
\* CentralCache, whichever thread freed it.
THEOREM BlocksOnce == Spec => []NothingTwice
<1>1. ASSUME Inv PROVE NothingTwice
  <2>1. ASSUME NEW t \in Threads, NEW c \in Classes
        PROVE  Cardinality(Central!Elements(freeList[t][c])) = Len(freeList[t][c])
    <3>1. ListOf(freeList[t][c], c)
      BY <1>1 DEF Inv, Caches
    <3> QED
      BY <3>1, ListCardinality
  <2>2. /\ \A t \in Threads : Cached(t) \subseteq users
        /\ \A t, u \in Threads : t # u => Cached(t) \cap Cached(u) = {}
    BY <1>1 DEF Inv, Caches
  <2> QED
    BY <2>1, <2>2 DEF NothingTwice
<1> QED
  BY <1>1, AlwaysInv, PTL

\* Until memory in use goes back, every block is in one place and lies in a span that
\* CentralCache holds, and every span is of one class, whatever stale trackers say.
THEOREM BlocksInHeldSpans == Spec => []BlocksBacked
<1>1. ASSUME Inv PROVE BlocksBacked
  <2>1. CentralTyped /\ Backed
    BY <1>1 DEF Inv, CentralInv
  <2>2. ASSUME corrupted = "no", NEW b \in users \cup Central!InLists
        PROVE  Central!SpanOf(b) \in held
    <3>1. b \in Out /\ b \in Blocks
      BY <2>1, OutBlocks DEF Out
    <3> QED
      BY <2>1, <2>2, <3>1, BlockFields DEF Backed
  <2>3. ASSUME NEW c \in Classes
        PROVE  Central!Cardinality(Central!Elements(list[c])) = Len(list[c])
    <3>1. ListOf(list[c], c)
      BY <2>1 DEF CentralTyped
    <3> QED
      BY <3>1, ListCardinality, SameCardinality
  <2>4. /\ users \cap Central!InLists = {}
        /\ \A b, d \in users \cup Central!InLists : b.span = d.span => b.class = d.class
    BY <2>1 DEF Backed, Out
  <2> QED
    BY <2>2, <2>3, <2>4 DEF BlocksBacked, Central!BlocksBacked
<1> QED
  BY <1>1, AlwaysInv, PTL

\* CentralCache gives PageCache back only spans it holds, and never more pages than they
\* have: every page stays in one span, and spanMap_ current.
THEOREM PagesUnharmed == Spec => []PageCacheUnharmed
<1>1. ASSUME Inv PROVE PageCacheUnharmed
  BY <1>1, SameInvariants DEF Inv, CentralInv, PageCacheUnharmed, Central!PageCacheUnharmed
<1> QED
  BY <1>1, AlwaysInv, PTL

\* A counter that failed fetches have made too small lets a list grow by one block for
\* each of them beyond the threshold, and no further.
THEOREM CachesBounded == Spec => []CacheBounded
<1>1. ASSUME Inv PROVE CacheBounded
  BY <1>1 DEF Inv, Counted, CacheBounded
<1> QED
  BY <1>1, AlwaysInv, PTL
=============================================================================
