--------------------------- MODULE PageCache_proofs ---------------------------
(***************************************************************************)
(* Proofs about PageCache for every number of pages, every placement of    *)
(* what mmap() returns and all sizes that callers may ask for.             *)
(*                                                                         *)
(* The lemmas of the first part say what each operation on the lists does  *)
(* to the set of free spans; the steps are then a matter of sets of pages. *)
(***************************************************************************)
EXTENDS PageCache, SequenceTheorems, TLAPS

\* The lists of freeSpans_ hold addresses, each list an address at most once.
Lists(f) == /\ DOMAIN f \subseteq Pages
            /\ \A k \in DOMAIN f : f[k] \in Seq(Pages)
            /\ \A k \in DOMAIN f : \A i, j \in DOMAIN f[k] : f[k][i] = f[k][j] => i = j

LEMMA SpansInMember ==
  ASSUME NEW f, NEW s
  PROVE  s \in SpansIn(f) <=> \E k \in DOMAIN f : \E i \in DOMAIN f[k] : s = Span(f[k][i], k)
BY DEF SpansIn

LEMMA SpanInMember ==
  ASSUME NEW f, NEW a, NEW n
  PROVE  Span(a, n) \in SpansIn(f) <=> n \in DOMAIN f /\ \E i \in DOMAIN f[n] : f[n][i] = a
<1>1. \A b, k : Span(a, n) = Span(b, k) <=> a = b /\ n = k
  BY DEF Span
<1> QED
  BY <1>1, SpansInMember

LEMMA SpansOfSize ==
  \A f, k, m : k \in DOMAIN f /\ f[k] = m =>
    \A a : Span(a, k) \in SpansIn(f) <=> \E i \in DOMAIN m : m[i] = a
BY SpanInMember

\* A sequence with an element in front.
LEMMA Front ==
  ASSUME NEW S, NEW a \in S, NEW l \in Seq(S)
  PROVE  /\ <<a>> \o l \in Seq(S)
         /\ DOMAIN (<<a>> \o l) = 1..(Len(l) + 1)
         /\ (<<a>> \o l)[1] = a
         /\ \A i \in 1..Len(l) : (<<a>> \o l)[i + 1] = l[i]
OBVIOUS

\* A sequence without the element at position i.
LEMMA Without ==
  ASSUME NEW S, NEW l \in Seq(S), NEW i \in 1..Len(l),
         NEW m, m = SubSeq(l, 1, i - 1) \o SubSeq(l, i + 1, Len(l))
  PROVE  /\ m \in Seq(S)
         /\ DOMAIN m = 1..(Len(l) - 1)
         /\ \A j \in 1..(i - 1) : m[j] = l[j]
         /\ \A j \in i..(Len(l) - 1) : m[j] = l[j + 1]
<1> DEFINE p == SubSeq(l, 1, i - 1)
           q == SubSeq(l, i + 1, Len(l))
<1>1. Len(l) \in Nat /\ i \in Int /\ \A j \in 1..Len(l) : l[j] \in S
  BY LenProperties, ElementOfSeq
<1>2. p \in Seq(S) /\ Len(p) = i - 1 /\ \A j \in 1..(i - 1) : p[j] = l[j]
  <2>1. \A j \in 1..(i - 1) : l[j] \in S
    BY <1>1
  <2>2. /\ p \in Seq(S)
        /\ Len(p) = IF 1 <= i - 1 THEN (i - 1) - 1 + 1 ELSE 0
        /\ \A j \in 1..((i - 1) - 1 + 1) : p[j] = l[1 + j - 1]
    BY <1>1, <2>1, SubSeqProperties, i - 1 \in Int
  <2> QED
    BY <1>1, <2>2
<1>3. q \in Seq(S) /\ Len(q) = Len(l) - i /\ \A j \in 1..(Len(l) - i) : q[j] = l[i + j]
  <2>1. \A j \in (i + 1)..Len(l) : l[j] \in S
    BY <1>1
  <2>2. /\ q \in Seq(S)
        /\ Len(q) = IF i + 1 <= Len(l) THEN Len(l) - (i + 1) + 1 ELSE 0
        /\ \A j \in 1..(Len(l) - (i + 1) + 1) : q[j] = l[(i + 1) + j - 1]
    BY <1>1, <2>1, SubSeqProperties, i + 1 \in Int
  <2> QED
    BY <1>1, <2>2
<1> HIDE DEF p, q
<1>4. /\ m \in Seq(S)
      /\ Len(m) = Len(l) - 1
      /\ \A j \in 1..(Len(l) - 1) : m[j] = IF j <= i - 1 THEN p[j] ELSE q[j - (i - 1)]
  <2>1. m = p \o q
    BY DEF p, q
  <2>2. Len(p) + Len(q) = Len(l) - 1
    BY <1>1, <1>2, <1>3
  <2>3. /\ p \o q \in Seq(S)
        /\ Len(p \o q) = Len(p) + Len(q)
        /\ \A j \in 1..(Len(p) + Len(q)) :
             (p \o q)[j] = IF j <= Len(p) THEN p[j] ELSE q[j - Len(p)]
    BY <1>2, <1>3, ConcatProperties
  <2> QED
    BY <1>2, <2>1, <2>2, <2>3
<1>5. DOMAIN m = 1..(Len(l) - 1)
  BY <1>4, LenProperties
<1>6. \A j \in i..(Len(l) - 1) : m[j] = l[j + 1]
  <2> SUFFICES ASSUME NEW j \in i..(Len(l) - 1) PROVE m[j] = l[j + 1]
    OBVIOUS
  <2>1. j \in 1..(Len(l) - 1) /\ ~(j <= i - 1) /\ j - (i - 1) \in 1..(Len(l) - i)
        /\ i + (j - (i - 1)) = j + 1
    BY <1>1
  <2> QED
    BY <1>3, <1>4, <2>1
<1>7. \A j \in 1..(i - 1) : m[j] = l[j]
  <2> SUFFICES ASSUME NEW j \in 1..(i - 1) PROVE m[j] = l[j]
    OBVIOUS
  <2>1. j \in 1..(Len(l) - 1) /\ j <= i - 1
    BY <1>1
  <2> QED
    BY <1>2, <1>4, <2>1
<1> QED
  BY <1>4, <1>5, <1>6, <1>7

\* freeSpans_[n] that makes a key changes no span.
LEMMA LookSpans ==
  ASSUME NEW f, Lists(f), NEW n \in Pages
  PROVE  /\ Lists(Put(f, n, List(f, n)))
         /\ SpansIn(Put(f, n, List(f, n))) = SpansIn(f)
<1> DEFINE g == Put(f, n, List(f, n))
<1>1. DOMAIN g = DOMAIN f \cup {n}
  BY DEF Put
<1>2. \A k \in DOMAIN f : g[k] = f[k]
  BY DEF Put, List
<1>3. n \notin DOMAIN f => g[n] = <<>>
  BY DEF Put, List
<1> HIDE DEF g
<1>4. Lists(g)
  <2>1. <<>> \in Seq(Pages) /\ DOMAIN <<>> = {}
    OBVIOUS
  <2>2. DOMAIN g \subseteq Pages
    BY <1>1 DEF Lists
  <2>3. \A k \in DOMAIN g : g[k] \in Seq(Pages)
    BY <1>1, <1>2, <1>3, <2>1 DEF Lists
  <2>4. \A k \in DOMAIN g : \A i, j \in DOMAIN g[k] : g[k][i] = g[k][j] => i = j
    <3> SUFFICES ASSUME NEW k \in DOMAIN g, NEW i \in DOMAIN g[k], NEW j \in DOMAIN g[k],
                        g[k][i] = g[k][j]
                 PROVE  i = j
      OBVIOUS
    <3>1. k \in DOMAIN f /\ g[k] = f[k]
      BY <1>1, <1>2, <1>3, <2>1
    <3> QED
      BY <3>1 DEF Lists
  <2> QED
    BY <2>2, <2>3, <2>4 DEF Lists
<1>5. ASSUME NEW s PROVE s \in SpansIn(g) <=> s \in SpansIn(f)
  BY <1>1, <1>2, <1>3, SpansInMember
<1> QED
  BY <1>4, <1>5 DEF g

\* Pushing a span that is not there adds this span.
LEMMA PushSpans ==
  ASSUME NEW f, Lists(f), NEW n \in Pages, NEW a \in Pages, Span(a, n) \notin SpansIn(f)
  PROVE  /\ Lists(PushSpan(f, n, a))
         /\ SpansIn(PushSpan(f, n, a)) = SpansIn(f) \cup {Span(a, n)}
<1> DEFINE l == List(f, n)
           g == PushSpan(f, n, a)
<1>1. l \in Seq(Pages) /\ \A i, j \in DOMAIN l : l[i] = l[j] => i = j
  BY DEF List, Lists
<1>2. \A i \in DOMAIN l : l[i] # a
  BY SpanInMember DEF List
<1>3. DOMAIN g = DOMAIN f \cup {n} /\ g[n] = <<a>> \o l
  BY DEF PushSpan, Put
<1>4. \A k \in DOMAIN f \ {n} : g[k] = f[k]
  BY DEF PushSpan, Put
<1>0. DOMAIN l = 1..Len(l) /\ Len(l) \in Nat
  BY <1>1, LenProperties
<1>10. n \in DOMAIN g
  BY <1>3
<1> HIDE DEF g
<1>5. /\ g[n] \in Seq(Pages) /\ DOMAIN g[n] = 1..(Len(l) + 1) /\ g[n][1] = a
      /\ \A i \in 1..Len(l) : g[n][i + 1] = l[i]
  BY <1>1, <1>3, Front
<1>6. \A i \in DOMAIN g[n] : i = 1 \/ (i - 1 \in DOMAIN l /\ g[n][i] = l[i - 1])
  <2> SUFFICES ASSUME NEW i \in DOMAIN g[n], i # 1
               PROVE  i - 1 \in DOMAIN l /\ g[n][i] = l[i - 1]
    OBVIOUS
  <2>1. i - 1 \in 1..Len(l) /\ (i - 1) + 1 = i
    BY <1>1, <1>5
  <2> QED
    BY <1>1, <1>5, <2>1
<1>7. \A i, j \in DOMAIN g[n] : g[n][i] = g[n][j] => i = j
  <2> SUFFICES ASSUME NEW i \in DOMAIN g[n], NEW j \in DOMAIN g[n], g[n][i] = g[n][j]
               PROVE  i = j
    OBVIOUS
  <2>1. i \in Int /\ j \in Int
    BY <1>0, <1>5
  <2>2. CASE i = 1 \/ j = 1
    BY <1>2, <1>5, <1>6, <2>2
  <2>3. CASE i # 1 /\ j # 1
    <3>1. i - 1 \in DOMAIN l /\ j - 1 \in DOMAIN l /\ l[i - 1] = l[j - 1]
      BY <1>6, <2>3
    <3>2. i - 1 = j - 1
      BY <1>1, <3>1
    <3> QED
      BY <2>1, <3>2
  <2> QED
    BY <2>2, <2>3
<1>8. Lists(g)
  BY <1>3, <1>4, <1>5, <1>7 DEF Lists
<1>9. ASSUME NEW s PROVE s \in SpansIn(g) <=> s \in SpansIn(f) \/ s = Span(a, n)
  <2>1. CASE \E b : s = Span(b, n)
    <3>1. PICK b : s = Span(b, n)
      BY <2>1
    <3>2. s \in SpansIn(g) <=> \E i \in DOMAIN g[n] : g[n][i] = b
      BY <1>10, <3>1, SpanInMember
    <3>3. s \in SpansIn(f) <=> \E i \in DOMAIN l : l[i] = b
      BY <3>1, SpanInMember DEF List
    <3>4. (\E i \in DOMAIN g[n] : g[n][i] = b) <=> b = a \/ \E i \in DOMAIN l : l[i] = b
      <4>1. ASSUME NEW i \in DOMAIN l PROVE i + 1 \in DOMAIN g[n] /\ g[n][i + 1] = l[i]
        BY <1>0, <1>5
      <4>2. 1 \in DOMAIN g[n] /\ g[n][1] = a
        BY <1>0, <1>5
      <4>3. ASSUME NEW i \in DOMAIN g[n], g[n][i] = b
            PROVE  b = a \/ \E j \in DOMAIN l : l[j] = b
        <5>1. CASE i = 1
          BY <4>2, <4>3, <5>1
        <5>2. CASE i # 1
          BY <1>6, <4>3, <5>2
        <5> QED
          BY <5>1, <5>2
      <4>4. ASSUME NEW i \in DOMAIN l, l[i] = b PROVE \E j \in DOMAIN g[n] : g[n][j] = b
        BY <4>1, <4>4
      <4> QED
        BY <4>2, <4>3, <4>4
    <3>5. s = Span(a, n) <=> a = b
      BY <3>1 DEF Span
    <3> QED
      BY <3>2, <3>3, <3>4, <3>5
  <2>2. CASE ~ \E b : s = Span(b, n)
    BY <1>3, <1>4, <2>2, SpansInMember
  <2> QED
    BY <2>1, <2>2
<1> QED
  BY <1>8, <1>9 DEF g

\* Removing an element from its list removes its span.
LEMMA RemoveSpans ==
  ASSUME NEW f, Lists(f), NEW k \in DOMAIN f, NEW i \in DOMAIN f[k],
         NEW m \in Seq(Pages),
         DOMAIN m = 1..(Len(f[k]) - 1),
         \A j \in 1..(i - 1) : m[j] = f[k][j],
         \A j \in i..(Len(f[k]) - 1) : m[j] = f[k][j + 1]
  PROVE  /\ Lists(Put(f, k, m))
         /\ SpansIn(Put(f, k, m)) = SpansIn(f) \ {Span(f[k][i], k)}
         /\ m = <<>> => /\ Lists(Drop(f, k))
                        /\ SpansIn(Drop(f, k)) = SpansIn(f) \ {Span(f[k][i], k)}
<1> DEFINE l == f[k]
           g == Put(f, k, m)
           h == Drop(f, k)
<1>1. /\ l \in Seq(Pages) /\ DOMAIN l = 1..Len(l) /\ Len(l) \in Nat
      /\ \A j1, j2 \in DOMAIN l : l[j1] = l[j2] => j1 = j2
  BY LenProperties DEF Lists
<1>2. DOMAIN g = DOMAIN f /\ g[k] = m /\ \A n \in DOMAIN f \ {k} : g[n] = f[n]
  BY DEF Put
<1>3. DOMAIN h = DOMAIN f \ {k} /\ \A n \in DOMAIN f \ {k} : h[n] = f[n]
  BY DEF Drop
<1>10. k \in DOMAIN g /\ g[k] = m
  BY <1>2
<1>11. \A b : Span(b, k) \in SpansIn(g) <=> \E j \in DOMAIN m : m[j] = b
  BY <1>10, SpansOfSize
<1> HIDE DEF g, h
<1>4. \A j \in DOMAIN m : m[j] = l[IF j < i THEN j ELSE j + 1]
  BY <1>1
<1>5. \A j1, j2 \in DOMAIN m : m[j1] = m[j2] => j1 = j2
  <2> SUFFICES ASSUME NEW j1 \in DOMAIN m, NEW j2 \in DOMAIN m, m[j1] = m[j2]
               PROVE  j1 = j2
    OBVIOUS
  <2> DEFINE n1 == IF j1 < i THEN j1 ELSE j1 + 1
             n2 == IF j2 < i THEN j2 ELSE j2 + 1
  <2>1. n1 \in DOMAIN l /\ n2 \in DOMAIN l
    BY <1>1
  <2>2. l[n1] = l[n2]
    BY <1>4
  <2>3. n1 = n2
    BY <1>1, <2>1, <2>2
  <2> QED
    BY <1>1, <2>3
<1>6. Lists(g)
  BY <1>2, <1>5, ZenonT(60) DEF Lists
<1>7. Lists(h)
  BY <1>3 DEF Lists
<1>8. ASSUME NEW b
      PROVE  (\E j \in DOMAIN m : m[j] = b) <=> (\E j \in DOMAIN l : l[j] = b) /\ b # l[i]
  <2>1. ASSUME NEW j \in DOMAIN m, m[j] = b
        PROVE  (\E n \in DOMAIN l : l[n] = b) /\ b # l[i]
    <3> DEFINE n == IF j < i THEN j ELSE j + 1
    <3>1. n \in DOMAIN l /\ n # i
      BY <1>1
    <3>2. l[n] = b
      BY <1>4, <2>1
    <3> QED
      BY <1>1, <3>1, <3>2
  <2>2. ASSUME NEW j \in DOMAIN l, l[j] = b, b # l[i]
        PROVE  \E n \in DOMAIN m : m[n] = b
    <3> DEFINE n == IF j < i THEN j ELSE j - 1
    <3>1. j # i
      BY <2>2
    <3>2. n \in DOMAIN m /\ (IF n < i THEN n ELSE n + 1) = j
      BY <1>1, <3>1
    <3>3. m[n] = b
      BY <1>4, <2>2, <3>2
    <3> QED
      BY <3>2, <3>3
  <2> QED
    BY <2>1, <2>2
<1>9. ASSUME NEW s
      PROVE  /\ s \in SpansIn(g) <=> s \in SpansIn(f) /\ s # Span(l[i], k)
             /\ m = <<>> => (s \in SpansIn(h) <=> s \in SpansIn(f) /\ s # Span(l[i], k))
  <2>1. CASE \E b : s = Span(b, k)
    <3>1. PICK b : s = Span(b, k)
      BY <2>1
    <3>2. s \in SpansIn(g) <=> \E j \in DOMAIN m : m[j] = b
      BY <1>11, <3>1
    <3>3. s \in SpansIn(f) <=> \E j \in DOMAIN l : l[j] = b
      BY <3>1, SpanInMember
    <3>4. s \notin SpansIn(h)
      BY <1>3, <3>1, SpanInMember
    <3>5. s = Span(l[i], k) <=> b = l[i]
      BY <3>1 DEF Span
    <3>6. m = <<>> => ~ \E j \in DOMAIN m : m[j] = b
      OBVIOUS
    <3> QED
      BY <1>8, <3>2, <3>3, <3>4, <3>5, <3>6
  <2>2. CASE ~ \E b : s = Span(b, k)
    BY <1>2, <1>3, <2>2, SpansInMember
  <2> QED
    BY <2>1, <2>2
<1> QED
  BY <1>6, <1>7, <1>9 DEF g, h

-----------------------------------------------------------------------------
(* The invariant is inductive as it stands: typing, the conservation of    *)
(* pages, which keeps spans disjoint, and the currency of spanMap_, which  *)
(* makes deallocateSpan() merge with real neighbours only.                 *)
Inv == TypeOK /\ PagesConserved /\ SpanMapCurrent

Spans == held \cup FreeSpans

LEMMA InvLists == TypeOK /\ PagesConserved => Lists(freeSpans)
BY DEF TypeOK, PagesConserved, Lists

\* Every span lies in the pages of the system and is known by its address and size.
LEMMA SpanTyped ==
  ASSUME TypeOK, NEW s \in Spans
  PROVE  /\ s.addr \in Pages /\ s.pages \in Pages
         /\ s = Span(s.addr, s.pages)
         /\ s.addr \in PagesOf(s)
<1>1. s.addr \in Pages /\ s.pages \in Pages /\ s = Span(s.addr, s.pages)
  <2>1. CASE s \in held
    BY <2>1, PageCacheAssumption DEF TypeOK, Span
  <2>2. CASE s \in FreeSpans
    <3>1. PICK k \in DOMAIN freeSpans : \E i \in DOMAIN freeSpans[k] : s = Span(freeSpans[k][i], k)
      BY <2>2, SpansInMember DEF FreeSpans
    <3>2. PICK i \in DOMAIN freeSpans[k] : s = Span(freeSpans[k][i], k)
      BY <3>1
    <3>3. k \in Pages /\ freeSpans[k][i] \in Pages
      BY <3>1, <3>2 DEF TypeOK
    <3> QED
      BY <3>2, <3>3 DEF Span
  <2> QED
    BY <2>1, <2>2 DEF Spans
<1> QED
  BY <1>1, PageCacheAssumption DEF PagesOf, Pages

\* spanMap_ knows the size of a span that is held.
LEMMA HeldSize ==
  ASSUME Inv, NEW s \in held
  PROVE  s.addr \in DOMAIN spanMap /\ spanMap[s.addr] = s.pages
<1>1. s.addr \in DOMAIN spanMap /\ Span(s.addr, spanMap[s.addr]) \in Spans
  BY DEF Inv, SpanMapCurrent, Spans
<1>2. s \in Spans /\ TypeOK
  BY DEF Spans, Inv
<1>3. s.addr \in PagesOf(s)
  BY <1>2, SpanTyped
<1>4. s.addr \in PagesOf(Span(s.addr, spanMap[s.addr]))
  BY <1>1, <1>2, SpanTyped DEF Span
<1>5. Span(s.addr, spanMap[s.addr]) = s
  BY <1>1, <1>2, <1>3, <1>4 DEF Inv, PagesConserved, Spans
<1> QED
  BY <1>1, <1>5 DEF Span

\* Whatever shares a page with a span is this span.
LEMMA SamePage ==
  ASSUME PagesConserved, NEW s \in Spans, NEW t \in Spans, NEW p \in PagesOf(s), p \in PagesOf(t)
  PROVE  s = t
BY DEF PagesConserved, Spans

\* The pages of a span are pages of the system.
LEMMA SpanInside ==
  ASSUME TypeOK, PagesConserved, NEW s \in Spans
  PROVE  PagesOf(s) \subseteq mapped /\ s.addr + s.pages - 1 \in Pages
<1>1. PagesOf(s) \subseteq mapped
  BY DEF PagesConserved, Spans
<1>2. s.addr + s.pages - 1 \in PagesOf(s)
  BY SpanTyped, PageCacheAssumption DEF PagesOf, Pages
<1> QED
  BY <1>1, <1>2 DEF TypeOK

-----------------------------------------------------------------------------
(* What each operation does to the spans, without the lists.               *)

LEMMA SystemAllocSpans ==
  ASSUME Inv, NEW n \in Sizes, SystemAlloc(n)
  PROVE  \E a \in Pages : /\ PagesOf(Span(a, n)) \subseteq Pages \ mapped
                         /\ mapped' = mapped \cup PagesOf(Span(a, n))
                         /\ spanMap' = Put(spanMap, a, n)
                         /\ held' = held \cup {Span(a, n)}
                         /\ FreeSpans' = FreeSpans /\ Lists(freeSpans')
                         /\ crashed' \in BOOLEAN
BY InvLists, PageCacheAssumption DEF SystemAlloc, FreeSpans, Inv, TypeOK

LEMMA TakeSpanSpans ==
  ASSUME Inv, NEW n \in Sizes, TakeSpan(n)
  PROVE  \E a \in Pages, k \in Pages :
           /\ n <= k
           /\ Span(a, k) \in FreeSpans
           /\ FreeSpans' = (FreeSpans \ {Span(a, k)})
                             \cup IF k > n THEN {Span(a + n, k - n)} ELSE {}
           /\ spanMap' = Put(spanMap, a, n)
           /\ held' = held \cup {Span(a, n)}
           /\ mapped' = mapped
           /\ Lists(freeSpans')
           /\ crashed' \in BOOLEAN
<1>1. Lists(freeSpans) /\ TypeOK
  BY InvLists DEF Inv
<1>2. PICK k \in DOMAIN freeSpans :
        LET l == freeSpans[k]
        IN  /\ n <= k
            /\ l # <<>>
            /\ freeSpans' = Split(IF Tail(l) = <<>> THEN Drop(freeSpans, k)
                                                   ELSE Put(freeSpans, k, Tail(l)),
                                  k, Head(l), n)
            /\ spanMap' = Put(spanMap, Head(l), n)
            /\ held' = held \cup {Span(Head(l), n)}
  BY DEF TakeSpan, LowerBound, Fitting
<1> DEFINE l == freeSpans[k]
           a == Head(l)
           rest == Tail(l)
           taken == IF rest = <<>> THEN Drop(freeSpans, k) ELSE Put(freeSpans, k, rest)
<1>3. l \in Seq(Pages) /\ l # <<>> /\ k \in Pages
  BY <1>1, <1>2 DEF TypeOK
<1>4. /\ a \in Pages /\ a = l[1] /\ 1 \in DOMAIN l
      /\ Tail(l) \in Seq(Pages) /\ DOMAIN Tail(l) = 1..(Len(l) - 1)
      /\ \A j \in 1..(Len(l) - 1) : Tail(l)[j] = l[j + 1]
  BY <1>3
<1>5. /\ Lists(taken)
      /\ SpansIn(taken) = FreeSpans \ {Span(a, k)}
  <2>0. rest \in Seq(Pages) /\ DOMAIN rest = 1..(Len(freeSpans[k]) - 1)
    BY <1>4
  <2>1. /\ \A j \in 1..(1 - 1) : rest[j] = freeSpans[k][j]
        /\ \A j \in 1..(Len(freeSpans[k]) - 1) : rest[j] = freeSpans[k][j + 1]
        /\ 1 \in DOMAIN freeSpans[k]
    BY <1>4
  <2> HIDE DEF rest
  <2>2. /\ Lists(Put(freeSpans, k, rest))
        /\ SpansIn(Put(freeSpans, k, rest)) = SpansIn(freeSpans) \ {Span(freeSpans[k][1], k)}
        /\ rest = <<>> =>
             /\ Lists(Drop(freeSpans, k))
             /\ SpansIn(Drop(freeSpans, k)) = SpansIn(freeSpans) \ {Span(freeSpans[k][1], k)}
    BY <1>1, <2>0, <2>1, RemoveSpans
  <2> QED
    BY <1>4, <2>2 DEF FreeSpans
<1>9. n \in Pages /\ n <= k
  BY <1>2, PageCacheAssumption
<1>10. PagesConserved
  BY DEF Inv
<1>6. Span(a, k) \in FreeSpans
  BY <1>2, <1>4, SpanInMember DEF FreeSpans
<1> HIDE DEF a, l, taken
<1>7. /\ Lists(freeSpans')
      /\ FreeSpans' = (FreeSpans \ {Span(a, k)}) \cup IF k > n THEN {Span(a + n, k - n)} ELSE {}
  <2>1. freeSpans' = IF k > n THEN PushSpan(taken, k - n, a + n) ELSE taken
    BY <1>2 DEF Split, taken, a, l
  <2>2. CASE k > n
    <3>1. k - n \in Pages /\ a + n \in Pages
      <4>1. Span(a, k) \in Spans /\ Span(a, k).addr = a /\ Span(a, k).pages = k
        BY <1>6 DEF Spans, Span
      <4>2. a + k - 1 \in Pages
        BY <1>1, <1>10, <4>1, SpanInside
      <4> QED
        BY <1>3, <1>4, <1>9, <2>2, <4>2, PageCacheAssumption, SMTT(30) DEF Pages
    <3>2. Span(a + n, k - n) \notin FreeSpans
      <4> SUFFICES ASSUME Span(a + n, k - n) \in FreeSpans PROVE FALSE
        OBVIOUS
      <4>1. Span(a + n, k - n) \in Spans /\ Span(a, k) \in Spans
        BY <1>6 DEF Spans
      <4>2. a + n \in PagesOf(Span(a + n, k - n)) /\ a + n \in PagesOf(Span(a, k))
        BY <1>3, <1>4, <1>9, <2>2, <3>1, PageCacheAssumption, SMTT(30) DEF PagesOf, Span, Pages
      <4>3. Span(a + n, k - n) = Span(a, k)
        BY <1>10, <4>1, <4>2, SamePage
      <4> QED
        BY <1>4, <1>9, <4>3, PageCacheAssumption DEF Span, Pages
    <3> QED
      BY <1>5, <2>1, <2>2, <3>1, <3>2, PushSpans DEF FreeSpans
  <2>3. CASE ~(k > n)
    BY <1>5, <2>1, <2>3 DEF FreeSpans
  <2> QED
    BY <2>2, <2>3
<1>8. /\ spanMap' = Put(spanMap, a, n) /\ held' = held \cup {Span(a, n)}
      /\ mapped' = mapped /\ crashed' \in BOOLEAN
  BY <1>1, <1>2 DEF a, l, TakeSpan, TypeOK
<1> QED
  BY <1>3, <1>4, <1>6, <1>7, <1>8, <1>9

\* What follows the last page of a span known to spanMap_ is a page of another span.
LEMMA NextSpan ==
  ASSUME Inv, NEW s \in held, s.addr + s.pages \in DOMAIN spanMap
  PROVE  LET next == s.addr + s.pages
             n == spanMap[next]
         IN  /\ next \in Pages /\ n \in Pages
             /\ Span(next, n) \in Spans
             /\ Span(next, n) # s
             /\ next # s.addr
<1> DEFINE next == s.addr + s.pages
           n == spanMap[next]
<1>1. next \in Pages /\ n \in Pages /\ Span(next, n) \in Spans
  BY DEF Inv, TypeOK, SpanMapCurrent, Spans
<1>2. s.addr \in Pages /\ s.pages \in Pages
  BY SpanTyped DEF Spans, Inv
<1>3. next # s.addr
  BY <1>2, PageCacheAssumption DEF Pages
<1> QED
  BY <1>1, <1>3 DEF Span

\* GiveBack() moves the span from the held to the free ones.
LEMMA GiveBackSpans ==
  ASSUME Inv, NEW s \in held, GiveBack(s, s.pages)
  PROVE  /\ FreeSpans' = FreeSpans \cup {s}
         /\ held' = held \ {s}
         /\ spanMap' = spanMap
         /\ mapped' = mapped
         /\ Lists(freeSpans')
         /\ crashed' \in BOOLEAN
<1> DEFINE next == s.addr + s.pages
           n == spanMap[next]
           looked == IF next \in DOMAIN spanMap THEN Put(freeSpans, n, List(freeSpans, n))
                                                ELSE freeSpans
<1>1. Lists(freeSpans) /\ TypeOK /\ PagesConserved
  BY InvLists DEF Inv
<1>2. s.addr \in Pages /\ s.pages \in Pages /\ s = Span(s.addr, s.pages)
  BY <1>1, SpanTyped DEF Spans
<1>3. Lists(looked) /\ SpansIn(looked) = FreeSpans
  <2>1. next \in DOMAIN spanMap => n \in Pages
    BY <1>1 DEF TypeOK
  <2> QED
    BY <1>1, <2>1, LookSpans DEF FreeSpans
<1>4. s \notin FreeSpans
  BY <1>1 DEF PagesConserved
<1>5. freeSpans' = PushSpan(looked, s.pages, s.addr)
  BY HeldSize DEF GiveBack
<1> HIDE DEF looked
<1>6. Lists(freeSpans') /\ FreeSpans' = FreeSpans \cup {s}
  BY <1>2, <1>3, <1>4, <1>5, PushSpans DEF FreeSpans
<1> QED
  BY <1>1, <1>6 DEF GiveBack, TypeOK

\* GiveBackAndMerge() makes one free span of the span and the free one behind it.
LEMMA MergeSpans ==
  ASSUME Inv, NEW s \in held, GiveBackAndMerge(s, s.pages)
  PROVE  LET next == s.addr + s.pages
             n == spanMap[next]
             merged == s.pages + n
         IN  /\ next \in DOMAIN spanMap
             /\ Span(next, n) \in FreeSpans
             /\ FreeSpans' = (FreeSpans \ {Span(next, n)}) \cup {Span(s.addr, merged)}
             /\ spanMap' = Put(Drop(spanMap, next), s.addr, merged)
             /\ held' = held \ {s}
             /\ mapped' = mapped
             /\ merged \in Pages
             /\ Lists(freeSpans')
             /\ crashed' \in BOOLEAN
<1> DEFINE next == s.addr + s.pages
           n == spanMap[next]
           merged == s.pages + n
           list == freeSpans[n]
           i == CHOOSE i \in DOMAIN list : list[i] = next
           m == SubSeq(list, 1, i - 1) \o SubSeq(list, i + 1, Len(list))
           left == Put(freeSpans, n, m)
<1>1. Lists(freeSpans) /\ TypeOK /\ PagesConserved
  BY InvLists DEF Inv
<1>2. s.addr \in Pages /\ s.pages \in Pages /\ s = Span(s.addr, s.pages)
  BY <1>1, SpanTyped DEF Spans
<1>3. /\ next \in DOMAIN spanMap
      /\ \E j \in DOMAIN List(freeSpans, n) : freeSpans[n][j] = next
      /\ freeSpans' = PushSpan(left, merged, s.addr)
      /\ spanMap' = Put(Drop(spanMap, next), s.addr, merged)
  BY HeldSize DEF GiveBackAndMerge, Unlink, Forget
<1>4. n \in DOMAIN freeSpans /\ \E j \in DOMAIN list : list[j] = next
  BY <1>3 DEF List
<1>5. i \in DOMAIN list /\ list[i] = next
  BY <1>4
<1>6. Span(next, n) \in FreeSpans
  BY <1>4, SpanInMember DEF FreeSpans
<1>7. next \in Pages /\ n \in Pages /\ next # s.addr
  BY <1>3, NextSpan
<1>8. list \in Seq(Pages) /\ DOMAIN list = 1..Len(list)
  BY <1>1, <1>4, LenProperties DEF Lists
<1> HIDE DEF i, list
<1>9. /\ m \in Seq(Pages)
      /\ DOMAIN m = 1..(Len(list) - 1)
      /\ \A j \in 1..(i - 1) : m[j] = list[j]
      /\ \A j \in i..(Len(list) - 1) : m[j] = list[j + 1]
  <2>1. i \in 1..Len(list)
    BY <1>5, <1>8
  <2>2. m = SubSeq(list, 1, i - 1) \o SubSeq(list, i + 1, Len(list))
    OBVIOUS
  <2> HIDE DEF m, next, n
  <2> QED
    BY <1>8, <2>1, <2>2, Without, ZenonT(60)
<1> HIDE DEF m, n, next
<1>10. Lists(left) /\ SpansIn(left) = FreeSpans \ {Span(next, n)}
  <2>1. /\ i \in DOMAIN freeSpans[n] /\ freeSpans[n][i] = next
        /\ DOMAIN m = 1..(Len(freeSpans[n]) - 1)
        /\ \A j \in 1..(i - 1) : m[j] = freeSpans[n][j]
        /\ \A j \in i..(Len(freeSpans[n]) - 1) : m[j] = freeSpans[n][j + 1]
    BY <1>5, <1>9 DEF list
  <2> QED
    BY <1>1, <1>4, <1>9, <2>1, RemoveSpans DEF FreeSpans
<1>11. merged \in Pages
  <2>1. Span(next, n) \in Spans
    BY <1>6 DEF Spans
  <2>2. next + n - 1 \in Pages
    BY <1>1, <2>1, SpanInside DEF Span
  <2> QED
    BY <1>2, <1>7, <2>2, PageCacheAssumption DEF Pages, next
<1>12. Span(s.addr, merged) \notin FreeSpans
  <2> SUFFICES ASSUME Span(s.addr, merged) \in FreeSpans PROVE FALSE
    OBVIOUS
  <2>1. Span(s.addr, merged) \in Spans /\ s \in Spans
    BY DEF Spans
  <2>2. s.addr \in PagesOf(Span(s.addr, merged)) /\ s.addr \in PagesOf(s)
    BY <1>1, <2>1, SpanTyped DEF Span
  <2>3. Span(s.addr, merged) = s
    BY <1>1, <2>1, <2>2, SamePage
  <2> QED
    BY <1>1, <2>3 DEF PagesConserved
<1> HIDE DEF left, merged
<1>13. /\ Lists(freeSpans')
       /\ FreeSpans' = (FreeSpans \ {Span(next, n)}) \cup {Span(s.addr, merged)}
  BY <1>2, <1>3, <1>10, <1>11, <1>12, PushSpans DEF FreeSpans
<1>14. held' = held \ {s} /\ mapped' = mapped /\ crashed' \in BOOLEAN
  BY <1>1 DEF GiveBackAndMerge, TypeOK
<1> QED
  BY <1>3, <1>6, <1>11, <1>13, <1>14 DEF merged, n, next

-----------------------------------------------------------------------------
(* Sets of spans that share out a set of pages.                            *)

Partition(S, M) ==
  /\ UNION {PagesOf(s) : s \in S} = M
  /\ \A s, t \in S : PagesOf(s) \cap PagesOf(t) # {} => s = t

\* A span of new pages.
LEMMA Grow ==
  ASSUME NEW S, NEW M, Partition(S, M), NEW t, PagesOf(t) \cap M = {}
  PROVE  Partition(S \cup {t}, M \cup PagesOf(t))
<1>1. ASSUME NEW s \in S PROVE PagesOf(s) \cap PagesOf(t) = {}
  BY DEF Partition
<1>2. \A s, u \in S \cup {t} : PagesOf(s) \cap PagesOf(u) # {} => s = u
  BY <1>1 DEF Partition
<1>3. UNION {PagesOf(s) : s \in S \cup {t}} = M \cup PagesOf(t)
  BY DEF Partition
<1> QED
  BY <1>2, <1>3 DEF Partition

\* The same pages cut in another way.
LEMMA Recut ==
  ASSUME NEW S, NEW M, Partition(S, M),
         NEW T \in SUBSET S, NEW U,
         UNION {PagesOf(s) : s \in U} = UNION {PagesOf(s) : s \in T},
         \A s, t \in U : PagesOf(s) \cap PagesOf(t) # {} => s = t
  PROVE  Partition((S \ T) \cup U, M)
<1>1. ASSUME NEW s \in S \ T, NEW u \in U PROVE PagesOf(s) \cap PagesOf(u) = {}
  <2> SUFFICES ASSUME NEW p \in PagesOf(s), p \in PagesOf(u) PROVE FALSE
    OBVIOUS
  <2>1. PICK t \in T : p \in PagesOf(t)
    BY <1>1
  <2>2. s = t
    BY <1>1, <2>1 DEF Partition
  <2> QED
    BY <1>1, <2>1, <2>2
<1>2. \A s, t \in (S \ T) \cup U : PagesOf(s) \cap PagesOf(t) # {} => s = t
  BY <1>1 DEF Partition
<1>3. UNION {PagesOf(s) : s \in (S \ T) \cup U} = M
  <2>1. UNION {PagesOf(s) : s \in (S \ T) \cup U} = UNION {PagesOf(s) : s \in S}
    OBVIOUS
  <2> QED
    BY <2>1 DEF Partition
<1> QED
  BY <1>2, <1>3 DEF Partition

\* The pages of a span cut in two.
LEMMA TwoParts ==
  ASSUME NEW a \in Int, NEW n \in Nat \ {0}, NEW k \in Nat \ {0}
  PROVE  /\ PagesOf(Span(a, n + k)) = PagesOf(Span(a, n)) \cup PagesOf(Span(a + n, k))
         /\ PagesOf(Span(a, n)) \cap PagesOf(Span(a + n, k)) = {}
         /\ a \in PagesOf(Span(a, n)) /\ a + n \in PagesOf(Span(a + n, k))
BY DEF PagesOf, Span

\* The invariant in the form the steps preserve it.
Parts ==
  /\ Lists(freeSpans)
  /\ DOMAIN spanMap \subseteq Pages
  /\ \A a \in DOMAIN spanMap : spanMap[a] \in Pages
  /\ mapped \subseteq Pages
  /\ held \subseteq [addr : Pages, pages : Sizes]
  /\ crashed \in BOOLEAN
  /\ Partition(Spans, mapped)
  /\ held \cap FreeSpans = {}
  /\ \A a \in DOMAIN spanMap : Span(a, spanMap[a]) \in Spans
  /\ \A s \in held : s.addr \in DOMAIN spanMap

LEMMA InvParts == (Inv <=> Parts) /\ (Inv' <=> Parts')
BY DEF Inv, TypeOK, PagesConserved, SpanMapCurrent, Partition, Lists, Parts, Spans

LEMMA InitInv == Init => Inv
<1> SUFFICES ASSUME Init PROVE Parts
  BY InvParts
<1>1. FreeSpans = {}
  BY SpansInMember DEF Init, FreeSpans
<1>2. DOMAIN freeSpans = {} /\ DOMAIN spanMap = {}
  <2>1. DOMAIN <<>> = {}
    OBVIOUS
  <2> QED
    BY <2>1 DEF Init
<1>3. held = {} /\ mapped = {} /\ Spans = {} /\ crashed \in BOOLEAN
  BY <1>1 DEF Init, Spans
<1> QED
  BY <1>2, <1>3 DEF Parts, Lists, Partition

LEMMA SystemAllocInv ==
  ASSUME Inv, NEW n \in Sizes, SystemAlloc(n)
  PROVE  Inv'
<1>1. PICK a \in Pages : /\ PagesOf(Span(a, n)) \subseteq Pages \ mapped
                        /\ mapped' = mapped \cup PagesOf(Span(a, n))
                        /\ spanMap' = Put(spanMap, a, n)
                        /\ held' = held \cup {Span(a, n)}
                        /\ FreeSpans' = FreeSpans /\ Lists(freeSpans')
                        /\ crashed' \in BOOLEAN
  BY SystemAllocSpans
<1> DEFINE t == Span(a, n)
<1>2. Parts
  BY InvParts
<1>3. n \in Pages /\ a \in PagesOf(t) /\ t \in [addr : Pages, pages : Sizes] /\ t.addr = a
  BY PageCacheAssumption DEF PagesOf, Span, Pages
<1>4. t \notin Spans
  BY <1>1, <1>2, <1>3 DEF Parts, Partition
<1>5. Partition(Spans', mapped')
  <2>1. Spans' = Spans \cup {t}
    BY <1>1 DEF Spans
  <2>2. PagesOf(t) \cap mapped = {}
    BY <1>1
  <2> QED
    BY <1>1, <1>2, <2>1, <2>2, Grow DEF Parts
<1>6. /\ DOMAIN spanMap' = DOMAIN spanMap \cup {a}
      /\ \A b \in DOMAIN spanMap' : spanMap'[b] = IF b = a THEN n ELSE spanMap[b]
  BY <1>1 DEF Put
<1> HIDE DEF t
<1>7. /\ \A b \in DOMAIN spanMap' : Span(b, spanMap'[b]) \in Spans'
      /\ \A s \in held' : s.addr \in DOMAIN spanMap'
  BY <1>1, <1>2, <1>3, <1>6 DEF Parts, Spans, t
<1> QED
  BY <1>1, <1>2, <1>3, <1>4, <1>5, <1>6, <1>7, InvParts DEF Parts, Spans, t

LEMMA TakeSpanInv ==
  ASSUME Inv, NEW n \in Sizes, TakeSpan(n)
  PROVE  Inv'
<1>1. PICK a \in Pages, k \in Pages :
        /\ n <= k
        /\ Span(a, k) \in FreeSpans
        /\ FreeSpans' = (FreeSpans \ {Span(a, k)})
                          \cup IF k > n THEN {Span(a + n, k - n)} ELSE {}
        /\ spanMap' = Put(spanMap, a, n)
        /\ held' = held \cup {Span(a, n)}
        /\ mapped' = mapped
        /\ Lists(freeSpans')
        /\ crashed' \in BOOLEAN
  BY TakeSpanSpans
<1> DEFINE s == Span(a, k)
           t == Span(a, n)
           u == Span(a + n, k - n)
           U == {t} \cup IF k > n THEN {u} ELSE {}
<1>2. Parts /\ PagesConserved
  BY InvParts DEF Inv
<1>3. n \in Pages /\ t \in [addr : Pages, pages : Sizes] /\ t.addr = a
  BY PageCacheAssumption DEF Span
<1>4. s \in Spans /\ s \notin held /\ a \in PagesOf(s)
  BY <1>1, <1>2, PageCacheAssumption DEF Parts, Spans, PagesOf, Span, Pages
<1>5. /\ k > n => PagesOf(s) = PagesOf(t) \cup PagesOf(u)
      /\ k > n => PagesOf(t) \cap PagesOf(u) = {} /\ a + n \in PagesOf(u)
      /\ a \in PagesOf(t)
      /\ ~(k > n) => t = s
  <2>1. CASE k > n
    <3>1. a \in Int /\ n \in Nat \ {0} /\ k - n \in Nat \ {0} /\ n + (k - n) = k
      BY <1>1, <1>3, <2>1, PageCacheAssumption DEF Pages
    <3> DEFINE rest == k - n
    <3> HIDE DEF rest
    <3>2. /\ PagesOf(Span(a, n + rest)) = PagesOf(Span(a, n)) \cup PagesOf(Span(a + n, rest))
          /\ PagesOf(Span(a, n)) \cap PagesOf(Span(a + n, rest)) = {}
          /\ a \in PagesOf(Span(a, n)) /\ a + n \in PagesOf(Span(a + n, rest))
      BY <3>1, TwoParts DEF rest
    <3> QED
      BY <2>1, <3>1, <3>2 DEF rest
  <2>2. CASE ~(k > n)
    <3>1. k = n
      BY <1>1, <1>3, <2>2, PageCacheAssumption DEF Pages
    <3> QED
      BY <1>4, <2>2, <3>1
  <2> QED
    BY <2>1, <2>2
<1>6. DOMAIN spanMap' = DOMAIN spanMap \cup {a}
  BY <1>1 DEF Put
<1>7. \A b \in DOMAIN spanMap' : spanMap'[b] = IF b = a THEN n ELSE spanMap[b]
  BY <1>1 DEF Put
<1>14. \A b, m : Span(b, m) = s => b = a
  BY DEF Span
<1> HIDE DEF s, t, u
\* The parts lie in s, so no other span meets them.
<1>8. \A r \in Spans, v \in U : PagesOf(r) \cap PagesOf(v) # {} => r = s
  BY <1>2, <1>4, <1>5, SamePage
<1>9. t \notin Spans \ {s} /\ (k > n => u \notin Spans \ {s} /\ u # t)
  BY <1>5, <1>8
<1>10. Spans' = (Spans \ {s}) \cup U
  BY <1>1, <1>4 DEF Spans, s, t, u
<1>11. Partition(Spans', mapped')
  <2>1. UNION {PagesOf(r) : r \in U} = UNION {PagesOf(r) : r \in {s}}
    BY <1>5
  <2>2. \A r, v \in U : PagesOf(r) \cap PagesOf(v) # {} => r = v
    BY <1>5
  <2>3. {s} \in SUBSET Spans
    BY <1>4
  <2> HIDE DEF U
  <2> QED
    BY <1>1, <1>2, <1>10, <2>1, <2>2, <2>3, Recut DEF Parts
<1>12. held' \cap FreeSpans' = {}
  BY <1>1, <1>2, <1>4, <1>9 DEF Parts, Spans, s, t, u
<1>13. /\ \A b \in DOMAIN spanMap' : Span(b, spanMap'[b]) \in Spans'
       /\ \A r \in held' : r.addr \in DOMAIN spanMap'
  <2>1. ASSUME NEW b \in DOMAIN spanMap' PROVE Span(b, spanMap'[b]) \in Spans'
    <3>1. CASE b = a
      BY <1>7, <1>10, <3>1 DEF t
    <3>2. CASE b # a
      BY <1>2, <1>6, <1>7, <1>10, <1>14, <3>2 DEF Parts
    <3> QED
      BY <3>1, <3>2
  <2>2. ASSUME NEW r \in held' PROVE r.addr \in DOMAIN spanMap'
    BY <1>1, <1>2, <1>3, <1>6 DEF Parts, t
  <2> QED
    BY <2>1, <2>2
<1> QED
  BY <1>1, <1>2, <1>3, <1>6, <1>7, <1>11, <1>12, <1>13, InvParts DEF Parts, t

LEMMA GiveBackInv ==
  ASSUME Inv, NEW s \in held, GiveBack(s, s.pages)
  PROVE  Inv'
<1>1. /\ FreeSpans' = FreeSpans \cup {s}
      /\ held' = held \ {s}
      /\ spanMap' = spanMap
      /\ mapped' = mapped
      /\ Lists(freeSpans')
      /\ crashed' \in BOOLEAN
  BY GiveBackSpans
<1>2. Spans' = Spans
  BY <1>1 DEF Spans
<1> QED
  BY <1>1, <1>2, InvParts DEF Parts

LEMMA GiveBackAndMergeInv ==
  ASSUME Inv, NEW s \in held, GiveBackAndMerge(s, s.pages)
  PROVE  Inv'
<1> DEFINE next == s.addr + s.pages
           n == spanMap[next]
           merged == s.pages + n
           u == Span(next, n)
           v == Span(s.addr, merged)
<1>1. /\ next \in DOMAIN spanMap
      /\ u \in FreeSpans
      /\ FreeSpans' = (FreeSpans \ {u}) \cup {v}
      /\ spanMap' = Put(Drop(spanMap, next), s.addr, merged)
      /\ held' = held \ {s}
      /\ mapped' = mapped
      /\ merged \in Pages
      /\ Lists(freeSpans')
      /\ crashed' \in BOOLEAN
  BY MergeSpans
<1>2. Parts /\ TypeOK /\ PagesConserved
  BY InvParts DEF Inv
<1>3. s \in Spans /\ u \in Spans /\ u \notin held
  BY <1>1, <1>2 DEF Parts, Spans
<1>4. s.addr \in Pages /\ s.pages \in Pages /\ s = Span(s.addr, s.pages)
  BY <1>2, <1>3, SpanTyped
<1>5. next \in Pages /\ n \in Pages /\ next # s.addr
  BY <1>1, NextSpan
<1>6. /\ PagesOf(v) = PagesOf(s) \cup PagesOf(u)
      /\ s.addr \in PagesOf(s) /\ next \in PagesOf(u)
  <2>1. s.addr \in Int /\ s.pages \in Nat \ {0} /\ n \in Nat \ {0}
    BY <1>4, <1>5, PageCacheAssumption DEF Pages
  <2> HIDE DEF n
  <2> QED
    BY <1>4, <2>1, TwoParts, SMTT(60)
<1>7. /\ DOMAIN spanMap' = (DOMAIN spanMap \ {next}) \cup {s.addr}
      /\ \A b \in DOMAIN spanMap' : spanMap'[b] = IF b = s.addr THEN merged ELSE spanMap[b]
  BY <1>1 DEF Put, Drop
<1>8. /\ \A b, m : Span(b, m) = u => b = next
      /\ \A b, m : Span(b, m) = s => b = s.addr
  BY <1>4 DEF Span
<1> HIDE DEF next, n, merged, u, v
<1>9. \A r \in Spans : PagesOf(r) \cap PagesOf(v) # {} => r = s \/ r = u
  BY <1>2, <1>3, <1>6, SamePage
<1>10. Spans' = (Spans \ {s, u}) \cup {v}
  <2>1. s \notin FreeSpans /\ s \in held
    BY <1>2 DEF Parts
  <2> QED
    BY <1>1, <1>3, <2>1 DEF Spans
<1>11. Partition(Spans', mapped')
  <2>1. UNION {PagesOf(r) : r \in {v}} = UNION {PagesOf(r) : r \in {s, u}}
    BY <1>6
  <2>2. \A r, w \in {v} : PagesOf(r) \cap PagesOf(w) # {} => r = w
    OBVIOUS
  <2>3. {s, u} \in SUBSET Spans
    BY <1>3
  <2> QED
    BY <1>1, <1>2, <1>10, <2>1, <2>2, <2>3, Recut DEF Parts
<1>12. held' \cap FreeSpans' = {}
  <2>1. v \in held => v = s
    BY <1>3, <1>6, <1>9 DEF Spans
  <2> QED
    BY <1>1, <1>2, <2>1 DEF Parts
<1>13. \A b \in DOMAIN spanMap' : Span(b, spanMap'[b]) \in Spans'
  <2> SUFFICES ASSUME NEW b \in DOMAIN spanMap' PROVE Span(b, spanMap'[b]) \in Spans'
    OBVIOUS
  <2>1. CASE b = s.addr
    BY <1>7, <1>10, <2>1 DEF v
  <2>2. CASE b # s.addr
    BY <1>2, <1>7, <1>8, <1>10, <2>2 DEF Parts
  <2> QED
    BY <2>1, <2>2
<1>14. \A r \in held' : r.addr \in DOMAIN spanMap'
  <2> SUFFICES ASSUME NEW r \in held' PROVE r.addr \in DOMAIN spanMap'
    OBVIOUS
  <2>1. r \in held /\ r \in Spans
    BY <1>1 DEF Spans
  <2>2. r.addr # next
    <3> SUFFICES ASSUME r.addr = next PROVE FALSE
      OBVIOUS
    <3>1. next \in PagesOf(r)
      BY <1>2, <2>1, SpanTyped
    <3>2. r = u
      BY <1>2, <1>3, <1>6, <2>1, <3>1, SamePage
    <3> QED
      BY <1>3, <2>1, <3>2
  <2> QED
    BY <1>2, <1>7, <2>1, <2>2 DEF Parts
<1>15. DOMAIN spanMap' \subseteq Pages /\ \A b \in DOMAIN spanMap' : spanMap'[b] \in Pages
  BY <1>1, <1>2, <1>4, <1>7 DEF Parts
<1> QED
  BY <1>1, <1>2, <1>11, <1>12, <1>13, <1>14, <1>15, InvParts DEF Parts

LEMMA NextInv == Inv /\ [Next]_vars => Inv'
<1> SUFFICES ASSUME Inv, [Next]_vars PROVE Inv'
  OBVIOUS
<1>1. ASSUME NEW n \in Sizes, SystemAlloc(n) PROVE Inv'
  BY <1>1, SystemAllocInv
<1>2. ASSUME NEW n \in Sizes, TakeSpan(n) PROVE Inv'
  BY <1>2, TakeSpanInv
<1>3. ASSUME NEW n \in Sizes, NullSpan(n) PROVE Inv'
  <2>1. /\ FreeSpans' = FreeSpans /\ Spans' = Spans
        /\ crashed' \in BOOLEAN
        /\ UNCHANGED <<freeSpans, spanMap, mapped, held>>
    BY <1>3 DEF NullSpan, FreeSpans, Spans
  <2> QED
    BY <2>1, InvParts DEF Parts
<1>4. ASSUME NEW s \in held, GiveBack(s, s.pages) PROVE Inv'
  BY <1>4, GiveBackInv
<1>5. ASSUME NEW s \in held, GiveBackAndMerge(s, s.pages) PROVE Inv'
  BY <1>5, GiveBackAndMergeInv
<1>6. CASE UNCHANGED vars
  <2>1. FreeSpans' = FreeSpans /\ Spans' = Spans
    BY <1>6 DEF vars, FreeSpans, Spans
  <2> QED
    BY <1>6, <2>1, InvParts DEF Parts, vars
<1> QED
  BY <1>1, <1>2, <1>3, <1>4, <1>5, <1>6 DEF Next

LEMMA SpecInv == Spec => []Inv
BY InitInv, NextInv, PTL DEF Spec

\* freeSpans_ and spanMap_ hold addresses and sizes of pages the system has, whatever
\* sequence of allocateSpan() and deallocateSpan() led to them.
THEOREM TypeCorrect == Spec => []TypeOK
<1>1. Inv => TypeOK
  BY DEF Inv
<1> QED
  BY <1>1, SpecInv, PTL

\* No sequence of splits and merges loses a page, or has a page in two spans or a span
\* twice in the lists (PageCache.cpp:13-72, 92-140).
THEOREM PagesStayConserved == Spec => []PagesConserved
<1>1. Inv => PagesConserved
  BY DEF Inv
<1> QED
  BY <1>1, SpecInv, PTL

\* What deallocateSpan() finds in spanMap_ behind a span, and reads the size and the
\* list from, is a span that exists (PageCache.cpp:103-133).
THEOREM SpanMapStaysCurrent == Spec => []SpanMapCurrent
<1>1. Inv => SpanMapCurrent
  BY DEF Inv
<1> QED
  BY <1>1, SpecInv, PTL

-----------------------------------------------------------------------------
(* PageCache implements PageAllocator.                                     *)

LEMMA AllocateStep ==
  ASSUME Inv, NEW n \in Sizes, NEW a \in Pages,
         PagesOf(Span(a, n)) \subseteq Pages,
         \A r \in held : PagesOf(r) \cap PagesOf(Span(a, n)) = {},
         held' = held \cup {Span(a, n)}
  PROVE  Allocator!Allocate(n)
BY DEF Allocator!Allocate, Allocator!PagesOf, PagesOf, Span

LEMMA StepRefines == Inv /\ [Next]_vars => [Allocator!AllocatorNext]_held
<1> SUFFICES ASSUME Inv, [Next]_vars PROVE [Allocator!AllocatorNext]_held
  OBVIOUS
<1>0. Parts /\ TypeOK /\ PagesConserved
  BY InvParts DEF Inv
<1>1. ASSUME NEW n \in Sizes, SystemAlloc(n) PROVE Allocator!Allocate(n)
  <2>1. PICK a \in Pages : /\ PagesOf(Span(a, n)) \subseteq Pages \ mapped
                          /\ held' = held \cup {Span(a, n)}
    BY <1>1, SystemAllocSpans
  <2>2. \A r \in held : PagesOf(r) \subseteq mapped
    BY <1>0, SpanInside DEF Spans
  <2> QED
    BY <2>1, <2>2, AllocateStep
<1>2. ASSUME NEW n \in Sizes, TakeSpan(n) PROVE Allocator!Allocate(n)
  <2>1. PICK a \in Pages, k \in Pages : /\ n <= k
                                       /\ Span(a, k) \in FreeSpans
                                       /\ held' = held \cup {Span(a, n)}
    BY <1>2, TakeSpanSpans
  <2>2. PagesOf(Span(a, n)) \subseteq PagesOf(Span(a, k))
    BY <2>1, PageCacheAssumption DEF PagesOf, Span, Pages
  <2>3. PagesOf(Span(a, k)) \subseteq mapped /\ Span(a, k) \in Spans
    BY <1>0, <2>1, SpanInside DEF Spans
  <2>4. \A r \in held : PagesOf(r) \cap PagesOf(Span(a, k)) = {}
    BY <1>0, <2>1, <2>3, SamePage DEF Spans, PagesConserved
  <2> QED
    BY <1>0, <2>1, <2>2, <2>3, <2>4, AllocateStep DEF TypeOK
<1>3. ASSUME NEW n \in Sizes, NullSpan(n) PROVE UNCHANGED held
  BY <1>3 DEF NullSpan
<1>4. ASSUME NEW s \in held, GiveBack(s, s.pages) \/ GiveBackAndMerge(s, s.pages)
      PROVE  Allocator!Free(s)
  BY <1>4 DEF GiveBack, GiveBackAndMerge, Allocator!Free
<1>5. CASE UNCHANGED vars
  BY <1>5 DEF vars
<1> QED
  BY <1>1, <1>2, <1>3, <1>4, <1>5 DEF Next, Allocator!AllocatorNext

\* allocateSpan() and deallocateSpan() hand out runs of pages and take them back: a run
\* never meets one that is still out, although runs are split and merged in between.
THEOREM ImplementsAllocator == Spec => ImplementsPageAllocator
<1>1. Init => Allocator!AllocatorInit
  BY DEF Init, Allocator!AllocatorInit
<1> QED
  BY <1>1, SpecInv, StepRefines, PTL DEF Spec, ImplementsPageAllocator, Allocator!AllocatorSpec

-----------------------------------------------------------------------------
(* What CentralCache needs to know of the two operations.                  *)

\* The span that is handed out starts where no span that is out does.
LEMMA FreshSpan ==
  ASSUME Inv, NEW n \in Sizes, SystemAlloc(n) \/ TakeSpan(n)
  PROVE  /\ Inv'
         /\ \E a \in Pages : /\ held' = held \cup {Span(a, n)}
                             /\ \A r \in held : r.addr # a
<1>0. Parts /\ TypeOK /\ PagesConserved
  BY InvParts DEF Inv
<1>1. ASSUME NEW a \in Pages, NEW r \in held, PagesOf(r) \cap PagesOf(Span(a, n)) = {}
      PROVE  r.addr # a
  <2>1. a \in PagesOf(Span(a, n))
    BY PageCacheAssumption DEF PagesOf, Span, Pages
  <2>2. r.addr \in PagesOf(r)
    BY <1>0, SpanTyped DEF Spans
  <2> QED
    BY <1>1, <2>1, <2>2
<1>2. CASE SystemAlloc(n)
  <2>1. PICK a \in Pages : /\ PagesOf(Span(a, n)) \subseteq Pages \ mapped
                          /\ held' = held \cup {Span(a, n)}
    BY <1>2, SystemAllocSpans
  <2>2. \A r \in held : PagesOf(r) \subseteq mapped
    BY <1>0, SpanInside DEF Spans
  <2> QED
    BY <1>1, <1>2, <2>1, <2>2, SystemAllocInv
<1>3. CASE TakeSpan(n)
  <2>1. PICK a \in Pages, k \in Pages : /\ n <= k
                                       /\ Span(a, k) \in FreeSpans
                                       /\ held' = held \cup {Span(a, n)}
    BY <1>3, TakeSpanSpans
  <2>2. PagesOf(Span(a, n)) \subseteq PagesOf(Span(a, k))
    BY <2>1, PageCacheAssumption DEF PagesOf, Span, Pages
  <2>3. \A r \in held : PagesOf(r) \cap PagesOf(Span(a, k)) = {}
    <3>1. Span(a, k) \in Spans /\ Span(a, k) \notin held
      BY <1>0, <2>1 DEF Spans, PagesConserved
    <3> QED
      BY <1>0, <3>1, SamePage DEF Spans
  <2> QED
    BY <1>1, <1>3, <2>1, <2>2, <2>3, TakeSpanInv
<1> QED
  BY <1>2, <1>3

\* A caller that names fewer pages than the span has: there is no span behind these, so
\* deallocateSpan() merges nothing, and takes the size from spanMap_.
LEMMA GiveBackPart ==
  ASSUME Inv, NEW s \in held, NEW n \in 1..s.pages,
         GiveBack(s, n) \/ GiveBackAndMerge(s, n)
  PROVE  Inv' /\ held' = held \ {s}
<1>0. Parts /\ TypeOK /\ PagesConserved /\ Lists(freeSpans)
  BY InvParts, InvLists DEF Inv
<1>1. s \in Spans /\ s.addr \in Pages /\ s.pages \in Pages /\ s = Span(s.addr, s.pages)
  BY <1>0, SpanTyped DEF Spans
<1>2. held' = held \ {s}
  BY DEF GiveBack, GiveBackAndMerge
<1>3. CASE n = s.pages
  BY <1>2, <1>3, GiveBackInv, GiveBackAndMergeInv
<1>4. CASE n # s.pages
  <2> DEFINE next == s.addr + n
  <2>1. next \in PagesOf(s) /\ next # s.addr
    BY <1>1, <1>4, PageCacheAssumption DEF PagesOf, Pages
  <2>2. next \notin DOMAIN spanMap
    <3> SUFFICES ASSUME next \in DOMAIN spanMap PROVE FALSE
      OBVIOUS
    <3> DEFINE u == Span(next, spanMap[next])
    <3>1. u \in Spans /\ u.addr = next
      BY <1>0 DEF Parts, Span
    <3>2. next \in PagesOf(u)
      BY <1>0, <3>1, SpanTyped
    <3>3. u = s
      BY <1>0, <1>1, <2>1, <3>1, <3>2, SamePage
    <3> QED
      BY <2>1, <3>1, <3>3
  <2>3. freeSpans' = PushSpan(freeSpans, s.pages, s.addr) /\ UNCHANGED <<spanMap, mapped, crashed>>
    BY <2>2, HeldSize DEF GiveBack, GiveBackAndMerge
  <2>4. s \notin FreeSpans
    BY <1>0 DEF Parts
  <2>5. Lists(freeSpans') /\ FreeSpans' = FreeSpans \cup {s}
    BY <1>0, <1>1, <2>3, <2>4, PushSpans DEF FreeSpans
  <2>6. Spans' = Spans
    BY <1>2, <2>5 DEF Spans
  <2> QED
    BY <1>0, <1>2, <2>3, <2>5, <2>6, InvParts DEF Parts
<1> QED
  BY <1>3, <1>4
=============================================================================
