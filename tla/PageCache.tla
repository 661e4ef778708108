------------------------------ MODULE PageCache ------------------------------
(***************************************************************************)
(* PageCache: free runs of pages ("spans") kept in lists by size, taken by *)
(* first fit, split when too large and merged with the span behind them    *)
(* when given back.  Both operations run under mutex_, so each is a step.  *)
(*                                                                         *)
(* A Span object is named by its address.  freeSpans_ maps a size to the   *)
(* head of a list; a key whose head is nullptr is a key with the empty     *)
(* sequence, which is not the same as no key.                              *)
(***************************************************************************)
EXTENDS Integers, Sequences, FiniteSets

CONSTANTS LastPage, \* pages 1..LastPage are what the system has
          Bases,    \* where mmap() may place what it returns
          Sizes     \* the numbers of pages callers ask for

Pages == 1..LastPage

ASSUME PageCacheAssumption == /\ LastPage \in Nat \ {0}
                              /\ Bases \subseteq Pages
                              /\ Sizes \subseteq Pages

VARIABLES
  freeSpans, \* freeSpans_: size -> list of addresses of free spans
  spanMap,   \* spanMap_: address -> numPages of the Span object there
  mapped,    \* the pages obtained from the system
  held,      \* the spans callers have and have not given back
  crashed    \* a null Span was dereferenced

vars == <<freeSpans, spanMap, mapped, held, crashed>>

Put(f, k, v) == [x \in DOMAIN f \cup {k} |-> IF x = k THEN v ELSE f[x]]
Drop(f, k) == [x \in DOMAIN f \ {k} |-> f[x]]

\* freeSpans_[n]: std::map makes the key, with a null head, when it is absent.
List(f, n) == IF n \in DOMAIN f THEN f[n] ELSE <<>>
PushSpan(f, n, a) == Put(f, n, <<a>> \o List(f, n))

Span(a, n) == [addr |-> a, pages |-> n]
PagesOf(s) == s.addr..(s.addr + s.pages - 1)

Init == /\ freeSpans = <<>>
        /\ spanMap = <<>>
        /\ mapped = {}
        /\ held = {}
        /\ crashed = FALSE

-----------------------------------------------------------------------------
(* allocateSpan()                                                          *)

Fitting(n) == {k \in DOMAIN freeSpans : k >= n}
LowerBound(k, n) == k \in Fitting(n) /\ \A l \in Fitting(n) : k <= l

\* mmap() returns pages not mapped yet; when it fails allocateSpan() changes nothing.
SystemAlloc(n) ==
  /\ ~crashed
  /\ Fitting(n) = {}
  /\ \E a \in Bases : LET s == Span(a, n)
                      IN  /\ PagesOf(s) \subseteq Pages \ mapped
                          /\ mapped' = mapped \cup PagesOf(s)
                          /\ spanMap' = Put(spanMap, a, n)
                          /\ held' = held \cup {s}
  /\ UNCHANGED <<freeSpans, crashed>>

\* Slips: a span of exactly the right size is split too; the rest keeps the address of
\* the whole.
SplitAlways(lists, k, a, n) == PushSpan(lists, k - n, a + n)
SplitMisplaced(lists, k, a, n) == IF k > n THEN PushSpan(lists, k - n, a) ELSE lists

\* The rest of a larger span goes to the front of its list, but not into spanMap_.
Split(lists, k, a, n) == IF k > n THEN PushSpan(lists, k - n, a + n) ELSE lists

TakeSpan(n) ==
  /\ ~crashed
  /\ \E k \in DOMAIN freeSpans :
       LET list == freeSpans[k]
           rest == Tail(list)
           taken == IF rest = <<>> THEN Drop(freeSpans, k) ELSE Put(freeSpans, k, rest)
       IN  /\ LowerBound(k, n)
           /\ list # <<>>
           /\ freeSpans' = Split(taken, k, Head(list), n)
           /\ spanMap' = Put(spanMap, Head(list), n)
           /\ held' = held \cup {Span(Head(list), n)}
  /\ UNCHANGED <<mapped, crashed>>

\* The first fitting key has a null head, and span->next is read.
NullSpan(n) == /\ ~crashed
               /\ \E k \in DOMAIN freeSpans : LowerBound(k, n) /\ freeSpans[k] = <<>>
               /\ crashed' = TRUE
               /\ UNCHANGED <<freeSpans, spanMap, mapped, held>>

-----------------------------------------------------------------------------
(* deallocateSpan()                                                        *)

(* The caller names a span it holds and says how many pages that was.      *)

\* Nothing known behind the span, or the span there is in use: looking for it in its
\* list makes the list.
GiveBack(s, numPages) ==
  /\ ~crashed
  /\ s \in held
  /\ s.addr \in DOMAIN spanMap
  /\ LET next == s.addr + numPages
         n == spanMap[next]
         looked == IF next \in DOMAIN spanMap THEN Put(freeSpans, n, List(freeSpans, n))
                                              ELSE freeSpans
     IN  /\ next \in DOMAIN spanMap => \A i \in DOMAIN List(freeSpans, n) : freeSpans[n][i] # next
         /\ freeSpans' = PushSpan(looked, spanMap[s.addr], s.addr)
  /\ held' = held \ {s}
  /\ UNCHANGED <<spanMap, mapped, crashed>>

\* Slips: the span behind stays in its list; spanMap_.erase() is forgotten.
UnlinkNothing(n, a) == freeSpans
ForgetNothing(a) == spanMap

Unlink(n, a) ==
  LET list == freeSpans[n]
      i == CHOOSE i \in DOMAIN list : list[i] = a
  IN  Put(freeSpans, n, SubSeq(list, 1, i - 1) \o SubSeq(list, i + 1, Len(list)))
Forget(a) == Drop(spanMap, a)

\* The span behind is free: it leaves its list, whose head may become null, and its
\* object is deleted.
GiveBackAndMerge(s, numPages) ==
  /\ ~crashed
  /\ s \in held
  /\ s.addr \in DOMAIN spanMap
  /\ LET next == s.addr + numPages
         n == spanMap[next]
         merged == spanMap[s.addr] + n
     IN  /\ next \in DOMAIN spanMap
         /\ \E i \in DOMAIN List(freeSpans, n) : freeSpans[n][i] = next
         /\ freeSpans' = PushSpan(Unlink(n, next), merged, s.addr)
         /\ spanMap' = Put(Forget(next), s.addr, merged)
  /\ held' = held \ {s}
  /\ UNCHANGED <<mapped, crashed>>

Next == \/ \E n \in Sizes : SystemAlloc(n) \/ TakeSpan(n) \/ NullSpan(n)
        \/ \E s \in held : GiveBack(s, s.pages) \/ GiveBackAndMerge(s, s.pages)

Spec == Init /\ [][Next]_vars

-----------------------------------------------------------------------------
SpansIn(lists) == UNION {{Span(lists[k][i], k) : i \in DOMAIN lists[k]} : k \in DOMAIN lists}
FreeSpans == SpansIn(freeSpans)

TypeOK == /\ DOMAIN freeSpans \subseteq Pages
          /\ \A k \in DOMAIN freeSpans : freeSpans[k] \in Seq(Pages)
          /\ DOMAIN spanMap \subseteq Pages
          /\ \A a \in DOMAIN spanMap : spanMap[a] \in Pages
          /\ mapped \subseteq Pages
          /\ held \subseteq [addr : Pages, pages : Sizes]
          /\ crashed \in BOOLEAN

\* Splitting and merging neither lose pages nor hand them out twice: every page obtained
\* from the system is in exactly one span, free or held, and in one list once.
PagesConserved ==
  /\ UNION {PagesOf(s) : s \in held \cup FreeSpans} = mapped
  /\ \A s, t \in held \cup FreeSpans : PagesOf(s) \cap PagesOf(t) # {} => s = t
  /\ held \cap FreeSpans = {}
  /\ \A k \in DOMAIN freeSpans : \A i, j \in DOMAIN freeSpans[k] :
       freeSpans[k][i] = freeSpans[k][j] => i = j

\* spanMap_ never refers to a Span that was deleted or has another extent: what
\* deallocateSpan() finds there is a span held with this size, or a free one in the list
\* of this size.
SpanMapCurrent == /\ \A a \in DOMAIN spanMap : Span(a, spanMap[a]) \in held \cup FreeSpans
                  /\ \A s \in held : s.addr \in DOMAIN spanMap

\* PageCache is a page allocator.
Allocator == INSTANCE PageAllocator WITH out <- held
ImplementsPageAllocator == Allocator!AllocatorSpec

\* PageCache.cpp:12: allocateSpan() finds a suitable free span.  It never takes a null one.
NoNullSpan == ~crashed
=============================================================================
