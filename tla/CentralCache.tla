---------------------------- MODULE CentralCache ----------------------------
(***************************************************************************)
(* CentralCache on top of PageCache: free lists of blocks by size class,   *)
(* each under a spin lock; spans from PageCache cut into blocks; a tracker *)
(* for each span that decides when all its blocks are free; and the        *)
(* delayed return of such spans, after 48 calls of returnRange() or one    *)
(* second.                                                                 *)
(*                                                                         *)
(* The callers are the threads' caches (MemoryPool.tla), which fetch one   *)
(* block at a time and return chains.  A section under the spin lock is    *)
(* one step, unless it calls PageCache or works on the trackers of several *)
(* spans, where other size classes come between.                           *)
(***************************************************************************)
EXTENDS Integers, Sequences, FiniteSets

CONSTANTS Classes,       \* size classes
          BlockNum,      \* class -> blocks in a span; 1 for sizes above 32KB
          SpanPages,     \* class -> pages in a span
          LastPage,      \* bounds the pages the system has
          Bases,         \* where mmap() may place a span
          MaxDelayCount, \* MAX_DELAY_COUNT
          MaxSpans,      \* bounds the spans fetched, at most spanTrackers_.size()
          MaxFreeCount   \* bounds the trackers' counters, which have 64 bits

VARIABLES
  freeSpans, spanMap, mapped, held, crashed, \* of PageCache
  list,       \* centralFreeList_ of each class
  trackers,   \* spanTrackers_, the first spanCount_ of them
  delayCount, \* delayCounts_ of each class
  lock,       \* what the thread that holds locks_ of each class has to do yet
  users,      \* the blocks the threads have
  corrupted   \* "freed": memory in use went back to PageCache; "link": a stale word
              \* was taken for the link of a block; or "no"

pages == <<freeSpans, spanMap, mapped, held, crashed>>
vars == <<pages, list, trackers, delayCount, lock, users, corrupted>>

Page == INSTANCE PageCache WITH Sizes <- {SpanPages[c] : c \in Classes}

\* A block is named by its span, its class and its number in the span.
Block(page, c, no) == [span |-> page, class |-> c, no |-> no]
Addr(b) == b.span + ((b.no - 1) * SpanPages[b.class]) \div BlockNum[b.class]
SpanOf(b) == Page!Span(b.span, SpanPages[b.class])
Elements(s) == {s[i] : i \in DOMAIN s}
AtLeast(a, b) == IF a >= b THEN a ELSE b
AtMost(a, b) == IF a <= b THEN a ELSE b

Unlocked == [step |-> "unlocked"]

\* The model stops where the program's behaviour is undefined.
Sound == ~crashed /\ corrupted = "no"

Init == /\ Page!Init
        /\ list = [c \in Classes |-> <<>>]
        /\ trackers = <<>>
        /\ delayCount = [c \in Classes |-> 0]
        /\ lock = [c \in Classes |-> Unlocked]
        /\ users = {}
        /\ corrupted = "no"

\* getSpanTracker(): the first tracker whose pages have the block.  Trackers are never
\* cleared, so it may be that of a span that was at this address before.
PagesOf(tracker) == tracker.page..(tracker.page + tracker.pages - 1)
Tracking(b) == {i \in DOMAIN trackers : Addr(b) \in PagesOf(trackers[i])}
Tracker(b) == CHOOSE i \in Tracking(b) : \A j \in Tracking(b) : i <= j

-----------------------------------------------------------------------------
(* fetchRange()                                                            *)

FetchFromList(c) ==
  /\ Sound /\ lock[c] = Unlocked
  /\ list[c] # <<>>
  /\ LET b == Head(list[c])
     IN  IF Tracking(b) = {}
           THEN users' = users \cup {b} /\ UNCHANGED trackers
           ELSE /\ trackers[Tracker(b)].freeCount > -MaxFreeCount
                /\ users' = users \cup {b}
                /\ trackers' = [trackers EXCEPT ![Tracker(b)].freeCount = @ - 1]
  /\ list' = [list EXCEPT ![c] = Tail(@)]
  /\ UNCHANGED <<pages, delayCount, lock, corrupted>>

\* fetchFromPageCache(), with the class locked.  If the system has no memory, nothing
\* changes.
FetchSpan(c) ==
  /\ Sound /\ lock[c] = Unlocked
  /\ list[c] = <<>>
  /\ BlockNum[c] = 1 \/ Len(trackers) < MaxSpans
  /\ Page!SystemAlloc(SpanPages[c]) \/ Page!TakeSpan(SpanPages[c])
  /\ \E s \in held' \ held : lock' = [lock EXCEPT ![c] =
                                 [step |-> "cut", page |-> s.addr, used |-> s.addr \in mapped]]
  /\ UNCHANGED <<list, trackers, delayCount, users, corrupted>>

FetchNullSpan(c) ==
  /\ Sound /\ lock[c] = Unlocked
  /\ list[c] = <<>>
  /\ Page!NullSpan(SpanPages[c])
  /\ UNCHANGED <<list, trackers, delayCount, lock, users, corrupted>>

\* Slip: the chain runs one block past the span.
RestPastEnd(page, c) == [i \in 1..BlockNum[c] |-> Block(page, c, i + 1)]
RestOfSpan(page, c) == [i \in 1..(BlockNum[c] - 1) |-> Block(page, c, i + 1)]

\* The first block goes to the caller.  A span of one block is not tracked, and the link
\* in its first word, which the caller follows, is what was there before: zero in pages
\* fresh from the system, anything in pages used before.
CutSpan(c) ==
  /\ Sound /\ lock[c].step = "cut"
  /\ LET page == lock[c].page
         n == BlockNum[c]
     IN  /\ users' = users \cup {Block(page, c, 1)}
         /\ list' = [list EXCEPT ![c] = RestOfSpan(page, c)]
         /\ trackers' = IF n = 1 THEN trackers
                        ELSE Append(trackers, [page |-> page, pages |-> SpanPages[c],
                                               blockCount |-> n, freeCount |-> n - 1])
  /\ corrupted' \in IF BlockNum[c] = 1 /\ lock[c].used THEN {"no", "link"} ELSE {"no"}
  /\ lock' = [lock EXCEPT ![c] = Unlocked]
  /\ UNCHANGED <<pages, delayCount>>

-----------------------------------------------------------------------------
(* returnRange()                                                           *)

\* Of the chain at most count blocks, and at least one, join the list; the link behind
\* them is overwritten.
Accepted(chain, count) == SubSeq(chain, 1, AtMost(Len(chain), AtLeast(count, 1)))

\* performDelayedReturn(): how many blocks of the list each tracker has.
Tracked(l) == {i \in DOMAIN l : Tracking(l[i]) # {}}
TrackedBy(k, l) == {i \in Tracked(l) : Tracker(l[i]) = k}
FreeBlocks(l) == {[tracker |-> k, free |-> Cardinality(TrackedBy(k, l))] :
                    k \in {Tracker(l[i]) : i \in Tracked(l)}}

Settle(todo) == IF todo = {} THEN Unlocked ELSE [step |-> "settle", todo |-> todo]

\* elapsed: a second has passed since the last delayed return of this class.
ReturnRange(c, chain, count, elapsed) ==
  /\ Sound /\ lock[c] = Unlocked
  /\ users' = users \ Elements(chain)
  /\ LET l == Accepted(chain, count) \o list[c]
         due == elapsed \/ delayCount[c] + 1 >= MaxDelayCount
     IN  /\ list' = [list EXCEPT ![c] = l]
         /\ delayCount' = [delayCount EXCEPT ![c] = IF due THEN 0 ELSE @ + 1]
         /\ lock' = [lock EXCEPT ![c] = IF due THEN Settle(FreeBlocks(l)) ELSE Unlocked]
  /\ UNCHANGED <<pages, trackers, corrupted>>

\* updateSpanFreeCount() adds the blocks in the list, those it already counts included.
\* The map of counts is unordered.
NewFreeCount(t) == trackers[t.tracker].freeCount + t.free

Settling(c, t) == /\ Sound
                  /\ lock[c].step = "settle"
                  /\ t \in lock[c].todo
                  /\ NewFreeCount(t) <= MaxFreeCount
                  /\ trackers' = [trackers EXCEPT ![t.tracker].freeCount = NewFreeCount(t)]
                  /\ lock' = [lock EXCEPT ![c] = Settle(lock[c].todo \ {t})]
                  /\ UNCHANGED <<delayCount, users>>

UpdateFreeCount(c, t) == /\ Settling(c, t)
                         /\ NewFreeCount(t) # trackers[t.tracker].blockCount
                         /\ UNCHANGED <<pages, list, corrupted>>

\* Slip: the blocks stay in the list.
UnlinkNothing(l, tracker) == l

Without(l, ps) == LET rest[i \in 0..Len(l)] == IF i = 0 THEN <<>>
                                               ELSE IF Addr(l[i]) \in ps THEN rest[i - 1]
                                               ELSE Append(rest[i - 1], l[i])
                  IN  rest[Len(l)]

\* newHead is set only when the list starts with blocks of the span; otherwise it stays
\* nullptr and the whole list is dropped.
Unlink(l, tracker) == IF l # <<>> /\ Addr(Head(l)) \in PagesOf(tracker)
                        THEN Without(l, PagesOf(tracker))
                        ELSE <<>>

\* Some block of the pages is with a thread, or belongs to another class.
InUse(c, ps) == \/ \E b \in users : Page!PagesOf(SpanOf(b)) \cap ps # {}
                \/ \E d \in Classes \ {c} :
                     \/ \E b \in Elements(list[d]) : Page!PagesOf(SpanOf(b)) \cap ps # {}
                     \/ lock[d].step = "cut" /\ lock[d].page \in ps

Freed(early) == IF early THEN "freed" ELSE "no"

\* Slip: the pages of a span are taken for those of a block.
ReturnedPagesPerBlock(tracker) == tracker.pages * tracker.blockCount
ReturnedPages(tracker) == tracker.pages

ReturnSpan(c, t) ==
  /\ Settling(c, t)
  /\ LET tracker == trackers[t.tracker]
     IN  /\ NewFreeCount(t) = tracker.blockCount
         /\ list' = [list EXCEPT ![c] = Unlink(@, tracker)]
         /\ IF \E s \in held : s.addr = tracker.page
              THEN \E s \in held :
                     /\ s.addr = tracker.page
                     /\ \/ Page!GiveBack(s, ReturnedPages(tracker))
                        \/ Page!GiveBackAndMerge(s, ReturnedPages(tracker))
                     /\ corrupted' = Freed(InUse(c, PagesOf(tracker) \cup Page!PagesOf(s)))
              ELSE /\ corrupted' = Freed(InUse(c, PagesOf(tracker)) \/ tracker.page \in DOMAIN spanMap)
                   /\ UNCHANGED pages

-----------------------------------------------------------------------------
TypeOK ==
  /\ Page!TypeOK
  /\ \A c \in Classes : \A b \in Elements(list[c]) : b.class = c /\ b.no \in 1..BlockNum[c]
  /\ \A b \in users : b.no \in 1..BlockNum[b.class]
  /\ \A i \in DOMAIN trackers : trackers[i].freeCount \in -MaxFreeCount..MaxFreeCount
  /\ \A c \in Classes : delayCount[c] \in 0..(MaxDelayCount - 1)
  /\ \A c \in Classes : lock[c].step \in {"unlocked", "cut", "settle"}
  /\ corrupted \in {"no", "freed", "link"}

InLists == UNION {Elements(list[c]) : c \in Classes}

\* Until memory is corrupted (see SpansReturnedOnlyFree) every block, with a thread
\* or in a list, is in one place and lies in a span that CentralCache still holds: what
\* fetchRange() hands out next overlaps nothing in use, whatever stale trackers say.
BlocksBacked == corrupted = "no" =>
  /\ \A b \in users \cup InLists : SpanOf(b) \in held
  /\ users \cap InLists = {}
  /\ \A c \in Classes : Cardinality(Elements(list[c])) = Len(list[c])
  /\ \A b, d \in users \cup InLists : b.span = d.span => b.class = d.class

\* Until then CentralCache, with trackers that are never cleared, respects what PageCache
\* relies on: every page is in one span, free or held, and spanMap_ is current.
PageCacheUnharmed == corrupted = "no" => Page!PagesConserved /\ Page!SpanMapCurrent

\* CentralCache.cpp:240: a span goes back when all its blocks are free.
SpansReturnedOnlyFree == corrupted # "freed"
=============================================================================
