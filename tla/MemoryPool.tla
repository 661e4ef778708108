----------------------------- MODULE MemoryPool -----------------------------
(***************************************************************************)
(* MemoryPool::allocate() and deallocate(): a ThreadCache for each thread, *)
(* with a free list of blocks and its length for each size class, on top   *)
(* of CentralCache and PageCache.                                          *)
(*                                                                         *)
(* What a thread does with its own cache is part of the step in which it   *)
(* works on CentralCache, or a step of its own if it does not.             *)
(***************************************************************************)
EXTENDS Integers, Sequences, FiniteSets

CONSTANTS Threads,
          Classes, BlockNum, SpanPages, LastPage, Bases, \* see CentralCache
          MaxDelayCount, MaxSpans, MaxFreeCount,
          Smallest,    \* the class of size 8, which size 0 belongs to
          Threshold,   \* when a list is longer, part of it goes back: 256
          SizeMod,     \* 2^64: freeListSize_ is a size_t
          MaxFailures  \* bounds how often a thread finds no memory

NoClass == "none"

\* A class with several blocks in a span is one of sizes up to 32KB, whose spans all have
\* SPAN_PAGES pages; spans for larger sizes have more.
ASSUME MemoryPoolAssumption ==
  /\ LastPage \in Nat \ {0} /\ Bases \subseteq 1..LastPage
  /\ BlockNum \in [Classes -> Nat \ {0}]
  /\ SpanPages \in [Classes -> 1..LastPage]
  /\ \A c, d \in Classes : BlockNum[c] > 1 => SpanPages[c] <= SpanPages[d]
  /\ MaxDelayCount \in Nat \ {0}
  /\ MaxSpans \in Nat
  /\ MaxFreeCount \in Nat /\ \A c \in Classes : BlockNum[c] <= MaxFreeCount + 1
  /\ Smallest \in Classes /\ NoClass \notin Classes
  /\ Threshold \in Nat \ {0} /\ MaxFailures \in Nat
  /\ SizeMod \in Nat /\ SizeMod > Threshold + MaxFailures + 1

VARIABLES
  freeSpans, spanMap, mapped, held, crashed,               \* PageCache
  list, trackers, delayCount, lock, users, corrupted,      \* CentralCache
  freeList,     \* freeList_ of each thread and class
  freeListSize, \* freeListSize_ of each thread and class
  inside,       \* the class each thread is in CentralCache for
  failures      \* how often each thread was out of memory

centralVars == <<freeSpans, spanMap, mapped, held, crashed,
                 list, trackers, delayCount, lock, users, corrupted>>
cache == <<freeList, freeListSize>>
vars == <<centralVars, cache, inside, failures>>

Central == INSTANCE CentralCache

Idle(t) == inside[t] = NoClass /\ Central!Sound
Minus(a, b) == (a - b + SizeMod) % SizeMod
Plus(a, b) == (a + b) % SizeMod

Cached(t) == UNION {Central!Elements(freeList[t][c]) : c \in Classes}
InUse == users \ UNION {Cached(t) : t \in Threads}

Init == /\ Central!Init
        /\ freeList = [t \in Threads |-> [c \in Classes |-> <<>>]]
        /\ freeListSize = [t \in Threads |-> [c \in Classes |-> 0]]
        /\ inside = [t \in Threads |-> NoClass]
        /\ failures = [t \in Threads |-> 0]

\* Thread t is in CentralCache as long as it holds the lock of class c.
EnterFor(t, c) == inside' = [inside EXCEPT ![t] = IF lock'[c] = Central!Unlocked THEN NoClass ELSE c]

-----------------------------------------------------------------------------
(* allocate()                                                              *)

PopBlock(t, c) == /\ Idle(t)
                  /\ freeList[t][c] # <<>>
                  /\ freeList' = [freeList EXCEPT ![t][c] = Tail(@)]
                  /\ freeListSize' = [freeListSize EXCEPT ![t][c] = Minus(@, 1)]
                  /\ UNCHANGED <<centralVars, inside, failures>>

\* fetchFromCentralCache(): the chain it gets has one block, which is the result.  The
\* counter was decremented before and is incremented for this block.
FetchBlock(t, c) == /\ Idle(t)
                    /\ freeList[t][c] = <<>>
                    /\ \/ Central!FetchFromList(c)
                       \/ Central!FetchSpan(c)
                       \/ Central!FetchNullSpan(c)
                    /\ EnterFor(t, c)
                    /\ UNCHANGED <<cache, failures>>

\* The system has no memory: nullptr, with the counter decremented.
FetchFails(t, c) == /\ Idle(t)
                    /\ freeList[t][c] = <<>>
                    /\ lock[c] = Central!Unlocked
                    /\ list[c] = <<>>
                    /\ Central!Page!Fitting(SpanPages[c]) = {}
                    /\ failures[t] < MaxFailures
                    /\ failures' = [failures EXCEPT ![t] = @ + 1]
                    /\ freeListSize' = [freeListSize EXCEPT ![t][c] = Minus(@, 1)]
                    /\ UNCHANGED <<centralVars, freeList, inside>>

-----------------------------------------------------------------------------
(* deallocate()                                                            *)

ShouldReturn(n) == n > Threshold
KeepNum(batchNum) == Central!AtLeast(batchNum \div 4, 1)

\* Slip: the split node goes along with the chain behind it.
ChainWithSplitNode(l, keepNum) == SubSeq(l, keepNum, Len(l))
Chain(l, keepNum) == SubSeq(l, keepNum + 1, Len(l))

\* Slip: the counter is cleared.
CountCleared(batchNum) == 0
CountAfterReturn(batchNum) == KeepNum(batchNum)

KeepAll(t, c, l, n) == /\ freeList' = [freeList EXCEPT ![t][c] = l]
                       /\ freeListSize' = [freeListSize EXCEPT ![t][c] = n]
                       /\ UNCHANGED <<centralVars, inside>>

\* returnToCentralCache() splits the list behind its first keepNum blocks; a list shorter
\* than that (the counter is wrong) stays.
ReturnToCentral(t, c, l, batchNum, size) ==
  LET keepNum == KeepNum(batchNum)
      chain == Chain(l, keepNum)
  IN  /\ freeList' = [freeList EXCEPT ![t][c] = SubSeq(l, 1, keepNum)]
      /\ freeListSize' = [freeListSize EXCEPT ![t][c] = CountAfterReturn(batchNum)]
      /\ IF chain = <<>>
           THEN UNCHANGED <<centralVars, inside>>
           ELSE /\ \E elapsed \in BOOLEAN :
                     Central!ReturnRange(c, chain, (batchNum - keepNum) * size, elapsed)
                /\ EnterFor(t, c)

\* size: of a block, in blocks; 0 for deallocate(ptr, 0), whose rounded size is 0.
Deallocate(t, b, size) ==
  /\ Idle(t)
  /\ b \in InUse
  /\ LET c == b.class
         l == <<b>> \o freeList[t][c]
         batchNum == Plus(freeListSize[t][c], 1)
     IN  IF ShouldReturn(batchNum) /\ batchNum > 1 /\ KeepNum(batchNum) <= Len(l)
           THEN ReturnToCentral(t, c, l, batchNum, size)
           ELSE KeepAll(t, c, l, batchNum)
  /\ UNCHANGED failures

\* The thread goes on in CentralCache.
Continue(t) == /\ inside[t] \in Classes
               /\ LET c == inside[t]
                  IN  /\ \/ Central!CutSpan(c)
                         \/ /\ lock[c].step = "settle"
                            /\ \E d \in lock[c].todo : Central!UpdateFreeCount(c, d)
                                                       \/ Central!ReturnSpan(c, d)
                      /\ EnterFor(t, c)
               /\ UNCHANGED <<cache, failures>>

Next == \E t \in Threads :
          \/ \E c \in Classes : PopBlock(t, c) \/ FetchBlock(t, c) \/ FetchFails(t, c)
          \/ \E b \in InUse : \/ Deallocate(t, b, 1)
                              \/ b.class = Smallest /\ Deallocate(t, b, 0)
          \/ Continue(t)

Spec == Init /\ [][Next]_vars

-----------------------------------------------------------------------------
TypeOK == /\ Central!TypeOK
          /\ \A t \in Threads, c \in Classes :
               /\ \A b \in Central!Elements(freeList[t][c]) : b.class = c
               /\ freeListSize[t][c] \in 0..(SizeMod - 1)
               /\ (lock[c] # Central!Unlocked) = (\E u \in Threads : inside[u] = c)

\* Whichever thread frees what another allocated, after failed fetches and calls with
\* size 0: a block is with the program, in one thread's list once, or in CentralCache.
NothingTwice ==
  \A t \in Threads : /\ corrupted = "no" => Cached(t) \subseteq users
                     /\ \A c \in Classes : Cardinality(Central!Elements(freeList[t][c])) = Len(freeList[t][c])
                     /\ \A u \in Threads \ {t} : Cached(t) \cap Cached(u) = {}

\* A thread never hoards more blocks than the threshold, and one for each failed fetch.
CacheBounded == \A t \in Threads, c \in Classes : Len(freeList[t][c]) <= Threshold + failures[t]

\* Until memory is corrupted, every block lies in a span CentralCache holds.
BlocksBacked == Central!BlocksBacked

\* Until then PageCache stays consistent.
PageCacheUnharmed == Central!PageCacheUnharmed

\* CentralCache.cpp:240: a span goes back when all its blocks are free.
SpansReturnedOnlyFree == Central!SpansReturnedOnlyFree
=============================================================================
