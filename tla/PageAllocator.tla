---------------------------- MODULE PageAllocator ----------------------------
(***************************************************************************)
(* What a page allocator promises its clients: a run of pages it hands out *)
(* shares no page with a run that is still out, until it is given back.    *)
(***************************************************************************)
EXTENDS Integers

CONSTANTS Pages, \* the addresses, in pages
          Sizes  \* the sizes, in pages, clients ask for

VARIABLE out     \* the runs of pages handed out and not given back

PagesOf(s) == s.addr..(s.addr + s.pages - 1)

AllocatorInit == out = {}

Allocate(n) == \E a \in Pages :
  LET s == [addr |-> a, pages |-> n]
  IN  /\ PagesOf(s) \subseteq Pages
      /\ \A r \in out : PagesOf(r) \cap PagesOf(s) = {}
      /\ out' = out \cup {s}

Free(s) == s \in out /\ out' = out \ {s}

AllocatorNext == \/ \E n \in Sizes : Allocate(n)
                 \/ \E s \in out : Free(s)

AllocatorSpec == AllocatorInit /\ [][AllocatorNext]_out
=============================================================================
