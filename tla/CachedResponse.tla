--------------------------- MODULE CachedResponse ---------------------------
(***************************************************************************)
(* The bodies of CachedResponse objects: who owns which buffer, and where  *)
(* it came from.  A state of the bodies is a record                        *)
(*   own      of each object: its buffer (bodyBuffer_) or NoBuffer,        *)
(*            its size (bodySize_) and fromPool (bodyFromPool_),           *)
(*   heap     of each buffer that is allocated: its size and origin,       *)
(*   faults   what went wrong: a buffer freed twice, or not as allocated.  *)
(* The constructors, assignments and the destructor map one such state to  *)
(* the next.  Allocation succeeds; buffers are named.                      *)
(***************************************************************************)
EXTENDS Naturals, FiniteSets, Functions

CONSTANTS Objects, NoBuffer,
          Buffers, \* their names: those of the objects they are allocated for, and more
          PoolLimit \* the largest body that is taken from the memory pool

ASSUME BodyAssumption == Objects \subseteq Buffers /\ NoBuffer \notin Buffers /\ PoolLimit \in Nat

Empty == [buffer |-> NoBuffer, size |-> 0, fromPool |-> FALSE]
NoBodies == [own |-> [o \in Objects |-> Empty], heap |-> [b \in {} |-> Empty], faults |-> {}]

\* MemoryPool::allocate or malloc, by the size of the body.
Allocate(s, o, size) ==
  LET b == IF o \notin DOMAIN s.heap THEN o ELSE CHOOSE x \in Buffers : x \notin DOMAIN s.heap
      fromPool == size <= PoolLimit
  IN  [own |-> [s.own EXCEPT ![o] = [buffer |-> b, size |-> size, fromPool |-> fromPool]],
       heap |-> [x \in DOMAIN s.heap \union {b} |->
                   IF x = b THEN [size |-> size, fromPool |-> fromPool] ELSE s.heap[x]],
       faults |-> s.faults]

Release(s, o) ==
  LET own == s.own[o]
  IN  IF own.buffer = NoBuffer THEN s
      ELSE [own |-> [s.own EXCEPT ![o].buffer = NoBuffer],
            heap |-> Restrict(s.heap, DOMAIN s.heap \ {own.buffer}),
            faults |-> IF own.buffer \notin DOMAIN s.heap THEN s.faults \union {"freed twice"}
                       ELSE IF s.heap[own.buffer] # [size |-> own.size, fromPool |-> own.fromPool]
                       THEN s.faults \union {"not freed as allocated"} ELSE s.faults]

\* CachedResponse(resp, ttl): an empty body has a buffer too.
Construct(s, o, size) == Allocate(s, o, size)

Destroy(s, o) == [Release(s, o) EXCEPT !.own[o] = Empty]

\* The copy of an empty body has no buffer.
Copied(s, o, from) ==
  LET size == s.own[from].size
  IN  IF s.own[from].buffer # NoBuffer /\ size > 0 THEN Allocate(s, o, size)
      ELSE [s EXCEPT !.own[o] = [buffer |-> NoBuffer, size |-> size, fromPool |-> FALSE]]

CopyConstruct(s, o, from) == Copied(s, o, from)

\* Mutant: what the object had is not given back.
CopyOver(s, o, from) == Copied(s, o, from)

CopyAssign(s, o, from) == IF o = from THEN s ELSE Copied(Release(s, o), o, from)

MoveAssign(s, o, from) ==
  IF o = from THEN s
  ELSE LET freed == Release(s, o)
       IN  [freed EXCEPT !.own = [@ EXCEPT ![o] = freed.own[from], ![from] = Empty]]
=============================================================================
