---------------------------- MODULE ResourcePool ----------------------------
(***************************************************************************)
(* What a connection pool promises its callers, with no queue, lock or     *)
(* thread in sight: every resource in stock is either free or owned by     *)
(* exactly one client, a client owns at most one, and an owned resource    *)
(* comes back.  DbConnectionPool implements this.                          *)
(***************************************************************************)
CONSTANTS Clients,    \* who may own a resource
          Resources,  \* every resource that can ever be put in stock
          Nobody      \* the owner of a free resource, not a client

VARIABLES stock,  \* the resources put in the pool so far
          owner   \* owner[r]: the client that has r, or Nobody

vars == <<stock, owner>>

Free == {r \in stock : owner[r] = Nobody}

Init == /\ stock = {}
        /\ owner = [r \in Resources |-> Nobody]

Add(r) == /\ r \notin stock
          /\ stock' = stock \union {r}
          /\ UNCHANGED owner

Acquire(c, r) == /\ r \in Free
                 /\ \A other \in Resources : owner[other] # c
                 /\ owner' = [owner EXCEPT ![r] = c]
                 /\ UNCHANGED stock

GiveBack(c, r) == /\ owner[r] = c
                  /\ owner' = [owner EXCEPT ![r] = Nobody]
                  /\ UNCHANGED stock

Next == \E r \in Resources : \/ Add(r)
                             \/ \E c \in Clients : Acquire(c, r) \/ GiveBack(c, r)

SafeSpec == Init /\ [][Next]_vars

\* Clients are obliged to return what they own, not to ask for anything.
Spec == SafeSpec /\ \A r \in Resources : WF_vars(\E c \in Clients : GiveBack(c, r))
=============================================================================
