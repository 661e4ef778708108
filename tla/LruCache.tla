------------------------------ MODULE LruCache ------------------------------
(***************************************************************************)
(* KLruCache: a map from keys to nodes, and a list of those nodes between  *)
(* two dummies, linked in both directions, the least recently used first.  *)
(* Each operation holds mutex_ and is one step.  The nodes are named; a    *)
(* node that is neither in the map nor a dummy is free.                    *)
(***************************************************************************)
EXTENDS Naturals, Sequences, FiniteSets, Functions

CONSTANTS Keys, Values, NoValue,
          Nodes, DummyHead, DummyTail, Null,
          Capacity \* capacity_

ASSUME LruAssumption == /\ Capacity \in Nat
                        /\ IsFiniteSet(Nodes) /\ Cardinality(Nodes) >= Capacity
                        /\ {DummyHead, DummyTail, Null} \intersect Nodes = {}
                        /\ DummyHead # DummyTail /\ Null \notin {DummyHead, DummyTail}

VARIABLES next, prev,      \* of each node and dummy: next_ and prev_
          keyOf, valueOf,  \* of each node: key_ and value_
          nodeMap          \* nodeMap_: of each key, its node or Null

lruVars == <<next, prev, keyOf, valueOf, nodeMap>>

Linked == Nodes \union {DummyHead, DummyTail}
Mapped == {nodeMap[k] : k \in Keys} \ {Null}

LruInit == /\ next = [n \in Linked |-> IF n = DummyHead THEN DummyTail ELSE Null]
           /\ prev = [n \in Linked |-> IF n = DummyTail THEN DummyHead ELSE Null]
           /\ keyOf = [n \in Nodes |-> Null]
           /\ valueOf = [n \in Nodes |-> NoValue]
           /\ nodeMap = [k \in Keys |-> Null]

-----------------------------------------------------------------------------
\* The list as one value, which the steps of an operation change in turn.
list == [next |-> next, prev |-> prev]

(* prev_ is weak: it is lost once its node is free.  Unlinking leaves it.  *)
\* Mutant: the node after it is not told.
RemovedOneWay(l, n) ==
  IF l.prev[n] \in Mapped \union {DummyHead} /\ l.next[n] # Null
  THEN [l EXCEPT !.next = [@ EXCEPT ![l.prev[n]] = l.next[n], ![n] = Null]]
  ELSE l

removeNode(l, n) ==
  IF l.prev[n] \in Mapped \union {DummyHead} /\ l.next[n] # Null
  THEN [next |-> [l.next EXCEPT ![l.prev[n]] = l.next[n], ![n] = Null],
        prev |-> [l.prev EXCEPT ![l.next[n]] = l.prev[n]]]
  ELSE l

insertNode(l, n) ==
  [next |-> [l.next EXCEPT ![n] = DummyTail, ![l.prev[DummyTail]] = n],
   prev |-> [l.prev EXCEPT ![n] = l.prev[DummyTail], ![DummyTail] = n]]

\* Mutant: a node that is used stays where it is.
NotMoved(l, n) == l

moveToMostRecent(l, n) == insertNode(removeNode(l, n), n)

SetList(l) == next' = l.next /\ prev' = l.prev

-----------------------------------------------------------------------------
get(k) == /\ nodeMap[k] # Null
          /\ SetList(moveToMostRecent(list, nodeMap[k]))
          /\ UNCHANGED <<keyOf, valueOf, nodeMap>>

updateExistingNode(k, v) ==
  /\ nodeMap[k] # Null
  /\ valueOf' = [valueOf EXCEPT ![nodeMap[k]] = v]
  /\ SetList(moveToMostRecent(list, nodeMap[k]))
  /\ UNCHANGED <<keyOf, nodeMap>>

Full == Cardinality(Mapped) >= Capacity
leastRecent == next[DummyHead]

\* The node of a new entry: one that is free once the least recent has gone.
NewNode == LET evicted == IF Full THEN {leastRecent} ELSE {}
           IN  CHOOSE n \in Nodes : n \notin Mapped \ evicted

\* A node that is freed keeps nothing.
Freed(f, empty) == IF Full THEN [f EXCEPT ![leastRecent] = empty] ELSE f

\* Mutant: the key of the evicted node stays in the map.
AddNewKeepingKey(k, v) ==
  LET n == NewNode
  IN  /\ nodeMap[k] = Null
      /\ SetList(insertNode(IF Full THEN removeNode(list, leastRecent) ELSE list, n))
      /\ keyOf' = [Freed(keyOf, Null) EXCEPT ![n] = k]
      /\ valueOf' = [Freed(valueOf, NoValue) EXCEPT ![n] = v]
      /\ nodeMap' = [nodeMap EXCEPT ![k] = n]

\* addNewNode and, when the cache is full, evictLeastRecent.
addNewNode(k, v) ==
  LET n == NewNode
  IN  /\ nodeMap[k] = Null
      /\ SetList(insertNode(IF Full THEN removeNode(list, leastRecent) ELSE list, n))
      /\ keyOf' = [Freed(keyOf, Null) EXCEPT ![n] = k]
      /\ valueOf' = [Freed(valueOf, NoValue) EXCEPT ![n] = v]
      /\ nodeMap' = [j \in Keys |-> CASE j = k -> n
                                      [] Full /\ j = keyOf[leastRecent] -> Null
                                      [] OTHER -> nodeMap[j]]

put(k, v) == \/ Capacity > 0 /\ (updateExistingNode(k, v) \/ addNewNode(k, v))
             \/ Capacity = 0 /\ UNCHANGED lruVars

-----------------------------------------------------------------------------
\* The nodes from the head on, as far as next_ leads.
Walk == LET last == Cardinality(Nodes) + 1
            at[i \in 0..last] ==
              IF i = 0 THEN DummyHead
              ELSE IF at[i - 1] \in {DummyTail, Null} THEN at[i - 1] ELSE next[at[i - 1]]
            inner == {i \in 1..last : at[i] \in Nodes}
        IN  [i \in 1..Cardinality(inner) |-> at[i]]

(* The list holds the nodes of the map, each once and under its own key,   *)
(* next_ and prev_ are each other's inverse from dummy to dummy, and there *)
(* are at most Capacity of them: whatever was unlinked, evicted or moved,  *)
(* no entry is lost between map and list.                                  *)
ListMatchesMap ==
  /\ Len(Walk) = Cardinality(Mapped) /\ Range(Walk) = Mapped
  /\ Cardinality(Mapped) <= Capacity
  /\ \A k \in Keys : nodeMap[k] # Null => keyOf[nodeMap[k]] = k
  /\ \A n \in Mapped \union {DummyHead} : next[n] \in Linked /\ prev[next[n]] = n

(* The cache is the bounded sequence in order of use.                      *)
Lru == INSTANCE LruSequence
         WITH order <- [i \in DOMAIN Walk |-> keyOf[Walk[i]]],
              value <- [k \in Keys |-> IF nodeMap[k] = Null THEN NoValue ELSE valueOf[nodeMap[k]]]
ImplementsLru == Lru!Spec
=============================================================================
