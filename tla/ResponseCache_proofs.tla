------------------------ MODULE ResponseCache_proofs ------------------------
(***************************************************************************)
(* What the response cache keeps, for any number of threads, targets and   *)
(* nodes.                                                                  *)
(*                                                                         *)
(* The argument: there is a path f of n nodes from dummy to dummy which    *)
(* next_ follows and prev_ follows back, and its nodes are those of the    *)
(* map.  Removing a node and inserting it before the tail are steps from   *)
(* path to path, and they move its key in the sequence of keys in the same *)
(* way.  What lies under a key was made for it, no later than now.  And    *)
(* every buffer has one owner, a node of the map or a request that stores. *)
(***************************************************************************)
EXTENDS ResponseCache, FiniteSetTheorems, SequenceTheorems, WellFoundedInduction, TLAPS

\* f is the way from dummy to dummy along the n nodes between them.
IsList(l, f, n) ==
  /\ n \in Nat
  /\ l = [next |-> l.next, prev |-> l.prev]
  /\ l.next \in [Linked -> Linked \union {Null}] /\ l.prev \in [Linked -> Linked \union {Null}]
  /\ f \in [0..n + 1 -> Linked] /\ f[0] = DummyHead /\ f[n + 1] = DummyTail
  /\ \A i \in 1..n : f[i] \in Nodes
  /\ \A i, j \in 0..n + 1 : f[i] = f[j] => i = j
  /\ \A i \in 0..n : l.next[f[i]] = f[i + 1] /\ l.prev[f[i + 1]] = f[i]

Between(f, n) == {f[i] : i \in 1..n}

\* The way without its i-th node, and the way with one more node.
Dropped(f, n, i) == [j \in 0..n |-> IF j < i THEN f[j] ELSE f[j + 1]]
Extended(f, n, x) == [j \in 0..n + 2 |-> IF j <= n THEN f[j] ELSE IF j = n + 1 THEN x ELSE DummyTail]

Unlinked(l, x) == [next |-> [l.next EXCEPT ![l.prev[x]] = l.next[x], ![x] = Null],
                   prev |-> [l.prev EXCEPT ![l.next[x]] = l.prev[x]]]

-----------------------------------------------------------------------------
(* Paths: removing a node, inserting one.                                  *)
LEMMA DummiesApart ==
  /\ DummyHead \notin Nodes /\ DummyTail \notin Nodes /\ Null \notin Nodes /\ Null \notin Linked
  /\ DummyHead # DummyTail /\ DummyHead \in Linked /\ DummyTail \in Linked
  /\ \A x \in Nodes : x \in Linked
BY LruAssumption DEF Linked

LEMMA NodesBetween ==
  ASSUME NEW l, NEW f, NEW n, IsList(l, f, n), NEW i \in 0..n + 1
  PROVE  /\ f[i] \in Linked
         /\ f[i] \in Nodes <=> i \in 1..n
<1>1. n \in Nat /\ f[i] \in Linked
  BY DEF IsList
<1>2. i = 0 \/ i = n + 1 \/ i \in 1..n
  BY <1>1
<1>3. i \in 1..n => i # 0 /\ i # n + 1
  BY <1>1
<1>4. f[0] \notin Nodes /\ f[n + 1] \notin Nodes /\ (i \in 1..n => f[i] \in Nodes)
  BY DummiesApart DEF IsList
<1> QED BY <1>1, <1>2, <1>3, <1>4

LEMMA ListRemoved ==
  ASSUME NEW l, NEW f, NEW n, IsList(l, f, n), NEW i \in 1..n
  PROVE  IsList(Unlinked(l, f[i]), Dropped(f, n, i), n - 1)
<1> DEFINE m == Unlinked(l, f[i])
           g == Dropped(f, n, i)
<1>1. /\ n \in Nat /\ i \in Nat /\ 1 <= i /\ i <= n /\ n - 1 \in Nat /\ n - 1 + 1 = n
      /\ i \in 0..n /\ i - 1 \in 0..n /\ i - 1 + 1 = i /\ i # i - 1 /\ i - 1 # i + 1 /\ i + 1 \in 0..n + 1
      /\ i \in 0..n + 1 /\ i - 1 \in 0..n + 1
  BY DEF IsList
<1>2. l.prev[f[i]] = f[i - 1] /\ l.next[f[i]] = f[i + 1]
  <2>1. l.prev[f[i - 1 + 1]] = f[i - 1]
    BY <1>1 DEF IsList
  <2> QED BY <1>1, <2>1 DEF IsList
<1>3. /\ f[i] \in Linked /\ f[i - 1] \in Linked /\ f[i + 1] \in Linked
      /\ f[i] # f[i - 1]
      /\ \A j \in 0..n + 1 : (f[j] = f[i] => j = i) /\ (f[j] = f[i - 1] => j = i - 1)
                             /\ (f[j] = f[i + 1] => j = i + 1)
  BY <1>1 DEF IsList
<1>4. /\ m = [next |-> m.next, prev |-> m.prev]
      /\ m.next \in [Linked -> Linked \union {Null}] /\ m.prev \in [Linked -> Linked \union {Null}]
      /\ \A y \in Linked : m.next[y] = IF y = f[i] THEN Null
                                       ELSE IF y = f[i - 1] THEN f[i + 1] ELSE l.next[y]
      /\ \A y \in Linked : m.prev[y] = IF y = f[i + 1] THEN f[i - 1] ELSE l.prev[y]
  <2>1. /\ m.next = [l.next EXCEPT ![f[i - 1]] = f[i + 1], ![f[i]] = Null]
        /\ m.prev = [l.prev EXCEPT ![f[i + 1]] = f[i - 1]]
        /\ m = [next |-> m.next, prev |-> m.prev]
    BY <1>2 DEF Unlinked
  <2>2. l.next \in [Linked -> Linked \union {Null}] /\ l.prev \in [Linked -> Linked \union {Null}]
    BY DEF IsList
  <2> HIDE DEF m
  <2>3. m.next \in [Linked -> Linked \union {Null}]
    BY <1>3, <2>1, <2>2
  <2>4. m.prev \in [Linked -> Linked \union {Null}]
    BY <1>3, <2>1, <2>2
  <2>5. \A y \in Linked : m.next[y] = IF y = f[i] THEN Null
                                      ELSE IF y = f[i - 1] THEN f[i + 1] ELSE l.next[y]
    BY <1>3, <2>1, <2>2
  <2>6. \A y \in Linked : m.prev[y] = IF y = f[i + 1] THEN f[i - 1] ELSE l.prev[y]
    BY <1>3, <2>1, <2>2
  <2> QED BY <2>1, <2>3, <2>4, <2>5, <2>6
<1>5. /\ g \in [0..n -> Linked]
      /\ \A j \in 0..n : g[j] = IF j < i THEN f[j] ELSE f[j + 1]
  <2>1. \A j \in 0..n : j \in 0..n + 1 /\ j + 1 \in 0..n + 1
    BY <1>1
  <2> QED BY <2>1 DEF Dropped, IsList
<1> HIDE DEF m, g
<1>6. g[0] = DummyHead /\ g[n] = DummyTail
  <2>1. 0 \in 0..n /\ n \in 0..n /\ 0 < i /\ ~(n < i)
    BY <1>1
  <2> QED BY <1>5, <2>1 DEF IsList
<1>7. \A j \in 1..n - 1 : g[j] \in Nodes
  <2> TAKE j \in 1..n - 1
  <2>1. j \in 0..n /\ j \in 1..n /\ j + 1 \in 1..n
    BY <1>1
  <2> QED BY <1>5, <2>1 DEF IsList
<1>8. \A j, k \in 0..n : g[j] = g[k] => j = k
  <2> TAKE j \in 0..n, k \in 0..n
  <2>1. /\ j \in 0..n + 1 /\ j + 1 \in 0..n + 1 /\ k \in 0..n + 1 /\ k + 1 \in 0..n + 1
        /\ (j < i /\ ~(k < i) => j # k + 1) /\ (k < i /\ ~(j < i) => k # j + 1)
        /\ (j + 1 = k + 1 => j = k)
    BY <1>1
  <2>2. \A p, q \in 0..n + 1 : f[p] = f[q] => p = q
    BY DEF IsList
  <2> QED BY <1>5, <2>1, <2>2
<1>9. \A j \in 0..n - 1 : m.next[g[j]] = g[j + 1] /\ m.prev[g[j + 1]] = g[j]
  <2> SUFFICES ASSUME NEW j \in 0..n - 1
               PROVE  m.next[g[j]] = g[j + 1] /\ m.prev[g[j + 1]] = g[j]
    OBVIOUS
  <2>1. /\ j \in Int /\ j \in 0..n /\ j + 1 \in 0..n /\ j \in 0..n + 1 /\ j + 1 \in 0..n + 1
        /\ j + 1 + 1 \in 0..n + 1
    BY <1>1
  <2>2. \A p \in 0..n : l.next[f[p]] = f[p + 1] /\ l.prev[f[p + 1]] = f[p]
    BY DEF IsList
  <2>3. \A p \in 0..n + 1 : f[p] \in Linked
    BY DEF IsList
  <2>4. CASE j + 1 < i
    <3>1. g[j] = f[j] /\ g[j + 1] = f[j + 1] /\ j # i /\ j # i - 1 /\ j + 1 # i + 1
      BY <1>1, <1>5, <2>1, <2>4
    <3> QED BY <1>3, <1>4, <2>1, <2>2, <2>3, <3>1
  <2>5. CASE j + 1 = i
    <3>1. g[j] = f[i - 1] /\ g[j + 1] = f[i + 1]
      BY <1>1, <1>5, <2>1, <2>5
    <3> QED BY <1>3, <1>4, <3>1
  <2>6. CASE i <= j
    <3>1. g[j] = f[j + 1] /\ g[j + 1] = f[j + 1 + 1] /\ j + 1 # i /\ j + 1 # i - 1 /\ j + 1 + 1 # i + 1
      BY <1>1, <1>5, <2>1, <2>6
    <3> QED BY <1>3, <1>4, <2>1, <2>2, <2>3, <3>1
  <2> QED BY <1>1, <2>1, <2>4, <2>5, <2>6
<1>10. IsList(m, g, n - 1)
  BY <1>1, <1>4, <1>5, <1>6, <1>7, <1>8, <1>9 DEF IsList
<1> QED BY <1>10 DEF m, g

LEMMA ListInserted ==
  ASSUME NEW l, NEW f, NEW n, IsList(l, f, n), NEW x \in Nodes, x \notin Between(f, n)
  PROVE  IsList(insertNode(l, x), Extended(f, n, x), n + 1)
<1> DEFINE m == insertNode(l, x)
           g == Extended(f, n, x)
<1>1. /\ n \in Nat /\ n + 1 \in Nat /\ n + 1 + 1 = n + 2 /\ n \in 0..n + 1 /\ n + 1 \in 0..n + 1
      /\ n \in 0..n /\ 0 \in 0..n
  BY DEF IsList
<1>2. /\ \A p \in 0..n + 1 : f[p] \in Linked /\ f[p] # x
      /\ x \in Linked /\ x # DummyTail /\ x # DummyHead /\ DummyTail \in Linked
  <2>1. ASSUME NEW p \in 0..n + 1 PROVE f[p] # x
    BY <2>1, NodesBetween DEF Between
  <2> QED BY <2>1, DummiesApart DEF IsList
<1>3. l.prev[DummyTail] = f[n] /\ f[n] \in Linked /\ f[n] # x /\ f[n + 1] = DummyTail
  BY <1>1, <1>2 DEF IsList
<1>4. /\ m = [next |-> m.next, prev |-> m.prev]
      /\ m.next \in [Linked -> Linked \union {Null}] /\ m.prev \in [Linked -> Linked \union {Null}]
      /\ \A y \in Linked : m.next[y] = IF y = f[n] THEN x
                                       ELSE IF y = x THEN DummyTail ELSE l.next[y]
      /\ \A y \in Linked : m.prev[y] = IF y = DummyTail THEN x
                                       ELSE IF y = x THEN f[n] ELSE l.prev[y]
  <2>1. /\ m.next = [l.next EXCEPT ![x] = DummyTail, ![f[n]] = x]
        /\ m.prev = [l.prev EXCEPT ![x] = f[n], ![DummyTail] = x]
        /\ m = [next |-> m.next, prev |-> m.prev]
    BY <1>3 DEF insertNode
  <2>2. l.next \in [Linked -> Linked \union {Null}] /\ l.prev \in [Linked -> Linked \union {Null}]
    BY DEF IsList
  <2> HIDE DEF m
  <2>3. m.next \in [Linked -> Linked \union {Null}]
    BY <1>2, <1>3, <2>1, <2>2
  <2>4. m.prev \in [Linked -> Linked \union {Null}]
    BY <1>2, <1>3, <2>1, <2>2
  <2>5. \A y \in Linked : m.next[y] = IF y = f[n] THEN x
                                      ELSE IF y = x THEN DummyTail ELSE l.next[y]
    BY <1>2, <1>3, <2>1, <2>2
  <2>6. \A y \in Linked : m.prev[y] = IF y = DummyTail THEN x
                                      ELSE IF y = x THEN f[n] ELSE l.prev[y]
    BY <1>2, <1>3, <2>1, <2>2
  <2> QED BY <2>1, <2>3, <2>4, <2>5, <2>6
<1>5. /\ g \in [0..n + 2 -> Linked]
      /\ \A j \in 0..n + 2 : g[j] = IF j <= n THEN f[j] ELSE IF j = n + 1 THEN x ELSE DummyTail
  <2>1. \A j \in 0..n + 2 : j <= n => j \in 0..n + 1
    BY <1>1
  <2> QED BY <1>2, <2>1 DEF Extended
<1> HIDE DEF m, g
<1>6. /\ g[0] = DummyHead /\ g[n + 1] = x /\ g[n + 2] = DummyTail
      /\ \A j \in 0..n : g[j] = f[j]
  <2>1. /\ 0 \in 0..n + 2 /\ 0 <= n /\ n + 1 \in 0..n + 2 /\ n + 2 \in 0..n + 2
        /\ ~(n + 1 <= n) /\ ~(n + 2 <= n) /\ n + 2 # n + 1
        /\ \A j \in 0..n : j \in 0..n + 2 /\ j <= n
    BY <1>1
  <2> QED BY <1>5, <2>1 DEF IsList
<1>7. \A j \in 1..n + 1 : g[j] \in Nodes
  <2> TAKE j \in 1..n + 1
  <2>1. j = n + 1 \/ (j \in 1..n /\ j \in 0..n)
    BY <1>1
  <2> QED BY <1>6, <2>1 DEF IsList
<1>8. \A j, k \in 0..n + 2 : g[j] = g[k] => j = k
  <2> TAKE j \in 0..n + 2, k \in 0..n + 2
  <2>1. /\ j \in 0..n \/ j = n + 1 \/ j = n + 2
        /\ k \in 0..n \/ k = n + 1 \/ k = n + 2
    BY <1>1
  <2>2. \A p \in 0..n : /\ g[p] = f[p] /\ g[p] # x /\ g[p] # DummyTail
                        /\ \A q \in 0..n : g[p] = g[q] => p = q
    <3>1. \A p \in 0..n : p \in 0..n + 1 /\ p # n + 1
      BY <1>1
    <3>2. \A p, q \in 0..n + 1 : f[p] = f[q] => p = q
      BY DEF IsList
    <3>3. \A p \in 0..n : f[p] # f[n + 1] /\ f[p] # x
      BY <1>1, <1>2, <3>1, <3>2
    <3> QED BY <1>3, <1>6, <3>1, <3>2, <3>3
  <2> QED BY <1>2, <1>6, <2>1, <2>2
<1>9. \A j \in 0..n + 1 : m.next[g[j]] = g[j + 1] /\ m.prev[g[j + 1]] = g[j]
  <2> SUFFICES ASSUME NEW j \in 0..n + 1
               PROVE  m.next[g[j]] = g[j + 1] /\ m.prev[g[j + 1]] = g[j]
    OBVIOUS
  <2>1. CASE j = n + 1
    <3>1. g[j] = x /\ g[j + 1] = DummyTail
      BY <1>1, <1>6, <2>1
    <3> QED BY <1>2, <1>3, <1>4, <3>1
  <2>2. CASE j = n
    <3>1. g[j] = f[n] /\ g[j + 1] = x
      BY <1>1, <1>6, <2>2
    <3> QED BY <1>2, <1>3, <1>4, <3>1
  <2>3. CASE j < n
    <3>1. j \in 0..n /\ j + 1 \in 0..n /\ j \in 0..n + 1 /\ j + 1 \in 0..n + 1 /\ j # n /\ j + 1 # n + 1
      BY <1>1, <2>3
    <3>2. f[j] # f[n] /\ f[j + 1] # f[n + 1]
      BY <1>1, <3>1 DEF IsList
    <3>3. l.next[f[j]] = f[j + 1] /\ l.prev[f[j + 1]] = f[j]
      BY <3>1 DEF IsList
    <3> QED BY <1>2, <1>3, <1>4, <1>6, <3>1, <3>2, <3>3
  <2> QED BY <1>1, <2>1, <2>2, <2>3
<1>10. IsList(m, g, n + 1)
  BY <1>1, <1>4, <1>5, <1>6, <1>7, <1>8, <1>9 DEF IsList
<1> QED BY <1>10 DEF m, g

\* As many nodes as the way is long.
LEMMA NodesCounted ==
  ASSUME NEW l, NEW f, NEW n, IsList(l, f, n)
  PROVE  IsFiniteSet(Between(f, n)) /\ Cardinality(Between(f, n)) = n
<1>1. n \in Nat /\ \A i \in 1..n : i \in 0..n + 1
  BY DEF IsList
<1> DEFINE g == [i \in 1..n |-> f[i]]
<1>2. g \in Bijection(1..n, Between(f, n))
  <2>1. \A i, j \in 1..n : f[i] = f[j] => i = j
    BY <1>1 DEF IsList
  <2>2. g \in [1..n -> Between(f, n)]
    BY DEF Between
  <2>3. \A x \in Between(f, n) : \E i \in 1..n : g[i] = x
    BY DEF Between
  <2> QED BY <2>1, <2>2, <2>3 DEF Bijection, Injection, Surjection, IsInjective
<1>3. ExistsBijection(1..n, Between(f, n))
  BY <1>2 DEF ExistsBijection
<1>4. IsFiniteSet(1..n)
  BY <1>1, FS_Interval
<1> QED BY <1>1, <1>3, <1>4, FS_Bijection, FS_CountingElements

-----------------------------------------------------------------------------
(* What the walk from the head finds.                                      *)
Follows(nx, last, g) ==
  g = [i \in 0..last |-> IF i = 0 THEN DummyHead
                         ELSE IF g[i - 1] \in {DummyTail, Null} THEN g[i - 1] ELSE nx[g[i - 1]]]

Walked(nx) ==
  LET last == Cardinality(Nodes) + 1
      at == CHOOSE g : Follows(nx, last, g)
      inner == {i \in 1..last : at[i] \in Nodes}
  IN  [i \in 1..Cardinality(inner) |-> at[i]]

LEMMA WalkIsWalked == Walk = Walked(next)
BY DEF Walk, Walked, Follows

LEMMA Least ==
  ASSUME NEW S \in SUBSET Nat, S # {}
  PROVE  \E n \in S : \A m \in S : n <= m
<1> DEFINE R == {p \in Nat \X Nat : p[1] < p[2]}
<1>1. IsWellFoundedOn(R, Nat)
  BY NatLessThanWellFounded DEF OpToRel
<1> HIDE DEF R
<1>2. PICK n \in S : \A m \in S : <<m, n>> \notin R
  BY <1>1, WFMin
<1>3. ASSUME NEW m \in S PROVE n <= m
  <2>1. m \in Nat /\ n \in Nat /\ <<m, n>> \notin R
    BY <1>2
  <2>2. ~(m < n)
    BY <2>1 DEF R
  <2> QED BY <2>1, <2>2
<1> QED BY <1>3

\* The walk goes along the list and then stays at the tail.
LEMMA WalkedList ==
  ASSUME NEW l, NEW f, NEW n, IsList(l, f, n), n <= Cardinality(Nodes)
  PROVE  Walked(l.next) = [i \in 1..n |-> f[i]]
<1> DEFINE last == Cardinality(Nodes) + 1
           nx == l.next
           at == CHOOSE g : Follows(nx, last, g)
           w == [i \in 0..last |-> IF i <= n + 1 THEN f[i] ELSE DummyTail]
           inner == {i \in 1..last : at[i] \in Nodes}
<1>1. Cardinality(Nodes) \in Nat
  BY LruAssumption, FS_CardinalityType
<1>2. /\ n \in Nat /\ last \in Nat /\ n + 1 <= last
      /\ \A i \in 0..last : i # 0 => i - 1 \in 0..last
  BY <1>1 DEF IsList
<1> HIDE DEF last
<1>3. Follows(nx, last, w)
  <2>1. ASSUME NEW i \in 0..last
        PROVE  w[i] = IF i = 0 THEN DummyHead
                      ELSE IF w[i - 1] \in {DummyTail, Null} THEN w[i - 1] ELSE nx[w[i - 1]]
    <3>1. CASE i = 0
      BY <1>2, <3>1 DEF IsList
    <3>2. CASE i # 0 /\ i <= n + 1
      <4>1. /\ i - 1 \in 0..last /\ i - 1 <= n + 1 /\ i - 1 \in 0..n /\ i - 1 + 1 = i
            /\ i - 1 \in 0..n + 1 /\ n + 1 \in 0..n + 1 /\ i - 1 # n + 1
        BY <1>2, <3>2
      <4>2. w[i] = f[i] /\ w[i - 1] = f[i - 1]
        BY <3>2, <4>1
      <4>3. f[i - 1] \in Linked /\ f[i - 1] # f[n + 1] /\ nx[f[i - 1]] = f[i - 1 + 1]
        BY <4>1 DEF IsList
      <4>4. f[i - 1] \notin {DummyTail, Null}
        BY <4>3, DummiesApart DEF IsList
      <4> HIDE DEF w
      <4> QED BY <3>2, <4>1, <4>2, <4>3, <4>4
    <3>3. CASE ~(i <= n + 1)
      <4>1. i - 1 \in 0..last /\ i # 0 /\ (i - 1 = n + 1 \/ ~(i - 1 <= n + 1))
        BY <1>2, <3>3
      <4>2. w[i] = DummyTail /\ w[i - 1] = DummyTail
        BY <3>3, <4>1 DEF IsList
      <4> HIDE DEF w
      <4> QED BY <4>1, <4>2
    <3> QED BY <3>1, <3>2, <3>3
  <2>2. w = [i \in 0..last |-> w[i]]
    OBVIOUS
  <2> HIDE DEF w
  <2> QED BY <2>1, <2>2 DEF Follows
<1>4. Follows(nx, last, at)
  BY <1>3
<1> HIDE DEF at
<1>5. \A i \in 0..last : at[i] = w[i]
  <2> DEFINE Bad == {i \in 0..last : at[i] # w[i]}
  <2> SUFFICES ASSUME Bad # {} PROVE FALSE
    OBVIOUS
  <2> HIDE DEF w
  <2>1. Bad \in SUBSET Nat
    BY <1>2
  <2>2. PICK i \in Bad : \A j \in Bad : i <= j
    BY <2>1, Least
  <2>3. i \in 0..last /\ i \in Nat
    BY <1>2, <2>2
  <2>4. at[0] = DummyHead /\ w[0] = DummyHead /\ 0 \in 0..last
    BY <1>2, <1>3, <1>4 DEF Follows
  <2>5. i # 0 /\ i - 1 \in 0..last /\ ~(i <= i - 1)
    BY <1>2, <2>2, <2>3, <2>4
  <2>6. at[i - 1] = w[i - 1]
    BY <2>2, <2>5
  <2>7. at[i] = IF at[i - 1] \in {DummyTail, Null} THEN at[i - 1] ELSE nx[at[i - 1]]
    BY <1>4, <2>3, <2>5 DEF Follows
  <2>8. w[i] = IF w[i - 1] \in {DummyTail, Null} THEN w[i - 1] ELSE nx[w[i - 1]]
    BY <1>3, <2>3, <2>5 DEF Follows
  <2> QED BY <2>2, <2>6, <2>7, <2>8
<1>6. inner = 1..n
  <2>1. ASSUME NEW i \in 1..last PROVE at[i] \in Nodes <=> i \in 1..n
    <3>1. i \in 0..last /\ (i <= n + 1 <=> i \in 0..n + 1) /\ (i \in 1..n => i <= n + 1)
      BY <1>2
    <3>2. at[i] = IF i <= n + 1 THEN f[i] ELSE DummyTail
      BY <1>5, <3>1
    <3> QED BY <3>1, <3>2, NodesBetween, DummiesApart
  <2>2. \A i \in 1..n : i \in 1..last
    BY <1>2
  <2> QED BY <2>1, <2>2
<1>7. Cardinality(inner) = n
  <2>1. Cardinality(1..n) = n
    BY <1>2, FS_Interval
  <2> HIDE DEF inner
  <2> QED BY <1>6, <2>1
<1>8. \A i \in 1..n : at[i] = f[i]
  <2>1. \A i \in 1..n : i \in 0..last /\ i <= n + 1
    BY <1>2
  <2> QED BY <1>5, <2>1
<1>9. Walked(nx) = [i \in 1..Cardinality(inner) |-> at[i]]
  BY DEF Walked, last, at
<1> QED BY <1>7, <1>8, <1>9

-----------------------------------------------------------------------------
(* The cache: its list and its map.                                        *)
MapTyped == /\ keyOf \in [Nodes -> Keys \union {Null}]
            /\ valueOf \in [Nodes -> Values \union {NoValue}]
            /\ nodeMap \in [Keys -> Nodes \union {Null}]
            /\ \A k \in Keys : nodeMap[k] # Null => keyOf[nodeMap[k]] = k

LruGood(f, n) == /\ MapTyped
                 /\ IsList(list, f, n)
                 /\ Mapped = Between(f, n)
                 /\ n <= Capacity

LruInv == \E n \in Nat : \E f \in [0..n + 1 -> Linked] : LruGood(f, n)

\* The way after the use of the i-th node.
Used(f, n, i) == Extended(Dropped(f, n, i), n - 1, f[i])

LEMMA MapLooksUp ==
  ASSUME MapTyped, NEW k \in Keys
  PROVE  nodeMap[k] # Null => nodeMap[k] \in Nodes /\ nodeMap[k] \in Mapped
BY DEF MapTyped, Mapped

LEMMA MappedNodes ==
  ASSUME MapTyped, NEW x \in Mapped
  PROVE  /\ x \in Nodes /\ keyOf[x] \in Keys /\ nodeMap[keyOf[x]] = x
         /\ \A j \in Keys : nodeMap[j] = x => j = keyOf[x]
BY DummiesApart DEF MapTyped, Mapped

LEMMA DroppedBetween ==
  ASSUME NEW l, NEW f, NEW n, IsList(l, f, n), NEW i \in 1..n
  PROVE  Between(Dropped(f, n, i), n - 1) = Between(f, n) \ {f[i]}
<1> DEFINE g == Dropped(f, n, i)
<1>1. n \in Nat /\ i \in Nat /\ 1 <= i /\ i <= n
  BY DEF IsList
<1>2. \A j \in 1..n - 1 : g[j] = IF j < i THEN f[j] ELSE f[j + 1]
  <2>1. \A j \in 1..n - 1 : j \in 0..n
    BY <1>1
  <2> QED BY <2>1 DEF Dropped
<1>3. \A j \in 1..n : f[j] = f[i] => j = i
  <2>1. \A j \in 1..n : j \in 0..n + 1
    BY <1>1
  <2> QED BY <2>1 DEF IsList
<1> HIDE DEF g
<1>4. ASSUME NEW x \in Between(g, n - 1) PROVE x \in Between(f, n) \ {f[i]}
  <2>1. PICK j \in 1..n - 1 : x = g[j]
    BY <1>4 DEF Between
  <2>2. /\ j \in 1..n /\ j + 1 \in 1..n /\ (j < i => j # i) /\ (~(j < i) => j + 1 # i)
    BY <1>1
  <2> QED BY <1>2, <1>3, <2>1, <2>2 DEF Between
<1>5. ASSUME NEW x \in Between(f, n) \ {f[i]} PROVE x \in Between(g, n - 1)
  <2>1. PICK j \in 1..n : x = f[j] /\ j # i
    BY <1>5 DEF Between
  <2>2. CASE j < i
    <3>1. j \in 1..n - 1
      BY <1>1, <2>2
    <3> QED BY <1>2, <2>1, <2>2, <3>1 DEF Between
  <2>3. CASE ~(j < i)
    <3>1. j - 1 \in 1..n - 1 /\ ~(j - 1 < i) /\ j - 1 + 1 = j
      BY <1>1, <2>1, <2>3
    <3>2. g[j - 1] = f[j]
      BY <1>2, <3>1
    <3> QED BY <2>1, <3>1, <3>2 DEF Between
  <2> QED BY <2>2, <2>3
<1>6. Between(g, n - 1) = Between(f, n) \ {f[i]}
  BY <1>4, <1>5
<1> QED BY <1>6 DEF g

LEMMA ExtendedBetween ==
  ASSUME NEW f, NEW n \in Nat, NEW x
  PROVE  Between(Extended(f, n, x), n + 1) = Between(f, n) \union {x}
<1> DEFINE g == Extended(f, n, x)
<1>1. /\ \A j \in 1..n : g[j] = f[j] /\ j \in 1..n + 1
      /\ g[n + 1] = x /\ n + 1 \in 1..n + 1
  <2>1. /\ \A j \in 1..n : j \in 0..n + 2 /\ j <= n /\ j \in 1..n + 1
        /\ n + 1 \in 0..n + 2 /\ ~(n + 1 <= n) /\ n + 1 \in 1..n + 1
    OBVIOUS
  <2> QED BY <2>1 DEF Extended
<1>2. \A j \in 1..n + 1 : j \in 1..n \/ j = n + 1
  OBVIOUS
<1> HIDE DEF g
<1>3. Between(g, n + 1) = Between(f, n) \union {x}
  BY <1>1, <1>2 DEF Between
<1> QED BY <1>3 DEF g

\* removeNode finds both neighbours of a node of the list.
LEMMA RemovedIsUnlinked ==
  ASSUME NEW f, NEW n, LruGood(f, n), NEW i \in 1..n
  PROVE  removeNode(list, f[i]) = Unlinked(list, f[i])
<1>1. n \in Nat /\ i - 1 \in 0..n /\ i - 1 + 1 = i /\ i \in 0..n /\ i + 1 \in 0..n + 1
      /\ i \in Nat /\ i - 1 \in Nat
  BY DEF LruGood, IsList
<1>2. list.prev[f[i]] = f[i - 1] /\ list.next[f[i]] = f[i + 1]
  <2>1. list.prev[f[i - 1 + 1]] = f[i - 1]
    BY <1>1 DEF LruGood, IsList
  <2> QED BY <1>1, <2>1 DEF LruGood, IsList
<1>3. f[i + 1] \in Linked /\ f[i + 1] # Null
  BY <1>1, NodesBetween, DummiesApart DEF LruGood
<1>4. f[i - 1] \in Mapped \union {DummyHead}
  <2>1. i - 1 = 0 \/ i - 1 \in 1..n
    BY <1>1
  <2> QED BY <2>1 DEF LruGood, IsList, Between
<1> QED BY <1>2, <1>3, <1>4 DEF removeNode, Unlinked

\* A node that is used moves to the end of the list.
LEMMA UsedList ==
  ASSUME NEW f, NEW n, LruGood(f, n), NEW i \in 1..n
  PROVE  /\ IsList(moveToMostRecent(list, f[i]), Used(f, n, i), n)
         /\ Between(Used(f, n, i), n) = Between(f, n)
<1> DEFINE g == Dropped(f, n, i)
           l == Unlinked(list, f[i])
<1>1. n \in Nat /\ n - 1 \in Nat /\ n - 1 + 1 = n /\ f[i] \in Nodes /\ f[i] \in Between(f, n)
  BY DEF LruGood, IsList, Between
<1>2. IsList(l, g, n - 1)
  BY ListRemoved DEF LruGood
<1>3. Between(g, n - 1) = Between(f, n) \ {f[i]}
  BY DroppedBetween DEF LruGood
<1>4. moveToMostRecent(list, f[i]) = insertNode(l, f[i])
  BY RemovedIsUnlinked DEF moveToMostRecent
<1> HIDE DEF l, g
<1>5. IsList(insertNode(l, f[i]), Extended(g, n - 1, f[i]), n - 1 + 1)
  BY <1>1, <1>2, <1>3, ListInserted
<1>6. Between(Extended(g, n - 1, f[i]), n - 1 + 1) = Between(g, n - 1) \union {f[i]}
  <2>1. PICK m \in Nat : m = n - 1
    BY <1>1
  <2>2. Between(Extended(g, m, f[i]), m + 1) = Between(g, m) \union {f[i]}
    BY ExtendedBetween
  <2> QED BY <2>1, <2>2, Zenon
<1>7. Used(f, n, i) = Extended(g, n - 1, f[i])
  BY DEF Used, g
<1> QED BY <1>1, <1>3, <1>4, <1>5, <1>6, <1>7

LEMMA ListSet ==
  ASSUME NEW l, NEW f, NEW n, IsList(l, f, n), SetList(l)
  PROVE  IsList(list, f, n)'
<1>1. list' = l
  BY DEF SetList, list, IsList
<1>2. IsList(list', f, n)
  BY <1>1
<1> QED BY <1>2 DEF IsList, list

LEMMA GetKeeps ==
  ASSUME NEW f, NEW n, LruGood(f, n), NEW k \in Keys, get(k)
  PROVE  \E i \in 1..n : f[i] = nodeMap[k] /\ LruGood(Used(f, n, i), n)'
<1>1. /\ nodeMap[k] \in Mapped /\ SetList(moveToMostRecent(list, nodeMap[k]))
      /\ UNCHANGED <<keyOf, valueOf, nodeMap>>
  BY MapLooksUp DEF get, LruGood
<1>2. PICK i \in 1..n : f[i] = nodeMap[k]
  BY <1>1 DEF LruGood, Between
<1>3. /\ IsList(moveToMostRecent(list, f[i]), Used(f, n, i), n)
      /\ Between(Used(f, n, i), n) = Between(f, n)
  BY UsedList
<1>4. IsList(list, Used(f, n, i), n)'
  BY <1>1, <1>2, <1>3, ListSet
<1>5. MapTyped' /\ Mapped' = Mapped
  BY <1>1 DEF LruGood, MapTyped, Mapped
<1>6. LruGood(Used(f, n, i), n)'
  BY <1>3, <1>4, <1>5 DEF LruGood
<1> QED BY <1>2, <1>6

LEMMA UpdateKeeps ==
  ASSUME NEW f, NEW n, LruGood(f, n), NEW k \in Keys, NEW v \in Values, updateExistingNode(k, v)
  PROVE  \E i \in 1..n : f[i] = nodeMap[k] /\ LruGood(Used(f, n, i), n)'
<1>1. /\ nodeMap[k] \in Mapped /\ SetList(moveToMostRecent(list, nodeMap[k]))
      /\ UNCHANGED <<keyOf, nodeMap>>
      /\ valueOf' = [valueOf EXCEPT ![nodeMap[k]] = v]
  BY MapLooksUp DEF updateExistingNode, LruGood
<1>2. PICK i \in 1..n : f[i] = nodeMap[k]
  BY <1>1 DEF LruGood, Between
<1>3. /\ IsList(moveToMostRecent(list, f[i]), Used(f, n, i), n)
      /\ Between(Used(f, n, i), n) = Between(f, n)
  BY UsedList
<1>4. IsList(list, Used(f, n, i), n)'
  BY <1>1, <1>2, <1>3, ListSet
<1>5. MapTyped' /\ Mapped' = Mapped
  <2>1. valueOf' \in [Nodes -> Values \union {NoValue}]
    BY <1>1 DEF LruGood, MapTyped
  <2> QED BY <1>1, <2>1 DEF LruGood, MapTyped, Mapped
<1>6. LruGood(Used(f, n, i), n)'
  BY <1>3, <1>4, <1>5 DEF LruGood
<1> QED BY <1>2, <1>6

\* A full cache evicts the first node of the list, and there always is a node for a new entry.
LEMMA NodeForNewEntry ==
  ASSUME NEW f, NEW n, LruGood(f, n), Capacity > 0
  PROVE  /\ n \in Nat /\ Capacity \in Nat
         /\ Full <=> n = Capacity
         /\ Full => 1 \in 1..n /\ leastRecent = f[1] /\ leastRecent \in Mapped
         /\ NewNode \in Nodes
         /\ ~Full => NewNode \notin Mapped
         /\ Full => NewNode \notin Mapped \ {leastRecent}
<1>1. /\ n \in Nat /\ Capacity \in Nat /\ n <= Capacity /\ Cardinality(Mapped) = n
      /\ IsFiniteSet(Mapped) /\ Mapped = Between(f, n)
  <2>1. IsList(list, f, n) /\ Mapped = Between(f, n) /\ n <= Capacity
    BY DEF LruGood
  <2>2. IsFiniteSet(Between(f, n)) /\ Cardinality(Between(f, n)) = n
    BY <2>1, NodesCounted
  <2>3. n \in Nat
    BY <2>1 DEF IsList
  <2> QED BY <2>1, <2>2, <2>3, LruAssumption
<1>2. Full <=> n = Capacity
  BY <1>1 DEF Full
<1>3. ASSUME Full PROVE 1 \in 1..n /\ leastRecent = f[1] /\ leastRecent \in Mapped
  <2>1. 1 \in 1..n /\ 0 \in 0..n
    BY <1>1, <1>2, <1>3
  <2>2. next[f[0]] = f[0 + 1] /\ f[0] = DummyHead
    BY <2>1 DEF LruGood, IsList, list
  <2> QED BY <1>1, <2>1, <2>2 DEF leastRecent, Between
<1>4. \E x \in Nodes : x \notin Mapped \ (IF Full THEN {leastRecent} ELSE {})
  <2>1. CASE Full
    <3>1. leastRecent \in Nodes
      BY <1>3, <2>1, MappedNodes DEF LruGood
    <3> QED BY <2>1, <3>1
  <2>2. CASE ~Full
    <3> SUFFICES ASSUME \A x \in Nodes : x \in Mapped PROVE FALSE
      BY <2>2
    <3>1. Nodes \in SUBSET Mapped
      OBVIOUS
    <3>2. Cardinality(Nodes) <= Cardinality(Mapped)
      BY <1>1, <3>1, FS_Subset
    <3>3. Cardinality(Nodes) \in Nat /\ Cardinality(Nodes) >= Capacity
      BY LruAssumption, FS_CardinalityType
    <3> QED BY <1>1, <1>2, <2>2, <3>2, <3>3
  <2> QED BY <2>1, <2>2
<1>5. NewNode \in Nodes /\ NewNode \notin Mapped \ (IF Full THEN {leastRecent} ELSE {})
  BY <1>4 DEF NewNode
<1> QED BY <1>1, <1>2, <1>3, <1>5

Evicted == IF Full THEN {leastRecent} ELSE {}

\* What addNewNode does to the map.
LEMMA EntryAdded ==
  ASSUME NEW f, NEW n, LruGood(f, n), Capacity > 0, NEW k \in Keys, NEW v \in Values, addNewNode(k, v),
         NEW x, x = NewNode
  PROVE  /\ nodeMap[k] = Null /\ x \in Nodes /\ x \notin Mapped \ Evicted
         /\ \A y \in Nodes : /\ keyOf'[y] = IF y = x THEN k ELSE IF y \in Evicted THEN Null ELSE keyOf[y]
                             /\ valueOf'[y] = IF y = x THEN v
                                              ELSE IF y \in Evicted THEN NoValue ELSE valueOf[y]
         /\ \A j \in Keys : nodeMap'[j] = IF j = k THEN x
                                          ELSE IF nodeMap[j] \in Evicted THEN Null ELSE nodeMap[j]
         /\ MapTyped'
         /\ Mapped' = (Mapped \ Evicted) \union {x}
<1>1. /\ Full => leastRecent \in Mapped
      /\ x \in Nodes
      /\ x \notin Mapped \ Evicted
  BY NodeForNewEntry DEF Evicted
<1>2. /\ nodeMap[k] = Null
      /\ keyOf' = [Freed(keyOf, Null) EXCEPT ![x] = k]
      /\ valueOf' = [Freed(valueOf, NoValue) EXCEPT ![x] = v]
      /\ nodeMap' = [j \in Keys |-> CASE j = k -> x
                                      [] Full /\ j = keyOf[leastRecent] -> Null
                                      [] OTHER -> nodeMap[j]]
  BY DEF addNewNode
<1>3. MapTyped
  BY DEF LruGood
<1>4. \A y \in Evicted : y \in Mapped /\ y = leastRecent /\ Full
  BY <1>1 DEF Evicted
<1>5. \A y \in Nodes : /\ keyOf'[y] = IF y = x THEN k ELSE IF y \in Evicted THEN Null ELSE keyOf[y]
                       /\ valueOf'[y] = IF y = x THEN v
                                        ELSE IF y \in Evicted THEN NoValue ELSE valueOf[y]
  <2>1. CASE Full
    <3>1. leastRecent \in Nodes /\ Evicted = {leastRecent}
      BY <1>1, <1>3, <2>1, MappedNodes DEF Evicted
    <3>2. Freed(keyOf, Null) = [keyOf EXCEPT ![leastRecent] = Null]
      BY <2>1 DEF Freed
    <3>3. Freed(valueOf, NoValue) = [valueOf EXCEPT ![leastRecent] = NoValue]
      BY <2>1 DEF Freed
    <3> QED BY <1>1, <1>2, <1>3, <3>1, <3>2, <3>3 DEF MapTyped
  <2>2. CASE ~Full
    <3>1. Evicted = {} /\ Freed(keyOf, Null) = keyOf /\ Freed(valueOf, NoValue) = valueOf
      BY <2>2 DEF Evicted, Freed
    <3> QED BY <1>1, <1>2, <1>3, <3>1 DEF MapTyped
  <2> QED BY <2>1, <2>2
<1>6. ASSUME NEW j \in Keys
      PROVE  nodeMap'[j] = IF j = k THEN x ELSE IF nodeMap[j] \in Evicted THEN Null ELSE nodeMap[j]
  <2>1. Full => (nodeMap[j] = leastRecent <=> j = keyOf[leastRecent])
    BY <1>1, <1>3, MappedNodes
  <2>2. nodeMap[j] \in Evicted <=> Full /\ j = keyOf[leastRecent]
    BY <2>1 DEF Evicted
  <2>3. nodeMap'[j] = CASE j = k -> x
                        [] Full /\ j = keyOf[leastRecent] -> Null
                        [] OTHER -> nodeMap[j]
    BY <1>2
  <2>4. CASE j = k
    <3>1. Full => keyOf[leastRecent] # k
      BY <1>1, <1>2, <1>3, MappedNodes, DummiesApart
    <3> QED BY <2>3, <2>4, <3>1
  <2> QED BY <2>2, <2>3, <2>4
<1>7. MapTyped'
  <2>1. keyOf' \in [Nodes -> Keys \union {Null}]
    <3>1. Freed(keyOf, Null) \in [Nodes -> Keys \union {Null}]
      BY <1>3 DEF Freed, MapTyped
    <3> QED BY <1>2, <3>1
  <2>2. valueOf' \in [Nodes -> Values \union {NoValue}]
    <3>1. Freed(valueOf, NoValue) \in [Nodes -> Values \union {NoValue}]
      BY <1>3 DEF Freed, MapTyped
    <3> QED BY <1>2, <3>1
  <2>3. nodeMap' \in [Keys -> Nodes \union {Null}]
    <3>1. \A j \in Keys : nodeMap'[j] \in Nodes \union {Null}
      BY <1>1, <1>3, <1>6 DEF MapTyped
    <3>2. nodeMap' = [j \in Keys |-> nodeMap'[j]]
      BY <1>2
    <3> QED BY <3>1, <3>2
  <2>4. ASSUME NEW j \in Keys, nodeMap'[j] # Null PROVE keyOf'[nodeMap'[j]] = j
    <3>1. CASE j = k
      BY <1>1, <1>5, <1>6, <3>1
    <3>2. CASE j # k
      <4>1. nodeMap'[j] = nodeMap[j] /\ nodeMap[j] \notin Evicted /\ nodeMap[j] # Null
        BY <1>6, <2>4, <3>2
      <4>2. nodeMap[j] \in Nodes /\ nodeMap[j] \in Mapped
        BY <1>3, <4>1, MapLooksUp
      <4>3. nodeMap[j] # x /\ keyOf[nodeMap[j]] = j
        BY <1>1, <1>3, <4>1, <4>2 DEF MapTyped
      <4> QED BY <1>5, <4>1, <4>2, <4>3
    <3> QED BY <3>1, <3>2
  <2> QED BY <2>1, <2>2, <2>3, <2>4 DEF MapTyped
<1>8. Mapped' = (Mapped \ Evicted) \union {x}
  <2>1. Mapped' = {nodeMap'[j] : j \in Keys} \ {Null}
    BY DEF Mapped
  <2>2. ASSUME NEW y \in Mapped' PROVE y \in (Mapped \ Evicted) \union {x}
    <3>1. PICK j \in Keys : y = nodeMap'[j] /\ y # Null
      BY <2>1, <2>2
    <3> QED BY <1>6, <3>1 DEF Mapped
  <2>3. ASSUME NEW y \in Mapped \ Evicted PROVE y \in Mapped'
    <3>1. PICK j \in Keys : y = nodeMap[j] /\ y # Null
      BY <2>3 DEF Mapped
    <3>2. nodeMap'[j] = y
      BY <1>2, <1>6, <2>3, <3>1
    <3> QED BY <2>1, <3>1, <3>2
  <2>4. x \in Mapped'
    <3>1. nodeMap'[k] = x /\ x # Null
      BY <1>1, <1>6, DummiesApart
    <3> QED BY <2>1, <3>1
  <2> QED BY <2>2, <2>3, <2>4
<1> QED BY <1>1, <1>2, <1>5, <1>6, <1>7, <1>8

\* The list with a new entry x, in a cache that is not full and in one that is.
LEMMA AddKeeps ==
  ASSUME NEW f, NEW n, LruGood(f, n), Capacity > 0, NEW k \in Keys, NEW v \in Values, addNewNode(k, v),
         NEW x, x = NewNode
  PROVE  /\ ~Full => LruGood(Extended(f, n, x), n + 1)'
         /\ Full => LruGood(Extended(Dropped(f, n, 1), n - 1, x), n)'
<1>1. /\ x \in Nodes /\ x \notin Mapped \ Evicted /\ MapTyped'
      /\ Mapped' = (Mapped \ Evicted) \union {x}
  BY EntryAdded
<1>2. /\ n \in Nat /\ Capacity \in Nat /\ n <= Capacity /\ Mapped = Between(f, n) /\ IsList(list, f, n)
      /\ Full <=> n = Capacity
      /\ Full => 1 \in 1..n /\ leastRecent = f[1]
  BY NodeForNewEntry DEF LruGood
<1>3. SetList(insertNode(IF Full THEN removeNode(list, leastRecent) ELSE list, x))
  BY DEF addNewNode
<1>4. CASE ~Full
  <2>1. Evicted = {} /\ n + 1 <= Capacity
    BY <1>2, <1>4 DEF Evicted
  <2>2. IsList(insertNode(list, x), Extended(f, n, x), n + 1)
    BY <1>1, <1>2, <2>1, ListInserted
  <2>3. SetList(insertNode(list, x))
    BY <1>3, <1>4
  <2>4. IsList(list, Extended(f, n, x), n + 1)'
    BY <2>2, <2>3, ListSet
  <2>5. Between(Extended(f, n, x), n + 1) = Between(f, n) \union {x}
    BY <1>2, ExtendedBetween
  <2>6. LruGood(Extended(f, n, x), n + 1)'
    BY <1>1, <1>2, <2>1, <2>4, <2>5 DEF LruGood
  <2> QED BY <1>4, <2>6
<1>5. CASE Full
  <2>1. PICK m \in Nat : m = n - 1 /\ m + 1 = n
    BY <1>2, <1>5
  <2>2. 1 \in 1..n /\ leastRecent = f[1] /\ Evicted = {f[1]}
    BY <1>2, <1>5 DEF Evicted
  <2> DEFINE l == Unlinked(list, f[1])
             g == Dropped(f, n, 1)
  <2>3. IsList(l, g, m)
    <3>1. IsList(l, g, n - 1)
      BY <1>2, <2>2, ListRemoved
    <3> QED BY <2>1, <3>1
  <2>4. Between(g, m) = Mapped \ Evicted
    <3>1. Between(g, n - 1) = Between(f, n) \ {f[1]}
      BY <1>2, <2>2, DroppedBetween
    <3> QED BY <1>2, <2>1, <2>2, <3>1
  <2>5. removeNode(list, leastRecent) = l
    BY <2>2, RemovedIsUnlinked
  <2> HIDE DEF l, g
  <2>6. SetList(insertNode(l, x))
    BY <1>3, <1>5, <2>5
  <2>7. IsList(insertNode(l, x), Extended(g, m, x), m + 1)
    BY <1>1, <2>3, <2>4, ListInserted
  <2>8. IsList(list, Extended(g, m, x), m + 1)'
    BY <2>6, <2>7, ListSet
  <2>9. Between(Extended(g, m, x), m + 1) = Between(g, m) \union {x}
    BY ExtendedBetween
  <2>10. LruGood(Extended(g, m, x), m + 1)'
    BY <1>1, <1>2, <2>1, <2>4, <2>8, <2>9 DEF LruGood
  <2>11. LruGood(Extended(Dropped(f, n, 1), n - 1, x), n)'
    BY <2>1, <2>10 DEF g
  <2> QED BY <1>5, <2>11
<1> QED BY <1>4, <1>5

LEMMA LruHolds ==
  ASSUME NEW f, NEW n, LruGood(f, n)'
  PROVE  LruInv'
BY DEF LruInv, LruGood, IsList

LEMMA LruStays == LruInv /\ UNCHANGED lruVars => LruInv'
<1> SUFFICES ASSUME LruInv, UNCHANGED lruVars PROVE LruInv'
  OBVIOUS
<1>1. PICK n, f : LruGood(f, n)
  BY DEF LruInv
<1>2. UNCHANGED <<next, prev, keyOf, valueOf, nodeMap>>
  BY DEF lruVars
<1>3. list' = list /\ Mapped' = Mapped /\ MapTyped'
  BY <1>1, <1>2 DEF list, Mapped, LruGood, MapTyped
<1>4. IsList(list', f, n)
  BY <1>1, <1>3 DEF LruGood
<1>5. LruGood(f, n)'
  BY <1>1, <1>3, <1>4 DEF LruGood
<1> QED BY <1>5, LruHolds

LEMMA GetKeepsLru ==
  ASSUME LruInv, NEW k \in Keys, get(k)
  PROVE  LruInv' /\ UNCHANGED <<keyOf, valueOf, nodeMap>>
<1>1. PICK n, f : LruGood(f, n)
  BY DEF LruInv
<1>2. PICK i \in 1..n : LruGood(Used(f, n, i), n)'
  BY <1>1, GetKeeps
<1> QED BY <1>2, LruHolds DEF get

\* What is in the cache after put() was put there, or was there before.
LEMMA PutKeepsLru ==
  ASSUME LruInv, NEW k \in Keys, NEW v \in Values, put(k, v)
  PROVE  /\ LruInv'
         /\ \A j \in Keys : nodeMap'[j] # Null =>
              \/ j = k /\ valueOf'[nodeMap'[j]] = v
              \/ nodeMap[j] # Null /\ valueOf'[nodeMap'[j]] = valueOf[nodeMap[j]]
<1>1. PICK n, f : LruGood(f, n)
  BY DEF LruInv
<1>2. MapTyped
  BY <1>1 DEF LruGood
<1>3. CASE updateExistingNode(k, v)
  <2>1. PICK i \in 1..n : LruGood(Used(f, n, i), n)'
    BY <1>1, <1>3, UpdateKeeps
  <2>2. /\ nodeMap[k] # Null /\ nodeMap' = nodeMap
        /\ valueOf' = [valueOf EXCEPT ![nodeMap[k]] = v]
    BY <1>3 DEF updateExistingNode
  <2>3. \A j \in Keys : nodeMap[j] # Null => nodeMap[j] \in Nodes /\ (j # k => nodeMap[j] # nodeMap[k])
    BY <1>2 DEF MapTyped
  <2>4. ASSUME NEW j \in Keys, nodeMap'[j] # Null
        PROVE  \/ j = k /\ valueOf'[nodeMap'[j]] = v
               \/ nodeMap[j] # Null /\ valueOf'[nodeMap'[j]] = valueOf[nodeMap[j]]
    <3>1. valueOf \in [Nodes -> Values \union {NoValue}]
      BY <1>2 DEF MapTyped
    <3> QED BY <2>2, <2>3, <2>4, <3>1
  <2> QED BY <2>1, <2>4, LruHolds
<1>4. CASE Capacity > 0 /\ addNewNode(k, v)
  <2>1. LruInv'
    BY <1>1, <1>4, AddKeeps, LruHolds
  <2>2. PICK x \in Nodes :
          /\ x \notin Mapped \ Evicted
          /\ \A y \in Nodes : valueOf'[y] = IF y = x THEN v
                                            ELSE IF y \in Evicted THEN NoValue ELSE valueOf[y]
          /\ \A j \in Keys : nodeMap'[j] = IF j = k THEN x
                                           ELSE IF nodeMap[j] \in Evicted THEN Null ELSE nodeMap[j]
    BY <1>1, <1>4, EntryAdded
  <2>3. ASSUME NEW j \in Keys, nodeMap'[j] # Null
        PROVE  \/ j = k /\ valueOf'[nodeMap'[j]] = v
               \/ nodeMap[j] # Null /\ valueOf'[nodeMap'[j]] = valueOf[nodeMap[j]]
    <3>1. CASE j = k
      BY <2>2, <3>1
    <3>2. CASE j # k
      <4>1. nodeMap'[j] = nodeMap[j] /\ nodeMap[j] \notin Evicted /\ nodeMap[j] # Null
        BY <2>2, <2>3, <3>2
      <4>2. nodeMap[j] \in Nodes /\ nodeMap[j] \in Mapped
        BY <1>2, <4>1, MapLooksUp
      <4> QED BY <2>2, <4>1, <4>2
    <3> QED BY <3>1, <3>2
  <2> QED BY <2>1, <2>3
<1>5. CASE Capacity = 0 /\ UNCHANGED lruVars
  BY <1>5, LruStays DEF lruVars
<1> QED BY <1>3, <1>4, <1>5 DEF put

\* The walk finds the nodes of the map.
LEMMA WalkIsList ==
  ASSUME NEW f, NEW n, LruGood(f, n)
  PROVE  Walk = [i \in 1..n |-> f[i]]
<1>1. IsList(list, f, n) /\ n \in Nat /\ n <= Capacity /\ list.next = next
  BY DEF LruGood, IsList, list
<1>2. Capacity \in Nat /\ Capacity <= Cardinality(Nodes) /\ Cardinality(Nodes) \in Nat
  BY LruAssumption, FS_CardinalityType
<1>3. n <= Cardinality(Nodes)
  BY <1>1, <1>2
<1>4. Walked(list.next) = [i \in 1..n |-> f[i]]
  BY <1>1, <1>3, WalkedList
<1> QED BY <1>1, <1>4, WalkIsWalked

LEMMA LruMatches == LruInv => ListMatchesMap
<1> SUFFICES ASSUME LruInv PROVE ListMatchesMap
  OBVIOUS
<1>1. PICK n, f : LruGood(f, n)
  BY DEF LruInv
<1>2. /\ IsList(list, f, n) /\ Mapped = Between(f, n) /\ n <= Capacity /\ MapTyped
      /\ Cardinality(Between(f, n)) = n
      /\ n \in Nat
  BY <1>1, NodesCounted DEF LruGood, IsList
<1>3. Len(Walk) = Cardinality(Mapped) /\ Range(Walk) = Mapped
  <2>1. Walk = [i \in 1..n |-> f[i]]
    BY <1>1, WalkIsList
  <2>2. Len(Walk) = n
    BY <1>2, <2>1
  <2>3. Range(Walk) = Between(f, n)
    BY <2>1 DEF Range, Between
  <2> QED BY <1>2, <2>2, <2>3
<1>4. ASSUME NEW x \in Mapped \union {DummyHead} PROVE next[x] \in Linked /\ prev[next[x]] = x
  <2>1. PICK i \in 0..n : x = f[i]
    <3>1. 0 \in 0..n /\ f[0] = DummyHead /\ \A i \in 1..n : i \in 0..n
      BY <1>2 DEF IsList
    <3> QED BY <1>2, <3>1 DEF Between
  <2>2. i + 1 \in 0..n + 1
    BY <1>2
  <2>3. next[f[i]] = f[i + 1] /\ prev[f[i + 1]] = f[i]
    BY <1>2 DEF IsList, list
  <2> QED BY <1>2, <2>1, <2>2, <2>3, NodesBetween
<1> QED BY <1>2, <1>3, <1>4 DEF ListMatchesMap, MapTyped

-----------------------------------------------------------------------------
(* Requests: what a thread has in hand, and what it finds in the cache.    *)
ResponseType == [made : Int, target : Targets \union {Null}, version : Int, expires : Int]
Steps == {"idle", "handle", "pack", "store", "hit"}

Unpacked(x) == {[made |-> 0, target |-> x, version |-> v, expires |-> 0] : v \in 0..version}

Clocks == now \in 0..MaxTime /\ version \in 0..MaxVersion

InHand(t) == \/ pc[t] = "idle" /\ target[t] = Null /\ response[t] = None
             \/ pc[t] = "handle" /\ target[t] \in Targets /\ response[t] = None
             \/ pc[t] = "pack" /\ target[t] \in Keys /\ response[t] \in Unpacked(target[t])
             \/ /\ pc[t] \in {"store", "hit"}
                /\ target[t] \in Keys /\ response[t] \in Made(target[t], now, version)

Requests == /\ pc \in [Threads -> Steps]
            /\ target \in [Threads -> Targets \union {Null}]
            /\ response \in [Threads -> ResponseType]
            /\ \A t \in Threads : InHand(t)

Entries == \A k \in Keys : nodeMap[k] # Null => valueOf[nodeMap[k]] \in Made(k, now, version)

Inv == LruInv /\ Clocks /\ Requests /\ Entries

LEMMA MadeResponse ==
  ASSUME NEW x \in Keys, NEW a \in 0..MaxTime, NEW b \in 0..MaxVersion, NEW r \in Made(x, a, b)
  PROVE  /\ r \in ResponseType /\ r \in Values
         /\ r.target = x /\ r.version \in 0..b /\ r.made \in 0..a
         /\ r.expires = r.made + Ttl(x) /\ Ttl(x) \in Int
         /\ \A c \in Nat, d \in Nat : a <= c /\ b <= d => r \in Made(x, c, d)
<1>1. PICK m \in 0..a, v \in 0..b :
        r = [made |-> m, target |-> x, version |-> v, expires |-> m + Ttl(x)]
  BY DEF Made
<1>2. /\ x \in Targets /\ Ttl(x) \in Int /\ MaxTime \in Nat /\ MaxVersion \in Nat
      /\ a \in Nat /\ b \in Nat /\ a <= MaxTime /\ b <= MaxVersion
  BY KeysAssumption, RouteAssumption
<1>3. ASSUME NEW c \in Nat, NEW d \in Nat, a <= c, b <= d PROVE r \in Made(x, c, d)
  <2>1. m \in 0..c /\ v \in 0..d
    BY <1>2, <1>3
  <2> QED BY <1>1, <2>1 DEF Made
<1>4. r \in Values
  <2>1. r \in Made(x, MaxTime, MaxVersion)
    BY <1>2, <1>3
  <2> QED BY <2>1, ValuesAssumption
<1>5. r \in ResponseType
  <2>1. m \in Int /\ v \in Int /\ m + Ttl(x) \in Int
    BY <1>2
  <2> QED BY <1>1, <1>2, <2>1 DEF ResponseType
<1> QED BY <1>1, <1>2, <1>3, <1>4, <1>5

\* The response of a handler, before and after it is packed.
LEMMA HandledResponse ==
  ASSUME NEW x, NEW v
  PROVE  [None EXCEPT !.target = x, !.version = v]
           = [made |-> 0, target |-> x, version |-> v, expires |-> 0]
<1> DEFINE r == [None EXCEPT !.target = x]
<1>1. /\ r.made = 0 /\ r.target = x /\ r.version = 0 /\ r.expires = 0
      /\ r = [made |-> r.made, target |-> r.target, version |-> r.version, expires |-> r.expires]
  BY DEF None
<1>2. [None EXCEPT !.target = x, !.version = v] = [r EXCEPT !.version = v]
  OBVIOUS
<1> HIDE DEF r
<1> DEFINE q == [r EXCEPT !.version = v]
<1>3. /\ q.made = 0 /\ q.target = x /\ q.version = v /\ q.expires = 0
      /\ q = [made |-> q.made, target |-> q.target, version |-> q.version, expires |-> q.expires]
  BY <1>1
<1>4. [None EXCEPT !.target = x, !.version = v] = q
  BY <1>2
<1> HIDE DEF q
<1>5. q = [made |-> 0, target |-> x, version |-> v, expires |-> 0]
  BY <1>3
<1> QED BY <1>4, <1>5, Zenon

Packed(r, m, e) == [r EXCEPT !.made = m, !.expires = e]

LEMMA PackedResponse ==
  ASSUME NEW x, NEW v, NEW m, NEW e, NEW r,
         r = [made |-> 0, target |-> x, version |-> v, expires |-> 0]
  PROVE  Packed(r, m, e) = [made |-> m, target |-> x, version |-> v, expires |-> e]
<1> DEFINE s == [r EXCEPT !.made = m]
<1>1. /\ s.made = m /\ s.target = x /\ s.version = v /\ s.expires = 0
      /\ s = [made |-> s.made, target |-> s.target, version |-> s.version, expires |-> s.expires]
  OBVIOUS
<1>2. [r EXCEPT !.made = m, !.expires = e] = [s EXCEPT !.expires = e]
  OBVIOUS
<1> HIDE DEF s
<1> DEFINE q == [s EXCEPT !.expires = e]
<1>3. /\ q.made = m /\ q.target = x /\ q.version = v /\ q.expires = e
      /\ q = [made |-> q.made, target |-> q.target, version |-> q.version, expires |-> q.expires]
  BY <1>1
<1>4. Packed(r, m, e) = q
  BY <1>2 DEF Packed
<1> HIDE DEF q
<1>5. q = [made |-> m, target |-> x, version |-> v, expires |-> e]
  BY <1>3
<1> QED BY <1>4, <1>5, Zenon

LEMMA NoneTyped == None \in ResponseType
BY DEF None, ResponseType

\* Time and change make nothing false.
LEMMA EntriesStay ==
  ASSUME Inv, now' \in 0..MaxTime, version' \in 0..MaxVersion, now <= now', version <= version',
         NEW x \in Keys, NEW r \in Made(x, now, version)
  PROVE  r \in Made(x, now', version')
BY MadeResponse, RouteAssumption DEF Inv, Clocks

LEMMA LaterKeeps ==
  ASSUME Inv, now' \in 0..MaxTime, version' \in 0..MaxVersion, now <= now', version <= version',
         UNCHANGED <<lruVars, pc, target, response>>
  PROVE  Inv'
<1>1. LruInv' /\ UNCHANGED <<valueOf, nodeMap>>
  BY LruStays DEF Inv, lruVars
<1>2. Entries'
  BY <1>1, EntriesStay DEF Inv, Entries
<1>3. ASSUME NEW t \in Threads PROVE InHand(t)'
  <2>1. InHand(t)
    BY DEF Inv, Requests
  <2>2. CASE pc[t] = "pack" /\ target[t] \in Keys /\ response[t] \in Unpacked(target[t])
    <3>1. \A v \in 0..version : v \in 0..version'
      BY RouteAssumption DEF Inv, Clocks
    <3>2. response[t] \in Unpacked(target[t])'
      BY <2>2, <3>1 DEF Unpacked
    <3> QED BY <2>2, <3>2 DEF InHand
  <2>3. CASE /\ pc[t] \in {"store", "hit"}
             /\ target[t] \in Keys /\ response[t] \in Made(target[t], now, version)
    BY <2>3, EntriesStay DEF InHand
  <2>4. CASE pc[t] \in {"idle", "handle"}
    BY <2>1, <2>4 DEF InHand
  <2> QED BY <2>1, <2>2, <2>3, <2>4 DEF InHand
<1>4. Requests'
  BY <1>3 DEF Inv, Requests
<1> QED BY <1>1, <1>2, <1>4 DEF Inv, Clocks

\* A step of one thread is judged by what that thread has in hand afterwards.
LEMMA OneThread ==
  ASSUME Inv, UNCHANGED <<now, version>>, LruInv', Entries',
         NEW t \in Threads, NEW s \in Steps, NEW x \in Targets \union {Null}, NEW r \in ResponseType,
         pc' = [pc EXCEPT ![t] = s], target' = [target EXCEPT ![t] = x],
         response' = [response EXCEPT ![t] = r],
         InHand(t)'
  PROVE  Inv'
<1>1. /\ pc \in [Threads -> Steps] /\ target \in [Threads -> Targets \union {Null}]
      /\ response \in [Threads -> ResponseType]
  BY DEF Inv, Requests
<1>2. ASSUME NEW u \in Threads PROVE InHand(u)'
  <2>1. CASE u # t
    <3>1. pc'[u] = pc[u] /\ target'[u] = target[u] /\ response'[u] = response[u]
      BY <1>1, <2>1
    <3>2. InHand(u)
      BY DEF Inv, Requests
    <3> QED BY <3>1, <3>2 DEF InHand, Unpacked
  <2> QED BY <2>1
<1>3. Requests'
  BY <1>1, <1>2 DEF Requests
<1> QED BY <1>3 DEF Inv, Clocks

-----------------------------------------------------------------------------
(* The steps of a request.                                                 *)
LEMMA Placed ==
  ASSUME Inv, NEW t \in Threads
  PROVE  /\ target = [target EXCEPT ![t] = target[t]] /\ response = [response EXCEPT ![t] = response[t]]
         /\ target[t] \in Targets \union {Null} /\ response[t] \in ResponseType /\ InHand(t)
         /\ \A s, x, r : /\ [pc EXCEPT ![t] = s][t] = s /\ [target EXCEPT ![t] = x][t] = x
                         /\ [response EXCEPT ![t] = r][t] = r
BY DEF Inv, Requests

LEMMA CachedKeys == \A x \in Targets : Cached(x) <=> x \in Keys
BY KeysAssumption

LEMMA ReturnKeeps ==
  ASSUME Inv, UNCHANGED <<now, version>>, LruInv', Entries', NEW t \in Threads, Return(t)
  PROVE  Inv'
<1>1. /\ pc' = [pc EXCEPT ![t] = "idle"] /\ target' = [target EXCEPT ![t] = Null]
      /\ response' = [response EXCEPT ![t] = None]
  BY DEF Return, Goto
<1>2. InHand(t)'
  BY <1>1, Placed DEF InHand
<1>3. "idle" \in Steps
  BY DEF Steps
<1> QED BY <1>1, <1>2, <1>3, NoneTyped, OneThread

LEMMA EntriesUnchanged ==
  ASSUME Entries, UNCHANGED <<nodeMap, valueOf, now, version>>
  PROVE  Entries'
BY DEF Entries

\* A hit is as old as the time to live allows, when it is taken.
LEMMA HitFresh ==
  ASSUME Inv, NEW t \in Threads, NEW x \in Targets, Hit(t, x)
  PROVE  /\ x \in Keys /\ nodeMap[x] # Null /\ valueOf[nodeMap[x]] \in Made(x, now, version)
         /\ ~isExpired(valueOf[nodeMap[x]]) => now - valueOf[nodeMap[x]].made <= Ttl(x)
<1>1. x \in Keys /\ nodeMap[x] # Null /\ valueOf[nodeMap[x]] \in Made(x, now, version)
  BY CachedKeys DEF Hit, get, Inv, Entries
<1> DEFINE r == valueOf[nodeMap[x]]
<1>2. r.expires = r.made + Ttl(x) /\ Ttl(x) \in Int /\ r.made \in 0..now /\ now \in 0..MaxTime
  BY <1>1, MadeResponse DEF Inv, Clocks
<1> HIDE DEF r
<1>3. MaxTime \in Nat
  BY RouteAssumption
<1>4. ~isExpired(r) => now - r.made <= Ttl(x)
  BY <1>2, <1>3 DEF isExpired
<1> QED BY <1>1, <1>4 DEF r

LEMMA HitKeeps ==
  ASSUME Inv, NEW t \in Threads, NEW x \in Targets, pc[t] = "idle", Hit(t, x), UNCHANGED <<now, version>>
  PROVE  Inv'
<1>1. x \in Keys /\ nodeMap[x] # Null /\ valueOf[nodeMap[x]] \in Made(x, now, version)
  BY HitFresh
<1>2. LruInv' /\ UNCHANGED <<keyOf, valueOf, nodeMap>>
  BY <1>1, GetKeepsLru DEF Hit, Inv
<1>3. Entries'
  BY <1>2, EntriesUnchanged DEF Inv
<1>4. target' = [target EXCEPT ![t] = x]
  BY DEF Hit
<1> DEFINE found == valueOf[nodeMap[x]]
<1>5. CASE response' = [response EXCEPT ![t] = found] /\ Goto(t, "hit")
  <2>1. found \in ResponseType
    BY <1>1, MadeResponse DEF Inv, Clocks
  <2>2. pc'[t] = "hit" /\ target'[t] = x /\ response'[t] = found
    BY <1>4, <1>5, Placed DEF Goto
  <2>3. InHand(t)'
    BY <1>1, <2>2 DEF InHand
  <2>4. "hit" \in Steps
    BY DEF Steps
  <2> HIDE DEF found
  <2> QED BY <1>2, <1>3, <1>4, <1>5, <2>1, <2>3, <2>4, OneThread DEF Goto
<1>6. CASE Goto(t, "handle") /\ UNCHANGED response
  <2>1. pc'[t] = "handle" /\ target'[t] = x /\ response'[t] = None
    BY <1>4, <1>6, Placed DEF Goto, InHand
  <2>2. InHand(t)' /\ "handle" \in Steps
    BY <2>1 DEF InHand, Steps
  <2>3. response' = [response EXCEPT ![t] = response[t]]
    BY <1>6, Placed
  <2> QED BY <1>2, <1>3, <1>4, <1>6, <2>2, <2>3, Placed, OneThread DEF Goto
<1> QED BY <1>5, <1>6 DEF Hit

LEMMA MissKeeps ==
  ASSUME Inv, NEW t \in Threads, NEW x \in Targets, pc[t] = "idle", Miss(t, x), UNCHANGED <<now, version>>
  PROVE  Inv'
<1>1. /\ target' = [target EXCEPT ![t] = x] /\ pc' = [pc EXCEPT ![t] = "handle"]
      /\ UNCHANGED <<lruVars, response>>
  BY DEF Miss, Goto
<1>2. LruInv' /\ Entries'
  BY <1>1, LruStays, EntriesUnchanged DEF Inv, lruVars
<1>3. pc'[t] = "handle" /\ target'[t] = x /\ response'[t] = None
  BY <1>1, Placed DEF InHand
<1>4. InHand(t)' /\ "handle" \in Steps
  BY <1>3 DEF InHand, Steps
<1>5. response' = [response EXCEPT ![t] = response[t]]
  BY <1>1, Placed
<1> QED BY <1>1, <1>2, <1>4, <1>5, Placed, OneThread

LEMMA ApplyToKeeps ==
  ASSUME Inv, NEW t \in Threads, ApplyTo(t)
  PROVE  Inv'
<1>1. Return(t) /\ UNCHANGED <<lruVars, now, version>>
  BY DEF ApplyTo
<1>2. LruInv' /\ Entries'
  BY <1>1, LruStays, EntriesUnchanged DEF Inv, lruVars
<1> QED BY <1>1, <1>2, ReturnKeeps

LEMMA HandleKeeps ==
  ASSUME Inv, NEW t \in Threads, Handle(t)
  PROVE  Inv'
<1>1. pc[t] = "handle" /\ UNCHANGED <<lruVars, now, version>>
  BY DEF Handle
<1>2. LruInv' /\ Entries'
  BY <1>1, LruStays, EntriesUnchanged DEF Inv, lruVars
<1>3. target[t] \in Targets
  BY <1>1, Placed DEF InHand
<1>4. CASE ~Cached(target[t]) /\ Return(t)
  BY <1>1, <1>2, <1>4, ReturnKeeps
<1> DEFINE r == [None EXCEPT !.target = target[t], !.version = version]
<1>5. CASE /\ Cached(target[t]) /\ response' = [response EXCEPT ![t] = r]
           /\ Goto(t, "pack") /\ UNCHANGED target
  <2>1. target[t] \in Keys
    BY <1>3, <1>5, CachedKeys
  <2>2. r = [made |-> 0, target |-> target[t], version |-> version, expires |-> 0]
    BY HandledResponse
  <2> HIDE DEF r
  <2>3. version \in 0..version /\ version \in Int
    BY RouteAssumption DEF Inv, Clocks
  <2>4. r \in Unpacked(target[t]) /\ r \in ResponseType
    BY <1>3, <2>2, <2>3 DEF Unpacked, ResponseType
  <2>5. pc'[t] = "pack" /\ target'[t] = target[t] /\ response'[t] = r
    BY <1>5, Placed DEF Goto
  <2>6. InHand(t)' /\ "pack" \in Steps
    BY <1>1, <2>1, <2>4, <2>5 DEF InHand, Unpacked, Steps
  <2>7. target' = [target EXCEPT ![t] = target[t]]
    BY <1>5, Placed
  <2> QED BY <1>1, <1>2, <1>5, <2>4, <2>6, <2>7, Placed, OneThread DEF Goto
<1> QED BY <1>4, <1>5 DEF Handle

LEMMA PackKeeps ==
  ASSUME Inv, NEW t \in Threads, Pack(t)
  PROVE  Inv'
<1>1. /\ pc[t] = "pack" /\ pc' = [pc EXCEPT ![t] = "store"] /\ UNCHANGED <<lruVars, now, version, target>>
      /\ response' = [response EXCEPT ![t].made = now, ![t].expires = now + Ttl(target[t])]
  BY DEF Pack, Goto
<1>2. LruInv' /\ Entries'
  BY <1>1, LruStays, EntriesUnchanged DEF Inv, lruVars
<1>3. PICK v \in 0..version :
        response[t] = [made |-> 0, target |-> target[t], version |-> v, expires |-> 0]
  BY <1>1, Placed DEF InHand, Unpacked
<1> DEFINE r == [made |-> now, target |-> target[t], version |-> v, expires |-> now + Ttl(target[t])]
<1>4. response' = [response EXCEPT ![t] = r]
  <2>1. response' = [response EXCEPT ![t] = Packed(response[t], now, now + Ttl(target[t]))]
    BY <1>1 DEF Inv, Requests, Packed
  <2>2. Packed(response[t], now, now + Ttl(target[t])) = r
    BY <1>3, PackedResponse
  <2> HIDE DEF r
  <2> QED BY <2>1, <2>2
<1>5. target[t] \in Keys
  BY <1>1, Placed DEF InHand
<1>6. now \in 0..now /\ now \in 0..MaxTime /\ version \in 0..MaxVersion
  BY RouteAssumption DEF Inv, Clocks
<1>7. r \in Made(target[t], now, version)
  BY <1>6 DEF Made
<1>8. r \in ResponseType
  BY <1>5, <1>6, <1>7, MadeResponse
<1> HIDE DEF r
<1>9. pc'[t] = "store" /\ target'[t] = target[t] /\ response'[t] = r
  BY <1>1, <1>4, Placed
<1>10. InHand(t)' /\ "store" \in Steps
  BY <1>1, <1>5, <1>7, <1>9 DEF InHand, Steps
<1>11. target' = [target EXCEPT ![t] = target[t]]
  BY <1>1, Placed
<1> QED BY <1>1, <1>2, <1>4, <1>8, <1>10, <1>11, Placed, OneThread

LEMMA StoreKeeps ==
  ASSUME Inv, NEW t \in Threads, Store(t)
  PROVE  Inv'
<1>1. pc[t] = "store" /\ put(target[t], response[t]) /\ Return(t) /\ UNCHANGED <<now, version>>
  BY DEF Store
<1>2. target[t] \in Keys /\ response[t] \in Made(target[t], now, version)
  BY <1>1, Placed DEF InHand
<1>3. response[t] \in Values
  BY <1>2, MadeResponse DEF Inv, Clocks
<1>4. /\ LruInv'
      /\ \A j \in Keys : nodeMap'[j] # Null =>
           \/ j = target[t] /\ valueOf'[nodeMap'[j]] = response[t]
           \/ nodeMap[j] # Null /\ valueOf'[nodeMap'[j]] = valueOf[nodeMap[j]]
  BY <1>1, <1>2, <1>3, PutKeepsLru DEF Inv
<1>5. Entries'
  BY <1>1, <1>2, <1>4 DEF Inv, Entries
<1> QED BY <1>1, <1>4, <1>5, ReturnKeeps

-----------------------------------------------------------------------------
(* The invariant.                                                          *)
LEMMA InitLru == LruInit => LruInv
<1> SUFFICES ASSUME LruInit PROVE LruInv
  OBVIOUS
<1> DEFINE f == [i \in 0..0 + 1 |-> IF i = 0 THEN DummyHead ELSE DummyTail]
<1>1. /\ next \in [Linked -> Linked \union {Null}] /\ prev \in [Linked -> Linked \union {Null}]
      /\ next[DummyHead] = DummyTail /\ prev[DummyTail] = DummyHead
  BY DummiesApart DEF LruInit
<1>2. f[0] = DummyHead /\ f[0 + 1] = DummyTail /\ f \in [0..0 + 1 -> Linked]
  BY DummiesApart
<1>3. \A i \in 0..0 + 1 : i = 0 \/ i = 0 + 1
  OBVIOUS
<1> HIDE DEF f
<1>4. \A i, j \in 0..0 + 1 : f[i] = f[j] => i = j
  BY <1>2, <1>3, DummiesApart
<1>5. \A i \in 0..0 : list.next[f[i]] = f[i + 1] /\ list.prev[f[i + 1]] = f[i]
  <2>1. \A i \in 0..0 : i = 0
    OBVIOUS
  <2> QED BY <1>1, <1>2, <2>1 DEF list
<1>6. IsList(list, f, 0)
  <2>1. 1..0 = {} /\ 0 \in Nat
    OBVIOUS
  <2>2. list = [next |-> list.next, prev |-> list.prev] /\ list.next = next /\ list.prev = prev
    BY DEF list
  <2> QED BY <1>1, <1>2, <1>4, <1>5, <2>1, <2>2 DEF IsList
<1>7. MapTyped
  BY DEF LruInit, MapTyped
<1>8. Mapped = Between(f, 0)
  <2>1. Mapped = {}
    BY DEF Mapped, LruInit
  <2>2. 1..0 = {}
    OBVIOUS
  <2> QED BY <2>1, <2>2 DEF Between
<1>9. 0 <= Capacity /\ 0 \in Nat
  BY LruAssumption
<1>10. LruGood(f, 0)
  BY <1>6, <1>7, <1>8, <1>9 DEF LruGood
<1> QED BY <1>2, <1>9, <1>10 DEF LruInv

LEMMA InitInv == Init => Inv
<1> SUFFICES ASSUME Init PROVE Inv
  OBVIOUS
<1>1. LruInv
  BY InitLru DEF Init
<1>2. Clocks
  BY RouteAssumption DEF Init, Clocks
<1>3. Requests
  BY NoneTyped DEF Init, Requests, InHand, Steps
<1>4. Entries
  BY DEF Init, LruInit, Entries
<1> QED BY <1>1, <1>2, <1>3, <1>4 DEF Inv

LEMMA NextInv == Inv /\ [Next]_vars => Inv'
<1> SUFFICES ASSUME Inv, [Next]_vars PROVE Inv'
  OBVIOUS
<1>1. CASE Tick
  BY <1>1, LaterKeeps, RouteAssumption DEF Tick, Inv, Clocks
<1>2. CASE Change
  BY <1>2, LaterKeeps, RouteAssumption DEF Change, Inv, Clocks
<1>3. ASSUME NEW t \in Threads, NEW x \in Targets, Route(t, x) PROVE Inv'
  BY <1>3, HitKeeps, MissKeeps DEF Route
<1>4. CASE UNCHANGED vars
  BY <1>4, LaterKeeps, RouteAssumption DEF vars, Inv, Clocks
<1> QED BY <1>1, <1>2, <1>3, <1>4, ApplyToKeeps, HandleKeeps, PackKeeps, StoreKeeps DEF Next

LEMMA Invariant == Spec => []Inv
BY InitInv, NextInv, PTL DEF Spec

(* Every variable keeps its type, and a thread has in hand a response for  *)
(* its own target only, as has the cache under each key (Router::route).   *)
THEOREM TypeCorrect == Spec => []TypeOK
<1>1. Inv => TypeOK
  <2> SUFFICES ASSUME Inv PROVE TypeOK
    OBVIOUS
  <2>1. now \in 0..MaxTime /\ version \in 0..MaxVersion /\ version \in Nat
    BY RouteAssumption DEF Inv, Clocks
  <2>2. ASSUME NEW t \in Threads
        PROVE  response[t].target \in {target[t], Null} /\ response[t].version <= version
    <3>1. InHand(t)
      BY DEF Inv, Requests
    <3>2. CASE response[t] = None
      BY <2>1, <3>2 DEF None
    <3>3. CASE response[t] \in Unpacked(target[t])
      BY <2>1, <3>3 DEF Unpacked
    <3>4. CASE target[t] \in Keys /\ response[t] \in Made(target[t], now, version)
      BY <2>1, <3>4, MadeResponse
    <3> QED BY <3>1, <3>2, <3>3, <3>4 DEF InHand
  <2>3. ASSUME NEW k \in Keys, nodeMap[k] # Null PROVE valueOf[nodeMap[k]].target = k
    BY <2>1, <2>3, MadeResponse DEF Inv, Entries
  <2> QED BY <2>1, <2>2, <2>3 DEF TypeOK, Inv, Requests, Steps
<1> QED BY Invariant, <1>1, PTL

(* Map and list of the cache agree after every operation of every thread   *)
(* (KLruCache::put, get, moveToMostRecent, evictLeastRecent).              *)
THEOREM ListAndMapAgree == Spec => []ListMatchesMap
<1>1. Inv => ListMatchesMap
  BY LruMatches DEF Inv
<1> QED BY Invariant, <1>1, PTL

(* A response from the cache is for the target that was asked for and no   *)
(* older than its time to live, at the step that takes it from the cache   *)
(* (CachedResponse::isExpired).                                            *)
THEOREM HitsAreFresh == Spec => ServedFresh
<1> DEFINE Fresh == \A t \in Threads : pc[t] # "hit" /\ pc'[t] = "hit" =>
                      /\ Cached(target'[t])
                      /\ response'[t].target = target'[t]
                      /\ now - response'[t].made <= Ttl(target'[t])
<1>1. Inv /\ [Next]_vars => [Fresh]_vars
  <2> SUFFICES ASSUME Inv, Next, NEW t \in Threads, pc[t] # "hit", pc'[t] = "hit"
               PROVE  /\ Cached(target'[t])
                      /\ response'[t].target = target'[t]
                      /\ now - response'[t].made <= Ttl(target'[t])
    OBVIOUS
  <2>1. ASSUME NEW u \in Threads, NEW s, s # "hit" PROVE pc' # [pc EXCEPT ![u] = s]
    BY <2>1 DEF Inv, Requests
  <2>2. UNCHANGED pc => FALSE
    OBVIOUS
  <2>3. ~Tick /\ ~Change
    BY <2>2 DEF Tick, Change
  <2>4. ASSUME NEW u \in Threads PROVE ~ApplyTo(u) /\ ~Handle(u) /\ ~Pack(u) /\ ~Store(u)
    BY <2>1 DEF ApplyTo, Handle, Pack, Store, Return, Goto
  <2>5. PICK u \in Threads, x \in Targets : Route(u, x)
    BY <2>3, <2>4 DEF Next
  <2>6. Hit(u, x) /\ Goto(u, "hit")
    BY <2>1, <2>5 DEF Route, Hit, Miss, Goto
  <2>7. u = t
    BY <2>6 DEF Goto, Inv, Requests
  <2> DEFINE found == valueOf[nodeMap[x]]
  <2>8. ~isExpired(found) /\ response' = [response EXCEPT ![t] = found] /\ target' = [target EXCEPT ![t] = x]
    BY <2>1, <2>6, <2>7 DEF Hit, Goto
  <2>9. target'[t] = x /\ response'[t] = found
    BY <2>8, Placed
  <2>10. x \in Keys /\ found \in Made(x, now, version) /\ now - found.made <= Ttl(x)
    BY <2>6, <2>8, HitFresh
  <2>11. found.target = x
    BY <2>10, MadeResponse DEF Inv, Clocks
  <2> HIDE DEF found
  <2> QED BY <2>9, <2>10, <2>11, CachedKeys
<1>2. ServedFresh <=> [][Fresh]_vars
  BY DEF ServedFresh
<1> HIDE DEF Fresh
<1> QED BY Invariant, <1>1, <1>2, PTL DEF Spec

-----------------------------------------------------------------------------
(* The refinement: the keys along the list are the sequence in order of use. *)
OrderBar == [i \in DOMAIN Walk |-> keyOf[Walk[i]]]
ValueBar == [k \in Keys |-> IF nodeMap[k] = Null THEN NoValue ELSE valueOf[nodeMap[k]]]

Keyed(f, n) == [i \in 1..n |-> keyOf[f[i]]]

LEMMA OrderIsKeyed ==
  ASSUME NEW f, NEW n
  PROVE  /\ LruGood(f, n) => OrderBar = Keyed(f, n)
         /\ LruGood(f, n)' => OrderBar' = Keyed(f, n)'
<1>1. ASSUME LruGood(f, n) PROVE OrderBar = Keyed(f, n)
  <2>1. Walk = [i \in 1..n |-> f[i]]
    BY <1>1, WalkIsList
  <2>2. DOMAIN Walk = 1..n /\ \A i \in 1..n : Walk[i] = f[i]
    BY <2>1
  <2> QED BY <2>2 DEF OrderBar, Keyed
<1>2. ASSUME LruGood(f, n)' PROVE OrderBar' = Keyed(f, n)'
  <2>1. IsList(list', f, n) /\ n \in Nat /\ n <= Capacity /\ list'.next = next'
    BY <1>2 DEF LruGood, IsList, list
  <2>2. Capacity \in Nat /\ Capacity <= Cardinality(Nodes) /\ Cardinality(Nodes) \in Nat
    BY LruAssumption, FS_CardinalityType
  <2>3. Walked(list'.next) = [i \in 1..n |-> f[i]]
    <3>1. PICK l : l = list'
      OBVIOUS
    <3>2. IsList(l, f, n) /\ n <= Cardinality(Nodes)
      BY <2>1, <2>2, <3>1
    <3>3. Walked(l.next) = [i \in 1..n |-> f[i]]
      BY <3>2, WalkedList
    <3> QED BY <3>1, <3>3
  <2>4. Walk' = Walked(next')
    BY DEF Walk, Walked, Follows
  <2>5. Walk' = [i \in 1..n |-> f[i]]
    BY <2>1, <2>3, <2>4
  <2>6. DOMAIN Walk' = 1..n /\ \A i \in 1..n : Walk'[i] = f[i]
    BY <2>5
  <2> QED BY <2>6 DEF OrderBar, Keyed
<1> QED BY <1>1, <1>2

LEMMA Appended ==
  ASSUME NEW m \in Nat, NEW w, w = [j \in 1..m |-> w[j]], NEW x
  PROVE  Append(w, x) = [j \in 1..m + 1 |-> IF j <= m THEN w[j] ELSE x]
OBVIOUS

\* A sequence of n without its i-th element.
Cut(s, n, i) == [j \in 1..n - 1 |-> IF j < i THEN s[j] ELSE s[j + 1]]

LEMMA HeadAndTail ==
  ASSUME NEW S, NEW m \in Nat, m > 0, NEW w \in [1..m -> S]
  PROVE  Head(w) = w[1] /\ Tail(w) = Cut(w, m, 1)
<1>1. w \in Seq(S) /\ Len(w) = m /\ w # <<>>
  <2>1. w \in Seq(S) /\ Len(w) = m
    OBVIOUS
  <2> QED BY <2>1, EmptySeq
<1>2. /\ Head(w) = w[1] /\ Tail(w) \in Seq(S) /\ Len(Tail(w)) = m - 1
      /\ \A j \in 1..Len(Tail(w)) : Tail(w)[j] = w[j + 1]
  BY <1>1, HeadTailProperties
<1>3. Tail(w) = [j \in 1..m - 1 |-> Tail(w)[j]]
  BY <1>2, LenProperties
<1>4. \A j \in 1..m - 1 : Tail(w)[j] = IF j < 1 THEN w[j] ELSE w[j + 1]
  <2>1. \A j \in 1..m - 1 : ~(j < 1)
    OBVIOUS
  <2> QED BY <1>2, <2>1
<1> QED BY <1>2, <1>3, <1>4 DEF Cut

\* The keys along the list: each once, and those of the entries.
LEMMA KeyedOnce ==
  ASSUME NEW f, NEW n, LruGood(f, n)
  PROVE  /\ n \in Nat /\ Keyed(f, n) \in [1..n -> Keys] /\ Len(Keyed(f, n)) = n
         /\ \A i \in 1..n : f[i] \in Mapped /\ Keyed(f, n)[i] = keyOf[f[i]] /\ nodeMap[keyOf[f[i]]] = f[i]
         /\ \A i, j \in 1..n : Keyed(f, n)[i] = Keyed(f, n)[j] => i = j
         /\ \A k \in Keys : nodeMap[k] # Null <=> \E i \in 1..n : Keyed(f, n)[i] = k
<1> DEFINE s == Keyed(f, n)
<1>1. n \in Nat /\ IsList(list, f, n) /\ MapTyped /\ Mapped = Between(f, n)
  BY DEF LruGood, IsList
<1>2. \A i \in 1..n : f[i] \in Mapped /\ s[i] = keyOf[f[i]]
  BY <1>1 DEF Between, Keyed
<1>3. \A i \in 1..n : keyOf[f[i]] \in Keys /\ nodeMap[keyOf[f[i]]] = f[i] /\ f[i] \in Nodes
  BY <1>1, <1>2, MappedNodes
<1>4. s \in [1..n -> Keys]
  BY <1>3 DEF Keyed
<1> HIDE DEF s
<1>5. Len(s) = n
  BY <1>1, <1>4
<1>6. ASSUME NEW i \in 1..n, NEW j \in 1..n, s[i] = s[j] PROVE i = j
  <2>1. f[i] = f[j]
    BY <1>2, <1>3, <1>6
  <2>2. i \in 0..n + 1 /\ j \in 0..n + 1
    BY <1>1
  <2> QED BY <1>1, <2>1, <2>2 DEF IsList
<1>7. ASSUME NEW k \in Keys PROVE nodeMap[k] # Null <=> \E i \in 1..n : s[i] = k
  <2>1. ASSUME nodeMap[k] # Null PROVE \E i \in 1..n : s[i] = k
    <3>1. nodeMap[k] \in Between(f, n) /\ keyOf[nodeMap[k]] = k
      BY <1>1, <2>1, MapLooksUp DEF MapTyped
    <3> QED BY <1>2, <3>1 DEF Between
  <2>2. ASSUME NEW i \in 1..n, s[i] = k PROVE nodeMap[k] # Null
    BY <1>2, <1>3, <2>2, DummiesApart
  <2> QED BY <2>1, <2>2
<1>8. /\ n \in Nat /\ s \in [1..n -> Keys] /\ Len(s) = n
      /\ \A i \in 1..n : f[i] \in Mapped /\ s[i] = keyOf[f[i]] /\ nodeMap[keyOf[f[i]]] = f[i]
      /\ \A i, j \in 1..n : s[i] = s[j] => i = j
      /\ \A k \in Keys : nodeMap[k] # Null <=> \E i \in 1..n : s[i] = k
  BY <1>1, <1>2, <1>3, <1>4, <1>5, <1>6, <1>7
<1> QED BY <1>8 DEF s

LEMMA WithoutOne ==
  ASSUME NEW n \in Nat, NEW s \in [1..n -> Keys], NEW i \in 1..n,
         \A p, q \in 1..n : s[p] = s[q] => p = q
  PROVE  Lru!Without(s, s[i]) = Cut(s, n, i)
<1>1. DOMAIN s = 1..n /\ Len(s) = n
  OBVIOUS
<1>2. (CHOOSE j \in DOMAIN s : s[j] = s[i]) = i
  BY <1>1
<1>3. s[i] \in {s[j] : j \in DOMAIN s}
  BY <1>1
<1> QED BY <1>1, <1>2, <1>3 DEF Lru!Without, Cut

LEMMA WithoutNone ==
  ASSUME NEW n \in Nat, NEW s \in [1..n -> Keys], NEW k, \A j \in 1..n : s[j] # k
  PROVE  Lru!Without(s, k) = s
<1>1. k \notin {s[j] : j \in DOMAIN s}
  OBVIOUS
<1> QED BY <1>1 DEF Lru!Without

\* A node that is used takes its key to the end of the sequence.
LEMMA UsedOrder ==
  ASSUME NEW f, NEW n, LruGood(f, n), NEW i \in 1..n, LruGood(Used(f, n, i), n)', keyOf' = keyOf
  PROVE  OrderBar' = Append(Lru!Without(OrderBar, keyOf[f[i]]), keyOf[f[i]])
<1> DEFINE s == Keyed(f, n)
           g == Used(f, n, i)
           w == Cut(s, n, i)
           k == keyOf[f[i]]
<1>1. /\ n \in Nat /\ s \in [1..n -> Keys] /\ s[i] = k
      /\ \A j \in 1..n : s[j] = keyOf[f[j]]
      /\ \A p, q \in 1..n : s[p] = s[q] => p = q
  BY KeyedOnce
<1>2. OrderBar = s /\ OrderBar' = [j \in 1..n |-> keyOf[g[j]]]
  <2>1. OrderBar = s
    BY OrderIsKeyed
  <2>2. OrderBar' = Keyed(g, n)'
    BY OrderIsKeyed
  <2> QED BY <2>1, <2>2 DEF Keyed
<1> HIDE DEF s
<1>3. Lru!Without(s, k) = w
  <2>1. Lru!Without(s, s[i]) = w
    BY <1>1, WithoutOne
  <2> HIDE DEF w, k
  <2> QED BY <1>1, <2>1, Zenon
<1>4. Append(w, k) = [j \in 1..n |-> IF j <= n - 1 THEN w[j] ELSE k]
  <2>1. PICK m \in Nat : m = n - 1 /\ m + 1 = n
    BY <1>1
  <2>2. w = [j \in 1..m |-> w[j]]
    BY <2>1 DEF Cut
  <2> HIDE DEF w, k
  <2>3. Append(w, k) = [j \in 1..m + 1 |-> IF j <= m THEN w[j] ELSE k]
    BY <2>2, Appended
  <2> QED BY <2>1, <2>3
<1>5. ASSUME NEW j \in 1..n PROVE keyOf[g[j]] = IF j <= n - 1 THEN w[j] ELSE k
  <2>1. /\ j \in 0..n - 1 + 2 /\ (j <= n - 1 => j \in 0..n /\ j \in 1..n - 1 /\ j + 1 \in 1..n)
        /\ (~(j <= n - 1) => j = n - 1 + 1)
    BY <1>1
  <2>2. g[j] = IF j <= n - 1 THEN Dropped(f, n, i)[j] ELSE IF j = n - 1 + 1 THEN f[i] ELSE DummyTail
    BY <2>1 DEF Used, Extended
  <2>3. CASE j <= n - 1
    <3>1. g[j] = IF j < i THEN f[j] ELSE f[j + 1]
      BY <2>1, <2>2, <2>3 DEF Dropped
    <3>2. w[j] = IF j < i THEN s[j] ELSE s[j + 1]
      BY <2>1, <2>3 DEF Cut
    <3> HIDE DEF w, g
    <3> QED BY <1>1, <2>1, <2>3, <3>1, <3>2
  <2>4. CASE ~(j <= n - 1)
    <3>1. g[j] = f[i]
      BY <2>1, <2>2, <2>4
    <3> HIDE DEF w, g
    <3> QED BY <2>4, <3>1
  <2> QED BY <2>3, <2>4
<1> HIDE DEF w, g
<1> QED BY <1>2, <1>3, <1>4, <1>5

\* A new entry takes its key to the end, and in a full cache the first key goes.
LEMMA AddedOrder ==
  ASSUME NEW f, NEW n, LruGood(f, n), Capacity > 0, NEW k \in Keys, NEW v \in Values, addNewNode(k, v)
  PROVE  /\ \A i \in DOMAIN OrderBar : OrderBar[i] # k
         /\ Full <=> Len(OrderBar) = Capacity
         /\ OrderBar' = Append(IF Full THEN Tail(OrderBar) ELSE Lru!Without(OrderBar, k), k)
         /\ Full => Head(OrderBar) = keyOf[leastRecent]
<1> DEFINE s == Keyed(f, n)
<1>1. /\ n \in Nat /\ s \in [1..n -> Keys] /\ Len(s) = n
      /\ \A j \in 1..n : f[j] \in Mapped /\ s[j] = keyOf[f[j]] /\ nodeMap[keyOf[f[j]]] = f[j]
      /\ \A j \in 1..n : s[j] # k
  BY KeyedOnce, EntryAdded
<1>2. OrderBar = s
  BY OrderIsKeyed
<1>3. PICK x : x = NewNode
  OBVIOUS
<1>4. /\ x \notin Mapped \ Evicted
      /\ \A y \in Nodes : keyOf'[y] = IF y = x THEN k ELSE IF y \in Evicted THEN Null ELSE keyOf[y]
      /\ x \in Nodes
  BY <1>3, EntryAdded
<1>5. /\ Full <=> n = Capacity
      /\ Full => 1 \in 1..n /\ leastRecent = f[1]
  BY NodeForNewEntry
<1>6. ASSUME NEW j \in 1..n, Full => j # 1 PROVE keyOf'[f[j]] = s[j]
  <2>1. f[j] \in Nodes /\ f[j] \notin Evicted
    <3>1. Full => f[j] # f[1]
      <4>1. j \in 0..n + 1 /\ 1 \in 0..n + 1
        BY <1>1
      <4> QED BY <1>6, <4>1 DEF LruGood, IsList
    <3> QED BY <1>1, <1>5, <3>1, MappedNodes DEF Evicted, LruGood
  <2>2. f[j] # x
    BY <1>1, <1>4, <2>1
  <2> QED BY <1>1, <1>4, <2>1, <2>2
<1>7. CASE ~Full
  <2> DEFINE g == Extended(f, n, x)
  <2>1. OrderBar' = [j \in 1..n + 1 |-> keyOf'[g[j]]]
    <3>1. LruGood(g, n + 1)'
      BY <1>3, <1>7, AddKeeps
    <3>2. OrderBar' = Keyed(g, n + 1)'
      BY <3>1, OrderIsKeyed
    <3> QED BY <3>2 DEF Keyed
  <2>2. ASSUME NEW j \in 1..n + 1 PROVE keyOf'[g[j]] = IF j <= n THEN s[j] ELSE k
    <3>1. j \in 0..n + 2 /\ (j <= n => j \in 1..n) /\ (~(j <= n) => j = n + 1)
      BY <1>1
    <3>2. g[j] = IF j <= n THEN f[j] ELSE x
      BY <3>1 DEF Extended
    <3> HIDE DEF s, g
    <3> QED BY <1>4, <1>6, <1>7, <3>1, <3>2
  <2> HIDE DEF s, g
  <2>3. Lru!Without(s, k) = s /\ s = [j \in 1..n |-> s[j]]
    BY <1>1, WithoutNone
  <2>4. Append(s, k) = [j \in 1..n + 1 |-> IF j <= n THEN s[j] ELSE k]
    BY <1>1, <2>3, Appended
  <2>5. OrderBar' = Append(s, k)
    BY <2>1, <2>2, <2>4
  <2> QED BY <1>1, <1>2, <1>5, <1>7, <2>3, <2>5
<1>8. CASE Full
  <2> DEFINE g == Extended(Dropped(f, n, 1), n - 1, x)
             w == Cut(s, n, 1)
  <2>1. OrderBar' = [j \in 1..n |-> keyOf'[g[j]]]
    <3>1. LruGood(g, n)'
      BY <1>3, <1>8, AddKeeps
    <3>2. OrderBar' = Keyed(g, n)'
      BY <3>1, OrderIsKeyed
    <3> QED BY <3>2 DEF Keyed
  <2>2. ASSUME NEW j \in 1..n PROVE keyOf'[g[j]] = IF j <= n - 1 THEN w[j] ELSE k
    <3>1. /\ j \in 0..n - 1 + 2 /\ (j <= n - 1 => j \in 0..n /\ j \in 1..n - 1 /\ j + 1 \in 1..n)
          /\ (~(j <= n - 1) => j = n - 1 + 1) /\ ~(j < 1) /\ j + 1 # 1
      BY <1>1
    <3>2. g[j] = IF j <= n - 1 THEN f[j + 1] ELSE x
      BY <3>1 DEF Extended, Dropped
    <3>3. j <= n - 1 => w[j] = s[j + 1]
      BY <3>1 DEF Cut
    <3> HIDE DEF s, g, w
    <3> QED BY <1>4, <1>6, <3>1, <3>2, <3>3
  <2> HIDE DEF s
  <2>3. Head(s) = s[1] /\ Tail(s) = w /\ s[1] = keyOf[leastRecent]
    <3>1. n > 0
      BY <1>1, <1>5, <1>8
    <3>2. Head(s) = s[1] /\ Tail(s) = w
      BY <1>1, <3>1, HeadAndTail
    <3>3. s[1] = keyOf[leastRecent]
      BY <1>1, <1>5, <1>8
    <3> QED BY <3>2, <3>3
  <2>4. Append(w, k) = [j \in 1..n |-> IF j <= n - 1 THEN w[j] ELSE k]
    <3>1. PICK m \in Nat : m = n - 1 /\ m + 1 = n
      BY <1>1, <1>5, <1>8
    <3>2. w = [j \in 1..m |-> w[j]]
      BY <3>1 DEF Cut
    <3> HIDE DEF w
    <3>3. Append(w, k) = [j \in 1..m + 1 |-> IF j <= m THEN w[j] ELSE k]
      BY <3>2, Appended
    <3> QED BY <3>1, <3>3
  <2> HIDE DEF g, w
  <2>5. OrderBar' = Append(w, k)
    BY <2>1, <2>2, <2>4
  <2> QED BY <1>1, <1>2, <1>5, <1>8, <2>3, <2>5
<1> QED BY <1>7, <1>8

\* What get() and put() do is what the sequence may do.
LEMMA GetRefines ==
  ASSUME LruInv, NEW k \in Keys, get(k)
  PROVE  Lru!Use(k)
<1>1. PICK n, f : LruGood(f, n)
  BY DEF LruInv
<1>2. PICK i \in 1..n : f[i] = nodeMap[k] /\ LruGood(Used(f, n, i), n)'
  BY <1>1, GetKeeps
<1>3. nodeMap[k] # Null /\ keyOf' = keyOf /\ valueOf' = valueOf /\ nodeMap' = nodeMap
  BY DEF get
<1>4. keyOf[f[i]] = k
  BY <1>1, <1>2, <1>3 DEF LruGood, MapTyped
<1>5. OrderBar' = Append(Lru!Without(OrderBar, k), k)
  BY <1>1, <1>2, <1>3, <1>4, UsedOrder
<1>6. \E j \in DOMAIN OrderBar : OrderBar[j] = k
  <2>1. OrderBar = Keyed(f, n) /\ Keyed(f, n) \in [1..n -> Keys] /\ Keyed(f, n)[i] = k
    BY <1>1, <1>4, OrderIsKeyed, KeyedOnce
  <2> QED BY <2>1
<1>7. ValueBar' = ValueBar
  BY <1>3 DEF ValueBar
<1> QED BY <1>5, <1>6, <1>7 DEF Lru!Use, Lru!Holds, OrderBar, ValueBar

LEMMA UpdateRefines ==
  ASSUME LruInv, Capacity > 0, NEW k \in Keys, NEW v \in Values, updateExistingNode(k, v)
  PROVE  Lru!Put(k)
<1>1. PICK n, f : LruGood(f, n)
  BY DEF LruInv
<1>2. PICK i \in 1..n : f[i] = nodeMap[k] /\ LruGood(Used(f, n, i), n)'
  BY <1>1, UpdateKeeps
<1>3. /\ nodeMap[k] # Null /\ keyOf' = keyOf /\ nodeMap' = nodeMap
      /\ valueOf' = [valueOf EXCEPT ![nodeMap[k]] = v]
  BY DEF updateExistingNode
<1>4. MapTyped /\ keyOf[f[i]] = k
  BY <1>1, <1>2, <1>3 DEF LruGood, MapTyped
<1>5. OrderBar' = Append(Lru!Without(OrderBar, k), k)
  BY <1>1, <1>2, <1>3, <1>4, UsedOrder
<1>6. \E j \in DOMAIN OrderBar : OrderBar[j] = k
  <2>1. OrderBar = Keyed(f, n) /\ Keyed(f, n) \in [1..n -> Keys] /\ Keyed(f, n)[i] = k
    BY <1>1, <1>4, OrderIsKeyed, KeyedOnce
  <2> QED BY <2>1
<1>7. ValueBar' = [j \in Keys |-> IF j = k THEN v ELSE ValueBar[j]]
  <2>1. ASSUME NEW j \in Keys
        PROVE  (IF nodeMap'[j] = Null THEN NoValue ELSE valueOf'[nodeMap'[j]])
                 = IF j = k THEN v ELSE ValueBar[j]
    <3>1. ValueBar[j] = IF nodeMap[j] = Null THEN NoValue ELSE valueOf[nodeMap[j]]
      BY DEF ValueBar
    <3>2. /\ valueOf \in [Nodes -> Values \union {NoValue}]
          /\ nodeMap[j] # Null => nodeMap[j] \in Nodes /\ (j # k => nodeMap[j] # nodeMap[k])
      BY <1>3, <1>4 DEF MapTyped
    <3> QED BY <1>3, <3>1, <3>2
  <2> QED BY <2>1 DEF ValueBar
<1>8. ValueBar' = [j \in Keys |-> CASE j = k -> v
                                    [] j # k /\ FALSE -> NoValue
                                    [] OTHER -> ValueBar[j]]
  BY <1>7
<1> QED BY <1>5, <1>6, <1>8 DEF Lru!Put, Lru!Holds, OrderBar, ValueBar

LEMMA AddRefines ==
  ASSUME LruInv, Capacity > 0, NEW k \in Keys, NEW v \in Values, addNewNode(k, v)
  PROVE  Lru!Put(k)
<1>1. PICK n, f : LruGood(f, n)
  BY DEF LruInv
<1>2. /\ \A i \in DOMAIN OrderBar : OrderBar[i] # k
      /\ Full <=> Len(OrderBar) = Capacity
      /\ OrderBar' = Append(IF Full THEN Tail(OrderBar) ELSE Lru!Without(OrderBar, k), k)
      /\ Full => Head(OrderBar) = keyOf[leastRecent]
  BY <1>1, AddedOrder
<1>3. PICK x : /\ nodeMap[k] = Null /\ x \in Nodes /\ x \notin Mapped \ Evicted
               /\ \A y \in Nodes : valueOf'[y] = IF y = x THEN v
                                                 ELSE IF y \in Evicted THEN NoValue ELSE valueOf[y]
               /\ \A j \in Keys : nodeMap'[j] = IF j = k THEN x
                                                ELSE IF nodeMap[j] \in Evicted THEN Null ELSE nodeMap[j]
  BY <1>1, EntryAdded
<1>4. MapTyped /\ (Full => leastRecent \in Mapped)
  BY <1>1, NodeForNewEntry DEF LruGood
<1>5. ASSUME NEW j \in Keys PROVE nodeMap[j] \in Evicted <=> Full /\ j = Head(OrderBar)
  <2>1. Full => (nodeMap[j] = leastRecent <=> j = keyOf[leastRecent])
    BY <1>4, MappedNodes
  <2> QED BY <1>2, <2>1 DEF Evicted
<1>6. ValueBar' = [j \in Keys |-> CASE j = k -> v
                                    [] j # k /\ Full /\ j = Head(OrderBar) -> NoValue
                                    [] OTHER -> ValueBar[j]]
  <2>1. ASSUME NEW j \in Keys
        PROVE  (IF nodeMap'[j] = Null THEN NoValue ELSE valueOf'[nodeMap'[j]])
                 = CASE j = k -> v
                     [] j # k /\ Full /\ j = Head(OrderBar) -> NoValue
                     [] OTHER -> ValueBar[j]
    <3>1. ValueBar[j] = IF nodeMap[j] = Null THEN NoValue ELSE valueOf[nodeMap[j]]
      BY DEF ValueBar
    <3>2. CASE j = k
      BY <1>3, <3>2, DummiesApart
    <3>3. CASE j # k /\ nodeMap[j] \in Evicted
      BY <1>3, <1>5, <3>3
    <3>4. CASE j # k /\ nodeMap[j] \notin Evicted
      <4>1. nodeMap'[j] = nodeMap[j] /\ ~(Full /\ j = Head(OrderBar))
        BY <1>3, <1>5, <3>4
      <4>2. nodeMap[j] # Null => nodeMap[j] \in Nodes /\ nodeMap[j] # x
        BY <1>3, <1>4, <3>4, MapLooksUp
      <4>3. nodeMap[j] # Null => valueOf'[nodeMap[j]] = valueOf[nodeMap[j]]
        BY <1>3, <3>4, <4>2
      <4> QED BY <3>1, <3>4, <4>1, <4>3
    <3> QED BY <3>2, <3>3, <3>4
  <2> QED BY <2>1 DEF ValueBar
<1>7. ~Lru!Holds(k)
  BY <1>2 DEF Lru!Holds, OrderBar
<1> DEFINE full == ~Lru!Holds(k) /\ Len(OrderBar) = Capacity
           PutInto(o, w, o1, w1) ==
             /\ o1 = Append(IF full THEN Tail(o) ELSE Lru!Without(o, k), k)
             /\ \E u \in Values : w1 = [j \in Keys |-> CASE j = k -> u
                                                        [] j # k /\ full /\ j = Head(o) -> NoValue
                                                        [] OTHER -> w[j]]
<1>8. full <=> Full
  BY <1>2, <1>7
<1>9. PutInto(OrderBar, ValueBar, OrderBar', ValueBar') => Lru!Put(k)
  BY ZenonT(60) DEF Lru!Put, OrderBar, ValueBar
<1> HIDE DEF full
<1>10. OrderBar' = Append(IF full THEN Tail(OrderBar) ELSE Lru!Without(OrderBar, k), k)
  BY <1>2, <1>8
<1>11. ValueBar' = [j \in Keys |-> CASE j = k -> v
                                     [] j # k /\ full /\ j = Head(OrderBar) -> NoValue
                                     [] OTHER -> ValueBar[j]]
  BY <1>6, <1>8
<1> QED BY <1>9, <1>10, <1>11

(* put, get and the eviction keep the cache a sequence of keys in order of *)
(* use, with the last value put for each (KLruCache).                      *)
THEOREM CacheIsLruSequence == Spec => ImplementsLru
<1>1. Init => Lru!Init
  <2> SUFFICES ASSUME Init PROVE Lru!Init
    OBVIOUS
  <2>1. nodeMap = [j \in Keys |-> Null]
    BY DEF Init, LruInit
  <2>2. PICK n, f : LruGood(f, n)
    BY InitLru DEF Init, LruInv
  <2>3. OrderBar = Keyed(f, n) /\ Keyed(f, n) \in [1..n -> Keys] /\ n \in Nat
    BY <2>2, OrderIsKeyed, KeyedOnce
  <2>4. \A i \in 1..n : nodeMap[keyOf[f[i]]] = f[i] /\ f[i] \in Mapped
    BY <2>2, KeyedOnce
  <2>5. Mapped = {}
    BY <2>1 DEF Mapped
  <2>6. 1..n = {}
    BY <2>4, <2>5
  <2>7. OrderBar = <<>>
    BY <2>3, <2>6
  <2>8. ValueBar = [j \in Keys |-> NoValue]
    BY <2>1 DEF ValueBar
  <2> QED BY <2>7, <2>8 DEF Lru!Init, OrderBar, ValueBar
<1>2. Inv /\ [Next]_vars => [Lru!Next]_(Lru!vars)
  <2> SUFFICES ASSUME Inv, [Next]_vars PROVE [Lru!Next]_(Lru!vars)
    OBVIOUS
  <2>1. CASE UNCHANGED lruVars
    <3>1. UNCHANGED <<next, keyOf, valueOf, nodeMap>>
      BY <2>1 DEF lruVars
    <3>2. Walk' = Walk
      BY <3>1 DEF Walk
    <3>3. OrderBar' = OrderBar /\ ValueBar' = ValueBar
      BY <3>1, <3>2 DEF OrderBar, ValueBar
    <3> QED BY <3>3 DEF Lru!vars, OrderBar, ValueBar
  <2>2. ASSUME NEW k \in Keys, get(k) PROVE Lru!Next
    BY <2>2, GetRefines DEF Inv, Lru!Next
  <2>3. ASSUME NEW k \in Keys, NEW v \in Values, put(k, v) PROVE Lru!Next \/ UNCHANGED lruVars
    BY <2>3, UpdateRefines, AddRefines DEF Inv, Lru!Next, put
  <2>4. ASSUME NEW t \in Threads, NEW x \in Targets, Route(t, x)
        PROVE  UNCHANGED lruVars \/ (\E k \in Keys : get(k))
    BY <2>4, CachedKeys DEF Route, Hit, Miss
  <2>5. ASSUME NEW t \in Threads, Store(t) PROVE \E k \in Keys, v \in Values : put(k, v)
    <3>1. pc[t] = "store" /\ put(target[t], response[t])
      BY <2>5 DEF Store
    <3>2. target[t] \in Keys /\ response[t] \in Made(target[t], now, version)
      BY <3>1, Placed DEF InHand, Inv
    <3>3. response[t] \in Values
      BY <3>2, MadeResponse DEF Inv, Clocks
    <3> QED BY <3>1, <3>2, <3>3
  <2>6. \/ UNCHANGED lruVars
        \/ \E k \in Keys : get(k)
        \/ \E k \in Keys, v \in Values : put(k, v)
    BY <2>4, <2>5 DEF Next, Tick, Change, ApplyTo, Handle, Pack, vars
  <2> QED BY <2>1, <2>2, <2>3, <2>6
<1> QED BY Invariant, <1>1, <1>2, PTL DEF Spec, ImplementsLru, Lru!Spec

-----------------------------------------------------------------------------
(* Bodies: a state of them in which every buffer has one owner, which has  *)
(* it as it was allocated, and what each operation makes of such a state.  *)
Cells == [buffer : Buffers \union {NoBuffer}, size : Nat, fromPool : BOOLEAN]
Owners(s) == {o \in Objects : s.own[o].buffer # NoBuffer}
Owned(s) == {s.own[o].buffer : o \in Owners(s)}

Good(s) ==
  /\ s = [own |-> s.own, heap |-> s.heap, faults |-> {}]
  /\ s.own \in [Objects -> Cells]
  /\ \A o, p \in Owners(s) : s.own[o].buffer = s.own[p].buffer => o = p
  /\ s.heap = [b \in Owned(s) |-> s.heap[b]]
  /\ \A o \in Owners(s) :
       s.heap[s.own[o].buffer] = [size |-> s.own[o].size, fromPool |-> s.own[o].fromPool]

LEMMA ObjectsFinite ==
  /\ IsFiniteSet(Objects)
  /\ Nodes \union Threads \union {Params[1], Params[2], Temp} = Objects
<1>1. IsFiniteSet({Params[1], Params[2], Temp})
  <2>1. IsFiniteSet({Params[1]}) /\ IsFiniteSet({Params[2]}) /\ IsFiniteSet({Temp})
    BY FS_Singleton
  <2>2. {Params[1], Params[2], Temp} = ({Params[1]} \union {Params[2]}) \union {Temp}
    OBVIOUS
  <2>3. IsFiniteSet({Params[1]} \union {Params[2]})
    BY <2>1, FS_Union
  <2>4. IsFiniteSet(({Params[1]} \union {Params[2]}) \union {Temp})
    BY <2>1, <2>3, FS_Union
  <2> QED BY <2>2, <2>4
<1>2. IsFiniteSet(Nodes \union Threads)
  BY LruAssumption, RouteAssumption, FS_Union
<1> QED BY <1>1, <1>2, RouteAssumption, FS_Union

\* There are as many buffers as owners.
LEMMA BuffersCounted ==
  ASSUME NEW s, Good(s)
  PROVE  IsFiniteSet(Owned(s)) /\ Cardinality(Owned(s)) = Cardinality(Owners(s)) /\ IsFiniteSet(Owners(s))
<1>1. IsFiniteSet(Owners(s))
  BY ObjectsFinite, FS_Subset DEF Owners
<1> DEFINE f == [o \in Owners(s) |-> s.own[o].buffer]
<1>2. f \in Bijection(Owners(s), Owned(s))
  <2>1. f \in [Owners(s) -> Owned(s)]
    BY DEF Owned
  <2>2. \A o, p \in Owners(s) : f[o] = f[p] => o = p
    BY DEF Good
  <2>3. \A b \in Owned(s) : \E o \in Owners(s) : f[o] = b
    BY DEF Owned
  <2> HIDE DEF f
  <2> QED BY <2>1, <2>2, <2>3 DEF Bijection, Injection, Surjection, IsInjective
<1>3. ExistsBijection(Owners(s), Owned(s))
  BY <1>2 DEF ExistsBijection
<1> QED BY <1>1, <1>3, FS_Bijection

LEMMA FreeBuffer ==
  ASSUME NEW s, Good(s), NEW o \in Objects, o \notin Owners(s)
  PROVE  \E b \in Buffers : b \notin Owned(s)
<1> SUFFICES ASSUME \A b \in Buffers : b \in Owned(s) PROVE FALSE
  OBVIOUS
<1>1. /\ IsFiniteSet(Owned(s)) /\ IsFiniteSet(Objects) /\ IsFiniteSet(Owners(s))
      /\ Cardinality(Owned(s)) = Cardinality(Owners(s))
  BY BuffersCounted, ObjectsFinite
<1>2. Objects \in SUBSET Owned(s)
  BY BodyAssumption
<1>3. Cardinality(Objects) <= Cardinality(Owned(s))
  BY <1>1, <1>2, FS_Subset
<1>4. Owners(s) \in SUBSET (Objects \ {o})
  BY DEF Owners
<1>5. /\ IsFiniteSet(Objects \ {o}) /\ Cardinality(Objects \ {o}) = Cardinality(Objects) - 1
  BY <1>1, FS_RemoveElement
<1>6. Cardinality(Owners(s)) <= Cardinality(Objects) - 1
  BY <1>4, <1>5, FS_Subset
<1>7. Cardinality(Objects) \in Nat /\ Cardinality(Owners(s)) \in Nat
  BY <1>1, FS_CardinalityType
<1> QED BY <1>1, <1>3, <1>6, <1>7

LEMMA Allocated ==
  ASSUME NEW s, Good(s), NEW o \in Objects, o \notin Owners(s), NEW size \in Nat
  PROVE  Good(Allocate(s, o, size)) /\ Owners(Allocate(s, o, size)) = Owners(s) \union {o}
<1> DEFINE b == IF o \notin DOMAIN s.heap THEN o ELSE CHOOSE x \in Buffers : x \notin DOMAIN s.heap
           pooled == size <= PoolLimit
           cell == [buffer |-> b, size |-> size, fromPool |-> pooled]
           r == Allocate(s, o, size)
<1>1. DOMAIN s.heap = Owned(s)
  BY DEF Good
<1>2. b \in Buffers /\ b \notin Owned(s) /\ b # NoBuffer
  BY <1>1, FreeBuffer, BodyAssumption
<1>3. r = [own |-> [s.own EXCEPT ![o] = cell],
           heap |-> [x \in DOMAIN s.heap \union {b} |->
                       IF x = b THEN [size |-> size, fromPool |-> pooled] ELSE s.heap[x]],
           faults |-> {}]
  <2>1. s.faults = {}
    BY DEF Good
  <2>2. r = [own |-> [s.own EXCEPT ![o] = cell],
             heap |-> [x \in DOMAIN s.heap \union {b} |->
                         IF x = b THEN [size |-> size, fromPool |-> pooled] ELSE s.heap[x]],
             faults |-> s.faults]
    BY DEF Allocate
  <2> HIDE DEF r, cell, b, pooled
  <2> QED BY <2>1, <2>2
<1>4. pooled \in BOOLEAN
  OBVIOUS
<1> HIDE DEF b, pooled
<1>5. cell \in Cells /\ cell.buffer = b /\ cell.size = size /\ cell.fromPool = pooled
  BY <1>2, <1>4 DEF Cells
<1> HIDE DEF r, cell
<1>6. /\ r.own = [s.own EXCEPT ![o] = cell]
      /\ r.heap = [x \in Owned(s) \union {b} |->
                     IF x = b THEN [size |-> size, fromPool |-> pooled] ELSE s.heap[x]]
      /\ r = [own |-> r.own, heap |-> r.heap, faults |-> {}]
  BY <1>1, <1>3
<1>7. r.own \in [Objects -> Cells] /\ \A p \in Objects : r.own[p] = IF p = o THEN cell ELSE s.own[p]
  BY <1>5, <1>6 DEF Good
<1>8. Owners(r) = Owners(s) \union {o}
  BY <1>2, <1>5, <1>7 DEF Owners
<1>9. \A p \in Owners(s) : p # o /\ p \in Objects /\ s.own[p].buffer \in Owned(s)
  BY DEF Owners, Owned
<1>10. Owned(r) = Owned(s) \union {b}
  <2>1. ASSUME NEW p \in Owners(r) PROVE r.own[p].buffer = IF p = o THEN b ELSE s.own[p].buffer
    BY <1>5, <1>7, <2>1 DEF Owners
  <2>2. o \in Owners(r) /\ \A p \in Owners(s) : p \in Owners(r) /\ p # o
    BY <1>8, <1>9
  <2> QED BY <1>8, <2>1, <2>2 DEF Owned
<1>11. ASSUME NEW p \in Owners(r), NEW q \in Owners(r), r.own[p].buffer = r.own[q].buffer PROVE p = q
  BY <1>2, <1>5, <1>7, <1>8, <1>9, <1>11 DEF Good
<1>12. ASSUME NEW p \in Owners(r)
       PROVE  r.heap[r.own[p].buffer] = [size |-> r.own[p].size, fromPool |-> r.own[p].fromPool]
  <2>1. CASE p = o
    BY <1>5, <1>6, <1>7, <2>1
  <2>2. CASE p # o
    <3>1. p \in Owners(s) /\ r.own[p] = s.own[p] /\ s.own[p].buffer \in Owned(s) /\ s.own[p].buffer # b
      BY <1>2, <1>7, <1>8, <1>9, <2>2
    <3>2. r.heap[s.own[p].buffer] = s.heap[s.own[p].buffer]
      BY <1>6, <3>1
    <3> QED BY <3>1, <3>2 DEF Good
  <2> QED BY <2>1, <2>2
<1>13. r.heap = [x \in Owned(r) |-> r.heap[x]]
  BY <1>6, <1>10
<1>14. Good(r)
  BY <1>6, <1>7, <1>11, <1>12, <1>13 DEF Good
<1> QED BY <1>8, <1>14 DEF r

LEMMA Released ==
  ASSUME NEW s, Good(s), NEW o \in Objects
  PROVE  Good(Release(s, o)) /\ Owners(Release(s, o)) = Owners(s) \ {o}
<1> DEFINE b == s.own[o].buffer
           r == Release(s, o)
<1>1. CASE b = NoBuffer
  <2>1. r = s
    BY <1>1 DEF Release
  <2>2. o \notin Owners(s)
    BY <1>1 DEF Owners
  <2> HIDE DEF r
  <2>3. Good(r) /\ Owners(r) = Owners(s) \ {o}
    BY <2>1, <2>2
  <2> QED BY <2>3 DEF r
<1>2. CASE b # NoBuffer
  <2>1. o \in Owners(s) /\ b \in Owned(s) /\ DOMAIN s.heap = Owned(s) /\ s.faults = {}
        /\ s.heap[b] = [size |-> s.own[o].size, fromPool |-> s.own[o].fromPool]
    BY <1>2 DEF Owners, Owned, Good
  <2>2. r = [own |-> [s.own EXCEPT ![o].buffer = NoBuffer],
             heap |-> Restrict(s.heap, DOMAIN s.heap \ {b}),
             faults |-> {}]
    BY <1>2, <2>1 DEF Release
  <2> HIDE DEF r
  <2>3. /\ r.own = [s.own EXCEPT ![o].buffer = NoBuffer]
        /\ r.heap = [x \in Owned(s) \ {b} |-> s.heap[x]]
        /\ r = [own |-> r.own, heap |-> r.heap, faults |-> {}]
    BY <2>1, <2>2 DEF Restrict
  <2>4. /\ r.own \in [Objects -> Cells]
        /\ \A p \in Objects \ {o} : r.own[p] = s.own[p]
        /\ r.own[o].buffer = NoBuffer
    BY <2>3 DEF Good, Cells
  <2>5. Owners(r) = Owners(s) \ {o}
    BY <2>4 DEF Owners
  <2>6. ASSUME NEW p \in Owners(r)
        PROVE  /\ p \in Owners(s) /\ r.own[p] = s.own[p]
               /\ s.own[p].buffer # b /\ s.own[p].buffer \in Owned(s)
    <3>1. p \in Owners(s) /\ p # o /\ p \in Objects
      BY <2>5, <2>6 DEF Owners
    <3> QED BY <2>1, <2>4, <3>1 DEF Good, Owned
  <2>7. Owned(r) = Owned(s) \ {b}
    <3>1. ASSUME NEW x \in Owned(s) \ {b} PROVE x \in Owned(r)
      <4>1. PICK p \in Owners(s) : x = s.own[p].buffer
        BY <3>1 DEF Owned
      <4>2. p \in Owners(r)
        BY <2>5, <3>1, <4>1
      <4> QED BY <2>6, <4>1, <4>2 DEF Owned
    <3>2. ASSUME NEW x \in Owned(r) PROVE x \in Owned(s) \ {b}
      <4>1. PICK p \in Owners(r) : x = r.own[p].buffer
        BY <3>2 DEF Owned
      <4> QED BY <2>6, <4>1
    <3> QED BY <3>1, <3>2
  <2>8. ASSUME NEW p \in Owners(r), NEW q \in Owners(r), r.own[p].buffer = r.own[q].buffer PROVE p = q
    BY <2>6, <2>8 DEF Good
  <2>9. ASSUME NEW p \in Owners(r)
        PROVE  r.heap[r.own[p].buffer] = [size |-> r.own[p].size, fromPool |-> r.own[p].fromPool]
    <3>1. r.heap[s.own[p].buffer] = s.heap[s.own[p].buffer]
      BY <2>3, <2>6
    <3> QED BY <2>6, <3>1 DEF Good
  <2>10. r.heap = [x \in Owned(r) |-> r.heap[x]]
    BY <2>3, <2>7
  <2>11. Good(r)
    BY <2>3, <2>4, <2>8, <2>9, <2>10 DEF Good
  <2> QED BY <2>5, <2>11 DEF r
<1> QED BY <1>1, <1>2

\* Changing what an object that owns nothing holds besides a buffer.
LEMMA Emptied ==
  ASSUME NEW s, Good(s), NEW o \in Objects, o \notin Owners(s), NEW c \in Cells, c.buffer = NoBuffer
  PROVE  Good([s EXCEPT !.own[o] = c]) /\ Owners([s EXCEPT !.own[o] = c]) = Owners(s)
<1> DEFINE r == [s EXCEPT !.own[o] = c]
<1>1. r = [own |-> [s.own EXCEPT ![o] = c], heap |-> s.heap, faults |-> {}]
  <2>1. /\ s.faults = {} /\ s = [own |-> s.own, heap |-> s.heap, faults |-> s.faults]
        /\ s.own = [x \in Objects |-> s.own[x]]
    BY DEF Good
  <2>2. r = [own |-> [s.own EXCEPT ![o] = c], heap |-> s.heap, faults |-> s.faults]
    BY <2>1
  <2> HIDE DEF r
  <2> QED BY <2>1, <2>2
<1> HIDE DEF r
<1>2. /\ r.own = [s.own EXCEPT ![o] = c] /\ r.heap = s.heap
      /\ r = [own |-> r.own, heap |-> r.heap, faults |-> {}]
  BY <1>1
<1>3. r.own \in [Objects -> Cells] /\ \A p \in Objects : r.own[p] = IF p = o THEN c ELSE s.own[p]
  BY <1>2 DEF Good
<1>4. Owners(r) = Owners(s)
  BY <1>3 DEF Owners
<1>5. \A p \in Owners(s) : r.own[p] = s.own[p]
  BY <1>3 DEF Owners
<1>6. Owned(r) = Owned(s)
  BY <1>4, <1>5 DEF Owned
<1>7. Good(r)
  BY <1>2, <1>3, <1>4, <1>5, <1>6 DEF Good
<1> QED BY <1>4, <1>7 DEF r

LEMMA EmptyCell == Empty \in Cells /\ Empty.buffer = NoBuffer
BY DEF Empty, Cells

LEMMA Destroyed ==
  ASSUME NEW s, Good(s), NEW o \in Objects
  PROVE  Good(Destroy(s, o)) /\ Owners(Destroy(s, o)) = Owners(s) \ {o}
<1>1. PICK r : r = Release(s, o)
  OBVIOUS
<1>2. Good(r) /\ Owners(r) = Owners(s) \ {o}
  BY <1>1, Released
<1>3. Destroy(s, o) = [r EXCEPT !.own[o] = Empty]
  BY <1>1 DEF Destroy
<1>4. Good([r EXCEPT !.own[o] = Empty]) /\ Owners([r EXCEPT !.own[o] = Empty]) = Owners(r)
  BY <1>2, EmptyCell, Emptied
<1> QED BY <1>2, <1>3, <1>4

LEMMA CopyMade ==
  ASSUME NEW s, Good(s), NEW o \in Objects, o \notin Owners(s), NEW p \in Objects
  PROVE  /\ Good(Copied(s, o, p)) /\ Owners(s) \subseteq Owners(Copied(s, o, p))
         /\ Owners(Copied(s, o, p)) \subseteq Owners(s) \union {o}
<1> DEFINE size == s.own[p].size
           cell == [buffer |-> NoBuffer, size |-> size, fromPool |-> FALSE]
<1>1. size \in Nat
  BY DEF Good, Cells
<1>2. CASE s.own[p].buffer # NoBuffer /\ size > 0
  BY <1>1, <1>2, Allocated DEF Copied
<1>3. CASE ~(s.own[p].buffer # NoBuffer /\ size > 0)
  <2>1. cell \in Cells /\ cell.buffer = NoBuffer
    BY <1>1 DEF Cells
  <2>2. Copied(s, o, p) = [s EXCEPT !.own[o] = cell]
    BY <1>3 DEF Copied
  <2> HIDE DEF cell
  <2> QED BY <2>1, <2>2, Emptied
<1> QED BY <1>2, <1>3

LEMMA CopyAssigned ==
  ASSUME NEW s, Good(s), NEW o \in Objects, NEW p \in Objects
  PROVE  /\ Good(CopyAssign(s, o, p))
         /\ Owners(CopyAssign(s, o, p)) \subseteq Owners(s) \union {o}
<1>1. CASE o = p
  BY <1>1 DEF CopyAssign
<1>2. CASE o # p
  <2>1. PICK r : r = Release(s, o)
    OBVIOUS
  <2>2. Good(r) /\ Owners(r) = Owners(s) \ {o}
    BY <2>1, Released
  <2>3. CopyAssign(s, o, p) = Copied(r, o, p)
    BY <1>2, <2>1 DEF CopyAssign
  <2>4. Good(Copied(r, o, p)) /\ Owners(Copied(r, o, p)) \subseteq Owners(r) \union {o}
    BY <2>2, CopyMade
  <2> QED BY <2>2, <2>3, <2>4
<1> QED BY <1>1, <1>2

LEMMA MoveAssigned ==
  ASSUME NEW s, Good(s), NEW o \in Objects, NEW p \in Objects, o # p
  PROVE  /\ Good(MoveAssign(s, o, p))
         /\ Owners(MoveAssign(s, o, p)) \subseteq (Owners(s) \union {o}) \ {p}
<1>1. PICK q : q = Release(s, o)
  OBVIOUS
<1>2. Good(q) /\ Owners(q) = Owners(s) \ {o} /\ o \notin Owners(q)
  BY <1>1, Released
<1> DEFINE w == [q.own EXCEPT ![o] = q.own[p], ![p] = Empty]
           r == [q EXCEPT !.own = w]
<1>3. MoveAssign(s, o, p) = r
  BY <1>1 DEF MoveAssign
<1>4. w \in [Objects -> Cells]
      /\ \A x \in Objects : w[x] = IF x = p THEN Empty ELSE IF x = o THEN q.own[p] ELSE q.own[x]
  <2>1. q.own \in [Objects -> Cells] /\ Empty \in Cells
    BY <1>2, EmptyCell DEF Good
  <2> QED BY <2>1
<1> HIDE DEF w
<1>5. r = [own |-> w, heap |-> q.heap, faults |-> {}]
  <2>1. q.faults = {} /\ q = [own |-> q.own, heap |-> q.heap, faults |-> q.faults]
    BY <1>2 DEF Good
  <2>2. r = [own |-> w, heap |-> q.heap, faults |-> q.faults]
    BY <2>1
  <2> HIDE DEF r
  <2> QED BY <2>1, <2>2
<1> HIDE DEF r
<1>6. /\ r.own = w /\ r.heap = q.heap /\ r = [own |-> r.own, heap |-> r.heap, faults |-> {}]
  BY <1>5
<1>7. /\ Owners(r) \in SUBSET Objects /\ p \notin Owners(r)
      /\ \A x \in Owners(r) : x # o => x \in Owners(q) /\ x # p /\ r.own[x] = q.own[x]
      /\ o \in Owners(r) => p \in Owners(q) /\ r.own[o] = q.own[p]
      /\ p \in Owners(q) => o \in Owners(r)
      /\ \A x \in Owners(q) : x # p => x \in Owners(r) /\ x # o /\ r.own[x] = q.own[x]
  BY <1>2, <1>4, <1>6, EmptyCell DEF Owners
<1>8. Owned(r) = Owned(q)
  <2>1. ASSUME NEW x \in Owners(r) PROVE r.own[x].buffer \in Owned(q)
    BY <1>7 DEF Owned
  <2>2. ASSUME NEW x \in Owners(q) PROVE q.own[x].buffer \in Owned(r)
    BY <1>7 DEF Owned
  <2> QED BY <2>1, <2>2 DEF Owned
<1>9. ASSUME NEW x \in Owners(r), NEW y \in Owners(r), r.own[x].buffer = r.own[y].buffer PROVE x = y
  <2>1. \A a, c \in Owners(q) : q.own[a].buffer = q.own[c].buffer => a = c
    BY <1>2 DEF Good
  <2> QED BY <1>7, <1>9, <2>1
<1>10. ASSUME NEW x \in Owners(r)
       PROVE  r.heap[r.own[x].buffer] = [size |-> r.own[x].size, fromPool |-> r.own[x].fromPool]
  <2>1. \A a \in Owners(q) :
          q.heap[q.own[a].buffer] = [size |-> q.own[a].size, fromPool |-> q.own[a].fromPool]
    BY <1>2 DEF Good
  <2> QED BY <1>6, <1>7, <2>1
<1>11. r.heap = [b \in Owned(r) |-> r.heap[b]]
  BY <1>2, <1>6, <1>8 DEF Good
<1>12. Good(r)
  BY <1>4, <1>6, <1>9, <1>10, <1>11 DEF Good
<1> QED BY <1>2, <1>3, <1>7, <1>12

-----------------------------------------------------------------------------
(* Requests and bodies: what owns a body is a node of the cache or the     *)
(* response of a request between packing and storing.                      *)
Storing == {t \in Threads : pc[t] = "store"}

BodiesInv == Good(bodies) /\ Owners(bodies) \subseteq Mapped \union Storing

\* The parameters and the temporary are neither nodes nor threads, and no thread is a node.
LEMMA Apart ==
  ASSUME Inv
  PROVE  /\ Mapped \subseteq Nodes /\ Storing \subseteq Threads
         /\ Nodes \intersect Threads = {}
         /\ {Params[1], Params[2], Temp} \intersect (Nodes \union Threads) = {}
         /\ Params[1] # Params[2] /\ Temp # Params[1] /\ Temp # Params[2]
<1>1. MapTyped
  BY DEF Inv, LruInv, LruGood
<1>2. Mapped \subseteq Nodes
  BY <1>1, MappedNodes
<1> QED BY <1>2, RouteAssumption DEF Storing

LEMMA BodiesStay ==
  ASSUME Inv, BodiesInv, Mapped' = Mapped, Storing \subseteq Storing', bodies' = bodies
  PROVE  BodiesInv'
<1>1. Good(bodies') /\ Owners(bodies') \subseteq Mapped' \union Storing'
  BY DEF BodiesInv
<1> QED BY <1>1 DEF BodiesInv, Good, Owners, Owned

LEMMA HitBodies ==
  ASSUME Inv, BodiesInv, NEW t \in Threads, NEW x \in Targets, Hit(t, x), pc[t] = "idle"
  PROVE  BodiesInv'
<1>1. x \in Keys /\ nodeMap[x] # Null /\ UNCHANGED nodeMap
  BY HitFresh DEF Hit, get
<1>2. nodeMap[x] \in Nodes /\ Mapped' = Mapped
  <2>1. MapTyped
    BY DEF Inv, LruInv, LruGood
  <2> QED BY <1>1, <2>1, MapLooksUp DEF Mapped
<1>3. Temp \notin Owners(bodies) /\ Temp # t /\ t \notin Owners(bodies)
  BY Apart DEF BodiesInv, Storing
<1>4. {Temp, t, nodeMap[x]} \subseteq Objects
  BY <1>2, ObjectsFinite
<1>5. PICK b1 : b1 = CopyConstruct(bodies, Temp, nodeMap[x])
  OBVIOUS
<1>6. Good(b1) /\ Owners(b1) \subseteq Owners(bodies) \union {Temp}
  BY <1>3, <1>4, <1>5, CopyMade DEF CopyConstruct, BodiesInv
<1>7. PICK b2 : b2 = MoveAssign(b1, t, Temp)
  OBVIOUS
<1>8. Good(b2) /\ Owners(b2) \subseteq (Owners(b1) \union {t}) \ {Temp}
  BY <1>3, <1>4, <1>6, <1>7, MoveAssigned
<1>9. PICK b3 : b3 = Destroy(b2, Temp)
  OBVIOUS
<1>10. Good(b3) /\ Owners(b3) = Owners(b2) \ {Temp}
  BY <1>4, <1>8, <1>9, Destroyed
<1>11. PICK b4 : b4 = Destroy(b3, t)
  OBVIOUS
<1>12. Good(b4) /\ Owners(b4) = Owners(b3) \ {t}
  BY <1>4, <1>10, <1>11, Destroyed
<1>13. bodies' = b4
  BY <1>5, <1>7, <1>9, <1>11 DEF Hit, Fetched
<1>14. Storing \subseteq Storing'
  BY Placed DEF Hit, Goto, Storing, Inv, Requests
<1>15. Owners(b4) \subseteq Mapped' \union Storing'
  BY <1>2, <1>3, <1>6, <1>8, <1>10, <1>12, <1>14 DEF BodiesInv
<1>16. Good(bodies') /\ Owners(bodies') \subseteq Mapped' \union Storing'
  BY <1>12, <1>13, <1>15
<1> QED BY <1>16 DEF BodiesInv, Good, Owners, Owned

LEMMA PackBodies ==
  ASSUME Inv, BodiesInv, NEW t \in Threads, Pack(t)
  PROVE  BodiesInv'
<1> DEFINE size == BodySize(response[t].target, response[t].version)
<1>1. /\ pc[t] = "pack" /\ pc' = [pc EXCEPT ![t] = "store"] /\ UNCHANGED lruVars
      /\ bodies' = Allocate(bodies, t, size)
  BY DEF Pack, Goto, Construct
<1>2. size \in Nat
  <2>1. PICK v \in 0..version :
          response[t] = [made |-> 0, target |-> target[t], version |-> v, expires |-> 0]
    BY <1>1, Placed DEF InHand, Unpacked
  <2>2. target[t] \in Keys
    BY <1>1, Placed DEF InHand
  <2>3. v \in 0..MaxVersion
    BY RouteAssumption DEF Inv, Clocks
  <2>4. response[t].target = target[t] /\ response[t].version = v
    BY <2>1
  <2> QED BY <2>2, <2>3, <2>4, KeysAssumption
<1>3. t \notin Owners(bodies) /\ t \in Objects
  BY <1>1, Apart, ObjectsFinite DEF BodiesInv, Storing
<1> HIDE DEF size
<1>4. Good(bodies') /\ Owners(bodies') = Owners(bodies) \union {t}
  BY <1>1, <1>2, <1>3, Allocated DEF BodiesInv
<1>5. Mapped' = Mapped
  BY <1>1 DEF lruVars, Mapped
<1>6. Storing' = Storing \union {t}
  BY <1>1 DEF Storing, Inv, Requests
<1>7. Good(bodies') /\ Owners(bodies') \subseteq Mapped' \union Storing'
  BY <1>4, <1>5, <1>6 DEF BodiesInv
<1> QED BY <1>7 DEF BodiesInv, Good, Owners, Owned

LEMMA StoreBodies ==
  ASSUME Inv, BodiesInv, NEW t \in Threads, Store(t)
  PROVE  BodiesInv'
<1>1. /\ pc[t] = "store" /\ put(target[t], response[t]) /\ bodies' = StoredBodies(t, target[t])
      /\ pc' = [pc EXCEPT ![t] = "idle"]
  BY DEF Store, Return, Goto
<1>2. PICK x \in Keys, v \in Values : x = target[t] /\ v = response[t]
  <2>1. target[t] \in Keys /\ response[t] \in Made(target[t], now, version)
    BY <1>1, Placed DEF InHand
  <2> QED BY <2>1, MadeResponse DEF Inv, Clocks
<1>3. PICK n, f : LruGood(f, n)
  BY DEF Inv, LruInv
<1>4. MapTyped
  BY <1>3 DEF LruGood
<1> DEFINE P1 == Params[1]
           P2 == Params[2]
           node == IF nodeMap[x] # Null THEN nodeMap[x] ELSE NewNode
           keeps(s) == Good(s) /\ Owners(s) \subseteq Mapped' \union Storing \union {P1}
<1>5. /\ P1 \in Objects /\ P2 \in Objects /\ t \in Objects /\ Nodes \subseteq Objects /\ P1 # P2
      /\ {P1, P2} \intersect (Nodes \union Threads) = {} /\ Nodes \intersect Threads = {}
      /\ Storing \subseteq Threads /\ Mapped \subseteq Nodes /\ t \in Threads
  BY Apart, ObjectsFinite
<1> HIDE DEF P1, P2
<1>6. PICK param : param = CopyConstruct(bodies, P1, t)
  OBVIOUS
<1>7. Good(param) /\ Owners(param) \subseteq Mapped \union Storing \union {P1}
  <2>1. P1 \notin Owners(bodies)
    BY <1>5 DEF BodiesInv
  <2>2. Good(param) /\ Owners(param) \subseteq Owners(bodies) \union {P1}
    BY <1>5, <1>6, <2>1, CopyMade DEF CopyConstruct, BodiesInv
  <2> QED BY <2>2 DEF BodiesInv
<1>8. PICK evicted : evicted = IF nodeMap[x] = Null /\ Full THEN Destroy(param, leastRecent) ELSE param
  OBVIOUS
<1>9. PICK copy : copy = CopyConstruct(evicted, P2, P1)
  OBVIOUS
<1>10. PICK made : made = CopyConstruct(copy, node, P2)
  OBVIOUS
<1>11. PICK put1 : put1 = CASE Capacity = 0 -> param
                            [] Capacity > 0 /\ nodeMap[x] # Null -> CopyAssign(param, node, P1)
                            [] OTHER -> Destroy(made, P2)
  OBVIOUS
<1>12. bodies' = Destroy(Destroy(put1, P1), t)
  BY <1>1, <1>2, <1>6, <1>8, <1>9, <1>10, <1>11 DEF StoredBodies, P1, P2
<1>13. Capacity \in Nat
  BY LruAssumption
<1>14. ASSUME Capacity = 0 PROVE keeps(put1)
  <2>1. Mapped' = Mapped
    BY <1>1, <1>14 DEF put, lruVars, Mapped
  <2>2. put1 = param
    BY <1>11, <1>14
  <2> QED BY <1>7, <2>1, <2>2
<1>15. ASSUME Capacity > 0 /\ nodeMap[x] # Null PROVE keeps(put1)
  <2>1. Mapped' = Mapped
    BY <1>1, <1>2, <1>15, LruAssumption DEF put, addNewNode, updateExistingNode, Mapped
  <2>2. put1 = CopyAssign(param, nodeMap[x], P1)
    BY <1>11, <1>15
  <2>3. nodeMap[x] \in Mapped
    BY <1>4, <1>15, MapLooksUp
  <2>4. Good(put1) /\ Owners(put1) \subseteq Owners(param) \union {nodeMap[x]}
    BY <1>5, <1>7, <2>2, <2>3, CopyAssigned
  <2> QED BY <1>7, <2>1, <2>3, <2>4
<1>16. ASSUME Capacity > 0 /\ nodeMap[x] = Null PROVE keeps(put1)
  <2>1. addNewNode(x, v)
    BY <1>1, <1>2, <1>16 DEF put, updateExistingNode
  <2>2. PICK y : y = NewNode
    OBVIOUS
  <2>3. y \in Nodes /\ y \notin Mapped \ Evicted /\ Mapped' = (Mapped \ Evicted) \union {y}
    BY <1>3, <1>16, <2>1, <2>2, EntryAdded
  <2>4. Full => leastRecent \in Mapped
    BY <1>3, <1>16, NodeForNewEntry
  <2>5. Good(evicted) /\ Owners(evicted) \subseteq (Mapped \ Evicted) \union Storing \union {P1}
    <3>1. CASE Full
      <4>1. evicted = Destroy(param, leastRecent) /\ Evicted = {leastRecent} /\ leastRecent \in Objects
        BY <1>5, <1>8, <1>16, <2>4, <3>1 DEF Evicted
      <4>2. Good(evicted) /\ Owners(evicted) = Owners(param) \ {leastRecent}
        BY <1>7, <4>1, Destroyed
      <4> QED BY <1>5, <1>7, <4>1, <4>2
    <3>2. CASE ~Full
      BY <1>7, <1>8, <3>2 DEF Evicted
    <3> QED BY <3>1, <3>2
  <2>6. P2 \notin Owners(evicted)
    BY <1>5, <2>5
  <2>7. Good(copy) /\ Owners(copy) \subseteq Owners(evicted) \union {P2}
    BY <1>5, <1>9, <2>5, <2>6, CopyMade DEF CopyConstruct
  <2>8. y \notin Owners(copy) /\ y \in Objects
    BY <1>5, <2>3, <2>5, <2>7
  <2>9. made = Copied(copy, y, P2)
    BY <1>10, <1>16, <2>2 DEF CopyConstruct
  <2>10. Good(made) /\ Owners(made) \subseteq Owners(copy) \union {y}
    BY <1>5, <2>7, <2>8, <2>9, CopyMade
  <2>11. put1 = Destroy(made, P2)
    BY <1>11, <1>13, <1>16
  <2>12. Good(put1) /\ Owners(put1) = Owners(made) \ {P2}
    BY <1>5, <2>10, <2>11, Destroyed
  <2> QED BY <2>3, <2>5, <2>7, <2>10, <2>12
<1>17. keeps(put1)
  BY <1>13, <1>14, <1>15, <1>16
<1>18. PICK b1 : b1 = Destroy(put1, P1)
  OBVIOUS
<1>19. Good(b1) /\ Owners(b1) = Owners(put1) \ {P1}
  BY <1>5, <1>17, <1>18, Destroyed
<1>20. Good(bodies') /\ Owners(bodies') = Owners(b1) \ {t}
  BY <1>5, <1>12, <1>18, <1>19, Destroyed
<1>21. Storing' = Storing \ {t}
  BY <1>1 DEF Storing, Inv, Requests
<1>22. Good(bodies') /\ Owners(bodies') \subseteq Mapped' \union Storing'
  BY <1>17, <1>19, <1>20, <1>21
<1> QED BY <1>22 DEF BodiesInv, Good, Owners, Owned

LEMMA InitBodies == Init => BodiesInv
<1> SUFFICES ASSUME Init PROVE BodiesInv
  OBVIOUS
<1>1. /\ bodies.own = [o \in Objects |-> Empty] /\ bodies.heap = [b \in {} |-> Empty]
      /\ bodies = [own |-> bodies.own, heap |-> bodies.heap, faults |-> {}]
  BY DEF Init, NoBodies
<1>2. Owners(bodies) = {}
  BY <1>1, EmptyCell DEF Owners
<1>3. Owned(bodies) = {}
  BY <1>2 DEF Owned
<1>4. bodies.own \in [Objects -> Cells]
  BY <1>1, EmptyCell
<1>5. bodies.heap = [b \in Owned(bodies) |-> bodies.heap[b]]
  BY <1>1, <1>3
<1> QED BY <1>1, <1>2, <1>4, <1>5 DEF BodiesInv, Good

LEMMA NextBodies == Inv /\ BodiesInv /\ [Next]_vars => BodiesInv'
<1> SUFFICES ASSUME Inv, BodiesInv, [Next]_vars PROVE BodiesInv'
  OBVIOUS
<1>1. CASE Tick \/ Change \/ UNCHANGED vars
  <2>1. UNCHANGED <<nodeMap, pc, bodies>>
    BY <1>1 DEF Tick, Change, vars, lruVars
  <2>2. Mapped' = Mapped /\ Storing' = Storing
    BY <2>1 DEF Mapped, Storing
  <2> QED BY <2>1, <2>2, BodiesStay
<1>2. ASSUME NEW t \in Threads, NEW x \in Targets, pc[t] = "idle", Miss(t, x) PROVE BodiesInv'
  <2>1. UNCHANGED <<nodeMap, bodies>> /\ pc' = [pc EXCEPT ![t] = "handle"]
    BY <1>2 DEF Miss, lruVars, Goto
  <2>2. Mapped' = Mapped /\ Storing \subseteq Storing'
    BY <1>2, <2>1 DEF Mapped, Storing, Inv, Requests
  <2> QED BY <2>1, <2>2, BodiesStay
<1>3. ASSUME NEW t \in Threads, NEW x \in Targets, Route(t, x) PROVE BodiesInv'
  BY <1>2, <1>3, HitBodies DEF Route
<1>4. ASSUME NEW t \in Threads, ApplyTo(t) \/ Handle(t) PROVE BodiesInv'
  <2>1. /\ UNCHANGED <<nodeMap, bodies>> /\ pc[t] \in {"hit", "handle"}
        /\ \E s : pc' = [pc EXCEPT ![t] = s]
    BY <1>4 DEF ApplyTo, Handle, Return, lruVars, Goto
  <2>2. Mapped' = Mapped /\ Storing \subseteq Storing'
    BY <2>1 DEF Mapped, Storing, Inv, Requests
  <2> QED BY <2>1, <2>2, BodiesStay
<1> QED BY <1>1, <1>3, <1>4, PackBodies, StoreBodies DEF Next

(* Every buffer of a cached response has one owner, a node of the cache or *)
(* a request between packing and storing, and is freed once, by the side   *)
(* that allocated it (CachedResponse's constructors, assignments and       *)
(* releaseBody, KLruCache::put and get).                                   *)
THEOREM BodiesFreedOnce == Spec => []BodiesOwned
<1>1. BodiesInv => BodiesOwned
  <2> SUFFICES ASSUME BodiesInv PROVE BodiesOwned
    OBVIOUS
  <2>1. bodies.faults = {} /\ DOMAIN bodies.heap = Owned(bodies)
    BY DEF BodiesInv, Good
  <2>2. Cardinality(Owned(bodies)) = Cardinality(Owners(bodies))
    BY BuffersCounted DEF BodiesInv
  <2> QED BY <2>1, <2>2 DEF BodiesOwned, BodiesInv, Owners, Owned, Storing
<1> QED BY Invariant, InitBodies, NextBodies, <1>1, PTL DEF Spec
=============================================================================
