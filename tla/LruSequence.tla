----------------------------- MODULE LruSequence -----------------------------
(***************************************************************************)
(* What a cache of the least recently used promises: a bounded sequence of *)
(* keys in the order of their last use, and the last value put for each.   *)
(***************************************************************************)
EXTENDS Naturals, Sequences

CONSTANTS Keys, Values, Capacity, NoValue

VARIABLES order, \* the keys it holds, the least recently used first
          value  \* of each key: the value held for it, or NoValue

vars == <<order, value>>

Holds(k) == \E i \in DOMAIN order : order[i] = k
Without(s, k) ==
  IF k \notin {s[i] : i \in DOMAIN s} THEN s
  ELSE LET at == CHOOSE i \in DOMAIN s : s[i] = k
       IN  [i \in 1..Len(s) - 1 |-> IF i < at THEN s[i] ELSE s[i + 1]]

Init == /\ order = <<>>
        /\ value = [k \in Keys |-> NoValue]

Use(k) == /\ Holds(k)
          /\ order' = Append(Without(order, k), k)
          /\ UNCHANGED value

Put(k) ==
  LET full == ~Holds(k) /\ Len(order) = Capacity
      kept == IF full THEN Tail(order) ELSE Without(order, k)
      Gone(j) == full /\ j = Head(order)
  IN  /\ Capacity > 0
      /\ order' = Append(kept, k)
      /\ \E v \in Values : value' = [j \in Keys |-> CASE j = k -> v
                                                     [] j # k /\ Gone(j) -> NoValue
                                                     [] OTHER -> value[j]]

Next == \E k \in Keys : Use(k) \/ Put(k)

Spec == Init /\ [][Next]_vars
=============================================================================
